--------------------------- MODULE MCNtsNtpServer ---------------------------
(***************************************************************************)
(* The NTS-NTP server functions over every request of up to three          *)
(* extension fields from a small alphabet, the requests                    *)
(* NTS_GenerateRequestAuth() builds for every number of cookies left, and  *)
(* every request and response mode.  The state is the input; the checks   *)
(* are invariants over it.                                                 *)
(***************************************************************************)
EXTENDS NtsNtpServer

\* Fields a request may carry: AEAD-and-EEF bodies that fit, fit only
\* without their 4-byte header, are too short, or overflow.
Alphabet ==
    {Field(UNIQUE_IDENTIFIER, "u1", UNIQ_ID_LENGTH),
     Field(UNIQUE_IDENTIFIER, "u2", UNIQ_ID_LENGTH),
     Field(COOKIE, "c1", RESPONSE_COOKIE_LENGTH),
     Field(COOKIE_PLACEHOLDER, "c1", RESPONSE_COOKIE_LENGTH),
     Field(AUTH_AND_EEF, [nl |-> 16, cl |-> 16], 36),
     Field(AUTH_AND_EEF, [nl |-> 16, cl |-> 16], 32),
     Field(AUTH_AND_EEF, [nl |-> 1, cl |-> 16], 24),
     Field(AUTH_AND_EEF, [nl |-> 16, cl |-> 16], 2),
     Field("NTP_EF_OTHER", "x", 16)}

\* NTS_GenerateRequestAuth() for every number of cookies left, with cookies
\* of the KE server of nts_ke.c.
ClientBuilt ==
    {ClientRequest(n, "u1", "c1", SERVER_COOKIE_LENGTH) : n \in 1..MAX_COOKIES}

ClientRequests == {b.fields : b \in ClientBuilt}

Modes == {MODE_CLIENT, MODE_SERVER, "MODE_BROADCAST"}

VARIABLES reqMode, resMode, request

vars == <<reqMode, resMode, request>>

Init ==
    /\ reqMode \in Modes
    /\ resMode \in Modes
    /\ request \in SeqOf(Alphabet, 3) \cup ClientRequests

Next == UNCHANGED vars

Spec == Init /\ [][Next]_vars

\* The fields of s of a type in T.
OfType(s, T) == SelectSeq(s, LAMBDA f : f.type \in T)

Response == GenerateResponseAuth(reqMode, resMode, request)

(***************************************************************************)
(* NTS_CheckRequestAuth() never accepts a request carrying two NTS-Cookie *)
(* fields, wherever they are and whatever lies between them (spec section *)
(* 4.J and scenario S6: "any additional full cookie -> reject").           *)
(***************************************************************************)
DuplicateCookieRejected ==
    CheckRequestAuth(reqMode, request) => Len(OfType(request, {COOKIE})) <= 1

(***************************************************************************)
(* A response NTS_GenerateResponseAuth() completes echoes the request's   *)
(* Unique Identifiers verbatim and in order, whatever else the request    *)
(* carries: the client matches the response to its request by it.         *)
(***************************************************************************)
UniqueIdEchoed ==
    Response.ok =>
        OfType(Response.fields, {UNIQUE_IDENTIFIER}) = OfType(request, {UNIQUE_IDENTIFIER})

(***************************************************************************)
(* Client and server agree: NTS_GenerateRequestAuth() fits its request    *)
(* into the NTP packet whatever the number of cookies left (placeholders  *)
(* make up for the missing ones), NTS_CheckRequestAuth() accepts it, and  *)
(* NTS_GenerateResponseAuth() answers it within the packet.                *)
(***************************************************************************)
ClientRequestAnswered ==
    \A b \in ClientBuilt :
        request = b.fields /\ reqMode = MODE_CLIENT /\ resMode = MODE_SERVER =>
            b.ok /\ CheckRequestAuth(reqMode, request) /\ Response.ok

\* The body of AEAD-and-EEF field f holds its header, padded nonce and padded ciphertext.
AeadFits(f) == 4 + Padded(f.body.nl) + Padded(f.body.cl) <= f.len

(***************************************************************************)
(* Spec section 4.J, check_request_auth(): an accepted request carries    *)
(* exactly one NTS-Cookie and an AEAD-and-EEF field, and the nonce and    *)
(* ciphertext of every AEAD-and-EEF field lie within its body, after the  *)
(* 4-byte header (section 6).                                              *)
(***************************************************************************)
RequestPerSpec ==
    CheckRequestAuth(reqMode, request) =>
        /\ Len(OfType(request, {COOKIE})) = 1
        /\ OfType(request, {AUTH_AND_EEF}) # <<>>
        /\ \A k \in 1..Len(request) : request[k].type = AUTH_AND_EEF => AeadFits(request[k])


(* request echoes its Unique Identifier, carries one fresh NTS-Cookie per  *)
(* NTS-Cookie or NTS-Cookie-Placeholder of the request, and an            *)
(* AEAD-and-EEF field.                                                     *)
(***************************************************************************)
ResponsePerSpec ==
    CheckRequestAuth(reqMode, request) /\ Response.ok =>
        /\ OfType(Response.fields, {UNIQUE_IDENTIFIER}) = OfType(request, {UNIQUE_IDENTIFIER})
        /\ Len(OfType(Response.fields, {COOKIE}))
             = Len(OfType(request, {COOKIE, COOKIE_PLACEHOLDER}))
        /\ Len(OfType(Response.fields, {AUTH_AND_EEF})) = 1

(***************************************************************************)
(* The NTS-NTP server does what spec section 4.J says of both functions:  *)
(* NTS_CheckRequestAuth() accepts only RequestPerSpec requests, and       *)
(* NTS_GenerateResponseAuth() answers them as ResponsePerSpec says.       *)
(***************************************************************************)
NtpServerPerSpec == RequestPerSpec /\ ResponsePerSpec
====
