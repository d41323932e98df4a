---------------------------- MODULE NtsNtpServer ----------------------------
(***************************************************************************)
(* NTS for NTP on the server (part_000): NTS_CheckRequestAuth() and        *)
(* NTS_GenerateResponseAuth(), and the extension fields of the request     *)
(* NTS_GenerateRequestAuth() builds for them.                              *)
(*                                                                         *)
(* A packet's extension fields are a sequence of [type, body, len]; len is *)
(* the body length in bytes.  A Unique Identifier's body is the id, a      *)
(* cookie's the cookie, an AEAD-and-EEF body is [nl, cl] (the nonce and    *)
(* ciphertext lengths of its header).  The NEF_ParseField() loop visits    *)
(* the fields in order and ends after the last one.  NEF_AddField()        *)
(* (ntp_ext.c, not in this repository) appends a field of 4 header bytes   *)
(* and the body padded to 4, and fails when the packet has no room left.   *)
(***************************************************************************)
EXTENDS Integers, Sequences, SequencesExt

CONSTANTS
    PacketRoom      \* bytes of extension fields an NTP packet can hold

MAX_COOKIES == 8
NONCE_LENGTH == 16
SIV_DIGEST_SIZE == 16
UNIQ_ID_LENGTH == 32
RESPONSE_COOKIE_LENGTH == 100   \* sizeof (cookie) in add_response_cookie()
SERVER_COOKIE_LENGTH == 4 + 16 + 64 + 16    \* sizeof (ServerCookie) of nts_ke.c

MODE_CLIENT == "MODE_CLIENT"
MODE_SERVER == "MODE_SERVER"

UNIQUE_IDENTIFIER  == "NTP_EF_NTS_UNIQUE_IDENTIFIER"
COOKIE             == "NTP_EF_NTS_COOKIE"
COOKIE_PLACEHOLDER == "NTP_EF_NTS_COOKIE_PLACEHOLDER"
AUTH_AND_EEF       == "NTP_EF_NTS_AUTH_AND_EEF"

\* The all-zero body add_response_cookie() sends.
ZeroCookie == "zero"

Field(type, body, len) == [type |-> type, body |-> body, len |-> len]

\* get_padded_length()
Padded(length) == IF length % 4 # 0 THEN length + 4 - (length % 4) ELSE length

\* parse_auth_and_eef(): the header fits and the padded lengths fit the body.
ParseAuthAndEef(f) ==
    /\ f.len >= 4
    /\ Padded(f.body.nl) + Padded(f.body.cl) <= f.len

(***************************************************************************)
(* One iteration of the NEF_ParseField() loop of NTS_CheckRequestAuth();   *)
(* acc.rejected is an early "return 0", acc.cookie that a cookie was seen. *)
(***************************************************************************)
CheckStepKeepLastCookie(acc, f) ==
    CASE acc.rejected -> acc
      [] f.type = COOKIE -> [acc EXCEPT !.cookie = TRUE]
      [] f.type = AUTH_AND_EEF /\ ~ParseAuthAndEef(f) -> [acc EXCEPT !.rejected = TRUE]
      [] OTHER -> acc

CheckStep(acc, f) ==
    CASE acc.rejected -> acc
      [] f.type = COOKIE -> IF acc.cookie THEN [acc EXCEPT !.rejected = TRUE]
                            ELSE [acc EXCEPT !.cookie = TRUE]
      [] f.type = AUTH_AND_EEF /\ ~ParseAuthAndEef(f) -> [acc EXCEPT !.rejected = TRUE]
      [] OTHER -> acc

\* NTS_CheckRequestAuth(): the cookie and the authenticator are not used.
CheckRequestAuth(mode, fields) ==
    /\ Len(fields) > 0
    /\ mode = MODE_CLIENT
    /\ ~FoldLeft(CheckStep, [rejected |-> FALSE, cookie |-> FALSE], fields).rejected

(***************************************************************************)
(* NEF_AddField() on a packet whose extension fields so far are acc.fields *)
(* (acc.length bytes); acc.ok becomes FALSE at the first failure, the      *)
(* early "return 0" of every caller.                                       *)
(***************************************************************************)
AddField(acc, type, body, len) ==
    LET size == 4 + Padded(len)
    IN  IF ~acc.ok \/ acc.length + size > PacketRoom THEN [acc EXCEPT !.ok = FALSE]
        ELSE [ok |-> TRUE, fields |-> Append(acc.fields, Field(type, body, len)),
              length |-> acc.length + size]

EmptyPacket == [ok |-> TRUE, fields |-> <<>>, length |-> 0]

\* add_response_cookie()
AddResponseCookie(acc) == AddField(acc, COOKIE, ZeroCookie, RESPONSE_COOKIE_LENGTH)

\* Variant of ResponseStep that does not copy the Unique Identifier.
ResponseStepNoEcho(acc, f) ==
    IF f.type \in {UNIQUE_IDENTIFIER, COOKIE, COOKIE_PLACEHOLDER}
    THEN AddResponseCookie(acc) ELSE acc

(***************************************************************************)
(* One iteration of the loop of NTS_GenerateResponseAuth().  The           *)
(* Unique-Identifier case has no break: it falls through to the cookie     *)
(* cases.                                                                  *)
(***************************************************************************)
ResponseStep(acc, f) ==
    LET echoed == IF f.type = UNIQUE_IDENTIFIER THEN AddField(acc, f.type, f.body, f.len)
                  ELSE acc
    IN  IF f.type \in {UNIQUE_IDENTIFIER, COOKIE, COOKIE_PLACEHOLDER}
        THEN AddResponseCookie(echoed) ELSE echoed

\* Variant of GenerateResponseAuth with the two mode checks swapped.
GenerateResponseAuthSwappedModes(reqMode, resMode, fields) ==
    IF reqMode # MODE_SERVER \/ resMode # MODE_CLIENT THEN [EmptyPacket EXCEPT !.ok = FALSE]
    ELSE FoldLeft(ResponseStep, EmptyPacket, fields)

\* NTS_GenerateResponseAuth(): the fields it appends to an empty response.
GenerateResponseAuth(reqMode, resMode, fields) ==
    IF reqMode # MODE_CLIENT \/ resMode # MODE_SERVER THEN [EmptyPacket EXCEPT !.ok = FALSE]
    ELSE FoldLeft(ResponseStep, EmptyPacket, fields)

(***************************************************************************)
(* The extension fields of NTS_GenerateRequestAuth() with numCookies      *)
(* cookies in the ring (before the decrement), the next one of length     *)
(* cookieLength: Unique Identifier, that cookie, MAX_COOKIES - numCookies *)
(* placeholders copying it, and the AEAD-and-EEF field.                    *)
(***************************************************************************)
ClientRequest(numCookies, uid, cookie, cookieLength) ==
    LET withId     == AddField(EmptyPacket, UNIQUE_IDENTIFIER, uid, UNIQ_ID_LENGTH)
        withCookie == AddField(withId, COOKIE, cookie, cookieLength)
        withHolders == FoldLeft(LAMBDA acc, i :
                                  AddField(acc, COOKIE_PLACEHOLDER, cookie, cookieLength),
                                withCookie, [i \in 1..(MAX_COOKIES - numCookies) |-> i])
    IN  AddField(withHolders, AUTH_AND_EEF, [nl |-> NONCE_LENGTH, cl |-> SIV_DIGEST_SIZE],
                 4 + NONCE_LENGTH + SIV_DIGEST_SIZE)
====
