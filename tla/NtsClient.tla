------------------------------ MODULE NtsClient ------------------------------
(***************************************************************************)
(* The NTS-NTP client instance (struct NTS_ClientInstance_Record of the    *)
(* NTS-for-NTP source) and the NTS-KE client connection it drives.        *)
(*                                                                         *)
(* The NTP layer calls NTS_PrepareForAuth() and NTS_GenerateRequestAuth()  *)
(* whenever it polls; the KE connection advances on socket events and its *)
(* timeout in between (the event loop is single-threaded, so each call    *)
(* and each event is one atomic step).  The NTS-KE server is the          *)
(* environment: for the n-th KE session it answers with one of            *)
(* ResponsesFor(n).                                                        *)
(*                                                                         *)
(* Random values (unique identifier, nonce) are fresh integers; cookies   *)
(* are opaque values [sess, n] naming the KE session that issued them,   *)
(* whose exporter keys they carry.  KE session n uses TLS session n;      *)
(* deinits counts the gnutls_deinit() calls of each.  After               *)
(* NTS_DestroyClientInstance() nothing runs.                               *)
(***************************************************************************)
EXTENDS Integers, Sequences, FiniteSets, NtsKeConn

CONSTANTS
    MaxCookies,      \* MAX_COOKIES
    ResponsesFor(_), \* the responses the server may write in KE session n
    MaxSessions,     \* bound on KE connections opened
    MaxRequests      \* bound on NTP requests generated

ASSUME Cardinality(Ids) = 1
ASSUME MaxCookies \in Nat \ {0}

\* The one KE instance pointer inst->nke.
Nke == CHOOSE id \in Ids : TRUE

VARIABLES
    numCookies,   \* inst->num_cookies
    cookieIndex,  \* inst->cookie_index
    cookies,      \* inst->cookies[]
    c2s,          \* the KE session whose C2S key is set in inst->siv_c2s (0: none)
    uniqId,       \* inst->uniq_id
    nonce,        \* inst->nonce
    draws,        \* random values drawn so far
    sessions,     \* KE sessions opened so far
    requests,     \* the NTP requests generated, in order
    cookieMsg,    \* the KE message the current cookies were taken from
    deinits,      \* gnutls_deinit() calls per TLS session
    destroyed,    \* NTS_DestroyClientInstance() has run
    leaked        \* TLS sessions create_session() allocated and lost

vars == <<conn, numCookies, cookieIndex, cookies, c2s, uniqId, nonce, draws,
          sessions, requests, cookieMsg, deinits, destroyed, leaked>>

CookieSlots == 0..(MaxCookies - 1)

\* needs_nke()
NeedsNke == numCookies = 0

\* NKE_GetCookies(): [num, cookies] of process_response() on the buffer.
GetCookies(c) ==
    IF c.mode # "KE_CLIENT" /\ c.state # "KE_CLOSED"
    THEN [num |-> 0, cookies |-> <<>>]
    ELSE ProcessResponse(CompleteRecords(c.msg.recs, c.msg.length), MaxCookies)

\* process_response() copies cookies into inst->cookies[] from index 0.
CopyCookies(got) ==
    [i \in CookieSlots |-> IF i < Len(got) THEN got[i + 1] ELSE cookies[i]]

Init ==
    /\ conn = [id \in Ids |-> NULL]
    /\ numCookies = 0
    /\ cookieIndex = 0
    /\ cookies = [i \in CookieSlots |-> NULL]
    /\ c2s = 0
    /\ uniqId = 0
    /\ nonce = 0
    /\ draws = 0
    /\ sessions = 0
    /\ requests = <<>>
    /\ cookieMsg = ResetMessage(<<>>)
    /\ deinits = [s \in 1..MaxSessions |-> 0]
    /\ destroyed = FALSE
    /\ leaked = {}

\* NKE_DestroyInstance(inst->nke); inst->nke = NULL.
DestroyNke ==
    /\ conn' = [conn EXCEPT ![Nke] = NULL]
    /\ LET s == DestroyedSession(conn[Nke])
       IN  deinits' = IF s = 0 THEN deinits ELSE [deinits EXCEPT ![s] = @ + 1]

----------------------------------------------------------------------------
\* NTS_PrepareForAuth() with cookies left returns 1 at once.
PrepareForAuthReady ==
    /\ ~NeedsNke
    /\ UNCHANGED vars

(***************************************************************************)
(* NTS_PrepareForAuth() with no cookies and no KE instance: get_nke_data() *)
(* creates one and opens the connection (when opening fails the instance  *)
(* is destroyed again and nothing changes).  It then resets cookie_index  *)
(* and asks the fresh instance for cookies, which yields none: the call   *)
(* returns 0.                                                              *)
(***************************************************************************)
OpenKe ==
    /\ NeedsNke
    /\ conn[Nke] = NULL
    /\ sessions < MaxSessions
    /\ \E resp \in ResponsesFor(sessions + 1) :
         LET c == OpenClientConnection(CreateInstance, sessions + 1, resp)
         IN  /\ conn' = [conn EXCEPT ![Nke] = c]
             /\ sessions' = sessions + 1
             /\ cookieIndex' = 0
             /\ numCookies' = GetCookies(c).num
             /\ cookies' = CopyCookies(GetCookies(c).cookies)
    /\ UNCHANGED <<c2s, uniqId, nonce, draws, requests, cookieMsg, deinits, destroyed, leaked>>

(***************************************************************************)
(* The same call when NKE_OpenClientConnection() fails: prepare_socket()   *)
(* fails, or create_session() returns NULL before gnutls_init() (no      *)
(* server name, gnutls_init() failing).  The KE_UNKNOWN instance is        *)
(* destroyed without gnutls_deinit() and nothing changes.                 *)
(***************************************************************************)
OpenKeFailed ==
    /\ NeedsNke
    /\ conn[Nke] = NULL
    /\ UNCHANGED vars

(***************************************************************************)
(* create_session() fails after gnutls_init() succeeded (server name,     *)
(* priority, credentials or ALPN): it returns NULL without gnutls_deinit(), *)
(* so the new TLS session is referenced by nothing and never released.    *)
(***************************************************************************)
OpenKeSessionLeaked ==
    /\ NeedsNke
    /\ conn[Nke] = NULL
    /\ sessions < MaxSessions
    /\ sessions' = sessions + 1
    /\ leaked' = leaked \cup {sessions + 1}
    /\ UNCHANGED <<conn, numCookies, cookieIndex, cookies, c2s, uniqId, nonce, draws,
                   requests, cookieMsg, deinits, destroyed>>

\* Variant of CollectCookies that keeps the cookies when NKE_GetKeys() fails.
CollectCookiesKeepOnKeyFailure ==
    /\ NeedsNke
    /\ conn[Nke] # NULL
    /\ LET got == GetCookies(conn[Nke]) IN
       /\ cookieIndex' = 0
       /\ cookies' = CopyCookies(got.cookies)
       /\ numCookies' = got.num
       /\ \E keysOk \in BOOLEAN :
            IF got.num = 0 \/ ~keysOk
            THEN UNCHANGED <<conn, c2s, uniqId, nonce, draws, cookieMsg, deinits>>
            ELSE /\ c2s' = conn[Nke].session
                 /\ DestroyNke
                 /\ uniqId' = draws + 1
                 /\ nonce' = draws + 2
                 /\ draws' = draws + 2
                 /\ cookieMsg' = conn[Nke].msg
    /\ UNCHANGED <<sessions, requests, destroyed, leaked>>

\* Variant of CollectCookies that drops inst->nke without NKE_DestroyInstance().
CollectCookiesNoDestroy ==
    /\ NeedsNke
    /\ conn[Nke] # NULL
    /\ LET got == GetCookies(conn[Nke]) IN
       /\ cookieIndex' = 0
       /\ cookies' = CopyCookies(got.cookies)
       /\ \E keysOk \in BOOLEAN :
            IF got.num = 0 \/ ~keysOk
            THEN /\ numCookies' = 0
                 /\ UNCHANGED <<conn, c2s, uniqId, nonce, draws, cookieMsg, deinits>>
            ELSE /\ numCookies' = got.num
                 /\ c2s' = conn[Nke].session
                 /\ conn' = [conn EXCEPT ![Nke] = NULL]
                 /\ uniqId' = draws + 1
                 /\ nonce' = draws + 2
                 /\ draws' = draws + 2
                 /\ cookieMsg' = conn[Nke].msg
                 /\ UNCHANGED deinits
    /\ UNCHANGED <<sessions, requests, destroyed, leaked>>

(***************************************************************************)
(* NTS_PrepareForAuth() with no cookies and a KE instance, whatever its    *)
(* state: get_nke_data() takes the cookies process_response() finds in    *)
(* its buffer.  With none, or when NKE_GetKeys() fails, the call returns 0 *)
(* and keeps the instance.  Otherwise it sets the SIV keys, destroys the  *)
(* instance, and NTS_PrepareForAuth() draws a new unique id and nonce.    *)
(***************************************************************************)
CollectCookies ==
    /\ NeedsNke
    /\ conn[Nke] # NULL
    /\ LET got == GetCookies(conn[Nke]) IN
       /\ cookieIndex' = 0
       /\ cookies' = CopyCookies(got.cookies)
       /\ \E keysOk \in BOOLEAN :
            IF got.num = 0 \/ ~keysOk
            THEN /\ numCookies' = 0
                 /\ UNCHANGED <<conn, c2s, uniqId, nonce, draws, cookieMsg, deinits>>
            ELSE /\ numCookies' = got.num
                 /\ c2s' = conn[Nke].session
                 /\ DestroyNke
                 /\ uniqId' = draws + 1
                 /\ nonce' = draws + 2
                 /\ draws' = draws + 2
                 /\ cookieMsg' = conn[Nke].msg
    /\ UNCHANGED <<sessions, requests, destroyed, leaked>>

\* Variants of GenerateRequestAuth: cookie_index not advanced; needs_nke() check dropped.
GenerateRequestAuthNoAdvance ==
    /\ ~NeedsNke
    /\ Len(requests) < MaxRequests
    /\ requests' = Append(requests,
                     [uid |-> uniqId, cookie |-> cookies[cookieIndex],
                      placeholders |-> MaxCookies - numCookies, key |-> c2s, nonce |-> nonce])
    /\ numCookies' = numCookies - 1
    /\ UNCHANGED <<conn, cookies, cookieIndex, c2s, uniqId, nonce, draws, sessions, cookieMsg,
                   deinits, destroyed, leaked>>

GenerateRequestAuthNoCheck ==
    /\ Len(requests) < MaxRequests
    /\ requests' = Append(requests,
                     [uid |-> uniqId, cookie |-> cookies[cookieIndex],
                      placeholders |-> MaxCookies - numCookies, key |-> c2s, nonce |-> nonce])
    /\ numCookies' = numCookies - 1
    /\ cookieIndex' = (cookieIndex + 1) % MaxCookies
    /\ UNCHANGED <<conn, cookies, c2s, uniqId, nonce, draws, sessions, cookieMsg,
                   deinits, destroyed, leaked>>

(***************************************************************************)
(* NTS_GenerateRequestAuth(): the request carries the unique id, the next *)
(* cookie of the ring, MAX_COOKIES - num_cookies placeholders and an      *)
(* authenticator made with the C2S key and the nonce; then one cookie is  *)
(* consumed.                                                               *)
(***************************************************************************)
GenerateRequestAuth ==
    /\ ~NeedsNke
    /\ Len(requests) < MaxRequests
    /\ requests' = Append(requests,
                     [uid |-> uniqId, cookie |-> cookies[cookieIndex],
                      placeholders |-> MaxCookies - numCookies, key |-> c2s, nonce |-> nonce])
    /\ numCookies' = numCookies - 1
    /\ cookieIndex' = (cookieIndex + 1) % MaxCookies
    /\ UNCHANGED <<conn, cookies, c2s, uniqId, nonce, draws, sessions, cookieMsg,
                   deinits, destroyed, leaked>>

\* A socket event or the timeout of the KE client connection.
KeStep ==
    /\ \/ ConnectResult(Nke)
       \/ TlsFatal(Nke)
       \/ TlsAgain(Nke)
       \/ HandshakeDone(Nke)
       \/ SendData(Nke)
       \/ MessageTooLong(Nke)
       \/ ReceiveData(Nke, TRUE, <<>>, 0)
       \/ ReceiveEof(Nke, TRUE, <<>>, 0)
       \/ ShutdownDone(Nke)
       \/ SessionTimeout(Nke)
    /\ UNCHANGED <<numCookies, cookieIndex, cookies, c2s, uniqId, nonce, draws,
                   sessions, requests, cookieMsg, deinits, destroyed, leaked>>

\* NTS_DestroyClientInstance(): destroys the KE instance, if any, and frees inst.
DestroyClientInstance ==
    /\ ~destroyed
    /\ destroyed' = TRUE
    /\ IF conn[Nke] # NULL THEN DestroyNke ELSE UNCHANGED <<conn, deinits>>
    /\ UNCHANGED <<numCookies, cookieIndex, cookies, c2s, uniqId, nonce, draws,
                   sessions, requests, cookieMsg, leaked>>

\* The instance has been destroyed: no call reaches it any more.
Terminated ==
    /\ destroyed
    /\ UNCHANGED vars

Next ==
    \/ /\ ~destroyed
       /\ \/ PrepareForAuthReady
          \/ OpenKe
          \/ OpenKeFailed
          \/ OpenKeSessionLeaked
          \/ CollectCookies
          \/ GenerateRequestAuth
          \/ KeStep
    \/ DestroyClientInstance
    \/ Terminated

Spec == Init /\ [][Next]_vars

----------------------------------------------------------------------------
Cookie == [sess : Nat, n : Nat]

TypeOK ==
    /\ \/ conn[Nke] = NULL
       \/ conn[Nke].mode \in Modes /\ conn[Nke].state \in States
    /\ numCookies \in 0..MaxCookies
    /\ cookieIndex \in CookieSlots
    /\ cookies \in [CookieSlots -> Cookie \cup {NULL}]
    /\ c2s \in 0..sessions
    /\ requests \in Seq([uid : Nat, cookie : Cookie \cup {NULL}, placeholders : Nat,
                         key : Nat, nonce : Nat])
    /\ deinits \in [1..MaxSessions -> Nat]
    /\ destroyed \in BOOLEAN
    /\ leaked \subseteq 1..sessions

(***************************************************************************)
(* Every TLS session a KE instance held is released exactly once: never   *)
(* twice, and by the time NTS_DestroyClientInstance() returns, whichever  *)
(* way its KE ended (cookies and keys taken, failure kept in inst->nke,   *)
(* several sessions over successive KEs).  get_nke_data() and             *)
(* NTS_DestroyClientInstance() must both go through NKE_DestroyInstance(). *)
(* The sessions in leaked never reached an instance: create_session()     *)
(* lost them, and no code of the client can release them (finding 5).     *)
(***************************************************************************)
SessionsReleased ==
    /\ \A s \in 1..sessions : deinits[s] <= 1
    /\ destroyed => \A s \in (1..sessions) \ leaked : deinits[s] = 1

(***************************************************************************)
(* Unlinkability: NTS_GenerateRequestAuth() never sends the same cookie in *)
(* two requests (cookie_index and num_cookies advance together through    *)
(* the ring, and get_nke_data() refills it from index 0).                 *)
(***************************************************************************)
NoCookieReuse ==
    \A i, j \in 1..Len(requests) : i # j => requests[i].cookie # requests[j].cookie

(***************************************************************************)
(* Every request carries a cookie of the KE session whose C2S key         *)
(* authenticates it, so the server can open the cookie and verify the    *)
(* request: get_nke_data() must not keep new cookies when NKE_GetKeys()   *)
(* fails and siv_c2s still holds an older session's key.                  *)
(***************************************************************************)
RequestCookieMatchesKey ==
    \A i \in 1..Len(requests) :
        requests[i].cookie # NULL /\ requests[i].cookie.sess = requests[i].key

(***************************************************************************)
(* The cookies the client holds come from a KE response that              *)
(* check_message_format() accepts (complete, ending with End-of-Message). *)
(* get_nke_data() calls NKE_GetCookies() on an instance in any state,     *)
(* including one still receiving or closed after an error.                *)
(***************************************************************************)
CookiesFromCompleteResponse ==
    numCookies > 0 =>
        CheckMessageFormat(cookieMsg.recs, cookieMsg.length, cookieMsg.eof) = "MSG_OK"

(***************************************************************************)
(* Each NTP request carries a fresh unique identifier (spec section 2:    *)
(* per request the client "generates a unique identifier and a fresh      *)
(* nonce"); NTS_PrepareForAuth() draws them only after a KE.              *)
(***************************************************************************)
FreshUniqueId ==
    \A i, j \in 1..Len(requests) : i # j => requests[i].uid # requests[j].uid

(***************************************************************************)
(* A client whose KE connection closed without yielding cookies (timeout, *)
(* TLS error, bad response) eventually opens a new one: the spec leaves   *)
(* retries to the NTP layer re-invoking NTS_PrepareForAuth(), which       *)
(* get_nke_data() only does when inst->nke is NULL.                        *)
(***************************************************************************)
KeRetried ==
    (NeedsNke /\ conn[Nke] # NULL /\ conn[Nke].state = "KE_CLOSED")
        ~> (conn[Nke] = NULL \/ ~NeedsNke \/ destroyed)

(***************************************************************************)
(* The NTP layer keeps polling (NTS_PrepareForAuth() is called again and  *)
(* again) and the scheduler fires the KE timeout.                          *)
(***************************************************************************)
FairSpec ==
    /\ Spec
    /\ WF_vars(OpenKe)
    /\ WF_vars(CollectCookies)
    /\ WF_vars(KeStep)
=============================================================================
