----------------------------- MODULE NtsKeServer -----------------------------
(***************************************************************************)
(* The NTS-KE server of nts_ke.c: the pool server_instances[] filled by   *)
(* accept_connection(), the KE connections of NtsKeConn in server mode,   *)
(* and the key ring of NtsServerKeys that prepare_response() seals        *)
(* cookies with.  Slot i of the pool is conn[i]; a slot in freed still    *)
(* holds the pointer of an instance NKE_DestroyInstance() has freed.       *)
(*                                                                         *)
(* Clients are the environment: each accepted connection carries one of   *)
(* Requests, the records the client writes.  TLS sessions are numbered by *)
(* the accept that created them; allocated and deinits follow each        *)
(* gnutls_init() and gnutls_deinit() of one, gnutls_deinit(NULL) doing    *)
(* nothing.  NKE_Initialise() opens the listening sockets and starts key *)
(* rotation; NKE_Finalise() ends the server: after it only stuttering.    *)
(***************************************************************************)
EXTENDS Integers, Sequences, FiniteSets, NtsKeConn, NtsServerKeys

CONSTANTS
    MaxCookies,     \* MAX_COOKIES of nts_ke.c
    CookieLength,   \* sizeof (ServerCookie)
    Requests,       \* the request messages clients may write
    MaxAccepts      \* bound on accept_connection() calls

ASSUME Ids = 1..Cardinality(Ids)

VARIABLES
    freed,          \* slots whose pointer refers to freed memory
    accepts,        \* accept_connection() calls so far
    allocated,      \* the sessions gnutls_init() has allocated
    deinits,        \* gnutls_deinit() calls per session
    finalised,      \* NKE_Finalise() has run
    initialised,    \* NKE_Initialise() has run
    listening,      \* a server socket has accept_connection() registered
    keyTimer        \* the server_key_timeout() timeout is armed

tlsVars == <<allocated, deinits>>

initVars == <<initialised, listening, keyTimer>>

vars == <<conn, serverKeys, currentKey, rotations, issued, freed, accepts, tlsVars,
          finalised, initVars>>

\* The first slot of the loop in accept_connection().
FirstSlot(S) == CHOOSE i \in S : \A j \in S : i <= j

(***************************************************************************)
(* The slots the loop of accept_connection() may stop at: a NULL pointer  *)
(* or a closed instance.  For a freed slot it reads inst->state from      *)
(* freed memory, taken to still hold the freed instance (nothing else is  *)
(* allocated in between).                                                  *)
(***************************************************************************)
Usable == {i \in Ids : conn[i] = NULL \/ conn[i].state = "KE_CLOSED"}

\* The instance the loop takes from slot i (NKE_CreateInstance() for NULL).
Taken(i) == IF conn[i] = NULL THEN CreateInstance ELSE conn[i]

\* The cookies prepare_response() seals for the TLS session of a connection.
SealCookies(sess) == [k \in 1..MaxCookies |-> SealCookie(sess)]

ServerInit ==
    /\ conn = [i \in Ids |-> NULL]
    /\ KeyInit
    /\ freed = {}
    /\ accepts = 0
    /\ allocated = {}
    /\ deinits = [s \in Sessions |-> 0]
    /\ finalised = FALSE
    /\ initialised = FALSE
    /\ listening = FALSE
    /\ keyTimer = FALSE

(***************************************************************************)
(* NKE_Initialise().  With no certificate and key nothing listens and no  *)
(* key is generated.  Otherwise each socket prepare_socket() opens         *)
(* (open4, open6) gets accept_connection(); which one listens makes no     *)
(* difference to the server.  UTI_StringToIP("0.0.0.0") always parses,     *)
(* but UTI_StringToIP("::") fails in a build without IPv6, and the early   *)
(* return then skips current_server_key = 0 and the first                 *)
(* server_key_timeout() after the IPv4 socket is already registered.       *)
(***************************************************************************)
NkeInitialise ==
    /\ ~initialised
    /\ initialised' = TRUE
    /\ \E certAndKey, v6Parses, open4, open6 \in BOOLEAN :
         IF certAndKey /\ v6Parses
         THEN /\ listening' = (open4 \/ open6)
              /\ keyTimer' = TRUE
              /\ ServerKeyTimeout
         ELSE /\ listening' = (certAndKey /\ open4)
              /\ keyTimer' = FALSE
              /\ UNCHANGED <<serverKeys, currentKey, rotations, issued>>
    /\ UNCHANGED <<conn, freed, accepts, tlsVars, finalised>>

\* gnutls_deinit() of ss[k] for every k (a NULL session, 0, is no session).
DeinitSessions(ss) ==
    deinits' = [s \in Sessions |-> deinits[s] + Cardinality({k \in DOMAIN ss : ss[k] = s})]

AcceptCall ==
    /\ listening
    /\ accepts < MaxAccepts
    /\ accepts' = accepts + 1
    /\ UNCHANGED <<serverKeys, currentKey, rotations, issued, finalised, initVars>>

(***************************************************************************)
(* accept() fails, NCR_CheckAccessRestriction() denies the client, or no  *)
(* slot is NULL or closed ("too many connections"): the socket is closed  *)
(* and nothing else changes, so these need no bound.                       *)
(***************************************************************************)
AcceptRejected ==
    /\ listening
    /\ UNCHANGED vars

AcceptNoSlot ==
    /\ listening
    /\ Usable = {}
    /\ UNCHANGED vars

\* fcntl(O_NONBLOCK) fails after the slot was taken (and perhaps filled).
AcceptFcntlFailed ==
    /\ AcceptCall
    /\ Usable # {}
    /\ SetConn(FirstSlot(Usable), Taken(FirstSlot(Usable)))
    /\ UNCHANGED <<freed, tlsVars>>

\* create_session() fails, after gnutls_init() succeeded (the session leaks) or not.
CreateSessionFailed ==
    \/ allocated' = allocated \cup {accepts + 1}
    \/ UNCHANGED allocated

\* Variant of AcceptSessionFailed that keeps inst->session after gnutls_deinit().
AcceptSessionFailedNoReset ==
    /\ AcceptCall
    /\ Usable # {}
    /\ LET i == FirstSlot(Usable)
           c == Taken(i)
       IN  /\ SetConn(i, c)
           /\ freed' = freed \cup {i}
           /\ CreateSessionFailed
           /\ DeinitSessions(<<c.session, DestroyedSession(c)>>)

(***************************************************************************)
(* accept_server_connection() deinitialises the session the instance kept *)
(* and sets it to NULL, then create_session() fails: NKE_DestroyInstance() *)
(* calls gnutls_deinit(NULL) (mode is not KE_UNKNOWN on a reused instance) *)
(* and frees the instance, but server_instances[i] keeps pointing at it.  *)
(***************************************************************************)
AcceptSessionFailed ==
    /\ AcceptCall
    /\ Usable # {}
    /\ LET i == FirstSlot(Usable)
           c == Taken(i)
       IN  /\ SetConn(i, [c EXCEPT !.session = 0])
           /\ freed' = freed \cup {i}
           /\ CreateSessionFailed
           /\ DeinitSessions(<<c.session, DestroyedSession([c EXCEPT !.session = 0])>>)

\* accept_server_connection() succeeds: the old session is deinitialised and
\* the connection starts in KE_HANDSHAKE with a new one.
AcceptOk ==
    /\ AcceptCall
    /\ Usable # {}
    /\ \E req \in Requests :
         LET i == FirstSlot(Usable)
         IN  /\ SetConn(i, AcceptServerConnection(Taken(i), accepts + 1, req))
             /\ DeinitSessions(<<Taken(i).session>>)
    /\ allocated' = allocated \cup {accepts + 1}
    /\ UNCHANGED freed

\* The cookies in the message of instance c.
CookiesIn(c) == {c.msg.recs[k].data[1] : k \in {k \in 1..Len(c.msg.recs) :
                                                 c.msg.recs[k].type = RECORD_COOKIE}}

(***************************************************************************)
(* A socket event or the timeout of the connection in slot i.  When it    *)
(* moves the connection from KE_RECEIVE to KE_SEND, the cookies of the    *)
(* response are the ones prepare_response() has just sealed.              *)
(***************************************************************************)
ConnStep(i) ==
    /\ \/ TlsFatal(i)
       \/ TlsAgain(i)
       \/ HandshakeDone(i)
       \/ SendData(i)
       \/ MessageTooLong(i)
       \/ \E keysOk \in BOOLEAN :
            ReceiveData(i, keysOk, SealCookies(conn[i].session), CookieLength)
       \/ \E keysOk \in BOOLEAN :
            ReceiveEof(i, keysOk, SealCookies(conn[i].session), CookieLength)
       \/ ShutdownDone(i)
       \/ SessionTimeout(i)
    /\ IF conn[i] # NULL /\ conn[i].state = "KE_RECEIVE" /\ conn'[i].state = "KE_SEND"
       THEN IssueCookies(CookiesIn(conn'[i]))
       ELSE UNCHANGED issued
    /\ UNCHANGED <<serverKeys, currentKey, rotations, freed, accepts, tlsVars, finalised,
                   initVars>>

KeyRotation ==
    /\ keyTimer
    /\ ServerKeyTimeout
    /\ UNCHANGED <<conn, freed, accepts, tlsVars, finalised, initVars>>

(***************************************************************************)
(* NKE_Finalise(): the listening sockets are closed and every non-NULL    *)
(* slot goes to NKE_DestroyInstance() (close_connection(), gnutls_deinit() *)
(* unless KE_UNKNOWN, free), a freed slot included.  The pointers are not *)
(* reset; nothing runs afterwards.                                         *)
(***************************************************************************)
NkeFinalise ==
    /\ initialised
    /\ ~finalised
    /\ finalised' = TRUE
    /\ listening' = FALSE
    /\ LET destroyed == {i \in Ids : conn[i] # NULL}
       IN  /\ conn' = [i \in Ids |-> IF i \in destroyed THEN CloseConnection(conn[i]) ELSE NULL]
           /\ DeinitSessions([i \in destroyed |-> DestroyedSession(conn[i])])
    /\ UNCHANGED <<serverKeys, currentKey, rotations, issued, freed, accepts, allocated,
                   initialised, keyTimer>>

\* The process has exited.
Terminated ==
    /\ finalised
    /\ UNCHANGED vars

ServerNext ==
    \/ NkeInitialise
    \/ /\ initialised /\ ~finalised
       /\ \/ AcceptRejected
          \/ AcceptNoSlot
          \/ AcceptFcntlFailed
          \/ AcceptSessionFailed
          \/ AcceptOk
          \/ \E i \in Ids : ConnStep(i)
          \/ KeyRotation
    \/ NkeFinalise
    \/ Terminated

ServerSpec == ServerInit /\ [][ServerNext]_vars

\* The session timeout of slot i fires, alone.
ConnTimeout(i) ==
    /\ SessionTimeout(i)
    /\ UNCHANGED <<serverKeys, currentKey, rotations, issued, freed, accepts, tlsVars, finalised,
                   initVars>>

\* The event loop fires every armed session timeout.
ServerFairSpec == ServerSpec /\ \A i \in Ids : WF_vars(ConnTimeout(i))
----------------------------------------------------------------------------
Open(i) == conn[i] # NULL /\ conn[i].state # "KE_CLOSED"

ServerTypeOK ==
    /\ \A i \in Ids :
         \/ conn[i] = NULL
         \/ /\ conn[i].mode \in Modes
            /\ conn[i].state \in States
            /\ conn[i].msg.sent \in 0..conn[i].msg.length
            /\ conn[i].msg.length \in 0..MaxMessageLength
    /\ freed \subseteq Ids
    /\ accepts \in 0..MaxAccepts
    /\ allocated \subseteq Sessions
    /\ deinits \in [Sessions -> Nat]
    /\ finalised \in BOOLEAN
    /\ initialised \in BOOLEAN
    /\ listening \in BOOLEAN
    /\ keyTimer \in BOOLEAN

(***************************************************************************)
(* A pooled instance holds its socket and its session timeout exactly     *)
(* while it is not closed: close_connection() must drop both on every     *)
(* path (TLS error, bad request, timeout, shutdown), or a stale timeout   *)
(* would later close the connection accept_connection() reuses the slot   *)
(* for.                                                                    *)
(***************************************************************************)
ResourcesWhileOpen ==
    \A i \in Ids \ freed :
        conn[i] # NULL => /\ conn[i].timer = Open(i)
                          /\ conn[i].sock = Open(i)

(***************************************************************************)
(* Every accepted connection is eventually closed, and its slot usable    *)
(* again, whatever the client does: the SERVER_TIMEOUT armed by          *)
(* accept_server_connection() bounds it.                                   *)
(***************************************************************************)
ConnectionsClose == \A i \in Ids : Open(i) ~> ~Open(i)

\* The records of a response in the buffer of slot i.
Response(i) == CompleteRecords(conn[i].msg.recs, conn[i].msg.length)

\* The response process_response() reads as an Error response.
ErrorResponse(recs) == \E k \in 1..Len(recs) : recs[k].type = RECORD_ERROR

(***************************************************************************)
(* Every response the server sends is complete (check_message_format()    *)
(* accepts it) and either reports an error or gives the client all        *)
(* MAX_COOKIES cookies: process_request() ignores prepare_response()      *)
(* giving up half-way when NKE_GetKeys() fails, and reports no error when *)
(* the client offered no protocol or algorithm the server supports, and   *)
(* prepare_response() then names NEXT_PROTOCOL_NONE and AEAD_NONE (spec   *)
(* section 4.H: Next-Protocol = NTPv4, AEAD = AES-SIV-CMAC-256).           *)
(***************************************************************************)
ServerResponseUsable ==
    \A i \in Ids :
        Open(i) /\ conn[i].mode = "KE_SERVER" /\ conn[i].state = "KE_SEND" =>
            /\ CheckMessageFormat(conn[i].msg.recs, conn[i].msg.length, FALSE) = "MSG_OK"
            /\ \/ ErrorResponse(Response(i))
               \/ ProcessResponse(Response(i), MaxCookies).num = MaxCookies

(***************************************************************************)
(* While accept_connection() can be called, NKE_DecodeCookie() opens only *)
(* cookies NKE_GenerateCookie() sealed: none a client can build with the  *)
(* zeroed SIV context of server_keys[].  NKE_Initialise() must generate a *)
(* key before the server listens, and no slot may keep id 0 and the zero  *)
(* context the key ring starts with.                                      *)
(***************************************************************************)
OnlyIssuedCookiesOpen ==
    listening =>
        \A c \in Forged : DecodeCookie(c) => \E x \in issued : x.cookie = c

\* The sessions held by the instances the pool still points at.
HeldSessions == {conn[i].session : i \in {i \in Ids \ freed : conn[i] # NULL}}

(***************************************************************************)
(* accept_connection() releases what a failed accept took: no pointer in  *)
(* server_instances[] refers to a freed instance (after a failed          *)
(* accept_server_connection() the next accept_connection() reads its      *)
(* state and NKE_Finalise() frees it a second time), and every TLS        *)
(* session gnutls_init() allocated is held by a pooled instance or has    *)
(* been deinitialised (create_session() returns NULL without              *)
(* gnutls_deinit() when a call after gnutls_init() fails).                *)
(***************************************************************************)
FailedAcceptReleased ==
    /\ freed = {}
    /\ \A s \in allocated : s \in HeldSessions \/ deinits[s] > 0

(***************************************************************************)
(* A TLS session is passed to gnutls_deinit() at most once, and never     *)
(* while the connection of its slot is still open: accept_server_        *)
(* connection() must set inst->session to NULL after deinitialising the  *)
(* session a reused instance kept, or NKE_DestroyInstance() deinitialises *)
(* it again when create_session() then fails.                             *)
(***************************************************************************)
SessionsDeinitOnce ==
    /\ \A s \in Sessions : deinits[s] <= 1
    /\ \A i \in Ids : Open(i) => deinits[conn[i].session] = 0

(***************************************************************************)
(* After NKE_Finalise() every session a slot still holds has been         *)
(* deinitialised, the sessions of closed server instances that           *)
(* accept_connection() kept for reuse included.                            *)
(***************************************************************************)
FinaliseReleasesSessions ==
    finalised =>
        \A i \in Ids : conn[i] # NULL /\ conn[i].session \in allocated =>
            deinits[conn[i].session] = 1
----------------------------------------------------------------------------
\* The lifecycle phase of the connection in slot i.
Phase(i) ==
    CASE ~Open(i) -> "closed"
      [] conn[i].state \in {"KE_SEND", "KE_SHUTDOWN"} -> "replying"
      [] OTHER -> "open"

Lifecycle == INSTANCE NtsKeLifecycle WITH
    st    <- [i \in Ids |-> Phase(i)],
    reply <- [i \in Ids |-> IF Phase(i) = "replying" THEN conn[i].msg.recs ELSE <<>>],
    down  <- finalised

(***************************************************************************)
(* The server's connections implement NtsKeLifecycle: update_state() and  *)
(* read_write_socket() answer each accepted connection with one response, *)
(* never alter the buffer while it is sent and shut down, and never go    *)
(* back from KE_SEND/KE_SHUTDOWN to reading a request; the loop of        *)
(* accept_connection() only reuses a slot whose connection is closed, and *)
(* NKE_Finalise() closes every connection.                                 *)
(***************************************************************************)
LifecycleRefined == Lifecycle!Spec
====
