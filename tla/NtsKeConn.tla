----------------------------- MODULE NtsKeConn -----------------------------
(***************************************************************************)
(* NTS-KE connection instances (struct NKE_Instance_Record of nts_ke.c)   *)
(* and their state machine: read_write_socket() followed by               *)
(* update_state(), session_timeout() and close_connection().              *)
(*                                                                         *)
(* conn[id] is NULL or an instance record:                                 *)
(*   mode, state     NtsKeMode, NtsKeState                                 *)
(*   sock            sock_fd is valid and its file handler registered      *)
(*   output          SCH_FILE_OUTPUT is enabled on it (input always is)    *)
(*   timer           timeout_id # 0                                        *)
(*   session         the TLS session (0 for NULL); it also names the       *)
(*                   exporter keys NKE_GetKeys() derives from it           *)
(*   msg             struct NKE_Message: the buffer holds the first        *)
(*                   msg.length bytes of the encoding of msg.recs          *)
(*   peer            the records the remote end writes on the connection   *)
(*                                                                         *)
(* The TLS library and the socket are the environment: every call of      *)
(* gnutls_handshake/record_send/record_recv/bye may return any of its     *)
(* outcomes (done, a byte count, a non-fatal "again", a fatal error).  An *)
(* "again" of record_send/recv changes nothing and is left out.  The      *)
(* event loop may dispatch the input event at any time (it is always      *)
(* registered) and the output event when enabled; only WAIT_CONNECT looks *)
(* at which one it got.                                                    *)
(***************************************************************************)
EXTENDS Integers, Sequences, NtsKeRecord

CONSTANTS
    Ids,          \* the instances
    NULL,         \* a NULL NKE_Instance pointer
    NtpPort       \* CNF_GetNTPPort()

VARIABLE conn

Modes  == {"KE_UNKNOWN", "KE_SERVER", "KE_CLIENT"}
States == {"KE_WAIT_CONNECT", "KE_HANDSHAKE", "KE_SEND", "KE_RECEIVE",
           "KE_SHUTDOWN", "KE_CLOSED"}

\* reset_message()
ResetMessage(recs) == [length |-> 0, sent |-> 0, eof |-> FALSE, recs |-> recs]

\* A message holding all of recs, as prepare_request/response() leave it.
LoadMessage(recs) == [ResetMessage(recs) EXCEPT !.length = EncodedLength(recs)]

Min2(a, b) == IF a < b THEN a ELSE b

\* NKE_CreateInstance()
CreateInstance ==
    [mode |-> "KE_UNKNOWN", state |-> "KE_CLOSED", sock |-> FALSE, output |-> FALSE,
     timer |-> FALSE, session |-> 0, msg |-> ResetMessage(<<>>), peer |-> <<>>]

\* Variant of CloseConnection that leaves the session timeout armed.
CloseConnectionKeepTimer(c) ==
    IF c.state = "KE_CLOSED" THEN c
    ELSE [c EXCEPT !.sock = FALSE, !.output = FALSE, !.state = "KE_CLOSED"]

\* close_connection(): removes the timeout and the file handler, closes the socket.
CloseConnection(c) ==
    IF c.state = "KE_CLOSED" THEN c
    ELSE [c EXCEPT !.timer = FALSE, !.sock = FALSE, !.output = FALSE, !.state = "KE_CLOSED"]

(***************************************************************************)
(* NKE_OpenClientConnection() on a closed instance, when prepare_socket() *)
(* and create_session() succeed (new TLS session sess; the server will    *)
(* answer with the records peer).  The message is not reset here.         *)
(***************************************************************************)
OpenClientConnection(c, sess, peer) ==
    [c EXCEPT !.mode = "KE_CLIENT", !.state = "KE_WAIT_CONNECT", !.sock = TRUE,
              !.output = TRUE, !.timer = TRUE, !.session = sess, !.peer = peer]

\* Variant of AcceptServerConnection that arms no session timeout.
AcceptServerConnectionNoTimer(c, sess, peer) ==
    [c EXCEPT !.mode = "KE_SERVER", !.state = "KE_HANDSHAKE", !.sock = TRUE,
              !.output = FALSE, !.session = sess,
              !.msg = ResetMessage(peer), !.peer = peer]

\* accept_server_connection() on a closed instance, when create_session() succeeds.
AcceptServerConnection(c, sess, peer) ==
    [c EXCEPT !.mode = "KE_SERVER", !.state = "KE_HANDSHAKE", !.sock = TRUE,
              !.output = FALSE, !.timer = TRUE, !.session = sess,
              !.msg = ResetMessage(peer), !.peer = peer]

\* The bytes of msg the peer has written and the connection not yet read.
Unread(c) == EncodedLength(c.peer) - c.msg.length

\* Variant of DestroyedSession that deinitialises client sessions only.
DestroyedSessionClientOnly(c) == IF c.mode = "KE_CLIENT" THEN c.session ELSE 0

\* NKE_DestroyInstance() calls close_connection(), then gnutls_deinit() of
\* this session (0: none) unless the mode is KE_UNKNOWN, and frees c.
DestroyedSession(c) == IF c.mode # "KE_UNKNOWN" THEN c.session ELSE 0

Live(id) == conn[id] # NULL /\ conn[id].state # "KE_CLOSED"

SetConn(id, c) == conn' = [conn EXCEPT ![id] = c]

----------------------------------------------------------------------------
(* read_write_socket(), one action per state and outcome.                  *)

\* KE_WAIT_CONNECT, output event: SO_ERROR tells whether connect() succeeded.
ConnectResult(id) ==
    /\ Live(id)
    /\ conn[id].state = "KE_WAIT_CONNECT"
    /\ conn[id].output
    /\ \E soError \in BOOLEAN :
         SetConn(id, IF soError THEN CloseConnection(conn[id])
                     ELSE [conn[id] EXCEPT !.state = "KE_HANDSHAKE",
                                           !.output = (conn[id].mode = "KE_CLIENT")])

\* gnutls_handshake(), _record_send(), _record_recv() or _bye() fails fatally.
TlsFatal(id) ==
    /\ Live(id)
    /\ conn[id].state \in {"KE_HANDSHAKE", "KE_SEND", "KE_RECEIVE", "KE_SHUTDOWN"}
    /\ SetConn(id, CloseConnection(conn[id]))

\* gnutls_handshake() or gnutls_bye() would block: output follows the TLS direction.
TlsAgain(id) ==
    /\ Live(id)
    /\ conn[id].state \in {"KE_HANDSHAKE", "KE_SHUTDOWN"}
    /\ \E direction \in BOOLEAN : SetConn(id, [conn[id] EXCEPT !.output = direction])

(***************************************************************************)
(* The handshake completes; update_state() checks the negotiated ALPN.    *)
(* The server then waits for the request; the client sends it.            *)
(***************************************************************************)
HandshakeDone(id) ==
    /\ Live(id)
    /\ conn[id].state = "KE_HANDSHAKE"
    /\ \E alpnOk \in BOOLEAN :
         LET c   == conn[id]
             req == PrepareRequest
         IN  SetConn(id,
               CASE ~alpnOk -> CloseConnection(c)
                 [] c.mode = "KE_SERVER" ->
                      [c EXCEPT !.state = "KE_RECEIVE", !.output = FALSE]
                 [] ~req.ok -> CloseConnection([c EXCEPT !.msg = LoadMessage(req.recs)])
                 [] OTHER -> [c EXCEPT !.state = "KE_SEND", !.output = TRUE,
                                       !.msg = LoadMessage(req.recs)])

\* Variant of SendData that sends from the start of the buffer each time.
SendDataWholeBuffer(id) ==
    /\ Live(id)
    /\ conn[id].state = "KE_SEND"
    /\ \E r \in 1..conn[id].msg.length :
         LET c == [conn[id] EXCEPT !.msg.sent = @ + r]
         IN  SetConn(id,
               CASE c.msg.sent < c.msg.length -> c
                 [] c.mode = "KE_SERVER" -> [c EXCEPT !.state = "KE_SHUTDOWN", !.output = TRUE]
                 [] OTHER -> [c EXCEPT !.state = "KE_RECEIVE", !.output = FALSE,
                                       !.msg = ResetMessage(c.peer)])

\* Variant of SendData that takes the client branch for every mode once all is sent.
SendDataNoModeCheck(id) ==
    /\ Live(id)
    /\ conn[id].state = "KE_SEND"
    /\ \E r \in 1..(conn[id].msg.length - conn[id].msg.sent) :
         LET c == [conn[id] EXCEPT !.msg.sent = @ + r]
         IN  SetConn(id,
               IF c.msg.sent < c.msg.length THEN c
               ELSE [c EXCEPT !.state = "KE_RECEIVE", !.output = FALSE,
                              !.msg = ResetMessage(c.peer)])

(***************************************************************************)
(* gnutls_record_send() writes r bytes.  Once all are sent the server     *)
(* shuts down; the client resets the message and waits for the response. *)
(***************************************************************************)
SendData(id) ==
    /\ Live(id)
    /\ conn[id].state = "KE_SEND"
    /\ \E r \in 1..(conn[id].msg.length - conn[id].msg.sent) :
         LET c == [conn[id] EXCEPT !.msg.sent = @ + r]
         IN  SetConn(id,
               CASE c.msg.sent < c.msg.length -> c
                 [] c.mode = "KE_SERVER" -> [c EXCEPT !.state = "KE_SHUTDOWN", !.output = TRUE]
                 [] OTHER -> [c EXCEPT !.state = "KE_RECEIVE", !.output = FALSE,
                                       !.msg = ResetMessage(c.peer)])

\* KE_RECEIVE with a full buffer: "Message is too long".
MessageTooLong(id) ==
    /\ Live(id)
    /\ conn[id].state = "KE_RECEIVE"
    /\ conn[id].msg.length >= MaxMessageLength
    /\ SetConn(id, CloseConnection(conn[id]))

(***************************************************************************)
(* update_state() in KE_RECEIVE after the message grew: wait for more,     *)
(* close on a malformed message, or go on.  The server processes the      *)
(* request and sends the response (prepare_response() may have failed:    *)
(* process_request() ignores it); keysOk is NKE_GetKeys() and cookies the  *)
(* MAX_COOKIES cookies NKE_GenerateCookie() seals.                          *)
(***************************************************************************)
ReceiveUpdate(c, keysOk, cookies, cookieLength) ==
    CASE CheckMessageFormat(c.msg.recs, c.msg.length, c.msg.eof) = "MSG_INCOMPLETE" -> c
      [] CheckMessageFormat(c.msg.recs, c.msg.length, c.msg.eof) = "MSG_ERROR" ->
           CloseConnection(c)
      [] c.mode = "KE_CLIENT" -> [c EXCEPT !.state = "KE_SHUTDOWN", !.output = TRUE]
      [] OTHER ->
           LET req  == ProcessRequest(CompleteRecords(c.msg.recs, c.msg.length))
               resp == PrepareResponse(req.error, req.next, req.aead, NtpPort, NTP_PORT,
                                       keysOk, cookies, cookieLength)
           IN  [c EXCEPT !.state = "KE_SEND", !.output = TRUE, !.msg = LoadMessage(resp.recs)]

(***************************************************************************)
(* gnutls_record_recv() returns r > 0 bytes of what the peer wrote.  When *)
(* TLS still has data pending the loop goes on reading, and closes the    *)
(* connection if the buffer is then full.                                 *)
(***************************************************************************)
ReceiveData(id, keysOk, cookies, cookieLength) ==
    /\ Live(id)
    /\ conn[id].state = "KE_RECEIVE"
    /\ conn[id].msg.length < MaxMessageLength
    /\ \E r \in 1..Min2(Unread(conn[id]), MaxMessageLength - conn[id].msg.length),
          pending \in BOOLEAN :
         LET c == [conn[id] EXCEPT !.msg.length = @ + r]
         IN  /\ pending => r < Unread(conn[id])
             /\ SetConn(id, IF pending /\ c.msg.length >= MaxMessageLength
                            THEN CloseConnection(c)
                            ELSE ReceiveUpdate(c, keysOk, cookies, cookieLength))

\* gnutls_record_recv() returns 0: the peer closed the connection.
ReceiveEof(id, keysOk, cookies, cookieLength) ==
    /\ Live(id)
    /\ conn[id].state = "KE_RECEIVE"
    /\ conn[id].msg.length < MaxMessageLength
    /\ SetConn(id, ReceiveUpdate([conn[id] EXCEPT !.msg.eof = TRUE], keysOk, cookies, cookieLength))

\* gnutls_bye() completes: shutdown() and update_state() closes the connection.
ShutdownDone(id) ==
    /\ Live(id)
    /\ conn[id].state = "KE_SHUTDOWN"
    /\ SetConn(id, CloseConnection(conn[id]))

\* session_timeout()
SessionTimeout(id) ==
    /\ conn[id] # NULL
    /\ conn[id].timer
    /\ SetConn(id, CloseConnection([conn[id] EXCEPT !.timer = FALSE]))

=============================================================================
