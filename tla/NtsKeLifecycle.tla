--------------------------- MODULE NtsKeLifecycle ---------------------------
(***************************************************************************)
(* What an NTS-KE server connection slot promises, without TLS, sockets   *)
(* or record encoding: a slot is closed, open (handshake and request), or *)
(* replying (the response is being sent and the session shut down).  An  *)
(* open connection answers at most once: it replies with one response,    *)
(* which stays the same until the slot is closed, and it never goes back  *)
(* to reading a request.  Any state may be closed (error or timeout).     *)
(* Shutting the server down closes every slot at once, and ends it.       *)
(***************************************************************************)
CONSTANT Ids

VARIABLES
    st,         \* "closed", "open" or "replying", per slot
    reply,      \* the response a replying slot sends, <<>> otherwise
    down        \* the server has shut down

vars == <<st, reply, down>>

Init ==
    /\ st = [id \in Ids |-> "closed"]
    /\ reply = [id \in Ids |-> <<>>]
    /\ down = FALSE

\* Only slot id changes.
Others(id) ==
    /\ \A j \in Ids \ {id} : st'[j] = st[j] /\ reply'[j] = reply[j]
    /\ UNCHANGED down

Open(id) ==
    /\ st[id] = "closed"
    /\ st'[id] = "open"
    /\ reply'[id] = <<>>
    /\ Others(id)

Reply(id) ==
    /\ st[id] = "open"
    /\ st'[id] = "replying"
    /\ reply'[id] # <<>>
    /\ Others(id)

Close(id) ==
    /\ st[id] # "closed"
    /\ st'[id] = "closed"
    /\ reply'[id] = <<>>
    /\ Others(id)

Shutdown ==
    /\ ~down
    /\ down' = TRUE
    /\ st' = [id \in Ids |-> "closed"]
    /\ reply' = [id \in Ids |-> <<>>]

Next ==
    \/ ~down /\ \E id \in Ids : Open(id) \/ Reply(id) \/ Close(id)
    \/ Shutdown

Spec == Init /\ [][Next]_vars
====
