------------------------------- MODULE Mailbox -------------------------------
(***************************************************************************)
(* What sf-server promises to whoever sends a request to a connection:     *)
(* every connection has a mailbox; a message posted to an open mailbox     *)
(* stays there until it is delivered, in any order and at most once;       *)
(* closing a mailbox discards what is left in it. (The tasks spawned by    *)
(* AppState::send_to_peer, the channel of PeerHandler and the select loop  *)
(* of process_ws implement it: see SignalServer.)                          *)
(***************************************************************************)
CONSTANTS Boxes, Messages

VARIABLES open, pending, done

vars == <<open, pending, done>>

Init ==
    /\ open = [b \in Boxes |-> TRUE]
    /\ pending = [b \in Boxes |-> {}]
    /\ done = [b \in Boxes |-> {}]

(* A message is posted to a mailbox once. *)
Post(b, m) ==
    /\ open[b] /\ m \notin pending[b] \cup done[b]
    /\ pending' = [pending EXCEPT ![b] = @ \cup {m}]
    /\ UNCHANGED <<open, done>>

Deliver(b, m) ==
    /\ open[b] /\ m \in pending[b]
    /\ pending' = [pending EXCEPT ![b] = @ \ {m}]
    /\ done' = [done EXCEPT ![b] = @ \cup {m}]
    /\ UNCHANGED open

Close(b) ==
    /\ open[b]
    /\ open' = [open EXCEPT ![b] = FALSE]
    /\ pending' = [pending EXCEPT ![b] = {}]
    /\ UNCHANGED done

Next == \E b \in Boxes : Close(b) \/ \E m \in Messages : Post(b, m) \/ Deliver(b, m)

Spec == Init /\ [][Next]_vars
=============================================================================
