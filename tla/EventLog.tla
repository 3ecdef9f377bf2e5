------------------------------ MODULE EventLog ------------------------------
(***************************************************************************)
(* What the publish -> consume pipeline promises: a widget.created event   *)
(* that was scheduled is recorded once, at some later time, and its record *)
(* goes only with the partition of its month, never to come back.          *)
(* EventPipeline is shown to implement it.                                 *)
(***************************************************************************)
CONSTANT Events

VARIABLE status     \* per event: none, pending, recorded or expired

Init == status = [e \in Events |-> "none"]

Announce(e) ==
    /\ status[e] = "none"
    /\ status' = [status EXCEPT ![e] = "pending"]

Record(e) ==
    /\ status[e] = "pending"
    /\ status' = [status EXCEPT ![e] = "recorded"]

Expire(old) ==
    /\ \A e \in old : status[e] = "recorded"
    /\ status' = [e \in Events |-> IF e \in old THEN "expired" ELSE status[e]]

Next ==
    \/ \E e \in Events : Announce(e) \/ Record(e)
    \/ \E old \in SUBSET Events : Expire(old)

Spec == Init /\ [][Next]_status
=============================================================================
