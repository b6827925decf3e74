---------------------------- MODULE EventDelivery ----------------------------
(***************************************************************************)
(* What the outbox promises whoever enqueues an event: delivery at least   *)
(* once, or an explicit failure.  An event is published once, is delivered *)
(* any number of times while it is pending, and is settled once: as done   *)
(* only after a delivery.  Module Outbox implements this one.              *)
(***************************************************************************)
EXTENDS Naturals

CONSTANT Events

VARIABLES status, sent

vars == <<status, sent>>

Init ==
    /\ status = [e \in Events |-> "absent"]
    /\ sent = [e \in Events |-> 0]

Publish(e) ==
    /\ status[e] = "absent"
    /\ status' = [status EXCEPT ![e] = "pending"]
    /\ UNCHANGED sent

Deliver(e) ==
    /\ status[e] = "pending"
    /\ sent' = [sent EXCEPT ![e] = @ + 1]
    /\ UNCHANGED status

\* Some pending events are settled together, those done among them delivered.
Settle ==
    \E done, failed \in SUBSET {e \in Events : status[e] = "pending"} :
        /\ done \cap failed = {}
        /\ \A e \in done : sent[e] > 0
        /\ status' = [e \in Events |->
                        IF e \in done THEN "done"
                        ELSE IF e \in failed THEN "failed" ELSE status[e]]
        /\ UNCHANGED sent

Next == Settle \/ \E e \in Events : Publish(e) \/ Deliver(e)

Spec == Init /\ [][Next]_vars

=============================================================================
