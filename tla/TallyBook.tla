----------------------------- MODULE TallyBook ------------------------------
(***************************************************************************)
(* What the intake promises: per shipment a counter that goes up by one,   *)
(* stops at the declared number when there is one, and a status that says  *)
(* Completed only when the counter has got there.  Where no number was     *)
(* declared the status binds nothing: a completed shipment may receive     *)
(* more, reopened or not.                                                  *)
(***************************************************************************)
EXTENDS Integers

CONSTANTS Shipments

VARIABLES stage, declared, count

book == <<stage, declared, count>>

Init ==
    /\ stage    = [s \in Shipments |-> "Absent"]
    /\ declared = [s \in Shipments |-> 0]
    /\ count    = [s \in Shipments |-> 0]

\* Any number may be declared; the new value is constrained, not enumerated.
Announce(s) ==
    /\ stage[s] = "Absent"
    /\ stage' = [stage EXCEPT ![s] = "Planned"]
    /\ declared'[s] \in Nat
    /\ declared' = [declared EXCEPT ![s] = declared'[s]]
    /\ UNCHANGED count

Receive(s) ==
    /\ stage[s] # "Absent"
    /\ declared[s] > 0 => count[s] < declared[s]
    /\ count' = [count EXCEPT ![s] = @ + 1]
    /\ \/ stage' = [stage EXCEPT ![s] = "Receiving"]
       \/ declared[s] = 0 /\ stage[s] = "Completed" /\ UNCHANGED stage
    /\ UNCHANGED declared

Close(s) ==
    /\ stage[s] # "Absent"
    /\ declared[s] > 0 => count[s] = declared[s]
    /\ stage' = [stage EXCEPT ![s] = "Completed"]
    /\ UNCHANGED <<declared, count>>

Next ==
    \E s \in Shipments : Announce(s) \/ Receive(s) \/ Close(s)

Spec == Init /\ [][Next]_book
=============================================================================
