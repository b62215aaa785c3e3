----------------------------- MODULE YardLedger -----------------------------
(***************************************************************************)
(* What the yard promises, request by request: each operation happens at   *)
(* once, on the rows as they are.  Yard implements it as long as requests  *)
(* that overlap meet in no row; the runs of Yard in which they do show     *)
(* what is left of it then.                                                *)
(***************************************************************************)
CONSTANTS Spots, Vehicles, Cleared, References, None

VARIABLES status, holder, inventory, exits

ledger == <<status, holder, inventory, exits>>

SpotStatus == {"Free", "Occupied", "Reserved", "OutOfService"}

Init ==
    /\ status    = [s \in Spots |-> "Free"]
    /\ holder    = [s \in Spots |-> None]
    /\ inventory = [v \in Vehicles |-> "Received"]
    /\ exits     = {}

\* The vehicle moves to a free, empty slot; the slot it leaves becomes free.
Place(v, s) ==
    /\ status[s] = "Free" /\ holder[s] = None
    /\ holder' = [t \in Spots |-> IF t = s THEN v
                                  ELSE IF holder[t] = v THEN None ELSE holder[t]]
    /\ status' = [t \in Spots |-> IF t = s THEN "Occupied"
                                  ELSE IF holder[t] = v THEN "Free" ELSE status[t]]
    /\ inventory' = [inventory EXCEPT ![v] = "InYard"]
    /\ UNCHANGED exits

\* A cleared vehicle in the yard is offered for dispatch.
Offer(v) ==
    /\ inventory[v] = "InYard"
    /\ v \in Cleared
    /\ inventory' = [inventory EXCEPT ![v] = "ReadyForDispatch"]
    /\ UNCHANGED <<status, holder, exits>>

\* A vehicle on offer leaves under a fresh reference; its slot becomes free.
Leave(v, r) ==
    /\ inventory[v] = "ReadyForDispatch"
    /\ \A e \in exits : e.reference # r
    /\ exits' = exits \cup {[reference |-> r, vehicle |-> v]}
    /\ inventory' = [inventory EXCEPT ![v] = "Dispatched"]
    /\ holder' = [t \in Spots |-> IF holder[t] = v THEN None ELSE holder[t]]
    /\ status' = [t \in Spots |-> IF holder[t] = v THEN "Free" ELSE status[t]]

\* An operator, the simulation or a sensor says what a slot looks like.
Observe(s, new) ==
    /\ status' = [status EXCEPT ![s] = new]
    /\ UNCHANGED <<holder, inventory, exits>>

Next ==
    \/ \E v \in Vehicles, s \in Spots : Place(v, s)
    \/ \E v \in Vehicles : Offer(v)
    \/ \E v \in Vehicles, r \in References : Leave(v, r)
    \/ \E s \in Spots, new \in SpotStatus : Observe(s, new)

Spec == Init /\ [][Next]_ledger
=============================================================================
