-------------------------------- MODULE Yard --------------------------------
(***************************************************************************)
(* The vehicle yard: the handlers that move an imported vehicle through    *)
(* its slots and out of the gate, run concurrently against one database.   *)
(*                                                                         *)
(*   assign-slot         ImportWorkflowEndpoints.cs                        *)
(*   ready, complete     DispatchWorkflowEndpoints.cs                      *)
(*   ChangeStatusAsync   ParkingService.cs (operator PUT and simulation)   *)
(*   sensor readings     Program.cs                                        *)
(*                                                                         *)
(* A handler is a sequence of awaited queries followed by one SaveChanges. *)
(* Each query is a step that reads committed rows into the request's       *)
(* DbContext; the save is a step that applies the writes computed from     *)
(* what was read, all of them or, when a unique index objects, none.       *)
(* Between two steps of one request, steps of the others run.  EF Core     *)
(* writes only the columns whose value differs from what the request read. *)
(***************************************************************************)
EXTENDS Naturals, FiniteSets

CONSTANTS
    Spots,            \* yard slots (all active: no handler clears IsActive)
    Vehicles,         \* vehicles already registered by the tally
    Cleared,          \* those whose CustomsStatus reads "Cleared"; never updated
    References,       \* dispatch references the operators type in
    Workers,          \* requests the server can have in flight at once
    Operations,       \* the kinds of request the clients send
    OperatorTargets,  \* the statuses an operator or the simulation asks for
    TxLocks,          \* SQLite: BeginTransaction takes the database write lock
    None              \* null

SpotStatus == {"Free", "Occupied", "Reserved", "OutOfService"}

\* Expected and CustomsHold exist in the enum; no handler ever writes them.
InventoryStatus == {"Received", "InYard", "ReadyForDispatch", "Dispatched"}

ASSUME ClearedAssumption == Cleared \subseteq Vehicles
ASSUME TargetsAssumption == OperatorTargets \subseteq SpotStatus
ASSUME TxLocksAssumption == TxLocks \in BOOLEAN
ASSUME OperationsAssumption ==
    Operations \subseteq {"assign", "ready", "dispatch", "status", "sensor"}
ASSUME NoneAssumption ==
    None \notin Spots \cup Vehicles \cup References

VARIABLES
    status,     \* ParkingSpot.Status
    holder,     \* ParkingSpot.ImportedVehicleId
    inventory,  \* ImportedVehicle.InventoryStatus
    exits,      \* VehicleDispatchRecords: who left, under which reference
    trail,      \* NewStatus of the slot's newest ParkingEvent (Free before any)
    sensed,     \* ParkingSensor.CurrentOccupied of the slot's sensor
    reported,   \* Occupied of the sensor's newest ParkingSensorReading row
    request     \* per worker, the request in flight and what it has read

slots    == <<status, holder>>
sensors  == <<sensed, reported>>
database == <<status, holder, inventory, exits, trail, sensed, reported>>
vars     == <<status, holder, inventory, exits, trail, sensed, reported, request>>

Stage == {"idle",
          "assignSlot", "assignPrevious", "assignSave",
          "readySave",
          "dispatchReference", "dispatchSlot", "dispatchSave",
          "statusRead", "statusSave",
          "sensorSave"}

\* The DbContext of a request: its parameters and the values it has tracked.
Request ==
    [at           : Stage,
     vehicle      : Vehicles \cup {None},
     spot         : Spots \cup {None},
     reference    : References \cup {None},
     next         : SpotStatus,             \* the status asked for
     sawInventory : InventoryStatus,        \* the vehicle's, when read
     previous     : Spots \cup {None},      \* the slot found by vehicle
     sawStatus    : SpotStatus,             \* that slot's status, when read
     sawSensed    : BOOLEAN]                \* the sensor's CurrentOccupied

NoRequest ==
    [at |-> "idle", vehicle |-> None, spot |-> None, reference |-> None,
     next |-> "Free", sawInventory |-> "Received", previous |-> None,
     sawStatus |-> "Free", sawSensed |-> FALSE]

Exit == [reference : References, vehicle : Vehicles]

Init ==
    /\ status    = [s \in Spots |-> "Free"]
    /\ holder    = [s \in Spots |-> None]
    /\ inventory = [v \in Vehicles |-> "Received"]
    /\ exits     = {}
    /\ trail     = [s \in Spots |-> "Free"]
    /\ sensed    = [s \in Spots |-> FALSE]
    /\ reported  = [s \in Spots |-> FALSE]
    /\ request   = [w \in Workers |-> NoRequest]

-----------------------------------------------------------------------------
(* Requests and the database they share.                                   *)

At(w, stage) == request[w].at = stage

Arrives(w, kind) == At(w, "idle") /\ kind \in Operations

\* The request goes on to its next await, with what it has tracked so far.
Track(w, r) == request' = [request EXCEPT ![w] = r]

\* The request answers, with a result or an error, and its DbContext goes.
Answer(w) == Track(w, NoRequest)

\* Mutant: the transaction is opened after the slot is read.
MayWriteAnytime(w) == TRUE

\* SQLite: nothing commits while another request holds an open transaction.
MayWrite(w) ==
    TxLocks => \A u \in Workers \ {w} : ~At(u, "dispatchSave")

\* Client disconnects (every query and save takes the cancellation token), a
\* process stop, a database error: the request ends with nothing written.
Cancel(w) ==
    /\ ~At(w, "idle")
    /\ Answer(w)
    /\ UNCHANGED database

\* SingleOrDefault over ImportedVehicleId: the slot the vehicle holds, or null.
SlotOf(v) ==
    LET held == {s \in Spots : holder[s] = v}
    IN  IF held = {} THEN {None} ELSE held

\* Mutant: the slot left keeps its ImportedVehicleId.
VacatedNothing(p) == holder

\* ImportedVehicleId = null on the slot that was found.
Vacated(p) == [s \in Spots |-> IF s = p THEN None ELSE holder[s]]

\* Mutant: the slot left is not freed.
FreedNever(p, saw) == status

\* ChangeStatus(Free) on it: EF writes the column only if it read another value.
Freed(p, saw) ==
    [s \in Spots |-> IF s = p /\ saw # "Free" THEN "Free" ELSE status[s]]

-----------------------------------------------------------------------------
(* POST /api/import/vehicles/{vehicleId}/assign-slot                       *)

\* Mutant: the vehicle is loaded as if already InYard, so the save skips it.
AssignReadVehicleInYard(w, v, s) ==
    /\ Arrives(w, "assign")
    /\ Track(w, [NoRequest EXCEPT !.at = "assignSlot", !.vehicle = v, !.spot = s,
                             !.sawInventory = "InYard"])
    /\ UNCHANGED database

AssignReadVehicle(w, v, s) ==
    /\ Arrives(w, "assign")
    /\ Track(w, [NoRequest EXCEPT !.at = "assignSlot", !.vehicle = v, !.spot = s,
                             !.sawInventory = inventory[v]])
    /\ UNCHANGED database

\* Mutant: the status alone decides.
AvailableByStatus(s) == status[s] = "Free"

Available(s) == status[s] = "Free" /\ holder[s] = None

AssignReadSlot(w) ==
    /\ At(w, "assignSlot")
    /\ \/ /\ Available(request[w].spot)
          /\ Track(w, [request[w] EXCEPT !.at = "assignPrevious"])
       \/ /\ ~Available(request[w].spot)          \* 409
          /\ Answer(w)
    /\ UNCHANGED database

AssignReadPrevious(w) ==
    /\ At(w, "assignPrevious")
    /\ \E p \in SlotOf(request[w].vehicle) :
          Track(w, [request[w] EXCEPT !.at = "assignSave", !.previous = p,
                             !.sawStatus = IF p = None THEN "Free" ELSE status[p]])
    /\ UNCHANGED database

\* Mutant: no such index.
SlotIndexRejectsNothing(v, s, p) == FALSE

\* The filtered unique index on ImportedVehicleId: a slot other than the two
\* rows being written already holds the vehicle.
SlotIndexRejects(v, s, p) == \E t \in Spots \ {s, p} : holder[t] = v

\* previous = spot when the vehicle got this very slot between the two reads:
\* both are one tracked row, and the assignment is what it ends up holding.
AssignSave(w) ==
    LET v == request[w].vehicle
        s == request[w].spot
        p == request[w].previous
    IN  /\ At(w, "assignSave")
        /\ MayWrite(w)
        /\ ~SlotIndexRejects(v, s, p)
        /\ holder' = [Vacated(p) EXCEPT ![s] = v]
        /\ status' = [Freed(p, request[w].sawStatus) EXCEPT ![s] = "Occupied"]
        /\ trail'  = [trail EXCEPT ![s] = "Occupied"]    \* none for the slot left
        /\ inventory' = IF request[w].sawInventory = "InYard" THEN inventory
                        ELSE [inventory EXCEPT ![v] = "InYard"]
        /\ Answer(w)
        /\ UNCHANGED <<exits, sensors>>

AssignRejected(w) ==
    /\ At(w, "assignSave")
    /\ MayWrite(w)
    /\ SlotIndexRejects(request[w].vehicle, request[w].spot, request[w].previous)
    /\ Answer(w)
    /\ UNCHANGED database

-----------------------------------------------------------------------------
(* POST /api/dispatch/{vehicleId}/ready                                    *)

\* Mutant: no customs check.
MayBeReadyUncleared(v) == inventory[v] = "InYard"

MayBeReady(v) == inventory[v] = "InYard" /\ v \in Cleared

ReadyRead(w, v) ==
    /\ Arrives(w, "ready")
    /\ MayBeReady(v)
    /\ Track(w, [NoRequest EXCEPT !.at = "readySave", !.vehicle = v,
                             !.sawInventory = inventory[v]])
    /\ UNCHANGED database

\* Mutant: a status no reader of the yard expects.
ReadySaveOnHold(w) ==
    /\ At(w, "readySave")
    /\ MayWrite(w)
    /\ inventory' = [inventory EXCEPT ![request[w].vehicle] = "CustomsHold"]
    /\ Answer(w)
    /\ UNCHANGED <<slots, exits, trail, sensors>>

ReadySave(w) ==
    /\ At(w, "readySave")
    /\ MayWrite(w)
    /\ inventory' = [inventory EXCEPT ![request[w].vehicle] = "ReadyForDispatch"]
    /\ Answer(w)
    /\ UNCHANGED <<slots, exits, trail, sensors>>

-----------------------------------------------------------------------------
(* POST /api/dispatch/{vehicleId}/complete                                 *)

\* Mutant: a vehicle leaves straight from the yard.
MayExitFromYard(v) == inventory[v] \in {"InYard", "ReadyForDispatch"}

MayExit(v) == inventory[v] = "ReadyForDispatch"

DispatchReadVehicle(w, v, r) ==
    /\ Arrives(w, "dispatch")
    /\ MayExit(v)
    /\ Track(w, [NoRequest EXCEPT !.at = "dispatchReference", !.vehicle = v,
                             !.reference = r, !.sawInventory = inventory[v]])
    /\ UNCHANGED database

\* The lookup of /complete.
ReferenceTaken(r) == \E e \in exits : e.reference = r

DispatchCheckReference(w) ==
    /\ At(w, "dispatchReference")
    /\ \/ /\ ~ReferenceTaken(request[w].reference)
          /\ Track(w, [request[w] EXCEPT !.at = "dispatchSlot"])
       \/ /\ ReferenceTaken(request[w].reference)  \* 409
          /\ Answer(w)
    /\ UNCHANGED database

\* BeginTransaction and the first query under it.
DispatchReadSlot(w) ==
    /\ At(w, "dispatchSlot")
    /\ MayWrite(w)
    /\ \E p \in SlotOf(request[w].vehicle) :
          Track(w, [request[w] EXCEPT !.at = "dispatchSave", !.previous = p,
                             !.sawStatus = IF p = None THEN "Free" ELSE status[p]])
    /\ UNCHANGED database

\* Mutant: the record is never added.
WithoutExit(r, v) == exits

\* VehicleDispatchRecords.Add.
WithExit(r, v) == exits \cup {[reference |-> r, vehicle |-> v]}

\* Mutant: the database has no such index.
ReferenceIndexRejectsNothing(r) == FALSE

\* The unique index on DispatchReference, at the save.
ReferenceIndexRejects(r) == ReferenceTaken(r)

DispatchSave(w) ==
    LET v == request[w].vehicle
        p == request[w].previous
    IN  /\ At(w, "dispatchSave")
        /\ MayWrite(w)
        /\ ~ReferenceIndexRejects(request[w].reference)
        /\ exits'  = WithExit(request[w].reference, v)
        /\ holder' = Vacated(p)
        /\ status' = Freed(p, request[w].sawStatus)
        /\ trail'  = [s \in Spots |-> IF s = p THEN "Free" ELSE trail[s]]
        /\ inventory' = [inventory EXCEPT ![v] = "Dispatched"]
        /\ Answer(w)
        /\ UNCHANGED sensors

DispatchRejected(w) ==
    /\ At(w, "dispatchSave")
    /\ MayWrite(w)
    /\ ReferenceIndexRejects(request[w].reference)
    /\ Answer(w)
    /\ UNCHANGED database

-----------------------------------------------------------------------------
(* ParkingService.ChangeStatusAsync, called by PUT /spots/{id}/status with *)
(* any status and by the simulation, which picks Free or Occupied from an  *)
(* earlier listing.                                                        *)

StatusCall(w, s, next) ==
    /\ Arrives(w, "status")
    /\ Track(w, [NoRequest EXCEPT !.at = "statusRead", !.spot = s, !.next = next])
    /\ UNCHANGED database

StatusRead(w) ==
    /\ At(w, "statusRead")
    /\ \/ /\ status[request[w].spot] # request[w].next
          /\ Track(w, [request[w] EXCEPT !.at = "statusSave", !.sawStatus = status[request[w].spot]])
       \/ /\ status[request[w].spot] = request[w].next   \* nothing to do
          /\ Answer(w)
    /\ UNCHANGED database

\* Mutant: the slot changes without a ParkingEvent.
StatusSaveSilent(w) ==
    /\ At(w, "statusSave")
    /\ MayWrite(w)
    /\ status' = [status EXCEPT ![request[w].spot] = request[w].next]
    /\ Answer(w)
    /\ UNCHANGED <<holder, inventory, exits, trail, sensors>>

StatusSave(w) ==
    /\ At(w, "statusSave")
    /\ MayWrite(w)
    /\ status' = [status EXCEPT ![request[w].spot] = request[w].next]
    /\ trail'  = [trail EXCEPT ![request[w].spot] = request[w].next]
    /\ Answer(w)
    /\ UNCHANGED <<holder, inventory, exits, sensors>>

-----------------------------------------------------------------------------
(* POST /api/sensors/{externalId}/readings: one query reads the sensor and *)
(* its slot.                                                               *)

SpotStatusOf(occupied) == IF occupied THEN "Occupied" ELSE "Free"

\* Mutant: the sensor row is compared through its slot.
SensorReadSlotOnly(w, s, occupied) ==
    /\ Arrives(w, "sensor")
    /\ Track(w, [NoRequest EXCEPT !.at = "sensorSave", !.spot = s,
                             !.next = SpotStatusOf(occupied),
                             !.sawStatus = status[s], !.sawSensed = status[s] = "Occupied"])
    /\ UNCHANGED database

SensorRead(w, s, occupied) ==
    /\ Arrives(w, "sensor")
    /\ Track(w, [NoRequest EXCEPT !.at = "sensorSave", !.spot = s,
                             !.next = SpotStatusOf(occupied),
                             !.sawStatus = status[s], !.sawSensed = sensed[s]])
    /\ UNCHANGED database

SensorSave(w) ==
    LET s == request[w].spot
        occupied == request[w].next = "Occupied"
    IN  /\ At(w, "sensorSave")
        /\ MayWrite(w)
        /\ reported' = [reported EXCEPT ![s] = occupied]
        /\ sensed' = IF request[w].sawSensed = occupied THEN sensed
                     ELSE [sensed EXCEPT ![s] = occupied]
        /\ \/ /\ request[w].sawStatus # request[w].next
              /\ status' = [status EXCEPT ![s] = request[w].next]
              /\ trail'  = [trail EXCEPT ![s] = request[w].next]
           \/ /\ request[w].sawStatus = request[w].next
              /\ UNCHANGED <<status, trail>>
        /\ Answer(w)
        /\ UNCHANGED <<holder, inventory, exits>>

-----------------------------------------------------------------------------
Assign(w) ==
    \/ \E v \in Vehicles, s \in Spots : AssignReadVehicle(w, v, s)
    \/ AssignReadSlot(w)
    \/ AssignReadPrevious(w)
    \/ AssignSave(w)
    \/ AssignRejected(w)

Ready(w) ==
    \/ \E v \in Vehicles : ReadyRead(w, v)
    \/ ReadySave(w)

Dispatch(w) ==
    \/ \E v \in Vehicles, r \in References : DispatchReadVehicle(w, v, r)
    \/ DispatchCheckReference(w)
    \/ DispatchReadSlot(w)
    \/ DispatchSave(w)
    \/ DispatchRejected(w)

ChangeStatus(w) ==
    \/ \E s \in Spots, next \in OperatorTargets : StatusCall(w, s, next)
    \/ StatusRead(w)
    \/ StatusSave(w)

Sensor(w) ==
    \/ \E s \in Spots, occupied \in BOOLEAN : SensorRead(w, s, occupied)
    \/ SensorSave(w)

Next ==
    \E w \in Workers :
        Assign(w) \/ Ready(w) \/ Dispatch(w) \/ ChangeStatus(w) \/ Sensor(w) \/ Cancel(w)

Spec == Init /\ [][Next]_vars

\* The slots a request has got hold of, asked for or found by its vehicle.
SlotsAtHand(w) == {request[w].spot, request[w].previous} \ {None}

\* Requests in flight together have no row in common: no vehicle, no slot, no
\* dispatch reference.
Apart ==
    \A u, w \in Workers : u # w =>
        /\ SlotsAtHand(u) \cap SlotsAtHand(w) = {}
        /\ request[u].vehicle = request[w].vehicle => request[u].vehicle = None
        /\ request[u].reference = request[w].reference => request[u].reference = None

\* The behaviours in which no two requests that overlap meet in a row.
ApartSpec == Init /\ [][Next /\ Apart']_vars

-----------------------------------------------------------------------------
(* What every interleaving of requests keeps.                              *)

\* Rows and request contexts hold values their columns and DTOs can hold.
TypeOK ==
    /\ status \in [Spots -> SpotStatus]
    /\ holder \in [Spots -> Vehicles \cup {None}]
    /\ inventory \in [Vehicles -> InventoryStatus]
    /\ exits \subseteq Exit
    /\ trail \in [Spots -> SpotStatus]
    /\ sensed \in [Spots -> BOOLEAN]
    /\ reported \in [Spots -> BOOLEAN]
    /\ request \in [Workers -> Request]

\* A lookup of a slot by its vehicle finds one slot at most, however many
\* assignments of the vehicle race: SingleOrDefault (ImportWorkflowEndpoints
\* 139, DispatchWorkflowEndpoints 22 and 57) throws when it finds two.
OneSlotPerVehicle ==
    \A s, t \in Spots : holder[s] = holder[t] /\ holder[s] # None => s = t

\* A vehicle that holds a slot has been put in the yard: no save leaves it
\* Received, even one working from a stale read.
HolderHasArrived ==
    \A s \in Spots : holder[s] # None => inventory[holder[s]] # "Received"

\* Nothing leaves the yard, or is offered for leaving, without customs
\* clearance; only /ready checks it, /complete trusts the status.
ExitOnlyCleared ==
    /\ \A v \in Vehicles : inventory[v] \in {"ReadyForDispatch", "Dispatched"} => v \in Cleared
    /\ \A e \in exits : e.vehicle \in Cleared

\* A vehicle shown as Dispatched has a dispatch record to show for it.
DispatchedHasRecord ==
    \A v \in Vehicles :
        inventory[v] = "Dispatched" => \E e \in exits : e.vehicle = v

\* A dispatch reference names one exit, although the reference is looked up
\* long before the record is inserted.
ReferenceNamesOneExit ==
    \A e, f \in exits : e.reference = f.reference => e = f

-----------------------------------------------------------------------------
(* What holds when overlapping requests meet in no row, and which of it    *)
(* requests for the same rows break.                                       *)

\* The vehicle's status and the slot map tell the same story: it is InYard
\* or ReadyForDispatch exactly when some slot holds it.
InventoryMatchesSlots ==
    \A v \in Vehicles :
        inventory[v] \in {"InYard", "ReadyForDispatch"} <=> \E s \in Spots : holder[s] = v

\* The newest parking event of a slot tells its status, except for a slot an
\* assignment took its vehicle from: that release writes no event.
TrailMatchesStatus ==
    \A s \in Spots : trail[s] # status[s] => status[s] = "Free" /\ holder[s] = None

\* CurrentOccupied is what the sensor reported last.
SensorShowsLastReading == sensed = reported

NewExit(v) == \E e \in exits' \ exits : e.vehicle = v

\* A slot that holds a vehicle is not handed to another one: it is emptied
\* first ("The selected yard slot is not available.").
HeldSlotNotGivenAway ==
    [][\A s \in Spots : holder[s] # None => holder'[s] \in {holder[s], None}]_vars

\* "Vehicle must be marked ReadyForDispatch before final exit."
ExitFromReady ==
    [][\A v \in Vehicles : NewExit(v) => inventory[v] = "ReadyForDispatch"]_vars

\* The save that records an exit leaves the vehicle no slot
\* ("Dispatch record + released slot + audit").
ExitReleasesSlot ==
    [][\A v \in Vehicles : NewExit(v) => \A s \in Spots : holder'[s] # v]_vars

\* Dispatch ends the vehicle's life cycle ("... Gate-out, Dispatch record,
\* Audit"): no handler brings a Dispatched vehicle back.
DispatchIsFinal ==
    [][\A v \in Vehicles : inventory[v] = "Dispatched" => inventory'[v] = "Dispatched"]_vars

Ledger == INSTANCE YardLedger

\* While overlapping requests meet in no row the handlers are the ledger's
\* operations: every read is a stuttering step, every save one operation with
\* its guard true when it runs.
ImplementsLedger == Ledger!Spec
=============================================================================
