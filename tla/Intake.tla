------------------------------- MODULE Intake -------------------------------
(***************************************************************************)
(* The tally: shipments are announced, their vehicles registered one by    *)
(* one with consecutive tally numbers, and a shipment is completed when    *)
(* the declared number has arrived (ImportWorkflowEndpoints.cs).           *)
(*                                                                         *)
(* As in Yard, each awaited query of a handler is a step and each save a   *)
(* step that applies all its writes or none.  Register opens its           *)
(* transaction after its last read, so a database that locks at            *)
(* BeginTransaction orders the saves no further than they are here.        *)
(***************************************************************************)
EXTENDS Integers, FiniteSets

CONSTANTS
    Shipments,     \* shipment references
    Vins,          \* vehicle identification numbers of 11 characters or more
    Counts,        \* declared vehicle counts clients send
    Workers,       \* requests the server can have in flight at once
    None           \* null

ASSUME CountsAssumption == Counts \subseteq Int
ASSUME NoneAssumption == None \notin Shipments \cup Vins

VARIABLES
    stage,      \* ImportShipment.Status, or Absent before the row exists
    declared,   \* ImportShipment.DeclaredVehicleCount; 0 = not declared
    started,    \* ArrivalStartedUtc is set
    vehicles,   \* ImportedVehicles rows and, saved with each of them, its
                \* VehicleArrivalRecord: same vehicle, shipment and tally
    request     \* per worker, the request in flight and what it has read

database == <<stage, declared, started, vehicles>>
vars     == <<stage, declared, started, vehicles, request>>

\* Closed exists in the enum; no handler writes it.
ShipmentStatus == {"Planned", "Receiving", "Completed"}

ImportedVehicle == [vin : Vins, shipment : Shipments, tally : Nat \ {0}]

Request ==
    [at         : {"idle", "createSave", "registerVin", "registerTally",
                   "registerSave", "completeCount", "completeSave"},
     shipment   : Shipments \cup {None},
     vin        : Vins \cup {None},
     count      : Nat,                                \* declared by the client
     sawStage   : ShipmentStatus \cup {"Absent"},     \* shipment.Status, when read
     sawStarted : BOOLEAN,                            \* shipment.ArrivalStartedUtc
     next       : Nat]                                \* nextSequence

NoRequest ==
    [at |-> "idle", shipment |-> None, vin |-> None, count |-> 0,
     sawStage |-> "Absent", sawStarted |-> FALSE, next |-> 0]

Init ==
    /\ stage    = [s \in Shipments |-> "Absent"]
    /\ declared = [s \in Shipments |-> 0]
    /\ started  = [s \in Shipments |-> FALSE]
    /\ vehicles = {}
    /\ request  = [w \in Workers |-> NoRequest]

-----------------------------------------------------------------------------
Exists(s)   == stage[s] # "Absent"
Rows(s)     == {x \in vehicles : x.shipment = s}
Received(s) == Cardinality(Rows(s))                   \* CountAsync
Tallies(s)  == {x.tally : x \in Rows(s)}

\* Mutant: the first number is 0.
NextTallyFromZero(s) ==
    IF Tallies(s) = {} THEN 0
    ELSE (CHOOSE m \in Tallies(s) : \A n \in Tallies(s) : n <= m) + 1

\* MaxAsync(TallySequence) ?? 0, plus one.
NextTally(s) ==
    IF Tallies(s) = {} THEN 1
    ELSE (CHOOSE m \in Tallies(s) : \A n \in Tallies(s) : n <= m) + 1

At(w, step) == request[w].at = step
Track(w, r) == request' = [request EXCEPT ![w] = r]
Answer(w)   == Track(w, NoRequest)

\* Client disconnect, process stop or database error before the save.
Cancel(w) ==
    /\ ~At(w, "idle")
    /\ Answer(w)
    /\ UNCHANGED database

-----------------------------------------------------------------------------
(* POST /api/import/shipments                                              *)

\* Mutant: the declared count is not validated.
CreateCheckUnvalidated(w, s, n) ==
    /\ At(w, "idle")
    /\ ~Exists(s)
    /\ Track(w, [NoRequest EXCEPT !.at = "createSave", !.shipment = s, !.count = n])
    /\ UNCHANGED database

CreateCheck(w, s, n) ==
    /\ At(w, "idle")
    /\ n >= 0                                         \* else 400
    /\ ~Exists(s)                                     \* else 409
    /\ Track(w, [NoRequest EXCEPT !.at = "createSave", !.shipment = s, !.count = n])
    /\ UNCHANGED database

\* Mutant: no unique index on the reference; the later save wins.
CreateSaveAgain(w) ==
    LET s == request[w].shipment
    IN  /\ At(w, "createSave")
        /\ stage'    = [stage EXCEPT ![s] = "Planned"]
        /\ declared' = [declared EXCEPT ![s] = request[w].count]
        /\ Answer(w)
        /\ UNCHANGED <<started, vehicles>>

CreateSave(w) ==
    LET s == request[w].shipment
    IN  /\ At(w, "createSave")
        /\ \/ /\ ~Exists(s)
              /\ stage'    = [stage EXCEPT ![s] = "Planned"]
              /\ declared' = [declared EXCEPT ![s] = request[w].count]
           \/ /\ Exists(s)                            \* unique ShipmentReference
              /\ UNCHANGED <<stage, declared>>
        /\ Answer(w)
        /\ UNCHANGED <<started, vehicles>>

-----------------------------------------------------------------------------
(* POST /api/import/shipments/{shipmentId}/vehicles                        *)

\* Mutant: any shipment past Planned is taken to have started.
RegisterReadShipmentByStage(w, s, x) ==
    /\ At(w, "idle")
    /\ Exists(s)
    /\ Track(w, [NoRequest EXCEPT !.at = "registerVin", !.shipment = s, !.vin = x,
                                  !.sawStage = stage[s], !.sawStarted = stage[s] # "Planned"])
    /\ UNCHANGED database

RegisterReadShipment(w, s, x) ==
    /\ At(w, "idle")
    /\ Exists(s)                                      \* else 404
    /\ Track(w, [NoRequest EXCEPT !.at = "registerVin", !.shipment = s, !.vin = x,
                                  !.sawStage = stage[s], !.sawStarted = started[s]])
    /\ UNCHANGED database

VinTaken(x) == \E y \in vehicles : y.vin = x

RegisterCheckVin(w) ==
    /\ At(w, "registerVin")
    /\ \/ /\ ~VinTaken(request[w].vin)
          /\ Track(w, [request[w] EXCEPT !.at = "registerTally"])
       \/ /\ VinTaken(request[w].vin)                 \* 409
          /\ Answer(w)
    /\ UNCHANGED database

\* Mutant: off by one.
WithinDeclaredPlusOne(s, n) == declared[s] > 0 => n <= declared[s] + 1

\* The number fits the declaration, if there is one.
WithinDeclared(s, n) == declared[s] > 0 => n <= declared[s]

RegisterReadTally(w) ==
    LET s == request[w].shipment
    IN  /\ At(w, "registerTally")
        /\ \/ /\ WithinDeclared(s, NextTally(s))
              /\ Track(w, [request[w] EXCEPT !.at = "registerSave", !.next = NextTally(s)])
           \/ /\ ~WithinDeclared(s, NextTally(s))     \* 409
              /\ Answer(w)
        /\ UNCHANGED database

\* Mutants: one of the two indexes is missing.
VinIndexRejects(x, s, n) == VinTaken(x)
TallyIndexRejects(x, s, n) == n \in Tallies(s)

\* Unique indexes on Vin and on (ImportShipmentId, TallySequence).
IndexRejects(x, s, n) == VinTaken(x) \/ n \in Tallies(s)

RegisterSave(w) ==
    LET s == request[w].shipment
        x == request[w].vin
        n == request[w].next
    IN  /\ At(w, "registerSave")
        /\ ~IndexRejects(x, s, n)
        /\ vehicles' = vehicles \cup {[vin |-> x, shipment |-> s, tally |-> n]}
        /\ stage' = IF request[w].sawStage = "Receiving" THEN stage
                    ELSE [stage EXCEPT ![s] = "Receiving"]
        /\ started' = IF request[w].sawStarted THEN started
                      ELSE [started EXCEPT ![s] = TRUE]
        /\ Answer(w)
        /\ UNCHANGED declared

RegisterRejected(w) ==
    /\ At(w, "registerSave")
    /\ IndexRejects(request[w].vin, request[w].shipment, request[w].next)
    /\ Answer(w)
    /\ UNCHANGED database

-----------------------------------------------------------------------------
(* POST /api/import/shipments/{shipmentId}/complete                        *)

CompleteReadShipment(w, s) ==
    /\ At(w, "idle")
    /\ Exists(s)                                      \* else 404
    /\ Track(w, [NoRequest EXCEPT !.at = "completeCount", !.shipment = s,
                                  !.sawStage = stage[s], !.sawStarted = started[s]])
    /\ UNCHANGED database

\* Mutant: only a surplus is refused.
MayCompleteShort(s) == declared[s] > 0 => Received(s) <= declared[s]

MayComplete(s) == declared[s] > 0 => Received(s) = declared[s]

CompleteCount(w) ==
    LET s == request[w].shipment
    IN  /\ At(w, "completeCount")
        /\ \/ /\ MayComplete(s)
              /\ Track(w, [request[w] EXCEPT !.at = "completeSave"])
           \/ /\ ~MayComplete(s)                      \* 409
              /\ Answer(w)
        /\ UNCHANGED database

CompleteSave(w) ==
    /\ At(w, "completeSave")
    /\ stage' = IF request[w].sawStage = "Completed" THEN stage
                ELSE [stage EXCEPT ![request[w].shipment] = "Completed"]
    /\ Answer(w)
    /\ UNCHANGED <<declared, started, vehicles>>

-----------------------------------------------------------------------------
Create(w) ==
    \/ \E s \in Shipments, n \in Counts : CreateCheck(w, s, n)
    \/ CreateSave(w)

Register(w) ==
    \/ \E s \in Shipments, x \in Vins : RegisterReadShipment(w, s, x)
    \/ RegisterCheckVin(w)
    \/ RegisterReadTally(w)
    \/ RegisterSave(w)
    \/ RegisterRejected(w)

Complete(w) ==
    \/ \E s \in Shipments : CompleteReadShipment(w, s)
    \/ CompleteCount(w)
    \/ CompleteSave(w)

Next == \E w \in Workers : Create(w) \/ Register(w) \/ Complete(w) \/ Cancel(w)

Spec == Init /\ [][Next]_vars

-----------------------------------------------------------------------------
\* Rows and request contexts hold values of their columns.
TypeOK ==
    /\ stage \in [Shipments -> ShipmentStatus \cup {"Absent"}]
    /\ declared \in [Shipments -> Nat]
    /\ started \in [Shipments -> BOOLEAN]
    /\ vehicles \subseteq ImportedVehicle
    /\ request \in [Workers -> Request]

\* The tally of a shipment counts 1, 2, 3, ... with no gap and no number used
\* twice, although every number is computed from a maximum read earlier.
TallyDense == \A s \in Shipments : Tallies(s) = 1 .. Received(s)

\* A declared shipment never receives more vehicles than declared, so that the
\* remaining count of the shipment lists is not negative.
NotOverDeclared ==
    \A s \in Shipments : declared[s] > 0 => Received(s) <= declared[s]

\* A completed shipment that declared a count has received exactly that many,
\* although the count was read before the status was written.
CompletedIsComplete ==
    \A s \in Shipments :
        stage[s] = "Completed" /\ declared[s] > 0 => Received(s) = declared[s]

\* A VIN is registered once, in one shipment.
VinRegisteredOnce == \A x, y \in vehicles : x.vin = y.vin => x = y

\* The shipment's own columns agree with its vehicles: the arrival has started
\* exactly when one is there, and a planned or absent shipment has none.
ArrivalMatchesVehicles ==
    \A s \in Shipments :
        /\ started[s] <=> Rows(s) # {}
        /\ stage[s] \in {"Absent", "Planned"} => Rows(s) = {}

\* Once completed, a shipment that declared a count stays completed: no
\* registration that was under way reopens it.
CompletedStays ==
    [][\A s \in Shipments :
           stage[s] = "Completed" /\ declared[s] > 0 => stage'[s] = "Completed"]_vars

Tally == INSTANCE TallyBook WITH count <- [s \in Shipments |-> Received(s)]

\* Every interleaving of the handlers keeps the books of TallyBook.
ImplementsTallyBook == Tally!Spec
=============================================================================
