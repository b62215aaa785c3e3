----------------------------- MODULE YardProofs -----------------------------
(* Theorems about Yard, for every set of slots, vehicles, references and    *)
(* workers and for both databases.                                         *)
EXTENDS Yard, TLAPS

AssignStages   == {"assignSlot", "assignPrevious", "assignSave"}
DispatchStages == {"dispatchReference", "dispatchSlot", "dispatchSave"}
SlotStages     == {"statusRead", "statusSave", "sensorSave"}

\* A request in flight names the rows its handler was called with.
RequestNamesRows ==
    \A w \in Workers :
        /\ request[w].at \in AssignStages =>
               request[w].vehicle \in Vehicles /\ request[w].spot \in Spots
        /\ request[w].at \in DispatchStages =>
               request[w].vehicle \in Vehicles /\ request[w].reference \in References
        /\ request[w].at = "readySave" => request[w].vehicle \in Vehicles
        /\ request[w].at \in SlotStages => request[w].spot \in Spots

Typed == TypeOK /\ RequestNamesRows

LEMMA NoRequestTyped == NoRequest \in Request
  BY DEF NoRequest, Request, Stage, SpotStatus, InventoryStatus

\* A request that ends leaves a typed request table.
LEMMA AnswerTyped ==
  ASSUME Typed, NEW w \in Workers, Answer(w)
  PROVE  /\ request' \in [Workers -> Request]
         /\ \A u \in Workers : request'[u] = IF u = w THEN NoRequest ELSE request[u]
         /\ RequestNamesRows'
  <1>1. /\ request' \in [Workers -> Request]
        /\ \A u \in Workers : request'[u] = IF u = w THEN NoRequest ELSE request[u]
    BY NoRequestTyped DEF Typed, TypeOK, Answer, Track
  <1>2. RequestNamesRows'
    BY <1>1 DEF Typed, RequestNamesRows, NoRequest, AssignStages, DispatchStages, SlotStages
  <1>3. QED BY <1>1, <1>2

\* What a lookup by vehicle returns.
LEMMA SlotOfFinds ==
  ASSUME NEW v, NEW p \in SlotOf(v)
  PROVE  p = None \/ (p \in Spots /\ holder[p] = v)
  BY DEF SlotOf

LEMMA TypingInit == Init => Typed
  <1> SUFFICES ASSUME Init PROVE Typed
    OBVIOUS
  <1>1. TypeOK
    BY NoRequestTyped DEF Init, TypeOK, SpotStatus, InventoryStatus
  <1>2. RequestNamesRows
    BY DEF Init, RequestNamesRows, NoRequest, AssignStages, DispatchStages, SlotStages
  <1>3. QED BY <1>1, <1>2 DEF Typed

LEMMA TypingStep == Typed /\ [Next]_vars => Typed'
  <1> SUFFICES ASSUME Typed, [Next]_vars PROVE Typed'
    OBVIOUS
  <1> USE DEF Typed
  <1>1. ASSUME NEW w \in Workers, NEW v \in Vehicles, NEW s \in Spots, AssignReadVehicle(w, v, s)
        PROVE  Typed'
    BY <1>1 DEF TypeOK, RequestNamesRows, Track, AssignReadVehicle, database, Request, NoRequest,
                Stage, AssignStages, DispatchStages, SlotStages, SpotStatus
  <1>2. ASSUME NEW w \in Workers, AssignReadSlot(w) PROVE Typed'
    BY <1>2, AnswerTyped DEF TypeOK, RequestNamesRows, Track, AssignReadSlot, database, Request,
                At, Stage, AssignStages, DispatchStages, SlotStages
  <1>3. ASSUME NEW w \in Workers, AssignReadPrevious(w) PROVE Typed'
    <2>1. PICK p \in SlotOf(request[w].vehicle) :
             Track(w, [request[w] EXCEPT !.at = "assignSave", !.previous = p,
                             !.sawStatus = IF p = None THEN "Free" ELSE status[p]])
      BY <1>3 DEF AssignReadPrevious
    <2>2. p \in Spots \cup {None} /\ (p # None => status[p] \in SpotStatus)
      BY SlotOfFinds DEF TypeOK
    <2>3. request' \in [Workers -> Request]
      <3>1. request[w] \in Request
        BY DEF TypeOK
      <3>2. (IF p = None THEN "Free" ELSE status[p]) \in SpotStatus
        BY <2>2 DEF SpotStatus
      <3>3. QED BY <2>1, <2>2, <3>1, <3>2 DEF TypeOK, Track, Request, Stage
    <2>4. RequestNamesRows'
      BY <1>3, <2>1 DEF Track, TypeOK, Request, RequestNamesRows, AssignReadPrevious, At,
                       AssignStages, DispatchStages, SlotStages
    <2>5. QED BY <1>3, <2>3, <2>4 DEF TypeOK, AssignReadPrevious, database
  <1>4. ASSUME NEW w \in Workers, AssignSave(w) PROVE Typed'
    BY <1>4, AnswerTyped DEF TypeOK, RequestNamesRows, Track, AssignSave, Vacated, Freed, sensors,
                At, AssignStages, SpotStatus, InventoryStatus
  <1>5. ASSUME NEW w \in Workers, AssignRejected(w) PROVE Typed'
    BY <1>5, AnswerTyped DEF TypeOK, AssignRejected, database
  <1>6. ASSUME NEW w \in Workers, NEW v \in Vehicles, ReadyRead(w, v) PROVE Typed'
    BY <1>6 DEF TypeOK, RequestNamesRows, Track, ReadyRead, database, Request, NoRequest,
                Stage, AssignStages, DispatchStages, SlotStages, SpotStatus
  <1>7. ASSUME NEW w \in Workers, ReadySave(w) PROVE Typed'
    BY <1>7, AnswerTyped DEF TypeOK, RequestNamesRows, Track, ReadySave, At, slots, sensors, InventoryStatus
  <1>8. ASSUME NEW w \in Workers, NEW v \in Vehicles, NEW r \in References,
               DispatchReadVehicle(w, v, r)
        PROVE  Typed'
    BY <1>8 DEF TypeOK, RequestNamesRows, Track, DispatchReadVehicle, database, Request, NoRequest,
                Stage, AssignStages, DispatchStages, SlotStages, SpotStatus
  <1>9. ASSUME NEW w \in Workers, DispatchCheckReference(w) PROVE Typed'
    BY <1>9, AnswerTyped DEF TypeOK, RequestNamesRows, Track, DispatchCheckReference, database, Request,
                At, Stage, AssignStages, DispatchStages, SlotStages
  <1>10. ASSUME NEW w \in Workers, DispatchReadSlot(w) PROVE Typed'
    <2>1. PICK p \in SlotOf(request[w].vehicle) :
             Track(w, [request[w] EXCEPT !.at = "dispatchSave", !.previous = p,
                             !.sawStatus = IF p = None THEN "Free" ELSE status[p]])
      BY <1>10 DEF DispatchReadSlot
    <2>2. p \in Spots \cup {None} /\ (p # None => status[p] \in SpotStatus)
      BY SlotOfFinds DEF TypeOK
    <2>3. request' \in [Workers -> Request]
      <3>1. request[w] \in Request
        BY DEF TypeOK
      <3>2. (IF p = None THEN "Free" ELSE status[p]) \in SpotStatus
        BY <2>2 DEF SpotStatus
      <3>3. QED BY <2>1, <2>2, <3>1, <3>2 DEF TypeOK, Track, Request, Stage
    <2>4. RequestNamesRows'
      BY <1>10, <2>1 DEF Track, TypeOK, Request, RequestNamesRows, DispatchReadSlot, At,
                       AssignStages, DispatchStages, SlotStages
    <2>5. QED BY <1>10, <2>3, <2>4 DEF TypeOK, DispatchReadSlot, database
  <1>11. ASSUME NEW w \in Workers, DispatchSave(w) PROVE Typed'
    BY <1>11, AnswerTyped DEF TypeOK, RequestNamesRows, Track, DispatchSave, WithExit, Vacated, Freed, sensors,
                At, DispatchStages, SpotStatus, InventoryStatus, Exit
  <1>12. ASSUME NEW w \in Workers, DispatchRejected(w) PROVE Typed'
    BY <1>12, AnswerTyped DEF TypeOK, DispatchRejected, database
  <1>13. ASSUME NEW w \in Workers, NEW s \in Spots, NEW next \in OperatorTargets,
                StatusCall(w, s, next)
         PROVE  Typed'
    BY <1>13, TargetsAssumption DEF TypeOK, RequestNamesRows, Track, StatusCall, database, Request,
                NoRequest, Stage, AssignStages, DispatchStages, SlotStages, SpotStatus, InventoryStatus
  <1>14. ASSUME NEW w \in Workers, StatusRead(w) PROVE Typed'
    <2>1. CASE Answer(w)
      BY <1>14, <2>1, AnswerTyped DEF StatusRead, TypeOK, database
    <2>2. CASE Track(w, [request[w] EXCEPT !.at = "statusSave",
                                           !.sawStatus = status[request[w].spot]])
      <3>1. request[w] \in Request /\ request[w].spot \in Spots
        BY <1>14 DEF TypeOK, RequestNamesRows, StatusRead, At, SlotStages
      <3>2. status[request[w].spot] \in SpotStatus
        BY <3>1 DEF TypeOK
      <3>3. request' \in [Workers -> Request]
        BY <2>2, <3>1, <3>2 DEF TypeOK, Track, Request, Stage
      <3>4. RequestNamesRows'
        BY <2>2, <3>1 DEF TypeOK, Track, Request, RequestNamesRows,
                          AssignStages, DispatchStages, SlotStages
      <3>5. QED BY <1>14, <3>3, <3>4 DEF StatusRead, TypeOK, database
    <2>3. QED BY <1>14, <2>1, <2>2 DEF StatusRead
  <1>15. ASSUME NEW w \in Workers, StatusSave(w) PROVE Typed'
    BY <1>15, AnswerTyped DEF TypeOK, RequestNamesRows, Track, StatusSave, At, SlotStages, Request, sensors
  <1>16. ASSUME NEW w \in Workers, NEW s \in Spots, NEW occupied \in BOOLEAN,
                SensorRead(w, s, occupied)
         PROVE  Typed'
    BY <1>16 DEF TypeOK, RequestNamesRows, Track, SensorRead, SpotStatusOf, database, Request,
                NoRequest, Stage, AssignStages, DispatchStages, SlotStages, SpotStatus, InventoryStatus
  <1>17. ASSUME NEW w \in Workers, SensorSave(w) PROVE Typed'
    BY <1>17, AnswerTyped DEF TypeOK, RequestNamesRows, Track, SensorSave, At, SlotStages, Request
  <1>18. ASSUME NEW w \in Workers, Cancel(w) PROVE Typed'
    BY <1>18, AnswerTyped DEF TypeOK, Cancel, database
  <1>19. CASE UNCHANGED vars
    BY <1>19 DEF TypeOK, RequestNamesRows, Track, vars
  <1>20. QED
    BY <1>1, <1>2, <1>3, <1>4, <1>5, <1>6, <1>7, <1>8, <1>9, <1>10, <1>11, <1>12, <1>13,
       <1>14, <1>15, <1>16, <1>17, <1>18, <1>19
    DEF Next, Assign, Ready, Dispatch, ChangeStatus, Sensor

\* Every value the handlers store or keep in a request is of its column's or
\* field's type, whatever requests run together.
THEOREM YardTyping == Spec => []TypeOK
  <1>1. Init => Typed
    BY TypingInit
  <1>2. Typed /\ [Next]_vars => Typed'
    BY TypingStep
  <1>3. Typed => TypeOK
    BY DEF Typed
  <1>4. QED BY <1>1, <1>2, <1>3, PTL DEF Spec

-----------------------------------------------------------------------------
(* The safety properties, and what a request in flight may rely on of the  *)
(* rows it has read, however stale: a vehicle that was in the yard is never *)
(* Received again, and customs clearance is never taken back.              *)

RequestFacts ==
    \A w \in Workers :
        /\ request[w].at \in AssignStages /\ request[w].sawInventory = "InYard" =>
               inventory[request[w].vehicle] # "Received"
        /\ request[w].at \in DispatchStages \cup {"readySave"} =>
               request[w].vehicle \in Cleared

Safe ==
    /\ OneSlotPerVehicle
    /\ HolderHasArrived
    /\ ExitOnlyCleared
    /\ DispatchedHasRecord
    /\ ReferenceNamesOneExit

YardInv == Typed /\ RequestFacts /\ Safe

\* Requests keep their facts when one of them ends and no vehicle returns to
\* Received.
LEMMA AnswerKeepsFacts ==
  ASSUME Typed, RequestFacts, NEW w \in Workers, Answer(w),
         \A v \in Vehicles : inventory[v] # "Received" => inventory'[v] # "Received"
  PROVE  RequestFacts'
  <1>1. \A u \in Workers : request'[u] = IF u = w THEN NoRequest ELSE request[u]
    BY AnswerTyped
  <1>2. QED
    BY <1>1 DEF Typed, TypeOK, RequestNamesRows, RequestFacts, NoRequest, AssignStages, DispatchStages

\* A step that writes nothing to the database keeps what is said of its rows.
LEMMA ReadsAreSafe == Safe /\ UNCHANGED database => Safe'
  BY DEF Safe, OneSlotPerVehicle, HolderHasArrived, ExitOnlyCleared, DispatchedHasRecord,
         ReferenceNamesOneExit, database

LEMMA SafeInit == Init => RequestFacts /\ Safe
  BY NoneAssumption
  DEF Init, RequestFacts, NoRequest, AssignStages, DispatchStages, Safe, OneSlotPerVehicle,
      HolderHasArrived, ExitOnlyCleared, DispatchedHasRecord, ReferenceNamesOneExit

\* The two saves that move vehicles between slots, one at a time.
LEMMA AssignSaveSafe ==
  ASSUME YardInv, NEW w \in Workers, AssignSave(w)
  PROVE  Safe' /\ RequestFacts'
  <1> DEFINE v == request[w].vehicle
             s == request[w].spot
             p == request[w].previous
  <1>1. v \in Vehicles /\ s \in Spots /\ v # None
    BY NoneAssumption DEF YardInv, Typed, TypeOK, RequestNamesRows, AssignSave, At, AssignStages
  <1>2. \A t \in Spots : holder'[t] = IF t = s THEN v ELSE IF t = p THEN None ELSE holder[t]
    BY <1>1 DEF AssignSave, Vacated
  <1>3. \A t \in Spots \ {s, p} : holder[t] # v
    BY DEF AssignSave, SlotIndexRejects
  <1>4. /\ inventory'[v] # "Received"
        /\ \A x \in Vehicles : x # v => inventory'[x] = inventory[x]
        /\ inventory'[v] \in {inventory[v], "InYard"}
    BY <1>1 DEF AssignSave, YardInv, Typed, TypeOK, RequestFacts, At, AssignStages
  <1>5. exits' = exits
    BY DEF AssignSave
  <1>6. OneSlotPerVehicle'
    BY <1>1, <1>2, <1>3 DEF YardInv, Safe, OneSlotPerVehicle
  <1>7. HolderHasArrived'
    BY <1>1, <1>2, <1>4 DEF YardInv, Safe, HolderHasArrived, Typed, TypeOK
  <1>8. ExitOnlyCleared'
    BY <1>4, <1>5 DEF YardInv, Safe, ExitOnlyCleared
  <1>9. DispatchedHasRecord'
    BY <1>4, <1>5 DEF YardInv, Safe, DispatchedHasRecord
  <1>10. ReferenceNamesOneExit'
    BY <1>5 DEF YardInv, Safe, ReferenceNamesOneExit
  <1>11. RequestFacts'
    BY <1>1, <1>4, AnswerKeepsFacts DEF YardInv, AssignSave
  <1>12. QED BY <1>6, <1>7, <1>8, <1>9, <1>10, <1>11 DEF Safe

LEMMA DispatchSaveSafe ==
  ASSUME YardInv, NEW w \in Workers, DispatchSave(w)
  PROVE  Safe' /\ RequestFacts'
  <1> DEFINE v == request[w].vehicle
             r == request[w].reference
  <1>1. v \in Vehicles /\ v \in Cleared
    BY DEF YardInv, Typed, RequestNamesRows, RequestFacts, DispatchSave, At, DispatchStages
  <1>2. \A t \in Spots : holder'[t] \in {holder[t], None}
    BY DEF DispatchSave, Vacated
  <1>3. inventory' = [inventory EXCEPT ![v] = "Dispatched"] /\ inventory \in [Vehicles -> InventoryStatus]
    BY DEF DispatchSave, YardInv, Typed, TypeOK
  <1>4. /\ exits' = exits \cup {[reference |-> r, vehicle |-> v]}
        /\ \A e \in exits : e.reference # r
    BY DEF DispatchSave, WithExit, ReferenceIndexRejects, ReferenceTaken
  <1>5. OneSlotPerVehicle'
    BY <1>2 DEF YardInv, Safe, OneSlotPerVehicle
  <1>6. HolderHasArrived'
    BY <1>2, <1>3 DEF YardInv, Safe, HolderHasArrived, Typed, TypeOK
  <1>7. ExitOnlyCleared'
    BY <1>1, <1>3, <1>4 DEF YardInv, Safe, ExitOnlyCleared
  <1>8. DispatchedHasRecord'
    BY <1>1, <1>3, <1>4 DEF YardInv, Safe, DispatchedHasRecord
  <1>9. ReferenceNamesOneExit'
    BY <1>4 DEF YardInv, Safe, ReferenceNamesOneExit
  <1>10. RequestFacts'
    BY <1>3, AnswerKeepsFacts DEF YardInv, DispatchSave
  <1>11. QED BY <1>5, <1>6, <1>7, <1>8, <1>9, <1>10 DEF Safe

LEMMA ReadySaveSafe ==
  ASSUME YardInv, NEW w \in Workers, ReadySave(w)
  PROVE  Safe' /\ RequestFacts'
  <1> DEFINE v == request[w].vehicle
  <1>1. v \in Vehicles /\ v \in Cleared
    BY DEF YardInv, Typed, RequestNamesRows, RequestFacts, ReadySave, At
  <1>2. /\ inventory' = [inventory EXCEPT ![v] = "ReadyForDispatch"]
        /\ inventory \in [Vehicles -> InventoryStatus]
        /\ UNCHANGED <<holder, exits>>
    BY DEF ReadySave, slots, YardInv, Typed, TypeOK
  <1>3. HolderHasArrived'
    BY <1>2 DEF YardInv, Safe, HolderHasArrived, Typed, TypeOK
  <1>4. ExitOnlyCleared' /\ DispatchedHasRecord'
    BY <1>1, <1>2 DEF YardInv, Safe, ExitOnlyCleared, DispatchedHasRecord
  <1>5. OneSlotPerVehicle' /\ ReferenceNamesOneExit'
    BY <1>2 DEF YardInv, Safe, OneSlotPerVehicle, ReferenceNamesOneExit
  <1>6. RequestFacts'
    BY <1>2, AnswerKeepsFacts DEF YardInv, ReadySave
  <1>7. QED BY <1>3, <1>4, <1>5, <1>6 DEF Safe

\* A status change or a sensor reading touches neither vehicles nor records.
LEMMA ObservationSafe ==
  ASSUME YardInv, NEW w \in Workers, Answer(w), UNCHANGED <<holder, inventory, exits>>
  PROVE  Safe' /\ RequestFacts'
  <1>1. Safe'
    BY DEF YardInv, Safe, OneSlotPerVehicle, HolderHasArrived, ExitOnlyCleared,
           DispatchedHasRecord, ReferenceNamesOneExit
  <1>2. RequestFacts'
    BY AnswerKeepsFacts DEF YardInv
  <1>3. QED BY <1>1, <1>2

\* A read moves one request on; the new facts follow from what it has just read.
LEMMA ReadKeepsFacts ==
  ASSUME YardInv, NEW w \in Workers, NEW r, Track(w, r), UNCHANGED database,
         r.at \in AssignStages /\ r.sawInventory = "InYard" => inventory[r.vehicle] # "Received",
         r.at \in DispatchStages \cup {"readySave"} => r.vehicle \in Cleared
  PROVE  Safe' /\ RequestFacts'
  <1>1. \A u \in Workers : request'[u] = IF u = w THEN r ELSE request[u]
    BY DEF Track, YardInv, Typed, TypeOK
  <1>2. RequestFacts'
    BY <1>1 DEF YardInv, RequestFacts, database
  <1>3. QED BY <1>2, ReadsAreSafe DEF YardInv

\* A request that ends without writing.
LEMMA RefusalSafe ==
  ASSUME YardInv, NEW w \in Workers, Answer(w), UNCHANGED database
  PROVE  Safe' /\ RequestFacts'
  BY ObservationSafe DEF database

LEMMA SafetyStep == YardInv /\ [Next]_vars => Safe' /\ RequestFacts'
  <1> SUFFICES ASSUME YardInv, [Next]_vars PROVE Safe' /\ RequestFacts'
    OBVIOUS
  <1>1. ASSUME NEW w \in Workers, NEW v \in Vehicles, NEW s \in Spots, AssignReadVehicle(w, v, s)
        PROVE  Safe' /\ RequestFacts'
    BY <1>1, ReadKeepsFacts DEF AssignReadVehicle, NoRequest, DispatchStages
  <1>2. ASSUME NEW w \in Workers, AssignReadSlot(w) PROVE Safe' /\ RequestFacts'
    <2>1. request[w] \in Request /\ request[w].at = "assignSlot"
      BY <1>2 DEF AssignReadSlot, At, YardInv, Typed, TypeOK
    <2>2. CASE Answer(w)
      BY <1>2, <2>2, RefusalSafe DEF AssignReadSlot
    <2>3. CASE Track(w, [request[w] EXCEPT !.at = "assignPrevious"])
      <3> DEFINE r == [request[w] EXCEPT !.at = "assignPrevious"]
      <3>1. r.at = "assignPrevious" /\ r.vehicle = request[w].vehicle
                /\ r.sawInventory = request[w].sawInventory
        BY <2>1 DEF Request
      <3>2. r.sawInventory = "InYard" => inventory[r.vehicle] # "Received"
        BY <2>1, <3>1 DEF YardInv, RequestFacts, AssignStages
      <3>3. QED BY <1>2, <2>3, <3>1, <3>2, ReadKeepsFacts DEF AssignReadSlot, DispatchStages
    <2>4. QED BY <1>2, <2>2, <2>3 DEF AssignReadSlot
  <1>3. ASSUME NEW w \in Workers, AssignReadPrevious(w) PROVE Safe' /\ RequestFacts'
    <2>1. request[w] \in Request /\ request[w].at = "assignPrevious"
      BY <1>3 DEF AssignReadPrevious, At, YardInv, Typed, TypeOK
    <2>2. PICK p \in SlotOf(request[w].vehicle) :
             Track(w, [request[w] EXCEPT !.at = "assignSave", !.previous = p,
                             !.sawStatus = IF p = None THEN "Free" ELSE status[p]])
      BY <1>3 DEF AssignReadPrevious
    <2> DEFINE r == [request[w] EXCEPT !.at = "assignSave", !.previous = p,
                             !.sawStatus = IF p = None THEN "Free" ELSE status[p]]
    <2>3. r.at = "assignSave" /\ r.vehicle = request[w].vehicle
              /\ r.sawInventory = request[w].sawInventory
      BY <2>1 DEF Request
    <2>4. r.sawInventory = "InYard" => inventory[r.vehicle] # "Received"
      BY <2>1, <2>3 DEF YardInv, RequestFacts, AssignStages
    <2>5. QED BY <1>3, <2>2, <2>3, <2>4, ReadKeepsFacts DEF AssignReadPrevious, DispatchStages
  <1>4. ASSUME NEW w \in Workers, AssignSave(w) PROVE Safe' /\ RequestFacts'
    BY <1>4, AssignSaveSafe
  <1>5. ASSUME NEW w \in Workers, AssignRejected(w) \/ DispatchRejected(w) \/ Cancel(w)
        PROVE  Safe' /\ RequestFacts'
    BY <1>5, RefusalSafe DEF AssignRejected, DispatchRejected, Cancel
  <1>6. ASSUME NEW w \in Workers, NEW v \in Vehicles, ReadyRead(w, v) PROVE Safe' /\ RequestFacts'
    BY <1>6, ReadKeepsFacts DEF ReadyRead, MayBeReady, NoRequest, AssignStages
  <1>7. ASSUME NEW w \in Workers, ReadySave(w) PROVE Safe' /\ RequestFacts'
    BY <1>7, ReadySaveSafe
  <1>8. ASSUME NEW w \in Workers, NEW v \in Vehicles, NEW r \in References,
               DispatchReadVehicle(w, v, r)
        PROVE  Safe' /\ RequestFacts'
    <2>1. v \in Cleared
      BY <1>8 DEF DispatchReadVehicle, MayExit, YardInv, Safe, ExitOnlyCleared
    <2>2. QED BY <1>8, <2>1, ReadKeepsFacts DEF DispatchReadVehicle, NoRequest, AssignStages
  <1>9. ASSUME NEW w \in Workers, DispatchCheckReference(w) PROVE Safe' /\ RequestFacts'
    BY <1>9, ReadKeepsFacts, RefusalSafe
    DEF DispatchCheckReference, At, YardInv, Typed, TypeOK, Request, RequestFacts, AssignStages, DispatchStages
  <1>10. ASSUME NEW w \in Workers, DispatchReadSlot(w) PROVE Safe' /\ RequestFacts'
    BY <1>10, ReadKeepsFacts
    DEF DispatchReadSlot, At, YardInv, Typed, TypeOK, Request, RequestFacts, AssignStages, DispatchStages
  <1>11. ASSUME NEW w \in Workers, DispatchSave(w) PROVE Safe' /\ RequestFacts'
    BY <1>11, DispatchSaveSafe
  <1>12. ASSUME NEW w \in Workers, NEW s \in Spots, NEW next \in OperatorTargets,
                StatusCall(w, s, next)
         PROVE  Safe' /\ RequestFacts'
    BY <1>12, ReadKeepsFacts DEF StatusCall, NoRequest, AssignStages, DispatchStages
  <1>13. ASSUME NEW w \in Workers, StatusRead(w) PROVE Safe' /\ RequestFacts'
    BY <1>13, ReadKeepsFacts, RefusalSafe
    DEF StatusRead, At, YardInv, Typed, TypeOK, Request, AssignStages, DispatchStages
  <1>14. ASSUME NEW w \in Workers, StatusSave(w) \/ SensorSave(w) PROVE Safe' /\ RequestFacts'
    BY <1>14, ObservationSafe DEF StatusSave, SensorSave
  <1>15. ASSUME NEW w \in Workers, NEW s \in Spots, NEW occupied \in BOOLEAN,
                SensorRead(w, s, occupied)
         PROVE  Safe' /\ RequestFacts'
    BY <1>15, ReadKeepsFacts DEF SensorRead, NoRequest, AssignStages, DispatchStages
  <1>16. CASE UNCHANGED vars
    BY <1>16, ReadsAreSafe DEF vars, database, YardInv, RequestFacts
  <1>17. QED
    BY <1>1, <1>2, <1>3, <1>4, <1>5, <1>6, <1>7, <1>8, <1>9, <1>10, <1>11, <1>12, <1>13,
       <1>14, <1>15, <1>16
    DEF Next, Assign, Ready, Dispatch, ChangeStatus, Sensor

\* The invariant the safety theorems share.
THEOREM YardInvariance == Spec => []YardInv
  <1>1. Init => YardInv
    BY TypingInit, SafeInit DEF YardInv
  <1>2. YardInv /\ [Next]_vars => YardInv'
    BY TypingStep, SafetyStep DEF YardInv
  <1>3. QED BY <1>1, <1>2, PTL DEF Spec

\* However many requests overlap, on either database: only customs-cleared
\* vehicles are offered for dispatch or recorded as gone.
THEOREM OnlyClearedExit == Spec => []ExitOnlyCleared
  <1>1. YardInv => ExitOnlyCleared
    BY DEF YardInv, Safe
  <1>2. QED BY <1>1, YardInvariance, PTL

\* A lookup of a slot by vehicle never finds two, whatever races.
THEOREM OneSlot == Spec => []OneSlotPerVehicle
  <1>1. YardInv => OneSlotPerVehicle
    BY DEF YardInv, Safe
  <1>2. QED BY <1>1, YardInvariance, PTL

\* A vehicle in a slot is past reception, a Dispatched one has its record, and
\* no reference stands for two exits.
THEOREM YardBooks == Spec => [](HolderHasArrived /\ DispatchedHasRecord /\ ReferenceNamesOneExit)
  <1>1. YardInv => HolderHasArrived /\ DispatchedHasRecord /\ ReferenceNamesOneExit
    BY DEF YardInv, Safe
  <1>2. QED BY <1>1, YardInvariance, PTL

-----------------------------------------------------------------------------
(* Under SQLite's lock, what /complete has read of the slot is still so     *)
(* when it saves.                                                          *)

LookupStands ==
    \A w \in Workers :
        At(w, "dispatchSave") => request[w].previous \in SlotOf(request[w].vehicle)

\* A save by another request finds nobody between that read and the save.
LEMMA LookupStandsStep == TxLocks /\ Typed /\ LookupStands /\ [Next]_vars => LookupStands'
  <1> SUFFICES ASSUME TxLocks, Typed, LookupStands, [Next]_vars PROVE LookupStands'
    OBVIOUS
  <1>1. ASSUME NEW w \in Workers, MayWrite(w), Answer(w) PROVE LookupStands'
    BY <1>1, AnswerTyped DEF LookupStands, MayWrite, At, NoRequest
  <1>2. ASSUME NEW w \in Workers, NEW r, Track(w, r), UNCHANGED database,
               r.at = "dispatchSave" => r.previous \in SlotOf(r.vehicle)
        PROVE  LookupStands'
    <2>1. \A u \in Workers : request'[u] = IF u = w THEN r ELSE request[u]
      BY <1>2 DEF Track, Typed, TypeOK
    <2>2. holder' = holder
      BY <1>2 DEF database
    <2> SUFFICES ASSUME NEW u \in Workers, At(u, "dispatchSave")'
                 PROVE  (request[u].previous \in SlotOf(request[u].vehicle))'
      BY DEF LookupStands
    <2>3. CASE u = w
      <3>1. request'[u] = r
        BY <2>1, <2>3
      <3>2. r.previous \in SlotOf(r.vehicle)
        BY <1>2, <3>1 DEF At
      <3> QED BY <3>1, <3>2, <2>2 DEF SlotOf
    <2>4. CASE u # w
      <3>1. request'[u] = request[u]
        BY <2>1, <2>4
      <3>2. request[u].previous \in SlotOf(request[u].vehicle)
        BY <3>1 DEF At, LookupStands
      <3> QED BY <3>1, <3>2, <2>2 DEF SlotOf
    <2> QED BY <2>3, <2>4
  <1>3. ASSUME NEW w \in Workers, Answer(w), UNCHANGED database PROVE LookupStands'
    BY <1>2, <1>3 DEF Answer, NoRequest
  <1>4. ASSUME NEW w \in Workers, DispatchReadSlot(w) PROVE LookupStands'
    <2>1. PICK p \in SlotOf(request[w].vehicle) :
             Track(w, [request[w] EXCEPT !.at = "dispatchSave", !.previous = p,
                             !.sawStatus = IF p = None THEN "Free" ELSE status[p]])
      BY <1>4 DEF DispatchReadSlot
    <2>2. request[w] \in Request
      BY DEF Typed, TypeOK
    <2> QED BY <1>2, <1>4, <2>1, <2>2 DEF DispatchReadSlot, Request
  <1>5. ASSUME NEW w \in Workers,
               \/ \E v \in Vehicles, s \in Spots : AssignReadVehicle(w, v, s)
               \/ \E v \in Vehicles : ReadyRead(w, v)
               \/ \E v \in Vehicles, r \in References : DispatchReadVehicle(w, v, r)
               \/ \E s \in Spots, next \in OperatorTargets : StatusCall(w, s, next)
               \/ \E s \in Spots, occupied \in BOOLEAN : SensorRead(w, s, occupied)
        PROVE  LookupStands'
    <2>1. CASE \E v \in Vehicles, s \in Spots : AssignReadVehicle(w, v, s)
      BY <1>2, <2>1 DEF AssignReadVehicle, NoRequest
    <2>2. CASE \E v \in Vehicles : ReadyRead(w, v)
      BY <1>2, <2>2 DEF ReadyRead, NoRequest
    <2>3. CASE \E v \in Vehicles, r \in References : DispatchReadVehicle(w, v, r)
      BY <1>2, <2>3 DEF DispatchReadVehicle, NoRequest
    <2>4. CASE \E s \in Spots, next \in OperatorTargets : StatusCall(w, s, next)
      BY <1>2, <2>4 DEF StatusCall, NoRequest
    <2>5. CASE \E s \in Spots, occupied \in BOOLEAN : SensorRead(w, s, occupied)
      BY <1>2, <2>5 DEF SensorRead, NoRequest
    <2> QED BY <1>5, <2>1, <2>2, <2>3, <2>4, <2>5
  <1>9. ASSUME NEW w \in Workers,
               \/ AssignReadSlot(w) \/ AssignReadPrevious(w)
               \/ DispatchCheckReference(w) \/ StatusRead(w)
        PROVE  LookupStands'
    <2>0. request[w] \in Request
      BY DEF Typed, TypeOK
    <2>1. CASE AssignReadSlot(w)
      BY <1>2, <1>3, <2>0, <2>1 DEF AssignReadSlot, Request
    <2>2. CASE AssignReadPrevious(w)
      BY <1>2, <2>0, <2>2 DEF AssignReadPrevious, Request
    <2>3. CASE DispatchCheckReference(w)
      BY <1>2, <1>3, <2>0, <2>3 DEF DispatchCheckReference, Request
    <2>4. CASE StatusRead(w)
      BY <1>2, <1>3, <2>0, <2>4 DEF StatusRead, Request
    <2> QED BY <1>9, <2>1, <2>2, <2>3, <2>4
  <1>6. ASSUME NEW w \in Workers,
               AssignSave(w) \/ ReadySave(w) \/ DispatchSave(w) \/ StatusSave(w) \/ SensorSave(w)
        PROVE  LookupStands'
    BY <1>1, <1>6 DEF AssignSave, ReadySave, DispatchSave, StatusSave, SensorSave
  <1>7. ASSUME NEW w \in Workers, AssignRejected(w) \/ DispatchRejected(w) \/ Cancel(w)
        PROVE  LookupStands'
    BY <1>3, <1>7 DEF AssignRejected, DispatchRejected, Cancel
  <1>8. CASE UNCHANGED vars
    BY <1>8 DEF vars, LookupStands, At, SlotOf
  <1> QED
    BY <1>4, <1>5, <1>6, <1>7, <1>8, <1>9
    DEF Next, Assign, Ready, Dispatch, ChangeStatus, Sensor

\* What one step may do to the slots of a vehicle that leaves.
LeavesNoSlot == \A v \in Vehicles : NewExit(v) => \A s \in Spots : holder'[s] # v

LEMMA ReleaseStep == YardInv /\ LookupStands /\ [Next]_vars => LeavesNoSlot
  <1> SUFFICES ASSUME YardInv, LookupStands, [Next]_vars, NEW x \in Vehicles, NewExit(x)
               PROVE  \A s \in Spots : holder'[s] # x
    BY DEF LeavesNoSlot
  <1>1. PICK w \in Workers : DispatchSave(w)
    BY DEF Next, Assign, Ready, Dispatch, ChangeStatus, Sensor, NewExit, vars, database, sensors,
           AssignReadVehicle, AssignReadSlot, AssignReadPrevious, AssignSave, AssignRejected,
           ReadyRead, ReadySave, DispatchReadVehicle, DispatchCheckReference, DispatchReadSlot,
           DispatchRejected, StatusCall, StatusRead, StatusSave, SensorRead, SensorSave, Cancel
  <1> DEFINE v == request[w].vehicle
             p == request[w].previous
  <1>2. x = v
    BY <1>1 DEF DispatchSave, WithExit, NewExit
  <1>3. \A s \in Spots : holder'[s] = IF s = p THEN None ELSE holder[s]
    BY <1>1 DEF DispatchSave, Vacated
  <1>4. p \in SlotOf(v)
    BY <1>1 DEF LookupStands, DispatchSave
  <1>5. \A s \in Spots : holder[s] = v => s = p
    BY <1>4, NoneAssumption, <1>2 DEF SlotOf, YardInv, Safe, OneSlotPerVehicle
  <1> QED BY <1>2, <1>3, <1>5, NoneAssumption

\* On SQLite, however many requests overlap, the save that records an exit
\* leaves the vehicle no slot (the transaction of /complete).
THEOREM LockedExitReleases == TxLocks => (Spec => ExitReleasesSlot)
  <1> SUFFICES ASSUME TxLocks PROVE Spec => ExitReleasesSlot
    OBVIOUS
  <1>1. Init => LookupStands
    BY DEF Init, LookupStands, At, NoRequest
  <1>2. YardInv /\ LookupStands /\ [Next]_vars => LookupStands'
    BY LookupStandsStep DEF YardInv
  <1>3. YardInv /\ LookupStands /\ [Next]_vars =>
            [\A v \in Vehicles : NewExit(v) => \A s \in Spots : holder'[s] # v]_vars
    BY ReleaseStep DEF LeavesNoSlot
  <1> QED BY <1>1, <1>2, <1>3, YardInvariance, PTL DEF Spec, ExitReleasesSlot

-----------------------------------------------------------------------------
(* Requests that meet in no row: whatever a request has read is still so    *)
(* when it saves, since a save writes only rows of the request that ends,  *)
(* and nobody else has read them.                                          *)

\* What a request with these tracked values has read is so.
Stands(r) ==
    /\ r.at \in AssignStages => r.sawInventory = inventory[r.vehicle]
    /\ r.at \in {"assignPrevious", "assignSave"} => Available(r.spot)
    /\ r.at \in {"assignSave", "dispatchSave"} =>
           /\ r.previous \in SlotOf(r.vehicle)
           /\ r.previous # None => r.sawStatus = status[r.previous]
    /\ r.at = "readySave" => MayBeReady(r.vehicle)
    /\ r.at \in DispatchStages => MayExit(r.vehicle)
    /\ r.at \in {"dispatchSlot", "dispatchSave"} => ~ReferenceTaken(r.reference)
    /\ r.at = "sensorSave" =>
           /\ r.sawStatus = status[r.spot]
           /\ r.sawSensed = sensed[r.spot]
           /\ r.next \in {"Free", "Occupied"}

ReadsStand == \A w \in Workers : Stands(request[w])

Consistent == InventoryMatchesSlots /\ TrailMatchesStatus /\ SensorShowsLastReading

ApartInv == YardInv /\ Apart /\ ReadsStand /\ Consistent

LEMMA IdleStands == Stands(NoRequest)
  BY DEF Stands, NoRequest, AssignStages, DispatchStages

LEMMA ApartInit == Init => Apart /\ ReadsStand /\ Consistent
  <1> SUFFICES ASSUME Init PROVE Apart /\ ReadsStand /\ Consistent
    OBVIOUS
  <1>1. Apart
    BY DEF Init, Apart, SlotsAtHand, NoRequest
  <1>2. ReadsStand /\ Consistent
    BY IdleStands, NoneAssumption
    DEF Init, ReadsStand, Consistent, InventoryMatchesSlots, TrailMatchesStatus,
        SensorShowsLastReading
  <1> QED BY <1>1, <1>2

\* What a request has read stands as long as its rows are left alone.
LEMMA RowsLeftAlone ==
  ASSUME Typed, NEW u \in Workers, Stands(request[u]), request'[u] = request[u],
         request[u].vehicle \in Vehicles =>
             /\ inventory'[request[u].vehicle] = inventory[request[u].vehicle]
             /\ \A t \in Spots : holder'[t] = request[u].vehicle
                                  <=> holder[t] = request[u].vehicle,
         \A t \in Spots : t \in {request[u].spot, request[u].previous} =>
             status'[t] = status[t] /\ holder'[t] = holder[t] /\ sensed'[t] = sensed[t],
         \A e \in exits' : e \in exits \/ e.reference # request[u].reference
  PROVE  Stands(request[u])'
  <1> DEFINE r == request[u]
  <1>1. /\ r.at \in AssignStages \cup DispatchStages \cup {"readySave"} => r.vehicle \in Vehicles
        /\ r.at \in AssignStages \cup {"sensorSave"} => r.spot \in Spots
        /\ r.previous \in Spots \cup {None}
    BY DEF Typed, TypeOK, RequestNamesRows, Request, SlotStages
  <1>2. r.at \in AssignStages => r.sawInventory = inventory'[r.vehicle]
    BY <1>1 DEF Stands
  <1>3. r.at \in {"assignPrevious", "assignSave"} => Available(r.spot)'
    BY <1>1 DEF Stands, Available, AssignStages
  <1>4. r.at \in {"assignSave", "dispatchSave"} =>
            /\ r.previous \in SlotOf(r.vehicle)'
            /\ r.previous # None => r.sawStatus = status'[r.previous]
    <2> SUFFICES ASSUME r.at \in {"assignSave", "dispatchSave"}
                 PROVE  /\ r.previous \in SlotOf(r.vehicle)'
                        /\ r.previous # None => r.sawStatus = status'[r.previous]
      OBVIOUS
    <2>1. r.vehicle \in Vehicles /\ r.previous \in SlotOf(r.vehicle)
      BY <1>1 DEF Stands, AssignStages, DispatchStages
    <2>2. r.previous # None => r.sawStatus = status'[r.previous]
      BY <1>1 DEF Stands
    <2>3. {t \in Spots : holder'[t] = r.vehicle} = {t \in Spots : holder[t] = r.vehicle}
      BY <2>1
    <2> QED BY <2>1, <2>2, <2>3 DEF SlotOf
  <1>5. /\ r.at = "readySave" => MayBeReady(r.vehicle)'
        /\ r.at \in DispatchStages => MayExit(r.vehicle)'
    BY <1>1 DEF Stands, MayBeReady, MayExit
  <1>6. r.at \in {"dispatchSlot", "dispatchSave"} => ~ReferenceTaken(r.reference)'
    BY DEF Stands, ReferenceTaken
  <1>7. r.at = "sensorSave" =>
            /\ r.sawStatus = status'[r.spot]
            /\ r.sawSensed = sensed'[r.spot]
            /\ r.next \in {"Free", "Occupied"}
    BY <1>1 DEF Stands
  <1> QED BY <1>2, <1>3, <1>4, <1>5, <1>6, <1>7 DEF Stands

\* A read that tracks what is so leaves it so, and nobody else's reads change.
LEMMA ReadLeavesItStanding ==
  ASSUME Typed, ReadsStand, NEW w \in Workers, NEW r, Track(w, r), UNCHANGED database, Stands(r)
  PROVE  ReadsStand'
  <1> SUFFICES ASSUME NEW u \in Workers PROVE Stands(request[u])'
    BY DEF ReadsStand
  <1>1. request'[u] = IF u = w THEN r ELSE request[u]
    BY DEF Track, Typed, TypeOK
  <1>2. Stands(request'[u])
    BY <1>1 DEF ReadsStand
  <1> QED
    BY <1>2 DEF Stands, database, Available, SlotOf, MayBeReady, MayExit, ReferenceTaken

\* A request that ends without a save.
LEMMA RefusalLeavesItStanding ==
  ASSUME Typed, ReadsStand, NEW w \in Workers, Answer(w), UNCHANGED database
  PROVE  ReadsStand'
  BY IdleStands, ReadLeavesItStanding DEF Answer

\* A save ends its own request: what is left to show is that the reads of the
\* others stand.
LEMMA OthersSuffice ==
  ASSUME Typed, NEW w \in Workers, Answer(w),
         \A u \in Workers \ {w} : request'[u] = request[u] => Stands(request[u])'
  PROVE  ReadsStand'
  <1> SUFFICES ASSUME NEW u \in Workers PROVE Stands(request[u])'
    BY DEF ReadsStand
  <1>1. request'[u] = IF u = w THEN NoRequest ELSE request[u]
    BY AnswerTyped
  <1>2. CASE u = w
    BY <1>1, <1>2 DEF Stands, NoRequest, AssignStages, DispatchStages
  <1> QED BY <1>1, <1>2

\* Rows of one request are no rows of another.
LEMMA ApartRows ==
  ASSUME Apart, NEW u \in Workers, NEW w \in Workers, u # w
  PROVE  /\ request[u].vehicle \in Vehicles => request[u].vehicle # request[w].vehicle
         /\ request[w].reference \in References => request[u].reference # request[w].reference
         /\ \A t \in Spots : t \in {request[u].spot, request[u].previous} =>
                t \notin {request[w].spot, request[w].previous}
  <1>1. SlotsAtHand(u) \cap SlotsAtHand(w) = {}
    BY DEF Apart
  <1>2. \A t \in Spots : t # None
    BY NoneAssumption
  <1>3. request[u].vehicle \in Vehicles => request[u].vehicle # request[w].vehicle
    BY NoneAssumption DEF Apart
  <1>4. request[w].reference \in References => request[u].reference # request[w].reference
    BY NoneAssumption DEF Apart
  <1> QED BY <1>1, <1>2, <1>3, <1>4 DEF SlotsAtHand

\* The database is left alone by a read, a refusal or a cancelled request.
LEMMA ConsistentUnlessWritten == Consistent /\ UNCHANGED database => Consistent'
  BY DEF Consistent, InventoryMatchesSlots, TrailMatchesStatus, SensorShowsLastReading, database

LEMMA ReadStep ==
  ASSUME YardInv, ReadsStand, NEW w \in Workers,
         \/ \E v \in Vehicles, s \in Spots : AssignReadVehicle(w, v, s)
         \/ AssignReadSlot(w) \/ AssignReadPrevious(w)
         \/ \E v \in Vehicles : ReadyRead(w, v)
         \/ \E v \in Vehicles, r \in References : DispatchReadVehicle(w, v, r)
         \/ DispatchCheckReference(w) \/ DispatchReadSlot(w)
         \/ \E s \in Spots, next \in OperatorTargets : StatusCall(w, s, next)
         \/ StatusRead(w)
         \/ \E s \in Spots, occupied \in BOOLEAN : SensorRead(w, s, occupied)
         \/ AssignRejected(w) \/ DispatchRejected(w) \/ Cancel(w)
  PROVE  ReadsStand' /\ UNCHANGED database
  <1>a. UNCHANGED database
    BY DEF AssignReadVehicle, AssignReadSlot, AssignReadPrevious, ReadyRead, DispatchReadVehicle,
           DispatchCheckReference, DispatchReadSlot, StatusCall, StatusRead, SensorRead,
           AssignRejected, DispatchRejected, Cancel
  <1> SUFFICES ReadsStand'
    BY <1>a
  <1>0. Typed /\ request[w] \in Request /\ Stands(request[w])
    BY DEF YardInv, Typed, TypeOK, ReadsStand
  <1>1. ASSUME NEW v \in Vehicles, NEW s \in Spots, AssignReadVehicle(w, v, s) PROVE ReadsStand'
    <2> DEFINE r == [NoRequest EXCEPT !.at = "assignSlot", !.vehicle = v, !.spot = s,
                                      !.sawInventory = inventory[v]]
    <2>1. Stands(r)
      BY DEF Stands, NoRequest, AssignStages, DispatchStages
    <2> QED BY <1>0, <1>1, <2>1, ReadLeavesItStanding DEF AssignReadVehicle
  <1>2. CASE AssignReadSlot(w)
    <2> DEFINE r == [request[w] EXCEPT !.at = "assignPrevious"]
    <2>1. CASE Available(request[w].spot) /\ Track(w, r)
      <3>1. Stands(r)
        BY <1>0, <1>2, <2>1 DEF AssignReadSlot, At, Request, Stands, AssignStages, DispatchStages
      <3> QED BY <1>0, <1>2, <2>1, <3>1, ReadLeavesItStanding DEF AssignReadSlot
    <2>2. CASE Answer(w)
      BY <1>0, <1>a, <2>2, RefusalLeavesItStanding
    <2> QED BY <1>2, <2>1, <2>2 DEF AssignReadSlot
  <1>3. CASE AssignReadPrevious(w)
    <2>1. PICK p \in SlotOf(request[w].vehicle) :
             Track(w, [request[w] EXCEPT !.at = "assignSave", !.previous = p,
                             !.sawStatus = IF p = None THEN "Free" ELSE status[p]])
      BY <1>3 DEF AssignReadPrevious
    <2> DEFINE r == [request[w] EXCEPT !.at = "assignSave", !.previous = p,
                                       !.sawStatus = IF p = None THEN "Free" ELSE status[p]]
    <2>2. /\ r.at = "assignSave" /\ r.previous = p
          /\ r.vehicle = request[w].vehicle /\ r.spot = request[w].spot
          /\ r.sawInventory = request[w].sawInventory
          /\ p # None => r.sawStatus = status[p]
      BY <1>0 DEF Request
    <2>3. Stands(r)
      BY <1>0, <1>3, <2>2 DEF AssignReadPrevious, At, Stands, AssignStages, DispatchStages
    <2> QED BY <1>0, <1>3, <2>1, <2>3, ReadLeavesItStanding DEF AssignReadPrevious
  <1>4. ASSUME NEW v \in Vehicles, ReadyRead(w, v) PROVE ReadsStand'
    <2> DEFINE r == [NoRequest EXCEPT !.at = "readySave", !.vehicle = v,
                                      !.sawInventory = inventory[v]]
    <2>1. Stands(r)
      BY <1>4 DEF ReadyRead, Stands, NoRequest, AssignStages, DispatchStages
    <2> QED BY <1>0, <1>4, <2>1, ReadLeavesItStanding DEF ReadyRead
  <1>5. ASSUME NEW v \in Vehicles, NEW ref \in References, DispatchReadVehicle(w, v, ref)
        PROVE  ReadsStand'
    <2> DEFINE r == [NoRequest EXCEPT !.at = "dispatchReference", !.vehicle = v,
                                      !.reference = ref, !.sawInventory = inventory[v]]
    <2>1. Stands(r)
      BY <1>5 DEF DispatchReadVehicle, Stands, NoRequest, AssignStages, DispatchStages
    <2> QED BY <1>0, <1>5, <2>1, ReadLeavesItStanding DEF DispatchReadVehicle
  <1>6. CASE DispatchCheckReference(w)
    <2> DEFINE r == [request[w] EXCEPT !.at = "dispatchSlot"]
    <2>1. CASE ~ReferenceTaken(request[w].reference) /\ Track(w, r)
      <3>1. Stands(r)
        BY <1>0, <1>6, <2>1
        DEF DispatchCheckReference, At, Request, Stands, AssignStages, DispatchStages
      <3> QED BY <1>0, <1>6, <2>1, <3>1, ReadLeavesItStanding DEF DispatchCheckReference
    <2>2. CASE Answer(w)
      BY <1>0, <1>a, <2>2, RefusalLeavesItStanding
    <2> QED BY <1>6, <2>1, <2>2 DEF DispatchCheckReference
  <1>7. CASE DispatchReadSlot(w)
    <2>1. PICK p \in SlotOf(request[w].vehicle) :
             Track(w, [request[w] EXCEPT !.at = "dispatchSave", !.previous = p,
                             !.sawStatus = IF p = None THEN "Free" ELSE status[p]])
      BY <1>7 DEF DispatchReadSlot
    <2> DEFINE r == [request[w] EXCEPT !.at = "dispatchSave", !.previous = p,
                                       !.sawStatus = IF p = None THEN "Free" ELSE status[p]]
    <2>2. /\ r.at = "dispatchSave" /\ r.previous = p
          /\ r.vehicle = request[w].vehicle /\ r.reference = request[w].reference
          /\ p # None => r.sawStatus = status[p]
      BY <1>0 DEF Request
    <2>3. Stands(r)
      BY <1>0, <1>7, <2>2 DEF DispatchReadSlot, At, Stands, AssignStages, DispatchStages
    <2> QED BY <1>0, <1>7, <2>1, <2>3, ReadLeavesItStanding DEF DispatchReadSlot
  <1>8. ASSUME NEW s \in Spots, NEW next \in OperatorTargets, StatusCall(w, s, next)
        PROVE  ReadsStand'
    <2> DEFINE r == [NoRequest EXCEPT !.at = "statusRead", !.spot = s, !.next = next]
    <2>1. Stands(r)
      BY DEF Stands, NoRequest, AssignStages, DispatchStages
    <2> QED BY <1>0, <1>8, <2>1, ReadLeavesItStanding DEF StatusCall
  <1>9. CASE StatusRead(w)
    <2> DEFINE r == [request[w] EXCEPT !.at = "statusSave", !.sawStatus = status[request[w].spot]]
    <2>1. CASE Track(w, r)
      <3>1. Stands(r)
        BY <1>0 DEF Request, Stands, AssignStages, DispatchStages
      <3> QED BY <1>0, <1>9, <2>1, <3>1, ReadLeavesItStanding DEF StatusRead
    <2>2. CASE Answer(w)
      BY <1>0, <1>a, <2>2, RefusalLeavesItStanding
    <2> QED BY <1>9, <2>1, <2>2 DEF StatusRead
  <1>10. ASSUME NEW s \in Spots, NEW occupied \in BOOLEAN, SensorRead(w, s, occupied)
         PROVE  ReadsStand'
    <2> DEFINE r == [NoRequest EXCEPT !.at = "sensorSave", !.spot = s,
                             !.next = SpotStatusOf(occupied),
                             !.sawStatus = status[s], !.sawSensed = sensed[s]]
    <2>1. Stands(r)
      BY DEF Stands, NoRequest, SpotStatusOf, AssignStages, DispatchStages
    <2> QED BY <1>0, <1>10, <2>1, ReadLeavesItStanding DEF SensorRead
  <1>11. CASE AssignRejected(w) \/ DispatchRejected(w) \/ Cancel(w)
    BY <1>0, <1>a, <1>11, RefusalLeavesItStanding DEF AssignRejected, DispatchRejected, Cancel
  <1> QED
    BY <1>1, <1>2, <1>3, <1>4, <1>5, <1>6, <1>7, <1>8, <1>9, <1>10, <1>11

\* What an assignment writes: the vehicle's only slot is the one it asked for.
LEMMA AssignSaveWrites ==
  ASSUME YardInv, ReadsStand, NEW w \in Workers, AssignSave(w)
  PROVE  LET v == request[w].vehicle
             s == request[w].spot
             p == request[w].previous
         IN  /\ v \in Vehicles /\ s \in Spots /\ v # None
             /\ Available(s)
             /\ s # p
             /\ \A t \in Spots : holder[t] = v <=> t = p
             /\ \A t \in Spots : holder'[t] = IF t = s THEN v
                                              ELSE IF t = p THEN None ELSE holder[t]
             /\ \A t \in Spots : status'[t] = IF t = s THEN "Occupied"
                                              ELSE IF t = p THEN "Free" ELSE status[t]
             /\ \A t \in Spots : trail'[t] = IF t = s THEN "Occupied" ELSE trail[t]
             /\ inventory' = [inventory EXCEPT ![v] = "InYard"]
             /\ UNCHANGED <<exits, sensors>>
  <1> DEFINE v == request[w].vehicle
             s == request[w].spot
             p == request[w].previous
             saw == request[w].sawStatus
  <1>1. v \in Vehicles /\ s \in Spots /\ v # None
    BY NoneAssumption DEF YardInv, Typed, TypeOK, RequestNamesRows, AssignSave, At, AssignStages
  <1>2. /\ Available(s)
        /\ p \in SlotOf(v)
        /\ p # None => saw = status[p]
        /\ request[w].sawInventory = inventory[v]
    BY DEF ReadsStand, Stands, AssignSave, At, AssignStages
  <1>3. \A t \in Spots : holder[t] = v <=> t = p
    BY <1>1, <1>2, NoneAssumption DEF SlotOf, YardInv, Safe, OneSlotPerVehicle
  <1>4. s # p
    BY <1>1, <1>2, <1>3 DEF Available
  <1>5. \A t \in Spots : holder'[t] = IF t = s THEN v ELSE IF t = p THEN None ELSE holder[t]
    BY <1>1 DEF AssignSave, Vacated
  <1>6. \A t \in Spots : status'[t] = IF t = s THEN "Occupied"
                                      ELSE IF t = p THEN "Free" ELSE status[t]
    BY <1>1, <1>2, NoneAssumption DEF AssignSave, Freed
  <1>7. \A t \in Spots : trail'[t] = IF t = s THEN "Occupied" ELSE trail[t]
    BY DEF AssignSave, YardInv, Typed, TypeOK
  <1>8. inventory' = [inventory EXCEPT ![v] = "InYard"]
    BY <1>1, <1>2 DEF AssignSave, YardInv, Typed, TypeOK
  <1>9. UNCHANGED <<exits, sensors>>
    BY DEF AssignSave
  <1> QED BY <1>1, <1>2, <1>3, <1>4, <1>5, <1>6, <1>7, <1>8, <1>9

\* What an exit writes: the vehicle's slot, if it has one, becomes free.
LEMMA DispatchSaveWrites ==
  ASSUME YardInv, ReadsStand, NEW w \in Workers, DispatchSave(w)
  PROVE  LET v == request[w].vehicle
             r == request[w].reference
             p == request[w].previous
         IN  /\ v \in Vehicles /\ r \in References /\ v # None
             /\ MayExit(v)
             /\ ~ReferenceTaken(r)
             /\ \A t \in Spots : holder[t] = v <=> t = p
             /\ \A t \in Spots : holder'[t] = IF t = p THEN None ELSE holder[t]
             /\ \A t \in Spots : status'[t] = IF t = p THEN "Free" ELSE status[t]
             /\ \A t \in Spots : trail'[t] = IF t = p THEN "Free" ELSE trail[t]
             /\ exits' = exits \cup {[reference |-> r, vehicle |-> v]}
             /\ inventory' = [inventory EXCEPT ![v] = "Dispatched"]
             /\ UNCHANGED sensors
  <1> DEFINE v == request[w].vehicle
             r == request[w].reference
             p == request[w].previous
             saw == request[w].sawStatus
  <1>1. v \in Vehicles /\ r \in References /\ v # None
    BY NoneAssumption DEF YardInv, Typed, TypeOK, RequestNamesRows, DispatchSave, At, DispatchStages
  <1>2. /\ MayExit(v)
        /\ p \in SlotOf(v)
        /\ p # None => saw = status[p]
    BY DEF ReadsStand, Stands, DispatchSave, At, DispatchStages
  <1>3. \A t \in Spots : holder[t] = v <=> t = p
    BY <1>1, <1>2, NoneAssumption DEF SlotOf, YardInv, Safe, OneSlotPerVehicle
  <1>4. \A t \in Spots : holder'[t] = IF t = p THEN None ELSE holder[t]
    BY DEF DispatchSave, Vacated
  <1>5. \A t \in Spots : status'[t] = IF t = p THEN "Free" ELSE status[t]
    BY <1>2, NoneAssumption DEF DispatchSave, Freed
  <1>6. /\ ~ReferenceTaken(r)
        /\ \A t \in Spots : trail'[t] = IF t = p THEN "Free" ELSE trail[t]
        /\ exits' = exits \cup {[reference |-> r, vehicle |-> v]}
        /\ inventory' = [inventory EXCEPT ![v] = "Dispatched"]
        /\ UNCHANGED sensors
    BY DEF DispatchSave, WithExit, ReferenceIndexRejects
  <1> QED BY <1>1, <1>2, <1>3, <1>4, <1>5, <1>6

LEMMA SaveStep ==
  ASSUME ApartInv, NEW w \in Workers,
         AssignSave(w) \/ ReadySave(w) \/ DispatchSave(w) \/ StatusSave(w) \/ SensorSave(w)
  PROVE  Consistent'
  <1>0. Typed /\ Consistent
    BY DEF ApartInv, YardInv
  <1>1. CASE AssignSave(w)
    <2>1. InventoryMatchesSlots'
      <3> DEFINE v == request[w].vehicle
                 s == request[w].spot
      <3> SUFFICES ASSUME NEW x \in Vehicles
                   PROVE  inventory'[x] \in {"InYard", "ReadyForDispatch"}
                              <=> \E t \in Spots : holder'[t] = x
        BY DEF InventoryMatchesSlots
      <3>1. CASE x = v
        BY <1>0, <1>1, <3>1, AssignSaveWrites DEF ApartInv, Typed, TypeOK
      <3>2. CASE x # v
        <4>1. inventory'[x] = inventory[x]
          BY <1>0, <1>1, <3>2, AssignSaveWrites DEF ApartInv, Typed, TypeOK
        <4>2. \A t \in Spots : holder'[t] = x <=> holder[t] = x
          BY <1>1, <3>2, AssignSaveWrites, NoneAssumption DEF ApartInv, Available
        <4> QED BY <1>0, <4>1, <4>2 DEF Consistent, InventoryMatchesSlots
      <3> QED BY <3>1, <3>2
    <2>2. TrailMatchesStatus'
      BY <1>0, <1>1, AssignSaveWrites DEF ApartInv, Consistent, TrailMatchesStatus
    <2> QED BY <1>0, <1>1, <2>1, <2>2, AssignSaveWrites
            DEF ApartInv, Consistent, SensorShowsLastReading, sensors
  <1>2. CASE ReadySave(w)
    <2>1. request[w].vehicle \in Vehicles /\ MayBeReady(request[w].vehicle)
      BY <1>0, <1>2 DEF ReadySave, At, ApartInv, ReadsStand, Stands, Typed, RequestNamesRows
    <2> QED BY <1>0, <1>2, <2>1
            DEF ReadySave, MayBeReady, slots, sensors, Typed, TypeOK, Consistent,
                InventoryMatchesSlots, TrailMatchesStatus, SensorShowsLastReading
  <1>3. CASE DispatchSave(w)
    <2>1. InventoryMatchesSlots'
      <3> DEFINE v == request[w].vehicle
      <3> SUFFICES ASSUME NEW x \in Vehicles
                   PROVE  inventory'[x] \in {"InYard", "ReadyForDispatch"}
                              <=> \E t \in Spots : holder'[t] = x
        BY DEF InventoryMatchesSlots
      <3>1. CASE x = v
        <4>1. inventory'[x] = "Dispatched"
          BY <1>0, <1>3, <3>1, DispatchSaveWrites DEF ApartInv, Typed, TypeOK
        <4>2. \A t \in Spots : holder'[t] # x
          BY <1>3, <3>1, DispatchSaveWrites DEF ApartInv
        <4> QED BY <4>1, <4>2
      <3>2. CASE x # v
        <4>1. inventory'[x] = inventory[x]
          BY <1>0, <1>3, <3>2, DispatchSaveWrites DEF ApartInv, Typed, TypeOK
        <4>2. \A t \in Spots : holder'[t] = x <=> holder[t] = x
          BY <1>3, <3>2, DispatchSaveWrites, NoneAssumption DEF ApartInv
        <4> QED BY <1>0, <4>1, <4>2 DEF Consistent, InventoryMatchesSlots
      <3> QED BY <3>1, <3>2
    <2>2. TrailMatchesStatus'
      BY <1>0, <1>3, DispatchSaveWrites DEF ApartInv, Consistent, TrailMatchesStatus
    <2> QED BY <1>0, <1>3, <2>1, <2>2, DispatchSaveWrites
            DEF ApartInv, Consistent, SensorShowsLastReading, sensors
  <1>4. CASE StatusSave(w)
    BY <1>0, <1>4
    DEF StatusSave, sensors, Typed, TypeOK, Consistent, InventoryMatchesSlots, TrailMatchesStatus,
        SensorShowsLastReading
  <1>5. CASE SensorSave(w)
    <2> DEFINE s == request[w].spot
               next == request[w].next
    <2>1. /\ s \in Spots
          /\ request[w].sawStatus = status[s]
          /\ request[w].sawSensed = sensed[s]
      BY <1>0, <1>5
      DEF SensorSave, At, ApartInv, ReadsStand, Stands, Typed, RequestNamesRows, SlotStages
    <2>2. SensorShowsLastReading'
      BY <1>0, <1>5, <2>1 DEF SensorSave, Typed, TypeOK, Consistent, SensorShowsLastReading
    <2>3. TrailMatchesStatus'
      BY <1>0, <1>5, <2>1 DEF SensorSave, Typed, TypeOK, Consistent, TrailMatchesStatus
    <2> QED BY <1>0, <1>5, <2>2, <2>3 DEF SensorSave, Consistent, InventoryMatchesSlots
  <1> QED BY <1>1, <1>2, <1>3, <1>4, <1>5

\* No save touches what another request has read.
LEMMA SaveLeavesOthersStanding ==
  ASSUME ApartInv, NEW w \in Workers,
         AssignSave(w) \/ ReadySave(w) \/ DispatchSave(w) \/ StatusSave(w) \/ SensorSave(w)
  PROVE  ReadsStand'
  <1>0. Typed /\ YardInv /\ ReadsStand /\ Apart
    BY DEF ApartInv, YardInv
  <1>a. Answer(w)
    BY DEF AssignSave, ReadySave, DispatchSave, StatusSave, SensorSave
  <1> SUFFICES ASSUME NEW u \in Workers, u # w, request'[u] = request[u]
               PROVE  Stands(request[u])'
    BY <1>0, <1>a, OthersSuffice
  <1> DEFINE x == request[u].vehicle
  <1>b. /\ Stands(request[u])
        /\ x \in Vehicles => x # request[w].vehicle
        /\ request[w].reference \in References => request[u].reference # request[w].reference
        /\ \A t \in Spots : t \in {request[u].spot, request[u].previous} =>
               t # request[w].spot /\ t # request[w].previous
    BY <1>0, ApartRows DEF ReadsStand
  <1>t. /\ status \in [Spots -> SpotStatus] /\ sensed \in [Spots -> BOOLEAN]
        /\ inventory \in [Vehicles -> InventoryStatus]
    BY <1>0 DEF Typed, TypeOK
  <1>1. CASE AssignSave(w)
    <2>1. x \in Vehicles => inventory'[x] = inventory[x]
      BY <1>0, <1>1, <1>b, <1>t, AssignSaveWrites
    <2>2. x \in Vehicles => \A t \in Spots : holder'[t] = x <=> holder[t] = x
      BY <1>0, <1>1, <1>b, AssignSaveWrites, NoneAssumption DEF Available
    <2>3. \A t \in Spots : t \in {request[u].spot, request[u].previous} =>
              status'[t] = status[t] /\ holder'[t] = holder[t] /\ sensed'[t] = sensed[t]
      BY <1>0, <1>1, <1>b, AssignSaveWrites DEF sensors
    <2>4. exits' = exits
      BY <1>1 DEF AssignSave
    <2> QED BY <1>0, <1>b, <2>1, <2>2, <2>3, <2>4, RowsLeftAlone
  <1>2. CASE ReadySave(w)
    <2>1. /\ inventory' = [inventory EXCEPT ![request[w].vehicle] = "ReadyForDispatch"]
          /\ UNCHANGED <<status, holder, exits, sensed>>
      BY <1>2 DEF ReadySave, slots, sensors
    <2>2. x \in Vehicles => inventory'[x] = inventory[x]
      BY <1>b, <1>t, <2>1
    <2> QED BY <1>0, <1>b, <2>1, <2>2, RowsLeftAlone
  <1>3. CASE DispatchSave(w)
    <2>1. x \in Vehicles => inventory'[x] = inventory[x]
      BY <1>0, <1>3, <1>b, <1>t, DispatchSaveWrites
    <2>2. x \in Vehicles => \A t \in Spots : holder'[t] = x <=> holder[t] = x
      BY <1>0, <1>3, <1>b, DispatchSaveWrites, NoneAssumption
    <2>3. \A t \in Spots : t \in {request[u].spot, request[u].previous} =>
              status'[t] = status[t] /\ holder'[t] = holder[t] /\ sensed'[t] = sensed[t]
      BY <1>0, <1>3, <1>b, DispatchSaveWrites DEF sensors
    <2>4. \A e \in exits' : e \in exits \/ e.reference # request[u].reference
      BY <1>0, <1>3, <1>b, DispatchSaveWrites
    <2> QED BY <1>0, <1>b, <2>1, <2>2, <2>3, <2>4, RowsLeftAlone
  <1>4. CASE StatusSave(w) \/ SensorSave(w)
    <2>1. UNCHANGED <<holder, inventory, exits>>
      BY <1>4 DEF StatusSave, SensorSave
    <2>2. \A t \in Spots : t # request[w].spot => status'[t] = status[t] /\ sensed'[t] = sensed[t]
      BY <1>4, <1>t DEF StatusSave, SensorSave, sensors
    <2>3. \A t \in Spots : t \in {request[u].spot, request[u].previous} =>
              status'[t] = status[t] /\ holder'[t] = holder[t] /\ sensed'[t] = sensed[t]
      BY <1>b, <2>1, <2>2
    <2> QED BY <1>0, <1>b, <2>1, <2>3, RowsLeftAlone
  <1> QED BY <1>1, <1>2, <1>3, <1>4

LEMMA ApartStep == ApartInv /\ [Next]_vars => (ReadsStand /\ Consistent)'
  <1> SUFFICES ASSUME ApartInv, [Next]_vars PROVE ReadsStand' /\ Consistent'
    OBVIOUS
  <1>1. ASSUME NEW w \in Workers,
               AssignSave(w) \/ ReadySave(w) \/ DispatchSave(w) \/ StatusSave(w) \/ SensorSave(w)
        PROVE  ReadsStand' /\ Consistent'
    BY <1>1, SaveStep, SaveLeavesOthersStanding
  <1>2. CASE UNCHANGED vars
    <2>1. ReadsStand'
      <3> SUFFICES ASSUME NEW u \in Workers PROVE Stands(request[u])'
        BY DEF ReadsStand
      <3>1. Stands(request'[u])
        BY <1>2 DEF vars, ApartInv, ReadsStand
      <3> QED BY <1>2, <3>1
              DEF vars, Stands, Available, SlotOf, MayBeReady, MayExit, ReferenceTaken
    <2> QED BY <1>2, <2>1, ConsistentUnlessWritten DEF vars, database, ApartInv
  <1> QED
    BY <1>1, <1>2, ReadStep, ConsistentUnlessWritten
    DEF Next, Assign, Ready, Dispatch, ChangeStatus, Sensor, ApartInv

\* What requests keep that overlap but meet in no row: their reads stay true,
\* and the books agree.
THEOREM ApartInvariance == ApartSpec => []ApartInv
  <1>1. Init => ApartInv
    BY TypingInit, SafeInit, ApartInit DEF ApartInv, YardInv
  <1>2. ApartInv /\ [Next /\ Apart']_vars => ApartInv'
    <2> SUFFICES ASSUME ApartInv, [Next /\ Apart']_vars PROVE ApartInv'
      OBVIOUS
    <2>1. [Next]_vars /\ YardInv
      BY DEF ApartInv
    <2>2. YardInv'
      BY <2>1, TypingStep, SafetyStep DEF YardInv
    <2>3. Apart'
      <3>1. CASE UNCHANGED vars
        BY <3>1 DEF ApartInv, Apart, SlotsAtHand, vars
      <3> QED BY <3>1
    <2> QED BY <2>1, <2>2, <2>3, ApartStep DEF ApartInv
  <1> QED BY <1>1, <1>2, PTL DEF ApartSpec

\* When requests that overlap meet in no row, the status of a vehicle and the
\* slot map agree, the newest event of a slot tells its status (but for a slot
\* an assignment took its vehicle from), and CurrentOccupied is the newest
\* reading: on either database, a race is always over a row.
THEOREM ApartYard ==
  ApartSpec => [](InventoryMatchesSlots /\ TrailMatchesStatus /\ SensorShowsLastReading)
  <1>1. ApartInv => InventoryMatchesSlots /\ TrailMatchesStatus /\ SensorShowsLastReading
    BY DEF ApartInv, Consistent
  <1> QED BY <1>1, ApartInvariance, PTL

\* A step of such a yard, as the ledger sees it.
LEMMA LedgerStep == ApartInv /\ [Next]_vars => [Ledger!Next]_(Ledger!ledger)
  <1> SUFFICES ASSUME ApartInv, [Next]_vars
               PROVE  Ledger!Next \/ UNCHANGED <<status, holder, inventory, exits>>
    BY DEF Ledger!ledger
  <1>0. Typed /\ YardInv /\ ReadsStand
    BY DEF ApartInv, YardInv
  <1>1. ASSUME NEW w \in Workers, AssignSave(w) PROVE Ledger!Next
    <2> DEFINE v == request[w].vehicle
               s == request[w].spot
               p == request[w].previous
    <2>1. status \in [Spots -> SpotStatus] /\ holder \in [Spots -> Vehicles \cup {None}]
      BY <1>0 DEF Typed, TypeOK
    <2>2. status' \in [Spots -> SpotStatus] /\ holder' \in [Spots -> Vehicles \cup {None}]
      BY <1>0, TypingStep DEF Typed, TypeOK
    <2>3. holder' = [t \in Spots |-> IF t = s THEN v
                                     ELSE IF holder[t] = v THEN None ELSE holder[t]]
      BY <1>0, <1>1, <2>1, <2>2, AssignSaveWrites
    <2>4. status' = [t \in Spots |-> IF t = s THEN "Occupied"
                                     ELSE IF holder[t] = v THEN "Free" ELSE status[t]]
      BY <1>0, <1>1, <2>1, <2>2, AssignSaveWrites
    <2>5. /\ v \in Vehicles /\ s \in Spots
          /\ status[s] = "Free" /\ holder[s] = None
          /\ inventory' = [inventory EXCEPT ![v] = "InYard"]
          /\ UNCHANGED exits
      BY <1>0, <1>1, AssignSaveWrites DEF Available
    <2>6. Ledger!Place(v, s)
      BY <2>3, <2>4, <2>5 DEF Ledger!Place
    <2> QED BY <2>5, <2>6 DEF Ledger!Next
  <1>2. ASSUME NEW w \in Workers, ReadySave(w) PROVE Ledger!Next
    <2> DEFINE v == request[w].vehicle
    <2>1. v \in Vehicles /\ MayBeReady(v)
      BY <1>0, <1>2 DEF ReadySave, At, ReadsStand, Stands, Typed, RequestNamesRows
    <2>2. Ledger!Offer(v)
      BY <1>2, <2>1 DEF ReadySave, MayBeReady, slots, Ledger!Offer
    <2> QED BY <2>1, <2>2 DEF Ledger!Next
  <1>3. ASSUME NEW w \in Workers, DispatchSave(w) PROVE Ledger!Next
    <2> DEFINE v == request[w].vehicle
               r == request[w].reference
               p == request[w].previous
    <2>1. status \in [Spots -> SpotStatus] /\ holder \in [Spots -> Vehicles \cup {None}]
      BY <1>0 DEF Typed, TypeOK
    <2>2. status' \in [Spots -> SpotStatus] /\ holder' \in [Spots -> Vehicles \cup {None}]
      BY <1>0, TypingStep DEF Typed, TypeOK
    <2>3. holder' = [t \in Spots |-> IF holder[t] = v THEN None ELSE holder[t]]
      BY <1>0, <1>3, <2>1, <2>2, DispatchSaveWrites
    <2>4. status' = [t \in Spots |-> IF holder[t] = v THEN "Free" ELSE status[t]]
      BY <1>0, <1>3, <2>1, <2>2, DispatchSaveWrites
    <2>5. /\ v \in Vehicles /\ r \in References
          /\ inventory[v] = "ReadyForDispatch"
          /\ \A e \in exits : e.reference # r
          /\ exits' = exits \cup {[reference |-> r, vehicle |-> v]}
          /\ inventory' = [inventory EXCEPT ![v] = "Dispatched"]
      BY <1>0, <1>3, DispatchSaveWrites DEF MayExit, ReferenceTaken
    <2>6. Ledger!Leave(v, r)
      BY <2>3, <2>4, <2>5 DEF Ledger!Leave
    <2> QED BY <2>5, <2>6 DEF Ledger!Next
  <1>4. ASSUME NEW s \in Spots, NEW new \in SpotStatus,
               status' = [status EXCEPT ![s] = new], UNCHANGED <<holder, inventory, exits>>
        PROVE  Ledger!Next
    <2>1. Ledger!Observe(s, new)
      BY <1>4 DEF Ledger!Observe
    <2>2. new \in Ledger!SpotStatus
      BY DEF SpotStatus, Ledger!SpotStatus
    <2> QED BY <2>1, <2>2 DEF Ledger!Next
  <1>5. ASSUME NEW w \in Workers, StatusSave(w) \/ SensorSave(w)
        PROVE  Ledger!Next \/ UNCHANGED <<status, holder, inventory, exits>>
    <2>1. request[w].spot \in Spots /\ request[w].next \in SpotStatus
      BY <1>0, <1>5 DEF StatusSave, SensorSave, At, Typed, TypeOK, RequestNamesRows, SlotStages, Request
    <2> QED BY <1>4, <1>5, <2>1 DEF StatusSave, SensorSave
  <1>6. CASE UNCHANGED database
    BY <1>6 DEF database
  <1>7. CASE UNCHANGED vars
    BY <1>7 DEF vars
  <1> QED
    BY <1>0, <1>1, <1>2, <1>3, <1>5, <1>6, <1>7, ReadStep
    DEF Next, Assign, Ready, Dispatch, ChangeStatus, Sensor

\* The handlers, when no two requests in flight meet in a row, are the operations
\* of the ledger: every save does at once what YardLedger says, with its guard
\* true, and every read is invisible.
THEOREM ApartYardIsLedger == ApartSpec => ImplementsLedger
  <1>1. Init => Ledger!Init
    BY DEF Init, Ledger!Init
  <1>2. ApartInv /\ [Next /\ Apart']_vars => [Ledger!Next]_(Ledger!ledger)
    <2>1. [Next /\ Apart']_vars => [Next]_vars
      OBVIOUS
    <2> QED BY <2>1, LedgerStep
  <1> QED BY <1>1, <1>2, ApartInvariance, PTL DEF ApartSpec, ImplementsLedger, Ledger!Spec

\* What a step of such a yard may do to the slots held.
KeepsHolders == \A s \in Spots : holder[s] # None => holder'[s] \in {holder[s], None}

LEMMA ApartMoves == ApartInv /\ [Next]_vars => KeepsHolders
  <1> SUFFICES ASSUME ApartInv, [Next]_vars PROVE KeepsHolders
    OBVIOUS
  <1>0. YardInv /\ ReadsStand
    BY DEF ApartInv
  <1>1. ASSUME NEW w \in Workers, AssignSave(w) PROVE KeepsHolders
    BY <1>0, <1>1, AssignSaveWrites DEF Available, KeepsHolders
  <1>2. ASSUME NEW w \in Workers, DispatchSave(w) PROVE KeepsHolders
    BY <1>0, <1>2, DispatchSaveWrites DEF KeepsHolders
  <1>3. ASSUME UNCHANGED holder PROVE KeepsHolders
    BY <1>3 DEF KeepsHolders
  <1>4. ASSUME NEW w \in Workers, ReadySave(w) \/ StatusSave(w) \/ SensorSave(w)
        PROVE  KeepsHolders
    BY <1>3, <1>4 DEF ReadySave, StatusSave, SensorSave, slots
  <1>5. CASE UNCHANGED database
    BY <1>3, <1>5 DEF database
  <1>6. CASE UNCHANGED vars
    BY <1>3, <1>6 DEF vars
  <1> QED
    BY <1>0, <1>1, <1>2, <1>4, <1>5, <1>6, ReadStep
    DEF Next, Assign, Ready, Dispatch, ChangeStatus, Sensor

\* When no two requests in flight meet in a row, a slot that holds a vehicle is
\* emptied before another gets it, although sensors and operators mark slots Free
\* without looking at what they hold (Program.cs 229, assign-slot).
THEOREM ApartHeldSlot == ApartSpec => HeldSlotNotGivenAway
  <1>1. ApartInv /\ [Next /\ Apart']_vars =>
            [\A s \in Spots : holder[s] # None => holder'[s] \in {holder[s], None}]_vars
    <2>1. [Next /\ Apart']_vars => [Next]_vars
      OBVIOUS
    <2> QED BY <2>1, ApartMoves DEF KeepsHolders
  <1> QED BY <1>1, ApartInvariance, PTL DEF ApartSpec, HeldSlotNotGivenAway
=============================================================================
