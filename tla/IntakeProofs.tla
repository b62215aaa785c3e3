---------------------------- MODULE IntakeProofs ----------------------------
(* Theorems about Intake and Manifest, for every set of shipments, VINs,   *)
(* counts, workers and clerks: the books balance, and reconciliation tells  *)
(* what is so, however registrations, completions and entries race.        *)
EXTENDS Manifest, FiniteSetTheorems, TLAPS

RegisterStages == {"registerVin", "registerTally", "registerSave"}
CompleteStages == {"completeCount", "completeSave"}

\* What a request in flight may rely on, however old its reads are.
FactsOf(r) ==
    /\ r.at # "idle" => r.shipment \in Shipments
    /\ r.at \in RegisterStages => r.vin \in Vins
    /\ r.at \in RegisterStages \cup CompleteStages =>
           Exists(r.shipment) /\ (r.sawStarted => started[r.shipment])
    /\ r.at \in RegisterStages /\ r.sawStage = "Receiving" => stage[r.shipment] # "Planned"
    /\ r.at = "registerSave" =>
           r.next \in 1 .. Received(r.shipment) + 1 /\ WithinDeclared(r.shipment, r.next)
    /\ r.at = "completeSave" => MayComplete(r.shipment)

RequestFacts == \A w \in Workers : FactsOf(request[w])

Books ==
    /\ IsFiniteSet(vehicles)
    /\ TallyDense
    /\ NotOverDeclared
    /\ CompletedIsComplete
    /\ VinRegisteredOnce
    /\ ArrivalMatchesVehicles
    /\ \A s \in Shipments : ~Exists(s) => declared[s] = 0

IntakeInv == TypeOK /\ RequestFacts /\ Books

-----------------------------------------------------------------------------
(* The counting lemmas.                                                    *)

LEMMA ReceivedIsNat ==
  ASSUME IsFiniteSet(vehicles), NEW s
  PROVE  IsFiniteSet(Rows(s)) /\ Received(s) \in Nat
  <1>1. Rows(s) \in SUBSET vehicles
    BY DEF Rows
  <1>2. IsFiniteSet(Rows(s))
    BY <1>1, FS_Subset
  <1>3. QED BY <1>2, FS_CardinalityType DEF Received

\* Max + 1 of a dense tally is one more than the vehicles received.
LEMMA NextTallyIsNextCount ==
  ASSUME Books, NEW s \in Shipments
  PROVE  NextTally(s) = Received(s) + 1
  <1>1. Received(s) \in Nat /\ Tallies(s) = 1 .. Received(s)
    BY ReceivedIsNat DEF Books, TallyDense
  <1>2. CASE Received(s) = 0
    BY <1>1, <1>2 DEF NextTally
  <1>3. CASE Received(s) # 0
    <2>1. /\ Received(s) \in Tallies(s)
          /\ \A n \in Tallies(s) : n <= Received(s)
          /\ \A m \in Tallies(s) : (\A n \in Tallies(s) : n <= m) => m = Received(s)
      BY <1>1, <1>3
    <2>2. (CHOOSE m \in Tallies(s) : \A n \in Tallies(s) : n <= m) = Received(s)
      BY <2>1
    <2>3. QED BY <2>1, <2>2 DEF NextTally
  <1>4. QED BY <1>2, <1>3

\* What registering a vehicle does to the rows of every shipment.
LEMMA RegisterSaveCounts ==
  ASSUME IntakeInv, NEW w \in Workers, RegisterSave(w),
         NEW s, s = request[w].shipment, NEW v, v = request[w].vin, NEW n, n = request[w].next
  PROVE  /\ s \in Shipments /\ Exists(s) /\ v \in Vins
         /\ n = Received(s) + 1
         /\ vehicles' = vehicles \cup {[vin |-> v, shipment |-> s, tally |-> n]}
         /\ IsFiniteSet(vehicles')
         /\ Rows(s)' = Rows(s) \cup {[vin |-> v, shipment |-> s, tally |-> n]}
         /\ Received(s)' = Received(s) + 1
         /\ Tallies(s)' = Tallies(s) \cup {n}
         /\ \A t \in Shipments \ {s} :
                Rows(t)' = Rows(t) /\ Received(t)' = Received(t) /\ Tallies(t)' = Tallies(t)
  <1> DEFINE x == [vin |-> v, shipment |-> s, tally |-> n]
  <1>1. s \in Shipments /\ Exists(s) /\ v \in Vins
    BY DEF IntakeInv, RequestFacts, FactsOf, RegisterSave, At, RegisterStages
  <1>2. Received(s) \in Nat /\ Tallies(s) = 1 .. Received(s) /\ IsFiniteSet(Rows(s))
    BY <1>1, ReceivedIsNat DEF IntakeInv, Books, TallyDense
  <1>3. n = Received(s) + 1
    <2>1. n \in 1 .. Received(s) + 1
      BY DEF IntakeInv, RequestFacts, FactsOf, RegisterSave, At
    <2>2. n \notin Tallies(s)
      BY DEF RegisterSave, IndexRejects
    <2>3. QED BY <2>1, <2>2, <1>2
  <1>4. vehicles' = vehicles \cup {x}
    BY DEF RegisterSave
  <1>5. IsFiniteSet(vehicles')
    BY <1>4, FS_AddElement DEF IntakeInv, Books
  <1>6. Rows(s)' = Rows(s) \cup {x}
    BY <1>4 DEF Rows
  <1>7. x \notin Rows(s)
    BY DEF RegisterSave, IndexRejects, VinTaken, Rows
  <1>8. Received(s)' = Received(s) + 1
    BY <1>2, <1>6, <1>7, FS_AddElement DEF Received
  <1>9. Tallies(s)' = Tallies(s) \cup {n}
    <2>1. \A k : k \in Tallies(s) <=> \E y \in Rows(s) : y.tally = k
      BY DEF Tallies
    <2>2. \A k : k \in Tallies(s)' <=> \E y \in Rows(s)' : y.tally = k
      BY DEF Tallies
    <2>3. x.tally = n
      OBVIOUS
    <2>4. \A k : k \in Tallies(s)' <=> k \in Tallies(s) \/ k = n
      BY <1>6, <2>1, <2>2, <2>3
    <2>5. QED BY <2>4
  <1>10. ASSUME NEW t \in Shipments \ {s}
         PROVE  Rows(t)' = Rows(t) /\ Received(t)' = Received(t) /\ Tallies(t)' = Tallies(t)
    <2>1. Rows(t)' = Rows(t)
      BY <1>4 DEF Rows
    <2>2. QED BY <2>1 DEF Received, Tallies
  <1>11. QED BY <1>1, <1>3, <1>4, <1>5, <1>6, <1>8, <1>9, <1>10

\* Vehicles that stay leave every count as it is.
LEMMA CountsUnchanged ==
  ASSUME UNCHANGED vehicles
  PROVE  \A s : Rows(s)' = Rows(s) /\ Received(s)' = Received(s) /\ Tallies(s)' = Tallies(s)
  BY DEF Rows, Received, Tallies

-----------------------------------------------------------------------------
(* The types.                                                              *)

LEMMA NoRequestTyped == NoRequest \in Request
  BY DEF NoRequest, Request

LEMMA TypingStep == IntakeInv /\ [Next]_vars => TypeOK'
  <1> SUFFICES ASSUME IntakeInv, [Next]_vars PROVE TypeOK'
    OBVIOUS
  <1> USE NoRequestTyped DEF Track, Answer
  <1>1. TypeOK
    BY DEF IntakeInv
  <1>2. ASSUME NEW w \in Workers, Answer(w) PROVE request' \in [Workers -> Request]
    BY <1>1, <1>2 DEF TypeOK
  <1>3. ASSUME NEW w \in Workers, NEW s \in Shipments, NEW n \in Counts, CreateCheck(w, s, n)
        PROVE  TypeOK'
    <2>1. n \in Nat
      BY <1>3, CountsAssumption DEF CreateCheck
    <2>2. QED BY <1>1, <1>3, <2>1 DEF TypeOK, CreateCheck, Request, NoRequest, database
  <1>4. ASSUME NEW w \in Workers, CreateSave(w) PROVE TypeOK'
    <2>1. request[w].count \in Nat
      BY <1>1 DEF TypeOK, Request
    <2>2. QED BY <1>1, <1>2, <1>4, <2>1 DEF TypeOK, CreateSave, ShipmentStatus
  <1>5. ASSUME NEW w \in Workers, NEW s \in Shipments, NEW x \in Vins, RegisterReadShipment(w, s, x)
        PROVE  TypeOK'
    BY <1>1, <1>5 DEF TypeOK, RegisterReadShipment, Request, NoRequest, database
  <1>6. ASSUME NEW w \in Workers, RegisterCheckVin(w) PROVE TypeOK'
    BY <1>1, <1>2, <1>6 DEF TypeOK, RegisterCheckVin, Request, database
  <1>7. ASSUME NEW w \in Workers, RegisterReadTally(w) PROVE TypeOK'
    <2> DEFINE n == NextTally(request[w].shipment)
    <2>1. n \in Nat
      BY <1>7, NextTallyIsNextCount, ReceivedIsNat
      DEF RegisterReadTally, At, RegisterStages, IntakeInv, RequestFacts, FactsOf, Books
    <2>2. CASE Track(w, [request[w] EXCEPT !.at = "registerSave", !.next = n])
      BY <1>1, <1>7, <2>1, <2>2 DEF TypeOK, RegisterReadTally, Request, database
    <2>3. QED BY <1>1, <1>2, <1>7, <2>2 DEF TypeOK, RegisterReadTally, database
  <1>8. ASSUME NEW w \in Workers, RegisterSave(w) PROVE TypeOK'
    <2> DEFINE s == request[w].shipment
               n == request[w].next
    <2>1. s \in Shipments /\ request[w].vin \in Vins /\ n = Received(s) + 1 /\ Received(s) \in Nat
      BY <1>8, RegisterSaveCounts, ReceivedIsNat DEF IntakeInv, Books
    <2>2. vehicles' \subseteq ImportedVehicle
      BY <1>1, <1>8, <2>1 DEF TypeOK, RegisterSave, ImportedVehicle
    <2>3. QED BY <1>1, <1>2, <1>8, <2>1, <2>2 DEF TypeOK, RegisterSave, ShipmentStatus
  <1>9. ASSUME NEW w \in Workers, RegisterRejected(w) \/ Cancel(w) PROVE TypeOK'
    BY <1>1, <1>2, <1>9 DEF TypeOK, RegisterRejected, Cancel, database
  <1>10. ASSUME NEW w \in Workers, NEW s \in Shipments, CompleteReadShipment(w, s) PROVE TypeOK'
    BY <1>1, <1>10 DEF TypeOK, CompleteReadShipment, Request, NoRequest, database
  <1>11. ASSUME NEW w \in Workers, CompleteCount(w) PROVE TypeOK'
    BY <1>1, <1>2, <1>11 DEF TypeOK, CompleteCount, Request, database
  <1>12. ASSUME NEW w \in Workers, CompleteSave(w) PROVE TypeOK'
    BY <1>1, <1>2, <1>12 DEF TypeOK, CompleteSave, ShipmentStatus
  <1>13. CASE UNCHANGED vars
    BY <1>1, <1>13 DEF TypeOK, vars
  <1>14. QED
    BY <1>3, <1>4, <1>5, <1>6, <1>7, <1>8, <1>9, <1>10, <1>11, <1>12, <1>13
    DEF Next, Create, Register, Complete

-----------------------------------------------------------------------------
(* The facts of the requests in flight.                                    *)

\* What no step takes back from a shipment that exists.
Stable ==
    \A s \in Shipments : Exists(s) =>
        /\ Exists(s)'
        /\ started[s] => started'[s]
        /\ stage[s] # "Planned" => stage'[s] # "Planned"
        /\ declared'[s] = declared[s]
        /\ Received(s)' \in Nat /\ Received(s) <= Received(s)'
        /\ MayComplete(s) => MayComplete(s)'

LEMMA FactsStep ==
  ASSUME IntakeInv, Stable, NEW w \in Workers, NEW r, Track(w, r), FactsOf(r)
  PROVE  RequestFacts'
  <1>1. \A u \in Workers : request'[u] = IF u = w THEN r ELSE request[u]
    BY DEF Track, IntakeInv, TypeOK
  <1>2. \A s \in Shipments : Received(s) \in Nat
    BY ReceivedIsNat DEF IntakeInv, Books
  <1>3. ASSUME NEW u \in Workers PROVE FactsOf(request[u])'
    <2> DEFINE q == request'[u]
    <2>1. FactsOf(q)
      BY <1>1 DEF IntakeInv, RequestFacts
    <2>2. /\ q.at # "idle" => q.shipment \in Shipments
          /\ q.at \in RegisterStages => q.vin \in Vins
      BY <2>1 DEF FactsOf
    <2>3. q.at \in RegisterStages \cup CompleteStages =>
              q.shipment \in Shipments /\ Exists(q.shipment)
      BY <2>1 DEF FactsOf, RegisterStages, CompleteStages
    <2>4. q.at \in RegisterStages \cup CompleteStages =>
              stage'[q.shipment] # "Absent" /\ (q.sawStarted => started'[q.shipment])
      BY <2>1, <2>3 DEF FactsOf, Stable, Exists
    <2>5. q.at \in RegisterStages /\ q.sawStage = "Receiving" => stage'[q.shipment] # "Planned"
      BY <2>1, <2>3 DEF FactsOf, Stable
    <2>6. ASSUME q.at = "registerSave"
          PROVE  \A s \in Shipments : s = q.shipment =>
                     /\ q.next \in 1 .. Received(s)' + 1
                     /\ declared'[s] > 0 => q.next <= declared'[s]
      BY <1>2, <2>1, <2>3, <2>6 DEF FactsOf, Stable, WithinDeclared, RegisterStages
    <2>7. ASSUME q.at = "completeSave"
          PROVE  \A s \in Shipments : s = q.shipment => MayComplete(s)'
      BY <2>1, <2>3, <2>7 DEF FactsOf, Stable, CompleteStages
    <2>8. QED
      BY <2>2, <2>3, <2>4, <2>5, <2>6, <2>7
      DEF FactsOf, Exists, WithinDeclared, RegisterStages, CompleteStages
  <1>4. QED BY <1>3 DEF RequestFacts

LEMMA EndingHasNoFacts == FactsOf(NoRequest)
  BY DEF FactsOf, NoRequest, RegisterStages, CompleteStages

LEMMA ReadsAreStable ==
  ASSUME IntakeInv, UNCHANGED database
  PROVE  Stable /\ Books'
  <1>1. \A s : Rows(s)' = Rows(s) /\ Received(s)' = Received(s) /\ Tallies(s)' = Tallies(s)
    BY CountsUnchanged DEF database
  <1>2. \A s \in Shipments : Received(s) \in Nat
    BY ReceivedIsNat DEF IntakeInv, Books
  <1>3. Stable
    BY <1>1, <1>2 DEF Stable, Exists, MayComplete, database
  <1>4. Books'
    BY <1>1 DEF IntakeInv, Books, TallyDense, NotOverDeclared, CompletedIsComplete, VinRegisteredOnce,
                ArrivalMatchesVehicles, Exists, database
  <1>5. QED BY <1>3, <1>4

-----------------------------------------------------------------------------
(* The three saves.                                                        *)

LEMMA CreateSaveKeeps ==
  ASSUME IntakeInv, NEW w \in Workers, CreateSave(w)
  PROVE  Stable /\ Books'
  <1> DEFINE s == request[w].shipment
  <1>1. CASE Exists(s)
    BY <1>1, ReadsAreStable DEF CreateSave, database
  <1>2. CASE ~Exists(s)
    <2>1. /\ stage' = [stage EXCEPT ![s] = "Planned"]
          /\ declared' = [declared EXCEPT ![s] = request[w].count]
          /\ UNCHANGED <<started, vehicles>>
          /\ s \in Shipments /\ stage[s] = "Absent"
      BY <1>2 DEF CreateSave, Exists, At, IntakeInv, RequestFacts, FactsOf
    <2>2. TypeOK
      BY DEF IntakeInv
    <2>3. \A t : Rows(t)' = Rows(t) /\ Received(t)' = Received(t) /\ Tallies(t)' = Tallies(t)
      BY <2>1, CountsUnchanged
    <2>4. Received(s) = 0 /\ \A t \in Shipments : Received(t) \in Nat
      BY <2>1, ReceivedIsNat, FS_EmptySet DEF IntakeInv, Books, ArrivalMatchesVehicles, Received
    <2>5. request[w].count \in Nat
      BY <2>2 DEF TypeOK, Request
    <2>6. \A t \in Shipments :
             /\ stage'[t] = IF t = s THEN "Planned" ELSE stage[t]
             /\ declared'[t] = IF t = s THEN request[w].count ELSE declared[t]
      BY <2>1, <2>2 DEF TypeOK
    <2>7. Stable
      BY <2>1, <2>3, <2>4, <2>6 DEF Stable, Exists, MayComplete
    <2>8. NotOverDeclared' /\ CompletedIsComplete'
      BY <2>1, <2>3, <2>4, <2>5, <2>6 DEF IntakeInv, Books, NotOverDeclared, CompletedIsComplete
    <2>9. ArrivalMatchesVehicles'
      BY <2>1, <2>3, <2>6 DEF IntakeInv, Books, ArrivalMatchesVehicles
    <2>10. (\A t \in Shipments : ~Exists(t) => declared[t] = 0)'
      BY <2>6 DEF IntakeInv, Books, Exists
    <2>11. IsFiniteSet(vehicles)' /\ TallyDense' /\ VinRegisteredOnce'
      BY <2>1, <2>3 DEF IntakeInv, Books, TallyDense, VinRegisteredOnce
    <2>12. QED BY <2>7, <2>8, <2>9, <2>10, <2>11 DEF Books
  <1>3. QED BY <1>1, <1>2

LEMMA RegisterSaveKeeps ==
  ASSUME IntakeInv, NEW w \in Workers, RegisterSave(w)
  PROVE  Stable /\ Books'
  <1>1. PICK s, v, n : s = request[w].shipment /\ v = request[w].vin /\ n = request[w].next
    OBVIOUS
  <1> DEFINE x == [vin |-> v, shipment |-> s, tally |-> n]
  <1>2. /\ s \in Shipments /\ Exists(s) /\ v \in Vins
        /\ n = Received(s) + 1
        /\ vehicles' = vehicles \cup {x}
        /\ IsFiniteSet(vehicles')
        /\ Rows(s)' = Rows(s) \cup {x}
        /\ Received(s)' = Received(s) + 1
        /\ Tallies(s)' = Tallies(s) \cup {n}
        /\ \A t \in Shipments \ {s} :
               Rows(t)' = Rows(t) /\ Received(t)' = Received(t) /\ Tallies(t)' = Tallies(t)
    BY <1>1, RegisterSaveCounts
  <1>3. TypeOK /\ \A t \in Shipments : Received(t) \in Nat
    BY ReceivedIsNat DEF IntakeInv, Books
  <1>4. WithinDeclared(s, n) /\ (request[w].sawStage = "Receiving" => stage[s] # "Planned")
          /\ (request[w].sawStarted => started[s])
    BY <1>1 DEF IntakeInv, RequestFacts, FactsOf, RegisterSave, At, RegisterStages
  <1>5. /\ declared' = declared
        /\ \A t \in Shipments \ {s} : stage'[t] = stage[t] /\ started'[t] = started[t]
        /\ stage'[s] \in {stage[s], "Receiving"} /\ stage'[s] # "Planned" /\ stage'[s] # "Absent"
        /\ started'[s]
    BY <1>1, <1>2, <1>3, <1>4 DEF RegisterSave, TypeOK, Exists
  <1>6. declared[s] > 0 => Received(s) < declared[s]
    BY <1>2, <1>3, <1>4 DEF WithinDeclared, TypeOK
  <1>7. Stable
    BY <1>2, <1>3, <1>5, <1>6 DEF Stable, Exists, MayComplete, TypeOK
  <1>8. TallyDense'
    <2>1. Tallies(s) = 1 .. Received(s)
      BY <1>2 DEF IntakeInv, Books, TallyDense
    <2>2. Tallies(s)' = 1 .. Received(s)'
      BY <1>2, <1>3, <2>1
    <2>3. QED BY <1>2, <2>2 DEF IntakeInv, Books, TallyDense
  <1>9. NotOverDeclared'
    BY <1>2, <1>3, <1>5, <1>6 DEF IntakeInv, Books, NotOverDeclared, TypeOK
  <1>10. CompletedIsComplete'
    <2>1. stage[s] = "Completed" => declared[s] = 0
      BY <1>2, <1>3, <1>6 DEF IntakeInv, Books, CompletedIsComplete, TypeOK
    <2>2. stage'[s] = "Completed" => stage[s] = "Completed"
      BY <1>5
    <2>3. QED BY <1>2, <1>5, <2>1, <2>2 DEF IntakeInv, Books, CompletedIsComplete
  <1>11. VinRegisteredOnce'
    BY <1>1, <1>2 DEF RegisterSave, IndexRejects, VinTaken, IntakeInv, Books, VinRegisteredOnce
  <1>12. ArrivalMatchesVehicles'
    BY <1>2, <1>5 DEF IntakeInv, Books, ArrivalMatchesVehicles
  <1>13. (\A t \in Shipments : ~Exists(t) => declared[t] = 0)'
    BY <1>2, <1>5 DEF IntakeInv, Books, Exists
  <1>14. QED BY <1>2, <1>7, <1>8, <1>9, <1>10, <1>11, <1>12, <1>13 DEF Books

LEMMA CompleteSaveKeeps ==
  ASSUME IntakeInv, NEW w \in Workers, CompleteSave(w)
  PROVE  Stable /\ Books'
  <1>1. PICK s : s = request[w].shipment
    OBVIOUS
  <1>2. s \in Shipments /\ Exists(s) /\ MayComplete(s) /\ TypeOK
    BY <1>1 DEF IntakeInv, RequestFacts, FactsOf, CompleteSave, At, CompleteStages
  <1>3. /\ UNCHANGED <<declared, started, vehicles>>
        /\ \A t \in Shipments \ {s} : stage'[t] = stage[t]
        /\ stage'[s] \in {stage[s], "Completed"}
    BY <1>1, <1>2 DEF CompleteSave, TypeOK
  <1>4. /\ \A t : Rows(t)' = Rows(t) /\ Received(t)' = Received(t) /\ Tallies(t)' = Tallies(t)
        /\ \A t \in Shipments : Received(t) \in Nat
    BY <1>3, CountsUnchanged, ReceivedIsNat DEF IntakeInv, Books
  <1>5. Stable
    BY <1>2, <1>3, <1>4 DEF Stable, Exists, MayComplete
  <1>6. CompletedIsComplete'
    BY <1>2, <1>3, <1>4 DEF IntakeInv, Books, CompletedIsComplete, MayComplete
  <1>7. NotOverDeclared' /\ TallyDense' /\ VinRegisteredOnce' /\ IsFiniteSet(vehicles)'
    BY <1>3, <1>4 DEF IntakeInv, Books, NotOverDeclared, TallyDense, VinRegisteredOnce
  <1>8. ArrivalMatchesVehicles'
    BY <1>2, <1>3, <1>4 DEF IntakeInv, Books, ArrivalMatchesVehicles, Exists
  <1>9. (\A t \in Shipments : ~Exists(t) => declared[t] = 0)'
    BY <1>2, <1>3 DEF IntakeInv, Books, Exists
  <1>10. QED BY <1>5, <1>6, <1>7, <1>8, <1>9 DEF Books

-----------------------------------------------------------------------------
(* The invariant.                                                          *)

LEMMA BooksStep == IntakeInv /\ [Next]_vars => Books' /\ RequestFacts'
  <1> SUFFICES ASSUME IntakeInv, [Next]_vars PROVE Books' /\ RequestFacts'
    OBVIOUS
  <1>0. TypeOK
    BY DEF IntakeInv
  \* A read step: one request moves on, with facts true of the unchanged rows.
  <1>1. ASSUME NEW w \in Workers, NEW r, Track(w, r), FactsOf(r), UNCHANGED database
        PROVE  Books' /\ RequestFacts'
    BY <1>1, ReadsAreStable, FactsStep
  \* A save or a refusal ends its request.
  <1>2. ASSUME NEW w \in Workers, Answer(w), Stable, Books' PROVE Books' /\ RequestFacts'
    BY <1>2, FactsStep, EndingHasNoFacts DEF Answer
  <1>3. ASSUME NEW w \in Workers, Answer(w), UNCHANGED database PROVE Books' /\ RequestFacts'
    BY <1>2, <1>3, ReadsAreStable
  <1>4. ASSUME NEW w \in Workers, NEW s \in Shipments, NEW n \in Counts, CreateCheck(w, s, n)
        PROVE  Books' /\ RequestFacts'
    <2> DEFINE r == [NoRequest EXCEPT !.at = "createSave", !.shipment = s, !.count = n]
    <2>1. FactsOf(r)
      BY DEF FactsOf, NoRequest, RegisterStages, CompleteStages
    <2>2. QED BY <1>1, <1>4, <2>1 DEF CreateCheck
  <1>5. ASSUME NEW w \in Workers, CreateSave(w) PROVE Books' /\ RequestFacts'
    BY <1>2, <1>5, CreateSaveKeeps DEF CreateSave
  <1>6. ASSUME NEW w \in Workers, NEW s \in Shipments, NEW x \in Vins, RegisterReadShipment(w, s, x)
        PROVE  Books' /\ RequestFacts'
    <2> DEFINE r == [NoRequest EXCEPT !.at = "registerVin", !.shipment = s, !.vin = x,
                                      !.sawStage = stage[s], !.sawStarted = started[s]]
    <2>1. FactsOf(r)
      BY <1>6 DEF RegisterReadShipment, FactsOf, NoRequest, RegisterStages, CompleteStages
    <2>2. QED BY <1>1, <1>6, <2>1 DEF RegisterReadShipment
  <1>7. ASSUME NEW w \in Workers, RegisterCheckVin(w) PROVE Books' /\ RequestFacts'
    <2> DEFINE r == [request[w] EXCEPT !.at = "registerTally"]
    <2>1. FactsOf(r)
      BY <1>0, <1>7 DEF RegisterCheckVin, At, IntakeInv, RequestFacts, TypeOK, Request,
                        FactsOf, RegisterStages, CompleteStages
    <2>2. QED BY <1>1, <1>3, <1>7, <2>1 DEF RegisterCheckVin
  <1>8. ASSUME NEW w \in Workers, RegisterReadTally(w) PROVE Books' /\ RequestFacts'
    <2> DEFINE s == request[w].shipment
               r == [request[w] EXCEPT !.at = "registerSave", !.next = NextTally(s)]
    <2>1. /\ request[w] \in Request /\ request[w].at = "registerTally"
          /\ s \in Shipments /\ FactsOf(request[w])
      BY <1>0, <1>8 DEF RegisterReadTally, At, IntakeInv, RequestFacts, TypeOK, FactsOf
    <2>2. NextTally(s) = Received(s) + 1 /\ Received(s) \in Nat
      BY <2>1, NextTallyIsNextCount, ReceivedIsNat DEF IntakeInv, Books
    <2>3. CASE WithinDeclared(s, NextTally(s)) /\ Track(w, r)
      <3>1. /\ r.at = "registerSave" /\ r.shipment = s /\ r.next = NextTally(s)
            /\ r.vin = request[w].vin
            /\ r.sawStage = request[w].sawStage /\ r.sawStarted = request[w].sawStarted
        BY <2>1 DEF Request
      <3>2. FactsOf(r)
        BY <2>1, <2>2, <2>3, <3>1 DEF FactsOf, RegisterStages, CompleteStages
      <3>3. QED BY <1>1, <1>8, <2>3, <3>2 DEF RegisterReadTally
    <2>4. QED BY <1>3, <1>8, <2>3 DEF RegisterReadTally
  <1>9. ASSUME NEW w \in Workers, RegisterSave(w) PROVE Books' /\ RequestFacts'
    BY <1>2, <1>9, RegisterSaveKeeps DEF RegisterSave
  <1>10. ASSUME NEW w \in Workers, RegisterRejected(w) \/ Cancel(w) PROVE Books' /\ RequestFacts'
    BY <1>3, <1>10 DEF RegisterRejected, Cancel
  <1>11. ASSUME NEW w \in Workers, NEW s \in Shipments, CompleteReadShipment(w, s)
         PROVE  Books' /\ RequestFacts'
    <2> DEFINE r == [NoRequest EXCEPT !.at = "completeCount", !.shipment = s,
                                      !.sawStage = stage[s], !.sawStarted = started[s]]
    <2>1. FactsOf(r)
      BY <1>11 DEF CompleteReadShipment, FactsOf, NoRequest, RegisterStages, CompleteStages
    <2>2. QED BY <1>1, <1>11, <2>1 DEF CompleteReadShipment
  <1>12. ASSUME NEW w \in Workers, CompleteCount(w) PROVE Books' /\ RequestFacts'
    <2> DEFINE r == [request[w] EXCEPT !.at = "completeSave"]
    <2>1. CASE MayComplete(request[w].shipment) /\ Track(w, r)
      <3>1. FactsOf(r)
        BY <1>0, <1>12, <2>1 DEF CompleteCount, At, IntakeInv, RequestFacts, TypeOK, Request,
                                 FactsOf, RegisterStages, CompleteStages
      <3>2. QED BY <1>1, <1>12, <2>1, <3>1 DEF CompleteCount
    <2>2. QED BY <1>3, <1>12, <2>1 DEF CompleteCount
  <1>13. ASSUME NEW w \in Workers, CompleteSave(w) PROVE Books' /\ RequestFacts'
    BY <1>2, <1>13, CompleteSaveKeeps DEF CompleteSave
  <1>14. CASE UNCHANGED vars
    <2>1. Books' /\ Stable
      BY <1>14, ReadsAreStable DEF vars, database
    <2>2. RequestFacts'
      <3>1. CASE Workers = {}
        BY <3>1 DEF RequestFacts
      <3>2. ASSUME NEW w \in Workers PROVE RequestFacts'
        <4>1. Track(w, request[w]) /\ FactsOf(request[w])
          BY <1>0, <1>14 DEF vars, Track, TypeOK, IntakeInv, RequestFacts
        <4>2. QED BY <2>1, <4>1, FactsStep
      <3>3. QED BY <3>1, <3>2
    <2>3. QED BY <2>1, <2>2
  <1>15. QED
    BY <1>4, <1>5, <1>6, <1>7, <1>8, <1>9, <1>10, <1>11, <1>12, <1>13, <1>14
    DEF Next, Create, Register, Complete

\* The inductive invariant.
THEOREM IntakeInvariance == Spec => []IntakeInv
  <1>1. Init => IntakeInv
    <2> SUFFICES ASSUME Init PROVE IntakeInv
      OBVIOUS
    <2>1. TypeOK
      BY NoRequestTyped DEF Init, TypeOK
    <2>2. RequestFacts
      BY EndingHasNoFacts DEF Init, RequestFacts
    <2>3. \A s : Rows(s) = {} /\ Received(s) = 0 /\ Tallies(s) = {}
      BY FS_EmptySet DEF Init, Rows, Received, Tallies
    <2>4. IsFiniteSet(vehicles)
      BY FS_EmptySet DEF Init
    <2>5. Books
      <3>1. TallyDense
        BY <2>3, 1 .. 0 = {} DEF TallyDense
      <3>2. NotOverDeclared /\ CompletedIsComplete
        BY <2>3 DEF Init, NotOverDeclared, CompletedIsComplete
      <3>3. VinRegisteredOnce
        BY DEF Init, VinRegisteredOnce
      <3>4. ArrivalMatchesVehicles
        BY <2>3 DEF Init, ArrivalMatchesVehicles
      <3>5. QED BY <2>4, <3>1, <3>2, <3>3, <3>4 DEF Books, Init
    <2>6. QED BY <2>1, <2>2, <2>5 DEF IntakeInv
  <1>2. IntakeInv /\ [Next]_vars => IntakeInv'
    BY TypingStep, BooksStep DEF IntakeInv
  <1>3. QED BY <1>1, <1>2, PTL DEF Spec

\* Types, for every value of the constants.
THEOREM IntakeTyping == Spec => []TypeOK
  <1>1. IntakeInv => TypeOK
    BY DEF IntakeInv
  <1>2. QED BY <1>1, IntakeInvariance, PTL

\* The tally of every shipment is 1, 2, ..., received, whatever registrations
\* raced for a number.
THEOREM DenseTally == Spec => []TallyDense
  <1>1. IntakeInv => TallyDense
    BY DEF IntakeInv, Books
  <1>2. QED BY <1>1, IntakeInvariance, PTL

\* A shipment that declared a count never exceeds it, and is Completed only
\* with exactly that count.
THEOREM CountsRespected == Spec => [](NotOverDeclared /\ CompletedIsComplete)
  <1>1. IntakeInv => NotOverDeclared /\ CompletedIsComplete
    BY DEF IntakeInv, Books
  <1>2. QED BY <1>1, IntakeInvariance, PTL

\* VINs stay unique and the shipment's own columns follow its vehicles.
THEOREM RegisterConsistent == Spec => [](VinRegisteredOnce /\ ArrivalMatchesVehicles)
  <1>1. IntakeInv => VinRegisteredOnce /\ ArrivalMatchesVehicles
    BY DEF IntakeInv, Books
  <1>2. QED BY <1>1, IntakeInvariance, PTL

-----------------------------------------------------------------------------
(* Every step is a step of TallyBook, or none at all.                      *)

LEMMA UnchangedBook ==
  ASSUME UNCHANGED database
  PROVE  UNCHANGED Tally!book
  BY CountsUnchanged DEF database, Tally!book

LEMMA CreateSaveAnnounces ==
  ASSUME IntakeInv, NEW w \in Workers, CreateSave(w)
  PROVE  [Tally!Next]_(Tally!book)
  <1>1. PICK s, n : s = request[w].shipment /\ n = request[w].count
    OBVIOUS
  <1>2. s \in Shipments /\ n \in Nat
    BY <1>1 DEF CreateSave, At, IntakeInv, RequestFacts, FactsOf, TypeOK, Request
  <1>3. UNCHANGED vehicles /\ \A t : Received(t)' = Received(t)
    BY CountsUnchanged DEF CreateSave
  <1>4. CASE Exists(s)
    BY <1>1, <1>3, <1>4 DEF CreateSave, Tally!book
  <1>5. CASE ~Exists(s)
    <2>1. /\ stage[s] = "Absent"
          /\ stage' = [stage EXCEPT ![s] = "Planned"]
          /\ declared' = [declared EXCEPT ![s] = n]
      BY <1>1, <1>5 DEF CreateSave, Exists
    <2>2. declared'[s] = n
      BY <1>2, <2>1 DEF IntakeInv, TypeOK
    <2>3. Tally!Announce(s)
      BY <1>2, <1>3, <2>1, <2>2 DEF Tally!Announce
    <2>4. QED BY <1>2, <2>3 DEF Tally!Next
  <1>6. QED BY <1>4, <1>5

LEMMA RegisterSaveReceives ==
  ASSUME IntakeInv, NEW w \in Workers, RegisterSave(w)
  PROVE  \E s \in Shipments : Tally!Receive(s)
  <1>1. PICK s, v, n : s = request[w].shipment /\ v = request[w].vin /\ n = request[w].next
    OBVIOUS
  <1>2. /\ s \in Shipments /\ Exists(s)
        /\ n = Received(s) + 1
        /\ Received(s)' = Received(s) + 1
        /\ \A t \in Shipments \ {s} : Received(t)' = Received(t)
    BY <1>1, RegisterSaveCounts
  <1>3. /\ TypeOK /\ Received(s) \in Nat
        /\ WithinDeclared(s, n)
        /\ request[w].sawStage = "Receiving" => stage[s] # "Planned"
    BY <1>1, <1>2, ReceivedIsNat
    DEF IntakeInv, Books, RequestFacts, FactsOf, RegisterSave, At, RegisterStages
  <1>4. declared[s] > 0 => Received(s) < declared[s]
    BY <1>2, <1>3 DEF WithinDeclared, TypeOK
  <1>5. [t \in Shipments |-> Received(t)]'
          = [[t \in Shipments |-> Received(t)] EXCEPT ![s] = @ + 1]
    BY <1>2
  <1>6. \/ stage' = [stage EXCEPT ![s] = "Receiving"]
        \/ stage' = stage /\ stage[s] \in {"Receiving", "Completed"}
    BY <1>1, <1>2, <1>3 DEF RegisterSave, TypeOK, ShipmentStatus, Exists
  <1>7. stage[s] = "Completed" => declared[s] = 0
    BY <1>2, <1>3, <1>4 DEF IntakeInv, Books, CompletedIsComplete, TypeOK
  <1>8. stage[s] = "Receiving" => stage = [stage EXCEPT ![s] = "Receiving"]
    BY <1>2, <1>3 DEF TypeOK
  <1>9. stage[s] # "Absent" /\ UNCHANGED declared
    BY <1>2 DEF Exists, RegisterSave
  <1>10. Tally!Receive(s)
    BY <1>2, <1>4, <1>5, <1>6, <1>7, <1>8, <1>9 DEF Tally!Receive
  <1>11. QED BY <1>2, <1>10

LEMMA CompleteSaveCloses ==
  ASSUME IntakeInv, NEW w \in Workers, CompleteSave(w)
  PROVE  [Tally!Next]_(Tally!book)
  <1>1. PICK s : s = request[w].shipment
    OBVIOUS
  <1>2. s \in Shipments /\ Exists(s) /\ MayComplete(s)
    BY <1>1 DEF IntakeInv, RequestFacts, FactsOf, CompleteSave, At, CompleteStages
  <1>3. UNCHANGED <<declared, vehicles>> /\ \A t : Received(t)' = Received(t)
    BY CountsUnchanged DEF CompleteSave
  <1>4. CASE stage' = stage
    BY <1>3, <1>4 DEF Tally!book
  <1>5. CASE stage' = [stage EXCEPT ![s] = "Completed"]
    <2>1. Tally!Close(s)
      BY <1>2, <1>3, <1>5 DEF Tally!Close, MayComplete, Exists
    <2>2. QED BY <1>2, <2>1 DEF Tally!Next
  <1>6. QED BY <1>1, <1>4, <1>5 DEF CompleteSave

LEMMA EveryStepKeepsTheBook == IntakeInv /\ [Next]_vars => [Tally!Next]_(Tally!book)
  <1> SUFFICES ASSUME IntakeInv, [Next]_vars PROVE [Tally!Next]_(Tally!book)
    OBVIOUS
  <1>1. CASE UNCHANGED database
    BY <1>1, UnchangedBook
  <1>2. ASSUME NEW w \in Workers, CreateSave(w) PROVE [Tally!Next]_(Tally!book)
    BY <1>2, CreateSaveAnnounces
  <1>3. ASSUME NEW w \in Workers, RegisterSave(w) PROVE [Tally!Next]_(Tally!book)
    BY <1>3, RegisterSaveReceives DEF Tally!Next
  <1>4. ASSUME NEW w \in Workers, CompleteSave(w) PROVE [Tally!Next]_(Tally!book)
    BY <1>4, CompleteSaveCloses
  <1>5. \/ UNCHANGED database
        \/ \E w \in Workers : CreateSave(w) \/ RegisterSave(w) \/ CompleteSave(w)
    BY DEF Next, vars, database, Create, Register, Complete, Cancel, CreateCheck,
           RegisterReadShipment, RegisterCheckVin, RegisterReadTally, RegisterRejected,
           CompleteReadShipment, CompleteCount
  <1>6. QED BY <1>1, <1>2, <1>3, <1>4, <1>5

\* However requests interleave and are cut short, what the database shows of
\* its shipments is a behaviour of the counter that TallyBook describes.
THEOREM IntakeKeepsTallyBook == Spec => ImplementsTallyBook
  <1>1. Init => Tally!Init
    <2> SUFFICES ASSUME Init PROVE Tally!Init
      OBVIOUS
    <2>1. \A s : Received(s) = 0
      BY FS_EmptySet DEF Init, Rows, Received
    <2>2. QED BY <2>1 DEF Init, Tally!Init
  <1>2. QED
    BY <1>1, IntakeInvariance, EveryStepKeepsTheBook, PTL
    DEF Spec, ImplementsTallyBook, Tally!Spec

\* No request in flight reopens a completed shipment that declared a count.
THEOREM CompletionIsFinal == Spec => CompletedStays
  <1>1. ASSUME IntakeInv, [Next]_vars, NEW s \in Shipments,
               stage[s] = "Completed", declared[s] > 0
        PROVE  stage'[s] = "Completed"
    <2>1. TypeOK /\ Received(s) = declared[s]
      BY <1>1 DEF IntakeInv, Books, CompletedIsComplete
    <2>2. CASE UNCHANGED Tally!book
      BY <1>1, <2>2 DEF Tally!book
    <2>3. ASSUME NEW t \in Shipments, Tally!Announce(t) PROVE stage'[s] = "Completed"
      BY <1>1, <2>1, <2>3 DEF Tally!Announce, TypeOK
    <2>4. ASSUME NEW t \in Shipments, Tally!Receive(t) PROVE stage'[s] = "Completed"
      <3>1. t # s
        BY <1>1, <2>1, <2>4 DEF Tally!Receive, TypeOK
      <3>2. QED BY <1>1, <2>1, <2>4, <3>1 DEF Tally!Receive, TypeOK
    <2>5. ASSUME NEW t \in Shipments, Tally!Close(t) PROVE stage'[s] = "Completed"
      BY <1>1, <2>1, <2>5 DEF Tally!Close, TypeOK
    <2>6. QED BY <1>1, <2>2, <2>3, <2>4, <2>5, EveryStepKeepsTheBook DEF Tally!Next
  <1>2. ASSUME IntakeInv, [Next]_vars
        PROVE  [\A s \in Shipments :
                   stage[s] = "Completed" /\ declared[s] > 0 => stage'[s] = "Completed"]_vars
    BY <1>1, <1>2
  <1>3. QED BY <1>2, IntakeInvariance, PTL DEF Spec, CompletedStays

-----------------------------------------------------------------------------
(* The manifest: entries of one VIN do not multiply, entries and vehicles   *)
(* do not go away, and so a reconciliation adds up.                        *)

\* Rows that differ in their VINs are as many as the VINs.
LEMMA AsManyVins ==
  ASSUME NEW rows, IsFiniteSet(rows), \A d, e \in rows : d.vin = e.vin => d = e
  PROVE  LET vins == {e.vin : e \in rows}
         IN  IsFiniteSet(vins) /\ Cardinality(vins) = Cardinality(rows)
  <1> DEFINE vins == {e.vin : e \in rows}
             f == [e \in rows |-> e.vin]
  <1>1. f \in Surjection(rows, vins)
    BY DEF Surjection
  <1>2. f \in Injection(rows, vins)
    BY DEF Injection, IsInjective
  <1>3. IsFiniteSet(vins) /\ Cardinality(vins) = Cardinality(rows)
    <2> HIDE DEF vins, f
    <2> QED BY <1>1, <1>2, FS_Surjection
  <1> QED BY <1>3

OneEntryPerVin ==
    \A d, e \in manifest : d.shipment = e.shipment /\ d.vin = e.vin => d = e

Balanced(r) ==
    /\ r.expected = Cardinality(r.matched) + Cardinality(r.missing)
    /\ r.received = Cardinality(r.matched) + Cardinality(r.unexpected)
    /\ r.duplicates = {}

\* What a manifest request in flight relies on.
ErrandFacts(e) ==
    /\ e.at # "idle" => e.shipment \in Shipments
    /\ e.at \in {"entryVin", "entrySave"} => e.vin \in Vins
    /\ e.at = "reconcileVehicles" => e.entries \subseteq Entries(e.shipment)
    /\ e.at = "answered" => Balanced(e.answer)

ManifestInv ==
    /\ ManifestTypeOK
    /\ IsFiniteSet(manifest)
    /\ OneEntryPerVin
    /\ \A c \in Clerks : ErrandFacts(errand[c])

LEMMA NoErrandFacts == NoErrand \in Errand /\ ErrandFacts(NoErrand)
  BY DEF NoErrand, NoReport, Errand, Report, ErrandFacts

LEMMA ManifestInitInv == ManifestInit => ManifestInv
  BY NoErrandFacts, FS_EmptySet DEF ManifestInit, ManifestInv, ManifestTypeOK, OneEntryPerVin

\* A request moves on; the manifest keeps its rows.
LEMMA ErrandGoesOn ==
  ASSUME ManifestInv, NEW c \in Clerks, NEW e, Proceed(c, e), e \in Errand,
         manifest \subseteq manifest', ErrandFacts(e)
  PROVE  errand' \in [Clerks -> Errand] /\ \A d \in Clerks : ErrandFacts(errand[d])'
  <1>1. \A d \in Clerks : errand'[d] = IF d = c THEN e ELSE errand[d]
    BY DEF Proceed, ManifestInv, ManifestTypeOK
  <1>2. errand' \in [Clerks -> Errand]
    BY DEF Proceed, ManifestInv, ManifestTypeOK
  <1>3. \A s : Entries(s) \subseteq {x \in manifest' : x.shipment = s}
    BY DEF Entries
  <1> SUFFICES ASSUME NEW d \in Clerks PROVE ErrandFacts(errand[d])'
    BY <1>2
  <1>4. PICK x : x = errand'[d] /\ ErrandFacts(x)
    BY <1>1 DEF ManifestInv
  <1> QED BY <1>3, <1>4 DEF ErrandFacts, Entries, Balanced

\* The two reads of reconcile give an answer that adds up.
LEMMA AnswerBalances ==
  ASSUME ManifestInv, IntakeInv, NEW c \in Clerks, OnErrand(c, "reconcileVehicles")
  PROVE  LET s == errand[c].shipment
             entries == errand[c].entries
             listed == Listed(entries)
             r == [expected   |-> Cardinality(entries),
                   received   |-> Received(s),
                   matched    |-> listed \cap Arrived(s),
                   unexpected |-> Arrived(s) \ listed,
                   missing    |-> Missing(listed, Arrived(s)),
                   duplicates |-> {x \in listed : \E e, f \in entries :
                                      e # f /\ e.vin = x /\ f.vin = x}]
         IN  r \in Report /\ Balanced(r)
  <1> DEFINE s == errand[c].shipment
             entries == errand[c].entries
             listed == Listed(entries)
             arrived == Arrived(s)
             r == [expected   |-> Cardinality(entries),
                   received   |-> Received(s),
                   matched    |-> listed \cap arrived,
                   unexpected |-> arrived \ listed,
                   missing    |-> Missing(listed, arrived),
                   duplicates |-> {x \in listed : \E e, f \in entries :
                                      e # f /\ e.vin = x /\ f.vin = x}]
  <1>1. /\ s \in Shipments
        /\ entries \in SUBSET manifest
        /\ \A e \in entries : e.shipment = s
    BY DEF OnErrand, ManifestInv, ErrandFacts, Entries
  <1>2. \A d, e \in entries : d.vin = e.vin => d = e
    BY <1>1 DEF ManifestInv, OneEntryPerVin
  <1>3. IsFiniteSet(entries) /\ Cardinality(entries) \in Nat
    BY <1>1, FS_Subset, FS_CardinalityType DEF ManifestInv
  <1>4. IsFiniteSet(listed) /\ Cardinality(listed) = Cardinality(entries)
    BY <1>2, <1>3, AsManyVins DEF Listed
  <1>5. IsFiniteSet(Rows(s)) /\ Received(s) \in Nat
    BY ReceivedIsNat DEF IntakeInv, Books
  <1>6. \A x, y \in Rows(s) : x.vin = y.vin => x = y
    BY DEF IntakeInv, Books, VinRegisteredOnce, Rows
  <1>7. IsFiniteSet(arrived) /\ Cardinality(arrived) = Received(s)
    BY <1>5, <1>6, AsManyVins DEF Arrived, Received
  <1>8. /\ Cardinality(listed \ arrived) = Cardinality(listed) - Cardinality(listed \cap arrived)
        /\ Cardinality(arrived \ listed) = Cardinality(arrived) - Cardinality(listed \cap arrived)
        /\ Cardinality(listed \cap arrived) \in Nat
    <2> HIDE DEF listed, arrived
    <2>1. arrived \cap listed = listed \cap arrived
      OBVIOUS
    <2>2. Cardinality(arrived \ listed) = Cardinality(arrived) - Cardinality(arrived \cap listed)
      BY <1>7, FS_Difference
    <2> QED BY <1>4, <1>7, <2>1, <2>2, FS_Difference, FS_Intersection, FS_CardinalityType
  <1>9. Balanced(r)
    <2>1. r.duplicates = {}
      BY <1>2
    <2>2. r.missing = listed \ arrived
      BY DEF Missing
    <2>3. /\ r.expected = Cardinality(entries) /\ r.received = Received(s)
          /\ r.matched = listed \cap arrived /\ r.unexpected = arrived \ listed
      OBVIOUS
    <2> HIDE DEF listed, arrived, r, entries, s
    <2>4. Cardinality(entries) = Cardinality(listed \cap arrived) + Cardinality(listed \ arrived)
      BY <1>3, <1>4, <1>8
    <2>5. Received(s) = Cardinality(listed \cap arrived) + Cardinality(arrived \ listed)
      BY <1>5, <1>7, <1>8
    <2> QED BY <2>1, <2>2, <2>3, <2>4, <2>5 DEF Balanced
  <1>10. listed \in SUBSET Vins /\ arrived \in SUBSET Vins
    BY <1>1 DEF Listed, Arrived, Rows, ManifestInv, ManifestTypeOK, ManifestEntry,
                IntakeInv, TypeOK, ImportedVehicle
  <1>11. r \in Report
    BY <1>3, <1>5, <1>10 DEF Report, Missing
  <1> QED BY <1>9, <1>11

LEMMA EntrySaveKeeps ==
  ASSUME ManifestInv, NEW c \in Clerks, EntrySave(c)
  PROVE  ManifestInv'
  <1> DEFINE s == errand[c].shipment
             x == errand[c].vin
             n == Cardinality(Copies(s, x)) + 1
             row == [shipment |-> s, vin |-> x, copy |-> n]
  <1>1. s \in Shipments /\ x \in Vins
    BY DEF EntrySave, OnErrand, ManifestInv, ErrandFacts
  <1>2. \A e \in manifest : ~(e.shipment = s /\ e.vin = x)
    BY DEF EntrySave, EntryIndexRejects, HasEntry, Copies, Entries
  <1>3. n \in Nat \ {0}
    <2>1. Copies(s, x) = {}
      BY <1>2 DEF Copies, Entries
    <2> QED BY <2>1, FS_EmptySet
  <1>4. manifest' = manifest \cup {row}
    BY DEF EntrySave
  <1>5. manifest' \subseteq ManifestEntry
    BY <1>1, <1>3, <1>4 DEF ManifestInv, ManifestTypeOK, ManifestEntry
  <1>6. IsFiniteSet(manifest')
    BY <1>4, FS_AddElement DEF ManifestInv
  <1>7. OneEntryPerVin'
    BY <1>2, <1>4 DEF ManifestInv, OneEntryPerVin
  <1>8. errand' \in [Clerks -> Errand] /\ \A d \in Clerks : ErrandFacts(errand[d])'
    BY <1>4, NoErrandFacts, ErrandGoesOn DEF EntrySave, Finish
  <1> QED BY <1>5, <1>6, <1>7, <1>8 DEF ManifestInv, ManifestTypeOK

\* A step that leaves the manifest alone and moves one request on.
LEMMA ErrandStepKeeps ==
  ASSUME ManifestInv, NEW c \in Clerks, NEW e, Proceed(c, e), e \in Errand,
         UNCHANGED manifest, ErrandFacts(e)
  PROVE  ManifestInv'
  <1>1. errand' \in [Clerks -> Errand] /\ \A d \in Clerks : ErrandFacts(errand[d])'
    BY ErrandGoesOn
  <1> QED BY <1>1 DEF ManifestInv, ManifestTypeOK, OneEntryPerVin

LEMMA ManifestStepKeeps ==
  ASSUME ManifestInv, IntakeInv, NEW c \in Clerks, ManifestStep(c)
  PROVE  ManifestInv'
  <1>0. errand[c] \in Errand /\ ErrandFacts(errand[c])
    BY DEF ManifestInv, ManifestTypeOK
  <1>1. ASSUME NEW s \in Shipments, NEW x \in Vins, EntryCheckShipment(c, s, x) PROVE ManifestInv'
    <2> DEFINE e == [NoErrand EXCEPT !.at = "entryVin", !.shipment = s, !.vin = x]
    <2>1. e \in Errand /\ ErrandFacts(e)
      BY NoErrandFacts DEF NoErrand, Errand, ErrandFacts
    <2> QED BY <1>1, <2>1, ErrandStepKeeps DEF EntryCheckShipment
  <1>2. ASSUME Finish(c), UNCHANGED manifest PROVE ManifestInv'
    BY <1>2, NoErrandFacts, ErrandStepKeeps DEF Finish
  <1>3. CASE EntryCheckVin(c)
    <2> DEFINE e == [errand[c] EXCEPT !.at = "entrySave"]
    <2>1. CASE Proceed(c, e)
      <3>1. e \in Errand /\ ErrandFacts(e)
        BY <1>0, <1>3 DEF EntryCheckVin, OnErrand, Errand, ErrandFacts
      <3> QED BY <1>3, <2>1, <3>1, ErrandStepKeeps DEF EntryCheckVin
    <2> QED BY <1>2, <1>3, <2>1 DEF EntryCheckVin
  <1>4. CASE EntrySave(c)
    BY <1>4, EntrySaveKeeps
  <1>5. CASE EntryRejected(c) \/ EndErrand(c)
    BY <1>2, <1>5 DEF EntryRejected, EndErrand
  <1>6. ASSUME NEW s \in Shipments, ReconcileReadEntries(c, s) PROVE ManifestInv'
    <2> DEFINE e == [NoErrand EXCEPT !.at = "reconcileVehicles", !.shipment = s,
                                     !.entries = Entries(s)]
    <2>1. Entries(s) \in SUBSET ManifestEntry
      BY DEF Entries, ManifestInv, ManifestTypeOK
    <2>2. e \in Errand /\ ErrandFacts(e)
      BY <2>1, NoErrandFacts DEF NoErrand, Errand, ErrandFacts
    <2> QED BY <1>6, <2>2, ErrandStepKeeps DEF ReconcileReadEntries
  <1>7. CASE ReconcileReadVehicles(c)
    <2> DEFINE s == errand[c].shipment
               entries == errand[c].entries
               listed == Listed(entries)
               r == [expected   |-> Cardinality(entries),
                     received   |-> Received(s),
                     matched    |-> listed \cap Arrived(s),
                     unexpected |-> Arrived(s) \ listed,
                     missing    |-> Missing(listed, Arrived(s)),
                     duplicates |-> {x \in listed : \E e, f \in entries :
                                        e # f /\ e.vin = x /\ f.vin = x}]
    <2>1. r \in Report /\ Balanced(r)
      BY <1>7, AnswerBalances DEF ReconcileReadVehicles
    <2>2. Proceed(c, [errand[c] EXCEPT !.at = "answered", !.answer = r])
      BY <1>7 DEF ReconcileReadVehicles
    <2> HIDE DEF r
    <2>3. [errand[c] EXCEPT !.at = "answered", !.answer = r] \in Errand
      BY <1>0, <2>1 DEF Errand
    <2>4. ErrandFacts([errand[c] EXCEPT !.at = "answered", !.answer = r])
      BY <1>0, <1>7, <2>1 DEF Errand, ErrandFacts, ReconcileReadVehicles, OnErrand
    <2> QED BY <1>7, <2>2, <2>3, <2>4, ErrandStepKeeps DEF ReconcileReadVehicles
  <1> QED BY <1>1, <1>3, <1>4, <1>5, <1>6, <1>7 DEF ManifestStep

\* What intake does in between takes nothing a manifest request relies on.
LEMMA ManifestInvStep ==
  ManifestInv /\ IntakeInv /\ [ManifestNext]_<<vars, manifestVars>> => ManifestInv'
  <1> SUFFICES ASSUME ManifestInv, IntakeInv, [ManifestNext]_<<vars, manifestVars>>
               PROVE  ManifestInv'
    OBVIOUS
  <1>1. CASE UNCHANGED manifestVars
    BY <1>1 DEF manifestVars, ManifestInv, ManifestTypeOK, OneEntryPerVin, ErrandFacts, Entries,
                Balanced
  <1>2. ASSUME NEW c \in Clerks, ManifestStep(c) PROVE ManifestInv'
    BY <1>2, ManifestStepKeeps
  <1> QED BY <1>1, <1>2 DEF ManifestNext

\* What holds while manifests are kept and vehicles registered.
THEOREM ManifestInvariance == ManifestSpec => [](ManifestInv /\ IntakeInv)
  <1>1. ManifestInit => ManifestInv
    BY ManifestInitInv
  <1>2. [ManifestNext]_<<vars, manifestVars>> => [Next]_vars
    BY DEF ManifestNext
  <1>3. ManifestInv /\ IntakeInv /\ [ManifestNext]_<<vars, manifestVars>> => ManifestInv'
    BY ManifestInvStep
  <1>4. ManifestSpec => Spec
    BY <1>2, PTL DEF ManifestSpec, Spec
  <1> QED BY <1>1, <1>3, <1>4, IntakeInvariance, PTL DEF ManifestSpec

\* However entries and registrations race, every reconciliation adds up and
\* finds no VIN entered twice.
THEOREM ReconciliationBalances == ManifestSpec => []ReportBalances
  <1>1. ManifestInv => ReportBalances
    BY DEF ManifestInv, ErrandFacts, Balanced, ReportBalances, OnErrand
  <1> QED BY <1>1, ManifestInvariance, PTL

\* Every value of the manifest and of its requests is of its type.
THEOREM ManifestTyping == ManifestSpec => []ManifestTypeOK
  <1>1. ManifestInv => ManifestTypeOK
    BY DEF ManifestInv
  <1> QED BY <1>1, ManifestInvariance, PTL

\* What one step may answer.
TellsTrue ==
    \A c \in Clerks :
        OnErrand(c, "reconcileVehicles") /\ OnErrand(c, "answered")' =>
            LET s == errand[c].shipment
                r == errand'[c].answer
            IN  /\ r.missing \subseteq Listed(Entries(s)) \ Arrived(s)
                /\ r.matched \subseteq Listed(Entries(s)) \cap Arrived(s)

LEMMA AnswersTellTrue ==
  ManifestInv /\ [ManifestNext]_<<vars, manifestVars>> => TellsTrue
  <1> SUFFICES ASSUME ManifestInv, [ManifestNext]_<<vars, manifestVars>>, NEW c \in Clerks,
                      OnErrand(c, "reconcileVehicles"), OnErrand(c, "answered")'
               PROVE  LET s == errand[c].shipment
                          r == errand'[c].answer
                      IN  /\ r.missing \subseteq Listed(Entries(s)) \ Arrived(s)
                          /\ r.matched \subseteq Listed(Entries(s)) \cap Arrived(s)
    BY DEF TellsTrue
  <1>1. errand[c] \in Errand /\ errand \in [Clerks -> Errand]
    BY DEF ManifestInv, ManifestTypeOK
  <1>2. PICK d \in Clerks : ManifestStep(d)
    BY DEF ManifestNext, manifestVars, vars, OnErrand
  <1>3. d = c
    BY <1>1, <1>2 DEF ManifestStep, EntryCheckShipment, EntryCheckVin, EntrySave, EntryRejected,
                      ReconcileReadEntries, ReconcileReadVehicles, EndErrand, Proceed, Finish,
                      OnErrand
  <1>4. ReconcileReadVehicles(c)
    <2>1. ~Finish(c)
      BY <1>1 DEF Finish, Proceed, OnErrand, NoErrand
    <2>2. \A x \in Vins, t \in Shipments : ~EntryCheckShipment(c, t, x)
      BY DEF EntryCheckShipment, OnErrand
    <2>3. \A t \in Shipments : ~ReconcileReadEntries(c, t)
      BY DEF ReconcileReadEntries, OnErrand
    <2>4. ~EntryCheckVin(c)
      BY DEF EntryCheckVin, OnErrand
    <2> QED BY <1>2, <1>3, <2>1, <2>2, <2>3, <2>4
            DEF ManifestStep, EntrySave, EntryRejected, EndErrand
  <1> DEFINE s == errand[c].shipment
             listed == Listed(errand[c].entries)
  <1>5. /\ errand'[c].answer.missing = listed \ Arrived(s)
        /\ errand'[c].answer.matched = listed \cap Arrived(s)
    BY <1>1, <1>4 DEF ReconcileReadVehicles, Proceed, Errand, Missing
  <1>6. listed \subseteq Listed(Entries(s))
    BY <1>4 DEF ManifestInv, ErrandFacts, ReconcileReadVehicles, OnErrand, Listed
  <1> QED BY <1>5, <1>6

\* At the moment of its answer, a reconciliation tells no vehicle missing that
\* has arrived, and none matched that is not on the manifest or not there.
THEOREM MissingIsTrue == ManifestSpec => MissingIsMissing
  <1>1. ManifestInv /\ [ManifestNext]_<<vars, manifestVars>> =>
          [\A c \in Clerks :
             OnErrand(c, "reconcileVehicles") /\ OnErrand(c, "answered")' =>
               LET s == errand[c].shipment
                   r == errand'[c].answer
               IN  /\ r.missing \subseteq Listed(Entries(s)) \ Arrived(s)
                   /\ r.matched \subseteq Listed(Entries(s)) \cap Arrived(s)]_<<vars, manifestVars>>
    BY AnswersTellTrue DEF TellsTrue
  <1> QED BY <1>1, ManifestInvariance, PTL DEF ManifestSpec, MissingIsMissing
=============================================================================
