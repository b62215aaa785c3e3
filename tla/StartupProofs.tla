--------------------------- MODULE StartupProofs ---------------------------
(***************************************************************************)
(* Theorems about Startup: whatever the number and the moment of stops, on *)
(* a database of any release, requests meet a complete database.           *)
(***************************************************************************)
EXTENDS Startup, SequenceTheorems, TLAPS

LEMMA ObjectsOfConcat ==
  ASSUME NEW S, NEW s \in Seq(S), NEW t \in Seq(S)
  PROVE  Objects(s) \cup Objects(t) \subseteq Objects(s \o t)
  <1> DEFINE m == Len(s)
             n == Len(t)
  <1>1. m \in Nat /\ n \in Nat /\ DOMAIN s = 1 .. m /\ DOMAIN t = 1 .. n
    BY LenProperties
  <1>2. s \o t \in Seq(S) /\ Len(s \o t) = m + n
    BY ConcatProperties
  <1>3. DOMAIN (s \o t) = 1 .. m + n
    BY <1>2, LenProperties
  <1>4. \A i \in 1 .. m : i \in DOMAIN (s \o t) /\ (s \o t)[i] = s[i]
    BY <1>1, <1>3, ConcatProperties
  <1>5. \A i \in 1 .. n : m + i \in DOMAIN (s \o t) /\ (s \o t)[m + i] = t[i]
    BY <1>1, <1>3, ConcatProperties
  <1> QED BY <1>1, <1>4, <1>5 DEF Objects

LEMMA BootStatementsTyped ==
    /\ BootStatements \in Seq(Objects(BootStatements))
    /\ Len(BootStatements) \in Nat \ {0}
    /\ DOMAIN BootStatements = 1 .. Len(BootStatements)
    /\ Objects(ImportStatements) \cup Objects(DispatchStatements) \subseteq Objects(BootStatements)
  <1> DEFINE S == Objects(ImportStatements) \cup Objects(DispatchStatements)
                      \cup Objects(AdvancedStatements)
  <1>1. ImportStatements \in Seq(Objects(ImportStatements))
    BY DEF ImportStatements, Objects
  <1>2. DispatchStatements \in Seq(Objects(DispatchStatements))
    BY DEF DispatchStatements, Objects
  <1>3. AdvancedStatements \in Seq(Objects(AdvancedStatements))
    BY DEF AdvancedStatements, Objects
  <1>4. ImportStatements \in Seq(S) /\ DispatchStatements \in Seq(S) /\ AdvancedStatements \in Seq(S)
    BY <1>1, <1>2, <1>3, SeqMonotonic
  <1>5. Len(DispatchStatements) = 2
    BY DEF DispatchStatements
  <1>6. BootStatements \in Seq(S) /\ Len(BootStatements) \in Nat \ {0}
    <2> HIDE DEF S
    <2> QED BY <1>4, <1>5, ConcatProperties, LenProperties DEF BootStatements
  <1>7. DOMAIN BootStatements = 1 .. Len(BootStatements)
    BY <1>6
  <1>8. BootStatements \in Seq(Objects(BootStatements))
    BY <1>6, <1>7 DEF Objects
  <1>9. Objects(ImportStatements) \cup Objects(DispatchStatements) \subseteq Objects(BootStatements)
    <2> HIDE DEF S
    <2>1. ImportStatements \o DispatchStatements \in Seq(S)
      BY <1>4, ConcatProperties
    <2> QED BY <1>4, <2>1, ObjectsOfConcat DEF BootStatements
  <1> QED BY <1>6, <1>7, <1>8, <1>9

\* Every database found has the core tables, unless it has none, and PostgreSQL
\* never finds one.
LEMMA FoundDatabases ==
    \A d \in Deployments :
        /\ d.provider \in Providers
        /\ d.found = {} \/ CoreSchema \subseteq d.found
        /\ d.found \subseteq ModelSchema
        /\ d.provider = "postgres" => d.found = {}
  <1> QED
    BY BootStatementsTyped, DeploymentsAssumption
       DEF AllDeployments, FoundSchemas, ImportSchema, ModelSchema

-----------------------------------------------------------------------------
(* The invariant: what a start may rely on at each await. *)

Seeding == {"seedSpots", "saveSpots", "seedUsers", "seedSensors", "listSpots", "save", "serving"}

\* What SeedAsync has seen to so far: saved, or added to the DbContext.
SeedsSeenTo ==
    /\ at \in {"seedUsers", "seedSensors", "listSpots", "save", "serving"} => "spots" \in rows
    /\ at \in {"seedSensors", "listSpots", "save"} => configured \cap {"admin"} \subseteq rows \cup pending
    /\ at = "save" => configured \subseteq rows \cup pending
    /\ at = "serving" => configured \subseteq rows

\* What a start has seen to of the schema: statements before the next one are done.
SchemaSeenTo ==
    /\ schema # {} => CoreSchema \subseteq schema
    /\ deployment.found = {} => schema \in {{}, ModelSchema}
    /\ at \notin {"down", "create"} => schema # {}
    /\ at \in {"create", "checkColumn", "addColumn"} => next = 1
    /\ at = "statements" =>
           /\ "ImportedVehicleId" \in schema
           /\ \A i \in 1 .. next - 1 : BootStatements[i] \in schema
    /\ at \in {"checkColumn", "addColumn", "statements"} => deployment.provider = "sqlite"
    /\ at \in Seeding /\ deployment.provider = "sqlite" => schema = ModelSchema

StartupInv == TypeOK /\ SeedsSeenTo /\ SchemaSeenTo

LEMMA InvInit == Init => StartupInv
  <1> SUFFICES ASSUME Init PROVE StartupInv
    OBVIOUS
  <1>1. TypeOK
    BY FoundDatabases, BootStatementsTyped, MaxStopsAssumption
       DEF Init, TypeOK, Stages, Refusals
  <1>2. SeedsSeenTo /\ SchemaSeenTo
    BY FoundDatabases DEF Init, SeedsSeenTo, SchemaSeenTo, Seeding
  <1> QED BY <1>1, <1>2 DEF StartupInv

\* A step that throws leaves a database the next start copes with.
LEMMA InvThrow ==
  ASSUME StartupInv, NEW what \in Refusals, Throw(what)
  PROVE  StartupInv'
  BY DEF StartupInv, TypeOK, SeedsSeenTo, SchemaSeenTo, Throw, Seeding, Stages

LEMMA InvStep == StartupInv /\ [Next]_vars => StartupInv'
  <1> SUFFICES ASSUME StartupInv, [Next]_vars PROVE StartupInv'
    OBVIOUS
  <1> USE BootStatementsTyped DEF StartupInv
  <1>1. CASE Start
    BY <1>1 DEF Start, TypeOK, SeedsSeenTo, SchemaSeenTo, Seeding, Stages
  <1>2. CASE EnsureCreated
    <2>1. CASE schema = {} /\ deployment.provider = "postgres"
      BY <1>2, <2>1, InvThrow DEF EnsureCreated, Refusals
    <2>2. CASE ~(schema = {} /\ deployment.provider = "postgres")
      <3>1. TypeOK'
        BY <1>2, <2>2 DEF EnsureCreated, TypeOK, Stages
      <3>2. SeedsSeenTo'
        BY <1>2, <2>2 DEF EnsureCreated, SeedsSeenTo
      <3>3. SchemaSeenTo'
        BY <1>2, <2>2 DEF EnsureCreated, SchemaSeenTo, Seeding, ModelSchema
      <3> QED BY <3>1, <3>2, <3>3
    <2> QED BY <2>1, <2>2
  <1>3. CASE CheckColumn
    BY <1>3 DEF CheckColumn, TypeOK, SeedsSeenTo, SchemaSeenTo, Seeding, Stages
  <1>4. CASE AddColumn
    <2>1. CASE "ImportedVehicleId" \in schema \/ "ParkingSpots" \notin schema
      BY <1>4, <2>1, InvThrow DEF AddColumn, Refusals
    <2>2. CASE ~("ImportedVehicleId" \in schema \/ "ParkingSpots" \notin schema)
      <3>1. deployment.found # {}
        BY <1>4, <2>2 DEF AddColumn, SchemaSeenTo, ModelSchema
      <3> QED
        BY <1>4, <2>2, <3>1
           DEF AddColumn, TypeOK, SeedsSeenTo, SchemaSeenTo, Seeding, Stages, ModelSchema
    <2> QED BY <2>1, <2>2
  <1>5. CASE RunStatement
    <2> DEFINE object == BootStatements[next]
    <2>1. object \in Objects(BootStatements) /\ next \in 1 .. Len(BootStatements)
      <3>1. at = "statements"
        BY <1>5 DEF RunStatement
      <3>2. next \in 1 .. Len(BootStatements)
        BY <3>1 DEF TypeOK
      <3> QED BY <3>2 DEF Objects
    <2>2. CASE ~(Parses(object) /\ Needs(object) \subseteq schema)
      BY <1>5, <2>1, <2>2, InvThrow DEF RunStatement, Refusals
    <2>3. CASE Parses(object) /\ Needs(object) \subseteq schema
      <3>1. /\ schema' = schema \cup {object}
            /\ next' = next + 1
            /\ at' = IF next = Len(BootStatements) THEN "seedSpots" ELSE "statements"
            /\ at = "statements"
            /\ UNCHANGED <<deployment, rows, configured, pending, refused, stops>>
        BY <1>5, <2>3 DEF RunStatement
      <3>2. TypeOK'
        <4>1. schema' \subseteq ModelSchema
          BY <2>1, <3>1 DEF TypeOK, ModelSchema
        <4>2. /\ next' \in 1 .. Len(BootStatements) + 1
              /\ at' = "statements" => next' <= Len(BootStatements)
          <5>1. Len(BootStatements) \in Nat /\ next \in 1 .. Len(BootStatements) /\ next' = next + 1
            BY <2>1, <3>1
          <5>2. next' \in 1 .. Len(BootStatements) + 1
            BY ONLY <5>1
          <5>3. next # Len(BootStatements) => next' <= Len(BootStatements)
            BY ONLY <5>1
          <5> QED BY <3>1, <5>2, <5>3
        <4> QED BY <3>1, <4>1, <4>2 DEF TypeOK, Stages
      <3>3. SeedsSeenTo'
        BY <3>1 DEF SeedsSeenTo
      <3>4. \A i \in 1 .. next' - 1 : BootStatements[i] \in schema'
        <4>1. next' - 1 = next /\ next \in Nat
          <5>1. Len(BootStatements) \in Nat /\ next \in 1 .. Len(BootStatements) /\ next' = next + 1
            BY <2>1, <3>1
          <5> QED BY ONLY <5>1
        <4>2. \A i \in 1 .. next : i = next \/ i \in 1 .. next - 1
          BY <4>1
        <4> QED BY <3>1, <4>1, <4>2 DEF SchemaSeenTo
      <3>5. next = Len(BootStatements) => schema' = ModelSchema
        <4> SUFFICES ASSUME next = Len(BootStatements) PROVE ModelSchema \subseteq schema'
          BY <3>2 DEF TypeOK
        <4>1. Objects(BootStatements) \subseteq schema'
          BY <3>1, <3>4 DEF Objects
        <4> QED BY <3>1, <4>1 DEF SchemaSeenTo, ModelSchema
      <3>6. SchemaSeenTo'
        <4>1. deployment.found = {} => schema' = ModelSchema
          BY <2>1, <3>1 DEF SchemaSeenTo, ModelSchema
        <4> QED BY <3>1, <3>4, <3>5, <4>1 DEF SchemaSeenTo, Seeding
      <3> QED BY <3>2, <3>3, <3>6
    <2> QED BY <2>2, <2>3
  <1>6. CASE SeedSpots
    BY <1>6 DEF SeedSpots, TypeOK, SeedsSeenTo, SchemaSeenTo, Seeding, Stages
  <1>7. CASE SaveSpots
    <2>1. CASE ~(CanQuerySpots /\ "spots" \notin rows)
      BY <1>7, <2>1, InvThrow DEF SaveSpots, Refusals
    <2>2. CASE CanQuerySpots /\ "spots" \notin rows
      BY <1>7, <2>2 DEF SaveSpots, TypeOK, SeedsSeenTo, SchemaSeenTo, Seeding, Stages, Seeds
    <2> QED BY <2>1, <2>2
  <1>8. CASE SeedUsers
    BY <1>8 DEF SeedUsers, TypeOK, SeedsSeenTo, SchemaSeenTo, Seeding, Stages
  <1>9. CASE SeedSensors
    BY <1>9 DEF SeedSensors, TypeOK, SeedsSeenTo, SchemaSeenTo, Seeding, Stages, Secrets
  <1>10. CASE ListSpots
    <2>1. CASE ~CanQuerySpots
      BY <1>10, <2>1, InvThrow DEF ListSpots, Refusals
    <2>2. CASE CanQuerySpots
      BY <1>10, <2>2
         DEF ListSpots, TypeOK, SeedsSeenTo, SchemaSeenTo, Seeding, Stages, Secrets
    <2> QED BY <2>1, <2>2
  <1>11. CASE SaveRest
    BY <1>11 DEF SaveRest, TypeOK, SeedsSeenTo, SchemaSeenTo, Seeding, Stages, Seeds
  <1>12. CASE Stop
    BY <1>12, MaxStopsAssumption
       DEF Stop, TypeOK, SeedsSeenTo, SchemaSeenTo, Seeding, Stages
  <1>13. CASE UNCHANGED vars
    BY <1>13 DEF vars, TypeOK, SeedsSeenTo, SchemaSeenTo
  <1> QED
    BY <1>1, <1>2, <1>3, <1>4, <1>5, <1>6, <1>7, <1>8, <1>9, <1>10, <1>11, <1>12, <1>13
       DEF Next, Step, SeedAsync

\* Types, at every start after any stops.
THEOREM TypeCorrect == Spec => []TypeOK
  <1>1. StartupInv => TypeOK
    BY DEF StartupInv
  <1> QED BY <1>1, InvInit, InvStep, PTL DEF Spec

\* However often and wherever starts are cut short, requests are served only from
\* a seeded database with the whole schema (SeedAsync, EnsureCreated, bootstrap).
THEOREM ServedOnlyWhenReady == Spec => []ServingIsReady
  <1>1. StartupInv => ServingIsReady
    BY DEF StartupInv, SeedsSeenTo, SchemaSeenTo, ServingIsReady, Seeding
  <1> QED BY <1>1, InvInit, InvStep, PTL DEF Spec

-----------------------------------------------------------------------------
(* What repeated starts are refused. *)

\* Every index of a list is on the column added first, or on an earlier table.
InOrder(statements) ==
    \A i \in DOMAIN statements :
        Needs(statements[i]) \subseteq
            {"ImportedVehicleId"} \cup {statements[j] : j \in 1 .. i - 1}

LEMMA InOrderConcat ==
  ASSUME NEW S, NEW s \in Seq(S), NEW t \in Seq(S), InOrder(s), InOrder(t)
  PROVE  InOrder(s \o t)
  <1> DEFINE u == s \o t
             m == Len(s)
             n == Len(t)
  <1>1. m \in Nat /\ n \in Nat /\ DOMAIN s = 1 .. m /\ DOMAIN t = 1 .. n
    BY LenProperties
  <1>2. /\ DOMAIN u = 1 .. m + n
        /\ \A i \in 1 .. m : u[i] = s[i]
        /\ \A i \in 1 .. n : u[m + i] = t[i]
    BY <1>1, ConcatProperties, LenProperties
  <1> HIDE DEF u, m, n
  <1>3. ASSUME NEW i \in 1 .. m + n
        PROVE  Needs(u[i]) \subseteq {"ImportedVehicleId"} \cup {u[j] : j \in 1 .. i - 1}
    <2>1. CASE i \in 1 .. m
      <3>1. Needs(s[i]) \subseteq {"ImportedVehicleId"} \cup {s[j] : j \in 1 .. i - 1}
        BY <1>1, <2>1 DEF InOrder
      <3>2. \A j \in 1 .. i - 1 : j \in 1 .. m
        BY <1>1, <2>1
      <3> QED BY <1>2, <2>1, <3>1, <3>2
    <2>2. CASE i \notin 1 .. m
      <3> DEFINE k == i - m
      <3>1. k \in 1 .. n /\ m + k = i
        BY <1>1, <2>2
      <3>2. Needs(t[k]) \subseteq {"ImportedVehicleId"} \cup {t[j] : j \in 1 .. k - 1}
        BY <1>1, <3>1 DEF InOrder
      <3>3. \A j \in 1 .. k - 1 : j \in 1 .. n /\ m + j \in 1 .. i - 1
        BY <1>1, <3>1
      <3> HIDE DEF k
      <3>4. \A j \in 1 .. k - 1 : t[j] = u[m + j]
        BY <1>2, <3>3
      <3> QED BY <1>2, <3>1, <3>2, <3>3, <3>4
    <2> QED BY <2>1, <2>2
  <1>4. InOrder(u)
    BY <1>2, <1>3 DEF InOrder
  <1> QED BY <1>4 DEF u

LEMMA ImportInOrder == InOrder(ImportStatements)
  BY DEF InOrder, ImportStatements, Needs, IndexOn

LEMMA DispatchInOrder == InOrder(DispatchStatements)
  BY DEF InOrder, DispatchStatements, Needs, IndexOn

LEMMA AdvancedInOrder == InOrder(AdvancedStatements)
  BY SMTT(60) DEF InOrder, AdvancedStatements, Needs, IndexOn

\* The three batches, one after the other, are in order too.
LEMMA BootInOrder == InOrder(BootStatements)
  <1> DEFINE S == Objects(ImportStatements) \cup Objects(DispatchStatements)
                      \cup Objects(AdvancedStatements)
  <1>1. /\ ImportStatements \in Seq(Objects(ImportStatements))
        /\ DispatchStatements \in Seq(Objects(DispatchStatements))
    BY DEF ImportStatements, DispatchStatements, Objects
  <1>2. AdvancedStatements \in Seq(Objects(AdvancedStatements))
    BY DEF AdvancedStatements, Objects
  <1>3. ImportStatements \in Seq(S) /\ DispatchStatements \in Seq(S) /\ AdvancedStatements \in Seq(S)
    BY <1>1, <1>2, SeqMonotonic
  <1> HIDE DEF S
  <1>4. ImportStatements \o DispatchStatements \in Seq(S)
    BY <1>3, ConcatProperties
  <1>5. InOrder(ImportStatements \o DispatchStatements)
    BY <1>3, ImportInOrder, DispatchInOrder, InOrderConcat
  <1> QED BY <1>3, <1>4, <1>5, AdvancedInOrder, InOrderConcat DEF BootStatements

\* What a start has asked before it goes on.
Asked ==
    /\ at = "addColumn" => "ImportedVehicleId" \notin schema
    /\ at = "saveSpots" => "spots" \notin rows

HarmlessInv == Asked /\ RepeatIsHarmless

\* Where the spots are queried, their table and column are there.
LEMMA QueriesWork ==
  ASSUME StartupInv, at \in Seeding,
         deployment.provider = "sqlite" \/ (deployment.provider = "other" /\ deployment.found = {})
  PROVE  CanQuerySpots
  <1>1. schema = ModelSchema
    BY DEF StartupInv, SchemaSeenTo, Seeding
  <1> QED BY <1>1 DEF CanQuerySpots, ModelSchema, CoreSchema

LEMMA HarmlessStep == StartupInv /\ HarmlessInv /\ [Next]_vars => HarmlessInv'
  <1> SUFFICES ASSUME StartupInv, HarmlessInv, [Next]_vars PROVE HarmlessInv'
    OBVIOUS
  <1> USE DEF HarmlessInv
  <1>1. CASE Start
    BY <1>1 DEF Start, Asked, RepeatIsHarmless
  <1>2. CASE EnsureCreated
    BY <1>2 DEF EnsureCreated, Throw, Asked, RepeatIsHarmless
  <1>3. CASE CheckColumn
    BY <1>3 DEF CheckColumn, Asked, RepeatIsHarmless
  <1>4. CASE AddColumn
    <2>1. "ImportedVehicleId" \notin schema /\ "ParkingSpots" \in schema
      BY <1>4 DEF AddColumn, Asked, StartupInv, SchemaSeenTo, CoreSchema
    <2> QED BY <1>4, <2>1 DEF AddColumn, Asked, RepeatIsHarmless
  <1>5. CASE RunStatement
    <2> DEFINE object == BootStatements[next]
    <2>1. /\ at = "statements" /\ next \in 1 .. Len(BootStatements)
          /\ deployment.provider = "sqlite"
      BY <1>5 DEF RunStatement, StartupInv, TypeOK, SchemaSeenTo
    <2>2. Needs(object) \subseteq schema
      <3>1. Needs(object) \subseteq
                {"ImportedVehicleId"} \cup {BootStatements[j] : j \in 1 .. next - 1}
        BY <2>1, BootInOrder, BootStatementsTyped DEF InOrder
      <3>2. /\ "ImportedVehicleId" \in schema
            /\ \A j \in 1 .. next - 1 : BootStatements[j] \in schema
        BY <2>1 DEF StartupInv, SchemaSeenTo
      <3> HIDE DEF object
      <3> QED BY <3>1, <3>2
    <2>3. CASE Parses(object)
      BY <1>5, <2>2, <2>3 DEF RunStatement, Asked, RepeatIsHarmless
    <2>4. CASE ~Parses(object)
      <3>1. object = "VehicleCustomerLinks"
        BY <2>4 DEF Parses
      <3>2. Throw("VehicleCustomerLinks")
        BY <1>5, <2>4, <3>1 DEF RunStatement
      <3> QED BY <2>1, <3>2 DEF Throw, Asked, RepeatIsHarmless
    <2> QED BY <2>3, <2>4
  <1>6. CASE SeedSpots
    BY <1>6 DEF SeedSpots, Asked, RepeatIsHarmless
  <1>7. CASE SaveSpots
    <2>1. at = "saveSpots" /\ "spots" \notin rows
      BY <1>7 DEF SaveSpots, Asked
    <2>2. CASE CanQuerySpots
      BY <1>7, <2>1, <2>2 DEF SaveSpots, Asked, RepeatIsHarmless
    <2>3. CASE ~CanQuerySpots
      <3>1. ~(\/ deployment.provider = "sqlite"
              \/ deployment.provider = "other" /\ deployment.found = {})
        BY <2>1, <2>3, QueriesWork DEF Seeding
      <3> QED BY <1>7, <2>3, <3>1 DEF SaveSpots, Throw, Asked, RepeatIsHarmless
    <2> QED BY <2>2, <2>3
  <1>8. CASE SeedUsers \/ SeedSensors \/ SaveRest
    BY <1>8 DEF SeedUsers, SeedSensors, SaveRest, Asked, RepeatIsHarmless
  <1>9. CASE ListSpots
    <2>1. CASE CanQuerySpots
      BY <1>9, <2>1 DEF ListSpots, Asked, RepeatIsHarmless
    <2>2. CASE ~CanQuerySpots
      <3>1. ~(\/ deployment.provider = "sqlite"
              \/ deployment.provider = "other" /\ deployment.found = {})
        BY <1>9, <2>2, QueriesWork DEF ListSpots, Seeding
      <3> QED BY <1>9, <2>2, <3>1 DEF ListSpots, Throw, Asked, RepeatIsHarmless
    <2> QED BY <2>1, <2>2
  <1>10. CASE Stop
    BY <1>10 DEF Stop, Asked, RepeatIsHarmless
  <1>11. CASE UNCHANGED vars
    BY <1>11 DEF vars, Asked, RepeatIsHarmless
  <1> QED
    BY <1>1, <1>2, <1>3, <1>4, <1>5, <1>6, <1>7, <1>8, <1>9, <1>10, <1>11
       DEF Next, Step, SeedAsync

\* Whatever interrupted starts left behind, SQLite refuses a later one neither the
\* column nor a statement nor a seed, only the statement it never parses (the IF
\* NOT EXISTS of the bootstrap, and what SeedAsync asks before it inserts).
THEOREM RepeatsAreHarmless == Spec => []RepeatIsHarmless
  <1>1. Init => HarmlessInv
    BY DEF Init, HarmlessInv, Asked, RepeatIsHarmless
  <1>2. HarmlessInv => RepeatIsHarmless
    BY DEF HarmlessInv
  <1> QED BY <1>1, <1>2, InvInit, InvStep, HarmlessStep, PTL DEF Spec

-----------------------------------------------------------------------------
(* What never comes, and what a start does until then. *)

LEMMA SomeStatementNeverParses ==
    \E i \in DOMAIN BootStatements : ~Parses(BootStatements[i])
  <1> DEFINE S == Objects(ImportStatements) \cup Objects(DispatchStatements)
                      \cup Objects(AdvancedStatements)
  <1>1. /\ ImportStatements \in Seq(Objects(ImportStatements))
        /\ DispatchStatements \in Seq(Objects(DispatchStatements))
    BY DEF ImportStatements, DispatchStatements, Objects
  <1>2. AdvancedStatements \in Seq(Objects(AdvancedStatements))
    BY DEF AdvancedStatements, Objects
  <1>3. ImportStatements \in Seq(S) /\ DispatchStatements \in Seq(S) /\ AdvancedStatements \in Seq(S)
    BY <1>1, <1>2, SeqMonotonic
  <1> HIDE DEF S
  <1>4. ImportStatements \o DispatchStatements \in Seq(S)
    BY <1>3, ConcatProperties
  <1>5. Objects(AdvancedStatements) \subseteq Objects(BootStatements)
    BY <1>3, <1>4, ObjectsOfConcat DEF BootStatements
  <1>6. "VehicleCustomerLinks" \in Objects(AdvancedStatements)
    <2>1. /\ 22 \in DOMAIN AdvancedStatements
          /\ AdvancedStatements[22] = "VehicleCustomerLinks"
      BY DEF AdvancedStatements
    <2> QED BY <2>1 DEF Objects
  <1> QED BY <1>5, <1>6 DEF Objects, Parses

\* A PostgreSQL database stays empty; on SQLite every statement that was run
\* parses, and the last is never behind the start.
StartsInVain ==
    /\ deployment.provider = "postgres" => schema = {} /\ at \in {"down", "create"}
    /\ deployment.provider = "sqlite" => at \notin Seeding
    /\ at = "statements" => \A i \in 1 .. next - 1 : Parses(BootStatements[i])

LEMMA InVainInit == Init => StartsInVain
  BY FoundDatabases DEF Init, StartsInVain, Seeding

LEMMA InVainStep == StartupInv /\ StartsInVain /\ [Next]_vars => StartsInVain'
  <1> SUFFICES ASSUME StartupInv, StartsInVain, [Next]_vars PROVE StartsInVain'
    OBVIOUS
  <1>1. CASE Start
    BY <1>1 DEF Start, StartsInVain, Seeding
  <1>2. CASE EnsureCreated
    BY <1>2 DEF EnsureCreated, Throw, StartsInVain, Seeding
  <1>3. CASE CheckColumn \/ AddColumn
    <2>1. next = 1 /\ deployment.provider = "sqlite"
      BY <1>3 DEF CheckColumn, AddColumn, StartupInv, SchemaSeenTo
    <2> QED BY <1>3, <2>1 DEF CheckColumn, AddColumn, Throw, StartsInVain, Seeding
  <1>4. CASE RunStatement
    <2> DEFINE object == BootStatements[next]
    <2>1. /\ at = "statements" /\ next \in 1 .. Len(BootStatements)
          /\ deployment.provider = "sqlite" /\ Len(BootStatements) \in Nat
          /\ \A i \in 1 .. next - 1 : Parses(BootStatements[i])
      <3> HIDE DEF object
      <3>1. at = "statements"
        BY <1>4 DEF RunStatement
      <3>2. next \in 1 .. Len(BootStatements)
        BY <3>1 DEF StartupInv, TypeOK
      <3>3. deployment.provider = "sqlite"
        BY <3>1 DEF StartupInv, SchemaSeenTo
      <3>4. \A i \in 1 .. next - 1 : Parses(BootStatements[i])
        BY <3>1 DEF StartsInVain
      <3> QED BY <3>1, <3>2, <3>3, <3>4, BootStatementsTyped
    <2>2. CASE ~(Parses(object) /\ Needs(object) \subseteq schema)
      BY <1>4, <2>1, <2>2 DEF RunStatement, Throw, StartsInVain, Seeding
    <2>3. CASE Parses(object) /\ Needs(object) \subseteq schema
      <3>1. \A i \in 1 .. next : Parses(BootStatements[i])
        <4>1. \A i \in 1 .. next : i = next \/ i \in 1 .. next - 1
          BY <2>1
        <4> QED BY <2>1, <2>3, <4>1
      <3>2. next # Len(BootStatements)
        BY <2>1, <3>1, BootStatementsTyped, SomeStatementNeverParses
      <3>3. /\ at' = "statements" /\ next' = next + 1 /\ deployment' = deployment
            /\ next' - 1 = next
        BY <1>4, <2>1, <2>3, <3>2 DEF RunStatement
      <3> QED BY <2>1, <3>1, <3>3 DEF StartsInVain, Seeding
    <2> QED BY <2>2, <2>3
  <1>5. CASE SeedAsync
    <2>1. at \in Seeding /\ at' \in Seeding \cup {"down"} /\ deployment' = deployment
      BY <1>5 DEF SeedAsync, SeedSpots, SaveSpots, SeedUsers, SeedSensors, ListSpots, SaveRest,
                  Throw, Seeding
    <2>2. deployment.provider # "sqlite" /\ deployment.provider # "postgres"
      BY <2>1 DEF StartsInVain, Seeding
    <2> QED BY <2>1, <2>2 DEF StartsInVain, Seeding
  <1>6. CASE Stop \/ UNCHANGED vars
    BY <1>6 DEF Stop, vars, StartsInVain, Seeding
  <1> QED BY <1>1, <1>2, <1>3, <1>4, <1>5, <1>6 DEF Next, Step

\* With either provider the program names, no start of any number ever comes to
\* SeedAsync, whatever is found and whoever stops it: the violations of
\* LocalRunServes and ProductionServes are no accident of one behaviour
\* (AdvancedSqliteSchemaBootstrapper, the index filter of the DbContext).
THEOREM NeverSeedsNorServes ==
  Spec => [](deployment.provider \in {"sqlite", "postgres"} => at \notin Seeding)
  <1>1. StartsInVain => (deployment.provider \in {"sqlite", "postgres"} => at \notin Seeding)
    BY DEF StartsInVain, Seeding
  <1> QED BY <1>1, InvInit, InvStep, InVainInit, InVainStep, PTL DEF Spec

\* What the bootstrap declares ahead of the first statement that does not parse.
Arrived ==
    \A i \in DOMAIN BootStatements :
        (\A j \in 1 .. i : Parses(BootStatements[j])) => BootStatements[i] \in schema

ArrivedInv == deployment.provider = "sqlite" /\ refused # "nothing" => Arrived

LEMMA SchemaGrows == [Next]_vars => schema \subseteq schema' /\ deployment' = deployment
  BY DEF Next, Step, SeedAsync, Start, EnsureCreated, CheckColumn, AddColumn, RunStatement,
         SeedSpots, SaveSpots, SeedUsers, SeedSensors, ListSpots, SaveRest, Stop, Throw, vars

LEMMA ArrivedStep ==
  StartupInv /\ HarmlessInv /\ StartsInVain /\ ArrivedInv /\ [Next]_vars => ArrivedInv'
  <1> SUFFICES ASSUME StartupInv, HarmlessInv, StartsInVain, ArrivedInv, [Next]_vars,
                      deployment'.provider = "sqlite", refused' # "nothing"
               PROVE  Arrived'
    BY DEF ArrivedInv
  <1>1. schema \subseteq schema' /\ deployment.provider = "sqlite"
    BY SchemaGrows
  <1>2. CASE refused # "nothing"
    BY <1>1, <1>2 DEF ArrivedInv, Arrived
  <1>3. CASE refused = "nothing"
    <2>1. refused' # refused
      BY <1>3
    <2>2. CASE RunStatement
      <3>1. /\ ~(Parses(BootStatements[next]) /\ Needs(BootStatements[next]) \subseteq schema)
            /\ schema' = schema /\ at = "statements" /\ refused' = BootStatements[next]
        BY <2>1, <2>2 DEF RunStatement, Throw
      <3>2. /\ next \in 1 .. Len(BootStatements) /\ Len(BootStatements) \in Nat
            /\ \A i \in 1 .. next - 1 : BootStatements[i] \in schema
        BY <3>1, BootStatementsTyped DEF StartupInv, TypeOK, SchemaSeenTo
      <3>3. ~Parses(BootStatements[next])
        <4>1. RepeatIsHarmless'
          BY HarmlessStep DEF HarmlessInv
        <4>2. refused' = "VehicleCustomerLinks"
          BY <4>1 DEF RepeatIsHarmless
        <4> QED BY <3>1, <4>2 DEF Parses
      <3>4. ASSUME NEW i \in DOMAIN BootStatements,
                   \A j \in 1 .. i : Parses(BootStatements[j])
            PROVE  BootStatements[i] \in schema'
        <4>1. i \in 1 .. Len(BootStatements)
          BY BootStatementsTyped
        <4>2. next \notin 1 .. i
          BY <3>3, <3>4
        <4>3. i \in 1 .. next - 1
          BY <3>2, <4>1, <4>2
        <4> QED BY <3>1, <3>2, <4>3
      <3> QED BY <3>4 DEF Arrived
    <2>3. CASE ~RunStatement
      <3>1. RepeatIsHarmless'
        BY HarmlessStep DEF HarmlessInv
      <3>2. refused' = "VehicleCustomerLinks"
        BY <1>1, <3>1, SchemaGrows DEF RepeatIsHarmless
      <3> QED BY <2>1, <2>3, <3>2
          DEF Next, Step, SeedAsync, Start, EnsureCreated, CheckColumn, AddColumn,
              SeedSpots, SaveSpots, SeedUsers, SeedSensors, ListSpots, SaveRest, Stop, Throw, vars
    <2> QED BY <2>2, <2>3
  <1> QED BY <1>2, <1>3

\* A start SQLite has refused has brought the database as far as any start can:
\* every object ahead of the refused statement is there, whatever was found and
\* however often earlier starts were stopped.  With StartsEnd this is all of
\* UpgradeArrives but the fairness.
THEOREM RefusedIsUpgraded ==
  Spec => [](deployment.provider = "sqlite" /\ refused # "nothing" => Arrived)
  <1>1. Init => HarmlessInv /\ ArrivedInv
    BY DEF Init, HarmlessInv, Asked, RepeatIsHarmless, ArrivedInv
  <1>2. ArrivedInv => (deployment.provider = "sqlite" /\ refused # "nothing" => Arrived)
    BY DEF ArrivedInv
  <1> QED BY <1>1, <1>2, InvInit, InvStep, HarmlessStep, InVainInit, InVainStep, ArrivedStep,
             PTL DEF Spec

\* The awaits a start has at most ahead of it.
StepsLeft ==
    CASE at = "create"      -> Len(BootStatements) + 9
      [] at = "checkColumn" -> Len(BootStatements) + 8
      [] at = "addColumn"   -> Len(BootStatements) + 7
      [] at = "statements"  -> Len(BootStatements) + 7 - next
      [] at = "seedSpots"   -> 6
      [] at = "saveSpots"   -> 5
      [] at = "seedUsers"   -> 4
      [] at = "seedSensors" -> 3
      [] at = "listSpots"   -> 2
      [] at = "save"        -> 1
      [] OTHER              -> 0

\* A step either ends the start or brings it nearer to its end.
ComesNearer == Step => StepsLeft \in Nat /\ (at' = "down" \/ StepsLeft' < StepsLeft)

LEMMA NearerStep == StartupInv /\ [Next]_vars => ComesNearer
  <1> SUFFICES ASSUME StartupInv, Step
               PROVE  StepsLeft \in Nat /\ (at' = "down" \/ StepsLeft' < StepsLeft)
    BY DEF ComesNearer
  <1>0. /\ Len(BootStatements) \in Nat /\ next \in Nat
        /\ at = "statements" => next \in 1 .. Len(BootStatements)
        /\ at \in {"checkColumn", "addColumn"} => next = 1
    BY BootStatementsTyped DEF StartupInv, TypeOK, SchemaSeenTo
  <1>1. CASE EnsureCreated
    BY <1>0, <1>1 DEF EnsureCreated, Throw, StepsLeft
  <1>2. CASE CheckColumn \/ AddColumn
    BY <1>0, <1>2 DEF CheckColumn, AddColumn, Throw, StepsLeft
  <1>3. CASE RunStatement
    BY <1>0, <1>3 DEF RunStatement, Throw, StepsLeft
  <1>4. CASE SeedAsync
    BY <1>4 DEF SeedAsync, SeedSpots, SaveSpots, SeedUsers, SeedSensors, ListSpots, SaveRest,
                Throw, StepsLeft
  <1> QED BY <1>1, <1>2, <1>3, <1>4 DEF Step

\* No start goes in circles: each step of it ends it or leaves fewer awaits, so
\* that one nobody stops ends, by serving or by an exception, after at most
\* nine awaits more than there are statements.
THEOREM StartsEnd == Spec => [][ComesNearer]_vars
  BY InvInit, InvStep, NearerStep, PTL DEF Spec
=============================================================================
