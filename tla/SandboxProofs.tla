--------------------------- MODULE SandboxProofs ---------------------------
(***************************************************************************)
(* Holds and gate visits of the sandbox, for any tabs, any new vehicles    *)
(* and any number of changes.  A tab may save a document read long before, *)
(* so the two properties are proved of every document in play, and each    *)
(* button is shown to turn a good document into a good one.                *)
(***************************************************************************)
EXTENDS Sandbox, SequenceTheorems, TLAPS

HoldRow == [car : Cars, active : BOOLEAN]
GateRow == [car : Cars, kind : GateKind]

ActiveHold(holds, c) == \E i \in 1..Len(holds) : holds[i].car = c /\ holds[i].active

LeftLast(gates, c) ==
    \E i \in 1..Len(gates) :
        /\ gates[i] = [car |-> c, kind |-> "Gate-Out"]
        /\ \A j \in 1..(i - 1) : gates[j].car # c

\* A document that is typed and has both properties.
Good(d) ==
    /\ d \in SandboxDocument
    /\ \A c \in Cars : /\ d.status[c] = "Hold" => ActiveHold(d.holds, c)
                       /\ d.status[c] = "Dispatched" => LeftLast(d.gates, c)

\* Every document in play is good.
SandboxInv ==
    /\ Good(document)
    /\ view \in [Tabs -> SandboxDocument] /\ \A t \in Tabs : Good(view[t])
    /\ editor \in [Tabs -> SandboxDocument \cup {Nothing}]
    /\ \A t \in Tabs : editor[t] # Nothing => Good(editor[t])

LEMMA UnshiftFacts ==
  ASSUME NEW S, NEW rows \in Seq(S), NEW row \in S
  PROVE  /\ Unshift(row, rows) \in Seq(S)
         /\ Len(Unshift(row, rows)) = Len(rows) + 1 /\ Len(rows) \in Nat
         /\ Unshift(row, rows)[1] = row
         /\ \A i \in 1..Len(rows) : Unshift(row, rows)[i + 1] = rows[i]
  BY DEF Unshift

\* A hold in front changes nothing for the holds behind it.
LEMMA HoldInFront ==
  ASSUME NEW holds \in Seq(HoldRow), NEW row \in HoldRow, NEW c,
         ActiveHold(holds, c) \/ (row.car = c /\ row.active)
  PROVE  ActiveHold(Unshift(row, holds), c)
  <1> DEFINE more == Unshift(row, holds)
  <1>1. /\ Len(more) = Len(holds) + 1 /\ Len(holds) \in Nat /\ more[1] = row
        /\ \A i \in 1..Len(holds) : more[i + 1] = holds[i]
    BY UnshiftFacts
  <1> HIDE DEF more
  <1>2. CASE ActiveHold(holds, c)
    <2>1. PICK i \in 1..Len(holds) : holds[i].car = c /\ holds[i].active
      BY <1>2 DEF ActiveHold
    <2>2. i + 1 \in 1..Len(more) /\ more[i + 1] = holds[i]
      BY <1>1
    <2>3. ActiveHold(more, c)
      BY <2>1, <2>2 DEF ActiveHold
    <2> QED BY <2>3 DEF more
  <1>3. CASE row.car = c /\ row.active
    <2>1. 1 \in 1..Len(more)
      BY <1>1
    <2>2. ActiveHold(more, c)
      BY <1>1, <1>3, <2>1 DEF ActiveHold
    <2> QED BY <2>2 DEF more
  <1> QED BY <1>2, <1>3

\* Clearing one hold takes no other vehicle's away.
LEMMA HoldCleared ==
  ASSUME NEW holds \in Seq(HoldRow), NEW k \in 1..Len(holds), NEW c,
         holds[k].car # c, ActiveHold(holds, c)
  PROVE  ActiveHold([holds EXCEPT ![k].active = FALSE], c)
  <1> DEFINE row  == [holds[k] EXCEPT !.active = FALSE]
             less == [holds EXCEPT ![k] = row]
  <1>1. PICK i \in 1..Len(holds) : holds[i].car = c /\ holds[i].active
    BY DEF ActiveHold
  <1>2. holds[k] \in HoldRow
    BY ElementOfSeq
  <1>3. row \in HoldRow
    BY <1>2 DEF HoldRow
  <1> HIDE DEF row
  <1>4. /\ Len(less) = Len(holds)
        /\ \A j \in 1..Len(holds) : less[j] = IF j = k THEN row ELSE holds[j]
    BY <1>3, ExceptSeq
  <1> HIDE DEF less
  <1>5. i # k
    BY <1>1
  <1>6. ActiveHold(less, c)
    BY <1>1, <1>4, <1>5 DEF ActiveHold
  <1> QED BY <1>6 DEF less, row

\* A gate row in front is the newest of its own vehicle only.
LEMMA GateInFront ==
  ASSUME NEW gates \in Seq(GateRow), NEW row \in GateRow, NEW c,
         \/ row.car # c /\ LeftLast(gates, c)
         \/ row = [car |-> c, kind |-> "Gate-Out"]
  PROVE  LeftLast(Unshift(row, gates), c)
  <1> DEFINE more == Unshift(row, gates)
  <1>1. /\ Len(more) = Len(gates) + 1 /\ Len(gates) \in Nat /\ more[1] = row
        /\ \A i \in 1..Len(gates) : more[i + 1] = gates[i]
    BY UnshiftFacts
  <1> HIDE DEF more
  <1>2. CASE row.car # c /\ LeftLast(gates, c)
    <2>1. PICK i \in 1..Len(gates) :
              /\ gates[i] = [car |-> c, kind |-> "Gate-Out"]
              /\ \A j \in 1..(i - 1) : gates[j].car # c
      BY <1>2 DEF LeftLast
    <2>2. i \in Nat /\ i + 1 \in 1..Len(more) /\ more[i + 1] = gates[i]
      BY <1>1
    <2>3. ASSUME NEW j \in 1..((i + 1) - 1) PROVE more[j].car # c
      <3>1. CASE j = 1
        BY <1>1, <1>2, <3>1
      <3>2. CASE j # 1
        <4>1. j - 1 \in 1..(i - 1) /\ j - 1 \in 1..Len(gates) /\ (j - 1) + 1 = j
          BY <1>1, <2>2, <3>2
        <4>2. more[j] = gates[j - 1]
          BY <1>1, <4>1
        <4> QED BY <2>1, <4>1, <4>2
      <3> QED BY <3>1, <3>2
    <2>4. LeftLast(more, c)
      BY <2>1, <2>2, <2>3 DEF LeftLast
    <2> QED BY <2>4 DEF more
  <1>3. CASE row = [car |-> c, kind |-> "Gate-Out"]
    <2>1. 1 \in 1..Len(more) /\ 1..(1 - 1) = {}
      BY <1>1
    <2>2. LeftLast(more, c)
      BY <1>1, <1>3, <2>1 DEF LeftLast
    <2> QED BY <2>2 DEF more
  <1> QED BY <1>2, <1>3

LEMMA DocumentFields ==
  ASSUME NEW d \in SandboxDocument
  PROVE  /\ d.cars \in Seq(Cars) /\ d.status \in [Cars -> CarStatus]
         /\ d.holds \in Seq(HoldRow) /\ d.gates \in Seq(GateRow)
         /\ d.loads \in Nat /\ d.filed \in [Lists -> Nat] /\ d.audit \in Nat
  BY DEF SandboxDocument, HoldRow, GateRow

\* A status that is neither Hold nor Dispatched asks for no row.
LEMMA PlainChange ==
  ASSUME NEW d, Good(d), NEW e \in SandboxDocument,
         e.holds = d.holds, e.gates = d.gates,
         \A c \in Cars : \/ e.status[c] = d.status[c]
                         \/ e.status[c] \in {"Received", "In yard", "Ready"}
  PROVE  Good(e)
  BY DEF Good

LEMMA SeedIsGood == Good(Seed)
  <1>0. /\ SeedInYard \in Cars /\ SeedHeld \in Cars /\ SeedReady \in Cars
        /\ "Gate-In" \in GateKind
    BY DEF Cars, GateKind
  <1>1. /\ Seed.cars = <<SeedInYard, SeedHeld, SeedReady>>
        /\ Seed.holds = <<[car |-> SeedHeld, active |-> TRUE]>>
        /\ Seed.gates = <<[car |-> SeedInYard, kind |-> "Gate-In"]>>
        /\ Seed.loads = 0 /\ Seed.filed = [l \in Lists |-> 0] /\ Seed.audit = 0
    BY DEF Seed
  <1>2. Seed.status = [c \in Cars |-> CASE c = SeedInYard -> "In yard"
                                        [] c = SeedHeld   -> "Hold"
                                        [] c = SeedReady  -> "Ready"
                                        [] OTHER          -> "Received"]
    BY DEF Seed
  <1>3. \A c \in Cars : /\ Seed.status[c] \in {"In yard", "Hold", "Ready", "Received"}
                        /\ Seed.status[c] = "Hold" => c = SeedHeld
    BY <1>2, SeedAssumption
  <1>4. Seed.status \in [Cars -> CarStatus]
    BY <1>2, <1>3 DEF CarStatus
  <1>5. Seed.cars \in Seq(Cars)
    BY <1>0, <1>1
  <1>6. Seed.holds \in Seq(HoldRow) /\ ActiveHold(Seed.holds, SeedHeld)
    BY <1>0, <1>1 DEF HoldRow, ActiveHold
  <1>7. Seed.gates \in Seq(GateRow)
    BY <1>0, <1>1 DEF GateRow
  <1>8. Seed \in SandboxDocument
    BY <1>1, <1>4, <1>5, <1>6, <1>7 DEF Seed, SandboxDocument, HoldRow, GateRow
  <1> QED BY <1>3, <1>6, <1>8 DEF Good

\* The intake form.
LEMMA RegisterChange ==
  ASSUME NEW d, Good(d), NEW c \in Cars, NEW slot \in BOOLEAN
  PROVE  Good([d EXCEPT !.cars      = Unshift(c, @),
                        !.status[c] = IF slot THEN "In yard" ELSE "Received",
                        !.audit     = @ + 1])
  <1> DEFINE new == IF slot THEN "In yard" ELSE "Received"
             e == [d EXCEPT !.cars = Unshift(c, @), !.status[c] = new, !.audit = @ + 1]
  <1>1. d \in SandboxDocument
    BY DEF Good
  <1>2. Unshift(c, d.cars) \in Seq(Cars) /\ d.audit + 1 \in Nat /\ new \in CarStatus
    <2>1. d.cars \in Seq(Cars) /\ d.audit \in Nat
      BY <1>1, DocumentFields
    <2>2. Unshift(c, d.cars) \in Seq(Cars)
      BY <2>1, UnshiftFacts
    <2>3. d.audit + 1 \in Nat
      BY <2>1
    <2>4. new \in CarStatus
      BY DEF CarStatus
    <2> QED BY <2>2, <2>3, <2>4
  <1>3. new \in {"In yard", "Received"}
    OBVIOUS
  <1> HIDE DEF new
  <1>4. [d.status EXCEPT ![c] = new] \in [Cars -> CarStatus]
    BY <1>1, <1>2, DocumentFields
  <1>5. e \in SandboxDocument /\ e.holds = d.holds /\ e.gates = d.gates
    BY <1>1, <1>2, <1>4 DEF SandboxDocument
  <1>6. e.status = [d.status EXCEPT ![c] = new]
    BY <1>1 DEF SandboxDocument
  <1> HIDE DEF e
  <1>7. \A b \in Cars : e.status[b] = d.status[b] \/ e.status[b] \in {"Received", "In yard", "Ready"}
    BY <1>1, <1>3, <1>6, DocumentFields
  <1>8. Good(e)
    BY <1>5, <1>7, PlainChange
  <1> QED BY <1>8 DEF e, new

\* Prepare dispatch.
LEMMA LoadChange ==
  ASSUME NEW d, Good(d), NEW c \in Cars
  PROVE  Good([d EXCEPT !.loads = @ + 1, !.status[c] = "Ready"])
  <1> DEFINE e == [d EXCEPT !.loads = @ + 1, !.status[c] = "Ready"]
  <1>1. d \in SandboxDocument
    BY DEF Good
  <1>2. d.loads + 1 \in Nat /\ [d.status EXCEPT ![c] = "Ready"] \in [Cars -> CarStatus]
    <2>1. d.loads \in Nat /\ d.status \in [Cars -> CarStatus]
      BY <1>1, DocumentFields
    <2>2. d.loads + 1 \in Nat
      BY <2>1
    <2>3. [d.status EXCEPT ![c] = "Ready"] \in [Cars -> CarStatus]
      BY <2>1 DEF CarStatus
    <2> QED BY <2>2, <2>3
  <1>3. e \in SandboxDocument /\ e.holds = d.holds /\ e.gates = d.gates
    BY <1>1, <1>2 DEF SandboxDocument
  <1>4. e.status = [d.status EXCEPT ![c] = "Ready"]
    BY <1>1 DEF SandboxDocument
  <1> HIDE DEF e
  <1>5. \A b \in Cars : e.status[b] = d.status[b] \/ e.status[b] \in {"Received", "In yard", "Ready"}
    BY <1>1, <1>4, DocumentFields
  <1>6. Good(e)
    BY <1>3, <1>5, PlainChange
  <1> QED BY <1>6 DEF e

\* A row of another list, and the end of the prompts.
LEMMA RowChange ==
  ASSUME NEW d, Good(d), NEW l \in Lists
  PROVE  Good([d EXCEPT !.filed[l] = @ + 1,
                        !.audit    = IF l = "inspection" THEN @ + 1 ELSE @])
  <1> DEFINE more == IF l = "inspection" THEN d.audit + 1 ELSE d.audit
             e == [d EXCEPT !.filed[l] = @ + 1,
                            !.audit    = IF l = "inspection" THEN @ + 1 ELSE @]
  <1>1. d \in SandboxDocument
    BY DEF Good
  <1>2. more \in Nat /\ [d.filed EXCEPT ![l] = @ + 1] \in [Lists -> Nat]
    BY <1>1, DocumentFields
  <1>3. e = [d EXCEPT !.filed = [d.filed EXCEPT ![l] = @ + 1], !.audit = more]
    OBVIOUS
  <1> HIDE DEF more
  <1>4. /\ e \in SandboxDocument /\ e.holds = d.holds /\ e.gates = d.gates
        /\ e.status = d.status
    BY <1>1, <1>2, <1>3 DEF SandboxDocument
  <1> HIDE DEF e
  <1>5. Good(e)
    BY <1>4, PlainChange
  <1> QED BY <1>5 DEF e

LEMMA EditChange == ASSUME NEW d, Good(d) PROVE Good([d EXCEPT !.audit = @ + 1])
  <1> DEFINE e == [d EXCEPT !.audit = @ + 1]
  <1>1. d \in SandboxDocument /\ d.audit + 1 \in Nat
    BY DocumentFields DEF Good
  <1>2. /\ e \in SandboxDocument /\ e.holds = d.holds /\ e.gates = d.gates
        /\ e.status = d.status
    BY <1>1 DEF SandboxDocument
  <1> HIDE DEF e
  <1>3. Good(e)
    BY <1>2, PlainChange
  <1> QED BY <1>3 DEF e

\* The hold form: the vehicle that gets the status gets the hold.
LEMMA HoldChange ==
  ASSUME NEW d, Good(d), NEW c \in Cars
  PROVE  Good([d EXCEPT !.holds     = Unshift([car |-> c, active |-> TRUE], @),
                        !.status[c] = "Hold",
                        !.audit     = @ + 1])
  <1> DEFINE row == [car |-> c, active |-> TRUE]
             e == [d EXCEPT !.holds = Unshift(row, @), !.status[c] = "Hold", !.audit = @ + 1]
  <1>1. d \in SandboxDocument /\ row \in HoldRow /\ row.car = c /\ row.active
    BY DEF Good, HoldRow
  <1> HIDE DEF row
  <1>2. /\ Unshift(row, d.holds) \in Seq(HoldRow) /\ d.audit + 1 \in Nat
        /\ [d.status EXCEPT ![c] = "Hold"] \in [Cars -> CarStatus]
    <2>1. d.holds \in Seq(HoldRow) /\ d.audit \in Nat /\ d.status \in [Cars -> CarStatus]
      BY <1>1, DocumentFields
    <2>2. Unshift(row, d.holds) \in Seq(HoldRow)
      BY <1>1, <2>1, UnshiftFacts
    <2>3. d.audit + 1 \in Nat
      BY <2>1
    <2>4. [d.status EXCEPT ![c] = "Hold"] \in [Cars -> CarStatus]
      BY <2>1 DEF CarStatus
    <2> QED BY <2>2, <2>3, <2>4
  <1>3. /\ e \in SandboxDocument /\ e.holds = Unshift(row, d.holds) /\ e.gates = d.gates
        /\ e.status = [d.status EXCEPT ![c] = "Hold"]
    BY <1>1, <1>2 DEF SandboxDocument, HoldRow
  <1> HIDE DEF e
  <1>4. \A b \in Cars : e.status[b] = IF b = c THEN "Hold" ELSE d.status[b]
    BY <1>1, <1>3, DocumentFields
  <1>5. \A b \in Cars : ActiveHold(d.holds, b) \/ b = c => ActiveHold(e.holds, b)
    BY <1>1, <1>3, DocumentFields, HoldInFront
  <1>6. Good(e)
    BY <1>3, <1>4, <1>5 DEF Good
  <1> QED BY <1>6 DEF e, row

\* Clear: the vehicle of the hold loses the status with it.
LEMMA ClearChange ==
  ASSUME NEW d, Good(d), NEW k \in 1..Len(d.holds)
  PROVE  Good([d EXCEPT !.holds[k].active        = FALSE,
                        !.status[d.holds[k].car] = "In yard"])
  <1> DEFINE c == d.holds[k].car
             less == [d.holds EXCEPT ![k].active = FALSE]
             e == [d EXCEPT !.holds[k].active = FALSE, !.status[c] = "In yard"]
  <1>1. d \in SandboxDocument /\ d.holds \in Seq(HoldRow)
    BY DocumentFields DEF Good
  <1>2. d.holds[k] \in HoldRow
    BY <1>1, ElementOfSeq
  <1>3. c \in Cars /\ [d.holds[k] EXCEPT !.active = FALSE] \in HoldRow
    BY <1>2 DEF HoldRow
  <1>4. less \in Seq(HoldRow)
    BY <1>1, <1>3, ExceptSeq
  <1>5. \A b \in Cars : b # c /\ ActiveHold(d.holds, b) => ActiveHold(less, b)
    BY <1>1, HoldCleared
  <1>6. e = [d EXCEPT !.holds = less, !.status = [d.status EXCEPT ![c] = "In yard"]]
    OBVIOUS
  <1> HIDE DEF less, c
  <1>7. [d.status EXCEPT ![c] = "In yard"] \in [Cars -> CarStatus]
    BY <1>1, <1>3, DocumentFields DEF CarStatus
  <1>8. /\ e \in SandboxDocument /\ e.holds = less /\ e.gates = d.gates
        /\ e.status = [d.status EXCEPT ![c] = "In yard"]
    BY <1>1, <1>4, <1>6, <1>7 DEF SandboxDocument, HoldRow
  <1> HIDE DEF e
  <1>9. \A b \in Cars : e.status[b] = IF b = c THEN "In yard" ELSE d.status[b]
    BY <1>1, <1>3, <1>8, DocumentFields
  <1>10. Good(e)
    BY <1>5, <1>8, <1>9 DEF Good
  <1> QED BY <1>10 DEF e, c

\* A gate button: the row and the status go together.
LEMMA GateChange ==
  ASSUME NEW d, Good(d), NEW c \in Cars, NEW kind \in GateKind
  PROVE  Good([d EXCEPT !.gates     = Unshift([car |-> c, kind |-> kind], @),
                        !.status[c] = IF kind = "Gate-Out" THEN "Dispatched" ELSE "In yard",
                        !.audit     = @ + 1])
  <1> DEFINE row == [car |-> c, kind |-> kind]
             new == IF kind = "Gate-Out" THEN "Dispatched" ELSE "In yard"
             e == [d EXCEPT !.gates = Unshift(row, @), !.status[c] = new, !.audit = @ + 1]
  <1>1. /\ d \in SandboxDocument /\ row \in GateRow /\ row.car = c
        /\ kind = "Gate-Out" => row = [car |-> c, kind |-> "Gate-Out"]
    BY DEF Good, GateRow
  <1>2. new \in CarStatus /\ new # "Hold" /\ (new = "Dispatched" => kind = "Gate-Out")
    BY DEF CarStatus
  <1> HIDE DEF row, new
  <1>3. /\ Unshift(row, d.gates) \in Seq(GateRow) /\ d.audit + 1 \in Nat
        /\ [d.status EXCEPT ![c] = new] \in [Cars -> CarStatus]
    <2>1. d.gates \in Seq(GateRow) /\ d.audit \in Nat /\ d.status \in [Cars -> CarStatus]
      BY <1>1, DocumentFields
    <2>2. Unshift(row, d.gates) \in Seq(GateRow)
      BY <1>1, <2>1, UnshiftFacts
    <2>3. d.audit + 1 \in Nat
      BY <2>1
    <2>4. [d.status EXCEPT ![c] = new] \in [Cars -> CarStatus]
      BY <1>2, <2>1
    <2> QED BY <2>2, <2>3, <2>4
  <1>4. /\ e \in SandboxDocument /\ e.gates = Unshift(row, d.gates) /\ e.holds = d.holds
        /\ e.status = [d.status EXCEPT ![c] = new]
    BY <1>1, <1>3 DEF SandboxDocument, GateRow
  <1> HIDE DEF e
  <1>5. \A b \in Cars : e.status[b] = IF b = c THEN new ELSE d.status[b]
    BY <1>1, <1>4, DocumentFields
  <1>6. /\ \A b \in Cars : b # c /\ LeftLast(d.gates, b) => LeftLast(e.gates, b)
        /\ kind = "Gate-Out" => LeftLast(e.gates, c)
    BY <1>1, <1>4, DocumentFields, GateInFront
  <1>7. Good(e)
    BY <1>2, <1>4, <1>5, <1>6 DEF Good
  <1> QED BY <1>7 DEF e, row, new

LEMMA SandboxInvInit == SandboxInit => SandboxInv
  BY SeedIsGood DEF SandboxInit, SandboxInv, Good

\* A good document saved and shown leaves only good ones in play.
LEMMA SaveKeepsGood ==
  ASSUME SandboxInv, NEW t \in Tabs, NEW d, Good(d), SaveAndRender(t, d)
  PROVE  SandboxInv'
  <1>1. /\ document' = d /\ view' = [view EXCEPT ![t] = d]
        /\ editor' = [editor EXCEPT ![t] = Nothing]
    BY DEF SaveAndRender
  <1>2. d \in SandboxDocument
    BY DEF Good
  <1>3. /\ view' \in [Tabs -> SandboxDocument]
        /\ editor' \in [Tabs -> SandboxDocument \cup {Nothing}]
    BY <1>1, <1>2 DEF SandboxInv
  <1>4. \A u \in Tabs : /\ view'[u] = IF u = t THEN d ELSE view[u]
                        /\ editor'[u] = IF u = t THEN Nothing ELSE editor[u]
    BY <1>1 DEF SandboxInv
  <1>5. Good(document') /\ \A u \in Tabs : Good(view'[u])
    BY <1>1, <1>4 DEF SandboxInv
  <1>6. \A u \in Tabs : editor'[u] # Nothing => Good(editor'[u])
    BY <1>4 DEF SandboxInv
  <1> QED BY <1>3, <1>5, <1>6 DEF SandboxInv, Good

LEMMA SandboxInvStep == SandboxInv /\ [SandboxNext]_sandboxVars => SandboxInv'
  <1> SUFFICES ASSUME SandboxInv, [SandboxNext]_sandboxVars PROVE SandboxInv'
    OBVIOUS
  <1>0. /\ Good(document) /\ \A t \in Tabs : Good(view[t])
        /\ \A t \in Tabs : editor[t] # Nothing => Good(editor[t])
    BY DEF SandboxInv
  <1>1. ASSUME NEW t \in Tabs, RenderPage(t) PROVE SandboxInv'
    <2>1. /\ view' = [view EXCEPT ![t] = document] /\ document' = document /\ editor' = editor
      BY <1>1 DEF RenderPage
    <2>2. document \in SandboxDocument
      BY <1>0 DEF Good
    <2>3. /\ view' \in [Tabs -> SandboxDocument]
          /\ \A u \in Tabs : view'[u] = IF u = t THEN document ELSE view[u]
      BY <2>1, <2>2 DEF SandboxInv
    <2>4. Good(document') /\ \A u \in Tabs : Good(view'[u])
      BY <1>0, <2>1, <2>3
    <2>5. \A u \in Tabs : editor'[u] # Nothing => Good(editor'[u])
      BY <1>0, <2>1
    <2> QED BY <2>1, <2>3, <2>4, <2>5 DEF SandboxInv, Good
  <1>2. ASSUME NEW t \in Tabs, ResetSandbox(t) PROVE SandboxInv'
    BY <1>2, SeedIsGood, SaveKeepsGood DEF ResetSandbox
  <1>3. ASSUME NEW t \in Tabs, NEW c \in NewCars, NEW slot \in BOOLEAN, Register(t, c, slot)
        PROVE  SandboxInv'
    <2> DEFINE e == [view[t] EXCEPT !.cars      = Unshift(c, @),
                                    !.status[c] = IF slot THEN "In yard" ELSE "Received",
                                    !.audit     = @ + 1]
    <2>1. SaveAndRender(t, e)
      BY <1>3 DEF Register
    <2>2. Good(e)
      BY <1>0, RegisterChange DEF Cars
    <2> HIDE DEF e
    <2> QED BY <2>1, <2>2, SaveKeepsGood
  <1>4. ASSUME NEW t \in Tabs, NEW c \in Cars, AddHold(t, c) PROVE SandboxInv'
    <2> DEFINE e == [view[t] EXCEPT !.holds     = Unshift([car |-> c, active |-> TRUE], @),
                                    !.status[c] = "Hold",
                                    !.audit     = @ + 1]
    <2>1. SaveAndRender(t, e)
      BY <1>4 DEF AddHold
    <2>2. Good(e)
      BY <1>0, HoldChange
    <2> HIDE DEF e
    <2> QED BY <2>1, <2>2, SaveKeepsGood
  <1>5. ASSUME NEW t \in Tabs, NEW c \in Cars, NEW kind \in GateKind, GateAction(t, c, kind)
        PROVE  SandboxInv'
    <2> DEFINE e == [document EXCEPT
                        !.gates     = Unshift([car |-> c, kind |-> kind], @),
                        !.status[c] = IF kind = "Gate-Out" THEN "Dispatched" ELSE "In yard",
                        !.audit     = @ + 1]
    <2>1. SaveAndRender(t, e)
      BY <1>5 DEF GateAction
    <2>2. Good(e)
      BY <1>0, GateChange
    <2> HIDE DEF e
    <2> QED BY <2>1, <2>2, SaveKeepsGood
  <1>6. ASSUME NEW t \in Tabs, NEW c \in Cars, PrepareLoad(t, c) PROVE SandboxInv'
    <2> DEFINE e == [view[t] EXCEPT !.loads = @ + 1, !.status[c] = "Ready"]
    <2>1. SaveAndRender(t, e)
      BY <1>6 DEF PrepareLoad
    <2>2. Good(e)
      BY <1>0, LoadChange
    <2> HIDE DEF e
    <2> QED BY <2>1, <2>2, SaveKeepsGood
  <1>7. ASSUME NEW t \in Tabs, NEW i \in 1..(MaxChanges + 1), ClearHold(t, i)
        PROVE  SandboxInv'
    <2> DEFINE e == [view[t] EXCEPT !.holds[i].active              = FALSE,
                                    !.status[view[t].holds[i].car] = "In yard"]
    <2>1. SaveAndRender(t, e) /\ i \in 1..Len(view[t].holds)
      BY <1>7 DEF ClearHold
    <2>2. Good(e)
      BY <1>0, <2>1, ClearChange
    <2> HIDE DEF e
    <2> QED BY <2>1, <2>2, SaveKeepsGood
  <1>8. ASSUME NEW t \in Tabs, NEW l \in Lists, FileRow(t, l) PROVE SandboxInv'
    <2> DEFINE e == [view[t] EXCEPT !.filed[l] = @ + 1,
                                    !.audit    = IF l = "inspection" THEN @ + 1 ELSE @]
    <2>1. SaveAndRender(t, e)
      BY <1>8 DEF FileRow
    <2>2. Good(e)
      BY <1>0, RowChange
    <2> HIDE DEF e
    <2> QED BY <2>1, <2>2, SaveKeepsGood
  <1>9. ASSUME NEW t \in Tabs, NEW c \in Cars, BeginEdit(t, c) PROVE SandboxInv'
    <2>1. /\ editor' = [editor EXCEPT ![t] = document] /\ document' = document /\ view' = view
      BY <1>9 DEF BeginEdit
    <2>2. document \in SandboxDocument
      BY <1>0 DEF Good
    <2>3. /\ editor' \in [Tabs -> SandboxDocument \cup {Nothing}]
          /\ \A u \in Tabs : editor'[u] = IF u = t THEN document ELSE editor[u]
      BY <2>1, <2>2 DEF SandboxInv
    <2>4. \A u \in Tabs : editor'[u] # Nothing => Good(editor'[u])
      BY <1>0, <2>3
    <2>5. Good(document') /\ \A u \in Tabs : Good(view'[u])
      BY <1>0, <2>1
    <2> QED BY <2>1, <2>3, <2>4, <2>5 DEF SandboxInv, Good
  <1>10. ASSUME NEW t \in Tabs, FinishEdit(t) PROVE SandboxInv'
    <2> DEFINE e == [editor[t] EXCEPT !.audit = @ + 1]
    <2>1. SaveAndRender(t, e) /\ editor[t] # Nothing
      BY <1>10 DEF FinishEdit
    <2>2. Good(e)
      BY <1>0, <2>1, EditChange
    <2> HIDE DEF e
    <2> QED BY <2>1, <2>2, SaveKeepsGood
  <1>11. ASSUME NEW t \in Tabs, CancelEdit(t) PROVE SandboxInv'
    <2>1. /\ editor' = [editor EXCEPT ![t] = Nothing] /\ document' = document /\ view' = view
      BY <1>11 DEF CancelEdit
    <2>2. /\ editor' \in [Tabs -> SandboxDocument \cup {Nothing}]
          /\ \A u \in Tabs : editor'[u] = IF u = t THEN Nothing ELSE editor[u]
      BY <2>1 DEF SandboxInv
    <2>3. \A u \in Tabs : editor'[u] # Nothing => Good(editor'[u])
      BY <1>0, <2>2
    <2>4. Good(document') /\ \A u \in Tabs : Good(view'[u])
      BY <1>0, <2>1
    <2> QED BY <2>1, <2>2, <2>3, <2>4 DEF SandboxInv, Good
  <1>12. CASE UNCHANGED sandboxVars
    BY <1>0, <1>12 DEF sandboxVars, SandboxInv, Good
  <1> QED BY <1>1, <1>2, <1>3, <1>4, <1>5, <1>6, <1>7, <1>8, <1>9, <1>10, <1>11, <1>12
          DEF SandboxNext

LEMMA InPlayIsGood == ASSUME SandboxInv, NEW d \in InPlay PROVE Good(d)
  BY DEF SandboxInv, InPlay

\* Every button saves one change, and none when the bound is reached.
ChangesCounted == changes \in 0..MaxChanges

LEMMA ChangesStep == ChangesCounted /\ [SandboxNext]_sandboxVars => ChangesCounted'
  <1> SUFFICES ASSUME ChangesCounted, [SandboxNext]_sandboxVars PROVE ChangesCounted'
    OBVIOUS
  <1>1. ASSUME NEW t, NEW d, SaveAndRender(t, d) PROVE ChangesCounted'
    BY <1>1, MaxChangesAssumption DEF SaveAndRender, ChangesCounted
  <1>2. CASE UNCHANGED changes
    BY <1>2 DEF ChangesCounted
  <1>3. ASSUME NEW t \in Tabs, NEW c \in Cars,
               \/ AddHold(t, c) \/ \E kind \in GateKind : GateAction(t, c, kind)
               \/ PrepareLoad(t, c) \/ BeginEdit(t, c)
        PROVE  ChangesCounted'
    BY <1>1, <1>2, <1>3 DEF AddHold, GateAction, PrepareLoad, BeginEdit
  <1>4. ASSUME NEW t \in Tabs,
               \/ RenderPage(t) \/ ResetSandbox(t) \/ FinishEdit(t) \/ CancelEdit(t)
               \/ \E c \in NewCars, slot \in BOOLEAN : Register(t, c, slot)
               \/ \E i \in 1..(MaxChanges + 1) : ClearHold(t, i)
               \/ \E l \in Lists : FileRow(t, l)
        PROVE  ChangesCounted'
    BY <1>1, <1>2, <1>4
    DEF RenderPage, ResetSandbox, FinishEdit, CancelEdit, Register, ClearHold, FileRow
  <1> QED BY <1>2, <1>3, <1>4 DEF SandboxNext, sandboxVars

LEMMA SandboxTyped == SandboxInv /\ ChangesCounted => SandboxTypeOK
  BY DEF SandboxInv, Good, ChangesCounted, SandboxTypeOK

\* Every document stored, captured by a page or held by an editor has the shape
\* render expects, whatever the tabs save over each other (demo-sandbox.js).
THEOREM SandboxTyping == SandboxSpec => []SandboxTypeOK
  <1>1. SandboxInit => ChangesCounted
    BY MaxChangesAssumption DEF SandboxInit, ChangesCounted
  <1> QED BY <1>1, ChangesStep, SandboxTyped, SandboxInvInit, SandboxInvStep, PTL DEF SandboxSpec

\* Nobody sees a vehicle on hold that nothing holds, whatever tabs overwrite
\* (the hold form, its Clear button, gateAction of demo-sandbox.js).
THEOREM HoldsAreActive == SandboxSpec => []HoldStatusHasActiveHold
  <1>1. SandboxInv => HoldStatusHasActiveHold
    BY InPlayIsGood DEF Good, ActiveHold, HoldStatusHasActiveHold
  <1> QED BY <1>1, SandboxInvInit, SandboxInvStep, PTL DEF SandboxSpec

\* A dispatched vehicle went out last, by the gate rows of the same document
\* (gateAction, the editor and Reset of demo-sandbox.js).
THEOREM GateRowsMatch == SandboxSpec => []GateTrailMatches
  <1>1. SandboxInv => GateTrailMatches
    BY InPlayIsGood DEF Good, LeftLast, GateTrailMatches
  <1> QED BY <1>1, SandboxInvInit, SandboxInvStep, PTL DEF SandboxSpec
=============================================================================
