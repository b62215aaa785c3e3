---------------------------- MODULE DialogProofs ----------------------------
(***************************************************************************)
(* The two dialogs whose answers come late, for any vehicles, tabs, texts  *)
(* and calls out: the dispatch desk of the static demo and the operations  *)
(* center of the web client.  Each property is inductive once the state is *)
(* typed: what it says of the calls still out is all an answer relies on.  *)
(***************************************************************************)
EXTENDS DispatchDesk, OpsCenter, TLAPS

-----------------------------------------------------------------------------
(* The dispatch desk.                                                      *)

\* A row of one more vehicle, or of another status, keeps a list one.
LEMMA CandidateMarked ==
  ASSUME NEW rows \in UNION {[S -> RowStatus] : S \in SUBSET DeskCars}, NEW c
  PROVE  [rows EXCEPT ![c] = "ReadyForDispatch"] \in UNION {[S -> RowStatus] : S \in SUBSET DeskCars}
  <1>1. PICK S \in SUBSET DeskCars : rows \in [S -> RowStatus]
    OBVIOUS
  <1>2. [rows EXCEPT ![c] = "ReadyForDispatch"] \in [S -> RowStatus]
    BY <1>1 DEF RowStatus
  <1> QED BY <1>2

LEMMA DemoDataTyped ==
  ASSUME DeskTypeOK
  PROVE  DemoData \in UNION {[S -> RowStatus] : S \in SUBSET DeskCars}
  <1> DEFINE S == {d \in DeskCars : exits1[d] # "Dispatched"}
  <1>1. DemoData \in [S -> RowStatus] /\ S \in SUBSET DeskCars
    BY DEF DemoData, DeskTypeOK, DeskStatus, RowStatus
  <1> QED BY <1>1

LEMMA DeskTypingInit == DeskInit => DeskTypeOK
  <1> SUFFICES ASSUME DeskInit PROVE DeskTypeOK
    OBVIOUS
  <1>1. [c \in {} |-> "InYard"] \in [{} -> RowStatus] /\ {} \in SUBSET DeskCars
    OBVIOUS
  <1>2. candidates \in UNION {[S -> RowStatus] : S \in SUBSET DeskCars}
    BY <1>1, Zenon DEF DeskInit
  <1>3. 0 \in 0..MaxCalls
    BY MaxCallsAssumption
  <1>4. completes \in [DeskCars -> 0..MaxCalls]
    BY <1>3 DEF DeskInit
  <1> QED BY <1>2, <1>3, <1>4, FirstExitsAssumption DEF DeskInit, DeskTypeOK, DeskStatus

LEMMA RowsStep ==
  ASSUME DeskTypeOK, [DeskNext]_deskVars
  PROVE  (candidates \in UNION {[S -> RowStatus] : S \in SUBSET DeskCars})'
  <1>0. candidates \in UNION {[S -> RowStatus] : S \in SUBSET DeskCars}
    BY DEF DeskTypeOK
  <1>1. CASE LoadFails
    BY <1>1, DemoDataTyped DEF LoadFails
  <1>2. CASE PrepareFails
    BY <1>0, <1>2, CandidateMarked DEF PrepareFails
  <1>3. CASE UNCHANGED candidates
    BY <1>0, <1>3
  <1> QED
    BY <1>1, <1>2, <1>3
    DEF DeskNext, DeskAnswer, OpenDesk, SelectRow, PrepareRow, ConfirmExit, ExitFails, deskVars

\* The rest of DeskTypeOK: the calls out, the selection and the stored vehicles.
DeskCounts ==
    /\ exits1 \in [DeskCars -> DeskStatus]
    /\ selected \in DeskCars \cup {Nothing}
    /\ listed \in BOOLEAN
    /\ loads \in 0..MaxCalls
    /\ prepares \in 0..MaxCalls
    /\ completes \in [DeskCars -> 0..MaxCalls]
    /\ strayed \in BOOLEAN

LEMMA DeskCountsStep == DeskCounts /\ [DeskNext]_deskVars => DeskCounts'
  <1> SUFFICES ASSUME DeskCounts, [DeskNext]_deskVars PROVE DeskCounts'
    OBVIOUS
  <1>1. CASE OpenDesk \/ LoadFails \/ PrepareFails
    <2>1. loads' \in 0..MaxCalls /\ prepares' \in 0..MaxCalls
      BY <1>1, MaxCallsAssumption DEF OpenDesk, LoadFails, PrepareFails, DeskCounts
    <2>2. listed' \in BOOLEAN /\ strayed' \in BOOLEAN
      BY <1>1, Zenon DEF OpenDesk, LoadFails, PrepareFails, DeskCounts
    <2> QED BY <1>1, <2>1, <2>2 DEF OpenDesk, LoadFails, PrepareFails, DeskCounts
  <1>2. ASSUME NEW c \in DeskCars, SelectRow(c) \/ PrepareRow(c) PROVE DeskCounts'
    <2>1. prepares' \in 0..MaxCalls
      BY <1>2, MaxCallsAssumption DEF SelectRow, PrepareRow, DeskCounts
    <2>2. strayed' \in BOOLEAN
      BY <1>2, Zenon DEF SelectRow, PrepareRow
    <2> QED BY <1>2, <2>1, <2>2 DEF SelectRow, PrepareRow, DeskCounts
  <1>3. CASE ConfirmExit
    <2>1. /\ selected \in DeskCars /\ completes[selected] \in 0..MaxCalls
          /\ completes' = [completes EXCEPT ![selected] = completes[selected] + 1]
          /\ completes[selected] < MaxCalls
      BY <1>3 DEF ConfirmExit, DeskCounts
    <2>2. completes' \in [DeskCars -> 0..MaxCalls]
      BY <2>1, MaxCallsAssumption DEF DeskCounts
    <2> QED BY <1>3, <2>2 DEF ConfirmExit, DeskCounts
  <1>4. ASSUME NEW c \in DeskCars, ExitFails(c) PROVE DeskCounts'
    <2>1. completes[c] \in 0..MaxCalls /\ completes[c] > 0
      BY <1>4 DEF ExitFails, DeskCounts
    <2>2. completes' = [completes EXCEPT ![c] = completes[c] - 1]
      BY <1>4 DEF ExitFails
    <2>3. completes' \in [DeskCars -> 0..MaxCalls]
      BY <2>1, <2>2, MaxCallsAssumption DEF DeskCounts
    <2>4. exits1' \in [DeskCars -> DeskStatus]
      BY <1>4 DEF ExitFails, DeskCounts, DeskStatus
    <2>5. loads' \in 0..MaxCalls
      BY <1>4, MaxCallsAssumption DEF ExitFails, DeskCounts
    <2>6. strayed' \in BOOLEAN
      BY <1>4, Zenon DEF ExitFails, DeskCounts
    <2> QED BY <1>4, <2>3, <2>4, <2>5, <2>6 DEF ExitFails, DeskCounts
  <1>5. CASE UNCHANGED deskVars
    BY <1>5 DEF deskVars, DeskCounts
  <1> QED BY <1>1, <1>2, <1>3, <1>4, <1>5 DEF DeskNext, DeskAnswer

LEMMA DeskTypingStep == DeskTypeOK /\ [DeskNext]_deskVars => DeskTypeOK'
  BY RowsStep, DeskCountsStep, Zenon DEF DeskTypeOK, DeskCounts

\* Rows, calls and the stored vehicles stay what the dialog and the next visit
\* can read, in whatever order the answers come (dispatch-form.js).
THEOREM DeskTyping == DeskSpec => []DeskTypeOK
  BY DeskTypingInit, DeskTypingStep, PTL DEF DeskSpec

\* Until another row is picked, every exit out is that of the row selected.
OutIsSelected ==
    ~strayed => \A c \in DeskCars : completes[c] > 0 => selected \in {Nothing, c}

DeskInv == DeskTypeOK /\ OutIsSelected

\* What one step may do to the stored vehicles.
ConfirmedOnly ==
    ~strayed =>
        \A c \in DeskCars :
            exits1[c] # exits1'[c] => completes[c] > 0 /\ completes'[c] < completes[c]

\* A click on a row keeps the invariant, as it strays when an exit is out.
LEMMA PickKeepsInv ==
  ASSUME DeskInv, NEW c \in DeskCars, SelectRow(c) \/ PrepareRow(c)
  PROVE  OutIsSelected' /\ ConfirmedOnly
  <1>1. /\ strayed' = (strayed \/ Out) /\ selected' = c
        /\ UNCHANGED <<completes, exits1>>
    BY DEF SelectRow, PrepareRow
  <1> QED BY <1>1 DEF OutIsSelected, Out, ConfirmedOnly

\* The answer of an exit moves one vehicle, and selects nothing.
LEMMA AnswerKeepsInv ==
  ASSUME DeskInv, NEW c \in DeskCars, ExitFails(c)
  PROVE  OutIsSelected' /\ ConfirmedOnly
  <1>1. completes[c] \in Nat /\ completes[c] > 0
    BY MaxCallsAssumption DEF DeskInv, DeskTypeOK, ExitFails
  <1>2. completes' = [completes EXCEPT ![c] = completes[c] - 1]
    BY DEF ExitFails
  <1>3. completes[c] - 1 < completes[c]
    BY ONLY <1>1
  <1>4. OutIsSelected'
    BY DEF ExitFails, OutIsSelected
  <1>5. ConfirmedOnly
    <2> SUFFICES ASSUME ~strayed, NEW d \in DeskCars, exits1[d] # exits1'[d]
                 PROVE  completes[d] > 0 /\ completes'[d] < completes[d]
      BY DEF ConfirmedOnly
    <2>1. d = selected
      BY DEF ExitFails
    <2>2. selected \in {Nothing, c}
      BY <1>1 DEF DeskInv, OutIsSelected
    <2>3. d = c
      BY <2>1, <2>2, NothingIsNoCar
    <2> QED BY <1>1, <1>2, <1>3, <2>3 DEF DeskInv, DeskTypeOK
  <1> QED BY <1>4, <1>5

LEMMA DeskStep == DeskInv /\ [DeskNext]_deskVars => DeskInv' /\ ConfirmedOnly
  <1> SUFFICES ASSUME DeskInv, [DeskNext]_deskVars PROVE OutIsSelected' /\ ConfirmedOnly
    BY DeskTypingStep DEF DeskInv
  <1>1. CASE ConfirmExit
    <2>1. selected \in DeskCars /\ completes' = [completes EXCEPT ![selected] = @ + 1]
      BY <1>1 DEF ConfirmExit, DeskInv, DeskTypeOK
    <2>2. OutIsSelected'
      BY <1>1, <2>1 DEF ConfirmExit, DeskInv, DeskTypeOK, OutIsSelected
    <2> QED BY <1>1, <2>2 DEF ConfirmExit, ConfirmedOnly
  <1>2. CASE OpenDesk \/ LoadFails \/ PrepareFails \/ UNCHANGED deskVars
    BY <1>2 DEF OpenDesk, LoadFails, PrepareFails, deskVars, DeskInv, OutIsSelected, ConfirmedOnly
  <1> QED BY <1>1, <1>2, PickKeepsInv, AnswerKeepsInv DEF DeskNext, DeskAnswer

\* Only the vehicle whose exit was confirmed is stored as gone, if no other row
\* was picked while the call was out (completeDispatch of dispatch-form.js).
THEOREM ExitOfTheConfirmed == DeskSpec => ExitIsTheConfirmedOne
  <1>1. DeskInit => DeskInv
    BY DeskTypingInit DEF DeskInit, DeskInv, OutIsSelected
  <1>2. ConfirmedOnly =>
            [~strayed =>
                \A c \in DeskCars :
                    exits1[c] # exits1'[c] =>
                        completes[c] > 0 /\ completes'[c] < completes[c]]_deskVars
    BY DEF ConfirmedOnly
  <1> QED BY <1>1, <1>2, DeskStep, PTL DEF DeskSpec, ExitIsTheConfirmedOne

-----------------------------------------------------------------------------
(* The operations center.                                                  *)

LEMMA ClickTyped ==
  ASSUME clicks \in 0..MaxClicks, NextClick
  PROVE  clicks' \in 0..MaxClicks /\ clicks' \in 1..MaxClicks
  BY OpsBounds DEF NextClick

\* The click that makes a call numbers it.
LEMMA CallsTyped ==
  ASSUME OpsTypeOK, NextClick, NEW tab \in OpsTabs, NEW step \in Step, CallOut(tab, step)
  PROVE  calls' \subseteq Call
  <1>1. clicks' \in 1..MaxClicks
    BY ClickTyped DEF OpsTypeOK
  <1>2. [tab |-> tab, step |-> step, click |-> clicks'] \in Call
    BY <1>1 DEF Call
  <1> QED BY <1>1, <1>2 DEF OpsTypeOK, CallOut

LEMMA GoOnTyped ==
  ASSUME OpsTypeOK, NEW c \in calls, NEW step \in Step, GoOn(c, step)
  PROVE  /\ calls' \subseteq Call
         /\ \E d \in calls' : d.step = step /\ d.tab = c.tab
  <1> DEFINE next == [c EXCEPT !.step = step]
  <1>1. c \in Call
    BY DEF OpsTypeOK
  <1>2. next \in Call /\ next.step = step /\ next.tab = c.tab
    BY <1>1 DEF Call
  <1>3. calls' = (calls \ {c}) \cup {next}
    BY DEF GoOn
  <1> HIDE DEF next
  <1> QED BY <1>2, <1>3 DEF OpsTypeOK

LEMMA LandTyped == ASSUME OpsTypeOK, NEW c, Land(c) PROVE calls' \subseteq Call
  BY DEF OpsTypeOK, Land

LEMMA WriteTyped ==
  ASSUME OpsTypeOK, NEW tab \in OpsTabs, NEW state \in {"form", "rows", "error"}, Write(tab, state)
  PROVE  body' \in Body /\ overtaken' \in BOOLEAN
  <1>1. body' \in Body
    BY DEF Write, Body
  <1>2. overtaken' \in BOOLEAN
    BY Zenon DEF Write
  <1> QED BY <1>1, <1>2

LEMMA OpsTypingInit == OpsInit => OpsTypeOK
  <1> SUFFICES ASSUME OpsInit PROVE OpsTypeOK
    OBVIOUS
  <1>1. "vehicles" \in OpsTabs /\ 0 \in 0..MaxClicks
    BY OpsTabsAssumption, OpsBounds DEF OpsTabs
  <1>2. body \in Body
    BY <1>1 DEF OpsInit, Body
  <1> QED BY <1>1, <1>2 DEF OpsInit, OpsTypeOK

\* A step on the tabs is typed when what it writes is; the search is not touched.
DialogTyped ==
    /\ active \in OpsTabs
    /\ body \in Body
    /\ calls \subseteq Call
    /\ clicks \in 0..MaxClicks
    /\ overtaken \in BOOLEAN

LEMMA TabStepTyped ==
  ASSUME OpsTypeOK, DialogTyped', UNCHANGED searchVars PROVE OpsTypeOK'
  BY DEF OpsTypeOK, DialogTyped, searchVars

LEMMA SearchStepTyped ==
  ASSUME OpsTypeOK,
         \/ \E text \in Texts : TypeSearch(text)
         \/ \E a \in asked : SearchAnswers(a) \/ SearchFails(a)
  PROVE  OpsTypeOK'
  <1>1. ASSUME NEW text \in Texts, TypeSearch(text) PROVE OpsTypeOK'
    <2>1. clicks' \in 0..MaxClicks /\ clicks' \in 1..MaxClicks
      BY <1>1, ClickTyped DEF TypeSearch, OpsTypeOK
    <2>2. asked' \subseteq Search
      <3> DEFINE new == [text |-> text, click |-> clicks']
      <3>1. new \in Search
        BY <2>1 DEF Search
      <3>2. asked' = asked \cup {new}
        BY <1>1 DEF TypeSearch
      <3> HIDE DEF new
      <3> QED BY <3>1, <3>2 DEF OpsTypeOK
    <2>3. UNCHANGED <<active, body, calls, overtaken, cached>>
      BY <1>1 DEF TypeSearch
    <2> QED BY <2>1, <2>2, <2>3 DEF OpsTypeOK
  <1>2. ASSUME NEW a \in asked, SearchAnswers(a) \/ SearchFails(a) PROVE OpsTypeOK'
    <2>1. a \in Search /\ SearchLands(a)
      BY <1>2 DEF SearchAnswers, SearchFails, OpsTypeOK
    <2>2. cached' \in Texts \cup {"", Failed}
      BY <1>2, <2>1 DEF SearchAnswers, SearchFails, Search
    <2>3. asked' \subseteq Search
      BY <2>1 DEF SearchLands, OpsTypeOK
    <2> QED BY <2>1, <2>2, <2>3 DEF SearchLands, OpsTypeOK
  <1> QED BY <1>1, <1>2

LEMMA OpsTypingStep == OpsTypeOK /\ [OpsNext]_opsVars => OpsTypeOK'
  <1> SUFFICES ASSUME OpsTypeOK, [OpsNext]_opsVars PROVE OpsTypeOK'
    OBVIOUS
  <1>0. /\ DialogTyped
        /\ \A c \in calls : c \in Call /\ c.tab \in OpsTabs
        /\ body.tab \in OpsTabs
        /\ NextClick => clicks' \in 0..MaxClicks
    <2>1. DialogTyped
      BY DEF OpsTypeOK, DialogTyped
    <2> QED BY <2>1, ClickTyped DEF DialogTyped, Call, Body
  <1>1. ASSUME NEW tab \in OpsTabs, ClickTab(tab) PROVE OpsTypeOK'
    <2>1. calls' \subseteq Call
      <3>1. CASE tab \in FetchedTabs
        BY <1>1, <3>1, CallsTyped DEF ClickTab, Step
      <3>2. CASE tab \notin FetchedTabs /\ tab \in RowsTabs
        BY <1>1, <3>2, CallsTyped DEF ClickTab, Step
      <3>3. CASE tab \notin FetchedTabs \cup RowsTabs
        BY <1>1, <3>3 DEF ClickTab, OpsTypeOK
      <3> QED BY <3>1, <3>2, <3>3
    <2>2. DialogTyped'
      BY <1>0, <1>1, <2>1 DEF ClickTab, DialogTyped, Body
    <2> QED BY <1>1, <2>2, TabStepTyped DEF ClickTab
  <1>2. CASE ClickAdd
    <2>1. calls' \subseteq Call
      BY <1>0, <1>2, CallsTyped DEF ClickAdd, Step
    <2>2. DialogTyped'
      BY <1>0, <1>2, <2>1 DEF ClickAdd, DialogTyped
    <2> QED BY <1>2, <2>2, TabStepTyped DEF ClickAdd
  <1>3. ASSUME NEW c \in calls, TabCallFails(c) \/ RowsArrive(c) PROVE OpsTypeOK'
    <2>1. \E state \in {"form", "rows", "error"} : Write(c.tab, state)
      BY <1>3 DEF TabCallFails, RowsArrive
    <2>2. Land(c) /\ UNCHANGED <<active, clicks, searchVars>>
      BY <1>3 DEF TabCallFails, RowsArrive
    <2>3. DialogTyped'
      BY <1>0, <2>1, <2>2, LandTyped, WriteTyped DEF DialogTyped
    <2> QED BY <2>2, <2>3, TabStepTyped
  <1>4. ASSUME NEW c \in calls, TabDrawn(c) PROVE OpsTypeOK'
    <2>1. calls' \subseteq Call
      BY <1>4, GoOnTyped, LandTyped DEF TabDrawn, Step
    <2>2. DialogTyped'
      BY <1>0, <1>4, <2>1, WriteTyped DEF TabDrawn, DialogTyped
    <2> QED BY <1>4, <2>2, TabStepTyped DEF TabDrawn
  <1>5. ASSUME NEW c \in calls, AddAnswers(c) PROVE OpsTypeOK'
    <2>1. calls' \subseteq Call
      BY <1>5, GoOnTyped, LandTyped DEF AddAnswers, Step
    <2>2. active' \in OpsTabs /\ overtaken' \in BOOLEAN
      BY <1>0, <1>5 DEF AddAnswers, DialogTyped
    <2>3. body' \in Body
      BY <1>0, <1>5 DEF AddAnswers, DialogTyped, Body
    <2>4. DialogTyped'
      BY <1>0, <1>5, <2>1, <2>2, <2>3 DEF AddAnswers, DialogTyped
    <2> QED BY <1>5, <2>4, TabStepTyped DEF AddAnswers
  <1>6. ASSUME NEW c \in calls, AddFails(c) PROVE OpsTypeOK'
    <2>1. DialogTyped'
      BY <1>0, <1>6, LandTyped DEF AddFails, DialogTyped
    <2> QED BY <1>6, <2>1, TabStepTyped DEF AddFails
  <1>7. CASE UNCHANGED opsVars
    BY <1>7 DEF opsVars, OpsTypeOK
  <1> QED BY <1>1, <1>2, <1>3, <1>4, <1>5, <1>6, <1>7, SearchStepTyped DEF OpsNext

\* Whatever is clicked and in whatever order the answers come, the dialog shows
\* one of its tabs and every call out is for one (renderTab, refreshVehicles).
THEOREM OpsTyping == OpsSpec => []OpsTypeOK
  BY OpsTypingInit, OpsTypingStep, PTL DEF OpsSpec

OpsInv == OpsTypeOK /\ BodyMatchesTab

LEMMA OpsInvInit == OpsInit => OpsInv
  <1> SUFFICES ASSUME OpsInit PROVE BodyMatchesTab
    BY OpsTypingInit DEF OpsInv
  <1>1. body.tab = active
    BY DEF OpsInit
  <1> QED BY <1>1 DEF BodyMatchesTab

\* A search leaves the tabs alone.
LEMMA SearchStep ==
  ASSUME OpsInv,
         \/ \E text \in Texts : TypeSearch(text)
         \/ \E a \in asked : SearchAnswers(a) \/ SearchFails(a)
  PROVE  BodyMatchesTab'
  <1>1. UNCHANGED <<active, body, calls, overtaken>>
    BY DEF TypeSearch, SearchAnswers, SearchFails, SearchLands
  <1> QED BY <1>1 DEF OpsInv, BodyMatchesTab

LEMMA OpsInvStep == OpsInv /\ [OpsNext]_opsVars => OpsInv'
  <1> SUFFICES ASSUME OpsInv, [OpsNext]_opsVars PROVE BodyMatchesTab'
    BY OpsTypingStep DEF OpsInv
  <1> USE DEF OpsInv
  <1>1. ASSUME NEW tab \in OpsTabs, ClickTab(tab) PROVE BodyMatchesTab'
    <2>1. CASE tab \in FetchedTabs
      <3> DEFINE new == [tab |-> tab, step |-> "draw", click |-> clicks']
      <3>1. new \in calls' /\ new.step = "draw" /\ new.tab = tab /\ active' = tab
        BY <1>1, <2>1 DEF ClickTab, CallOut
      <3> HIDE DEF new
      <3> QED BY <3>1 DEF BodyMatchesTab
    <2>2. CASE tab \notin FetchedTabs
      BY <1>1, <2>2 DEF ClickTab, BodyMatchesTab
    <2> QED BY <2>1, <2>2
  <1>2. CASE ClickAdd
    BY <1>2 DEF ClickAdd, CallOut, BodyMatchesTab
  <1>3. ASSUME NEW c \in calls, TabCallFails(c) \/ TabDrawn(c) \/ RowsArrive(c)
        PROVE  BodyMatchesTab'
    <2>1. \E state \in {"form", "rows", "error"} : Write(c.tab, state)
      BY <1>3 DEF TabCallFails, TabDrawn, RowsArrive
    <2>2. body'.tab = c.tab /\ overtaken' = (overtaken \/ c.tab # active) /\ active' = active
      BY <1>3, <2>1 DEF Write, TabCallFails, TabDrawn, RowsArrive
    <2> QED BY <2>2, Zenon DEF BodyMatchesTab
  <1>4. ASSUME NEW c \in calls, AddAnswers(c) PROVE BodyMatchesTab'
    <2>1. body'.tab = body.tab
      BY <1>4 DEF AddAnswers, OpsTypeOK, Body
    <2>2. CASE c.tab = "manifest"
      <3>1. GoOn(c, "draw") /\ active' = "manifest" /\ "draw" \in Step
        BY <1>4, <2>2 DEF AddAnswers, Step
      <3> QED BY <2>2, <3>1, GoOnTyped DEF BodyMatchesTab
    <2>3. CASE c.tab # "manifest"
      BY <1>4, <2>1, <2>3 DEF AddAnswers, Land, BodyMatchesTab
    <2> QED BY <2>2, <2>3
  <1>5. ASSUME NEW c \in calls, AddFails(c) PROVE BodyMatchesTab'
    BY <1>5 DEF AddFails, Land, BodyMatchesTab
  <1>6. CASE UNCHANGED opsVars
    BY <1>6 DEF opsVars, BodyMatchesTab
  <1> QED BY <1>1, <1>2, <1>3, <1>4, <1>5, <1>6, SearchStep DEF OpsNext

\* No click on a tab is lost, except as far as late answers overtake
\* (renderTab of operations-center.js).
THEOREM DialogFollows == OpsSpec => []BodyMatchesTab
  <1>1. OpsInv => BodyMatchesTab
    BY DEF OpsInv
  <1> QED BY <1>1, OpsInvInit, OpsInvStep, PTL DEF OpsSpec
=============================================================================
