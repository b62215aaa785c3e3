---------------------------- MODULE StudioProofs ----------------------------
(***************************************************************************)
(* The tally and the register of the studio, for any tabs, any ids and any *)
(* number of forms.  A tab adopts what another has stored, so the tally is *)
(* inductive only with the same said of the stored state.                  *)
(***************************************************************************)
EXTENDS Studio, FiniteSetTheorems, TLAPS

Registers == UNION {[S -> StudioStatus] : S \in SUBSET StudioCars}

\* One copy of the state, typed, and with the tally that TallyCoversYard asks for.
Tallied(s) ==
    /\ s \in StudioState
    /\ Cardinality(StillThere(s.cars)) <= s.received
    /\ s.received <= Cardinality(DOMAIN s.cars)

StudioInv ==
    /\ studio \in [Tabs -> StudioState]
    /\ \A t \in Tabs : Tallied(studio[t])
    /\ studioStore # Nothing => Tallied(studioStore)

\* No id that may still be drawn is in any copy.
OnlyDrawn ==
    /\ \A t \in Tabs : DOMAIN studio[t].cars \subseteq drawn
    /\ studioStore # Nothing => DOMAIN studioStore.cars \subseteq drawn

\* What one step may do to the departed vehicles of a tab.
StayDeparted ==
    \A t \in Tabs :
        (~ReloadStudio(t) /\ ~ResetStudio(t)) =>
            \A c \in DOMAIN studio[t].cars :
                studio[t].cars[c] = "Dispatched" =>
                    /\ c \in DOMAIN studio'[t].cars
                    /\ studio'[t].cars[c] = "Dispatched"

LEMMA RegisterFacts ==
  ASSUME NEW cars \in Registers
  PROVE  /\ IsFiniteSet(DOMAIN cars) /\ IsFiniteSet(StillThere(cars))
         /\ Cardinality(DOMAIN cars) \in Nat /\ Cardinality(StillThere(cars)) \in Nat
         /\ Cardinality(StillThere(cars)) <= Cardinality(DOMAIN cars)
  <1>1. PICK S \in SUBSET StudioCars : cars \in [S -> StudioStatus]
    BY DEF Registers
  <1>2. IsFiniteSet(DOMAIN cars)
    BY <1>1, StudioCarsAssumption, FS_Subset
  <1>3. StillThere(cars) \in SUBSET DOMAIN cars
    BY DEF StillThere
  <1> QED BY <1>2, <1>3, FS_Subset, FS_CardinalityType

\* Counting again puts the tally right, for any register.
LEMMA CountedIsTallied == ASSUME NEW cars \in Registers PROVE Tallied(Counted(cars))
  <1>1. Counted(cars).cars = cars /\ Counted(cars).received = Cardinality(StillThere(cars))
    BY DEF Counted
  <1>2. Counted(cars) \in StudioState
    BY RegisterFacts DEF Counted, StudioState, Registers
  <1> QED BY <1>1, <1>2, RegisterFacts DEF Tallied

LEMMA RegisterOf == ASSUME NEW s \in StudioState PROVE s.cars \in Registers /\ s.received \in Nat
  BY DEF StudioState, Registers

\* A new vehicle, or a new status of one, keeps a register one.
LEMMA RegisterPlus ==
  ASSUME NEW cars \in Registers, NEW c \in StudioCars
  PROVE  [d \in DOMAIN cars \cup {c} |-> IF d = c THEN "Received" ELSE cars[d]] \in Registers
  <1> DEFINE more == [d \in DOMAIN cars \cup {c} |-> IF d = c THEN "Received" ELSE cars[d]]
  <1>1. PICK S \in SUBSET StudioCars : cars \in [S -> StudioStatus]
    BY DEF Registers
  <1>2. more \in [S \cup {c} -> StudioStatus] /\ S \cup {c} \in SUBSET StudioCars
    BY <1>1 DEF StudioStatus
  <1> QED BY <1>2 DEF Registers

\* Dispatching leaves the tally alone: fewer vehicles are still there, and the
\* register is no shorter.
LEMMA DispatchedIsTallied ==
  ASSUME NEW s, Tallied(s), NEW c \in StillThere(s.cars)
  PROVE  Tallied([s EXCEPT !.cars[c] = "Dispatched"])
  <1> DEFINE gone == [s.cars EXCEPT ![c] = "Dispatched"]
             after == [s EXCEPT !.cars[c] = "Dispatched"]
  <1>1. s \in StudioState /\ s.cars \in Registers /\ s.received \in Nat
    BY RegisterOf DEF Tallied
  <1>2. PICK S \in SUBSET StudioCars : s.cars \in [S -> StudioStatus]
    BY <1>1 DEF Registers
  <1>3. gone \in [S -> StudioStatus] /\ DOMAIN gone = DOMAIN s.cars
    BY <1>2 DEF StudioStatus
  <1>4. gone \in Registers
    BY <1>3 DEF Registers
  <1>5. after = [s EXCEPT !.cars = gone]
    OBVIOUS
  <1>6. after \in StudioState /\ after.cars = gone /\ after.received = s.received
    BY <1>1, <1>4, <1>5 DEF StudioState, Registers
  <1>7. StillThere(gone) \in SUBSET StillThere(s.cars)
    BY <1>2 DEF StillThere
  <1>8. Cardinality(StillThere(gone)) <= Cardinality(StillThere(s.cars))
    BY <1>1, <1>7, RegisterFacts, FS_Subset
  <1>9. /\ Cardinality(StillThere(gone)) \in Nat
        /\ Cardinality(StillThere(s.cars)) \in Nat
    BY <1>1, <1>4, RegisterFacts
  <1>10. Cardinality(StillThere(s.cars)) <= s.received
    BY DEF Tallied
  <1>11. Cardinality(StillThere(gone)) <= s.received
    BY ONLY <1>1, <1>8, <1>9, <1>10
  <1>12. s.received <= Cardinality(DOMAIN s.cars)
    BY DEF Tallied
  <1> HIDE DEF gone, after
  <1>13. Tallied(after)
    BY <1>3, <1>6, <1>11, <1>12 DEF Tallied
  <1> QED BY <1>13 DEF after

LEMMA DefaultsAreTallied == Tallied(StudioDefaults)
  <1>1. [c \in {} |-> "Received"] \in Registers
    <2>1. [c \in {} |-> "Received"] \in [{} -> StudioStatus]
      OBVIOUS
    <2> QED BY <2>1 DEF Registers
  <1>2. StillThere([c \in {} |-> "Received"]) = {}
    BY DEF StillThere
  <1>3. StudioDefaults = Counted([c \in {} |-> "Received"])
    BY <1>2, FS_EmptySet DEF StudioDefaults, Counted
  <1> QED BY <1>1, <1>3, CountedIsTallied

LEMMA StudioInvInit == StudioInit => StudioInv
  BY DefaultsAreTallied DEF StudioInit, StudioInv, Tallied

\* A form stores the copy of its tab, and so keeps the invariant if that is tallied.
LEMMA FormKeepsInv ==
  ASSUME StudioInv, NEW t \in Tabs, NEW s, Tallied(s), SubmitForm(t, s)
  PROVE  StudioInv'
  <1>1. studio' = [studio EXCEPT ![t] = s] /\ studioStore' = s
    BY DEF SubmitForm
  <1>2. s \in StudioState
    BY DEF Tallied
  <1>3. studio' \in [Tabs -> StudioState]
    BY <1>1, <1>2 DEF StudioInv
  <1>4. \A u \in Tabs : studio'[u] = IF u = t THEN s ELSE studio[u]
    BY <1>1 DEF StudioInv
  <1> QED BY <1>1, <1>3, <1>4 DEF StudioInv, Tallied

\* Loading again adopts the stored copy, or the defaults.
LEMMA LoadKeepsInv ==
  ASSUME StudioInv, NEW t \in Tabs, NEW s, Tallied(s),
         studio' = [studio EXCEPT ![t] = s], studioStore' \in {studioStore, Nothing}
  PROVE  StudioInv'
  <1>1. s \in StudioState
    BY DEF Tallied
  <1>2. studio' \in [Tabs -> StudioState]
    BY <1>1 DEF StudioInv
  <1>3. \A u \in Tabs : studio'[u] = IF u = t THEN s ELSE studio[u]
    BY DEF StudioInv
  <1> QED BY <1>2, <1>3 DEF StudioInv, Tallied

LEMMA StudioInvStep == StudioInv /\ [StudioNext]_studioVars => StudioInv'
  <1> SUFFICES ASSUME StudioInv, [StudioNext]_studioVars PROVE StudioInv'
    OBVIOUS
  <1>0. \A t \in Tabs : Tallied(studio[t]) /\ studio[t] \in StudioState
                        /\ studio[t].cars \in Registers
    BY RegisterOf DEF StudioInv
  <1>1. ASSUME NEW t \in Tabs, NEW c \in StudioCars, RegisterArrival(t, c) PROVE StudioInv'
    <2> DEFINE cars == studio[t].cars
               more == [d \in DOMAIN cars \cup {c} |-> IF d = c THEN "Received" ELSE cars[d]]
    <2>1. more \in Registers
      BY <1>0, RegisterPlus
    <2>2. SubmitForm(t, Counted(more))
      BY <1>1 DEF RegisterArrival
    <2> HIDE DEF more
    <2> QED BY <2>1, <2>2, CountedIsTallied, FormKeepsInv
  <1>2. ASSUME NEW t \in Tabs, NEW c \in StudioCars, EditRecord(t, c) PROVE StudioInv'
    BY <1>0, <1>2, CountedIsTallied, FormKeepsInv DEF EditRecord
  <1>3. ASSUME NEW t \in Tabs, NEW c \in StudioCars, DispatchRecord(t, c) PROVE StudioInv'
    <2>1. /\ c \in StillThere(studio[t].cars)
          /\ SubmitForm(t, [studio[t] EXCEPT !.cars[c] = "Dispatched"])
      BY <1>3 DEF DispatchRecord
    <2> QED BY <1>0, <2>1, DispatchedIsTallied, FormKeepsInv
  <1>4. ASSUME NEW t \in Tabs, ResetLicense(t) PROVE StudioInv'
    BY <1>0, <1>4, FormKeepsInv DEF ResetLicense
  <1>5. ASSUME NEW t \in Tabs, ReloadStudio(t) PROVE StudioInv'
    <2> DEFINE s == IF studioStore = Nothing THEN StudioDefaults ELSE studioStore
    <2>1. Tallied(s)
      BY DefaultsAreTallied DEF StudioInv
    <2>2. studio' = [studio EXCEPT ![t] = s] /\ studioStore' = studioStore
      BY <1>5 DEF ReloadStudio
    <2> HIDE DEF s
    <2> QED BY <2>1, <2>2, LoadKeepsInv
  <1>6. ASSUME NEW t \in Tabs, ResetStudio(t) PROVE StudioInv'
    BY <1>6, DefaultsAreTallied, LoadKeepsInv DEF ResetStudio
  <1>7. CASE UNCHANGED studioVars
    BY <1>7 DEF studioVars, StudioInv, Tallied
  <1> QED BY <1>1, <1>2, <1>3, <1>4, <1>5, <1>6, <1>7 DEF StudioNext

\* Ids drawn are ids, and every form is counted.
FormsCounted == drawn \subseteq StudioCars /\ forms \in 0..MaxForms

LEMMA FormsStep == FormsCounted /\ [StudioNext]_studioVars => FormsCounted'
  <1> SUFFICES ASSUME FormsCounted, [StudioNext]_studioVars PROVE FormsCounted'
    OBVIOUS
  <1>1. ASSUME NEW t, NEW s, SubmitForm(t, s), drawn' \subseteq StudioCars
        PROVE  FormsCounted'
    BY <1>1, MaxFormsAssumption DEF SubmitForm, FormsCounted
  <1>2. CASE UNCHANGED <<drawn, forms>>
    BY <1>2 DEF FormsCounted
  <1>3. ASSUME NEW t \in Tabs, NEW c \in StudioCars,
               RegisterArrival(t, c) \/ EditRecord(t, c) \/ DispatchRecord(t, c)
        PROVE  FormsCounted'
    BY <1>1, <1>3 DEF RegisterArrival, EditRecord, DispatchRecord, FormsCounted
  <1>4. ASSUME NEW t \in Tabs, ResetLicense(t) \/ ReloadStudio(t) \/ ResetStudio(t)
        PROVE  FormsCounted'
    BY <1>1, <1>2, <1>4 DEF ResetLicense, ReloadStudio, ResetStudio, FormsCounted
  <1> QED BY <1>2, <1>3, <1>4 DEF StudioNext, studioVars

LEMMA StudioTyped == StudioInv /\ FormsCounted => StudioTypeOK
  BY DEF StudioInv, Tallied, FormsCounted, StudioTypeOK

\* Every copy of the studio's state, stored or of a tab, has the shape of the
\* defaults, whichever tab adopts it (load and save of demo-studio.js).
THEOREM StudioTyping == StudioSpec => []StudioTypeOK
  <1>1. StudioInit => FormsCounted
    BY MaxFormsAssumption DEF StudioInit, FormsCounted
  <1> QED BY <1>1, FormsStep, StudioTyped, StudioInvInit, StudioInvStep, PTL DEF StudioSpec

\* The tally lies between what stands in the yard and what came in, in every
\* tab, although tabs overwrite and adopt each other's copies (demo-studio.js).
THEOREM TallyIsCovered == StudioSpec => []TallyCoversYard
  <1>1. StudioInv => TallyCoversYard
    BY DEF StudioInv, Tallied, TallyCoversYard
  <1> QED BY <1>1, StudioInvInit, StudioInvStep, PTL DEF StudioSpec

\* A form of one tab leaves the copies of the others alone.
LEMMA FormOfOneTab ==
  ASSUME StudioInv, NEW t \in Tabs, NEW s, SubmitForm(t, s), NEW u \in Tabs
  PROVE  studio'[u] = IF u = t THEN s ELSE studio[u]
  BY DEF StudioInv, SubmitForm

LEMMA OnlyDrawnInit == StudioInit => OnlyDrawn
  BY DEF StudioInit, StudioDefaults, OnlyDrawn

\* A form whose vehicles are drawn keeps every copy so.
LEMMA FormKeepsDrawn ==
  ASSUME StudioInv, OnlyDrawn, NEW t \in Tabs, NEW s, SubmitForm(t, s),
         drawn \subseteq drawn', DOMAIN s.cars \subseteq drawn'
  PROVE  OnlyDrawn'
  <1>1. \A u \in Tabs : DOMAIN studio'[u].cars \subseteq drawn'
    BY FormOfOneTab DEF OnlyDrawn
  <1>2. studioStore' = s
    BY DEF SubmitForm
  <1> QED BY <1>1, <1>2 DEF OnlyDrawn

LEMMA OnlyDrawnStep == StudioInv /\ OnlyDrawn /\ [StudioNext]_studioVars => OnlyDrawn'
  <1> SUFFICES ASSUME StudioInv, OnlyDrawn, [StudioNext]_studioVars PROVE OnlyDrawn'
    OBVIOUS
  <1>0. studio \in [Tabs -> StudioState] /\ \A t \in Tabs : DOMAIN studio[t].cars \subseteq drawn
    BY DEF StudioInv, OnlyDrawn
  <1>1. ASSUME NEW t \in Tabs, NEW c \in StudioCars, RegisterArrival(t, c) PROVE OnlyDrawn'
    <2> DEFINE cars == studio[t].cars
               more == [d \in DOMAIN cars \cup {c} |-> IF d = c THEN "Received" ELSE cars[d]]
    <2>1. SubmitForm(t, Counted(more)) /\ Counted(more).cars = more /\ drawn' = drawn \cup {c}
      BY <1>1 DEF RegisterArrival, Counted
    <2>2. DOMAIN more \subseteq drawn'
      BY <1>0, <2>1
    <2> HIDE DEF more
    <2>3. DOMAIN Counted(more).cars \subseteq drawn' /\ drawn \subseteq drawn'
      BY <2>1, <2>2
    <2> QED BY <2>1, <2>3, FormKeepsDrawn
  <1>2. ASSUME NEW t \in Tabs, NEW c \in StudioCars, EditRecord(t, c) PROVE OnlyDrawn'
    <2>1. SubmitForm(t, Counted(studio[t].cars)) /\ drawn' = drawn
      BY <1>2 DEF EditRecord
    <2>2. DOMAIN Counted(studio[t].cars).cars \subseteq drawn'
      BY <1>0, <2>1 DEF Counted
    <2> QED BY <2>1, <2>2, FormKeepsDrawn
  <1>3. ASSUME NEW t \in Tabs, NEW c \in StudioCars, DispatchRecord(t, c) PROVE OnlyDrawn'
    <2> DEFINE after == [studio[t] EXCEPT !.cars[c] = "Dispatched"]
    <2>1. SubmitForm(t, after) /\ drawn' = drawn
      BY <1>3 DEF DispatchRecord
    <2>2. after.cars = [studio[t].cars EXCEPT ![c] = "Dispatched"]
      BY <1>0 DEF StudioState
    <2>3. DOMAIN after.cars \subseteq drawn'
      BY <1>0, <2>1, <2>2
    <2> HIDE DEF after
    <2> QED BY <2>1, <2>3, FormKeepsDrawn
  <1>4. ASSUME NEW t \in Tabs, ResetLicense(t) PROVE OnlyDrawn'
    BY <1>0, <1>4, FormKeepsDrawn DEF ResetLicense
  <1>5. ASSUME NEW t \in Tabs, ReloadStudio(t) \/ ResetStudio(t) PROVE OnlyDrawn'
    BY <1>0, <1>5 DEF ReloadStudio, ResetStudio, StudioDefaults, OnlyDrawn
  <1>6. CASE UNCHANGED studioVars
    BY <1>6 DEF studioVars, OnlyDrawn
  <1> QED BY <1>1, <1>2, <1>3, <1>4, <1>5, <1>6 DEF StudioNext

LEMMA DepartedStep == StudioInv /\ OnlyDrawn /\ [StudioNext]_studioVars => StayDeparted
  <1> SUFFICES ASSUME StudioInv, OnlyDrawn, [StudioNext]_studioVars,
                      NEW u \in Tabs, ~ReloadStudio(u), ~ResetStudio(u),
                      NEW k \in DOMAIN studio[u].cars, studio[u].cars[k] = "Dispatched"
               PROVE  /\ k \in DOMAIN studio'[u].cars
                      /\ studio'[u].cars[k] = "Dispatched"
    BY DEF StayDeparted
  <1>0. studio \in [Tabs -> StudioState]
    BY DEF StudioInv
  <1>1. ASSUME NEW t \in Tabs, NEW c \in StudioCars, RegisterArrival(t, c)
        PROVE  k \in DOMAIN studio'[u].cars /\ studio'[u].cars[k] = "Dispatched"
    <2> DEFINE cars == studio[t].cars
               more == [d \in DOMAIN cars \cup {c} |-> IF d = c THEN "Received" ELSE cars[d]]
    <2>1. SubmitForm(t, Counted(more)) /\ Counted(more).cars = more /\ c \notin drawn
      BY <1>1 DEF RegisterArrival, Counted
    <2>2. c # k
      BY <2>1 DEF OnlyDrawn
    <2> QED BY <1>0, <2>1, <2>2, FormOfOneTab
  <1>2. ASSUME NEW t \in Tabs, NEW c \in StudioCars, EditRecord(t, c)
        PROVE  k \in DOMAIN studio'[u].cars /\ studio'[u].cars[k] = "Dispatched"
    BY <1>2, FormOfOneTab DEF EditRecord, Counted
  <1>3. ASSUME NEW t \in Tabs, NEW c \in StudioCars, DispatchRecord(t, c)
        PROVE  k \in DOMAIN studio'[u].cars /\ studio'[u].cars[k] = "Dispatched"
    <2> DEFINE after == [studio[t] EXCEPT !.cars[c] = "Dispatched"]
    <2>1. SubmitForm(t, after)
      BY <1>3 DEF DispatchRecord
    <2>2. after.cars = [studio[t].cars EXCEPT ![c] = "Dispatched"]
      BY <1>0 DEF StudioState
    <2> HIDE DEF after
    <2> QED BY <2>1, <2>2, FormOfOneTab
  <1>4. ASSUME NEW t \in Tabs, ResetLicense(t)
        PROVE  k \in DOMAIN studio'[u].cars /\ studio'[u].cars[k] = "Dispatched"
    BY <1>4, FormOfOneTab DEF ResetLicense
  <1>5. ASSUME NEW t \in Tabs, ReloadStudio(t) \/ ResetStudio(t)
        PROVE  k \in DOMAIN studio'[u].cars /\ studio'[u].cars[k] = "Dispatched"
    <2>1. t # u /\ studio'[u] = studio[u]
      BY <1>0, <1>5 DEF ReloadStudio, ResetStudio
    <2> QED BY <2>1
  <1>6. CASE UNCHANGED studioVars
    BY <1>6 DEF studioVars
  <1> QED BY <1>1, <1>2, <1>3, <1>4, <1>5, <1>6 DEF StudioNext

\* A departed vehicle comes back to a tab only by loading the page again
\* (saveRecord keeps the status, dispatch offers no departed vehicle).
THEOREM DepartedVehiclesStay == StudioSpec => DepartedStaysDeparted
  <1>1. StayDeparted =>
            [\A t \in Tabs :
                (~ReloadStudio(t) /\ ~ResetStudio(t)) =>
                    \A c \in DOMAIN studio[t].cars :
                        studio[t].cars[c] = "Dispatched" =>
                            /\ c \in DOMAIN studio'[t].cars
                            /\ studio'[t].cars[c] = "Dispatched"]_studioVars
    BY DEF StayDeparted
  <1> QED BY <1>1, StudioInvInit, StudioInvStep, OnlyDrawnInit, OnlyDrawnStep, DepartedStep, PTL
          DEF StudioSpec, DepartedStaysDeparted
=============================================================================
