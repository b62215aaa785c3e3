--------------------------- MODULE ShowcaseProofs ---------------------------
(***************************************************************************)
(* The live map of the static demo, for any tabs, spots and length of the  *)
(* trail.  Timers and buttons agree once states are typed; the trail       *)
(* explains the map in every tab because it does so in localStorage too,   *)
(* and a toggle only puts one event in front of it.                        *)
(***************************************************************************)
EXTENDS Showcase, SequenceTheorems, TLAPS

\* The events of a trail that a toggle keeps.
KeptOf(m) == IF Len(m.trail) < KeptEvents THEN Len(m.trail) ELSE KeptEvents - 1

LEMMA KeptBounds ==
  ASSUME NEW m \in MapState
  PROVE  /\ KeptOf(m) \in Nat /\ KeptOf(m) <= Len(m.trail) /\ KeptOf(m) + 1 <= KeptEvents
         /\ KeptOf(m) + 1 < KeptEvents => KeptOf(m) = Len(m.trail) /\ Len(m.trail) < KeptEvents
         /\ Len(m.trail) \in Nat
  <1>1. Len(m.trail) \in Nat /\ KeptEvents \in Nat \ {0}
    BY KeptAssumption DEF MapState
  <1> QED BY <1>1 DEF KeptOf

\* A toggle turns one spot, puts its event first and keeps the rest in order.
LEMMA ToggledFacts ==
  ASSUME NEW m \in MapState, NEW s \in Shown
  PROVE  LET n == Toggled(m, s)
         IN  /\ n \in MapState
             /\ n.running = m.running
             /\ \A r \in Shown \ {s} : n.map[r] = m.map[r]
             /\ Len(n.trail) = KeptOf(m) + 1
             /\ n.trail[1].spot = s /\ n.trail[1].old = m.map[s]
             /\ n.trail[1].new = n.map[s]
             /\ \A i \in 1..KeptOf(m) : n.trail[i + 1] = m.trail[i]
  <1> DEFINE next == IF m.map[s] = "Occupied" THEN "Free" ELSE "Occupied"
             row  == [spot |-> s, old |-> m.map[s], new |-> next]
             rest == SubSeq(m.trail, 1, KeptOf(m))
             n    == Toggled(m, s)
  <1>1. m.map \in [Shown -> ShownStatus] /\ m.trail \in Seq(MapEvent) /\ m.running \in BOOLEAN
    BY DEF MapState
  <1>2. next \in ShownStatus
    BY DEF ShownStatus
  <1>3. row \in MapEvent
    BY <1>1, <1>2 DEF MapEvent
  <1>4. KeptOf(m) \in Nat /\ KeptOf(m) <= Len(m.trail)
    BY KeptBounds
  <1>5. /\ rest \in Seq(MapEvent) /\ Len(rest) = KeptOf(m)
        /\ \A i \in 1..KeptOf(m) : rest[i] = m.trail[i]
    BY <1>1, <1>4, SubSeqProperties
  <1>6. n = [m EXCEPT !.map = [m.map EXCEPT ![s] = next], !.trail = <<row>> \o rest]
    BY DEF Toggled, Unshift, KeptOf
  <1> DEFINE trail == <<row>> \o rest
  <1> HIDE DEF rest, row, next
  <1>7. <<row>> \in Seq(MapEvent) /\ Len(<<row>>) = 1 /\ <<row>>[1] = row
    BY <1>3
  <1>8. /\ trail \in Seq(MapEvent) /\ Len(trail) = KeptOf(m) + 1
        /\ trail[1] = row
        /\ \A i \in 1..KeptOf(m) : trail[i + 1] = m.trail[i]
    BY <1>4, <1>5, <1>7
  <1> HIDE DEF trail
  <1>9. n = [m EXCEPT !.map = [m.map EXCEPT ![s] = next], !.trail = trail]
    BY <1>6 DEF trail
  <1> HIDE DEF n
  <1>10. /\ n.map = [m.map EXCEPT ![s] = next] /\ n.trail = trail /\ n.running = m.running
         /\ n \in MapState
    BY <1>1, <1>2, <1>8, <1>9 DEF MapState
  <1>11. row.spot = s /\ row.old = m.map[s] /\ row.new = next
    BY DEF row
  <1>12. n.map[s] = next /\ \A r \in Shown \ {s} : n.map[r] = m.map[r]
    BY <1>1, <1>10
  <1> QED BY <1>8, <1>10, <1>11, <1>12 DEF n

\* The events of spot r in the trail of m.
Own(m, r) == {i \in 1..Len(m.trail) : m.trail[i].spot = r}

\* What Explains says of one spot.
ExplainsSpot(m, r) ==
    /\ Own(m, r) = {} /\ Len(m.trail) < KeptEvents => m.map[r] = FirstStatus[r]
    /\ \A i \in Own(m, r) :
           /\ (\A j \in Own(m, r) : ~(j < i)) => m.trail[i].new = m.map[r]
           /\ \A j \in Own(m, r) :
                  (j < i /\ \A k \in Own(m, r) : k < i => k <= j)
                      => m.trail[i].new = m.trail[j].old
           /\ (\A j \in Own(m, r) : ~(j > i)) /\ Len(m.trail) < KeptEvents
                  => m.trail[i].old = FirstStatus[r]

LEMMA ExplainsBySpot ==
  ASSUME NEW m
  PROVE  Explains(m) <=> Len(m.trail) <= KeptEvents /\ \A r \in Shown : ExplainsSpot(m, r)
  <1> DEFINE Newer(r, i) == {j \in Own(m, r) : j < i}
             Older(r, i) == {j \in Own(m, r) : j > i}
             First(r)  == Own(m, r) = {} /\ Len(m.trail) < KeptEvents
                              => m.map[r] = FirstStatus[r]
             Row(r, i) == /\ Newer(r, i) = {} => m.trail[i].new = m.map[r]
                          /\ \A j \in Newer(r, i) :
                                 (\A k \in Newer(r, i) : k <= j)
                                     => m.trail[i].new = m.trail[j].old
                          /\ Older(r, i) = {} /\ Len(m.trail) < KeptEvents
                                 => m.trail[i].old = FirstStatus[r]
  <1>1. Explains(m) <=> /\ Len(m.trail) <= KeptEvents
                        /\ \A r \in Shown : First(r) /\ \A i \in Own(m, r) : Row(r, i)
    BY Zenon DEF Explains, Own
  <1>2. ASSUME NEW r, NEW i
        PROVE  /\ Newer(r, i) = {} <=> \A j \in Own(m, r) : ~(j < i)
               /\ Older(r, i) = {} <=> \A j \in Own(m, r) : ~(j > i)
               /\ \A j : j \in Newer(r, i) <=> j \in Own(m, r) /\ j < i
    OBVIOUS
  <1> HIDE DEF Newer, Older
  <1>3. \A r \in Shown : ExplainsSpot(m, r) <=> First(r) /\ \A i \in Own(m, r) : Row(r, i)
    BY <1>2, Zenon DEF ExplainsSpot
  <1> QED BY <1>1, <1>3

LEMMA ToggledExplains ==
  ASSUME NEW m \in MapState, NEW s \in Shown, Explains(m)
  PROVE  Explains(Toggled(m, s))
  <1> DEFINE n == Toggled(m, s)
             k == KeptOf(m)
  <1>1. /\ \A r \in Shown \ {s} : n.map[r] = m.map[r]
        /\ Len(n.trail) = k + 1
        /\ n.trail[1].spot = s /\ n.trail[1].old = m.map[s] /\ n.trail[1].new = n.map[s]
        /\ \A i \in 1..k : n.trail[i + 1] = m.trail[i]
    BY ToggledFacts
  <1>2. /\ k \in Nat /\ k <= Len(m.trail) /\ k + 1 <= KeptEvents
        /\ k + 1 < KeptEvents => k = Len(m.trail) /\ Len(m.trail) < KeptEvents
        /\ Len(m.trail) \in Nat /\ KeptEvents \in Nat
    BY KeptBounds, KeptAssumption
  <1>3. \A r \in Shown : ExplainsSpot(m, r)
    BY ExplainsBySpot
  <1> HIDE DEF n, k
  <1>4. ASSUME NEW r \in Shown PROVE ExplainsSpot(n, r)
    <2>1. \A i \in 2..(k + 1) : /\ i - 1 \in 1..k /\ n.trail[i] = m.trail[i - 1]
                                /\ i \in Own(n, r) <=> i - 1 \in Own(m, r)
      <3> SUFFICES ASSUME NEW i \in 2..(k + 1)
                   PROVE  /\ i - 1 \in 1..k /\ n.trail[i] = m.trail[i - 1]
                          /\ i \in Own(n, r) <=> i - 1 \in Own(m, r)
        OBVIOUS
      <3>1. i - 1 \in 1..k /\ (i - 1) + 1 = i /\ i \in 1..(k + 1) /\ i - 1 \in 1..Len(m.trail)
        BY <1>2
      <3>2. n.trail[i] = m.trail[i - 1]
        BY <1>1, <3>1
      <3> QED BY <1>1, <3>1, <3>2 DEF Own
    <2>2. 1 \in Own(n, r) <=> r = s
      BY <1>1, <1>2 DEF Own
    <2>3. Own(n, r) \subseteq 1..(k + 1) /\ Own(m, r) \subseteq 1..Len(m.trail)
      BY <1>1 DEF Own
    <2>4. \A i \in Own(m, r) : i <= k => i + 1 \in Own(n, r) /\ i + 1 \in 2..(k + 1)
      <3> SUFFICES ASSUME NEW i \in Own(m, r), i <= k
                   PROVE  i + 1 \in Own(n, r) /\ i + 1 \in 2..(k + 1)
        OBVIOUS
      <3>1. i + 1 \in 2..(k + 1) /\ (i + 1) - 1 = i
        BY <1>2, <2>3
      <3> QED BY <2>1, <3>1
    <2>5. \A i \in Own(n, r) : i # 1 => i \in 2..(k + 1) /\ i - 1 \in Own(m, r) /\ i - 1 <= k
      BY <1>2, <2>1, <2>3
    <2>6. ASSUME Own(n, r) = {}, Len(n.trail) < KeptEvents PROVE n.map[r] = FirstStatus[r]
      <3>1. k = Len(m.trail) /\ Len(m.trail) < KeptEvents
        BY <1>1, <1>2, <2>6
      <3>2. Own(m, r) = {}
        BY <1>2, <2>3, <2>4, <2>6, <3>1
      <3>3. r # s
        BY <2>2, <2>6
      <3> QED BY <1>1, <1>3, <3>1, <3>2, <3>3 DEF ExplainsSpot
    <2>7. ASSUME NEW i \in Own(n, r), \A j \in Own(n, r) : ~(j < i)
          PROVE  n.trail[i].new = n.map[r]
      <3>1. CASE i = 1
        BY <1>1, <2>2, <3>1
      <3>2. CASE i # 1
        <4>1. i \in 2..(k + 1) /\ i - 1 \in Own(m, r) /\ i - 1 <= k
          BY <2>5, <3>2
        <4>2. r # s
          BY <1>2, <2>2, <2>7, <4>1
        <4>3. \A j \in Own(m, r) : ~(j < i - 1)
          BY <1>2, <2>3, <2>4, <2>7, <4>1
        <4> QED BY <1>1, <1>3, <2>1, <4>1, <4>2, <4>3 DEF ExplainsSpot
      <3> QED BY <3>1, <3>2
    <2>8. ASSUME NEW i \in Own(n, r), NEW j \in Own(n, r), j < i,
                 \A h \in Own(n, r) : h < i => h <= j
          PROVE  n.trail[i].new = n.trail[j].old
      <3>1. i # 1 /\ i \in Nat /\ j \in Nat
        BY <1>2, <2>3, <2>8
      <3>2. i \in 2..(k + 1) /\ i - 1 \in Own(m, r) /\ i - 1 <= k
        BY <2>5, <3>1
      <3>3. CASE j = 1
        <4>1. r = s
          BY <2>2, <3>3
        <4>2. \A h \in Own(m, r) : ~(h < i - 1)
          BY <1>2, <2>3, <2>4, <2>8, <3>2, <3>3
        <4> QED BY <1>1, <1>3, <2>1, <3>2, <3>3, <4>1, <4>2 DEF ExplainsSpot
      <3>4. CASE j # 1
        <4>1. j \in 2..(k + 1) /\ j - 1 \in Own(m, r) /\ j - 1 < i - 1
          BY <1>2, <2>5, <2>8, <3>1, <3>4
        <4>2. \A h \in Own(m, r) : h < i - 1 => h <= j - 1
          <5> SUFFICES ASSUME NEW h \in Own(m, r), h < i - 1 PROVE h <= j - 1
            OBVIOUS
          <5>1. h \in Nat /\ h <= k
            BY <1>2, <2>3, <3>2
          <5>2. h + 1 \in Own(n, r) /\ h + 1 < i
            BY <2>4, <3>1, <5>1
          <5> QED BY <2>8, <3>1, <5>1, <5>2
        <4> QED BY <1>3, <2>1, <3>2, <4>1, <4>2 DEF ExplainsSpot
      <3> QED BY <3>3, <3>4
    <2>9. ASSUME NEW i \in Own(n, r), \A j \in Own(n, r) : ~(j > i), Len(n.trail) < KeptEvents
          PROVE  n.trail[i].old = FirstStatus[r]
      <3>1. k = Len(m.trail) /\ Len(m.trail) < KeptEvents
        BY <1>1, <1>2, <2>9
      <3>2. CASE i = 1
        <4>1. r = s
          BY <2>2, <3>2
        <4>2. Own(m, r) = {}
          BY <1>2, <2>3, <2>4, <2>9, <3>1, <3>2
        <4> QED BY <1>1, <1>3, <3>1, <3>2, <4>1, <4>2 DEF ExplainsSpot
      <3>3. CASE i # 1
        <4>1. i \in 2..(k + 1) /\ i - 1 \in Own(m, r) /\ i - 1 <= k
          BY <2>5, <3>3
        <4>2. \A j \in Own(m, r) : ~(j > i - 1)
          BY <1>2, <2>3, <2>4, <2>9, <3>1, <4>1
        <4> QED BY <1>3, <2>1, <3>1, <4>1, <4>2 DEF ExplainsSpot
      <3> QED BY <3>2, <3>3
    <2> QED BY <2>6, <2>7, <2>8, <2>9 DEF ExplainsSpot
  <1>5. Len(n.trail) <= KeptEvents
    BY <1>1, <1>2
  <1>6. Explains(n)
    BY <1>4, <1>5, ExplainsBySpot
  <1> QED BY <1>6 DEF n

ShowcaseInv == ShowcaseTypeOK /\ TimerMatchesButton /\ TrailExplainsMap

LEMMA FreshMapFacts == FreshMap \in MapState /\ Explains(FreshMap) /\ ~FreshMap.running
  <1>1. FreshMap.map = FirstStatus /\ FreshMap.trail = <<>> /\ FreshMap.running = FALSE
    BY DEF FreshMap
  <1>2. FreshMap \in MapState
    BY FirstStatusAssumption DEF FreshMap, MapState, ShownStatus
  <1>3. Len(FreshMap.trail) = 0 /\ KeptEvents \in Nat
    BY <1>1, KeptAssumption
  <1>4. \A r \in Shown : Own(FreshMap, r) = {}
    BY <1>3 DEF Own
  <1>5. \A r \in Shown : ExplainsSpot(FreshMap, r)
    BY <1>1, <1>4 DEF ExplainsSpot
  <1> QED BY <1>1, <1>2, <1>3, <1>5, ExplainsBySpot

LEMMA ShowcaseInvInit == ShowcaseInit => ShowcaseInv
  BY FreshMapFacts, KeptAssumption
     DEF ShowcaseInit, ShowcaseInv, ShowcaseTypeOK, TimerMatchesButton, TrailExplainsMap

\* The state a page load finds.
LEMMA LoadedMapFacts ==
  ASSUME ShowcaseInv
  PROVE  LoadedMap \in MapState /\ Explains(LoadedMap)
  BY FreshMapFacts DEF LoadedMap, ShowcaseInv, ShowcaseTypeOK, TrailExplainsMap

\* Saving a state that explains itself, in step with the timer of its tab.
LEMMA SaveKeepsInv ==
  ASSUME ShowcaseInv, NEW t \in Tabs, NEW m \in MapState, Explains(m), SaveMap(t, m),
         ticking' \in [Tabs -> BOOLEAN], resumed' \in [Tabs -> BOOLEAN],
         \A u \in Tabs \ {t} : ticking'[u] = ticking[u] /\ resumed'[u] = resumed[u],
         ticking'[t] => m.running, m.running => ticking'[t] \/ resumed'[t]
  PROVE  ShowcaseInv'
  <1>1. memory' = [memory EXCEPT ![t] = m] /\ stored' \in {stored, m}
    BY DEF SaveMap
  <1>2. \A u \in Tabs : memory'[u] = IF u = t THEN m ELSE memory[u]
    BY <1>1 DEF ShowcaseInv, ShowcaseTypeOK
  <1>3. ShowcaseTypeOK'
    <2>1. refusals' \in 0..MaxRefusals
      BY KeptAssumption DEF SaveMap, ShowcaseInv, ShowcaseTypeOK
    <2> QED BY <1>1, <2>1 DEF ShowcaseInv, ShowcaseTypeOK
  <1>4. TimerMatchesButton'
    BY <1>2 DEF ShowcaseInv, TimerMatchesButton
  <1>5. TrailExplainsMap'
    <2>1. (stored' # Nothing => Explains(stored')) /\ \A u \in Tabs : Explains(memory'[u])
      BY <1>1, <1>2 DEF ShowcaseInv, TrailExplainsMap
    <2> QED BY <2>1 DEF TrailExplainsMap, Explains
  <1> QED BY <1>3, <1>4, <1>5 DEF ShowcaseInv

LEMMA ShowcaseInvStep == ShowcaseInv /\ [ShowcaseNext]_showcaseVars => ShowcaseInv'
  <1> SUFFICES ASSUME ShowcaseInv, [ShowcaseNext]_showcaseVars PROVE ShowcaseInv'
    OBVIOUS
  <1>0. /\ ticking \in [Tabs -> BOOLEAN] /\ resumed \in [Tabs -> BOOLEAN]
        /\ \A t \in Tabs : /\ memory[t] \in MapState /\ Explains(memory[t])
                           /\ ticking[t] => memory[t].running
                           /\ memory[t].running => ticking[t] \/ resumed[t]
    BY DEF ShowcaseInv, ShowcaseTypeOK, TimerMatchesButton, TrailExplainsMap
  <1>1. ASSUME NEW t \in Tabs, NEW s \in Shown, ClickSpot(t, s) \/ SensorTick(t, s)
        PROVE  ShowcaseInv'
    <2>1. SaveMap(t, Toggled(memory[t], s)) /\ UNCHANGED <<ticking, resumed>>
      BY <1>1 DEF ClickSpot, SensorTick
    <2>2. /\ Toggled(memory[t], s) \in MapState /\ Explains(Toggled(memory[t], s))
          /\ Toggled(memory[t], s).running = memory[t].running
      BY <1>0, ToggledFacts, ToggledExplains
    <2> QED BY <1>0, <2>1, <2>2, SaveKeepsInv
  <1>2. ASSUME NEW t \in Tabs, NEW s \in Shown, StartSimulation(t, s) PROVE ShowcaseInv'
    <2> DEFINE m == Toggled(memory[t], s)
               on == [m EXCEPT !.running = TRUE]
    <2>1. /\ SaveMap(t, on)
          /\ ticking' = [ticking EXCEPT ![t] = TRUE] /\ resumed' = resumed
      BY <1>2 DEF StartSimulation
    <2>2. m \in MapState /\ Explains(m)
      BY <1>0, ToggledFacts, ToggledExplains
    <2> HIDE DEF m
    <2>3. on \in MapState /\ on.map = m.map /\ on.trail = m.trail /\ on.running
      BY <2>2 DEF MapState
    <2> HIDE DEF on
    <2>4. Explains(on)
      BY <2>2, <2>3 DEF Explains
    <2> QED BY <1>0, <2>1, <2>3, <2>4, SaveKeepsInv
  <1>3. ASSUME NEW t \in Tabs, StopSimulation(t) PROVE ShowcaseInv'
    <2> DEFINE off == [memory[t] EXCEPT !.running = FALSE]
    <2>1. /\ SaveMap(t, off)
          /\ ticking' = [ticking EXCEPT ![t] = FALSE] /\ resumed' = [resumed EXCEPT ![t] = FALSE]
      BY <1>3 DEF StopSimulation
    <2>2. /\ off \in MapState /\ ~off.running
          /\ off.map = memory[t].map /\ off.trail = memory[t].trail
      BY <1>0 DEF MapState
    <2> HIDE DEF off
    <2>3. Explains(off)
      BY <1>0, <2>2 DEF Explains
    <2> QED BY <1>0, <2>1, <2>2, <2>3, SaveKeepsInv
  <1>4. ASSUME NEW t \in Tabs, ResetMap(t) PROVE ShowcaseInv'
    BY <1>0, <1>4, FreshMapFacts, SaveKeepsInv DEF ResetMap
  <1>5. ASSUME NEW t \in Tabs, ClickZone(t) PROVE ShowcaseInv'
    BY <1>0, <1>5, SaveKeepsInv DEF ClickZone
  <1>6. ASSUME NEW t \in Tabs, ReloadMap(t) PROVE ShowcaseInv'
    <2>1. /\ memory' = [memory EXCEPT ![t] = LoadedMap] /\ stored' = stored
          /\ ticking' = [ticking EXCEPT ![t] = FALSE]
          /\ resumed' = [resumed EXCEPT ![t] = LoadedMap.running]
      BY <1>6 DEF ReloadMap
    <2>2. LoadedMap \in MapState /\ Explains(LoadedMap) /\ LoadedMap.running \in BOOLEAN
      BY LoadedMapFacts DEF MapState
    <2>3. \A u \in Tabs : memory'[u] = IF u = t THEN LoadedMap ELSE memory[u]
      BY <2>1 DEF ShowcaseInv, ShowcaseTypeOK
    <2>4. ShowcaseTypeOK'
      BY <1>6, <2>1, <2>2 DEF ReloadMap, ShowcaseInv, ShowcaseTypeOK
    <2>5. TimerMatchesButton'
      BY <1>0, <2>1, <2>2, <2>3 DEF TimerMatchesButton
    <2>6. TrailExplainsMap'
      <3>1. (stored' # Nothing => Explains(stored')) /\ \A u \in Tabs : Explains(memory'[u])
        BY <2>1, <2>2, <2>3 DEF ShowcaseInv, TrailExplainsMap
      <3> QED BY <3>1 DEF TrailExplainsMap, Explains
    <2> QED BY <2>4, <2>5, <2>6 DEF ShowcaseInv
  <1>7. CASE UNCHANGED showcaseVars
    <2>1. ShowcaseTypeOK'
      BY <1>7 DEF showcaseVars, ShowcaseInv, ShowcaseTypeOK
    <2>2. TimerMatchesButton' /\ TrailExplainsMap'
      BY <1>7 DEF showcaseVars, ShowcaseInv, TimerMatchesButton, TrailExplainsMap, Explains
    <2> QED BY <2>1, <2>2 DEF ShowcaseInv
  <1> QED BY <1>1, <1>2, <1>3, <1>4, <1>5, <1>6, <1>7 DEF ShowcaseNext

\* Whatever the tabs load, save and overwrite, each holds a whole map of one
\* shape (load, save and reset of docs/app.js).
THEOREM ShowcaseTyping == ShowcaseSpec => []ShowcaseTypeOK
  <1>1. ShowcaseInv => ShowcaseTypeOK
    BY DEF ShowcaseInv
  <1> QED BY <1>1, ShowcaseInvInit, ShowcaseInvStep, PTL DEF ShowcaseSpec

\* A live interval can always be stopped by the button, and a button that says
\* Stop without one was loaded that way (toggleSimulation, reset, load).
THEOREM TimerFollowsButton == ShowcaseSpec => []TimerMatchesButton
  <1>1. ShowcaseInv => TimerMatchesButton
    BY DEF ShowcaseInv
  <1> QED BY <1>1, ShowcaseInvInit, ShowcaseInvStep, PTL DEF ShowcaseSpec

\* The trail, cut to its newest events, explains the map in every tab and in
\* localStorage, whatever the tabs overwrite (sensorToggle, record, save, load).
THEOREM TrailExplains == ShowcaseSpec => []TrailExplainsMap
  <1>1. ShowcaseInv => TrailExplainsMap
    BY DEF ShowcaseInv
  <1> QED BY <1>1, ShowcaseInvInit, ShowcaseInvStep, PTL DEF ShowcaseSpec
=============================================================================
