------------------------------ MODULE Showcase ------------------------------
(***************************************************************************)
(* The live map of the static demo (docs/app.js).  Each tab keeps the      *)
(* whole state in memory from the moment it loaded and writes all of it    *)
(* back after every change; the simulation is an interval timer of the tab *)
(* and a flag, running, that is part of the stored state.                  *)
(***************************************************************************)
EXTENDS Browser

CONSTANTS
    Shown,          \* the spots on the map
    FirstStatus,    \* the status makeSpots gives each of them
    KeptEvents,     \* record keeps this many events (100 in the code)
    MaxRefusals     \* bound: times setItem throws

ASSUME FirstStatusAssumption == FirstStatus \in [Shown -> {"Free", "Occupied", "Reserved"}]
ASSUME KeptAssumption == KeptEvents \in Nat \ {0} /\ MaxRefusals \in Nat

VARIABLES
    stored,     \* localStorage 'parking-pejam-demo-v4', or Nothing
    memory,     \* per tab, the variable state
    ticking,    \* per tab, whether its setInterval is live
    resumed,    \* per tab, whether it loaded a state that was running
    refusals    \* times setItem threw

showcaseVars == <<stored, memory, ticking, resumed, refusals>>

ShownStatus == {"Free", "Occupied", "Reserved"}
MapEvent    == [spot : Shown, old : ShownStatus, new : ShownStatus]

\* makeSpots and an empty trail; filters are left out, see ClickZone.
FreshMap == [map |-> FirstStatus, trail |-> <<>>, running |-> FALSE]

LoadedMap == IF stored = Nothing THEN FreshMap ELSE stored

ShowcaseInit ==
    /\ stored  = Nothing
    /\ memory  = [t \in Tabs |-> FreshMap]
    /\ ticking = [t \in Tabs |-> FALSE]
    /\ resumed = [t \in Tabs |-> FALSE]
    /\ refusals = 0

\* Mutant: the event reads the old status after the spot has its new one.
ToggledThenRecorded(m, s) ==
    LET next == IF m.map[s] = "Occupied" THEN "Free" ELSE "Occupied"
        row  == [spot |-> s, old |-> next, new |-> next]
        kept == IF Len(m.trail) < KeptEvents THEN Len(m.trail) ELSE KeptEvents - 1
    IN  [m EXCEPT !.map[s] = next, !.trail = Unshift(row, SubSeq(@, 1, kept))]

\* sensorToggle and record: the newest KeptEvents events stay.
Toggled(m, s) ==
    LET next == IF m.map[s] = "Occupied" THEN "Free" ELSE "Occupied"
        row  == [spot |-> s, old |-> m.map[s], new |-> next]
        kept == IF Len(m.trail) < KeptEvents THEN Len(m.trail) ELSE KeptEvents - 1
    IN  [m EXCEPT !.map[s] = next, !.trail = Unshift(row, SubSeq(@, 1, kept))]

\* save: a setItem that throws (no quota, storage blocked) is swallowed.
SaveMap(t, m) ==
    /\ memory' = [memory EXCEPT ![t] = m]
    /\ \/ stored' = m /\ UNCHANGED refusals
       \/ refusals < MaxRefusals /\ refusals' = refusals + 1 /\ UNCHANGED stored

ClickSpot(t, s) ==
    /\ SaveMap(t, Toggled(memory[t], s))
    /\ UNCHANGED <<ticking, resumed>>

\* sensorTick, run by the interval.
SensorTick(t, s) ==
    /\ ticking[t]
    /\ SaveMap(t, Toggled(memory[t], s))
    /\ UNCHANGED <<ticking, resumed>>

\* toggleSimulation turns it on: one tick at once, then the interval.
StartSimulation(t, s) ==
    /\ ~memory[t].running
    /\ SaveMap(t, [Toggled(memory[t], s) EXCEPT !.running = TRUE])
    /\ ticking' = [ticking EXCEPT ![t] = TRUE]
    /\ UNCHANGED resumed

\* toggleSimulation turns it off; clearInterval(null) does nothing.
StopSimulation(t) ==
    /\ memory[t].running
    /\ SaveMap(t, [memory[t] EXCEPT !.running = FALSE])
    /\ ticking' = [ticking EXCEPT ![t] = FALSE]
    /\ resumed' = [resumed EXCEPT ![t] = FALSE]

\* Mutant: reset leaves the interval running.
ResetMapKeepsTimer(t) ==
    /\ SaveMap(t, FreshMap)
    /\ resumed' = [resumed EXCEPT ![t] = FALSE]
    /\ UNCHANGED ticking

ResetMap(t) ==
    /\ SaveMap(t, FreshMap)
    /\ ticking' = [ticking EXCEPT ![t] = FALSE]
    /\ resumed' = [resumed EXCEPT ![t] = FALSE]

\* A zone tab: the filter changes, and the whole state of this tab is saved.
ClickZone(t) ==
    /\ SaveMap(t, memory[t])
    /\ UNCHANGED <<ticking, resumed>>

\* The page is loaded again: the stored state, running included, but no timer.
ReloadMap(t) ==
    /\ memory'  = [memory EXCEPT ![t] = LoadedMap]
    /\ ticking' = [ticking EXCEPT ![t] = FALSE]
    /\ resumed' = [resumed EXCEPT ![t] = LoadedMap.running]
    /\ UNCHANGED <<stored, refusals>>

ShowcaseNext ==
    \E t \in Tabs :
        \/ \E s \in Shown :
               \/ ClickSpot(t, s)
               \/ SensorTick(t, s)
               \/ StartSimulation(t, s)
        \/ StopSimulation(t)
        \/ ResetMap(t)
        \/ ClickZone(t)
        \/ ReloadMap(t)

ShowcaseSpec == ShowcaseInit /\ [][ShowcaseNext]_showcaseVars

-----------------------------------------------------------------------------

MapState ==
    [map : [Shown -> ShownStatus], trail : Seq(MapEvent), running : BOOLEAN]

ShowcaseTypeOK ==
    /\ stored \in MapState \cup {Nothing}
    /\ memory \in [Tabs -> MapState]
    /\ ticking \in [Tabs -> BOOLEAN]
    /\ resumed \in [Tabs -> BOOLEAN]
    /\ refusals \in 0..MaxRefusals

\* A live interval belongs to a tab whose button offers Stop, so it can always
\* be stopped; and a tab that offers Stop without one has loaded a state that
\* was running and nobody has clicked the button since (load takes running from
\* localStorage and starts no timer).
TimerMatchesButton ==
    \A t \in Tabs :
        /\ ticking[t] => memory[t].running
        /\ memory[t].running => ticking[t] \/ resumed[t]

\* The newest kept event of a spot ends in the status on the map, every older
\* one ends where the next began, and a trail not yet cut starts at makeSpots.
Explains(m) ==
    /\ Len(m.trail) <= KeptEvents
    /\ \A s \in Shown :
           LET own == {i \in 1..Len(m.trail) : m.trail[i].spot = s}
           IN  /\ own = {} /\ Len(m.trail) < KeptEvents => m.map[s] = FirstStatus[s]
               /\ \A i \in own :
                      LET newer == {j \in own : j < i}
                          older == {j \in own : j > i}
                      IN  /\ newer = {} => m.trail[i].new = m.map[s]
                          /\ \A j \in newer :
                                 (\A k \in newer : k <= j) =>
                                     m.trail[i].new = m.trail[j].old
                          /\ older = {} /\ Len(m.trail) < KeptEvents =>
                                 m.trail[i].old = FirstStatus[s]

\* The audit trail explains the map, in every tab and in localStorage, through
\* toggles, ticks, resets and reloads, although tabs overwrite each other's
\* state: record is always called with the status the spot had.
TrailExplainsMap ==
    /\ stored # Nothing => Explains(stored)
    /\ \A t \in Tabs : Explains(memory[t])
=============================================================================
