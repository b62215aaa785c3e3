---------------------------- MODULE DispatchDesk ----------------------------
(***************************************************************************)
(* Vehicle exit of the static demo (docs/dispatch-form.js), on the static  *)
(* host it is published on: every call of the dispatch API fails, after a  *)
(* while, and the catch clause does the work on a local copy.  The copy    *)
(* sits under the key of an earlier release, so its vehicles are those an  *)
(* earlier visit left.  While a call is out, the list stays usable.        *)
(***************************************************************************)
EXTENDS Browser

CONSTANTS
    DeskCars,       \* vehicles under 'parking-pejam-arrivals-v1'
    FirstExits,     \* what the earlier release left: InYard, Received, Dispatched
    MaxCalls        \* bound: API calls out at once, of each kind

ASSUME FirstExitsAssumption ==
    FirstExits \in [DeskCars -> {"InYard", "Received", "Dispatched"}]
ASSUME MaxCallsAssumption == MaxCalls \in Nat
ASSUME NothingIsNoCar == Nothing \notin DeskCars

VARIABLES
    exits1,         \* the stored vehicles: status and yardSlot in one
    candidates,     \* InventoryStatus of the rows listed, by vehicle
    selected,       \* the row selected, or Nothing
    listed,         \* whether selected is a row of the current candidates
    loads,          \* loads waiting for their answer
    prepares,       \* prepares waiting for theirs
    completes,      \* the vehicles of the completes waiting for theirs
    strayed         \* the operator picked a row while an exit was out (for
                    \* checking only)

deskVars ==
    <<exits1, candidates, selected, listed, loads, prepares, completes, strayed>>

DeskStatus == {"InYard", "Received", "Dispatched"}
RowStatus  == {"InYard", "Received", "ReadyForDispatch"}

DeskInit ==
    /\ exits1     = FirstExits
    /\ candidates = [c \in {} |-> "InYard"]
    /\ selected   = Nothing
    /\ listed     = FALSE
    /\ loads      = 0
    /\ prepares   = 0
    /\ completes  = [c \in DeskCars |-> 0]
    /\ strayed    = FALSE

\* Mutant: the filter on the status is missing.
DemoDataAll == exits1

\* demoData: what is stored and has not left.
DemoData == [c \in {d \in DeskCars : exits1[d] # "Dispatched"} |-> exits1[c]]

\* open: load asks the API first.
OpenDesk ==
    /\ loads < MaxCalls
    /\ loads' = loads + 1
    /\ UNCHANGED <<exits1, candidates, selected, listed, prepares, completes, strayed>>

\* Mutant: a fresh list comes with a row selected.
LoadFailsAndSelects ==
    /\ loads > 0
    /\ loads' = loads - 1
    /\ candidates' = DemoData
    /\ selected' \in IF DOMAIN DemoData = {} THEN {Nothing} ELSE DOMAIN DemoData
    /\ listed' = TRUE
    /\ UNCHANGED <<exits1, prepares, completes, strayed>>

\* The answer of load is an error: the rows are those stored by now; selected
\* keeps pointing at a row of the old list.
LoadFails ==
    /\ loads > 0
    /\ loads' = loads - 1
    /\ candidates' = DemoData
    /\ listed' = FALSE
    /\ UNCHANGED <<exits1, selected, prepares, completes, strayed>>

Out == \E c \in DeskCars : completes[c] > 0

\* A click on a row.
SelectRow(c) ==
    /\ c \in DOMAIN candidates
    /\ selected' = c
    /\ listed'   = TRUE
    /\ strayed'  = (strayed \/ Out)
    /\ UNCHANGED <<exits1, candidates, loads, prepares, completes>>

\* The button of a row that is InYard: select, then prepare asks the API.
PrepareRow(c) ==
    /\ c \in DOMAIN candidates
    /\ candidates[c] = "InYard"
    /\ prepares < MaxCalls
    /\ prepares' = prepares + 1
    /\ selected' = c
    /\ listed'   = TRUE
    /\ strayed'  = (strayed \/ Out)
    /\ UNCHANGED <<exits1, candidates, loads, completes>>

\* Its catch marks whatever row is selected by now; with none it throws.
PrepareFails ==
    /\ prepares > 0
    /\ prepares' = prepares - 1
    /\ candidates' = IF selected # Nothing /\ listed
                     THEN [candidates EXCEPT ![selected] = "ReadyForDispatch"]
                     ELSE candidates
    /\ UNCHANGED <<exits1, selected, listed, loads, completes, strayed>>

\* The form is submitted and confirmed.
ConfirmExit ==
    /\ selected # Nothing
    /\ completes[selected] < MaxCalls
    /\ completes' = [completes EXCEPT ![selected] = @ + 1]
    /\ UNCHANGED <<exits1, candidates, selected, listed, loads, prepares, strayed>>

\* Its catch stores Dispatched on the vehicle selected by now (the find throws
\* when there is none, and that too is caught), says so, selects nothing and
\* loads again.
ExitFails(c) ==
    /\ completes[c] > 0
    /\ loads < MaxCalls
    /\ completes' = [completes EXCEPT ![c] = @ - 1]
    /\ exits1'    = [d \in DeskCars |-> IF d = selected THEN "Dispatched" ELSE exits1[d]]
    /\ selected'  = Nothing
    /\ listed'    = FALSE
    /\ loads'     = loads + 1
    /\ strayed'   = (strayed /\ \E d \in DeskCars : completes'[d] > 0)
    /\ UNCHANGED <<candidates, prepares>>

DeskAnswer ==
    \/ LoadFails
    \/ PrepareFails
    \/ \E c \in DeskCars : ExitFails(c)

DeskNext ==
    \/ OpenDesk
    \/ \E c \in DeskCars : SelectRow(c) \/ PrepareRow(c)
    \/ ConfirmExit
    \/ DeskAnswer

DeskSpec == DeskInit /\ [][DeskNext]_deskVars

-----------------------------------------------------------------------------

DeskTypeOK ==
    /\ exits1 \in [DeskCars -> DeskStatus]
    /\ candidates \in UNION {[S -> RowStatus] : S \in SUBSET DeskCars}
    /\ selected \in DeskCars \cup {Nothing}
    /\ listed \in BOOLEAN
    /\ loads \in 0..MaxCalls
    /\ prepares \in 0..MaxCalls
    /\ completes \in [DeskCars -> 0..MaxCalls]
    /\ strayed \in BOOLEAN

\* Only a vehicle whose exit the operator confirmed, and whose answer is the
\* one that arrives, is stored as gone, provided no other row was picked while
\* the call was out: the catch clause trusts selected, which only clicks move,
\* and which an answer may clear but never set.
ExitIsTheConfirmedOne ==
    [][~strayed =>
           \A c \in DeskCars :
               exits1[c] # exits1'[c] => completes[c] > 0 /\ completes'[c] < completes[c]]_deskVars
=============================================================================
