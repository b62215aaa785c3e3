------------------------------ MODULE Sandbox ------------------------------
(***************************************************************************)
(* The interactive sandbox of the static demo (docs/demo-sandbox.js).  It  *)
(* keeps no state of its own: render reads the whole document from         *)
(* localStorage, and most buttons of the page it draws change the document *)
(* read then and save all of it.  The gate buttons and the vehicle editor  *)
(* read it again, the editor before a series of prompts.                   *)
(*                                                                         *)
(* Which of its pages a tab shows is left out: a button is pressed on the  *)
(* page drawn last, and any page can be drawn again at any moment, with    *)
(* the same effect whichever it is.                                        *)
(***************************************************************************)
EXTENDS Browser

CONSTANTS
    SeedInYard, SeedHeld, SeedReady,    \* V-001, V-002, V-003 of seed
    NewCars,        \* the vehicles the intake form can register
    Lists,          \* the lists whose rows nobody reads again
    MaxChanges      \* bound: changes saved, all tabs together

ASSUME SeedAssumption ==
    SeedInYard # SeedHeld /\ SeedHeld # SeedReady /\ SeedReady # SeedInYard
ASSUME ListsAssumption ==
    Lists \subseteq {"inspection", "documents", "customers", "keys", "billing", "lpr"}
ASSUME MaxChangesAssumption == MaxChanges \in Nat

VARIABLES
    document,   \* localStorage 'parking-pejam-demo-sandbox-v3'
    view,       \* per tab, the document its buttons captured when last drawn
    editor,     \* per tab, the document read when the prompts began, or Nothing
    changes     \* changes saved so far

sandboxVars == <<document, view, editor, changes>>

Cars      == {SeedInYard, SeedHeld, SeedReady} \cup NewCars
CarStatus == {"Received", "In yard", "Ready", "Hold", "Dispatched"}
GateKind  == {"Gate-In", "Gate-Out"}

\* seed, with the vehicles in list order; filed counts the rows of the lists.
Seed ==
    [cars   |-> <<SeedInYard, SeedHeld, SeedReady>>,
     status |-> [c \in Cars |-> CASE c = SeedInYard -> "In yard"
                                  [] c = SeedHeld   -> "Hold"
                                  [] c = SeedReady  -> "Ready"
                                  [] OTHER          -> "Received"],
     holds  |-> <<[car |-> SeedHeld, active |-> TRUE]>>,
     gates  |-> <<[car |-> SeedInYard, kind |-> "Gate-In"]>>,
     loads  |-> 0,
     filed  |-> [l \in Lists |-> 0],
     audit  |-> 0]

\* addButton injects the dialog at load: deep finds nothing, render saves the seed.
SandboxInit ==
    /\ document = Seed
    /\ view     = [t \in Tabs |-> Seed]
    /\ editor   = [t \in Tabs |-> Nothing]
    /\ changes  = 0

\* The first vehicle of the list that a button may act on.
IsFirst(d, c, statuses) ==
    \E i \in 1..Len(d.cars) :
        /\ d.cars[i] = c
        /\ d.status[c] \in statuses
        /\ \A j \in 1..(i - 1) : d.status[d.cars[j]] \notin statuses

\* A prompt is modal: until it is answered, nothing else happens in the tab.
Unprompted(t) == editor[t] = Nothing

\* save, then render, which reads back what was saved.
SaveAndRender(t, d) ==
    /\ changes < MaxChanges
    /\ changes'  = changes + 1
    /\ document' = d
    /\ view'     = [view EXCEPT ![t] = d]
    /\ editor'   = [editor EXCEPT ![t] = Nothing]

\* A button of the navigation, or the button that opens the dialog.
RenderPage(t) ==
    /\ Unprompted(t)
    /\ view' = [view EXCEPT ![t] = document]
    /\ UNCHANGED <<document, editor, changes>>

\* Reset removes the key; render stores the seed again.
ResetSandbox(t) ==
    /\ Unprompted(t)
    /\ SaveAndRender(t, Seed)

\* The intake form: in the yard when a slot was typed in.
Register(t, c, slot) ==
    LET d == view[t]
    IN  /\ Unprompted(t)
        /\ \A i \in 1..Len(d.cars) : d.cars[i] # c
        /\ SaveAndRender(t,
               [d EXCEPT !.cars      = Unshift(c, @),
                         !.status[c] = IF slot THEN "In yard" ELSE "Received",
                         !.audit     = @ + 1])

AddHold(t, c) ==
    LET d == view[t]
    IN  /\ Unprompted(t)
        /\ IsFirst(d, c, CarStatus \ {"Dispatched"})
        /\ SaveAndRender(t,
               [d EXCEPT !.holds     = Unshift([car |-> c, active |-> TRUE], @),
                         !.status[c] = "Hold",
                         !.audit     = @ + 1])

\* Mutant: clearing a hold leaves the status alone.
ClearHoldOnly(t, i) ==
    LET d == view[t]
    IN  /\ Unprompted(t)
        /\ i \in 1..Len(d.holds) /\ d.holds[i].active
        /\ SaveAndRender(t, [d EXCEPT !.holds[i].active = FALSE])

\* Clear: back in the yard, whatever the status and the other holds say.
ClearHold(t, i) ==
    LET d == view[t]
    IN  /\ Unprompted(t)
        /\ i \in 1..Len(d.holds) /\ d.holds[i].active
        /\ SaveAndRender(t,
               [d EXCEPT !.holds[i].active        = FALSE,
                         !.status[d.holds[i].car] = "In yard"])

\* Mutant: the gate takes any vehicle of the list.
GateActionAnyCar(t, c, kind) ==
    LET d == document
    IN  /\ Unprompted(t)
        /\ IsFirst(d, c, CarStatus)
        /\ SaveAndRender(t,
               [d EXCEPT !.gates     = Unshift([car |-> c, kind |-> kind], @),
                         !.status[c] = IF kind = "Gate-Out" THEN "Dispatched" ELSE @,
                         !.audit     = @ + 1])

\* gateAction: reads again, never looks at the holds.
GateAction(t, c, kind) ==
    LET d == document
    IN  /\ Unprompted(t)
        /\ IsFirst(d, c, CarStatus \ {"Dispatched"})
        /\ SaveAndRender(t,
               [d EXCEPT !.gates     = Unshift([car |-> c, kind |-> kind], @),
                         !.status[c] = IF kind = "Gate-Out" THEN "Dispatched" ELSE "In yard",
                         !.audit     = @ + 1])

\* Prepare dispatch: the first vehicle ready or in the yard; no audit row.
PrepareLoad(t, c) ==
    LET d == view[t]
    IN  /\ Unprompted(t)
        /\ IsFirst(d, c, {"Ready", "In yard"})
        /\ SaveAndRender(t, [d EXCEPT !.loads = @ + 1, !.status[c] = "Ready"])

\* Inspection, documents, customers, keys, billing, LPR: one more row; only an
\* inspection is audited.
FileRow(t, l) ==
    LET d == view[t]
    IN  /\ Unprompted(t)
        /\ SaveAndRender(t,
               [d EXCEPT !.filed[l] = @ + 1,
                         !.audit    = IF l = "inspection" THEN @ + 1 ELSE @])

\* editVehicle reads the document and opens the first prompt.
BeginEdit(t, c) ==
    /\ Unprompted(t)
    /\ \E i \in 1..Len(view[t].cars) : view[t].cars[i] = c
    /\ \E i \in 1..Len(document.cars) : document.cars[i] = c
    /\ editor' = [editor EXCEPT ![t] = document]
    /\ UNCHANGED <<document, view, changes>>

\* The last prompt is answered: what was read before the first one is saved.
FinishEdit(t) ==
    /\ editor[t] # Nothing
    /\ SaveAndRender(t, [editor[t] EXCEPT !.audit = @ + 1])

\* The first prompt is cancelled.
CancelEdit(t) ==
    /\ editor[t] # Nothing
    /\ editor' = [editor EXCEPT ![t] = Nothing]
    /\ UNCHANGED <<document, view, changes>>

SandboxNext ==
    \E t \in Tabs :
        \/ RenderPage(t)
        \/ ResetSandbox(t)
        \/ \E c \in NewCars, slot \in BOOLEAN : Register(t, c, slot)
        \/ \E c \in Cars :
               \/ AddHold(t, c)
               \/ \E kind \in GateKind : GateAction(t, c, kind)
               \/ PrepareLoad(t, c)
               \/ BeginEdit(t, c)
        \/ \E i \in 1..(MaxChanges + 1) : ClearHold(t, i)
        \/ \E l \in Lists : FileRow(t, l)
        \/ FinishEdit(t)
        \/ CancelEdit(t)

SandboxSpec == SandboxInit /\ [][SandboxNext]_sandboxVars

-----------------------------------------------------------------------------

SandboxDocument ==
    [cars   : Seq(Cars),
     status : [Cars -> CarStatus],
     holds  : Seq([car : Cars, active : BOOLEAN]),
     gates  : Seq([car : Cars, kind : GateKind]),
     loads  : Nat,
     filed  : [Lists -> Nat],
     audit  : Nat]

SandboxTypeOK ==
    /\ document \in SandboxDocument
    /\ view \in [Tabs -> SandboxDocument]
    /\ editor \in [Tabs -> SandboxDocument \cup {Nothing}]
    /\ changes \in 0..MaxChanges

\* The documents in play: the stored one and those the tabs may still save.
InPlay ==
    ({document} \cup {view[t] : t \in Tabs} \cup {editor[t] : t \in Tabs})
        \ {Nothing}

\* A vehicle shown with status Hold has an active hold behind it, in the stored
\* document and in every one a tab may still save: clearing the last hold of a
\* vehicle, or driving it through the gate, always takes the status away too.
HoldStatusHasActiveHold ==
    \A d \in InPlay, c \in Cars :
        d.status[c] = "Hold" =>
            \E i \in 1..Len(d.holds) : d.holds[i].car = c /\ d.holds[i].active

\* A dispatched vehicle left through the gate and has not come back since: its
\* newest gate row is a Gate-Out, whatever was held, cleared, edited or
\* overwritten by another tab in between.
GateTrailMatches ==
    \A d \in InPlay, c \in Cars :
        d.status[c] = "Dispatched" =>
            \E i \in 1..Len(d.gates) :
                /\ d.gates[i] = [car |-> c, kind |-> "Gate-Out"]
                /\ \A j \in 1..(i - 1) : d.gates[j].car # c
=============================================================================
