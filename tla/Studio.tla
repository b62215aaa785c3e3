------------------------------- MODULE Studio -------------------------------
(***************************************************************************)
(* The four cards of docs/demo-studio.js: tally form, vehicle register,    *)
(* dispatch and license.  Each tab loads the stored state once and saves   *)
(* its own copy after every form; the dialogs are modal, and a tab changes *)
(* its copy only through them, so opening one and submitting it is a step. *)
(***************************************************************************)
EXTENDS Browser

CONSTANTS
    StudioCars,     \* ids the tally form can draw (crypto.randomUUID)
    MaxForms        \* bound: forms submitted, all tabs together

ASSUME StudioCarsAssumption == IsFiniteSet(StudioCars)
ASSUME MaxFormsAssumption == MaxForms \in Nat

VARIABLES
    studioStore,    \* localStorage 'parkingPejam.demoStudio.v1', or Nothing
    studio,         \* per tab, the constant state
    drawn,          \* the ids drawn so far: no id is drawn twice
    forms           \* forms submitted so far

studioVars == <<studioStore, studio, drawn, forms>>

StudioStatus == {"Received", "Dispatched"}

\* defaults; tally.declared and the license never change.
StudioDefaults == [cars |-> [c \in {} |-> "Received"], received |-> 0]

StudioInit ==
    /\ studioStore = Nothing
    /\ studio = [t \in Tabs |-> StudioDefaults]
    /\ drawn  = {}
    /\ forms  = 0

StillThere(cars) == {c \in DOMAIN cars : cars[c] # "Dispatched"}

\* The end of the tally form: received is counted again.
Counted(cars) == [cars |-> cars, received |-> Cardinality(StillThere(cars))]

SubmitForm(t, s) ==
    /\ forms < MaxForms
    /\ forms'       = forms + 1
    /\ studio'      = [studio EXCEPT ![t] = s]
    /\ studioStore' = s

\* Mutant: received is counted before the new vehicle is in the list.
RegisterCountedBefore(t, c) ==
    LET cars == studio[t].cars
    IN  /\ c \notin drawn
        /\ drawn' = drawn \cup {c}
        /\ SubmitForm(t, [Counted(cars) EXCEPT !.cars =
                             [d \in DOMAIN cars \cup {c} |->
                                 IF d = c THEN "Received" ELSE cars[d]]])

\* The tally form for a new vehicle.
RegisterArrival(t, c) ==
    LET cars == studio[t].cars
    IN  /\ c \notin drawn
        /\ drawn' = drawn \cup {c}
        /\ SubmitForm(t, Counted([d \in DOMAIN cars \cup {c} |->
                                     IF d = c THEN "Received" ELSE cars[d]]))

\* Mutant: the form gives every vehicle it saves the status Received.
EditRecordReceived(t, c) ==
    /\ c \in DOMAIN studio[t].cars
    /\ SubmitForm(t, Counted([studio[t].cars EXCEPT ![c] = "Received"]))
    /\ UNCHANGED drawn

\* The form opened from the register, on a departed vehicle too: id, status and
\* entry time are kept.
EditRecord(t, c) ==
    /\ c \in DOMAIN studio[t].cars
    /\ SubmitForm(t, Counted(studio[t].cars))
    /\ UNCHANGED drawn

\* Dispatch offers the vehicles still there and does not count again.
DispatchRecord(t, c) ==
    /\ c \in StillThere(studio[t].cars)
    /\ SubmitForm(t, [studio[t] EXCEPT !.cars[c] = "Dispatched"])
    /\ UNCHANGED drawn

\* The reset button of the license card stores the same license, and with it
\* this tab's copy of everything else.
ResetLicense(t) ==
    /\ SubmitForm(t, studio[t])
    /\ UNCHANGED drawn

ReloadStudio(t) ==
    /\ studio' = [studio EXCEPT ![t] = IF studioStore = Nothing THEN StudioDefaults
                                       ELSE studioStore]
    /\ UNCHANGED <<studioStore, drawn, forms>>

\* Reset Demo Data: the key is removed and this tab loads again.
ResetStudio(t) ==
    /\ studioStore' = Nothing
    /\ studio' = [studio EXCEPT ![t] = StudioDefaults]
    /\ UNCHANGED <<drawn, forms>>

StudioNext ==
    \E t \in Tabs :
        \/ \E c \in StudioCars :
               \/ RegisterArrival(t, c)
               \/ EditRecord(t, c)
               \/ DispatchRecord(t, c)
        \/ ResetLicense(t)
        \/ ReloadStudio(t)
        \/ ResetStudio(t)

StudioSpec == StudioInit /\ [][StudioNext]_studioVars

-----------------------------------------------------------------------------

StudioState ==
    [cars : UNION {[S -> StudioStatus] : S \in SUBSET StudioCars}, received : Nat]

StudioTypeOK ==
    /\ studioStore \in StudioState \cup {Nothing}
    /\ studio \in [Tabs -> StudioState]
    /\ drawn \subseteq StudioCars
    /\ forms \in 0..MaxForms

\* The tally is never below what stands in the yard nor above what came in: it
\* goes stale when a vehicle leaves and is put right by the next tally form.
TallyCoversYard ==
    \A t \in Tabs :
        /\ Cardinality(StillThere(studio[t].cars)) <= studio[t].received
        /\ studio[t].received <= Cardinality(DOMAIN studio[t].cars)

\* In a tab, a departed vehicle comes back only by loading the page again:
\* editing its record, clearing the license or registering others keeps it out.
DepartedStaysDeparted ==
    [][\A t \in Tabs :
           (~ReloadStudio(t) /\ ~ResetStudio(t)) =>
               \A c \in DOMAIN studio[t].cars :
                   studio[t].cars[c] = "Dispatched" =>
                       /\ c \in DOMAIN studio'[t].cars
                       /\ studio'[t].cars[c] = "Dispatched"]_studioVars
=============================================================================
