----------------------------- MODULE OpsCenter -----------------------------
(***************************************************************************)
(* The dialog of wwwroot/operations-center.js: thirteen tabs drawn into    *)
(* one element, opsBody, and one list of vehicles that the search box of   *)
(* the first tab reloads.  A tab is marked active by the click itself; its *)
(* body is written at once, or after an await, or at once with rows added  *)
(* after an await.  Nothing cancels a call when another tab is chosen, and *)
(* answers come in any order.  Any call may be answered or fail here; as   *)
(* the license middleware stands (Licensing), those for a path of a module *)
(* always fail, so that the code has some of these behaviours only.        *)
(***************************************************************************)
EXTENDS Browser

CONSTANTS
    PlainTabs,      \* drawn at once: inspection, gate, billing, ...
    FetchedTabs,    \* drawn after an await: manifest, aging
    RowsTabs,       \* drawn at once, rows after an await: yard, customer
    Texts,          \* what is typed into the search box; "" at first
    MaxClicks,      \* bound: clicks on tabs, buttons and in the search box
    MaxOut          \* bound: calls out at once

ASSUME OpsTabsAssumption ==
    /\ PlainTabs \cap FetchedTabs = {} /\ PlainTabs \cap RowsTabs = {}
    /\ FetchedTabs \cap RowsTabs = {}
    /\ "vehicles" \in PlainTabs
ASSUME OpsBounds == MaxClicks \in Nat /\ MaxOut \in Nat

VARIABLES
    active,     \* the tab marked active
    body,       \* the tab opsBody belongs to, and how it stands
    calls,      \* the calls out: for which tab, and which click made them
    clicks,     \* clicks so far; also numbers the calls
    overtaken,  \* an answer wrote into the body of another tab since the last
                \* click on a tab (for checking only)
    cached,     \* the search text vehicleCache answers, or Failed
    asked       \* the searches out, by the click that made them

opsVars ==
    <<active, body, calls, clicks, overtaken, cached, asked>>

OpsTabs == PlainTabs \cup FetchedTabs \cup RowsTabs
Step    == {"draw", "rows", "add"}
Call    == [tab : OpsTabs, step : Step, click : 1..MaxClicks]
Body    == [tab : OpsTabs, state : {"form", "rows", "error"}]

\* open has awaited the vehicles and the figures and drawn the first tab.
OpsInit ==
    /\ active = "vehicles"
    /\ body   = [tab |-> "vehicles", state |-> "form"]
    /\ calls = {} /\ clicks = 0 /\ overtaken = FALSE
    /\ cached = "" /\ asked = {}

searchVars == <<cached, asked>>

NextClick ==
    /\ clicks < MaxClicks
    /\ clicks' = clicks + 1

CallOut(tab, step) ==
    /\ Cardinality(calls) < MaxOut
    /\ calls' = calls \cup {[tab |-> tab, step |-> step, click |-> clicks']}

\* renderTab up to its first await.
ClickTab(tab) ==
    /\ NextClick
    /\ active'    = tab
    /\ overtaken' = FALSE
    /\ body'      = IF tab \in FetchedTabs THEN body ELSE [tab |-> tab, state |-> "form"]
    /\ IF tab \in FetchedTabs THEN CallOut(tab, "draw")
       ELSE IF tab \in RowsTabs THEN CallOut(tab, "rows")
       ELSE UNCHANGED calls
    /\ UNCHANGED searchVars

\* The Add or Create button of a tab whose list is loaded again afterwards.
ClickAdd ==
    /\ NextClick
    /\ body.tab \in RowsTabs \cup {"manifest"}
    /\ body.state # "error"
    /\ CallOut(body.tab, "add")
    /\ UNCHANGED <<active, body, overtaken, searchVars>>

\* What an answer writes, and whether the reader has moved on.
Write(tab, state) ==
    /\ body'      = [tab |-> tab, state |-> state]
    /\ overtaken' = (overtaken \/ tab # active)

Land(c) == calls' = calls \ {c}

GoOn(c, step) == calls' = (calls \ {c}) \cup {[c EXCEPT !.step = step]}

\* Mutant: an await that fails leaves the body as it is.
TabCallFailsSilently(c) ==
    /\ c.step \in {"draw", "rows"}
    /\ Land(c)
    /\ UNCHANGED <<active, body, overtaken, clicks, searchVars>>

\* The catch clause of renderTab writes the error into the body.
TabCallFails(c) ==
    /\ c.step \in {"draw", "rows"}
    /\ Land(c)
    /\ Write(c.tab, "error")
    /\ UNCHANGED <<active, clicks, searchVars>>

\* manifest goes on to its rows, aging is done.
TabDrawn(c) ==
    /\ c.step = "draw"
    /\ Write(c.tab, "form")
    /\ IF c.tab = "manifest" THEN GoOn(c, "rows") ELSE Land(c)
    /\ UNCHANGED <<active, clicks, searchVars>>

\* The rows find their element in the body they belong to; in another one they
\* find null, and the TypeError ends in the same catch clause.
RowsArrive(c) ==
    /\ c.step = "rows"
    /\ Land(c)
    /\ IF body.tab = c.tab /\ body.state # "error" THEN Write(c.tab, "rows")
       ELSE Write(c.tab, "error")
    /\ UNCHANGED <<active, clicks, searchVars>>

\* The POST of a button is done: manifest is rendered again, which also marks
\* it active; yard and customer load their rows (one more call, taken with the
\* POST as one) and only alert when the element is gone.
AddAnswers(c) ==
    /\ c.step = "add"
    /\ IF c.tab = "manifest"
       THEN GoOn(c, "draw") /\ active' = "manifest" /\ overtaken' = FALSE
       ELSE Land(c) /\ UNCHANGED <<active, overtaken>>
    /\ body' = IF c.tab = body.tab /\ c.tab # "manifest" /\ body.state # "error"
               THEN [body EXCEPT !.state = "rows"] ELSE body
    /\ UNCHANGED <<clicks, searchVars>>

AddFails(c) ==
    /\ c.step = "add"
    /\ Land(c)
    /\ UNCHANGED <<active, body, overtaken, clicks, searchVars>>

\* A keystroke in the search box of the vehicle tab.
TypeSearch(text) ==
    /\ NextClick
    /\ body.tab = "vehicles"
    /\ Cardinality(asked) < MaxOut
    /\ asked' = asked \cup {[text |-> text, click |-> clicks']}
    /\ UNCHANGED <<active, body, calls, overtaken, cached>>

SearchLands(a) ==
    /\ asked' = asked \ {a}
    /\ UNCHANGED <<active, body, calls, clicks, overtaken>>

\* The list becomes the answer that came last, of whichever text.
SearchAnswers(a) ==
    /\ SearchLands(a)
    /\ cached' = a.text

\* The catch clause of refreshVehicles empties the list.
SearchFails(a) ==
    /\ SearchLands(a)
    /\ cached' = Failed

OpsNext ==
    \/ \E tab \in OpsTabs : ClickTab(tab)
    \/ ClickAdd
    \/ \E c \in calls :
           TabCallFails(c) \/ TabDrawn(c) \/ RowsArrive(c) \/ AddAnswers(c) \/ AddFails(c)
    \/ \E text \in Texts : TypeSearch(text)
    \/ \E a \in asked : SearchAnswers(a) \/ SearchFails(a)

OpsSpec == OpsInit /\ [][OpsNext]_opsVars

-----------------------------------------------------------------------------

Search == [text : Texts, click : 1..MaxClicks]

OpsTypeOK ==
    /\ active \in OpsTabs
    /\ body \in Body
    /\ calls \subseteq Call
    /\ clicks \in 0..MaxClicks
    /\ overtaken \in BOOLEAN
    /\ cached \in Texts \cup {"", Failed}
    /\ asked \subseteq Search

\* A click on a tab is never lost: whatever fails, the body ends up being that
\* of the tab marked active, with its form, its rows or an error, unless the
\* answer to a tab chosen before came after it.  (Such an answer does write
\* into the newer tab: renderTab never looks at the tab that is active by then.)
BodyMatchesTab ==
    (~overtaken /\ ~\E c \in calls : c.step = "draw" /\ c.tab = active)
        => body.tab = active
=============================================================================
