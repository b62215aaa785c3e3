------------------------------ MODULE Language ------------------------------
(***************************************************************************)
(* The language switch of the static demo.  app.js translates the page and *)
(* stores the language inside the click; the scripts loaded after it hang  *)
(* their own listener on the same buttons and catch up in a timer:         *)
(* import-branding.js puts its headlines back over those of app.js, and    *)
(* dispatch-ui.js, ops-console.js and demo-sandbox.js relabel the button   *)
(* each of them added, from localStorage.                                  *)
(***************************************************************************)
EXTENDS Browser

CONSTANTS
    Languages,      \* "en" is the default and the fallback
    LateLabels,     \* the buttons labelled from localStorage in a timer
    MaxSwitches     \* bound: clicks on a language button

ASSUME LanguagesAssumption == "en" \in Languages /\ Nothing \notin Languages
ASSUME LateLabelsAssumption == "headline" \notin LateLabels
ASSUME MaxSwitchesAssumption == MaxSwitches \in Nat

VARIABLES
    storedLang, \* localStorage 'parking-pejam-lang', or Nothing
    pageLang,   \* per tab, lang of app.js and <html lang>, set together
    headline,   \* per tab, who wrote the headlines last, and in what language
    labels,     \* per tab, the language of each late label
    due,        \* per tab, the timers not yet fired: "headline" or a label
    switches,   \* clicks so far
    disturbed   \* per tab, another tab's click, or a refused setItem, came
                \* between its last click and its timers (for checking only)

languageVars ==
    <<storedLang, pageLang, headline, labels, due, switches, disturbed>>

Late == LateLabels \cup {"headline"}

StoredOrEnglish == IF storedLang = Nothing THEN "en" ELSE storedLang

LanguageInit ==
    /\ storedLang = Nothing
    /\ pageLang   = [t \in Tabs |-> "en"]
    /\ headline   = [t \in Tabs |-> [by |-> "branding", in |-> "en"]]
    /\ labels     = [t \in Tabs |-> [w \in LateLabels |-> "en"]]
    /\ due        = [t \in Tabs |-> [w \in Late |-> 0]]
    /\ switches   = 0
    /\ disturbed  = [t \in Tabs |-> FALSE]

\* Mutant: import-branding.js listens to the first click only.
LateAfterFirst(t) ==
    IF switches = 0 THEN [w \in Late |-> due[t][w] + 1]
    ELSE [w \in Late |-> due[t][w] + IF w = "headline" THEN 0 ELSE 1]

\* Every late script schedules one more timer for this click.
Scheduled(t) == [w \in Late |-> due[t][w] + 1]

\* A .lang button: app.js stores and translates, the others only schedule.
\* safeSet swallows a setItem that throws.
SwitchLanguage(t, l, written) ==
    /\ switches < MaxSwitches
    /\ switches'   = switches + 1
    /\ storedLang' = IF written THEN l ELSE storedLang
    /\ pageLang'   = [pageLang EXCEPT ![t] = l]
    /\ headline'   = [headline EXCEPT ![t] = [by |-> "app", in |-> l]]
    /\ due'        = [due EXCEPT ![t] = Scheduled(t)]
    /\ disturbed'  = [u \in Tabs |->
                        IF u = t THEN ~written
                        ELSE disturbed[u] \/ \E w \in LateLabels : due[u][w] > 0]
    /\ UNCHANGED labels

Fired(t, w) ==
    /\ due[t][w] > 0
    /\ due' = [due EXCEPT ![t][w] = @ - 1]

\* apply of import-branding.js, 20 ms after the click.
BrandHeadline(t) ==
    /\ Fired(t, "headline")
    /\ headline' = [headline EXCEPT ![t] = [by |-> "branding", in |-> pageLang[t]]]
    /\ UNCHANGED <<storedLang, pageLang, labels, switches, disturbed>>

\* The label of an added button, 30 or 40 ms after the click.
Relabel(t, w) ==
    /\ Fired(t, w)
    /\ labels' = [labels EXCEPT ![t][w] = StoredOrEnglish]
    /\ UNCHANGED <<storedLang, pageLang, headline, switches, disturbed>>

\* The page is loaded again: every script reads the stored language at once.
ReloadPage(t) ==
    /\ pageLang'  = [pageLang EXCEPT ![t] = StoredOrEnglish]
    /\ headline'  = [headline EXCEPT ![t] = [by |-> "branding", in |-> StoredOrEnglish]]
    /\ labels'    = [labels EXCEPT ![t] = [w \in LateLabels |-> StoredOrEnglish]]
    /\ due'       = [due EXCEPT ![t] = [w \in Late |-> 0]]
    /\ disturbed' = [disturbed EXCEPT ![t] = FALSE]
    /\ UNCHANGED <<storedLang, switches>>

LanguageTimer(t) ==
    \/ BrandHeadline(t)
    \/ \E w \in LateLabels : Relabel(t, w)

LanguageNext ==
    \E t \in Tabs :
        \/ \E l \in Languages, written \in BOOLEAN : SwitchLanguage(t, l, written)
        \/ LanguageTimer(t)
        \/ ReloadPage(t)

\* A timer that is due fires; nobody has to click.
LanguageFairness == \A t \in Tabs : WF_languageVars(LanguageTimer(t))

LanguageSpec == LanguageInit /\ [][LanguageNext]_languageVars /\ LanguageFairness

-----------------------------------------------------------------------------

LanguageTypeOK ==
    /\ storedLang \in Languages \cup {Nothing}
    /\ pageLang \in [Tabs -> Languages]
    /\ headline \in [Tabs -> [by : {"app", "branding"}, in : Languages]]
    /\ labels \in [Tabs -> [LateLabels -> Languages]]
    /\ due \in [Tabs -> [Late -> 0..MaxSwitches]]
    /\ switches \in 0..MaxSwitches
    /\ disturbed \in [Tabs -> BOOLEAN]

OneLanguage(t) ==
    /\ headline[t] = [by |-> "branding", in |-> pageLang[t]]
    /\ ~disturbed[t] => \A w \in LateLabels : labels[t][w] = pageLang[t]

\* However fast the buttons are clicked, each tab ends up in one language: the
\* headlines are those of the import product again, in the page's language, and
\* every added button is labelled in it, unless another tab's choice was stored
\* (or the own one refused) before the timers read localStorage.
LanguageSettles == \A t \in Tabs : <>[]OneLanguage(t)
=============================================================================
