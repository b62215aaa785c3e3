---------------------------- MODULE BrowserProofs ----------------------------
(***************************************************************************)
(* Theorems about the language switch and the operator's page, and about   *)
(* all the scripts of the browser together: the specification TLC checks   *)
(* is an instance of each script's own, so that whatever is proved of a    *)
(* script holds of the run, for every value of the constants.              *)
(***************************************************************************)
EXTENDS MCBrowser, ShowcaseProofs, SandboxProofs, StudioProofs, DialogProofs

-----------------------------------------------------------------------------
(* The language switch: what the timers of a tab may rely on.              *)

\* Once all timers of a tab have fired it is in one language (as far as no
\* other tab's click, or a refused setItem, came before them).
TimersDone == \A t \in Tabs : (\A w \in Late : due[t][w] = 0) => OneLanguage(t)

\* A timer still due for each thing that is not yet in the page's language, and
\* the language it will read is the page's.
LanguageInv ==
    /\ LanguageTypeOK
    /\ \A t \in Tabs :
           /\ \A w \in Late : due[t][w] <= switches
           /\ due[t]["headline"] = 0 =>
                  headline[t] = [by |-> "branding", in |-> pageLang[t]]
           /\ ~disturbed[t] =>
                  \A w \in LateLabels :
                      \/ due[t][w] = 0 /\ labels[t][w] = pageLang[t]
                      \/ due[t][w] > 0 /\ StoredOrEnglish = pageLang[t]

LEMMA LanguageInvInit == LanguageInit => LanguageInv
  <1> SUFFICES ASSUME LanguageInit PROVE LanguageInv
    OBVIOUS
  <1>1. LanguageTypeOK
    BY LanguagesAssumption, MaxSwitchesAssumption DEF LanguageInit, LanguageTypeOK
  <1>2. "headline" \in Late /\ LateLabels \subseteq Late
    BY DEF Late
  <1> QED BY <1>1, <1>2 DEF LanguageInit, LanguageInv
\* What a timer that fires takes off the timers due.
LEMMA FiredOnce ==
  ASSUME LanguageInv, NEW t \in Tabs, NEW w \in Late, Fired(t, w)
  PROVE  /\ due' \in [Tabs -> [Late -> 0..MaxSwitches]]
         /\ due[t][w] > 0
         /\ \A u \in Tabs, x \in Late :
                due'[u][x] = IF u = t /\ x = w THEN due[t][w] - 1 ELSE due[u][x]
  <1>1. /\ due \in [Tabs -> [Late -> 0..MaxSwitches]] /\ due[t] \in [Late -> 0..MaxSwitches]
        /\ due[t][w] \in 0..MaxSwitches
    BY DEF LanguageInv, LanguageTypeOK
  <1>2. /\ due[t][w] > 0 /\ due[t][w] - 1 \in 0..MaxSwitches
        /\ due' = [due EXCEPT ![t] = [due[t] EXCEPT ![w] = due[t][w] - 1]]
    BY <1>1, MaxSwitchesAssumption DEF Fired
  <1>3. [due[t] EXCEPT ![w] = due[t][w] - 1] \in [Late -> 0..MaxSwitches]
    BY <1>1, <1>2
  <1> QED BY <1>1, <1>2, <1>3

LEMMA SwitchKeepsInv ==
  ASSUME LanguageInv, NEW t \in Tabs, NEW l \in Languages, NEW written \in BOOLEAN,
         SwitchLanguage(t, l, written)
  PROVE  LanguageInv'
  <1>a. /\ due \in [Tabs -> [Late -> 0..MaxSwitches]]
        /\ switches \in Nat /\ switches < MaxSwitches /\ switches' = switches + 1
    BY MaxSwitchesAssumption DEF LanguageInv, LanguageTypeOK, SwitchLanguage
  <1>b. \A u \in Tabs, w \in Late : due[u][w] \in Nat /\ due[u][w] <= switches
    <2>1. ASSUME NEW u \in Tabs, NEW w \in Late PROVE due[u][w] \in Nat
      BY <1>a, MaxSwitchesAssumption
    <2> QED BY <2>1 DEF LanguageInv
  <1>0. /\ due \in [Tabs -> [Late -> 0..MaxSwitches]]
        /\ switches \in Nat /\ switches < MaxSwitches /\ switches' = switches + 1
        /\ "headline" \in Late /\ LateLabels \subseteq Late
        /\ \A u \in Tabs, w \in Late : due[u][w] \in Nat /\ due[u][w] <= switches
    BY <1>a, <1>b DEF Late
  <1>1. /\ storedLang' = (IF written THEN l ELSE storedLang)
        /\ pageLang' = [pageLang EXCEPT ![t] = l]
        /\ headline' = [headline EXCEPT ![t] = [by |-> "app", in |-> l]]
        /\ due' = [due EXCEPT ![t] = [w \in Late |-> due[t][w] + 1]]
        /\ labels' = labels
    BY DEF SwitchLanguage, Scheduled
  <1>2. disturbed' = [u \in Tabs |-> IF u = t THEN ~written
                         ELSE disturbed[u] \/ \E w \in LateLabels : due[u][w] > 0]
    BY DEF SwitchLanguage
  <1>3. \A w \in Late : due[t][w] + 1 \in 0..MaxSwitches
    BY <1>0, MaxSwitchesAssumption
  <1>4. due' \in [Tabs -> [Late -> 0..MaxSwitches]]
    BY <1>0, <1>1, <1>3
  <1>5. \A u \in Tabs, w \in Late :
            due'[u][w] = IF u = t THEN due[u][w] + 1 ELSE due[u][w]
    BY <1>0, <1>1
  <1>6. disturbed' \in [Tabs -> BOOLEAN]
    BY <1>2, Zenon
  <1>7. LanguageTypeOK'
    BY <1>0, <1>1, <1>4, <1>6, MaxSwitchesAssumption DEF LanguageInv, LanguageTypeOK
  <1>8. \A u \in Tabs, w \in Late : due'[u][w] <= switches'
    BY <1>0, <1>5
  <1>9. \A u \in Tabs : due'[u]["headline"] = 0 =>
                            headline'[u] = [by |-> "branding", in |-> pageLang'[u]]
    BY <1>0, <1>1, <1>5 DEF LanguageInv, LanguageTypeOK
  <1>10. ASSUME NEW u \in Tabs, ~disturbed'[u], NEW w \in LateLabels
         PROVE  \/ due'[u][w] = 0 /\ labels'[u][w] = pageLang'[u]
                \/ due'[u][w] > 0 /\ StoredOrEnglish' = pageLang'[u]
    <2>1. CASE u = t
      <3>1. written
        BY <1>2, <1>10, <2>1
      <3>2. StoredOrEnglish' = l
        BY <1>1, <3>1, LanguagesAssumption DEF StoredOrEnglish
      <3> QED BY <1>0, <1>1, <1>5, <2>1, <3>2 DEF LanguageInv, LanguageTypeOK
    <2>2. CASE u # t
      <3>1. ~disturbed[u] /\ ~(due[u][w] > 0)
        BY <1>2, <1>10, <2>2
      <3>2. due[u][w] = 0 /\ labels[u][w] = pageLang[u]
        BY <3>1 DEF LanguageInv
      <3> QED BY <1>0, <1>1, <1>5, <2>2, <3>2 DEF LanguageInv, LanguageTypeOK
    <2> QED BY <2>1, <2>2
  <1> QED BY <1>7, <1>8, <1>9, <1>10 DEF LanguageInv

LEMMA LanguageInvStep == LanguageInv /\ [LanguageNext]_languageVars => LanguageInv'
  <1> SUFFICES ASSUME LanguageInv, [LanguageNext]_languageVars PROVE LanguageInv'
    OBVIOUS
  <1>0. /\ "headline" \in Late /\ LateLabels \subseteq Late
        /\ StoredOrEnglish \in Languages
        /\ \A u \in Tabs, w \in Late : due[u][w] \in Nat /\ due[u][w] <= switches
        /\ switches \in Nat
    BY MaxSwitchesAssumption, LanguagesAssumption
    DEF LanguageInv, LanguageTypeOK, Late, StoredOrEnglish
  <1>1. ASSUME NEW t \in Tabs, BrandHeadline(t) PROVE LanguageInv'
    <2>1. /\ Fired(t, "headline")
          /\ headline' = [headline EXCEPT ![t] = [by |-> "branding", in |-> pageLang[t]]]
          /\ UNCHANGED <<storedLang, pageLang, labels, switches, disturbed>>
      BY <1>1 DEF BrandHeadline
    <2>2. /\ due' \in [Tabs -> [Late -> 0..MaxSwitches]] /\ due[t]["headline"] > 0
          /\ \A u \in Tabs, x \in Late :
                 due'[u][x] = IF u = t /\ x = "headline" THEN due[t]["headline"] - 1
                              ELSE due[u][x]
      BY <1>0, <2>1, FiredOnce
    <2>3. LanguageTypeOK'
      BY <2>1, <2>2 DEF LanguageInv, LanguageTypeOK
    <2>4. \A u \in Tabs, w \in Late : due'[u][w] <= switches'
      BY <1>0, <2>1, <2>2
    <2>5. \A u \in Tabs : due'[u]["headline"] = 0 =>
                              headline'[u] = [by |-> "branding", in |-> pageLang'[u]]
      BY <1>0, <2>1, <2>2 DEF LanguageInv, LanguageTypeOK
    <2>6. \A u \in Tabs, w \in LateLabels : due'[u][w] = due[u][w]
      BY <1>0, <2>2, LateLabelsAssumption
    <2> QED BY <2>1, <2>3, <2>4, <2>5, <2>6 DEF LanguageInv, StoredOrEnglish
  <1>2. ASSUME NEW t \in Tabs, NEW w \in LateLabels, Relabel(t, w) PROVE LanguageInv'
    <2>1. /\ Fired(t, w)
          /\ labels' = [labels EXCEPT ![t] = [labels[t] EXCEPT ![w] = StoredOrEnglish]]
          /\ UNCHANGED <<storedLang, pageLang, headline, switches, disturbed>>
      BY <1>2 DEF Relabel
    <2>2. /\ due' \in [Tabs -> [Late -> 0..MaxSwitches]] /\ due[t][w] > 0
          /\ \A u \in Tabs, x \in Late :
                 due'[u][x] = IF u = t /\ x = w THEN due[t][w] - 1 ELSE due[u][x]
      BY <1>0, <2>1, FiredOnce
    <2>3. /\ labels' \in [Tabs -> [LateLabels -> Languages]]
          /\ \A u \in Tabs, x \in LateLabels :
                 labels'[u][x] = IF u = t /\ x = w THEN StoredOrEnglish ELSE labels[u][x]
      <3>1. labels \in [Tabs -> [LateLabels -> Languages]]
        BY DEF LanguageInv, LanguageTypeOK
      <3>2. [labels[t] EXCEPT ![w] = StoredOrEnglish] \in [LateLabels -> Languages]
        BY <1>0, <3>1
      <3> QED BY <2>1, <3>1, <3>2
    <2>4. LanguageTypeOK'
      BY <2>1, <2>2, <2>3 DEF LanguageInv, LanguageTypeOK
    <2>5. \A u \in Tabs, x \in Late : due'[u][x] <= switches'
      BY <1>0, <2>1, <2>2
    <2>6. \A u \in Tabs : due'[u]["headline"] = due[u]["headline"]
      BY <1>0, <2>2, LateLabelsAssumption
    <2>7. ASSUME NEW u \in Tabs, ~disturbed'[u], NEW x \in LateLabels
          PROVE  \/ due'[u][x] = 0 /\ labels'[u][x] = pageLang'[u]
                 \/ due'[u][x] > 0 /\ StoredOrEnglish' = pageLang'[u]
      <3>1. /\ ~disturbed[u] /\ StoredOrEnglish' = StoredOrEnglish
            /\ pageLang'[u] = pageLang[u]
        BY <2>1, <2>7 DEF StoredOrEnglish
      <3>2. \/ due[u][x] = 0 /\ labels[u][x] = pageLang[u]
            \/ due[u][x] > 0 /\ StoredOrEnglish = pageLang[u]
        BY <3>1 DEF LanguageInv
      <3> QED BY <1>0, <2>2, <2>3, <3>1, <3>2
    <2> QED BY <2>1, <2>4, <2>5, <2>6, <2>7 DEF LanguageInv
  <1>3. ASSUME NEW t \in Tabs, ReloadPage(t) PROVE LanguageInv'
    <2>1. /\ pageLang' = [pageLang EXCEPT ![t] = StoredOrEnglish]
          /\ headline' = [headline EXCEPT ![t] = [by |-> "branding", in |-> StoredOrEnglish]]
          /\ labels' = [labels EXCEPT ![t] = [w \in LateLabels |-> StoredOrEnglish]]
          /\ due' = [due EXCEPT ![t] = [w \in Late |-> 0]]
          /\ disturbed' = [disturbed EXCEPT ![t] = FALSE]
          /\ UNCHANGED <<storedLang, switches>>
      BY <1>3 DEF ReloadPage
    <2>2. LanguageTypeOK'
      BY <1>0, <2>1, MaxSwitchesAssumption DEF LanguageInv, LanguageTypeOK
    <2>3. \A u \in Tabs, w \in Late : due'[u][w] = IF u = t THEN 0 ELSE due[u][w]
      BY <2>1 DEF LanguageInv, LanguageTypeOK
    <2>4. \A u \in Tabs :
              /\ pageLang'[u] = IF u = t THEN StoredOrEnglish ELSE pageLang[u]
              /\ headline'[u] = IF u = t THEN [by |-> "branding", in |-> StoredOrEnglish]
                                ELSE headline[u]
              /\ disturbed'[u] = IF u = t THEN FALSE ELSE disturbed[u]
              /\ \A w \in LateLabels :
                     labels'[u][w] = IF u = t THEN StoredOrEnglish ELSE labels[u][w]
      BY <2>1 DEF LanguageInv, LanguageTypeOK
    <2>5. StoredOrEnglish' = StoredOrEnglish
      BY <2>1 DEF StoredOrEnglish
    <2>6. \A u \in Tabs, w \in Late : due'[u][w] <= switches'
      BY <1>0, <2>1, <2>3
    <2>7. \A u \in Tabs : due'[u]["headline"] = 0 =>
                              headline'[u] = [by |-> "branding", in |-> pageLang'[u]]
      BY <1>0, <2>3, <2>4 DEF LanguageInv
    <2>8. ASSUME NEW u \in Tabs, ~disturbed'[u], NEW w \in LateLabels
          PROVE  \/ due'[u][w] = 0 /\ labels'[u][w] = pageLang'[u]
                 \/ due'[u][w] > 0 /\ StoredOrEnglish' = pageLang'[u]
      <3>1. CASE u = t
        BY <1>0, <2>3, <2>4, <3>1
      <3>2. CASE u # t
        <4>1. /\ ~disturbed[u] /\ pageLang'[u] = pageLang[u]
              /\ labels'[u][w] = labels[u][w]
          BY <2>4, <2>8, <3>2
        <4>2. due'[u][w] = due[u][w]
          BY <1>0, <2>3, <3>2
        <4>3. \/ due[u][w] = 0 /\ labels[u][w] = pageLang[u]
              \/ due[u][w] > 0 /\ StoredOrEnglish = pageLang[u]
          BY <4>1 DEF LanguageInv
        <4> QED BY <2>5, <4>1, <4>2, <4>3
      <3> QED BY <3>1, <3>2
    <2> QED BY <2>2, <2>6, <2>7, <2>8 DEF LanguageInv
  <1>4. CASE UNCHANGED languageVars
    <2>1. LanguageTypeOK'
      BY <1>4 DEF languageVars, LanguageInv, LanguageTypeOK
    <2> QED BY <1>4, <2>1 DEF languageVars, LanguageInv, StoredOrEnglish
  <1> QED BY <1>1, <1>2, <1>3, <1>4, SwitchKeepsInv DEF LanguageNext, LanguageTimer

\* Languages, headlines and timers stay what the scripts write and count.
THEOREM LanguageTyping == LanguageSpec => []LanguageTypeOK
  <1>1. LanguageInv => LanguageTypeOK
    BY DEF LanguageInv
  <1> QED BY <1>1, LanguageInvInit, LanguageInvStep, PTL DEF LanguageSpec

\* A tab none of whose timers is due is in one language: no script relabels
\* with a language the page has left (apply of import-branding.js, the label
\* timers of dispatch-ui.js, ops-console.js and demo-sandbox.js).  That the
\* timers do fire is LanguageSettles.
THEOREM LanguageAgrees == LanguageSpec => []TimersDone
  <1>1. LanguageInv => TimersDone
    BY DEF LanguageInv, TimersDone, OneLanguage, Late
  <1> QED BY <1>1, LanguageInvInit, LanguageInvStep, PTL DEF LanguageSpec
-----------------------------------------------------------------------------
(* The operator's page.                                                    *)

\* Whatever the deployment has, no data call of a signed-in page gets past the
\* license middleware: why refresh never draws in Console (Program.cs 85-121).
LEMMA NoneLetThrough ==
  ASSUME NEW l \in Licenses, NEW module
  PROVE  Middleware(l, module) \in Refused
  BY DEF Licenses, Validate, LicensedModules, HasModule, Middleware, Refused

LEMMA ConsoleTypingInit == ConsoleInit => ConsoleTypeOK
  <1> SUFFICES ASSUME ConsoleInit PROVE ConsoleTypeOK
    OBVIOUS
  <1>1. 0 \in 0..MaxOutages /\ 0 \in 0..MaxVisits
    BY ConsoleBounds
  <1>2. flights \in [1..MaxFlights -> Flight \cup {Nothing}]
    BY DEF ConsoleInit
  <1> QED BY <1>1, <1>2 DEF ConsoleInit, ConsoleTypeOK

\* A page that is left, or opened.
LEMMA BlankPage ==
  ASSUME \/ place' = "login" /\ flights' = [i \in 1..MaxFlights |-> Nothing]
         \/ place' = "console" /\ flights' = FirstFlight
  PROVE  /\ place' \in {"console", "login"}
         /\ flights' \in [1..MaxFlights -> Flight \cup {Nothing}]
  <1>1. NoAnswers \in Flight
    BY DEF NoAnswers, Flight
  <1> QED BY <1>1 DEF FirstFlight

\* The answers of a refresh that is out, with one more.
LEMMA AnswersTyped ==
  ASSUME ConsoleTypeOK, NEW i \in 1..MaxFlights, flights[i] # Nothing
  PROVE  /\ flights[i] \in Flight
         /\ Settled([flights[i] EXCEPT !.me = "user"]) \in Flight \cup {Nothing}
         /\ \A module \in DataModules :
                Settled([flights[i] EXCEPT !.data = DataAnswer(module)]) \in Flight \cup {Nothing}
  <1>1. flights[i] \in Flight
    BY DEF ConsoleTypeOK
  <1>2. [flights[i] EXCEPT !.me = "user"] \in Flight
    BY <1>1 DEF Flight
  <1>3. ASSUME NEW module \in DataModules
        PROVE  [flights[i] EXCEPT !.data = DataAnswer(module)] \in Flight
    <2>1. Middleware(license, module) \in Refused
      BY NoneLetThrough DEF ConsoleTypeOK
    <2>2. DataAnswer(module) \in Refused \cup {"lost", "html"}
      BY <2>1 DEF DataAnswer, ConsoleTypeOK
    <2> QED BY <1>1, <2>2 DEF Flight
  <1> QED BY <1>1, <1>2, <1>3 DEF Settled

LEMMA ConsoleTypingStep == ConsoleTypeOK /\ [ConsoleNext]_consoleVars => ConsoleTypeOK'
  <1> SUFFICES ASSUME ConsoleTypeOK, [ConsoleNext]_consoleVars PROVE ConsoleTypeOK'
    OBVIOUS
  <1>1. CASE SessionExpires \/ NetworkGoes \/ NetworkReturns \/ InstallWorker \/ SignIn
    <2>1. /\ UNCHANGED <<license, place, visits, badge, flights>>
          /\ session' \in BOOLEAN /\ online' \in BOOLEAN /\ shell' \in BOOLEAN
      BY <1>1, Zenon DEF ConsoleTypeOK, SessionExpires, NetworkGoes, NetworkReturns,
                         InstallWorker, SignIn, server
    <2>2. outages' \in 0..MaxOutages
      BY <1>1, ConsoleBounds DEF ConsoleTypeOK, SessionExpires, NetworkGoes, NetworkReturns,
                                 InstallWorker, SignIn, server
    <2> QED BY <2>1, <2>2 DEF ConsoleTypeOK
  <1>2. ASSUME NEW i \in 1..MaxFlights, StartRefresh(i) PROVE ConsoleTypeOK'
    <2>1. NoAnswers \in Flight
      BY DEF NoAnswers, Flight
    <2> QED BY <1>2, <2>1 DEF StartRefresh, ConsoleTypeOK, server
  <1>3. ASSUME NEW i \in 1..MaxFlights, MeAnswers(i) \/ MeFails(i) \/ DataFails(i)
        PROVE  ConsoleTypeOK'
    <2>1. \E f \in Flight \cup {Nothing} : flights' = [flights EXCEPT ![i] = f]
      <3>1. flights[i] # Nothing
        BY <1>3 DEF MeAnswers, MeFails, DataFails
      <3>2. CASE MeAnswers(i)
        BY <3>1, <3>2, AnswersTyped DEF MeAnswers, ConsoleTypeOK
      <3>3. CASE MeFails(i)
        BY <3>3 DEF MeFails
      <3>4. CASE DataFails(i)
        BY <3>1, <3>4, AnswersTyped DEF DataFails, ConsoleTypeOK
      <3> QED BY <1>3, <3>2, <3>3, <3>4
    <2>2. flights' \in [1..MaxFlights -> Flight \cup {Nothing}]
      BY <2>1 DEF ConsoleTypeOK
    <2>3. /\ badge' \in {"connecting", "offline"}
          /\ UNCHANGED <<server, shell, place, visits>>
      BY <1>3 DEF MeAnswers, MeFails, DataFails, ConsoleTypeOK
    <2> QED BY <2>2, <2>3 DEF ConsoleTypeOK, server
  <1>4. CASE Logout \/ \E i \in 1..MaxFlights : SignedOut(i)
    <2>1. /\ place' = "login" /\ badge' = "connecting"
          /\ flights' = [i \in 1..MaxFlights |-> Nothing]
          /\ UNCHANGED <<license, online, outages, shell, visits>>
          /\ session' \in BOOLEAN
      BY <1>4, Zenon DEF Logout, SignedOut, LeaveConsole, server, ConsoleTypeOK
    <2> QED BY <2>1, BlankPage DEF ConsoleTypeOK
  <1>5. CASE OpenConsole
    <2>1. visits' \in 0..MaxVisits
      BY <1>5, ConsoleBounds DEF OpenConsole, ConsoleTypeOK
    <2> QED BY <1>5, <2>1, BlankPage DEF OpenConsole, ConsoleTypeOK, server
  <1>6. CASE UNCHANGED consoleVars
    BY <1>6 DEF consoleVars, ConsoleTypeOK
  <1> QED BY <1>1, <1>2, <1>3, <1>4, <1>5, <1>6 DEF ConsoleNext, FlightLands

\* Pill, page and answers stay what the scripts write, for any number of
\* refreshes out; no answer is ever the data asked for (refresh of app.js).
THEOREM ConsoleTyping == ConsoleSpec => []ConsoleTypeOK
  BY ConsoleTypingInit, ConsoleTypingStep, PTL DEF ConsoleSpec
-----------------------------------------------------------------------------
(* All the scripts together: a step of the run is a step of one script and *)
(* leaves the state of every other alone, so that each script sees a       *)
(* behaviour of its own specification.                                     *)

LEMMA OneScriptSteps ==
  ASSUME [BrowserNext]_browserVars
  PROVE  /\ [ShowcaseNext]_showcaseVars
         /\ [LanguageNext]_languageVars
         /\ [SandboxNext]_sandboxVars
         /\ [StudioNext]_studioVars
         /\ [DeskNext]_deskVars
         /\ [ConsoleNext]_consoleVars
         /\ [OpsNext]_opsVars
         /\ UNCHANGED script
  <1>1. CASE InShowcase
    BY <1>1, Zenon DEF InShowcase
  <1>2. CASE InLanguage
    BY <1>2, Zenon DEF InLanguage
  <1>3. CASE InSandbox
    BY <1>3, Zenon DEF InSandbox
  <1>4. CASE InStudio
    BY <1>4, Zenon DEF InStudio
  <1>5. CASE InDesk
    BY <1>5, Zenon DEF InDesk
  <1>6. CASE InConsole
    BY <1>6, Zenon DEF InConsole
  <1>7. CASE InOps
    BY <1>7, Zenon DEF InOps
  <1>8. CASE UNCHANGED browserVars
    BY <1>8, Zenon DEF browserVars
  <1> QED BY <1>1, <1>2, <1>3, <1>4, <1>5, <1>6, <1>7, <1>8 DEF BrowserNext

\* The run of all scripts is a run of each of them: none shares a key or calls
\* another, so what one promises alone it keeps beside the others.
LEMMA BrowserRunsEachScript ==
  BrowserSpec =>
      /\ ShowcaseSpec /\ LanguageSpec /\ SandboxSpec /\ StudioSpec
      /\ DeskSpec /\ ConsoleSpec /\ OpsSpec
  BY OneScriptSteps, PTL
  DEF BrowserSpec, BrowserInit, ShowcaseSpec, LanguageSpec, SandboxSpec,
      StudioSpec, DeskSpec, ConsoleSpec, OpsSpec

\* Every script's state is of its type in the run of all of them, and a
\* behaviour never changes the script it exercises.
THEOREM BrowserTyping == BrowserSpec => []BrowserTypeOK
  <1>1. BrowserInit => script \in Scripts
    BY DEF BrowserInit
  <1>2. script \in Scripts /\ [BrowserNext]_browserVars => (script \in Scripts)'
    BY OneScriptSteps
  <1>3. BrowserSpec => [](script \in Scripts)
    BY <1>1, <1>2, PTL DEF BrowserSpec
  <1>4. /\ script \in Scripts
        /\ ShowcaseTypeOK /\ LanguageTypeOK /\ SandboxTypeOK /\ StudioTypeOK
        /\ DeskTypeOK /\ ConsoleTypeOK /\ OpsTypeOK
        => BrowserTypeOK
    BY DEF BrowserTypeOK
  <1> QED BY <1>3, <1>4, BrowserRunsEachScript, ShowcaseTyping, LanguageTyping,
             SandboxTyping, StudioTyping, DeskTyping, ConsoleTyping, OpsTyping, PTL

\* The invariants of every script hold in the run of all of them.
THEOREM BrowserInvariants ==
  BrowserSpec =>
      [](/\ TimerMatchesButton /\ TrailExplainsMap
         /\ HoldStatusHasActiveHold /\ GateTrailMatches
         /\ TallyCoversYard
         /\ BodyMatchesTab
         /\ TimersDone)
  BY BrowserRunsEachScript, TimerFollowsButton, TrailExplains, HoldsAreActive,
     GateRowsMatch, TallyIsCovered, DialogFollows, LanguageAgrees, PTL

\* And so does what their steps may never do.
THEOREM BrowserGuards ==
  BrowserSpec => DepartedStaysDeparted /\ ExitIsTheConfirmedOne
  BY BrowserRunsEachScript, DepartedVehiclesStay, ExitOfTheConfirmed, PTL
=============================================================================
