----------------------------- MODULE MCBrowser -----------------------------
(***************************************************************************)
(* An instance of the scripts of the browser for TLC, one state space for  *)
(* all of them: a behaviour exercises one script, and the others stay as   *)
(* they start.  Nothing is lost by that, as no two of these scripts share  *)
(* a key of localStorage or call each other.                               *)
(***************************************************************************)
EXTENDS Showcase, Language, Sandbox, Studio, DispatchDesk, Console, OpsCenter, TLC

CONSTANTS spot1, spot2, car1, car2

\* makeSpots leaves some spots reserved; no click ever makes one so again.
OneReserved == spot1 :> "Free" @@ spot2 :> "Reserved"

\* What an earlier release left for the dispatch desk.
TwoLeft == car1 :> "InYard" @@ car2 :> "Received"

VARIABLE script     \* the script this behaviour exercises

Scripts == {"showcase", "language", "sandbox", "studio", "desk", "console", "ops"}

browserVars ==
    <<script, showcaseVars, languageVars, sandboxVars, studioVars, deskVars,
      consoleVars, opsVars>>

BrowserInit ==
    /\ script \in Scripts
    /\ ShowcaseInit /\ LanguageInit /\ SandboxInit /\ StudioInit
    /\ DeskInit /\ ConsoleInit /\ OpsInit

InShowcase ==
    /\ script = "showcase" /\ ShowcaseNext
    /\ UNCHANGED <<script, languageVars, sandboxVars, studioVars, deskVars,
                   consoleVars, opsVars>>

InLanguage ==
    /\ script = "language" /\ LanguageNext
    /\ UNCHANGED <<script, showcaseVars, sandboxVars, studioVars, deskVars,
                   consoleVars, opsVars>>

InSandbox ==
    /\ script = "sandbox" /\ SandboxNext
    /\ UNCHANGED <<script, showcaseVars, languageVars, studioVars, deskVars,
                   consoleVars, opsVars>>

InStudio ==
    /\ script = "studio" /\ StudioNext
    /\ UNCHANGED <<script, showcaseVars, languageVars, sandboxVars, deskVars,
                   consoleVars, opsVars>>

InDesk ==
    /\ script = "desk" /\ DeskNext
    /\ UNCHANGED <<script, showcaseVars, languageVars, sandboxVars, studioVars,
                   consoleVars, opsVars>>

InConsole ==
    /\ script = "console" /\ ConsoleNext
    /\ UNCHANGED <<script, showcaseVars, languageVars, sandboxVars, studioVars,
                   deskVars, opsVars>>

InOps ==
    /\ script = "ops" /\ OpsNext
    /\ UNCHANGED <<script, showcaseVars, languageVars, sandboxVars, studioVars,
                   deskVars, consoleVars>>

BrowserNext ==
    \/ InShowcase \/ InLanguage \/ InSandbox \/ InStudio
    \/ InDesk \/ InConsole \/ InOps

\* In the initial state of a script that is not exercised no timer is due, no
\* call is out and the console is not open: its fairness asks for nothing.
BrowserSpec ==
    /\ BrowserInit /\ [][BrowserNext]_browserVars
    /\ LanguageFairness /\ ConsoleFairness

\* Every script's state is of its type.
BrowserTypeOK ==
    /\ script \in Scripts
    /\ ShowcaseTypeOK /\ LanguageTypeOK /\ SandboxTypeOK /\ StudioTypeOK
    /\ DeskTypeOK /\ ConsoleTypeOK /\ OpsTypeOK
=============================================================================
