------------------------------ MODULE Console ------------------------------
(***************************************************************************)
(* The operator's page of the web client (wwwroot/app.js) against the      *)
(* server, over a network that comes and goes.  refresh asks five things   *)
(* in parallel, every ten seconds and on a click, without looking whether  *)
(* the last one is still out: who is signed in (me), and four lists of     *)
(* data.  It draws when all five are there and gives up at the first that  *)
(* fails.  The data never comes: the network is gone, the session has      *)
(* ended, or the license middleware refuses (Licensing), so that the       *)
(* drawing half of refresh is not reached and the pill never says online.  *)
(* What the page still owes is to notice the end of the session.           *)
(* The service worker serves the page, never the data, from the copies it  *)
(* took when it was installed.                                             *)
(***************************************************************************)
EXTENDS Browser, Licensing

CONSTANTS
    MaxFlights,     \* bound: refreshes out at once
    MaxOutages,     \* bound: times the network goes away
    MaxVisits       \* bound: times the page is opened

ASSUME ConsoleBounds ==
    /\ MaxOutages \in Nat
    /\ MaxFlights \in Nat \ {0} /\ MaxVisits \in Nat \ {0}

VARIABLES
    license,    \* what the deployment has
    session,    \* whether the cookie is good
    online,     \* whether the server can be reached
    outages,    \* times it could not
    shell,      \* whether the service worker holds the assets: all or none
    place,      \* "console" or "login"
    visits,     \* times the page was opened
    badge,      \* the connection pill: "connecting" or "offline"
    flights     \* the refreshes out, and the answers they have

server      == <<license, session, online, outages>>
consoleVars == <<license, session, online, outages, shell, place, visits, badge, flights>>

\* The answers a refresh has: who is signed in, and the first failure among the
\* four data calls, the only one refresh looks at.
NoAnswers   == [me |-> Nothing, data |-> Nothing]

\* The modules the four data calls belong to: spots, events and statistics of
\* the yard, and the sensors.
DataModules == {"Yard", "Sensors"}

\* A page that has just been opened: the first refresh is out.
FirstFlight == [i \in 1..MaxFlights |-> IF i = 1 THEN NoAnswers ELSE Nothing]

\* Nobody has signed in or opened the page yet.
ConsoleInit ==
    /\ license \in Licenses
    /\ session = FALSE /\ online = TRUE /\ outages = 0
    /\ shell = FALSE /\ place = "login" /\ visits = 0
    /\ badge = "connecting"
    /\ flights = [i \in 1..MaxFlights |-> Nothing]

SessionExpires ==
    /\ session
    /\ session' = FALSE
    /\ UNCHANGED <<license, online, outages, shell, place, visits, badge, flights>>

NetworkGoes ==
    /\ online /\ outages < MaxOutages
    /\ online'  = FALSE
    /\ outages' = outages + 1
    /\ UNCHANGED <<license, session, shell, place, visits, badge, flights>>

NetworkReturns ==
    /\ ~online
    /\ online' = TRUE
    /\ UNCHANGED <<license, session, outages, shell, place, visits, badge, flights>>

\* addAll: one asset that cannot be fetched and nothing is installed.
InstallWorker ==
    /\ place = "console" /\ online /\ ~shell
    /\ shell' = TRUE
    /\ UNCHANGED <<server, place, visits, badge, flights>>

\* Mutant: the interval stops once the pill says offline.
StartRefreshOnline(i) ==
    /\ place = "console" /\ badge # "offline"
    /\ flights[i] = Nothing
    /\ flights' = [flights EXCEPT ![i] = NoAnswers]
    /\ UNCHANGED <<server, shell, place, visits, badge>>

\* setInterval, or the refresh button.
StartRefresh(i) ==
    /\ place = "console"
    /\ flights[i] = Nothing
    /\ flights' = [flights EXCEPT ![i] = NoAnswers]
    /\ UNCHANGED <<server, shell, place, visits, badge>>

\* A refresh is over once me has answered and a data call has failed.
Settled(f) == IF f.me # Nothing /\ f.data # Nothing THEN Nothing ELSE f

\* /api/auth/me needs no license.
MeAnswers(i) ==
    /\ flights[i] # Nothing /\ flights[i].me = Nothing
    /\ online /\ session
    /\ flights' = [flights EXCEPT ![i] = Settled([@ EXCEPT !.me = "user"])]
    /\ UNCHANGED <<server, shell, place, visits, badge>>

\* The network is gone, and the worker has no copy of an API answer: the pill
\* says so, and of this refresh nothing else matters.
MeFails(i) ==
    /\ flights[i] # Nothing /\ flights[i].me = Nothing
    /\ ~online
    /\ badge'   = "offline"
    /\ flights' = [flights EXCEPT ![i] = Nothing]
    /\ UNCHANGED <<server, shell, place, visits>>

\* How a data call ends: without the network not at all, without a session with
\* the redirect to the HTML of the login page, else as the middleware decides.
DataAnswer(module) ==
    CASE ~online             -> "lost"
      [] online /\ ~session  -> "html"
      [] online /\ session   -> Middleware(license, module)

\* The first data call to fail: Promise.all rejects, and only me still matters.
DataFails(i) ==
    /\ flights[i] # Nothing /\ flights[i].data = Nothing
    /\ \E module \in DataModules :
           /\ DataAnswer(module) # "passes"
           /\ flights' = [flights EXCEPT ![i] =
                             Settled([@ EXCEPT !.data = DataAnswer(module)])]
    /\ badge' = "offline"
    /\ UNCHANGED <<server, shell, place, visits>>

LeaveConsole ==
    /\ place'   = "login"
    /\ badge'   = "connecting"
    /\ flights' = [i \in 1..MaxFlights |-> Nothing]

\* /api/auth/me answers 401: the page goes to the login form, even when the
\* refresh that asked has already failed.
SignedOut(i) ==
    /\ flights[i] # Nothing /\ flights[i].me = Nothing
    /\ online /\ ~session
    /\ LeaveConsole
    /\ UNCHANGED <<server, shell, visits>>

\* logout awaits its call: offline it throws and nothing happens.
Logout ==
    /\ place = "console" /\ online
    /\ session' = FALSE
    /\ LeaveConsole
    /\ UNCHANGED <<license, online, outages, shell, visits>>

SignIn ==
    /\ place = "login" /\ online
    /\ session' = TRUE
    /\ UNCHANGED <<license, online, outages, shell, place, visits, badge, flights>>

\* /index.html is opened or reloaded: from the network, else from the worker.
OpenConsole ==
    /\ visits < MaxVisits
    /\ online \/ shell
    /\ visits'  = visits + 1
    /\ place'   = "console"
    /\ badge'   = "connecting"
    /\ flights' = FirstFlight
    /\ UNCHANGED <<server, shell>>

FlightLands(i) == MeAnswers(i) \/ MeFails(i) \/ DataFails(i) \/ SignedOut(i)

ConsoleNext ==
    \/ SessionExpires \/ NetworkGoes \/ NetworkReturns
    \/ InstallWorker \/ Logout \/ SignIn \/ OpenConsole
    \/ \E i \in 1..MaxFlights : StartRefresh(i) \/ FlightLands(i)

\* The interval keeps firing, and every call that is out is answered or fails.
ConsoleFairness ==
    /\ WF_consoleVars(\E i \in 1..MaxFlights : StartRefresh(i))
    /\ \A i \in 1..MaxFlights : WF_consoleVars(FlightLands(i))

ConsoleSpec == ConsoleInit /\ [][ConsoleNext]_consoleVars /\ ConsoleFairness

-----------------------------------------------------------------------------

Refused == {"error", "locked", "forbidden"}
Flight  == [me : {"user", Nothing}, data : Refused \cup {"lost", "html", Nothing}]

ConsoleTypeOK ==
    /\ license \in Licenses
    /\ session \in BOOLEAN /\ online \in BOOLEAN /\ shell \in BOOLEAN
    /\ outages \in 0..MaxOutages
    /\ visits \in 0..MaxVisits
    /\ place \in {"console", "login"}
    /\ badge \in {"connecting", "offline"}
    /\ flights \in [1..MaxFlights -> Flight \cup {Nothing}]

\* Once the network stays, the end of a session is noticed: the page goes to the
\* login form, although every refresh fails, most of them before me has
\* answered, and a page opened offline from the worker's copy knows no session.
SessionEndIsNoticed ==
    <>[]online => ((place = "console" /\ ~session) ~> (place = "login"))
=============================================================================
