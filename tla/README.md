# Parking Pejam: specification, model checking and proofs

A TLA+ development of Parking Pejam, a vehicle import yard: the ASP.NET Core API
under `src/ParkingPejam.Web`, the services and the EF Core context under
`src/ParkingPejam.Infrastructure`, the entities under `src/ParkingPejam.Domain`, the
web client in `wwwroot`, and the static demo under `docs`. Every definition is
translated from that code; `PROJECT.json` names the lines.

## 1. The system

On the server, one process serves HTTP requests and runs one background service. All
state that matters is in one database (SQLite or PostgreSQL), reached through a
scoped EF Core `DbContext` per request. There are no locks and no queues in the code;
the requests meet in the tables. In the browser, the pages of the web client talk to
that server, and the scripts of the static demo keep invented data in localStorage,
each under a key of its own.

| Component | State it keeps | Operations | Meets others through |
|---|---|---|---|
| Import intake (`ImportWorkflowEndpoints.cs`) | `ImportShipments`, `ImportedVehicles`, `VehicleArrivalRecords` | create shipment, register vehicle (tally), complete shipment | vehicles are the rows the yard moves |
| Yard and dispatch (`ImportWorkflowEndpoints.cs`, `DispatchWorkflowEndpoints.cs`) | `ParkingSpots.Status/ImportedVehicleId`, `ImportedVehicles.InventoryStatus`, `VehicleDispatchRecords`, `ParkingEvents` | assign-slot, ready, complete, candidates | slots and vehicles |
| Parking service (`ParkingService.cs`) | `ParkingSpots.Status`, `ParkingEvents` | ChangeStatusAsync, listings, statistics | called by the API and the simulation |
| Sensor ingress (`Program.cs` 215-245) | `ParkingSensors`, `ParkingSensorReadings` | post reading, list | writes slot status and events |
| Simulation (`SimulationService.cs`) | none | every 4 s toggles the first free or occupied spot | ParkingService |
| Advanced operations (`AdvancedOperationsEndpoints.cs`) | manifest, inspections, holds, yard nodes, gate visits, load plans, documents, customers, keys, billing, LPR | insert, release, complete, return, reconcile, aging, slot suggestion | by shipment (manifest) or vehicle id; no handler of the yard reads them |
| Query endpoints (`OperationsQueryEndpoints.cs`) | none | overview, search, summary | read all tables, several queries each |
| License (`LicenseService.cs`, middleware in `Program.cs` 85-123) | `license.json` | Validate, HasModule, module of a path | gates authenticated `/api` requests |
| Login (`Program.cs` 41-50, 147-176) | `Users`, cookie, fixed-window limiter | login, logout, me | roles checked by every write handler |
| Startup (`Program.cs` 127-138, 280-317, the schema bootstrappers) | schema, seeded spots, admin, sensors | EnsureCreated, bootstrap, SeedAsync | runs before any request |
| Live map of the demo (`docs/app.js`) | spots, audit trail, `running`, filters: one object per tab, all of it in localStorage; an interval per tab | click, tick, start, stop, reset, filter, load | tabs through localStorage |
| Language switch (`app.js`, `import-branding.js`, `dispatch-ui.js`, `ops-console.js`, `demo-sandbox.js`) | language per tab and stored; who wrote a headline or label last | click; timers of 20 to 40 ms | one page, one key |
| Interactive sandbox (`docs/demo-sandbox.js`) | one document in localStorage; the copy each page's buttons captured | render, register, hold, clear, gate, load, rows, edit, reset | tabs through localStorage |
| Studio cards (`docs/demo-studio.js`) | vehicles, tally, license: a copy per tab | tally form, edit, dispatch, license, reset | tabs through localStorage |
| Dispatch desk (`docs/dispatch-form.js`) | candidates, `selected`, stored vehicles | load, select, prepare, complete, each a call that fails on a static host | answers that come late |
| Operator's page (`wwwroot/app.js`, `service-worker.js`) | the pill, refreshes out; cached assets | refresh every 10 s or on a click, login, logout | the server, over the network |
| Operations center (`wwwroot/operations-center.js`) | active tab, its body, vehicle list | click on a tab, search, add | the server; answers in any order |
| Deployment, backup and license scripts | none | - | not modelled |

**What is hard here.** A write handler reads with several awaited queries, decides,
and saves at the end with `SaveChanges`. Between two awaits other requests
save, so every guard may be stale when the save runs. There is no concurrency
token on any entity. What saves a handler is a unique index
(VIN, tally number, shipment reference, dispatch reference, one slot per vehicle)
or, on SQLite only, the write lock that `BeginTransaction` takes; where there is
neither, the later save wins. EF Core writes only columns whose value differs from
the value the request read, so a stale read can also mean that a column is *not*
written. Requests are cut short by client disconnects (the cancellation token is
passed to every query) and by process stops.

In the browser a handler runs to its end, so the hard part is what lies between
handlers: whole objects saved over what another tab saved; the continuation of an
await that trusts a variable somebody else has moved; timers of five scripts on
the same click; answers that overtake each other; a setItem that throws; the
network and the session going away while calls are out.

**What makes each component correct.**

* Intake: tally numbers are 1, 2, 3, ... without gap or repetition; the declared
  count is never exceeded; Completed means complete and stays so; a VIN is registered once.
* Manifest: a VIN is entered once; a reconciliation adds up, and what it calls missing is.
* Yard: a vehicle is in one slot at most, a slot is not given to a second vehicle
  before it is emptied; only customs-cleared vehicles leave; every exit has a record
  under its own reference, releases the slot and is final; the event trail and the
  sensor rows agree with the slots.
* The other advanced operations: an active hold blocks movement; a hold is released once; a
  plan is completed with its vehicles; a key is out once.
* License: nothing is served without a valid license; a module only with its license.
* Startup: whatever stops in between, the next start finishes the same schema and seed.
* Live map: an interval can always be stopped; the trail explains the map.
* Language: the page ends up in one language.
* Sandbox: a status Hold has an active hold behind it, a status Dispatched a
  Gate-Out.
* Studio: the tally covers the yard; a departed vehicle stays away.
* Dispatch desk: the vehicle stored as gone is the one confirmed.
* Operator's page: it notices the end of its session. Operations center: the body is
  that of the tab chosen.

The hazards, each at its line with the properties aimed at it, are in `PROJECT.json`.

## 2. Modules

| Module | Role |
|---|---|
| `Yard` | assign-slot, ready, complete, ChangeStatusAsync and sensor readings, interleaved query by query |
| `YardLedger` | what the yard promises: atomic Place, Offer, Leave, Observe; kept as long as requests in flight have no row in common (`ApartSpec` of `Yard`) |
| `MCYard` | instances of `Yard` for TLC |
| `YardProofs` | theorems about `Yard` |
| `Intake` | create, register, complete, interleaved query by query |
| `TallyBook` | what the intake promises: a counter per shipment that stops at the declared number |
| `Manifest` | manifest entries and reconciliation, query by query; extends `Intake` and runs beside it |
| `MCIntake` | instances of `Intake` and `Manifest` for TLC |
| `IntakeProofs` | theorems about `Intake`, with the refinement of `TallyBook`, and about `Manifest` |
| `Startup` | schema creation, SQLite bootstrap and seeding, await by await, with stops and restarts |
| `MCStartup` | instances of `Startup` for TLC |
| `StartupProofs` | theorems about `Startup` |
| `Browser` | what all scripts share: tabs, null, a failed call |
| `Showcase`, `ShowcaseProofs` | the live map in several tabs, and theorems about it |
| `Language` | the language switch and its timers |
| `Sandbox`, `SandboxProofs` | the interactive sandbox, and theorems about it |
| `Studio`, `StudioProofs` | the studio cards, and theorems about them |
| `DispatchDesk` | vehicle exit on the static host |
| `Licensing` | what the license middleware answers, by what the deployment has; no state |
| `Console` | the operator's page against server, license, session, network and service worker; extends `Licensing` |
| `OpsCenter` | tabs and search of the operations center |
| `DialogProofs` | theorems about `DispatchDesk` and `OpsCenter` |
| `MCBrowser` | all browser modules side by side, and their instance for TLC |
| `BrowserProofs` | theorems about `Language`, `Console` and the seven modules side by side |

Definitions marked *Mutant* are plausible mistakes in the code beside the
definition that is right. No specification uses them; each shows that some
property would notice the mistake (`PROJECT.json`, "mutants").

### How Yard corresponds to the code

`status` and `holder` are the two columns of `ParkingSpot`, `inventory` is
`ImportedVehicle.InventoryStatus`, `exits` the `VehicleDispatchRecords`, `sensed`
the `CurrentOccupied` of the slot's sensor. Histories are reduced to what the
properties tell apart: `trail` is the `NewStatus` of a slot's newest event,
`reported` the newest reading row. `request[w]` is the request a worker serves: the
stage names the next await, the other fields are its parameters and the values
its DbContext has tracked. An action is one await: reads copy committed rows into
`request`; the `...Save` actions apply every write of the handler at once, from the
tracked values, or (`...Rejected`) nothing when a unique index objects; a failed guard
answers and ends the request. `Cancel` ends a request anywhere with nothing written.

Details that matter and are kept:

* `AssignSave` writes `InYard` only if the value read was another, and never an
  event for the slot left (lines 140-149).
* `SlotOf` returns whichever slot `SingleOrDefault` finds; a vehicle in two slots,
  where the code throws, is excluded by `OneSlotPerVehicle`, which is proved.
* When the vehicle got the very slot it is assigned to between the two queries, both
  results are one tracked row and the assignment is what remains of it.
* `/complete` is the only handler with a transaction around a read. With `TxLocks`
  (SQLite: Microsoft.Data.Sqlite begins immediate transactions) nobody saves
  while a request is between that read and its save.
* A reading of a sensor is one query for sensor and slot, hence one read step.

### How Intake corresponds to the code

`stage` is `ImportShipment.Status` with `Absent` before the row exists, `declared`
the declared count (0: none), `started` whether `ArrivalStartedUtc` is set.
`vehicles` holds a vehicle together with its arrival record: they are inserted by
one save with the same shipment and tally number. `NextTally` is the maximum
plus one, read long before the insert; `IndexRejects` is the unique index on
the VIN and those on (shipment, tally number). The transaction of the register
handler opens after its last read and contains one save, so it adds no order of its own.

### How Manifest corresponds to the code

`manifest` are the rows of `ImportManifestEntries`, `errand[c]` the manifest request of clerk
`c`, staged by its awaits like `request[w]` of `Intake`, whose steps and vehicles it shares.
`copy` stands for the Guid of a row, so that two rows of one VIN would be two. `Report` is the
answer of reconcile, with sets where the code answers their sizes; `expected` and
`received` count rows, as there. Nothing locks between its two queries (lines 31, 32). A
shipment nobody knows is not refused but answered with zeros, and so is `NoReport`.

### How Startup corresponds to the code

`at` is the await of `Program.cs` 127-138 a start has reached, `schema` the tables, added
column and unique indexes that exist, `rows` which of the seeded tables have rows,
`pending` what `SeedAsync` has added to the DbContext and not saved. A start may be configured
with each of the two secrets or not, and differently from the last. `deployment` says
what the process is started on: `other` stands for every provider name that selects SQLite
without being `sqlite` (line 29 against line 131), `postgres` for both names of
PostgreSQL; the databases found are those of earlier releases, as the bootstrappers tell
them apart: the core tables, those with the import tables, those with dispatch as well.

* `EnsureCreated` does nothing if there is a table and otherwise creates all in one
  transaction. The bootstrap batches run without one: `RunStatement` is one statement.
* `Parses`: the statement for `VehicleCustomerLinks` declares a column named `Primary`, which
  SQLite refuses to parse, and the bootstrap gets no further. This is why no behaviour
  on SQLite reaches the seeding, and the steps from there on are explored with `other`.
* `Throw`: nobody catches, so the process ends; `Start` is the restart policy of
  `docker-compose.yml`.
* Left out: indexes that constrain nothing, foreign keys (SQLite does not look for the
  table one names), and a second process started on the same database.

### How the browser modules correspond to the code

An action is one handler, one timer callback or one continuation of an await: nothing
else runs in its tab meanwhile, and any other tab may run before the next.

* `Showcase`: `memory[t]` is the variable `state` of a tab, `stored` the key, `ticking`
  whether `timer` names a live interval. `SaveMap` may be refused by the browser and goes
  on, as `safeSet` does. `resumed` remembers that a tab has loaded a running state: the
  code sets no timer then, the button says Stop, and the first click only turns it off.
  Search box and status filter are not saved on their own and left out; a zone tab is
  (`ClickZone`), and with it this tab's copy of everything. A spot is never `OutOfService`.
* `Language`: `headline` is the text `import-branding.js` fights over with the `data-i18n`
  of `app.js`; `due` counts timers, because two fast clicks leave two. `LateLabels`
  is one label for the three scripts that do the same to a button each.
* `Sandbox`: `view[t]` is the document captured by the handlers of the page drawn
  last, `editor[t]` the one read before the prompts. The gate buttons and the editor
  read again, the others do not. Rows nobody reads again are counted (`filed`).
* `Studio`: the state of a tab; a form open and submitted is one step, because the
  dialogs are modal and nothing but a form changes it. `drawn` are the ids drawn.
* `DispatchDesk`: `exits1` is what lies under `parking-pejam-arrivals-v1`, status and
  slot in one; `listed` says whether `selected` is an object of the list shown, as the
  catch of prepare writes into that object and a reload of the list replaces all.
  Calls are counted, not told apart, where their continuation does not tell them apart.
* `Console`: a refresh is the call to `/api/auth/me` and the first failure among the four data
  calls. `Promise.all` rejects at that failure; the first call still matters
  afterwards, because its redirect happens inside `api`. The data calls belong to licensed modules,
  and `Licensing` answers none of them: with enforcement off 403, without a license file or with
  one that is no signed license 423, with a signed one an exception. So the half of `refresh` that draws is
  never reached, is not modelled, and the pill knows only "connecting" and "offline". A data call
  without a session follows the cookie handler's redirect to the login page and fails on its HTML.
  A copy of the page comes from the service worker only when the network does not give one.
* `Licensing`: `Validate` and `HasModule` of `LicenseService` as far as the code gets, and the middleware's
  three refusals. A signed license is never looked into, since the import of the key throws (section 5),
  so that expiry, grace period and installation id have no behaviour to model.
* `OpsCenter`: `calls` are the awaits of `renderTab` and of the add buttons, with the tab
  they belong to; a call is told from another by the click that made it. The three sets of
  tabs are the three shapes of a branch of `renderTab`: body at once, body after an await,
  body at once and rows after an await. Manifest is the one that goes through two. The search is
  modelled without a property of its own (section 5). Any call may be answered or fail, more than the license
  middleware lets happen: a safety property of these behaviours holds of the fewer there are.

### Assumptions about what is outside the code

* `Yard`, `Intake` and `Manifest` assume the schema `OnModelCreating` declares, indexes included. `Startup`
  shows that a process that serves requests has it, but also that with SQLite and with
  PostgreSQL the start does not get that far as the code stands (findings
  `startup_sqlite`, `startup_postgres`), and `Console` that the license middleware refuses every path
  with a module (section 5). The three modules say what the handlers do once those lines
  let the start complete and the requests through.
* One `SaveChanges` is atomic; queries read committed rows at the moment they run
  (READ COMMITTED on PostgreSQL).
* No handler clears `IsActive` or changes `CustomsStatus`; so both are constant.
  Vehicles in `Yard` are already registered; slots start free, as seeded.
* Role checks, field validation that only refuses, logging and answer bodies are left out.

## 3. Runs

Fairness is assumed where the platform gives it, and never of a person:

* `Startup`: weak fairness of its steps, which are awaits nobody else can hold up, and of
  `Start`, because the compose files say `restart: unless-stopped`. Stops are not fair and
  bounded in number, so the claims are about what happens once nobody stops the
  process any more.
* `Language`: a timer that is due fires. Nobody has to click, so the bound on clicks
  cuts off nothing the property needs.
* `Console`: the interval keeps starting refreshes, and a call that is out is answered
  or fails. The network need not come back: `SessionEndIsNoticed` is about behaviours in
  which it stays from some moment on.

In the other modules nothing waits for anything else, so there is no liveness claim that would
not be one about the framework's scheduler. Deadlock is checked in every run but
those of `Startup`, where serving is where a start ends, and `browser`, where everybody
may have used up the clicks and calls the bounds allow.

| Run | Instance | Shows |
|---|---|---|
| `yard_apart` | 2 slots, 2 cleared vehicles, 2 references, 2 workers, all five kinds of requests, no lock; the behaviours in which no two requests in flight have a row in common (`ApartSpec`) | such requests, though their awaits interleave, are operations of `YardLedger`; statuses match slots; only the slot an assignment leaves lacks an event; a held slot is not given away even after a sensor or an operator called it free; exits come from ReadyForDispatch |
| `yard_concurrent` | 2 slots, 2 vehicles of which one is cleared, 2 references, 2 workers; no sensor, no lock | what every interleaving keeps (also proved, section 4) |
| `yard_sqlite` | both cleared, no status changes, with the lock | every departed vehicle has its record; two vehicles never leave under one reference, though it is looked up before the lock; the save that records an exit leaves the vehicle no slot |
| `yard_postgres_release` | the same without the lock | violated: an assignment between lookup and save |
| `yard_second_exit` | with the lock | violated: two overlapping `/complete` record two exits |
| `yard_slot_twice` | with the lock | violated: two assignments to one slot, the later replaces the earlier |
| `yard_return` | 1 worker | violated: assign-slot on a Dispatched vehicle |
| `intake_races` | 2 shipments, 3 VINs, declared -1, 0, 1 or 2, 2 workers, 2 clerks | dense tally, count respected, completion final, VINs unique across shipments, shipment columns follow vehicles, `TallyBook` implemented; a reconciliation adds up, what it calls missing is missing and what it calls matched is matched |
| `startup_restarts` | every provider, every database found, 2 stops | requests meet a seeded database; nothing a start repeats is refused; a start left alone ends serving (`other`) or with all that comes ahead of the refused statement (SQLite) |
| `startup_sqlite` | a new SQLite database, 1 stop | violated: never serves |
| `startup_postgres` | a new PostgreSQL database, 1 stop | violated: never serves |
| `browser` | two tabs or two calls out, each script of the browser in turn | the properties of the seven browser modules; a language that settles, and an operator's page that notices the end of its session |

The run `yard_apart` checks `Spec` under the action constraint `StaysApart` of `MCYard`: the states are those of `ApartSpec`, and TLC counts
the actions one by one. A request that would meet another is dropped at the read that shows it.

The violated properties quote what the repository says of itself; the findings in
`PROJECT.json` give line and message.

**Bounds.** Two workers give every race of two requests, and a request may follow
another on the same worker while a third is in flight, which is what the
stale-read scenarios need. Two vehicles and two slots give: both at one slot, one
moving between both, each in its own. Two references give a clash and a repeated exit;
references are never reused, so runs end with both spent (requests still come
and are refused, so there is no deadlock). Three VINs exceed both declared counts, so
the guard at the limit is reached; with two workers a completion races a registration, and
a worker that has answered may complete the shipment while the other's number is old. Counts 0 (none declared) and -1 (refused) are the edges. The
sensor and the simulation are left out of the runs whose requests race for a row: they write only
`status`, for which `Free` and `Reserved` from the operator stand; readings are in
`yard_apart`. Symmetry permutes slots, references and workers (yard) and shipments,
VINs, workers and clerks (intake): the specifications never tell them apart; vehicles
are not permuted, because `Cleared` does. Two stops (`MaxStops`) cut short a start and the
one that repeats it; what a third could find is what the second could, since
nothing but the database outlives a stop.

`intake_races` is one state space for two questions: a behaviour either races intake requests on all
shipments and leaves the manifests alone, or races manifest requests of one shipment (`subject`) with each
other and with one intake request at a time on it. A manifest request sees of the intake only what is
saved, and every save is one step, so the order of two intake requests between two of its
reads is that of their saves, and taking them one after the other loses none of it. Two clerks give two entries of one VIN past the
same lookup, and an entry between the two reads of a reconciliation. The theorems have neither restriction.

`browser` is one state space for seven modules: the variable `script` says which of them
a behaviour exercises, and the others stay as they start. Nothing is lost, as no
two of these scripts share a key of localStorage, call each other or wait for each other.
Two tabs are enough for one to save over the other and to load what it
saved; a third could only do what the second does. Two spots tell a spot's events from
another's, one of them starts reserved, and with `KeptEvents` = 2 (100 in the code) the trail
is cut after the second toggle. One refused setItem leaves stored and shown state apart.
Three clicks on languages leave two timers due and a third click after one
has fired. Three sandbox changes on a document that starts with a held, a
ready and a yard vehicle reach: a second hold and one of two cleared, a gate-out
and an intake in the other tab, a stale page saved over both. Four studio forms: two
arrivals, an exit, and a form in the tab that has not seen it. Two calls of each kind out at the
dispatch desk, over two vehicles: an answer that finds another row selected, or none. Two
refreshes out, one outage and two visits: the data calls fail before or after the session is found
ended, the network goes while one is out, the page is opened from the worker's copy. Four
clicks and two calls out in the operations center: a tab left and chosen again with the first
answer still out.

## 4. Proofs

Checked by TLAPS for every value of the constants.

`YardProofs`. `YardInv` is typing, the six facts `Safe`, and `RequestFacts`: what a
request may still rely on however old its reads are. The one that carries
`OnlyClearedExit` is that a request past the check of `/ready` or `/complete`
concerns a cleared vehicle: clearance is constant, so it does not go stale, while
the status it was read with may. `OneSlot` needs the index, and that the
save writes at most the two rows it names. `DispatchedHasRecord` survives
stale saves because records are never removed. There is one lemma per save; the reads
share one argument, as they leave the database alone.

`LockedExitReleases` takes `TxLocks` as its hypothesis and adds `LookupStands`: what /complete has read of the slot
is still so when it saves, since from that read to the save nobody else may write. The step then
needs `OneSlotPerVehicle`: the slot found is the only one to empty. On PostgreSQL the run
`yard_postgres_release` refutes the same property.

The rest is about `ApartSpec`: any number of requests may be in flight and their awaits interleave in any
order, but no two of them have a vehicle, a slot (the one named or the one `SlotOf` found) or a dispatch
reference in common. The code has no concurrency token, so nothing enforces this, and the hypothesis is needed: in
`yard_postgres_release`, `yard_second_exit` and `yard_slot_twice` two overlapping requests on one row are enough.
`ApartInv` is `YardInv`, `Apart`, `ReadsStand` (every value a request tracks is what
the row holds, and every condition it has passed is still true) and `Consistent` (the three invariants of the run
`yard_apart`). The argument: a save writes only rows of the request it ends (`RowsLeftAlone`, `ApartRows`),
so what the others have read of theirs still stands (`SaveLeavesOthersStanding`), and the saving request itself decides
from values that are current (`AssignSaveWrites`, `DispatchSaveWrites`). From it follow `ApartYard`; `ApartHeldSlot`, that no assignment gives a held
slot away, whatever a sensor or an operator called it; and `ApartYardIsLedger`, the refinement of `YardLedger`. The guard of the exit
(`ExitFromReady`) is checked in `yard_apart` and not proved: apart from others it is one handler's own guard.

`IntakeProofs`. `IntakeInv` adds to the books what a request in flight may rely on:
a number to be inserted lies in 1 .. Received + 1 and within the declared count, and
a completion under way is of a shipment that has its count (or declared none).
Both survive the saves of others because counts only grow, and a shipment that is
full accepts no more: the only number in that range the index lets pass is
Received + 1. From it: `DenseTally`, `CountsRespected`, `RegisterConsistent`,
`CompletionIsFinal`, and `IntakeKeepsTallyBook`, the refinement: reads and refusals
stutter, `CreateSave` is Announce, `RegisterSave` is Receive, `CompleteSave` is Close
(or a stutter when it changes nothing).

`ManifestSpec` is the intake and the manifest requests together. `IntakeInv` is untouched by the latter
(`ManifestInvariance`). `ManifestInv` adds that a manifest has one row for a VIN, which the unique index
keeps, and that the entries a reconciliation has read are still there, since no handler removes one. With
`VinRegisteredOnce` of the intake, rows and VINs count the same on both sides: `ReconciliationBalances`. `MissingIsTrue`
is the same facts at the second query. `ManifestTyping` types both modules together.

`StartupProofs`. `StartupInv` says what each await may rely on: which seeds have been
seen to, saved or pending (`SeedsSeenTo`), and that all statements ahead of the next are done,
that a database has no table or the core tables, and one this release began no table or
all (`SchemaSeenTo`). Stops keep it because they change nothing but `at`, where
`down` and `create` rely on nothing. From it: `TypeCorrect` and
`ServedOnlyWhenReady`, for any bound on stops and any set of the deployments. On SQLite the latter
says something of the statement sequence only once its last can be reached.

`RepeatsAreHarmless` adds `Asked`: a start is about to add the column, or to insert the slots,
only if it has asked and they are missing. The other half is `InOrder`, that every index of the three
bootstrap batches comes after the table it is on; it is proved of each batch and carried
over concatenation, so that the order of the statements, and not their number, is what counts.

`NeverSeedsNorServes` needs that one statement does not parse, wherever in the list, and that the bootstrap never
passes it (`StartsInVain`): what the runs `startup_sqlite` and `startup_postgres` show of one behaviour holds of all, from
every database. Until the code is mended it lets the theorems about serving say something of `other` alone. `RefusedIsUpgraded` combines the invariants: the statement refused is
the one that does not parse, and all ahead of it are done. `StartsEnd` is a rank, `StepsLeft`, that every step of a start lowers.

`ShowcaseProofs`. `TimerMatchesButton` is inductive as it stands. `TrailExplainsMap` is
because it speaks of the stored copy too, which a tab may load at any moment; the work is in
`ToggledExplains`: a toggle puts one event in front, drops at most the last, and every pair of
neighbouring events of a spot in the new trail was one in the old, or is the new event and the first.

`SandboxProofs`. `SandboxInv` says `Good` of every document in play: stored, captured by a
page, or read by an editor, since each may be saved over the others at any moment. One lemma per
button shows it turns a good document into a good one. That Clear sets In yard whatever the
other holds say is what keeps `HoldsAreActive`, and the gate's status is that of its own row.

Each of the three also proves the typing of its module (`ShowcaseTyping`, `SandboxTyping`, `StudioTyping`).

`StudioProofs`. `StudioInv` says of every copy and of the stored one that the tally lies
between those still there and those registered; `OnlyDrawn` that no copy has an id which may still be
drawn, without which a tally form could overwrite a departed vehicle.

`DialogProofs`. `ExitIsTheConfirmedOne` is inductive once the desk is typed: until another row is picked, every exit
out is that of the row selected, or nothing is selected. An answer clears the selection, so a second answer finds
nothing to store; a failed load or prepare never selects. `BodyMatchesTab` of the operations center is inductive too: a call that
would still draw the active tab's body is out, or an answer has said so in `overtaken`.

`BrowserProofs`. `LanguageInv` says that for everything on a page that is not yet in its language a timer is
due, and that what this timer will read is that language, unless the tab is `disturbed`. Hence `LanguageAgrees`: no tab
whose timers have all fired shows two languages, for any number of tabs, labels and clicks. Of
`Console` its typing is proved (`ConsoleTyping`), where the work is `NoneLetThrough`: the middleware lets no request to a module pass.

`BrowserRunsEachScript` composes: every behaviour of `BrowserSpec`, the specification of the run `browser`, is one of each script's own
specification, because a step of one script leaves the variables of the others alone (`OneScriptSteps`). With it
the theorems above hold of `BrowserSpec` too (`BrowserTyping`, `BrowserInvariants`, `BrowserGuards`): every
invariant and action property of that run is proved.

Assumed: the named ASSUMEs of the modules (in `Yard` and `Intake`: Cleared are vehicles, targets are
statuses, null is no row, counts are integers; in `Startup`: deployments are among those described,
stops are counted; in the browser modules: the sets of constants are as described there, English is a language, the headline is
no label, null is none of the vehicles), nothing else. Finite sets of vehicles are not assumed: finiteness of the
registered rows is part of the invariant.

Only model-checked: the liveness properties `StartCompletes`, `UpgradeArrives`, `LanguageSettles`,
`SessionEndIsNoticed`, which are out of the prover's reach, as is recursion over data, and `ExitFromReady`.
Their safety halves are proved: a refused start has brought the database as far as it gets
(`RefusedIsUpgraded`) and no start goes in circles (`StartsEnd`); a tab whose timers are done is in one language
(`LanguageAgrees`); what is missing is that fair steps are taken.

## 5. Known disagreements

Six are shown by runs (findings in `PROJECT.json`). These were met on the way, and
are noted here without a run:

* `AdvancedOperationsEndpoints.cs` 31-35: `unexpected` is not what `missing` is: a vehicle entered and then registered
  between the two queries is reported unexpected though its entry came first.
* `AdvancedOperations.cs` 26: `MatchStatus` of a manifest entry is never written; it reads Expected after any reconciliation.
* `LicenseService.cs` 14-24: the embedded public key has 563 base64 characters, line 20 is one
  short, so it is no PEM and `ImportFromPem` throws an ArgumentException. The catch clause (line 74) does not
  name it: with `RequireLicense` on and a well-formed license file, every request
  the middleware looks at, and `/api/license/status`, ends in that exception.
* `LicenseService.cs` 33, `Program.cs` 109: with `RequireLicense` off (`appsettings.json` 10,
  "intended only for local development and the public demo") `Validate` is valid without a payload,
  `HasModule` is false, and every path with a module (`/api/parking`, `/api/import`, `/api/sensors`, ...) answers 403.
  With the previous point no deployment lets such a request through (`NoneLetThrough` of `BrowserProofs`), which is why `Console` has no drawing half.
* `LicenseService.cs` 59: in the grace period the installation id is not compared;
  `docs/SECURE-DOCKER-DEPLOYMENT.md` 43 says a copied file "fails validation".
* `docs/arrival-form.js` 42: a `try` without `catch`; the script does not parse, `ParkingPejamArrival`
  never exists, and `arrival-ui.js` polls for it every 250 ms for good. Its key would be `...-arrivals-v2`, while
  `dispatch-form.js` 11 reads `...-v1`.
* `wwwroot/app.js` 5-10: nothing configures enums as strings, so statuses arrive as numbers, every
  spot is drawn as `out`, and the PUT with `'Free'` does not deserialise.
* `docs/vehicle-details-v3.js` 35: the dialog reads the class of the button clicked, which `app.js` has by
  then replaced: it shows the status before the click.
* `wwwroot/service-worker.js`: the copies are those of the day of installation; when only some assets can
  be fetched, old and new are mixed.
* `docs/demo-studio.js` 10 reads its language from a key nobody writes.
* `wwwroot/operations-center.js` 20-21: going back to the vehicle tab empties the search box and keeps the filtered list.
* `wwwroot/operations-center.js` 13, 21: answers to two searches may come in either order, and the last to come is the list.
* `wwwroot/operations-center.js` 18: a tab's late answer is written into the body of the tab chosen meanwhile;
  `BodyMatchesTab` excuses this (`overtaken`) until the next click on a tab.
* `docs/dispatch-form.js` 16: when the selection moves while the call to complete is out, its continuation stores the vehicle
  selected then; `ExitIsTheConfirmedOne` excuses this.
* `Program.cs` 224: two readings of one sensor that overlap can leave `CurrentOccupied` at the older one, since an unchanged
  column is not written; `yard_apart` excludes them.
* `Program.cs` 251: after login, `/` answers JSON, not the page.

## 6. Not modelled

* License validation behind the import of the key, which has no behaviour to model
  (section 5); what comes ahead of it is `Licensing`. Login is password
  hashing, cookies and a fixed-window limiter, all the framework's.
* `vehicle-details.js` is loaded by no page, `vehicle-ui-polish.js` is style, `arrival-form.js`
  does not run. `vehicle-details-v3.js` draws a dialog from the button clicked and keeps nothing, as do
  the counters of `ops-console.js`. Exports and printing read only.
* Of the operations center the submits that post and alert; of the operator's page the button that
  changes a spot (section 5); its PUT is `ChangeStatus` of `Yard`.
* Deployment scripts and license tools: external programs, no protocol of their own.
* Plain inserts without a protocol: documents, billing, LPR, customers.

## 7. Plan

Done: `Yard`, `YardLedger`, `Intake`, `TallyBook`, `Manifest`, `Startup`, `Licensing` and the seven browser modules, with
runs and proofs. Next, in this order:

1. **Holds** (inspection, holds, release) composed with `Yard`: does an active hold
   block movement, as `docs/ops-console.js` 11 says? Release once.
2. **Simulation**: tick loop, stale listing, the chain of `OldStatus`, online window of the sensors.
3. **Custody** (gate visits, load plans, keys).
4. **Reports**: statistics, aging, slot suggestion as operators against
   reference definitions over bounded inputs.
5. **License**, once its key can be imported: validation over time with two validations per
   request, the file replaced or time passing in between.
6. **Terminal**: `Intake` and `Yard` on one vehicle table.

Theorems planned: the invariant of `Holds`, and of what follows it. Of what there is, every
invariant and action property of a passing run is proved but `ExitFromReady`; what is left is to weaken `Apart` by the overlaps that do no
harm (two readings of one sensor's slot and a request that never looks at its status, say).
