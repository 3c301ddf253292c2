# A verification project for the DaaS demo

The DaaS demo is a database-as-a-service: tenants ask an API for SQL Server or
RavenDB servers and for databases in them; a provisioning engine creates the
servers in Kubernetes and the databases in the servers; a web console shows and
steers all this. This directory holds TLA+ modules that model the provisioning
protocol and the behaviour of the console, TLC configurations that check them
on small instances, and TLAPS proofs for all instances. Paths below are
relative to `src/` of the repository (`DaaSDemo.X/...`).

## 1. The system

### Provisioning

| Component | State it keeps | Operations | What makes it correct |
|---|---|---|---|
| Servers API (`DaaSDemo.Api/Controllers/ServersController.cs`) | none; edits `DatabaseServer` documents | create, reconfigure, destroy (refused with 409 while an action is in progress) | an accepted request (202) takes place or fails visibly |
| Databases API (`DatabasesController.cs`) | none; edits `DatabaseInstance` documents and the server's list of them | create, delete, reconfigure | a database that was created stays until somebody asks for it to go |
| Management database (RavenDB, `DaaSDemo.Data`) | documents, and indexes that lag behind them | load, query (from an index), `SaveChanges` (whole documents, last write wins) | - |
| `DataAccess` actor | `_serverManagers` | scan every 5 s, store status and ingress notifications, react to terminations | one live manager per server; documents reflect what happened |
| `TenantServerManager` actor, with `DatabaseServerProvisioner` and `ServerCredentialsProvisioner` | behaviour, copy of the document, timers, `_databaseManagers` | provision, reconfigure, de-provision by phases; poll a Deployment; look up ingress | resumable phases, nothing destroyed unasked, nothing left behind |
| `TenantDatabaseManager` actor, with the database provisioners | behaviour, copy of the document | create or drop one database | the database exists when its document says so |
| Database proxy (`DaaSDemo.DatabaseProxy`) | none | execute T-SQL, initialise a RavenDB server | errors are reported, batches stop where they should |
| Resource event bus, Kubernetes client, Tenants API, options, logging, crypto, deployment scripts | - | - | outside the protocol |

The parts share no memory. The API writes *desired state* into documents
(`Action`, `Status = Pending`). `DataAccess.ScanTenants` polls all documents
every five seconds and hands each to its manager (creating the manager if
need be). The manager makes Kubernetes calls one at a time and tells
`DataAccess` about every phase, outcome and address; `DataAccess` loads the
document, edits it and saves it. Kubernetes brings replicas up on its own.

What is hard here: a manager is handed *stale copies* (documents queue while it
awaits a call, and one is sent every five seconds); document sessions overlap
and nothing checks for concurrent changes; queries read indexes that may not
have the last documents yet, and the API waits for them only when it lists the
servers or databases of a tenant and is asked to (`TenantsController.cs:145`,
`:187`); each phase can fail before or after it took effect; the engine, the
`DataAccess` actor or a manager can die between any two steps and a new manager
resumes from the phase in the document; notifications are lost with the process.

### The console

The console is an Aurelia application (`DaaSDemo.UI/ClientApp/app`) over
Semantic UI, whose sources are vendored in `DaaSDemo.UI/lib/semantic` and built
into its bundle. They are most of the JavaScript of the repository; the
console's own code calls the modal, the dropdown, the progress bar and the
transitions, the rest is there for its pages to use.

| Component | State it keeps | Operations | What makes it correct |
|---|---|---|---|
| API client (`components/api/daas-api.ts`) | its configuration | queries, creations, operations | an outcome for every answer |
| View models (`servers/`, `databases/`, `tenants/`) | records shown, poll timer, loading and busy flags | load, poll, operate, leave | what is in progress is followed to its end, and only while it is on screen |
| Dialogs (`dialogs/confirm.ts`), menus (`menus/actions`), progress bar (`progress`) | promise of an answer; settings | ask, choose, refresh | what is shown can be answered or closed, and is true |
| Semantic UI behaviours (`definitions/modules`, `definitions/behaviors`) | classes, element data, timers, document handlers | show, hide, search, choose, validate, scroll | at rest, what is seen, what is listened for and what is kept agree |

JavaScript runs one callback at a time. What is hard is between callbacks:
an `await` resumes on a page that has been left, answers overtake each other,
animations end after the next request, timers whose handle was overwritten
still fire, handlers on the document outlive what they close.

Every hazard is listed, at its line, in `PROJECT.json`.

## 2. The modules

| Module | Contents |
|---|---|
| `DaaSModels` | document fields and notifications; `Requested` and `Updated`, what the API and `DataAccess` do to a document |
| `TenantServer` | the life of one server: API sessions, `DataAccess`, `TenantServerManager`, Kubernetes, failures; its properties and fairness |
| `ServerLifecycle` | abstract specification: what a tenant may count on for one server; refined by `TenantServer` (`Lifecycle`, `ImplementsLifecycle`) |
| `MCTenantServer` | the specification for TLC and the statements of comments and messages that the code does not keep |
| `TenantServerProofs` | theorems about `TenantServer` under every schedule |
| `TenantServerSlowProofs` | theorems about it with slow timers, and that it implements `ServerLifecycle` |
| `TenantDatabase` | the databases of one SQL Server: API sessions, the database half of `DataAccess`, the server manager as their parent, their `TenantDatabaseManager`s, the instance's databases and logins, failures |
| `DatabaseLifecycle` | abstract specification: what tenants may count on for the databases of a server; refined by `TenantDatabase` (`Lifecycle`, `ImplementsLifecycle`) |
| `MCTenantDatabase` | `TenantDatabase` for TLC, with the statements the code does not keep |
| `TenantDatabaseProofs` | theorems about `TenantDatabase` under every schedule: its actors, their registries, and the copies of documents that travel between them |
| `TenantDatabaseSlowProofs` | theorems about it with slow timers, and that it implements `DatabaseLifecycle` |
| `DaaSClient` | the API client: the outcome of every answer of the controllers |
| `ConsoleView`, `MCConsoleView` | one page of the console, of any of its nine kinds, with its loads, polls and operations |
| `ConsoleViewProofs` | theorems about `ConsoleView` |
| `Transition` | the animation of one element (`transition.js`): start, queue, interrupt, complete; used by the next ones |
| `ConfirmDialog` | the confirmation dialogs of two pages, their modals and the one dimmer |
| `ActionsMenu` | the dropdown menus of actions on servers and databases |
| `ProgressBar` | the bar that shows the phase of a server, over `progress.js` |
| `ApiRequest`, `SearchBox` | requests of one element (`api.js`) and the search box over them (`search.js`) |
| `SearchBoxProofs` | theorems about `SearchBox` |
| `Popup`, `PopupPosition` | popups of several elements, and the search for a place for one (`popup.js`) |
| `Sidebar` | two sidebars of one page (`sidebar.js`) |
| `Sticky` | a rail that stays on screen (`sticky.js`) |
| `PageParts` | menus, the bar, the search box, popups, sidebars and rails of one page side by side, with their properties; shared by the two next |
| `MCScreen` | adds dialogs, and composes all that lies over a page for TLC |
| `PagePartsProofs` | theorems about parts of a page, each by itself: `ProgressBar`, `Popup`, `SearchBox`, `Sticky`, `ActionsMenu` |
| `SelectionDropdown` | a dropdown searched by typing, of one choice or several (`dropdown.js`) |
| `FormValidation`, `FormRules` | a form that validates its fields, and the rules that count, check cards and are edited (`form.js`) |
| `Checkbox` | two checkboxes or radio buttons of one name (`checkbox.js`) |
| `Visibility` | two elements whose visibility is followed as the page scrolls (`visibility.js`) |
| `ContentParts` | form, boxes and followed elements side by side, with their properties; shared by the two next |
| `MCContent` | adds rules and the dropdown, and composes all a page is filled with for TLC |
| `ContentProofs` | theorems about parts of the content, each by itself: `Checkbox`, `FormValidation`, `Visibility` |

`TenantServer` is about one server: managers of different servers share
nothing but `DataAccess`'s mailbox, and the effect of other servers on this one
is delay, which the interleaving of every step already contains.

### Correspondence: provisioning

* `server` is the document (`NoServer` before creation and after deletion);
  `session[c]` an API request between its load and its `SaveChanges`;
  `daPc`/`daServer` the same for `DataAccess`, whose `ReceiveAsync` handlers
  run one at a time. The scan's query of the servers (`DataAccess.cs:119`) returns
  the documents as they are stored; an index that does not have a new server yet
  delays its first scan, which the scan's timing contains. `daInbox` is its mailbox, timer ticks excluded: a tick is
  the enabledness of `ScanRead`.
* `mode` is the manager's behaviour (`Initializing`, `Ready`,
  `WaitForServerAvailable`), `pc` the Kubernetes call it is awaiting, `state`
  its `Provisioner.State`, `mgrInbox` its mailbox.
* A step ends at each `await` another process can notice. `StartAction` and
  `AdvancePhase` end where a phase's `Ensure...` call begins, having announced
  the phase; the call takes effect in the step that ends it (`CallReturns`),
  fails with or without effect (`FailPhase`), or is in flight when the process
  dies (`CallLost`). The look-up of a resource and its creation inside one
  `Ensure...` operation are one step: nobody else writes these resources.
* `kube` holds the resources by the phase that creates them; the external
  service is `port`, since its node port is what the code reads from it.
* The phases are the cases of the three `switch` statements: `NextPhase`,
  `FirstPhase`, `EnsurePresent`, `EnsureAbsent`.
* History variables: `destroyAccepted` (a destroy request was answered with
  202), `leaked` (a failed delete was swallowed), `requests`, `faults`.

`TenantDatabase` begins where a server has been provisioned, and uses the same
conventions. What differs:

* A session may write two documents (`CreateDatabase` saves the database and
  the server whose list it extended; deleting a database's document removes it
  from that list), so `session[c]` is a write set, and `Saved` keeps what an
  update of a database did not change. An update of the server is always
  written, since it adds an event.
* Of a server-level action only that it begins (`StartServerAction`, which
  announces the first phase), ends (`ReconfigureEnds`, `DeprovisionEnds`,
  `DeprovisionFails`) or throws is left; its phases are `TenantServer`'s subject. A scan loads the
  server and, later in the same session, the databases it lists, in any order.
* `dbPc[d]` is the call of a database manager to the database proxy. The
  result of `DoesDatabaseExist` is decided when it returns; creation runs as
  two batches that matter, `Create Database` and `Create Login`, of which a
  failure or the death of the caller can leave the first (`CallsLost`).
* The server manager handles `Terminated` while it waits for a Deployment and
  drops documents then (`IgnoreWhileWaiting`).
* `indexed` is what queries of the database documents find, brought up to date
  by `IndexUpdates` at any time and by no one in particular. Two checks of the
  API are such queries, `GetDatabaseInstanceByName` (`SessionExtensions.cs:136`)
  in `CreateDatabase` and `DoesServerHaveDatabases` (`:80`) in `DestroyServer`;
  everything else is loaded by id. A document that has been deleted is not found
  any more, whatever the index says. So two databases may have one name, and a
  server may be destroyed while it lists databases, without any overlap of
  sessions.
* A message copy carries what the document said when it was loaded. History:
  `created` (ids are never reused), `provisioned`, `deleteAccepted`,
  `destroyAccepted`, and `shared`, the databases that have had one name with
  another at the same time.

Akka.NET facts the model uses: a user guardian restarts `DataAccess` on any
exception except a `DeathPactException`, on which it stops it; a restart
unwatches and stops the children and keeps the mailbox; `StandardSupervision`
stops a manager on the exceptions that `UpdateServerState` does not catch; a
message to a stopped actor is lost; `Terminated` comes after everything the
actor sent.

### Correspondence: the lifecycles

`ServerLifecycle` knows a request, whether the server is reported ready, what
exists of it and whether a removal failed silently. `TenantServer!Lifecycle`
maps the document's action to the request, the Kubernetes resources and the
external service to what exists. Every step of the API, of the two actors, of
Kubernetes and every failure maps to a step of it or to a stutter: what exists
grows only under a creation or reconfiguration, shrinks only under a
destruction, is left alone otherwise, and is whole when Ready is reported.

`DatabaseLifecycle` knows whether the server is open, closing or gone, the
databases it lists with their names, those whose deletion was accepted, those
that were reported as created, and the names the instance holds.
`TenantDatabase!Lifecycle` maps the server's document to the first, the
database documents to the list, `deleteAccepted` to the third. The save of a
request is `Create`, `Delete` or `Close`; whatever the actors, their T-SQL and
the failures do is `Work`, which makes only what is listed and drops only names
of which one is to be deleted; an update of `DataAccess` is `Withdraw`, `Reopen`,
`Vanish` or a stutter. That names are unique, or that a server which is destroyed
lists no databases, is not part of it: the API checks both, on an index. What
the lifecycle does say of two entries of one name is that they stand for one
database, which goes when the deletion of either is accepted.

### Correspondence: the console

* `ConsoleView`: `kind` is the view model, `page` what the browser shows.
  An action is one callback, from an `await` to the next: `loads[s]` is a
  `load()` that waits for its answer, `operations[s]` an operation between its
  steps (confirmation, call, reload). The record has versions; a reply carries
  the version it was read from, so that answers may overtake each other and an
  index may lag. `pollHandle` keeps the last timer only; timers whose handle
  was lost are counted apart. `DaaSClient` turns each answer of a
  controller into a value, a `null` or a rejection, as `daas-api.ts` does.
* `Transition`: `animate()` starts, queues, repeats or interrupts; the callback
  of the animation that ends is run by the module that uses it, in the same
  step, since the library calls it synchronously.
* `ConfirmDialog`, `ActionsMenu`, `SearchBox`, `SelectionDropdown`, `Popup`:
  one action per event of the user and per end of an animation or timer,
  computed on a record of what the module and its element hold (`ui`, `box`,
  `d`, `popups`). Handlers put on the document are part of the state: `listens`,
  `clickaway`, `keyboard`, `closing`.
* `ProgressBar` has the server twice, as it is (`now`) and as the page has it
  (`server`); the label's interval and the end of the bar's transition are
  actions of their own.
* `Sidebar`, `Sticky`, `Visibility`: classes change in the next frame
  (`queue`, `awaited`, `frames`), and what follows waits for the end of a CSS
  transition (`moving`). Where the element then stands is computed from classes
  and style as the style sheet does; the placeholder that a fixed element leaves
  in its place is part of the page and moves what stands below. Positions are
  small integers.
* `FormValidation`: the one revalidation timer of the form is `form.timer`,
  prompts that fade out are part of the form. `FormRules` has the credit-card
  check with its digits, the counting rules, and `remove.rule`, which splices
  the list it walks and ends in an error at the first place the list then no
  longer has.
* `Checkbox` separates the input, which the browser also changes by itself,
  from the class and the callbacks of the library.

### Abstractions and bounds

Names, credentials, specs, event logs and log lines are left out. `Clients`,
`Ports`, `MaxRequests`, `MaxFaults` size an instance. `MailboxLimit` stops
scans while that many documents wait, `NotificationLimit` holds the manager back while
that many notifications wait. In
`TenantDatabase` `MailboxLimit` holds a scan back while any mailbox has that
many messages. Two Boolean constants select the
environment: `RequestsOverlap` lets another document session run between a
session's load and save; `TimersRace` lets a timer fire before everything the
last one caused has been handled (a slow cluster: provisioning takes longer
than five seconds). With both `FALSE` the system is what its authors tested;
with both `TRUE` it is what it can be. The model leaves the `Initialize`
timeout out: the message is sent right after the actor's creation.

Of the console markup, wording, styling and field contents are left out. Two
pages, menus, popups, sidebars, checkboxes and followed elements are enough for
one to disturb the other. The bounds, by constant: `pages` makes 2 changes of
the record (`MaxVersion`), 2 loads and 2 operations at a time, 1 request that
fails, and 2 operations or refreshes started by the user, one on the two pages
of a tenant (`MaxKicks`; with 2 there too the run passes, in six minutes);
`MCScreen` asks 4
questions, makes 2 visits to a server in progress, 2 queries of 2 terms, puts
menus back once, queues 2 animations or frames, tries 15 positions
(the library's default), scrolls 9 steps and resizes once, past a column that begins at 2, with
a `bottomOffset` larger than what the window has to spare; `MCContent` has four
forms and one interference of a script, cards of 3 digits, 3 rules, a page of
3 scroll steps with 2 disturbances, and 3 items of which two begin alike, with
a limit of 2. A case that needs two things to cross needs two of each; the
bounds of counters are large enough for the first of two to be repeated.

`MCScreen` and `MCContent` let each behaviour use one of their parts while the
others rest in an initial state. The parts share no state (each keeps its own
elements), so their product would add interleavings of independent steps and
nothing else; what does interact (dialog and dimmer, two menus on one document,
search and its requests, two sidebars and their page) is one part.

## 3. What the runs check

Deadlock is not checked: when the document is gone, the page is left or the
user stops, an idle system stops.

| Run | Shows |
|---|---|
| `slow` | SQL Server, slow timers, three requests, two faults: an instance never without volume and credentials, nothing left behind, requests settled only by their own outcome, the lifecycle is implemented; under fair scheduling every request settles and the address converges, unless `DataAccess` is stopped for good |
| `racing` | RavenDB, racing timers and overlapping sessions, two requests and a fault: the registry is coherent, recorded phases can be resumed from, Ready is true, nothing is destroyed unasked |
| `dbslow` | two databases that want one name, an index that lags, three requests (to the server too), a fault, slow timers: the two documents agree, a database that was created stays until its deletion is requested, unless it has shared its name, the lifecycle of databases is implemented; under fair scheduling creations and deletions settle while the server is Ready |
| `dbracing` | two clients, racing timers, overlapping sessions: both levels of the registry are coherent, a document goes only after its database, nothing is dropped unasked |
| `pages` | all nine kinds of page with crossing operations, late and failing answers, another user and a lagging index: what is shown in progress is followed (`BusyIsFollowed`) to its end (`BusyDisplayEnds`), each chain of polls was started by the user (`ChainsAreTheUsers`), a left page falls silent, one's own change is shown |
| `screen` | dialogs: what lies open is asked and can be answered, a question appears; menus: an open one listens, a closed one does not, the last wish decides; bar: width, pulse and colour are those of the phase; search: an answer belongs to its text, one request at a time; popups: an open one can be closed and has its element, and of the places its settings make it look at it finds one that fits; sidebars: closed, they leave the page as it was; rails: in their column and on the screen |
| `content` | forms: errors and prompts are those of the fields; rules: a mistyped card is refused, counts agree but for at most none, removing a rule leaves the others and throws unless it was the last; boxes: class and callbacks follow the input; visibility: callbacks and fixed elements follow the screen, by measures of the present window and size; selection: value, labels, list and limit agree, a forced choice answers what was typed |

Two requests (create, then reconfigure or destroy) and one fault suffice for
every pair of stale copy and later request; three requests let a failed
creation be repaired and then destroyed; two faults let a failure be followed
by a crash during the repair. Two ports let a service be re-created elsewhere.
For databases, two documents and one name let a name be used again or twice, two
documents are enough for one update to lose the other, and three requests make
create, delete and create again possible, or create twice and delete one, or
create and destroy the server with an index that does not know. One user is
enough: the second database of the name finds the login of the first, fails and
is found by the next scan, which reports it as created. (With two users `dbslow`
passes too, in five minutes.) The index is not brought up to date any more once
the requests are used up: nobody looks at it.

Five runs end in a violation. Each states what a comment or a message of the
repository promises and the code does not keep:

| Run | Promise | What happens |
|---|---|---|
| `polltimeout` | polling times out | `StartPolling` schedules the poll signal in place of `Signal.Timeout` |
| `deathpact` | queued for deletion | a restart of `DataAccess` with a `Terminated` queued kills it for good |
| `swallowed` | resource has been de-provisioned | failed deletes are ignored |
| `dblostdelete` | queued for deletion | a deletion accepted on the premature report that it is Ready is cleared by the end of the creation |
| `stuckdatabase` | null if no database exists | the client throws, the page has no handler and goes on showing the deletion in progress |

The same modules show more of the same kind. These configurations lie beside
the runs (`MCTenantServer_X.cfg`, `MCTenantDatabase_X.cfg`) and end in a
violation of the property they name; they ask variants of the questions above
and are not among the project's runs:

| Configuration | Promise | What happens |
|---|---|---|
| `premature` | waits until all replicas are available | 0 of 0 replicas count as available |
| `unconfigured` | Ready is ready for use | RavenDB repaired by Reconfigure is never configured |
| `abandoned` | queued for deletion | phase Configuration has no case in `DeprovisionServer` |
| `dblostid` | queued for creation | the server's list is overwritten from an older load |
| `dbwrongdrop` | Ready is ready for use | a stale copy of a deleted document drops the new database of that name |
| `dbstuck` | an action is in progress | a failed creation leaves a database about which every request is refused |
| `dbnologin` | Ready is ready for use | a crash between the batches leaves a database without its login, which counts as provisioned |
| `dbduplicate` | already exists on server | the index does not have the first database when the second is created |
| `dborphan` | it still hosts databases | the index does not have the database when the server's destruction is accepted |

Also violated: `DestroyIsSettledByItsOutcome` of `MCTenantServer`, when timers
race (the outcome of a queued duplicate clears the destruction) or sessions
overlap (a second request's save overwrites it), and of `MCTenantDatabase`
`ReadyMeansExists` (`DatabaseProvisioning` reports Ready before the database is
created), `DeprovisionedMeansGone` (the login stays) and, with the constants of
`dblostdelete` under `FairSpec`, `ReconfigureSettles` ("queued for
reconfiguration": `TenantDatabaseManager` has no case for it). `SettledByOwnOutcome`,
`InstanceHasDependencies`, `NothingLeftBehind` and both properties
`ImplementsLifecycle` hold with slow timers and fail with racing ones (add them
to the configuration of `racing` or `dbracing`); `leaked` excuses exactly the
swallowed deletes.

The console's modules contain, as states the properties make an exception of:

* A dialog closed by a click beside it or by Escape keeps its promise for ever
  (`dialogs/confirm.ts:21`): every later operation of the page waits for it,
  and shows no dialog. `QuestionAppears` counts a dismissed question as
  done with; it also leaves out a user who acts during animations (`hurried`),
  for whom a dialog may be lost.
* A refusal of a deletion with status 400 counts as done (`daas-api.ts:491`):
  the page loads again and shows nothing of the reason.
* A page that is left while a load is under way may start one more timer, and a
  server that is gone takes the user to the list of servers from wherever he
  is by then; `LeftPageFallsSilent` says that this ends.
* The lists of servers and databases load from an index that may lag, and only
  two kinds of page poll all they show and report a poll that failed:
  `OwnChangeIsShown` speaks of the pages that read the document or an
  up-to-date index (`ReadTheirWrites`), `BusyIsFollowed` and `BusyDisplayEnds`
  of those two (`Followers`).

* A popup that prefers the adjacent place searches only the side it starts on,
  and from the left or the right it tries its start again until it gives up
  (`popup.js:712`); on a page written from right to left every step is mirrored
  once more (`popup.js:779`). It may then be said not to fit although a place on
  another side would do. `WhatFitsIsFound` asks for the places the search owes
  its settings (`Owed`): all eight only where the opposite is preferred on a
  page written from left to right.
* `remove.rule` throws a `TypeError` whenever a rule it removes stood before the
  last one, with the rule gone (`form.js:765`, where `$.each` goes on to the
  places the list had before); asked for several, it passes over the one after
  each it finds. `RuleEditsAreLocal` says when it throws and what is left.
* At most none (`maxCount` 0) is refused even of a field with nothing picked
  (`form.js:1694`); `CountsAgree` names that one case.
* A followed element knows where it stood when it was last refreshed. What grows
  above it, or the placeholder that `resetFixed` leaves displayed beside an
  element that is no longer fixed (`visibility.js:457`), moves it unmeasured;
  `CallbacksAreTrue` and `FixedWhilePassed` speak of the place it has on record.
  `MeasuresAreCurrent` says that its window and its own size are the present
  ones; of its size only where scrolling is not throttled, because the module
  that hears the page scroll then clears, and uses again, the timer its own
  refresh waits for (`visibility.js:214`).
* A refresh that still waits when a module is destroyed may fix its element for
  good; `Initialize` waits until that is over and is for elements that are not
  fixed.

### Fairness

Actors drain their mailboxes and awaited calls return (weak fairness for each
actor's current handler). The scan and poll timers repeat for ever; a slow
timer is disabled by the other's work, so they get strong fairness.
Kubernetes brings replicas up (weak fairness, `DeploymentsComeUp`);
`polltimeout` runs without it. API clients need not send requests, only finish
those they began. Crashes and faults have no fairness. `TenantDatabase` makes
the same assumptions, with weak fairness for each database manager.

In `pages` requests are answered or fail, awaiting code resumes, the
provisioning service ends what it began and the index catches up (weak
fairness); timers fire although a load or a refresh may disable them again and
again (strong fairness). Users owe nothing. In `screen` the animations of the
dialog end: if the browser's event does not come, the library's fail-safe timer
does. No other part of `screen` and `content` assumes fairness: their
properties are safety properties.

## 4. What is proved

`TenantServerProofs` proves, for every set of clients and ports, every bound,
both kinds of server, and with timers racing and sessions overlapping or not:

* `TypeInvariant`, `TypeCorrect`. `TypeOK` alone is not inductive: a handler's
  step keeps its type only if the copy it works from exists (`CopiesExist`).
* `CopiesAgree`. `FitInv` says that before a destroy request is accepted every
  copy of the document (the document, open sessions, `DataAccess`'s copy, the
  manager's state and its mailbox) and every notification under way is true of
  Kubernetes: no copy says `Deprovision`, a copy's phase has been reached, a
  copy that says Ready describes a provisioned server. It is inductive because
  nothing is removed before then (`Grows`), so what was true of a stale copy
  stays true. From it follow `ResumptionIsSound`, `ReadyIsTrue` and, with the
  lemma `StepGrows`, the action property `NothingIsDestroyedUnasked`.
* `RegistryIsCoherent`, from `RegistryInv`: a dead registered manager has
  exactly one `Terminated` in the mailbox.

`TenantDatabaseProofs` proves, for every finite set of documents, all sets of
names, users and clients, every bound, and timers racing and sessions
overlapping or not:

* `TypeInvariant`, `TypeCorrect`: again with the existence of every copy that
  is worked from, and with the message that initialises every actor that has
  yet to start at the head of its mailbox.
* `DeprovisionIsAsked`. `AskedInv` says that every copy of a document that says
  `Deprovision` (stored, loaded, queued or acted on) belongs to a deletion that
  was accepted, of that document under that name, or of the server. The set of
  accepted deletions only grows, an update of `DataAccess` keeps the action it
  read or ends it, and a manager that drops a database has such a copy, so it
  is inductive however stale the copies are.
* `DropsAreRequested`: from it, no step removes a database whose name nobody
  asked to delete, T-SQL that outlives its caller included. That the *wrong*
  database of a requested name may go is what `dbwrongdrop` shows.

Its second part proves, under the same assumptions, `RegistriesAreCoherent`.
`RegistryInv` says of both levels that a registered
manager is alive and no `Terminated` of it is in its parent's mailbox (`Never`),
or stopped and just one is there (`Once`); it says in addition that a stopped
server manager has neither children nor a continuation, without which a manager
created in its place could find entries of the one before. The lemmas `Sent`,
`Received`, `Rotated` and `Joined` say what the operations on mailboxes do to
`Never` and `Once`. A restart of `DataAccess` rewrites the mailbox it keeps,
because a `Terminated` of before is not handled after it; the proof needs that.

Its third part proves `DeletedDatabasesAreGone` (`DeletedMeansDropped`): a
document that is removed leaves no database behind, unless another document
asks for one of that name. The removal is decided by a notification that was
sent before many other steps, so the proof is about order. Copies of a document
are in the store, in open sessions, in the update `DataAccess` is in, in the
server manager's mailbox, in the manager's own mailbox and in its hands.
`OrderInv` says that

* a document is created once and has left no trace before (`Born`), and all its
  copies bear one name (`OneName`);
* no copy that says `Provision` is behind one that says `Deprovision` on that
  way, and none is left when the drop has been reported (`InTurn`). Within its
  own mailbox a manager may change the order, when it sends its first message to
  itself again; that is harmless, because the report of the drop ends it, and
  its mailbox with it;
* a database that was reported as dropped is not there, or it is one another
  document of that name asks for, whose own drop is not reported earlier in the
  mailbox (`Reported`).

TLC checked `OrderInv` on the instance of `dbracing` before it was proved.

The two modules on slow timers assume `SlowTimers` (`~TimersRace /\ ~RequestsOverlap`):
a scan starts when the work of the last one is done, and a session runs from its
load to its save undisturbed. Each theorem states it as a hypothesis. It is needed: section 3
says which of these properties fail when timers race, and `dblostid` and
`dbwrongdrop` are the two of `TenantDatabase`. Nothing is assumed of the index. Crashes,
restarts, failures, lost T-SQL and duplicate work stay possible.

`TenantServerSlowProofs` proves, for both kinds of server:

* `WorkIsTheDocuments`: `SlowInv`, checked by TLC on the instances of `slow`
  before it was proved. Whoever works on an action works on the one that is in
  the document (`ManagerInv`), from a phase that can be resumed from
  (`Resumable`: what the phases before it create is there, or what they remove
  is gone), and the outcome it reports is true, the last word on that action and
  sent when the manager has finished (`NotificationInv`). A session that is open
  holds the document as it is (`SessionInv`), and a copy on its way to the
  manager is alone on its way (`TransitInv`). None of these is inductive without
  the others: a second copy would restart a phase that has been torn down.
* `InstancesAreWhole` and `DestroyedMeansGone`, its conjuncts.
* `RequestsEndInTheirOutcome`, the action property `SettledByOwnOutcome`: only
  a step of `DataAccess` that has the outcome of that action at the head of its
  mailbox ends an action.
* `LifecycleIsImplemented`, the refinement of `ServerLifecycle`: one lemma for
  each group of actions maps its steps to `Create`, `Ask`, `Build`, `Dismantle`,
  `Settle`, `Disappear` or a stutter. That `ready` is said of a whole server
  needs `SlowInv` twice: the outcome is true, and nothing is removed between its
  sending and its arrival.

`TenantDatabaseSlowProofs` proves, for every finite set of databases:

* `WorkIsTheDocuments`: its `SlowInv`, checked by TLC on the instance of `dbslow`
  first. A database somebody works on has a document of the same name, there is
  at most one copy of it among the mailboxes of the server manager and of its own
  manager and the call that is awaited, and its deletion has not been reported
  (`WorkInv`). A server-level action somebody works on is the document's
  (`ManagerInv`, `ServerInv`). Databases of one name have been noticed
  (`SharedInv`).
  What a session will save was made from the documents as they are
  (`SessionInv`); a scan starts from a blank slate (`ScanInv`).
* `ServersListTheirDatabases` (`IdsAgree`) and `CreatedDatabasesStay`
  (`ProvisionedStays`). For the last, the database that is
  dropped is that of a manager whose copy says `Deprovision`; by `WorkInv` it has
  a document of that name, by `SharedInv` one that has not shared its name is the
  only one, and by `AskedInv` its own deletion was accepted.
* `NothingIsOrphaned` (`PresentInv`): the instance holds no database without a
  document, although a call may outlive the manager that made it, and
  `LifecycleIsImplemented`, the refinement of `DatabaseLifecycle`, in one lemma
  for each side: requests (`RequestImplements`), engine and failures
  (`EngineWorks`), updates (`UpdateImplements`). A withdrawal needs everything
  above and `OrderInv`: what the notification says was true when it was sent, no
  document of that name has been made since, and the deletion was accepted
  (`ReportedAsked`). That a server has gone only with all it holds is about
  order again: when the end of its destruction has been reported the instance
  holds nothing, its manager has stopped and no manager of a database has
  anything to do (`GoneInv`), also when it was destroyed with databases in it.

`ConsoleViewProofs` proves, for every kind of page and any number of loads,
operations, failures and changes of the record:

* `PageInvariant`: `PageInv`, checked by TLC on the constants of `pages` first.
  Its types say that what is shown and what a reply carries is a version the
  record has had, so that a late answer can be compared with what is there.
* `BusyPagesAreFollowed` (`BusyIsFollowed`). It is not inductive alone: sending
  a form clears the error, which may be all that a busy display rests on, so
  `PageInv` says that only the pages that have a form have one open: of those
  that poll, this is one that shows its form only while it has no error.
* `ChainsAreStartedByUsers` (`ChainsAreTheUsers`). A load in flight may set a
  timer and an operation under way may start a load, so `ChainInv` counts all of
  them against what the user has started. Timers and loads are counted with the
  cardinality theorems of the library; `LeastIsMember` says that the free slot
  that is taken is free, from the well-foundedness of `<`.

`SearchBoxProofs` proves, for every set of terms and any number of requests:

* `SearchInvariant`: `SearchInv`, checked by TLC on two terms and three requests
  first. A request ends twice: for the browser when it is answered, fails or is
  aborted, and for its caller in a timeout that is set then. `EachEndsOnce` says
  that the requests that have ended for the browser only are exactly those with
  a timeout, and that each has one; `HandleHolds` ties the handle of the timer
  to the timer it is of, so that clearing one never clears a request's.
* `AnswersBelongToTheirTexts` (`AnswersAreTheirs`).

`PagePartsProofs` proves, for parts of which a page has its own:

* `BarTellsTheTruth` (`BarIsTrue`), for any number of visits. The element of the
  bar outlives its module, so `BarInv` says what the animations of a module that
  is gone may still do: their callbacks run together with those of the module
  that took its place, which set the last colour.
* `PopupsCanBeClosed` (`PopupCanBeClosed`), for any set of elements and all
  settings. That an open popup can be closed is not inductive: a popup that
  opens has no listeners yet, and the click that opens it may take those of
  others. `PopupInv` adds that an animation ends in what it was started for
  (`OwnCallbacks`), that a timer that will show a popup runs only while the mouse
  is over its element, unless the popup reacts to the mouse itself (`Kept`), and
  that whoever makes a popup appear will leave its element, has a timer, or has
  touched it (`Attended`).
* `SearchAnswersAreTheirs` (`AnswersAreTheirs` of the page), the theorem of
  `SearchBoxProofs` for the search box among the other parts.
* `RailsStayInTheirPlace` (`StaysInItsPlace`), for all sizes and settings of the
  rail, its column and the window. A rail has an old position and old sizes
  whenever something is awaited, so `RailInv` says what holds in between: unless
  a refresh is awaited the cache is what would be measured now (`Measured`),
  what fits has no inline style (`Unscrolled`), only a rail that pushes is fixed
  to the bottom, and one as high as its column is not fixed at all (`Placed`).
  From any such state `stick` leaves the rail where its measurements are due to
  leave it (`Due`, one lemma for each position), which is inside the column and
  on the screen (`DueIsInPlace`).
* `MenusListen` (`ListensWhileOpen`) and `LastWishesDecide` (`LastWishDecides`),
  for any number of menus. `MenuInv` follows a menu through its animation
  (`MenuTrue`): what it ends in was started by the present module, nothing
  listens meanwhile, and whatever waits is the opposite of it, which is why only
  the first of the queue has to start when it ends (`QueueRuns`). Of a user who
  waits for animations it says that nothing is queued and an animation goes the
  way he wished (`AsWished`). One mouse click is a press, a change of focus and a
  release; what tells them apart is `activated`, true only where the mouse is
  held down. Content that goes takes that along, which is why a menu it took off
  while open (`carried`), and a drag, are excepted.

The invariants were checked by TLC first, with two elements and all 32
settings of popups, and with rails of several sizes and offsets, and with two menus. The proof about
rails is where two things came to light. `stick` adds `bottomOffset` to the
scrolled distance (`sticky.js:480`), but fixing the rail to the bottom does not
move it by that much, so one that pushes may stand above its column by its
`bottomOffset` (0 by default); `StaysInItsPlace` allows exactly that
(`Overshoot`). And of several true guards of a TLA+ `CASE` any may be taken,
where TLC takes the first, as the code does: guards that overlap with different
outcomes are written as `IF` now.

`ContentProofs` proves, for parts of the content of a page:

* `CheckboxesAreTrue` (`BoxesAreTrue`), for two boxes of any settings. `BoxInv`
  is the property with its types, of any pair of boxes and not of the present
  one only (`IsTrue`), because a call goes through several such pairs: `Toggle`
  checks or unchecks, `SetChecked` marks one box and unmarks the other, and what
  the browser then does to the inputs makes the two agree again. Once the
  browser has changed an input by itself (`byItself`) nothing is claimed.
* `FormErrorsAreTrue` (`ErrorsAreTrue`), for every set of words, every setting
  of the form and programs of any length. `FormInv` adds to the property that
  errors are of fields the form has (`IsSound`), and that before a form is
  submitted neither a timer nor a field of an earlier module waits that could
  bring an error (`IsQuiet`). That a field which was left shows no error it has
  not is about the validity of one field that may depend on another
  (`AreJudged`): each operator of the form is shown to keep the judgement of the
  fields it does not touch.
* `ScreenIsFollowed` (`FollowedTruly`), for every page, distance and size of
  window, throttled or not. What the page was told is not true while something
  is awaited; `SightInv` says that it is true of the element *as it was
  measured* as soon as nobody has still to be told of the scrolling
  (`IsPublished`, `AllUpToDate`), whoever the publisher was, and that a reverse
  callback has been called only of what is over (`IsFollower`): that is what
  lets it be called again. That these measures are not old ones is
  `AllMeasured`: where the window or the size on record is not the present one,
  a refresh of that element waits for a frame, or for a timer that scrolling
  leaves alone. An element's place has no such invariant (section 3). For the
  images it keeps that one which came on screen
  never waits again, so the count of those that show never counts one twice
  (`ImagesCounted`).

The proof about boxes needs that a page does not refuse what it has checked
itself (`BoxAssumption`). `initialize` calls `check()` for an input that is
checked already, `check()` asks `beforeChecked`, and a page that refuses there
is left with a checked input without the class. The groups TLC checks meet the
assumption.

The assumptions on constants are the named `ASSUME`s of the modules (sentinels
are not ports or documents, bounds are naturals, `Databases` is finite; a rail
is not larger than its column, for which the library warns): `SearchAssumption`
is a hypothesis of the theorems of `SearchBoxProofs`, `PageParts` assumes what
its parts need (`PartsAssumption`), which TLC evaluates in `screen`, and
`ContentParts` what its own need (`ContentAssumption`), evaluated in `content`.

Model-checked only: liveness, which is out of the prover's reach. Of the
console's pages the dialog (`ShownCanBeAnswered`), whose dimmer keeps its
callbacks in a recursive operator the prover cannot use; the sidebars
(`ClosedFreesPage`), whose queue of frames is folded; the rules and the dropdown
(`RulesSayTrue`, `RuleEditsAreLocal`, `ChoiceAgrees`, `ForcedChoiceAnswers`),
which fold over words, picks and labels: both are inductions over data. And the
places of popups (`WhatFitsIsFound`): a deterministic search, of which TLC runs
every start, both preferences, both directions of writing, every last resort and
every set of positions that fit, to the library's default depth. What it owes
depends on those settings (section 3).

## 5. Not modelled

* The Tenants API: one document created and read, no part of provisioning.
* The database proxy keeps no state; what its statements do to an instance is in
  `TenantDatabase`. The RavenDB database provisioner, whose paging starts at
  page 1 and so never sees the first database, is not reached: the API refuses
  databases in RavenDB servers.
* The resource event bus: only the test harness starts its actors, and the
  provisioning engine uses none of its filters.
* The Kubernetes client has no protocol state; its models are generated.
* Repeating timers that a restart of `DataAccess` leaves behind
  (`DataAccess.cs:98`) are not counted: a timer of the model fires at any time,
  so more of them add no behaviour.
* Of Semantic UI: accordion, tab, embed, rating, shape, nag, state, site,
  colorize and the style sheets, which are single toggles the console does not
  use; local and category search, request caching, user additions and remote
  menus of dropdowns, touch devices, browser repairs, and the form rules that
  are single comparisons.
* Cryptography, logging, options, start-up code and deployment scripts.

## 6. Plan

1. Proofs: that `WhatFitsIsFound` holds for every greater search depth, from the
   list of positions each search comes by under its preference and writing.
2. The server of `TenantDatabase` as an abstraction of `TenantServer`.
3. Local search and the dropdown's user additions.
