---------------------------- MODULE ConsoleView ----------------------------
(***************************************************************************)
(* One page of the web console, from the moment the router activates it    *)
(* until the last thing it left behind has happened.  The nine view models *)
(* that load records are all here: "kind" says which one is open.          *)
(*                                                                         *)
(* A view model loads its record or list from the API when it is activated *)
(* and, while what it shows has an action in progress, again two seconds   *)
(* later, until nothing is in progress.  The operations the user can ask   *)
(* for run as asynchronous functions beside that: what was read before an  *)
(* await may be stale after it, answers arrive in any order, and the user  *)
(* may have left the page.  JavaScript runs one callback at a time, so     *)
(* each action is one callback: from an await to the next.                 *)
(*                                                                         *)
(* The record the page is about has versions: records[n] is its state      *)
(* after its n-th change, a reply is the version it was read from.  A list *)
(* is abstracted to the one record in it that changes.                     *)
(***************************************************************************)
EXTENDS Naturals, Integers, Sequences, FiniteSets, FiniteSetsExt, DaaSClient

CONSTANTS
  Kinds,          \* the view models of this instance
  MaxVersion,     \* bound: changes made to the record by users
  MaxLoads,       \* bound: loads in flight at the same time
  MaxOperations,  \* bound: operations of the user under way at the same time
  MaxKicks,       \* bound, per view model: operations and refreshes the user asks for
  MaxFailures,    \* bound: requests that fail on the way
  IndexLags       \* may the index behind a query lag behind the documents?

AllKinds == {"serverDetail", "serverList", "tenantDetail", "tenantDatabases",
             "databaseDetail", "serverDatabases", "databaseList",
             "serverEvents", "tenantList"}

ASSUME ConsoleAssumption ==
  /\ Kinds \subseteq AllKinds
  /\ MaxVersion \in Nat \ {0}
  /\ MaxLoads \in Nat \ {0}
  /\ MaxOperations \in Nat \ {0}
  /\ MaxKicks \in [Kinds -> Nat]
  /\ MaxFailures \in Nat
  /\ IndexLags \in BOOLEAN

VARIABLES
  kind,        \* the view model that is open
  page,        \* what the browser shows: this view, or where it went from it
  view,        \* the fields of the view model
  loads,       \* the calls of load() or refresh...() in flight
  operations,  \* the calls of destroy...(), repair...(), create...() in flight
  dialog,      \* the view's confirmation dialog
  configured,  \* the API client's promise of that name
  records,     \* the states the record has gone through
  indexed,     \* the version the query index has reached
  kicks,       \* operations and refreshes the user has asked for so far
  failures     \* requests that have failed on the way so far

vars == <<kind, page, view, loads, operations, dialog, configured, records,
          indexed, kicks, failures>>

worldVars == <<configured, records, indexed, failures>>

-----------------------------------------------------------------------------
(* The fields of a view model.                                             *)

Slots   == 1 .. MaxLoads
OpSlots == 1 .. MaxOperations
Nothing == [stage |-> "none"]
Broken  == -1

Current == Len(records)
Shown   == IF view.shown = 0 THEN "nothing" ELSE records[view.shown]
ShowsBusy == Shown = "Busy"

\* "shown" is the version on display, 0 when there is none.  pollHandle is
\* 0, the handle of a pending timer, or of one that has fired; "orphans" are
\* the pending timers whose handle the view model no longer has.
NewViewModel ==
  [shown |-> 0, loading |-> FALSE, busy |-> FALSE, error |-> FALSE,
   handle |-> "zero", orphans |-> 0, upToDate |-> FALSE, form |-> FALSE]

\* window.setTimeout assigned to pollHandle, whatever it held.
StartPolling(v) ==
  [v EXCEPT !.handle = "live",
            !.orphans = IF v.handle = "live" THEN @ + 1 ELSE @]

\* pollHandle = 0 without clearing the timer.
ForgetHandle(v) ==
  [v EXCEPT !.handle = "zero",
            !.orphans = IF v.handle = "live" THEN @ + 1 ELSE @]

\* deactivate(): the timer pollHandle refers to is cleared, no other.
Deactivate(v) == [v EXCEPT !.handle = "zero"]

\* What the API answers to the load of this kind of page, and what the
\* client makes of it.
LoadOutcome(reply) ==
  LET state  == records[reply]
      Meet(Answer(_)) == IF reply = Broken THEN "broken" ELSE Answer(state)
  IN  CASE kind = "serverDetail"    -> GetServer(Meet(AnswerGetServer))
        [] kind = "serverList"      -> GetServers(Meet(AnswerQuery))
        [] kind = "tenantDetail"    -> GetTenantServers(Meet(AnswerQuery))
        [] kind = "tenantDatabases" -> GetTenantDatabases(Meet(AnswerQuery))
        [] kind = "databaseDetail"  -> GetDatabase(Meet(AnswerGetDatabase))
        [] kind = "serverDatabases" -> GetServerDatabases(Meet(AnswerQuery))
        [] kind = "databaseList"    -> GetDatabases(Meet(AnswerQuery))
        [] kind = "serverEvents"    ->
             GetServerEvents(Meet(AnswerGetServerEvents))
        [] kind = "tenantList"      -> GetTenants(Meet(AnswerQuery))

\* The pages whose load reads a document by its Id, not through an index.
ReadsDocument == kind \in {"serverDetail", "databaseDetail", "serverEvents"}

-----------------------------------------------------------------------------
(* load() and refresh...() of each view model: what it does before its     *)
(* first await (Begin), when the reply m is a value (Loaded), and when the *)
(* await throws (Failed).  m is "initial", "reload" or "refresh"; a load   *)
(* of tenantDetail is wrapped by runLoadingAsync or runBusyAsync, or bare. *)

ClearError(v) == [v EXCEPT !.error = FALSE]
ShowError(v)  == [v EXCEPT !.error = TRUE]

SetLoading(v, m)  == IF m = "initial" THEN [v EXCEPT !.loading = TRUE] ELSE v
EndLoading(v, m)  == IF m = "initial" THEN [v EXCEPT !.loading = FALSE] ELSE v

Show(v, n)         == [v EXCEPT !.shown = n]

(* Faulty variants: a timer only if none was started before; always one.   *)
PollIfIdle(v, n) ==
  IF records[n] = "Busy" /\ v.handle = "zero" THEN StartPolling(v) ELSE v
PollAlways(v, n) == StartPolling(v)

PollIfBusy(v, n)   == IF records[n] = "Busy" THEN StartPolling(v) ELSE v

ServerDetailBegin(v, m)  == SetLoading(ClearError(v), m)

(* Faulty variant: only the first load polls.                              *)
ServerDetailLoadedOnce(v, n, m) ==
  EndLoading(IF m = "initial" THEN PollIfBusy(Show(v, n), n) ELSE Show(v, n), m)

ServerDetailLoaded(v, n, m) == EndLoading(PollIfBusy(Show(v, n), n), m)
ServerDetailFailed(v, m) == EndLoading(ShowError(v), m)

\* The server does not exist: an error on the first load.  On a reload the
\* view model asks the router for the list instead (see FinishLoad).
ServerDetailMissing(v, m) ==
  IF m = "reload" THEN Show(v, 0) ELSE EndLoading(ShowError(Show(v, 0)), m)

ServerListBegin(v, m) ==
  IF m = "refresh" THEN ClearError(v) ELSE SetLoading(v, m)

ServerListLoaded(v, n, m) ==
  IF m = "refresh" THEN Show(v, n)
  ELSE EndLoading(IF records[n] = "Busy" THEN StartPolling(Show(v, n))
                  ELSE ForgetHandle(Show(v, n)), m)

ServerListFailed(v, m) == EndLoading(ShowError(v), m)

\* ViewModel.runLoadingAsync and runBusyAsync around the load.
RunAsyncBegin(v, wrap) ==
  CASE wrap = "loading" -> [ClearError(v) EXCEPT !.loading = TRUE]
    [] wrap = "busy"    -> [ClearError(v) EXCEPT !.busy = TRUE]
    [] wrap = "bare"    -> v

RunAsyncEnd(v, wrap, threw) ==
  LET u == IF threw /\ wrap # "bare" THEN ShowError(v) ELSE v
  IN  CASE wrap = "loading" -> [u EXCEPT !.loading = FALSE]
        [] wrap = "busy"    -> [u EXCEPT !.busy = FALSE]
        [] wrap = "bare"    -> u

TenantDetailBegin(v, wrap) == ClearError(RunAsyncBegin(v, wrap))

TenantDetailLoaded(v, n, wrap) ==
  RunAsyncEnd([PollIfBusy(Show(v, n), n) EXCEPT !.upToDate = FALSE],
              wrap, FALSE)

TenantDetailFailed(v, wrap) ==
  RunAsyncEnd([v EXCEPT !.upToDate = FALSE], wrap, TRUE)

TenantDatabasesBegin(v, m) == SetLoading(ClearError(v), m)

TenantDatabasesLoaded(v, n, m) ==
  [EndLoading(PollIfBusy(Show(v, n), n), m) EXCEPT !.upToDate = FALSE]

TenantDatabasesFailed(v, m) ==
  [EndLoading(ShowError(v), m) EXCEPT !.upToDate = FALSE]

\* No flag, and no handler: a rejection goes nowhere.
DatabaseDetailLoaded(v, n) == PollIfBusy(Show(v, n), n)

\* load() shows a loader and never polls, refreshDatabaseList() does.
ServerDatabasesBegin(v, m) ==
  IF m = "initial" THEN SetLoading(v, m) ELSE ClearError(v)

ServerDatabasesLoaded(v, n, m) ==
  IF m = "initial" THEN EndLoading(Show(v, n), m)
  ELSE IF records[n] = "Busy" THEN StartPolling(Show(v, n))
  ELSE ForgetHandle(Show(v, n))

ServerDatabasesFailed(v, m) == EndLoading(ShowError(v), m)

DatabaseListBegin(v, m) ==
  IF m = "initial" THEN SetLoading(v, m) ELSE ClearError(v)

DatabaseListLoaded(v, n, m) == EndLoading(Show(v, n), m)
DatabaseListFailed(v, m)    == EndLoading(ShowError(v), m)

\* isLoading and isRefreshing are alike: one flag stands for the first.
ServerEventsBegin(v, m)     == SetLoading(v, m)
ServerEventsLoaded(v, n, m) == EndLoading(Show(v, n), m)
ServerEventsFailed(v, m)    == EndLoading(ShowError(v), m)

TenantListBegin(v, m)     == SetLoading(ClearError(v), m)
TenantListLoaded(v, n, m) == EndLoading(Show(v, n), m)
TenantListFailed(v, m)    == EndLoading(ShowError(v), m)

-----------------------------------------------------------------------------
(* The view model that is open.                                            *)

Begin(v, l) ==
  CASE kind = "serverDetail"    -> ServerDetailBegin(v, l.mode)
    [] kind = "serverList"      -> ServerListBegin(v, l.mode)
    [] kind = "tenantDetail"    -> TenantDetailBegin(v, l.wrap)
    [] kind = "tenantDatabases" -> TenantDatabasesBegin(v, l.mode)
    [] kind = "databaseDetail"  -> v
    [] kind = "serverDatabases" -> ServerDatabasesBegin(v, l.mode)
    [] kind = "databaseList"    -> DatabaseListBegin(v, l.mode)
    [] kind = "serverEvents"    -> ServerEventsBegin(v, l.mode)
    [] kind = "tenantList"      -> TenantListBegin(v, l.mode)

Loaded(v, l) ==
  LET n == l.reply
  IN  CASE kind = "serverDetail"    -> ServerDetailLoaded(v, n, l.mode)
        [] kind = "serverList"      -> ServerListLoaded(v, n, l.mode)
        [] kind = "tenantDetail"    -> TenantDetailLoaded(v, n, l.wrap)
        [] kind = "tenantDatabases" -> TenantDatabasesLoaded(v, n, l.mode)
        [] kind = "databaseDetail"  -> DatabaseDetailLoaded(v, n)
        [] kind = "serverDatabases" -> ServerDatabasesLoaded(v, n, l.mode)
        [] kind = "databaseList"    -> DatabaseListLoaded(v, n, l.mode)
        [] kind = "serverEvents"    -> ServerEventsLoaded(v, n, l.mode)
        [] kind = "tenantList"      -> TenantListLoaded(v, n, l.mode)

Failed(v, l) ==
  CASE kind = "serverDetail"    -> ServerDetailFailed(v, l.mode)
    [] kind = "serverList"      -> ServerListFailed(v, l.mode)
    [] kind = "tenantDetail"    -> TenantDetailFailed(v, l.wrap)
    [] kind = "tenantDatabases" -> TenantDatabasesFailed(v, l.mode)
    [] kind = "databaseDetail"  -> v
    [] kind = "serverDatabases" -> ServerDatabasesFailed(v, l.mode)
    [] kind = "databaseList"    -> DatabaseListFailed(v, l.mode)
    [] kind = "serverEvents"    -> ServerEventsFailed(v, l.mode)
    [] kind = "tenantList"      -> TenantListFailed(v, l.mode)

\* The page has a deactivate() that clears the poll timer.
HasDeactivate == kind \notin {"databaseList", "serverEvents", "tenantList"}

\* A load: its mode, what wraps it, whether it asks for an up-to-date index,
\* whether the creation form is hidden after it, and the reply once it came.
Load(m, wrap, fresh, hides) ==
  [stage |-> "sent", mode |-> m, wrap |-> wrap, fresh |-> fresh,
   hides |-> hides, reply |-> 0]

FreeSlots   == {s \in Slots : loads[s] = Nothing}
FreeOpSlots == {s \in OpSlots : operations[s] = Nothing}
InFlight    == {s \in Slots : loads[s] # Nothing}

\* The load l starts, on the view model v.
StartLoad(v, l) ==
  /\ FreeSlots # {}
  /\ loads' = [loads EXCEPT ![Min(FreeSlots)] = l]
  /\ view' = Begin(v, l)

Init ==
  /\ kind \in Kinds
  /\ page = "view"
  /\ LET l == Load("initial",
                   IF kind = "tenantDetail" THEN "loading" ELSE "bare",
                   FALSE, FALSE)
     IN  /\ loads = [s \in Slots |-> IF s = 1 THEN l ELSE Nothing]
         /\ view = Begin(NewViewModel, l)
  /\ operations = [s \in OpSlots |-> Nothing]
  /\ dialog = "closed"
  /\ configured = "pending"
  /\ records \in {<<"Ready">>, <<"Busy">>, <<"Error">>}
  /\ indexed = 1
  /\ kicks = 0
  /\ failures = 0

-----------------------------------------------------------------------------
(* The world around the page.                                              *)

\* The end-point configuration arrives, or cannot be had.
ConfigureClient ==
  /\ configured' \in Configure(configured)
  /\ UNCHANGED <<kind, page, view, loads, operations, dialog, records,
                 indexed, kicks, failures>>

\* The record gets a new version; without lag the index follows at once.
Append1(state) ==
  /\ records' = Append(records, state)
  /\ indexed' = IF IndexLags THEN indexed ELSE Current + 1

\* The provisioning service completes the action in progress.
Provision ==
  /\ records[Current] = "Busy"
  /\ \E state \in {"Ready", "Error", "Gone"} : Append1(state)
  /\ UNCHANGED <<kind, page, view, loads, operations, dialog, configured,
                 kicks, failures>>

\* Another user asks for an action on the record.
OtherUser ==
  /\ records[Current] \in {"Ready", "Error"}
  /\ Current < MaxVersion
  /\ Append1("Busy")
  /\ UNCHANGED <<kind, page, view, loads, operations, dialog, configured,
                 kicks, failures>>

IndexCatchesUp ==
  /\ indexed < Current
  /\ indexed' = indexed + 1
  /\ UNCHANGED <<kind, page, view, loads, operations, dialog, configured,
                 records, kicks, failures>>

\* The API answers the requests of a load with what it reads now.
ServeLoad(s) ==
  /\ loads[s] # Nothing
  /\ loads[s].reply = 0
  /\ \/ /\ configured = "ok"
        /\ loads' = [loads EXCEPT ![s].reply =
                       IF ReadsDocument \/ loads[s].fresh THEN Current
                       ELSE indexed]
        /\ UNCHANGED failures
     \/ /\ configured = "ok"
        /\ failures < MaxFailures
        /\ failures' = failures + 1
        /\ loads' = [loads EXCEPT ![s].reply = Broken]
     \/ /\ configured = "failed"
        /\ loads' = [loads EXCEPT ![s].reply = Broken]
        /\ UNCHANGED failures
  /\ UNCHANGED <<kind, page, view, operations, dialog, configured, records,
                 indexed, kicks>>

-----------------------------------------------------------------------------
(* The page reacts.                                                        *)

\* The router opens another page, on behalf of v or of the user.
Navigate(v, target) ==
  /\ page' = target
  /\ view' = IF page = "view" /\ HasDeactivate THEN Deactivate(v) ELSE v

\* The awaited reply is there: load() runs to its end.
FinishLoad(s) ==
  LET l == loads[s]
      outcome == LoadOutcome(l.reply)
      Hide(v) == IF l.hides THEN [v EXCEPT !.form = FALSE] ELSE v
  IN  /\ l # Nothing
      /\ l.reply # 0
      /\ loads' = [loads EXCEPT ![s] = Nothing]
      /\ \/ /\ outcome = "value"
            /\ view' = Hide(Loaded(view, l))
            /\ UNCHANGED page
         \/ /\ outcome = "throws"
            /\ view' = Hide(Failed(view, l))
            /\ UNCHANGED page
         \/ /\ outcome = "null"
            /\ IF l.mode = "reload"
               THEN Navigate(ServerDetailMissing(view, l.mode), "servers")
               ELSE /\ view' = ServerDetailMissing(view, l.mode)
                    /\ UNCHANGED page
      /\ UNCHANGED <<kind, operations, dialog, worldVars, kicks>>

\* What a timer of the page runs.
PollLoad ==
  Load(IF kind = "serverDatabases" THEN "refresh" ELSE "reload", "bare",
       view.upToDate, FALSE)

(* Faulty variant: the timer repeats.                                      *)
PollInterval ==
  /\ view.handle = "live"
  /\ StartLoad(view, PollLoad)
  /\ UNCHANGED <<kind, page, operations, dialog, worldVars, kicks>>

PollTimer ==
  /\ view.handle = "live"
  /\ StartLoad([view EXCEPT !.handle = "spent"], PollLoad)
  /\ UNCHANGED <<kind, page, operations, dialog, worldVars, kicks>>

OrphanTimer ==
  /\ view.orphans > 0
  /\ StartLoad([view EXCEPT !.orphans = @ - 1], PollLoad)
  /\ UNCHANGED <<kind, page, operations, dialog, worldVars, kicks>>

-----------------------------------------------------------------------------
(* The user.                                                               *)

\* Nothing lies over the page: neither the dialog nor the loader.
Reachable == page = "view" /\ dialog # "open" /\ ~view.loading

Kick == kicks < MaxKicks[kind] /\ kicks' = kicks + 1

\* The tenant's pages hide all they have while they show an error.
ContentIsShown == kind \in {"tenantDetail", "tenantDatabases"} => ~view.error

\* The pages with a refresh button, and what it runs: load(true), or a
\* function of its own.  tenantDetail wraps it with runBusy, which is over
\* before the load is; so that load is bare, as is that of the button beside
\* its error message.
Refreshable == kind # "serverDetail"

RefreshLoad ==
  Load(IF kind \in {"serverList", "serverDatabases", "databaseList"}
       THEN "refresh" ELSE "reload", "bare", view.upToDate, FALSE)

Refresh ==
  /\ Reachable
  /\ Refreshable
  /\ IF kind = "tenantDetail" /\ view.error THEN TRUE
     ELSE ContentIsShown /\ ~view.form /\ ~view.busy
  /\ Kick
  /\ StartLoad(view, RefreshLoad)
  /\ UNCHANGED <<kind, page, operations, dialog, worldVars>>

\* The operations of the action menu of the page.
MenuOperations ==
  CASE kind \in {"serverDetail", "serverList", "tenantDetail"} ->
         {"repair", "destroy"}
    [] kind \in {"tenantDatabases", "databaseDetail", "serverDatabases",
                 "databaseList"} -> {"destroy"}
    [] OTHER -> {}

\* canRepair and canDestroy of the menus; the detail pages disable the menu
\* of what is not ready, and hide it under an error, lists under their form.
CanOperate ==
  /\ Shown \in {"Ready", "Error"}
  /\ kind \in {"serverDetail", "databaseDetail"} =>
       Shown = "Ready" /\ ~view.error
  /\ ContentIsShown
  /\ ~view.form

Operation(op, stage) ==
  [stage |-> stage, op |-> op, version |-> 0, outcome |-> "throws"]

Asking == {s \in OpSlots : operations[s].stage = "asking"}

\* The menu of a tenant's databases deletes at once, without a question: it is
\* bound to deleteDatabase(), not to the destroyDatabase() that asks.
AsksFirst == kind # "tenantDatabases"

\* repair...() and destroy...() up to the confirmation.  A dialog that is
\* already waiting for an answer gives the caller the promise it has.
AskFor(op) ==
  /\ AsksFirst
  /\ Reachable
  /\ op \in MenuOperations
  /\ CanOperate
  /\ Kick
  /\ FreeOpSlots # {}
  /\ operations' = [operations EXCEPT ![Min(FreeOpSlots)] =
                      Operation(op, "asking")]
  /\ dialog' = IF Asking = {} THEN "open" ELSE dialog
  /\ view' = IF kind = "databaseDetail" THEN view ELSE ClearError(view)
  /\ UNCHANGED <<kind, page, loads, worldVars>>

DeleteAtOnce ==
  /\ ~AsksFirst
  /\ Reachable
  /\ CanOperate
  /\ Kick
  /\ FreeOpSlots # {}
  /\ operations' = [operations EXCEPT ![Min(FreeOpSlots)] =
                      Operation("destroy", "calling")]
  /\ UNCHANGED <<kind, page, view, loads, dialog, worldVars>>

\* The answer settles the promise, for everyone who awaits it.
AnswerDialog(yes) ==
  /\ dialog = "open"
  /\ dialog' = "closed"
  /\ operations' = [s \in OpSlots |->
                      IF s \notin Asking THEN operations[s]
                      ELSE IF yes THEN [operations[s] EXCEPT !.stage = "calling"]
                      ELSE Nothing]
  /\ UNCHANGED <<kind, page, view, loads, worldVars, kicks>>

\* The dialog is closed without an answer: its promise stays pending.
DismissDialog ==
  /\ dialog = "open"
  /\ dialog' = "dismissed"
  /\ UNCHANGED <<kind, page, view, loads, operations, worldVars, kicks>>

\* The pages with a form to create something.
HasForm == kind \in {"tenantDetail", "tenantDatabases", "serverDatabases",
                     "databaseList", "tenantList"}

\* showCreate...Form() and hideCreate...Form().
ToggleForm ==
  /\ Reachable
  /\ ContentIsShown
  /\ HasForm
  /\ view' = [view EXCEPT !.form = ~@]
  /\ UNCHANGED <<kind, page, loads, operations, dialog, worldVars, kicks>>

\* create...() up to the call: no confirmation, and the form stays open, so
\* it can be sent again.  createServer() leaves the error as it is.
SubmitForm ==
  /\ Reachable
  /\ ContentIsShown
  /\ view.form
  /\ Kick
  /\ FreeOpSlots # {}
  /\ operations' = [operations EXCEPT ![Min(FreeOpSlots)] =
                      Operation("create", "calling")]
  /\ view' = IF kind = "tenantDetail" THEN view ELSE ClearError(view)
  /\ UNCHANGED <<kind, page, loads, dialog, worldVars>>

LeavePage ==
  /\ page = "view"
  /\ dialog # "open"
  /\ Navigate(view, "elsewhere")
  /\ UNCHANGED <<kind, loads, operations, dialog, worldVars, kicks>>

-----------------------------------------------------------------------------
(* The calls of the operations.                                            *)

IsDatabase == kind \in {"tenantDatabases", "databaseDetail",
                        "serverDatabases", "databaseList"}

\* The answers the API may give to the operation now, and what the client's
\* method makes of each.  A server may host databases; a creation may be
\* refused.
CallAnswers(op) ==
  LET state == records[Current]
  IN  CASE op = "repair"  -> {AnswerReconfigureServer(state)}
        [] op = "destroy" -> IF IsDatabase THEN {AnswerDeleteDatabase(state)}
                             ELSE {AnswerDestroyServer(state, b) : b \in BOOLEAN}
        [] op = "create"  -> {"ok", "badRequest"}

CallOutcome(op, answer) ==
  CASE op = "repair"  -> ReconfigureServer(answer)
    [] op = "destroy" -> IF IsDatabase THEN DeleteDatabase(answer)
                         ELSE DestroyServer(answer)
    [] op = "create"  -> CASE kind = "tenantDetail" -> DeploySqlServer(answer)
                           [] kind = "tenantList"   -> CreateTenant(answer)
                           [] OTHER                 -> CreateDatabase(answer)

\* What an accepted operation does to the record: a tenant is simply there,
\* everything else has an action in progress.
Accepted(op) == IF kind = "tenantList" THEN "Ready" ELSE "Busy"

\* The API carries the operation out, or refuses it; the answer to either
\* may be lost on the way.
ServeOperation(s) ==
  LET o == operations[s]
      Answered(answer) ==
        [o EXCEPT !.stage = "answered", !.version = Current + 1,
                  !.outcome = CallOutcome(o.op, answer)]
  IN  /\ o.stage = "calling"
      /\ \/ /\ configured = "ok"
            /\ \E answer \in CallAnswers(o.op), lost \in BOOLEAN :
                 /\ lost => failures < MaxFailures
                 /\ failures' = IF lost THEN failures + 1 ELSE failures
                 /\ IF answer = "ok"
                    THEN Current < MaxVersion /\ Append1(Accepted(o.op))
                    ELSE UNCHANGED <<records, indexed>>
                 /\ operations' = [operations EXCEPT ![s] =
                      Answered(IF lost THEN "broken" ELSE answer)]
         \/ /\ configured = "failed"
            /\ operations' = [operations EXCEPT ![s] = Answered("broken")]
            /\ UNCHANGED <<records, indexed, failures>>
      /\ UNCHANGED <<kind, page, view, loads, dialog, configured, kicks>>

\* A call that could not change the record within its bound is given up.
GiveUpOperation(s) ==
  /\ operations[s].stage = "calling"
  /\ Current >= MaxVersion
  /\ operations' = [operations EXCEPT ![s] = Nothing]
  /\ UNCHANGED <<kind, page, view, loads, dialog, worldVars, kicks>>

(* Faulty variant: what follows an operation is read from the index.       *)
FollowUpFromIndex(op) == Load("reload", "bare", FALSE, op = "create")

\* The load that follows an operation of this page: with an up-to-date index
\* where the view model asks for one.
FollowUp(op) ==
  Load(IF kind \in {"serverDatabases", "databaseList"} THEN "refresh"
       ELSE "reload",
       IF kind = "tenantDetail" THEN "busy" ELSE "bare",
       kind \in {"tenantDetail", "tenantDatabases"},
       op = "create")

\* Where the router goes after an operation of this page, if anywhere.
Destination(op) ==
  CASE kind = "serverDetail" /\ op = "destroy"   -> "servers"
    [] kind = "tenantDetail" /\ op = "create"    -> "server"
    [] kind = "databaseDetail" /\ op = "destroy" -> "tenantDatabases"
    [] OTHER                                     -> "none"

\* The operation's await is over.  What it throws is shown, unless it runs
\* inside runBusy, which does not wait for it, or has no handler at all.
Swallows(op) == op = "destroy" /\ kind \in {"databaseDetail", "tenantDatabases"}

ResumeOperation(s) ==
  LET o == operations[s]
      fresh == [view EXCEPT !.upToDate = FollowUp(o.op).fresh]
  IN  /\ o.stage = "answered"
      /\ operations' = [operations EXCEPT ![s] = Nothing]
      /\ \/ /\ o.outcome = "throws"
            /\ view' = IF Swallows(o.op) THEN view ELSE ShowError(view)
            /\ UNCHANGED <<page, loads>>
         \/ /\ o.outcome = "value"
            /\ Destination(o.op) # "none"
            /\ Navigate(view, Destination(o.op))
            /\ UNCHANGED <<loads>>
         \/ /\ o.outcome = "value"
            /\ Destination(o.op) = "none"
            /\ StartLoad(fresh, FollowUp(o.op))
            /\ UNCHANGED page
      /\ UNCHANGED <<kind, dialog, worldVars, kicks>>

-----------------------------------------------------------------------------
Provisioning == Provision \/ IndexCatchesUp \/ ConfigureClient

Page ==
  \/ \E s \in Slots : ServeLoad(s) \/ FinishLoad(s)
  \/ \E s \in OpSlots :
       ServeOperation(s) \/ GiveUpOperation(s) \/ ResumeOperation(s)
  \/ PollTimer
  \/ OrphanTimer

User ==
  \/ Refresh
  \/ \E op \in {"repair", "destroy"} : AskFor(op)
  \/ DeleteAtOnce
  \/ \E yes \in BOOLEAN : AnswerDialog(yes)
  \/ DismissDialog
  \/ ToggleForm
  \/ SubmitForm
  \/ LeavePage

Next == Provisioning \/ Page \/ User \/ OtherUser

\* The browser runs what is ready, the network and the API answer, and the
\* provisioning service completes what it started.  The user need not act.
Fairness ==
  /\ WF_vars(Provision)
  /\ WF_vars(IndexCatchesUp)
  /\ WF_vars(ConfigureClient)
  /\ \A s \in Slots : WF_vars(ServeLoad(s)) /\ WF_vars(FinishLoad(s))
  /\ \A s \in OpSlots :
       WF_vars(ServeOperation(s) \/ GiveUpOperation(s))
       /\ WF_vars(ResumeOperation(s))
  /\ SF_vars(PollTimer)
  /\ SF_vars(OrphanTimer)

Spec == Init /\ [][Next]_vars /\ Fairness

-----------------------------------------------------------------------------
(* Safety.                                                                 *)

\* The pages that poll what they show, and report a poll that failed.
Followers == {"serverDetail", "tenantDatabases"}

\* A page that shows an action in progress, and no error, has a timer or a
\* load under way that will bring what comes next: whatever operations,
\* failures and stale answers have crossed, the display is not a dead end.
BusyIsFollowed ==
  page = "view" /\ ShowsBusy /\ ~view.error /\ kind \in Followers
    => view.handle = "live" \/ view.orphans > 0 \/ InFlight # {}

\* Every operation and every refresh of a busy page adds a chain of polls
\* beside the one that runs, as pollHandle remembers only the last timer; but
\* no chain ever splits: there are never more than the user has started.
ChainsAreTheUsers ==
  view.orphans + (IF view.handle = "live" THEN 1 ELSE 0)
    + Cardinality(InFlight) <= 1 + kicks

-----------------------------------------------------------------------------
(* Liveness.                                                               *)

\* A display of an action in progress does not last: the page moves on, says
\* what went wrong, or was left.
BusyDisplayEnds ==
  (kind \in Followers /\ ShowsBusy)
    ~> (~ShowsBusy \/ view.error \/ page # "view")

\* A page the user has left falls silent: its timers and loads, also those it
\* started after it was left, come to an end.
LeftPageFallsSilent ==
  (page # "view")
    ~> (view.handle # "live" /\ view.orphans = 0 /\ InFlight = {})

\* The pages that read the document, or an up-to-date index, after an
\* operation of their own.
ReadTheirWrites == {"serverDetail", "tenantDetail", "tenantDatabases"}

\* The outcome of an operation of one's own reaches the display, as these
\* pages read the document, or an up-to-date index, after it.
OwnChangeIsShown ==
  kind \in ReadTheirWrites =>
    \A n \in 1 .. MaxVersion :
      (\E s \in OpSlots :
         operations[s] # Nothing /\ operations[s].stage = "answered"
           /\ operations[s].outcome = "value" /\ operations[s].version = n)
        ~> (view.shown >= n \/ view.error \/ page # "view")

\* The page of a database that is deleted while it polls says so, as the
\* comment of getDatabase promises (api/daas-api.ts:70).
DeletedDatabaseIsNoticed ==
  (kind = "databaseDetail" /\ ShowsBusy)
    ~> (~ShowsBusy \/ view.error \/ page # "view")
=============================================================================
