------------------------- MODULE ConsoleViewProofs -------------------------
(***************************************************************************)
(* Theorems about ConsoleView, for every set of pages and every bound on   *)
(* the loads, operations, failures and changes of the record.              *)
(***************************************************************************)
EXTENDS ConsoleView, FiniteSetTheorems, WellFoundedInduction, TLAPS

-----------------------------------------------------------------------------
(* Types.                                                                  *)

Pages == {"view", "elsewhere", "servers", "server", "tenantDatabases"}

ViewModel ==
  [shown : Nat, loading : BOOLEAN, busy : BOOLEAN, error : BOOLEAN,
   handle : {"zero", "live", "spent"}, orphans : Nat, upToDate : BOOLEAN,
   form : BOOLEAN]

Loading ==
  [stage : {"sent"}, mode : {"initial", "reload", "refresh"},
   wrap : {"loading", "busy", "bare"}, fresh : BOOLEAN, hides : BOOLEAN,
   reply : Int]

Operating ==
  [stage : {"asking", "calling", "answered"}, op : {"repair", "destroy", "create"},
   version : Nat, outcome : {"value", "null", "throws"}]

(* Replies and what is shown are versions the record has had.              *)
TypeOK ==
  /\ kind \in AllKinds
  /\ page \in Pages
  /\ view \in ViewModel /\ view.shown <= Len(records)
  /\ loads \in [Slots -> Loading \cup {Nothing}]
  /\ \A s \in Slots : loads[s] # Nothing =>
       loads[s].reply = Broken \/ loads[s].reply \in 0 .. Len(records)
  /\ operations \in [OpSlots -> Operating \cup {Nothing}]
  /\ dialog \in {"closed", "open", "dismissed"}
  /\ configured \in Configurations
  /\ records \in Seq(RecordStates) /\ records # <<>>
  /\ indexed \in 1 .. Len(records)
  /\ kicks \in Nat /\ failures \in Nat

Timers(v) == v.orphans + (IF v.handle = "live" THEN 1 ELSE 0)

-----------------------------------------------------------------------------
(* What the view models do to their fields.                                *)

LEMMA NothingIsNoLoad == Nothing \notin Loading /\ Nothing \notin Operating
BY DEF Nothing, Loading, Operating

LEMMA LoadTyped ==
    ASSUME NEW m \in {"initial", "reload", "refresh"}, NEW w \in {"loading", "busy", "bare"},
           NEW f \in BOOLEAN, NEW h \in BOOLEAN
    PROVE  Load(m, w, f, h) \in Loading /\ Load(m, w, f, h) # Nothing
           /\ Load(m, w, f, h).reply = 0
BY DEF Load, Loading, Nothing

(* The flags of a view model: all that a load sets before its reply and in *)
(* its handlers, but for what it shows and its timers.                     *)
Flagged(u, v) ==
  /\ u \in ViewModel
  /\ u.shown = v.shown /\ u.handle = v.handle /\ u.orphans = v.orphans /\ u.form = v.form

LEMMA FlagsTyped ==
    ASSUME NEW v \in ViewModel, NEW b \in BOOLEAN
    PROVE  /\ Flagged(v, v)
           /\ Flagged([v EXCEPT !.error = b], v) /\ [v EXCEPT !.error = b].error = b
           /\ Flagged([v EXCEPT !.loading = b], v) /\ [v EXCEPT !.loading = b].error = v.error
           /\ Flagged([v EXCEPT !.busy = b], v) /\ [v EXCEPT !.busy = b].error = v.error
           /\ Flagged([v EXCEPT !.upToDate = b], v) /\ [v EXCEPT !.upToDate = b].error = v.error
BY DEF Flagged, ViewModel

LEMMA ErrorsTyped ==
    ASSUME NEW v \in ViewModel
    PROVE  /\ Flagged(ClearError(v), v)
           /\ Flagged(ShowError(v), v) /\ ShowError(v).error
BY FlagsTyped DEF ClearError, ShowError

LEMMA LoadingTyped ==
    ASSUME NEW v \in ViewModel, NEW m
    PROVE  /\ Flagged(SetLoading(v, m), v)
           /\ Flagged(EndLoading(v, m), v) /\ EndLoading(v, m).error = v.error
BY FlagsTyped DEF SetLoading, EndLoading

LEMMA FlaggedTwice ==
    ASSUME NEW u, NEW v, NEW w, Flagged(u, v), Flagged(v, w)
    PROVE  Flagged(u, w)
BY DEF Flagged

LEMMA RunAsyncTyped ==
    ASSUME NEW v \in ViewModel, NEW w \in {"loading", "busy", "bare"}, NEW b \in BOOLEAN
    PROVE  Flagged(RunAsyncBegin(v, w), v) /\ Flagged(RunAsyncEnd(v, w, b), v)
<1>1. Flagged(RunAsyncBegin(v, w), v)
  <2> DEFINE u == ClearError(v)
  <2>1. u \in ViewModel /\ Flagged(u, v)
    BY ErrorsTyped DEF Flagged
  <2> HIDE DEF u
  <2>2. Flagged([u EXCEPT !.loading = TRUE], u) /\ Flagged([u EXCEPT !.busy = TRUE], u)
    BY <2>1, FlagsTyped
  <2>3. RunAsyncBegin(v, w) \in {[u EXCEPT !.loading = TRUE], [u EXCEPT !.busy = TRUE], v}
    BY DEF RunAsyncBegin, u
  <2>4. Flagged([u EXCEPT !.loading = TRUE], v) /\ Flagged([u EXCEPT !.busy = TRUE], v)
    BY <2>1, <2>2, FlaggedTwice
  <2>5. Flagged(v, v)
    BY FlagsTyped
  <2>6. QED
    BY <2>3, <2>4, <2>5
<1>2. Flagged(RunAsyncEnd(v, w, b), v)
  <2> DEFINE u == IF b /\ w # "bare" THEN ShowError(v) ELSE v
  <2>1. u \in ViewModel /\ Flagged(u, v)
    BY ErrorsTyped, FlagsTyped DEF Flagged
  <2> HIDE DEF u
  <2>2. Flagged([u EXCEPT !.loading = FALSE], u) /\ Flagged([u EXCEPT !.busy = FALSE], u)
    BY <2>1, FlagsTyped
  <2>3. RunAsyncEnd(v, w, b) \in {[u EXCEPT !.loading = FALSE], [u EXCEPT !.busy = FALSE], u}
    BY DEF RunAsyncEnd, u
  <2>4. Flagged([u EXCEPT !.loading = FALSE], v) /\ Flagged([u EXCEPT !.busy = FALSE], v)
    BY <2>1, <2>2, FlaggedTwice
  <2>5. QED
    BY <2>1, <2>3, <2>4
<1>3. QED
  BY <1>1, <1>2

LEMMA BeginTyped ==
    ASSUME NEW v \in ViewModel, NEW l \in Loading, kind \in AllKinds
    PROVE  Flagged(Begin(v, l), v)
<1> DEFINE c == ClearError(v)
<1>1. l.wrap \in {"loading", "busy", "bare"}
  BY DEF Loading
<1>2. c \in ViewModel /\ Flagged(c, v) /\ Flagged(v, v)
  BY ErrorsTyped, FlagsTyped DEF Flagged
<1> HIDE DEF c
<1>3. Flagged(SetLoading(c, l.mode), v) /\ Flagged(SetLoading(v, l.mode), v)
  BY <1>2, LoadingTyped, FlaggedTwice
<1>4. Flagged(ClearError(RunAsyncBegin(v, l.wrap)), v)
  <2> DEFINE r == RunAsyncBegin(v, l.wrap)
  <2>1. Flagged(r, v)
    BY <1>1, RunAsyncTyped
  <2> HIDE DEF r
  <2>2. r \in ViewModel
    BY <2>1 DEF Flagged
  <2>3. Flagged(ClearError(r), v)
    BY <2>1, <2>2, ErrorsTyped, FlaggedTwice
  <2>4. QED
    BY <2>3 DEF r
<1>5. Begin(v, l) \in {SetLoading(c, l.mode), SetLoading(v, l.mode), c, v,
                       ClearError(RunAsyncBegin(v, l.wrap))}
  BY DEF AllKinds, Begin, ServerDetailBegin, ServerListBegin, TenantDetailBegin,
         TenantDatabasesBegin, ServerDatabasesBegin, DatabaseListBegin,
         ServerEventsBegin, TenantListBegin, c
<1>6. QED
  BY <1>2, <1>3, <1>4, <1>5

LEMMA FailedTyped ==
    ASSUME NEW v \in ViewModel, NEW l \in Loading, kind \in AllKinds
    PROVE  /\ Flagged(Failed(v, l), v)
           /\ kind \in Followers => Failed(v, l).error
<1> DEFINE e == ShowError(v)
           n == EndLoading(e, l.mode)
           d == [n EXCEPT !.upToDate = FALSE]
           w == [v EXCEPT !.upToDate = FALSE]
           r == RunAsyncEnd(w, l.wrap, TRUE)
<1>1. e \in ViewModel /\ Flagged(e, v) /\ Flagged(v, v) /\ e.error
  BY ErrorsTyped, FlagsTyped DEF Flagged
<1>2. w \in ViewModel /\ Flagged(w, v)
  BY FlagsTyped DEF Flagged
<1>3. Failed(v, l) \in {n, d, r, v} /\ (kind \in Followers => Failed(v, l) \in {n, d})
  BY DEF AllKinds, Failed, ServerDetailFailed, ServerListFailed,
         TenantDetailFailed, TenantDatabasesFailed, ServerDatabasesFailed, DatabaseListFailed,
         ServerEventsFailed, TenantListFailed, Followers, e, n, d, w, r
<1> HIDE DEF e, w
<1>4. n \in ViewModel /\ Flagged(n, v) /\ n.error
  BY <1>1, LoadingTyped, FlaggedTwice DEF Flagged
<1> HIDE DEF n
<1>5. Flagged(d, v) /\ d.error
  BY <1>4, FlagsTyped, FlaggedTwice
<1>6. Flagged(r, v)
  BY <1>2, RunAsyncTyped, FlaggedTwice DEF Loading
<1>7. QED
  BY <1>1, <1>3, <1>4, <1>5, <1>6

(* Timers are started one at a time.                                       *)
LEMMA PollingTyped ==
    ASSUME NEW v \in ViewModel
    PROVE  /\ StartPolling(v) \in ViewModel /\ Timers(StartPolling(v)) = Timers(v) + 1
           /\ StartPolling(v).handle = "live"
           /\ StartPolling(v).shown = v.shown /\ StartPolling(v).form = v.form
           /\ ForgetHandle(v) \in ViewModel /\ Timers(ForgetHandle(v)) = Timers(v)
           /\ ForgetHandle(v).shown = v.shown /\ ForgetHandle(v).form = v.form
           /\ Deactivate(v) \in ViewModel /\ Timers(Deactivate(v)) <= Timers(v)
           /\ Deactivate(v).shown = v.shown /\ Deactivate(v).form = v.form
           /\ Timers(v) \in Nat
<1> DEFINE s == StartPolling(v)
           f == ForgetHandle(v)
           d == Deactivate(v)
           o == v.orphans + (IF v.handle = "live" THEN 1 ELSE 0)
<1>1. v.orphans \in Nat /\ v.handle \in {"zero", "live", "spent"} /\ o \in Nat
  BY DEF ViewModel
<1>2. /\ s = [v EXCEPT !.handle = "live", !.orphans = o]
      /\ f = [v EXCEPT !.handle = "zero", !.orphans = o]
      /\ d = [v EXCEPT !.handle = "zero"]
  <2>1. CASE v.handle = "live"
    <3>1. o = v.orphans + 1
      BY <2>1
    <3> HIDE DEF o
    <3>2. QED
      BY <2>1, <3>1 DEF StartPolling, ForgetHandle, Deactivate
  <2>2. CASE v.handle # "live"
    <3>1. o = v.orphans
      BY <1>1, <2>2
    <3> HIDE DEF o
    <3>2. QED
      BY <2>2, <3>1 DEF StartPolling, ForgetHandle, Deactivate
  <2>3. QED
    BY <2>1, <2>2
<1> HIDE DEF s, f, d, o
<1>3. /\ s \in ViewModel /\ s.shown = v.shown /\ s.form = v.form
      /\ s.handle = "live" /\ s.orphans = o
  BY <1>1, <1>2 DEF ViewModel
<1>4. /\ f \in ViewModel /\ f.shown = v.shown /\ f.form = v.form
      /\ f.handle = "zero" /\ f.orphans = o
  BY <1>1, <1>2 DEF ViewModel
<1>5. /\ d \in ViewModel /\ d.shown = v.shown /\ d.form = v.form
      /\ d.handle = "zero" /\ d.orphans = v.orphans
  BY <1>1, <1>2 DEF ViewModel
<1>6. Timers(s) = Timers(v) + 1 /\ Timers(f) = Timers(v) /\ Timers(d) <= Timers(v)
      /\ Timers(v) \in Nat
  BY <1>1, <1>3, <1>4, <1>5 DEF Timers, o
<1>7. QED
  BY <1>3, <1>4, <1>5, <1>6 DEF s, f, d

LEMMA ShowTyped ==
    ASSUME NEW v \in ViewModel, NEW n \in Nat
    PROVE  /\ Show(v, n) \in ViewModel /\ Show(v, n).shown = n /\ Show(v, n).form = v.form
           /\ Timers(Show(v, n)) = Timers(v)
BY DEF Show, ViewModel, Timers

(* A reply that shows an action in progress leaves a timer, on the pages   *)
(* that promise to follow it; no reply leaves more than one.               *)
LEMMA LoadedTyped ==
    ASSUME NEW v \in ViewModel, NEW l \in Loading, l.reply \in Nat, kind \in AllKinds
    PROVE  LET u == Loaded(v, l)
           IN  /\ u \in ViewModel /\ u.shown = l.reply /\ u.form = v.form
               /\ Timers(u) <= Timers(v) + 1
               /\ kind \in Followers /\ records[l.reply] = "Busy" => u.handle = "live"
<1> DEFINE u == Loaded(v, l)
           n == l.reply
           s == Show(v, n)
           q == StartPolling(s)
           f == ForgetHandle(s)
           p == PollIfBusy(s, n)
           Followed(x) == /\ x \in ViewModel /\ x.shown = n /\ x.form = v.form
                          /\ Timers(x) <= Timers(v) + 1
<1>1. Followed(s) /\ Timers(s) = Timers(v) /\ Timers(v) \in Nat
  <2>1. s \in ViewModel /\ s.shown = n /\ s.form = v.form /\ Timers(s) = Timers(v)
    BY ShowTyped
  <2>2. Timers(v) \in Nat
    BY PollingTyped
  <2> HIDE DEF s, n
  <2>3. QED
    BY <2>1, <2>2
<1>2. p \in {q, s} /\ (records[n] = "Busy" => p = q)
  BY DEF PollIfBusy
<1> HIDE DEF s
<1>3. Followed(q) /\ q.handle = "live" /\ Followed(f)
  BY <1>1, PollingTyped
<1> HIDE DEF q, f
<1>4. Followed(p) /\ (records[n] = "Busy" => p.handle = "live")
  BY <1>1, <1>2, <1>3
<1>5. ASSUME NEW x, NEW y, Followed(x), Flagged(y, x) PROVE Followed(y)
  BY <1>5 DEF Flagged, Timers
<1>6. ASSUME NEW x, Followed(x), NEW m
      PROVE  LET e == EndLoading(x, m)
             IN  Flagged(e, x) /\ Flagged([e EXCEPT !.upToDate = FALSE], x)
  <2> DEFINE e == EndLoading(x, m)
  <2>1. e \in ViewModel /\ Flagged(e, x)
    BY <1>6, LoadingTyped DEF Flagged
  <2> HIDE DEF e
  <2>2. Flagged([e EXCEPT !.upToDate = FALSE], x)
    BY <2>1, FlagsTyped, FlaggedTwice
  <2>3. QED
    BY <2>1, <2>2 DEF e
<1>7. CASE kind \in Followers
  <2>1. u = EndLoading(p, l.mode) \/ u = [EndLoading(p, l.mode) EXCEPT !.upToDate = FALSE]
    BY <1>7 DEF Followers, Loaded, ServerDetailLoaded, TenantDatabasesLoaded, s, p
  <2> HIDE DEF p, u, Followed
  <2>2. Flagged(u, p)
    BY <1>4, <1>6, <2>1
  <2>3. Followed(u)
    BY <1>4, <1>5, <2>2
  <2>4. u.handle = p.handle
    BY <2>2 DEF Flagged
  <2>5. QED
    BY <1>4, <2>3, <2>4 DEF Followed, u
<1>8. CASE kind = "tenantDetail"
  <2> DEFINE w == [p EXCEPT !.upToDate = FALSE]
  <2>1. u = RunAsyncEnd(w, l.wrap, FALSE)
    BY <1>8 DEF Loaded, TenantDetailLoaded, s, p
  <2> HIDE DEF p, u
  <2>2. w \in ViewModel /\ Flagged(w, p)
    BY <1>4, FlagsTyped DEF Flagged
  <2> HIDE DEF w
  <2>3. Flagged(u, p)
    BY <2>1, <2>2, RunAsyncTyped, FlaggedTwice DEF Loading
  <2> HIDE DEF Followed
  <2>4. Followed(u)
    BY <1>4, <1>5, <2>3
  <2>5. QED
    BY <1>8, <2>4 DEF Followed, Followers, u
<1>9. CASE kind \notin Followers /\ kind # "tenantDetail"
  <2>1. \E x \in {s, q, f, p} : u = x \/ u = EndLoading(x, l.mode)
    BY <1>9 DEF Followers, AllKinds, Loaded, ServerListLoaded, DatabaseDetailLoaded,
               ServerDatabasesLoaded, DatabaseListLoaded, ServerEventsLoaded,
               TenantListLoaded, s, q, f, p
  <2>2. Followed(s) /\ Followed(q) /\ Followed(f) /\ Followed(p)
    BY <1>1, <1>3, <1>4
  <2> HIDE DEF p, u, Followed
  <2>3. Followed(u)
    BY <1>5, <1>6, <2>1, <2>2
  <2>4. QED
    BY <1>9, <2>3 DEF Followed, u
<1>10. QED
  BY <1>7, <1>8, <1>9

LEMMA MissingTyped ==
    ASSUME NEW v \in ViewModel, NEW m
    PROVE  LET u == ServerDetailMissing(v, m)
           IN  /\ u \in ViewModel /\ u.shown = 0 /\ u.form = v.form
               /\ Timers(u) = Timers(v)
<1> DEFINE s == Show(v, 0)
           e == ShowError(s)
           u == ServerDetailMissing(v, m)
<1>1. s \in ViewModel /\ s.shown = 0 /\ s.form = v.form /\ Timers(s) = Timers(v)
  BY ShowTyped
<1>2. u = s \/ u = EndLoading(e, m)
  BY DEF ServerDetailMissing
<1> HIDE DEF s, u
<1>3. e \in ViewModel /\ Flagged(e, s)
  BY <1>1, ErrorsTyped DEF Flagged
<1> HIDE DEF e
<1>4. Flagged(u, s)
  <2>1. Flagged(EndLoading(e, m), s)
    BY <1>3, LoadingTyped, FlaggedTwice
  <2>2. Flagged(s, s)
    BY <1>1, FlagsTyped
  <2>3. QED
    BY <1>2, <2>1, <2>2
<1>5. QED
  BY <1>1, <1>4 DEF Flagged, Timers, u

(* A value is what was read; "null" is what getServer makes of a server    *)
(* that is gone.                                                           *)
LEMMA OutcomesAreReplies ==
    ASSUME NEW n, kind \in AllKinds
    PROVE  /\ LoadOutcome(n) \in {"value", "null", "throws"}
           /\ LoadOutcome(n) = "value" => n # Broken
           /\ LoadOutcome(n) = "null" => kind = "serverDetail"
BY DEF AllKinds, LoadOutcome, AnswerGetServer, AnswerQuery, AnswerGetDatabase,
       AnswerGetServerEvents, GetServer, GetServers, GetTenantServers, GetTenantDatabases,
       GetDatabase, GetServerDatabases, GetDatabases, GetServerEvents, GetTenants,
       RecordOrNull, ValueOnly

-----------------------------------------------------------------------------
(* Slots of loads and of operations.                                       *)
LEMMA LeastIsMember ==
    ASSUME NEW S, S \subseteq Nat, S # {}
    PROVE  Min(S) \in S
<1> DEFINE R == {pair \in Nat \X Nat : pair[1] < pair[2]}
<1>1. OpToRel(<, Nat) = R
  BY DEF OpToRel
<1>2. IsWellFoundedOn(R, Nat)
  BY <1>1, NatLessThanWellFounded
<1> HIDE DEF R
<1>3. PICK x \in S : \A y \in S : ~ <<y, x>> \in R
  BY <1>2, WFMin
<1>4. ASSUME NEW y \in S PROVE x <= y
  <2>1. x \in Nat /\ y \in Nat
    OBVIOUS
  <2>2. y < x => <<y, x>> \in R
    BY <2>1 DEF R
  <2>3. ~(y < x)
    BY <1>3, <2>2
  <2>4. QED
    BY <2>1, <2>3
<1>5. QED
  BY <1>4 DEF Min

LEMMA HideTyped ==
    ASSUME NEW v \in ViewModel
    PROVE  LET u == [v EXCEPT !.form = FALSE]
           IN  /\ u \in ViewModel /\ ~u.form /\ u.shown = v.shown /\ u.error = v.error
               /\ u.handle = v.handle /\ Timers(u) = Timers(v)
BY DEF ViewModel, Timers

(* The slots that are taken. *)
Used(f, n) == {i \in 1 .. n : f[i] # Nothing}

LEMMA UsedIsFinite ==
    ASSUME NEW n \in Nat, NEW f
    PROVE  IsFiniteSet(Used(f, n)) /\ Cardinality(Used(f, n)) \in Nat
<1>1. IsFiniteSet(1 .. n) /\ Used(f, n) \in SUBSET (1 .. n)
  BY FS_Interval DEF Used
<1>2. IsFiniteSet(Used(f, n))
  BY <1>1, FS_Subset
<1>3. QED
  BY <1>2, FS_CardinalityType

(* A slot that was free is taken; read backwards, one is freed.            *)
LEMMA SlotTaken ==
    ASSUME NEW n \in Nat, NEW f, NEW g, NEW i \in 1 .. n,
           f[i] = Nothing, g[i] # Nothing, \A k \in 1 .. n : k # i => g[k] = f[k]
    PROVE  Cardinality(Used(g, n)) = Cardinality(Used(f, n)) + 1
<1>1. Used(g, n) = Used(f, n) \cup {i} /\ i \notin Used(f, n)
  BY DEF Used
<1>2. IsFiniteSet(Used(f, n))
  BY UsedIsFinite
<1>3. QED
  BY <1>1, <1>2, FS_AddElement

LEMMA UsedCounts ==
    TypeOK => /\ InFlight = Used(loads, MaxLoads)
              /\ Cardinality(Used(loads, MaxLoads)) \in Nat
              /\ Cardinality(Used(operations, MaxOperations)) \in Nat
<1>1. MaxLoads \in Nat /\ MaxOperations \in Nat
  BY ConsoleAssumption
<1>2. QED
  BY <1>1, UsedIsFinite DEF InFlight, Slots, Used

(* StartLoad takes a slot and leaves timers and display alone.             *)
LEMMA StartLoadTyped ==
    ASSUME TypeOK, NEW v \in ViewModel, NEW l \in Loading, l.reply = 0, StartLoad(v, l)
    PROVE  /\ loads' \in [Slots -> Loading \cup {Nothing}]
           /\ \A s \in Slots : loads'[s] = loads[s] \/ loads'[s] = l
           /\ InFlight' # {}
           /\ Cardinality(Used(loads', MaxLoads)) = Cardinality(Used(loads, MaxLoads)) + 1
           /\ Flagged(view', v)
<1> DEFINE i == Min(FreeSlots)
<1>1. MaxLoads \in Nat /\ Slots = 1 .. MaxLoads
  BY ConsoleAssumption DEF Slots
<1>2. i \in FreeSlots
  <2>1. FreeSlots \subseteq Nat /\ FreeSlots # {}
    BY <1>1 DEF StartLoad, FreeSlots
  <2>2. QED
    BY <2>1, LeastIsMember
<1>3. i \in 1 .. MaxLoads /\ loads[i] = Nothing
  BY <1>1, <1>2 DEF FreeSlots
<1>4. loads' = [loads EXCEPT ![i] = l]
  BY DEF StartLoad
<1> HIDE DEF i
<1>5. loads \in [1 .. MaxLoads -> Loading \cup {Nothing}] /\ l # Nothing
  BY <1>1, NothingIsNoLoad DEF TypeOK
<1>6. /\ loads' \in [Slots -> Loading \cup {Nothing}]
      /\ i \in Used(loads', MaxLoads)
      /\ Cardinality(Used(loads', MaxLoads)) = Cardinality(Used(loads, MaxLoads)) + 1
  <2>1. /\ loads' \in [1 .. MaxLoads -> Loading \cup {Nothing}] /\ loads'[i] # Nothing
        /\ \A k \in 1 .. MaxLoads : k # i => loads'[k] = loads[k]
    BY <1>3, <1>4, <1>5
  <2>2. Cardinality(Used(loads', MaxLoads)) = Cardinality(Used(loads, MaxLoads)) + 1
    BY <1>1, <1>3, <2>1, SlotTaken
  <2>3. i \in Used(loads', MaxLoads)
    BY <1>3, <2>1 DEF Used
  <2>4. QED
    BY <1>1, <2>1, <2>2, <2>3
<1>7. \A s \in Slots : loads'[s] = loads[s] \/ loads'[s] = l
  BY <1>1, <1>4, <1>5
<1>8. InFlight' # {}
  BY <1>1, <1>6 DEF InFlight, Used
<1>9. Flagged(view', v)
  BY BeginTyped DEF StartLoad, TypeOK
<1>10. QED
  BY <1>6, <1>7, <1>8, <1>9

LEMMA OperationTaken ==
    ASSUME TypeOK, NEW o \in Operating, FreeOpSlots # {},
           operations' = [operations EXCEPT ![Min(FreeOpSlots)] = o]
    PROVE  /\ operations' \in [OpSlots -> Operating \cup {Nothing}]
           /\ Cardinality(Used(operations', MaxOperations))
                = Cardinality(Used(operations, MaxOperations)) + 1
<1> DEFINE i == Min(FreeOpSlots)
<1>1. MaxOperations \in Nat /\ OpSlots = 1 .. MaxOperations
  BY ConsoleAssumption DEF OpSlots
<1>2. i \in FreeOpSlots
  <2>1. FreeOpSlots \subseteq Nat
    BY <1>1 DEF FreeOpSlots
  <2>2. QED
    BY <2>1, LeastIsMember
<1>3. i \in 1 .. MaxOperations /\ operations[i] = Nothing
  BY <1>1, <1>2 DEF FreeOpSlots
<1> HIDE DEF i
<1>4. operations \in [1 .. MaxOperations -> Operating \cup {Nothing}] /\ o # Nothing
  BY <1>1, NothingIsNoLoad DEF TypeOK
<1>5. operations' = [operations EXCEPT ![i] = o]
  BY DEF i
<1>6. /\ operations' \in [1 .. MaxOperations -> Operating \cup {Nothing}]
      /\ operations'[i] # Nothing
      /\ \A k \in 1 .. MaxOperations : k # i => operations'[k] = operations[k]
  BY <1>3, <1>4, <1>5
<1>7. QED
  BY <1>1, <1>3, <1>6, SlotTaken

(* What the end of a load leaves: no more than one timer in place of it.   *)
LEMMA FinishLoadTyped ==
    ASSUME TypeOK, NEW s \in Slots, FinishLoad(s)
    PROVE  /\ loads[s] # Nothing /\ loads' = [loads EXCEPT ![s] = Nothing]
           /\ page' \in Pages
           /\ view' \in ViewModel /\ view'.shown <= Len(records)
           /\ Timers(view') <= Timers(view) + 1 /\ (view'.form => view.form)
           /\ kind \in Followers =>
                \/ page' # "view" \/ view'.error \/ view'.shown = 0
                \/ records[view'.shown] = "Busy" => view'.handle = "live"
<1> DEFINE l == loads[s]
           Hide(v) == IF l.hides THEN [v EXCEPT !.form = FALSE] ELSE v
<1>1. /\ l # Nothing /\ l \in Loading /\ l.reply # 0
      /\ l.reply = Broken \/ l.reply \in 1 .. Len(records)
  BY DEF FinishLoad, TypeOK
<1>2. kind \in AllKinds /\ view \in ViewModel /\ page \in Pages /\ Len(records) \in Nat
      /\ view.shown \in Nat /\ view.shown <= Len(records) /\ Timers(view) \in Nat
  BY PollingTyped DEF TypeOK, ViewModel
<1>3. LoadOutcome(l.reply) \in {"value", "throws", "null"}
  BY <1>2, OutcomesAreReplies
<1>4. CASE LoadOutcome(l.reply) = "value"
  <2> DEFINE u == Loaded(view, l)
  <2>1. l.reply \in 1 .. Len(records)
    BY <1>1, <1>2, <1>4, OutcomesAreReplies
  <2>2. /\ u \in ViewModel /\ u.shown = l.reply /\ u.form = view.form
        /\ Timers(u) <= Timers(view) + 1
        /\ kind \in Followers /\ records[l.reply] = "Busy" => u.handle = "live"
    BY <1>1, <1>2, <2>1, LoadedTyped
  <2>3. view' = (IF l.hides THEN [u EXCEPT !.form = FALSE] ELSE u) /\ UNCHANGED page
        /\ loads' = [loads EXCEPT ![s] = Nothing]
    BY <1>4 DEF FinishLoad
  <2> HIDE DEF u
  <2>4. QED
    BY <1>1, <1>2, <2>1, <2>2, <2>3, HideTyped
<1>5. CASE LoadOutcome(l.reply) = "throws"
  <2> DEFINE u == Failed(view, l)
  <2>1. Flagged(u, view) /\ (kind \in Followers => u.error)
    BY <1>1, <1>2, FailedTyped
  <2>2. view' = (IF l.hides THEN [u EXCEPT !.form = FALSE] ELSE u) /\ UNCHANGED page
        /\ loads' = [loads EXCEPT ![s] = Nothing]
    BY <1>5 DEF FinishLoad
  <2> HIDE DEF u
  <2>3. u \in ViewModel /\ Timers(u) = Timers(view) /\ u.shown = view.shown /\ u.form = view.form
    BY <2>1 DEF Flagged, Timers
  <2>4. QED
    BY <1>1, <1>2, <2>1, <2>2, <2>3, HideTyped
<1>6. CASE LoadOutcome(l.reply) = "null"
  <2> DEFINE u == ServerDetailMissing(view, l.mode)
  <2>1. /\ u \in ViewModel /\ u.shown = 0 /\ u.form = view.form /\ Timers(u) = Timers(view)
    BY <1>2, MissingTyped
  <2>2. /\ loads' = [loads EXCEPT ![s] = Nothing]
        /\ view' = u \/ view' = Deactivate(u)
        /\ page' = page \/ page' = "servers"
    BY <1>6 DEF FinishLoad, Navigate
  <2> HIDE DEF u
  <2>3. Timers(Deactivate(u)) <= Timers(u) /\ Deactivate(u) \in ViewModel
        /\ Deactivate(u).shown = 0 /\ Deactivate(u).form = view.form
    BY <2>1, PollingTyped
  <2> DEFINE d == Deactivate(u)
  <2>4. d \in ViewModel /\ d.shown = 0 /\ d.form = view.form /\ Timers(d) <= Timers(view) + 1
    <3>1. Timers(d) \in Nat
      BY <2>3, PollingTyped
    <3> HIDE DEF d
    <3>2. Timers(d) <= Timers(view)
      BY <2>1, <2>3 DEF d
    <3>3. QED
      BY <1>2, <2>3, <3>1, <3>2 DEF d
  <2>5. view' = u \/ view' = d
    BY <2>2
  <2> HIDE DEF d
  <2>6. QED
    BY <1>1, <1>2, <2>1, <2>2, <2>4, <2>5 DEF Pages
<1>7. QED
  BY <1>3, <1>4, <1>5, <1>6

-----------------------------------------------------------------------------
(* The inductive invariant.  Operations under way count as the load each   *)
(* of them may start, and only a page with a form has one open: sending a  *)
(* form clears an error, which may be all that a busy display rests on.    *)
ChainInv ==
  Timers(view) + Cardinality(Used(loads, MaxLoads))
    + Cardinality(Used(operations, MaxOperations)) <= 1 + kicks

PageInv ==
  /\ TypeOK
  /\ view.form => HasForm
  /\ BusyIsFollowed
  /\ ChainInv

LEMMA PageInvInit == Init => PageInv
<1> SUFFICES ASSUME Init PROVE PageInv
  OBVIOUS
<1> DEFINE l == Load("initial", IF kind = "tenantDetail" THEN "loading" ELSE "bare",
                     FALSE, FALSE)
<1>1. kind \in AllKinds /\ MaxLoads \in Nat \ {0} /\ MaxOperations \in Nat
  BY ConsoleAssumption DEF Init
<1>2. l \in Loading /\ l # Nothing /\ l.reply = 0
  BY LoadTyped
<1>3. /\ loads = [s \in Slots |-> IF s = 1 THEN l ELSE Nothing]
      /\ view = Begin(NewViewModel, l)
      /\ operations = [s \in OpSlots |-> Nothing]
  BY DEF Init
<1> HIDE DEF l
<1>4. NewViewModel \in ViewModel /\ NewViewModel.shown = 0 /\ ~NewViewModel.form
      /\ Timers(NewViewModel) = 0
  BY DEF NewViewModel, ViewModel, Timers
<1>5. Flagged(view, NewViewModel)
  BY <1>1, <1>2, <1>3, <1>4, BeginTyped
<1>6. view \in ViewModel /\ view.shown = 0 /\ ~view.form /\ Timers(view) = 0
  BY <1>4, <1>5 DEF Flagged, Timers
<1>7. TypeOK
  <2>1. records \in Seq(RecordStates) /\ records # <<>> /\ Len(records) = 1
    <3>1. ASSUME NEW x \in RecordStates
          PROVE  <<x>> \in Seq(RecordStates) /\ <<x>> # <<>> /\ Len(<<x>>) = 1
      OBVIOUS
    <3>2. \E x \in RecordStates : records = <<x>>
      BY DEF Init, RecordStates
    <3>3. QED
      BY <3>1, <3>2
  <2>2. /\ loads \in [Slots -> Loading \cup {Nothing}]
        /\ \A s \in Slots : loads[s] # Nothing => loads[s].reply = 0
        /\ operations \in [OpSlots -> Operating \cup {Nothing}]
    BY <1>2, <1>3
  <2>3. /\ page \in Pages /\ dialog = "closed" /\ configured \in Configurations
        /\ indexed = 1 /\ kicks = 0 /\ failures = 0
    BY DEF Init, Pages, Configurations
  <2>4. QED
    BY <1>1, <1>6, <2>1, <2>2, <2>3 DEF TypeOK
<1>8. BusyIsFollowed
  BY <1>6 DEF BusyIsFollowed, ShowsBusy, Shown
<1>9. ChainInv
  <2> DEFINE none == [s \in Slots |-> Nothing]
  <2>1. Used(none, MaxLoads) = {} /\ Used(operations, MaxOperations) = {}
    BY <1>3 DEF Used, Slots, OpSlots
  <2>2. /\ \A k \in 1 .. MaxLoads : k # 1 => loads[k] = none[k]
        /\ none[1] = Nothing /\ loads[1] # Nothing /\ 1 \in 1 .. MaxLoads
    BY <1>1, <1>2, <1>3 DEF Slots
  <2> HIDE DEF none
  <2>3. Cardinality(Used(loads, MaxLoads)) = 1
    <3>1. Cardinality(Used(loads, MaxLoads)) = Cardinality(Used(none, MaxLoads)) + 1
      BY <1>1, <2>2, SlotTaken
    <3>2. Cardinality(Used(none, MaxLoads)) = 0
      BY <2>1, FS_EmptySet
    <3>3. QED
      BY <3>1, <3>2
  <2>4. Cardinality(Used(operations, MaxOperations)) = 0
    BY <2>1, FS_EmptySet
  <2>5. kicks = 0
    BY DEF Init
  <2>6. QED
    BY <1>6, <2>3, <2>4, <2>5 DEF ChainInv
<1>10. QED
  BY <1>6, <1>7, <1>8, <1>9 DEF PageInv

(* A load that takes the place of a timer, of an operation, or of nothing  *)
(* when the user asks for it.                                              *)
LEMMA PageInvLoad ==
    ASSUME PageInv, NEW v \in ViewModel, NEW l \in Loading, l.reply = 0, StartLoad(v, l),
           v.shown = view.shown, v.form = view.form,
           UNCHANGED <<kind, page, dialog, worldVars>>,
           operations' \in [OpSlots -> Operating \cup {Nothing}], kicks' \in Nat,
           Timers(v) + 1 + Cardinality(Used(operations', MaxOperations)) - kicks'
             <= Timers(view) + Cardinality(Used(operations, MaxOperations)) - kicks
    PROVE  PageInv'
<1> USE DEF worldVars
<1>1. TypeOK /\ ChainInv
  BY DEF PageInv
<1>2. /\ loads' \in [Slots -> Loading \cup {Nothing}]
      /\ \A s \in Slots : loads'[s] = loads[s] \/ loads'[s] = l
      /\ InFlight' # {}
      /\ Cardinality(Used(loads', MaxLoads)) = Cardinality(Used(loads, MaxLoads)) + 1
      /\ Flagged(view', v)
  BY <1>1, StartLoadTyped
<1>3. view' \in ViewModel /\ view'.shown = view.shown /\ view'.form = view.form
      /\ Timers(view') = Timers(v)
  BY <1>2 DEF Flagged, Timers
<1>4. TypeOK'
  BY <1>1, <1>2, <1>3 DEF TypeOK
<1>5. BusyIsFollowed'
  BY <1>2 DEF BusyIsFollowed
<1>6. ChainInv'
  <2>1. /\ Cardinality(Used(operations', MaxOperations)) \in Nat
        /\ Cardinality(Used(operations, MaxOperations)) \in Nat
        /\ Cardinality(Used(loads, MaxLoads)) \in Nat
    BY ConsoleAssumption, UsedIsFinite
  <2>2. Timers(view) \in Nat /\ Timers(v) \in Nat /\ kicks \in Nat
    BY <1>1, PollingTyped DEF TypeOK
  <2>3. Timers(view)' = Timers(v)
    BY <1>3 DEF Timers
  <2>4. QED
    BY <1>1, <1>2, <2>1, <2>2, <2>3 DEF ChainInv
<1>7. QED
  BY <1>3, <1>4, <1>5, <1>6 DEF PageInv, HasForm

LEMMA SlotsLeft ==
    ASSUME NEW n \in Nat, NEW f, NEW g, \A k \in 1 .. n : f[k] = Nothing => g[k] = Nothing
    PROVE  /\ Cardinality(Used(g, n)) <= Cardinality(Used(f, n))
           /\ Cardinality(Used(g, n)) \in Nat /\ Cardinality(Used(f, n)) \in Nat
<1>1. Used(g, n) \in SUBSET Used(f, n)
  BY DEF Used
<1>2. QED
  BY <1>1, UsedIsFinite, FS_Subset

(* The record gets new versions and operations are answered, unseen by the *)
(* view model.                                                             *)
LEMMA PageInvWorld ==
    ASSUME PageInv, UNCHANGED <<kind, page, view, loads>>,
           records' \in Seq(RecordStates), Len(records) <= Len(records'),
           \A i \in 1 .. Len(records) : records'[i] = records[i],
           indexed' \in 1 .. Len(records'), failures' \in Nat, kicks' \in Nat,
           configured' \in Configurations, dialog' \in {"closed", "open", "dismissed"},
           operations' \in [OpSlots -> Operating \cup {Nothing}],
           Cardinality(Used(operations', MaxOperations)) - kicks'
             <= Cardinality(Used(operations, MaxOperations)) - kicks
    PROVE  PageInv'
<1>1. TypeOK /\ ChainInv /\ BusyIsFollowed /\ (view.form => HasForm)
  BY DEF PageInv
<1>2. Len(records) \in Nat /\ Len(records') \in Nat /\ records' # <<>>
  <2>1. Len(records) \in Nat /\ Len(records) # 0
    BY <1>1 DEF TypeOK
  <2>2. QED
    BY <2>1
<1>3. TypeOK'
  <2>1. view \in ViewModel /\ view.shown \in Nat /\ view.shown <= Len(records')
    BY <1>1, <1>2 DEF TypeOK, ViewModel
  <2>2. \A s \in Slots : loads[s] # Nothing =>
           loads[s].reply = Broken \/ loads[s].reply \in 0 .. Len(records')
    BY <1>1, <1>2 DEF TypeOK
  <2>3. QED
    BY <1>1, <1>2, <2>1, <2>2 DEF TypeOK
<1>4. BusyIsFollowed'
  <2>1. view.shown # 0 => records'[view.shown] = records[view.shown]
    BY <1>1, <1>2 DEF TypeOK, ViewModel
  <2>2. ShowsBusy' <=> ShowsBusy
    BY <2>1 DEF ShowsBusy, Shown
  <2>3. InFlight' = InFlight
    BY DEF InFlight
  <2>4. QED
    BY <1>1, <2>2, <2>3 DEF BusyIsFollowed
<1>5. ChainInv'
  <2>1. /\ Cardinality(Used(operations', MaxOperations)) \in Nat
        /\ Cardinality(Used(operations, MaxOperations)) \in Nat
        /\ Cardinality(Used(loads, MaxLoads)) \in Nat
    BY ConsoleAssumption, UsedIsFinite
  <2>2. Timers(view) \in Nat /\ kicks \in Nat
    BY <1>1, PollingTyped DEF TypeOK
  <2>3. Timers(view)' = Timers(view)
    BY DEF Timers
  <2>4. QED
    BY <1>1, <2>1, <2>2, <2>3 DEF ChainInv
<1>6. QED
  BY <1>1, <1>3, <1>4, <1>5 DEF PageInv, HasForm

(* The view model changes without a load.                                  *)
LEMMA PageInvView ==
    ASSUME PageInv, UNCHANGED <<kind, loads, worldVars>>, page' \in Pages,
           view' \in ViewModel, view'.shown = view.shown, Timers(view') <= Timers(view),
           view'.form => view.form \/ HasForm,
           BusyIsFollowed', dialog' \in {"closed", "open", "dismissed"}, kicks' \in Nat,
           operations' \in [OpSlots -> Operating \cup {Nothing}],
           Cardinality(Used(operations', MaxOperations)) - kicks'
             <= Cardinality(Used(operations, MaxOperations)) - kicks
    PROVE  PageInv'
<1>1. TypeOK /\ ChainInv /\ (view.form => HasForm)
  BY DEF PageInv
<1>2. TypeOK'
  BY <1>1 DEF TypeOK, worldVars
<1>3. ChainInv'
  <2>1. /\ Cardinality(Used(operations', MaxOperations)) \in Nat
        /\ Cardinality(Used(operations, MaxOperations)) \in Nat
        /\ Cardinality(Used(loads, MaxLoads)) \in Nat
    BY ConsoleAssumption, UsedIsFinite
  <2>2. Timers(view) \in Nat /\ Timers(view') \in Nat /\ kicks \in Nat
    BY <1>1, PollingTyped DEF TypeOK
  <2>3. Timers(view)' = Timers(view')
    BY DEF Timers
  <2>4. QED
    BY <1>1, <2>1, <2>2, <2>3 DEF ChainInv
<1>4. QED
  BY <1>1, <1>2, <1>3 DEF PageInv, HasForm

LEMMA AppendTyped ==
    ASSUME TypeOK, NEW x \in RecordStates, Append1(x)
    PROVE  /\ records' \in Seq(RecordStates) /\ Len(records) <= Len(records')
           /\ \A i \in 1 .. Len(records) : records'[i] = records[i]
           /\ indexed' \in 1 .. Len(records')
<1>1. /\ records \in Seq(RecordStates) /\ records' = Append(records, x)
      /\ indexed \in 1 .. Len(records) /\ indexed' \in {indexed, Len(records) + 1}
  BY DEF TypeOK, Append1, Current
<1>2. /\ records' \in Seq(RecordStates) /\ Len(records') = Len(records) + 1
      /\ Len(records) \in Nat
      /\ \A i \in 1 .. Len(records) : records'[i] = records[i]
  BY <1>1
<1>3. QED
  BY <1>1, <1>2

LEMMA PageInvProvisioning == PageInv /\ (Provisioning \/ OtherUser) => PageInv'
<1> SUFFICES ASSUME PageInv, Provisioning \/ OtherUser PROVE PageInv'
  OBVIOUS
<1>1. TypeOK
  BY DEF PageInv
<1>2. /\ UNCHANGED <<kind, page, view, loads, operations, dialog, kicks, failures>>
      /\ configured' \in Configurations
  BY <1>1 DEF Provisioning, ConfigureClient, Provision, IndexCatchesUp, OtherUser,
              TypeOK, Configure, Configurations
<1>3. /\ records' \in Seq(RecordStates) /\ Len(records) <= Len(records')
      /\ \A i \in 1 .. Len(records) : records'[i] = records[i]
      /\ indexed' \in 1 .. Len(records')
  <2>1. CASE \E x \in RecordStates : Append1(x)
    BY <1>1, <2>1, AppendTyped
  <2>2. CASE records' = records /\ (indexed' = indexed \/ (indexed < Current /\ indexed' = indexed + 1))
    <3>1. records \in Seq(RecordStates) /\ Len(records) \in Nat /\ indexed \in 1 .. Len(records)
      BY <1>1 DEF TypeOK
    <3>2. QED
      BY <2>2, <3>1 DEF Current
  <2>3. QED
    BY <2>1, <2>2 DEF Provisioning, ConfigureClient, Provision, IndexCatchesUp, OtherUser,
                      RecordStates
<1>4. /\ operations' \in [OpSlots -> Operating \cup {Nothing}]
      /\ kicks' \in Nat /\ failures' \in Nat /\ dialog' \in {"closed", "open", "dismissed"}
      /\ Cardinality(Used(operations', MaxOperations)) - kicks'
           <= Cardinality(Used(operations, MaxOperations)) - kicks
  <2>1. Cardinality(Used(operations, MaxOperations)) \in Nat /\ kicks \in Nat
    BY <1>1, ConsoleAssumption, UsedIsFinite DEF TypeOK
  <2>2. QED
    BY <1>1, <1>2, <2>1 DEF TypeOK
<1>5. QED
  BY <1>2, <1>3, <1>4, PageInvWorld

LEMMA PageInvServeLoad ==
    ASSUME PageInv, NEW s \in Slots, ServeLoad(s)
    PROVE  PageInv'
<1>1. TypeOK /\ ChainInv /\ BusyIsFollowed /\ (view.form => HasForm)
  BY DEF PageInv
<1>2. /\ UNCHANGED <<kind, page, view, operations, dialog, configured, records, indexed, kicks>>
      /\ failures' \in Nat /\ loads[s] # Nothing
  BY <1>1 DEF ServeLoad, TypeOK
<1>3. PICK n : /\ loads' = [loads EXCEPT ![s].reply = n]
               /\ n = Broken \/ n \in 1 .. Len(records)
  <2>1. Len(records) \in Nat /\ Len(records) # 0 /\ indexed \in 1 .. Len(records)
    BY <1>1 DEF TypeOK
  <2>2. QED
    BY <2>1 DEF ServeLoad, Current
<1>4. n \in Int /\ loads[s] \in Loading
  BY <1>1, <1>2, <1>3 DEF Broken, TypeOK
<1> DEFINE l == [loads[s] EXCEPT !.reply = n]
<1>5. l \in Loading /\ l.reply = n
  BY <1>4 DEF Loading
<1>6. loads' = [loads EXCEPT ![s] = l]
  BY <1>3
<1> HIDE DEF l
<1>7. /\ loads' \in [Slots -> Loading \cup {Nothing}]
      /\ \A t \in Slots : t # s => loads'[t] = loads[t]
      /\ loads'[s] = l /\ l # Nothing
  BY <1>1, <1>5, <1>6, NothingIsNoLoad DEF TypeOK
<1>8. TypeOK'
  <2>1. \A t \in Slots : loads'[t] # Nothing =>
           loads'[t].reply = Broken \/ loads'[t].reply \in 0 .. Len(records)
    BY <1>1, <1>3, <1>5, <1>7 DEF TypeOK
  <2>2. QED
    BY <1>1, <1>2, <1>7, <2>1 DEF TypeOK
<1>9. InFlight' = InFlight
  BY <1>2, <1>7 DEF InFlight
<1>10. BusyIsFollowed'
  BY <1>1, <1>2, <1>9 DEF BusyIsFollowed, ShowsBusy, Shown
<1>11. ChainInv'
  <2>1. Used(loads, MaxLoads)' = Used(loads, MaxLoads)
    BY <1>1, <1>8, <1>9, UsedCounts DEF InFlight, Used, Slots
  <2>2. QED
    BY <1>1, <1>2, <2>1 DEF ChainInv, Timers, Used
<1>12. QED
  BY <1>1, <1>2, <1>8, <1>10, <1>11 DEF PageInv, HasForm

LEMMA PageInvFinishLoad ==
    ASSUME PageInv, NEW s \in Slots, FinishLoad(s)
    PROVE  PageInv'
<1>1. TypeOK /\ ChainInv /\ (view.form => HasForm)
  BY DEF PageInv
<1>2. UNCHANGED <<kind, operations, dialog, configured, records, indexed, failures, kicks>>
  BY DEF FinishLoad, worldVars
<1>3. /\ loads[s] # Nothing /\ loads' = [loads EXCEPT ![s] = Nothing]
      /\ page' \in Pages
      /\ view' \in ViewModel /\ view'.shown <= Len(records)
      /\ Timers(view') <= Timers(view) + 1 /\ (view'.form => view.form)
      /\ kind \in Followers =>
           \/ page' # "view" \/ view'.error \/ view'.shown = 0
           \/ records[view'.shown] = "Busy" => view'.handle = "live"
  BY <1>1, FinishLoadTyped
<1>4. /\ loads' \in [Slots -> Loading \cup {Nothing}]
      /\ \A t \in Slots : t # s => loads'[t] = loads[t]
      /\ loads'[s] = Nothing
  BY <1>1, <1>3 DEF TypeOK
<1>5. TypeOK'
  <2>1. \A t \in Slots : loads'[t] # Nothing =>
           loads'[t].reply = Broken \/ loads'[t].reply \in 0 .. Len(records)
    BY <1>1, <1>4 DEF TypeOK
  <2>2. QED
    BY <1>1, <1>2, <1>3, <1>4, <2>1 DEF TypeOK
<1>6. BusyIsFollowed'
  BY <1>2, <1>3 DEF BusyIsFollowed, ShowsBusy, Shown
<1>7. ChainInv'
  <2>1. Cardinality(Used(loads, MaxLoads)) = Cardinality(Used(loads', MaxLoads)) + 1
    <3>1. MaxLoads \in Nat /\ s \in 1 .. MaxLoads
      BY ConsoleAssumption DEF Slots
    <3>2. \A k \in 1 .. MaxLoads : k # s => loads[k] = loads'[k]
      BY <1>4 DEF Slots
    <3>3. QED
      BY <1>3, <1>4, <3>1, <3>2, SlotTaken
  <2>2. /\ Cardinality(Used(operations, MaxOperations)) \in Nat
        /\ Cardinality(Used(loads, MaxLoads)) \in Nat
        /\ Cardinality(Used(loads', MaxLoads)) \in Nat
    BY ConsoleAssumption, UsedIsFinite
  <2>3. Timers(view) \in Nat /\ Timers(view') \in Nat /\ kicks \in Nat
    BY <1>1, <1>3, PollingTyped DEF TypeOK
  <2>4. Timers(view)' = Timers(view') /\ UNCHANGED <<operations, kicks>>
    BY <1>2 DEF Timers
  <2>5. QED
    BY <1>1, <1>3, <2>1, <2>2, <2>3, <2>4 DEF ChainInv
<1>8. QED
  BY <1>1, <1>2, <1>3, <1>5, <1>6, <1>7 DEF PageInv, HasForm

LEMMA PageInvTimers == PageInv /\ (PollTimer \/ OrphanTimer) => PageInv'
<1> SUFFICES ASSUME PageInv, PollTimer \/ OrphanTimer PROVE PageInv'
  OBVIOUS
<1>1. TypeOK /\ view \in ViewModel
  BY DEF PageInv, TypeOK
<1>2. PollLoad \in Loading /\ PollLoad.reply = 0
  <2>1. view.upToDate \in BOOLEAN
    BY <1>1 DEF ViewModel
  <2>2. QED
    BY <2>1, LoadTyped DEF PollLoad
<1>3. UNCHANGED <<kind, page, operations, dialog, worldVars, kicks>>
  BY DEF PollTimer, OrphanTimer
<1>4. /\ operations' \in [OpSlots -> Operating \cup {Nothing}] /\ kicks' \in Nat
      /\ Cardinality(Used(operations, MaxOperations)) \in Nat /\ kicks \in Nat
      /\ Timers(view) \in Nat
  BY <1>1, <1>3, ConsoleAssumption, UsedIsFinite, PollingTyped DEF TypeOK
<1>5. PICK v : /\ v \in ViewModel /\ v.shown = view.shown /\ v.form = view.form
               /\ Timers(v) + 1 = Timers(view) /\ StartLoad(v, PollLoad)
  <2>1. CASE PollTimer
    <3> DEFINE v == [view EXCEPT !.handle = "spent"]
    <3>1. /\ v \in ViewModel /\ v.shown = view.shown /\ v.form = view.form
          /\ Timers(v) + 1 = Timers(view)
      BY <1>1, <2>1 DEF PollTimer, ViewModel, Timers
    <3>2. QED
      BY <2>1, <3>1 DEF PollTimer
  <2>2. CASE OrphanTimer
    <3> DEFINE v == [view EXCEPT !.orphans = @ - 1]
    <3>1. /\ v \in ViewModel /\ v.shown = view.shown /\ v.form = view.form
          /\ Timers(v) + 1 = Timers(view)
      BY <1>1, <2>2 DEF OrphanTimer, ViewModel, Timers
    <3>2. QED
      BY <2>2, <3>1 DEF OrphanTimer
  <2>3. QED
    BY <2>1, <2>2
<1> HIDE DEF worldVars
<1>6. Timers(v) + 1 + Cardinality(Used(operations', MaxOperations)) - kicks'
        <= Timers(view) + Cardinality(Used(operations, MaxOperations)) - kicks
  BY <1>3, <1>4, <1>5, PollingTyped
<1>7. QED
  BY <1>2, <1>3, <1>4, <1>5, <1>6, PageInvLoad

LEMMA NavigateTyped ==
    ASSUME TypeOK, NEW target \in Pages \ {"view"}, Navigate(view, target)
    PROVE  /\ page' \in Pages /\ page' # "view" /\ view' \in ViewModel
           /\ view'.shown = view.shown /\ view'.form = view.form
           /\ Timers(view') <= Timers(view)
<1>1. view \in ViewModel /\ Timers(view) \in Nat
  BY PollingTyped DEF TypeOK
<1>2. (view' = view \/ view' = Deactivate(view)) /\ page' = target
  BY DEF Navigate
<1>3. CASE view' = view
  BY <1>1, <1>2, <1>3
<1>4. CASE view' = Deactivate(view)
  <2> DEFINE d == Deactivate(view)
  <2>1. d \in ViewModel /\ d.shown = view.shown /\ d.form = view.form /\ Timers(d) <= Timers(view)
    BY <1>1, PollingTyped
  <2> HIDE DEF d
  <2>2. view' = d
    BY <1>4 DEF d
  <2>3. QED
    BY <1>2, <2>1, <2>2
<1>5. QED
  BY <1>2, <1>3, <1>4

LEMMA OperationTyped ==
    ASSUME NEW op \in {"repair", "destroy", "create"},
           NEW stage \in {"asking", "calling", "answered"}
    PROVE  Operation(op, stage) \in Operating
BY DEF Operation, Operating

(* Every operation and every refresh is paid for by one of kicks.          *)
LEMMA Kicked ==
    ASSUME TypeOK, Kick
    PROVE  kicks' \in Nat /\ kicks' = kicks + 1
BY DEF TypeOK, Kick

LEMMA PageInvRefresh == PageInv /\ Refresh => PageInv'
<1> SUFFICES ASSUME PageInv, Refresh PROVE PageInv'
  OBVIOUS
<1>1. TypeOK /\ view \in ViewModel
  BY DEF PageInv, TypeOK
<1>2. RefreshLoad \in Loading /\ RefreshLoad.reply = 0
  <2>1. view.upToDate \in BOOLEAN
    BY <1>1 DEF ViewModel
  <2>2. QED
    BY <2>1, LoadTyped DEF RefreshLoad
<1>3. UNCHANGED <<kind, page, operations, dialog, worldVars>> /\ StartLoad(view, RefreshLoad)
  BY DEF Refresh
<1>4. /\ operations' \in [OpSlots -> Operating \cup {Nothing}]
      /\ Cardinality(Used(operations, MaxOperations)) \in Nat /\ kicks \in Nat
      /\ Timers(view) \in Nat
  BY <1>1, <1>3, ConsoleAssumption, UsedIsFinite, PollingTyped DEF TypeOK
<1>5. kicks' \in Nat /\ kicks' = kicks + 1
  BY <1>1, Kicked DEF Refresh
<1> HIDE DEF worldVars
<1>6. Timers(view) + 1 + Cardinality(Used(operations', MaxOperations)) - kicks'
        <= Timers(view) + Cardinality(Used(operations, MaxOperations)) - kicks
  BY <1>3, <1>4, <1>5
<1>7. QED
  BY <1>1, <1>2, <1>3, <1>4, <1>5, <1>6, PageInvLoad

(* AskFor, DeleteAtOnce and SubmitForm.                                    *)
LEMMA PageInvOperate ==
    PageInv /\ (DeleteAtOnce \/ SubmitForm \/ \E op \in {"repair", "destroy"} : AskFor(op))
      => PageInv'
<1> SUFFICES ASSUME PageInv,
                    DeleteAtOnce \/ SubmitForm \/ \E op \in {"repair", "destroy"} : AskFor(op)
             PROVE  PageInv'
  OBVIOUS
<1>1. TypeOK /\ BusyIsFollowed /\ view \in ViewModel /\ (view.form => HasForm)
  BY DEF PageInv, TypeOK
<1>2. /\ UNCHANGED <<kind, page, loads, worldVars>>
      /\ dialog' \in {"closed", "open", "dismissed"}
      /\ view' = view \/ view' = ClearError(view)
  BY <1>1 DEF DeleteAtOnce, SubmitForm, AskFor, TypeOK
<1>3. kicks' \in Nat /\ kicks' = kicks + 1 /\ kicks \in Nat
  BY <1>1, Kicked DEF DeleteAtOnce, SubmitForm, AskFor, TypeOK
<1>4. /\ operations' \in [OpSlots -> Operating \cup {Nothing}]
      /\ Cardinality(Used(operations', MaxOperations))
           = Cardinality(Used(operations, MaxOperations)) + 1
  <2>1. PICK o \in Operating : FreeOpSlots # {} /\ operations' = [operations EXCEPT ![Min(FreeOpSlots)] = o]
    BY OperationTyped DEF DeleteAtOnce, SubmitForm, AskFor
  <2>2. QED
    BY <1>1, <2>1, OperationTaken
<1>5. Flagged(view', view)
  <2>1. Flagged(view, view) /\ Flagged(ClearError(view), view)
    BY <1>1, ErrorsTyped, FlagsTyped
  <2>2. QED
    BY <1>2, <2>1
<1>6. /\ view' \in ViewModel /\ view'.shown = view.shown /\ Timers(view') <= Timers(view)
      /\ view'.form = view.form
  <2>1. Timers(view) \in Nat
    BY <1>1, PollingTyped
  <2>2. view' \in ViewModel /\ view'.shown = view.shown /\ view'.form = view.form
        /\ view'.handle = view.handle /\ view'.orphans = view.orphans
    BY <1>5 DEF Flagged
  <2>3. Timers(view') = Timers(view)
    BY <2>2 DEF Timers
  <2>4. QED
    BY <2>1, <2>2, <2>3
<1>7. BusyIsFollowed'
  <2>1. UNCHANGED <<kind, page, loads, records>>
    BY <1>2 DEF worldVars
  <2>2. CASE view' = view
    BY <1>1, <2>1, <2>2 DEF BusyIsFollowed, ShowsBusy, Shown, InFlight
  <2>3. CASE \E op \in {"repair", "destroy"} : AskFor(op)
    <3>1. Shown # "Busy"
      BY <2>3 DEF AskFor, CanOperate
    <3>2. Shown' = Shown
      BY <1>6, <2>1 DEF Shown
    <3>3. QED
      BY <3>1, <3>2 DEF BusyIsFollowed, ShowsBusy
  <2>4. CASE SubmitForm
    <3>1. kind \in Followers => kind = "tenantDatabases"
      BY <1>1, <2>4 DEF SubmitForm, HasForm, Followers
    <3>2. kind \in Followers => ~view.error
      BY <2>4, <3>1 DEF SubmitForm, ContentIsShown
    <3>3. QED
      BY <1>1, <1>5, <2>1, <3>2 DEF BusyIsFollowed, ShowsBusy, Shown, InFlight, Flagged
  <2>5. QED
    BY <2>2, <2>3, <2>4 DEF DeleteAtOnce
<1>8. Cardinality(Used(operations', MaxOperations)) - kicks'
        <= Cardinality(Used(operations, MaxOperations)) - kicks
  <2>1. Cardinality(Used(operations, MaxOperations)) \in Nat
    BY ConsoleAssumption, UsedIsFinite
  <2>2. QED
    BY <1>3, <1>4, <2>1
<1>9. page' \in Pages
  BY <1>1, <1>2 DEF TypeOK
<1>10. QED
  BY <1>2, <1>3, <1>4, <1>6, <1>7, <1>8, <1>9, PageInvView

(* AnswerDialog, DismissDialog, ToggleForm and LeavePage.                  *)
LEMMA PageInvUser ==
    PageInv /\ (\/ \E yes \in BOOLEAN : AnswerDialog(yes)
                \/ DismissDialog \/ ToggleForm \/ LeavePage)
      => PageInv'
<1> SUFFICES ASSUME PageInv,
                    \/ \E yes \in BOOLEAN : AnswerDialog(yes)
                    \/ DismissDialog \/ ToggleForm \/ LeavePage
             PROVE  PageInv'
  OBVIOUS
<1>1. TypeOK /\ BusyIsFollowed /\ view \in ViewModel /\ (view.form => HasForm)
      /\ Timers(view) \in Nat
  BY PollingTyped DEF PageInv, TypeOK
<1>2. /\ UNCHANGED <<kind, loads, worldVars, kicks>> /\ kicks' \in Nat
      /\ dialog' \in {"closed", "open", "dismissed"}
  BY <1>1 DEF AnswerDialog, DismissDialog, ToggleForm, LeavePage, TypeOK
<1>3. /\ operations' \in [OpSlots -> Operating \cup {Nothing}]
      /\ \A s \in OpSlots : operations[s] = Nothing => operations'[s] = Nothing
  <2>1. CASE operations' = operations
    BY <1>1, <2>1 DEF TypeOK
  <2>2. CASE \E yes \in BOOLEAN : AnswerDialog(yes)
    <3>1. PICK yes \in BOOLEAN : AnswerDialog(yes)
      BY <2>2
    <3>2. ASSUME NEW s \in Asking
          PROVE  operations[s] # Nothing /\ [operations[s] EXCEPT !.stage = "calling"] \in Operating
      <4>1. operations[s] # Nothing
        BY DEF Asking, Nothing
      <4>2. operations[s] \in Operating
        BY <1>1, <4>1 DEF Asking, TypeOK
      <4>3. QED
        BY <4>1, <4>2 DEF Operating
    <3>3. \A s \in OpSlots : /\ s \notin Asking => operations'[s] = operations[s]
                             /\ s \in Asking => operations'[s] \in Operating \cup {Nothing}
      BY <3>1, <3>2 DEF AnswerDialog
    <3>4. operations' = [s \in OpSlots |-> operations'[s]]
      BY <3>1 DEF AnswerDialog
    <3>5. QED
      BY <1>1, <3>2, <3>3, <3>4 DEF TypeOK
  <2>3. QED
    BY <2>1, <2>2 DEF DismissDialog, ToggleForm, LeavePage
<1>4. Cardinality(Used(operations', MaxOperations)) - kicks'
        <= Cardinality(Used(operations, MaxOperations)) - kicks
  <2>1. /\ Cardinality(Used(operations', MaxOperations))
             <= Cardinality(Used(operations, MaxOperations))
        /\ Cardinality(Used(operations, MaxOperations)) \in Nat
        /\ Cardinality(Used(operations', MaxOperations)) \in Nat
    BY <1>3, ConsoleAssumption, SlotsLeft DEF OpSlots
  <2>2. QED
    BY <1>1, <1>2, <2>1 DEF TypeOK
<1>5. CASE LeavePage
  <2>1. /\ page' \in Pages /\ page' # "view" /\ view' \in ViewModel
        /\ view'.shown = view.shown /\ view'.form = view.form
        /\ Timers(view') <= Timers(view)
    BY <1>1, <1>5, NavigateTyped DEF LeavePage, Pages
  <2>2. BusyIsFollowed'
    BY <2>1 DEF BusyIsFollowed
  <2>3. QED
    BY <1>2, <1>3, <1>4, <2>1, <2>2, PageInvView
<1>6. CASE ToggleForm
  <2>1. /\ view' \in ViewModel /\ view'.shown = view.shown
        /\ view'.handle = view.handle /\ view'.orphans = view.orphans /\ view'.error = view.error
        /\ HasForm /\ page' = page
    BY <1>1, <1>6 DEF ToggleForm, ViewModel
  <2>2. BusyIsFollowed'
    BY <1>1, <1>2, <2>1 DEF BusyIsFollowed, ShowsBusy, Shown, InFlight, worldVars
  <2>3. Timers(view') <= Timers(view)
    BY <1>1, <2>1 DEF Timers
  <2>4. page' \in Pages
    BY <1>1, <2>1 DEF TypeOK
  <2>5. QED
    BY <1>2, <1>3, <1>4, <2>1, <2>2, <2>3, <2>4, PageInvView
<1>7. CASE DismissDialog \/ \E yes \in BOOLEAN : AnswerDialog(yes)
  <2>1. view' = view /\ page' = page
    BY <1>7 DEF DismissDialog, AnswerDialog
  <2>2. BusyIsFollowed'
    BY <1>1, <1>2, <2>1 DEF BusyIsFollowed, ShowsBusy, Shown, InFlight, worldVars
  <2>3. page' \in Pages /\ Timers(view') <= Timers(view)
    BY <1>1, <2>1 DEF TypeOK
  <2>4. QED
    BY <1>1, <1>2, <1>3, <1>4, <2>1, <2>2, <2>3, PageInvView
<1>8. QED
  BY <1>5, <1>6, <1>7

LEMMA CallOutcomes ==
    ASSUME NEW op \in {"repair", "destroy", "create"}, NEW answer
    PROVE  CallOutcome(op, answer) \in {"value", "throws"}
BY DEF CallOutcome, ReconfigureServer, DeleteDatabase, DestroyServer, DeploySqlServer,
       CreateTenant, CreateDatabase, ValueOnly

LEMMA PageInvCall ==
    ASSUME PageInv, NEW s \in OpSlots, ServeOperation(s) \/ GiveUpOperation(s)
    PROVE  PageInv'
<1>1. TypeOK /\ kicks \in Nat /\ Len(records) \in Nat
  BY DEF PageInv, TypeOK
<1>2. operations[s] # Nothing /\ operations[s] \in Operating
  <2>1. operations[s].stage = "calling"
    BY DEF ServeOperation, GiveUpOperation
  <2>2. QED
    BY <1>1, <2>1 DEF TypeOK, Nothing
<1>3. UNCHANGED <<kind, page, view, loads, dialog, configured, kicks>>
  BY DEF ServeOperation, GiveUpOperation, worldVars
<1>4. \E x \in Operating \cup {Nothing} : operations' = [operations EXCEPT ![s] = x]
  <2>1. CASE GiveUpOperation(s)
    BY <2>1 DEF GiveUpOperation
  <2>2. CASE ServeOperation(s)
    <3> DEFINE o == operations[s]
               Answered(answer) ==
                 [o EXCEPT !.stage = "answered", !.version = Current + 1,
                           !.outcome = CallOutcome(o.op, answer)]
    <3>1. o.op \in {"repair", "destroy", "create"} /\ Current + 1 \in Nat
      BY <1>1, <1>2 DEF Operating, Current
    <3>2. ASSUME NEW answer PROVE Answered(answer) \in Operating
      <4> DEFINE outcome == CallOutcome(o.op, answer)
                 version == Current + 1
      <4>1. outcome \in {"value", "throws"} /\ version \in Nat
        BY <3>1, CallOutcomes
      <4> HIDE DEF outcome, version
      <4>2. [o EXCEPT !.stage = "answered", !.version = version, !.outcome = outcome] \in Operating
        BY <1>2, <4>1 DEF Operating
      <4>3. QED
        BY <4>2 DEF outcome, version
    <3>3. \E answer : operations' = [operations EXCEPT ![s] = Answered(answer)]
      BY <2>2 DEF ServeOperation
    <3> HIDE DEF Answered
    <3>4. QED
      BY <3>2, <3>3
  <2>3. QED
    BY <2>1, <2>2
<1>5. /\ operations' \in [OpSlots -> Operating \cup {Nothing}]
      /\ \A k \in OpSlots : operations[k] = Nothing => operations'[k] = Nothing
  BY <1>1, <1>2, <1>4 DEF TypeOK
<1>6. Cardinality(Used(operations', MaxOperations)) - kicks'
        <= Cardinality(Used(operations, MaxOperations)) - kicks
  <2>1. /\ Cardinality(Used(operations', MaxOperations))
             <= Cardinality(Used(operations, MaxOperations))
        /\ Cardinality(Used(operations, MaxOperations)) \in Nat
        /\ Cardinality(Used(operations', MaxOperations)) \in Nat
    BY <1>5, ConsoleAssumption, SlotsLeft DEF OpSlots
  <2>2. QED
    BY <1>1, <1>3, <2>1
<1>7. /\ records' \in Seq(RecordStates) /\ Len(records) <= Len(records')
      /\ \A i \in 1 .. Len(records) : records'[i] = records[i]
      /\ indexed' \in 1 .. Len(records') /\ failures' \in Nat
  <2>1. failures' \in Nat
    <3>1. failures' = failures \/ failures' = failures + 1
      BY Zenon DEF ServeOperation, GiveUpOperation, worldVars
    <3>2. QED
      BY <1>1, <3>1 DEF TypeOK
  <2>2. CASE UNCHANGED <<records, indexed>>
    BY <1>1, <2>1, <2>2 DEF TypeOK
  <2>3. CASE \E x \in RecordStates : Append1(x)
    BY <1>1, <2>1, <2>3, AppendTyped
  <2>4. QED
    BY <2>2, <2>3 DEF ServeOperation, GiveUpOperation, worldVars, Accepted, RecordStates
<1>8. QED
  BY <1>1, <1>3, <1>5, <1>6, <1>7, PageInvWorld DEF TypeOK

LEMMA PageInvResume ==
    ASSUME PageInv, NEW s \in OpSlots, ResumeOperation(s)
    PROVE  PageInv'
<1>1. /\ TypeOK /\ BusyIsFollowed /\ view \in ViewModel /\ (view.form => HasForm)
      /\ Timers(view) \in Nat /\ kicks \in Nat /\ page \in Pages
  BY PollingTyped DEF PageInv, TypeOK
<1>2. operations[s] # Nothing /\ operations[s] \in Operating
  <2>1. operations[s].stage = "answered"
    BY DEF ResumeOperation
  <2>2. QED
    BY <1>1, <2>1 DEF TypeOK, Nothing
<1> DEFINE op == operations[s].op
           fresh == [view EXCEPT !.upToDate = FollowUp(op).fresh]
<1>3. op \in {"repair", "destroy", "create"}
  BY <1>2 DEF Operating
<1>4. UNCHANGED <<kind, dialog, worldVars, kicks>> /\ operations' = [operations EXCEPT ![s] = Nothing]
      /\ dialog' \in {"closed", "open", "dismissed"} /\ kicks' \in Nat
  BY <1>1 DEF ResumeOperation, TypeOK
<1>5. /\ operations' \in [OpSlots -> Operating \cup {Nothing}]
      /\ operations'[s] = Nothing
      /\ \A k \in OpSlots : k # s => operations[k] = operations'[k]
  BY <1>1, <1>4 DEF TypeOK
<1>6. /\ Cardinality(Used(operations, MaxOperations))
           = Cardinality(Used(operations', MaxOperations)) + 1
      /\ Cardinality(Used(operations', MaxOperations)) \in Nat
      /\ Cardinality(Used(operations, MaxOperations)) \in Nat
  <2>1. MaxOperations \in Nat /\ OpSlots = 1 .. MaxOperations
    BY ConsoleAssumption DEF OpSlots
  <2>2. QED
    BY <1>2, <1>5, <2>1, SlotTaken, UsedIsFinite
<1>7. Cardinality(Used(operations', MaxOperations)) - kicks'
        <= Cardinality(Used(operations, MaxOperations)) - kicks
  BY <1>1, <1>4, <1>6
<1>8. CASE /\ view' = IF Swallows(op) THEN view ELSE ShowError(view)
           /\ UNCHANGED <<page, loads>>
  <2>1. Flagged(view', view) /\ (view' = view \/ view'.error)
    <3>1. Flagged(view, view) /\ Flagged(ShowError(view), view) /\ ShowError(view).error
      BY <1>1, ErrorsTyped, FlagsTyped
    <3>2. QED
      BY <1>8, <3>1
  <2>2. view' \in ViewModel /\ view'.shown = view.shown /\ view'.form = view.form
        /\ view'.handle = view.handle /\ view'.orphans = view.orphans
    BY <2>1 DEF Flagged
  <2>3. Timers(view') <= Timers(view)
    BY <1>1, <2>2 DEF Timers
  <2>4. BusyIsFollowed'
    BY <1>1, <1>4, <1>8, <2>1 DEF BusyIsFollowed, ShowsBusy, Shown, InFlight, worldVars
  <2>5. QED
    BY <1>1, <1>4, <1>5, <1>7, <1>8, <2>2, <2>3, <2>4, PageInvView
<1>9. CASE /\ Destination(op) # "none" /\ Navigate(view, Destination(op))
           /\ UNCHANGED loads
  <2>1. Destination(op) \in Pages \ {"view"}
    BY <1>9 DEF Destination, Pages
  <2>2. /\ page' \in Pages /\ page' # "view" /\ view' \in ViewModel
        /\ view'.shown = view.shown /\ view'.form = view.form
        /\ Timers(view') <= Timers(view)
    BY <1>1, <1>9, <2>1, NavigateTyped
  <2>3. BusyIsFollowed'
    BY <2>2 DEF BusyIsFollowed
  <2>4. QED
    BY <1>4, <1>5, <1>7, <1>9, <2>2, <2>3, PageInvView
<1>10. CASE StartLoad(fresh, FollowUp(op)) /\ UNCHANGED page
  <2>1. FollowUp(op) \in Loading /\ FollowUp(op).reply = 0 /\ FollowUp(op).fresh \in BOOLEAN
    <3>1. FollowUp(op) \in Loading /\ FollowUp(op).reply = 0
      <4> DEFINE f == kind \in {"tenantDetail", "tenantDatabases"}
                 h == op = "create"
                 m == IF kind \in {"serverDatabases", "databaseList"} THEN "refresh" ELSE "reload"
                 w == IF kind = "tenantDetail" THEN "busy" ELSE "bare"
      <4>1. f \in BOOLEAN /\ h \in BOOLEAN
        OBVIOUS
      <4>2. m \in {"initial", "reload", "refresh"} /\ w \in {"loading", "busy", "bare"}
        OBVIOUS
      <4>3. FollowUp(op) = Load(m, w, f, h)
        BY Zenon DEF FollowUp
      <4> HIDE DEF f, h, m, w
      <4>4. QED
        BY <4>1, <4>2, <4>3, LoadTyped
    <3>2. QED
      BY <3>1 DEF Loading
  <2>2. Flagged(fresh, view)
    BY <1>1, <2>1, FlagsTyped
  <2> DEFINE v == fresh
             l == FollowUp(op)
  <2>3. v \in ViewModel /\ v.shown = view.shown /\ v.form = view.form /\ Timers(v) = Timers(view)
    BY <2>2 DEF Flagged, Timers
  <2>4. l \in Loading /\ l.reply = 0 /\ StartLoad(v, l)
    BY <1>10, <2>1
  <2> HIDE DEF v, l, worldVars
  <2>5. Timers(v) + 1 + Cardinality(Used(operations', MaxOperations)) - kicks'
          <= Timers(view) + Cardinality(Used(operations, MaxOperations)) - kicks
    BY <1>1, <1>4, <1>6, <2>3
  <2>6. QED
    BY <1>4, <1>5, <1>10, <2>3, <2>4, <2>5, PageInvLoad
<1>11. QED
  BY <1>8, <1>9, <1>10 DEF ResumeOperation

LEMMA PageInvStep == PageInv /\ [Next]_vars => PageInv'
<1> SUFFICES ASSUME PageInv, [Next]_vars PROVE PageInv'
  OBVIOUS
<1>1. CASE UNCHANGED vars
  BY <1>1 DEF vars, PageInv, TypeOK, BusyIsFollowed, ShowsBusy, Shown, InFlight, ChainInv,
              Timers, Used, HasForm
<1>2. CASE Page
  BY <1>2, PageInvServeLoad, PageInvFinishLoad, PageInvTimers, PageInvCall, PageInvResume
     DEF Page
<1>3. CASE User
  BY <1>3, PageInvRefresh, PageInvOperate, PageInvUser DEF User
<1>4. QED
  BY <1>1, <1>2, <1>3, PageInvProvisioning DEF Next

(* Whatever happens to a page, PageInv holds: it is inductive.             *)
THEOREM PageInvariant == Spec => []PageInv
BY PageInvInit, PageInvStep, PTL DEF Spec

(* Of whatever a view model shows there has been a version, replies are    *)
(* versions, and timers are counted.                                       *)
THEOREM TypeCorrect == Spec => []TypeOK
<1>1. PageInv => TypeOK
  BY DEF PageInv
<1>2. QED
  BY <1>1, PageInvariant, PTL

(* serverDetail.ts, tenantDatabases.ts: a page that shows an action in     *)
(* progress is never a dead end, whatever loads, operations, failures and  *)
(* stale answers have crossed, with any number of each.                    *)
THEOREM BusyPagesAreFollowed == Spec => []BusyIsFollowed
<1>1. PageInv => BusyIsFollowed
  BY DEF PageInv
<1>2. QED
  BY <1>1, PageInvariant, PTL

(* A chain of polls never splits: on every page there are at most as many  *)
(* as the user has started, and the first.                                 *)
THEOREM ChainsAreStartedByUsers == Spec => []ChainsAreTheUsers
<1>1. PageInv => ChainsAreTheUsers
  <2> SUFFICES ASSUME PageInv PROVE ChainsAreTheUsers
    OBVIOUS
  <2>1. /\ InFlight = Used(loads, MaxLoads)
        /\ Cardinality(Used(loads, MaxLoads)) \in Nat
        /\ Cardinality(Used(operations, MaxOperations)) \in Nat
    BY UsedCounts DEF PageInv
  <2>2. Timers(view) \in Nat /\ kicks \in Nat
    BY PollingTyped DEF PageInv, TypeOK
  <2>3. Timers(view) + Cardinality(Used(loads, MaxLoads)) <= 1 + kicks
    BY <2>1, <2>2 DEF PageInv, ChainInv
  <2>4. QED
    BY <2>1, <2>3 DEF ChainsAreTheUsers, Timers
<1>2. QED
  BY <1>1, PageInvariant, PTL
=============================================================================
