---------------------- MODULE TenantDatabaseSlowProofs ----------------------
(***************************************************************************)
(* Theorems about TenantDatabase when scans are slow and document sessions *)
(* do not overlap: the documents agree with each other and with what the   *)
(* database server holds, for every set of databases, names, users and     *)
(* clients, every bound, and every failure, crash and restart; and all of  *)
(* it implements DatabaseLifecycle.  Nothing of it needs an index that is  *)
(* up to date: two databases may have one name, and a server that has      *)
(* databases may be destroyed.                                             *)
(***************************************************************************)
EXTENDS TenantDatabaseProofs

(* A scan starts when the work of the last one is done, and a session runs *)
(* from its load to its save undisturbed.                                  *)
SlowTimers == ~TimersRace /\ ~RequestsOverlap

-----------------------------------------------------------------------------
(***************************************************************************)
(* The inductive invariant.  Its idea: a database that somebody works on   *)
(* has a document of the same name, and is worked on once; a server whose  *)
(* action somebody works on has that action in its document.               *)
(***************************************************************************)

(* The documents. *)
ServerInv ==
    server # NoServer /\ server.action # "None" => server.status # "Ready"

GivenOutInv == Hosted \subseteq created /\ provisioned \subseteq created

(* Whose name is another one's has been noticed. *)
SharedInv == \A d, e \in Databases : SameName(d, e) => d \in shared

(* What a session will save is made from the documents as they are.        *)
Creates(s) ==
    /\ server.action = "None" /\ s.server = [server EXCEPT !.ids = @ \cup {s.id}]
    /\ s.id \in created /\ s.id \notin Hosted /\ s.id \notin provisioned
    /\ s.database # NoDatabase /\ s.database.action = "Provision"

Edits(s) ==
    /\ server.action = "None" /\ s.server = NoServer /\ s.id \in Hosted
    /\ s.database # NoDatabase /\ s.database.name = database[s.id].name

Acts(s) ==
    /\ server.action = "None" /\ s.server # NoServer /\ s.database = NoDatabase
    /\ s.server.ids = server.ids
    /\ s.server.action # "None" /\ s.server.status # "Ready"

SessionInv ==
    /\ \A c \in Clients : session[c] # NoSession =>
          /\ \A e \in Clients : session[e] # NoSession => e = c
          /\ daPc \in {"idle", "stopped"} /\ server # NoServer
          /\ Creates(session[c]) \/ Edits(session[c]) \/ Acts(session[c])
    /\ daPc \in {"scan", "load", "update"} => daServer = server
    /\ daPc = "update" /\ AboutDatabase(Head(daInbox))
       => daDatabase = database[Head(daInbox).id]

(* The manager of the server: at most one copy of each document is on its  *)
(* way to it.  An action it works on is the document's, and so is the      *)
(* outcome it reports.                                                     *)
Clash(m, n) ==
    /\ m.kind = n.kind
    /\ m.kind = "server" \/ (m.kind = "database" /\ m.id = n.id)

OneEach(s) == \A i, j \in DOMAIN s : Clash(s[i], s[j]) => i = j

Current(a) == server # NoServer /\ server.action = a

Asks(m) == m.kind = "server" /\ m.server.action # "None"

Outcome == {"serverReady", "serverError", "serverGone"}

OneOutcome(s) == \A i, j \in DOMAIN s : s[i].kind \in Outcome /\ s[j].kind \in Outcome => i = j

OutcomeIsTrue(m) ==
    m.kind \in Outcome =>
        /\ server # NoServer /\ server.action # "None"
        /\ m.kind = "serverReady" => server.action = "Reconfigure"
        /\ m.kind = "serverGone" => server.action = "Deprovision"

NoOutcomes == \A i \in DOMAIN daInbox : daInbox[i].kind \notin Outcome

ManagerInv ==
    /\ OneEach(mgrInbox)
    /\ \A i \in DOMAIN mgrInbox :
          Asks(mgrInbox[i]) => Current(mgrInbox[i].server.action) /\ ~busy /\ NoOutcomes
    /\ busy => mode = "Ready" /\ Current(state.action) /\ state.action # "None" /\ NoOutcomes
    /\ OneOutcome(daInbox) /\ \A i \in DOMAIN daInbox : OutcomeIsTrue(daInbox[i])

(* The manager of a database: whoever has a copy of the document is the    *)
(* only one, and the database's deletion has not been reported.            *)
Named(d, db) == d \in Hosted /\ db.name = database[d].name

IsCopy(m, d) == m.kind = "database" /\ m.id = d

Unsent(d) == \A i \in DOMAIN mgrInbox : ~IsCopy(mgrInbox[i], d)
Unreported(d) == \A i \in DOMAIN daInbox : daInbox[i] # About("deprovisioned", d)

Sitting(d) == dbInbox[d] = <<>> /\ dbPc[d] = "idle"

WorkInv(d) ==
    /\ \A i \in DOMAIN mgrInbox : IsCopy(mgrInbox[i], d) =>
          Named(d, mgrInbox[i].database) /\ Sitting(d) /\ Unreported(d)
    /\ dbInbox[d] # <<>> =>
          /\ Len(dbInbox[d]) = 1 /\ Named(d, Head(dbInbox[d]))
          /\ dbPc[d] = "idle" /\ Unreported(d)
    /\ dbPc[d] # "idle" => Named(d, dbState[d]) /\ Unreported(d)

(* A scan starts from a blank slate. *)
ScanInv ==
    /\ daPc = "scan" => daInbox = <<>> /\ mgrInbox = <<>> /\ ~busy
    /\ daPc \in {"scan", "load"} =>
          \A d \in Databases : Unsent(d) /\ Sitting(d) /\ Unreported(d)

SlowInv == /\ IdsAgree /\ SharedInv /\ ProvisionedStays
           /\ ServerInv /\ GivenOutInv /\ SessionInv /\ ManagerInv /\ ScanInv
           /\ \A d \in Databases : WorkInv(d)
-----------------------------------------------------------------------------
(* Mailboxes. *)

(* Nothing is in t that is not in s, nor more often than once. *)
Subsumes(s, t) ==
    OneEach(t) /\ \A i \in DOMAIN t : \E j \in DOMAIN s : t[i] = s[j]

LEMMA HandledOne ==
    ASSUME NEW S, NEW s \in Seq(S), s # <<>>, OneEach(s)
    PROVE  /\ Subsumes(s, Tail(s))
           /\ \A i \in DOMAIN Tail(s) : ~Clash(Tail(s)[i], Head(s))
<1>1. \A i \in DOMAIN Tail(s) : i + 1 \in DOMAIN s /\ Tail(s)[i] = s[i + 1]
  OBVIOUS
<1>2. \A i, j \in DOMAIN Tail(s) : i + 1 = j + 1 => i = j
  OBVIOUS
<1>3. 1 \in DOMAIN s /\ Head(s) = s[1] /\ \A i \in DOMAIN Tail(s) : i + 1 # 1
  OBVIOUS
<1>4. QED
  BY <1>1, <1>2, <1>3 DEF Subsumes, OneEach

LEMMA PutLast ==
    ASSUME NEW S, NEW s \in Seq(S), s # <<>>, OneEach(s)
    PROVE  Subsumes(s, Append(Tail(s), Head(s)))
<1> DEFINE t == Append(Tail(s), Head(s))
           from(i) == IF i = Len(s) THEN 1 ELSE i + 1
<1>1. DOMAIN t = 1..Len(s) /\ DOMAIN s = 1..Len(s)
  OBVIOUS
<1>2. \A i \in DOMAIN t : from(i) \in DOMAIN s /\ t[i] = s[from(i)]
  OBVIOUS
<1>3. \A i, j \in DOMAIN t : from(i) = from(j) => i = j
  BY <1>1
<1> HIDE DEF t, from
<1>4. OneEach(t)
  BY <1>2, <1>3 DEF OneEach
<1>5. Subsumes(s, t)
  BY <1>2, <1>4 DEF Subsumes
<1>6. QED
  BY <1>5 DEF t

LEMMA AppendedOne ==
    ASSUME NEW S, NEW s \in Seq(S), NEW m \in S
    PROVE  /\ DOMAIN Append(s, m) = 1..(Len(s) + 1) /\ DOMAIN s = 1..Len(s)
           /\ Append(s, m)[Len(s) + 1] = m
           /\ \A i \in DOMAIN s : Append(s, m)[i] = s[i]
           /\ \A i \in DOMAIN Append(s, m) : i \in DOMAIN s \/ i = Len(s) + 1
           /\ Len(s) + 1 \notin DOMAIN s
OBVIOUS

LEMMA AppendedLast ==
    ASSUME NEW S, NEW s \in Seq(S), NEW m \in S
    PROVE  \A i \in DOMAIN Append(s, m) :
              Append(s, m)[i] = m \/ (i \in DOMAIN s /\ Append(s, m)[i] = s[i])
OBVIOUS

LEMMA SentLast ==
    ASSUME NEW S, NEW s \in Seq(S), OneEach(s), NEW m \in S,
           \A i \in DOMAIN s : ~Clash(s[i], m)
    PROVE  OneEach(Append(s, m))
<1>1. \A i \in DOMAIN s : ~Clash(m, s[i])
  BY DEF Clash
<1>2. QED
  BY <1>1, AppendedOne DEF OneEach

LEMMA ReportedLast ==
    ASSUME NEW S, NEW s \in Seq(S), OneOutcome(s), NEW m \in S,
           m.kind \notin Outcome \/ \A i \in DOMAIN s : s[i].kind \notin Outcome
    PROVE  OneOutcome(Append(s, m))
BY AppendedOne DEF OneOutcome

LEMMA ReportHandled ==
    ASSUME NEW S, NEW s \in Seq(S), s # <<>>, OneOutcome(s)
    PROVE  /\ OneOutcome(Tail(s))
           /\ \A i \in DOMAIN Tail(s) : \E j \in DOMAIN s : Tail(s)[i] = s[j]
           /\ Head(s).kind \in Outcome => \A i \in DOMAIN Tail(s) : Tail(s)[i].kind \notin Outcome
           /\ \E j \in DOMAIN s : Head(s) = s[j]
<1>1. \A i \in DOMAIN Tail(s) : i + 1 \in DOMAIN s /\ Tail(s)[i] = s[i + 1]
  OBVIOUS
<1>2. \A i, j \in DOMAIN Tail(s) : i + 1 = j + 1 => i = j
  OBVIOUS
<1>3. 1 \in DOMAIN s /\ Head(s) = s[1] /\ \A i \in DOMAIN Tail(s) : i + 1 # 1
  OBVIOUS
<1>4. QED
  BY <1>1, <1>2, <1>3 DEF OneOutcome

LEMMA OneOfOne ==
    ASSUME NEW S, NEW s \in Seq(S), Len(s) = 1
    PROVE  /\ s # <<>> /\ Tail(s) = <<>>
           /\ Len(Append(Tail(s), Head(s))) = 1 /\ Append(Tail(s), Head(s)) # <<>>
           /\ Head(Append(Tail(s), Head(s))) = Head(s)
<1>1. s # <<>> /\ Head(s) \in S
  OBVIOUS
<1>2. Tail(s) \in Seq(S) /\ Len(Tail(s)) = 0
  BY <1>1
<1>3. Tail(s) = <<>>
  <2>1. ASSUME NEW t \in Seq(S), Len(t) = 0 PROVE t = <<>>
    BY <2>1
  <2>2. QED
    BY <1>2, <2>1
<1>4. QED
  BY <1>1, <1>2, <1>3

-----------------------------------------------------------------------------
(* What the engine does without touching the documents. *)

LEMMA DocumentsStay ==
    ASSUME TypeInv, SlowInv, UNCHANGED <<server, database, session, created, shared>>,
           provisioned \subseteq provisioned', provisioned' \subseteq provisioned \cup Hosted,
           \/ /\ UNCHANGED <<daPc, daServer, daDatabase>>
              /\ daPc = "update" => Head(daInbox') = Head(daInbox)
           \/ daPc' \in {"idle", "stopped"}
    PROVE  /\ IdsAgree' /\ SharedInv' /\ ServerInv' /\ GivenOutInv' /\ SessionInv'
           /\ Hosted' = Hosted
<1>1. Hosted' = Hosted
  BY DEF Hosted
<1>2. IdsAgree' /\ SharedInv' /\ ServerInv' /\ GivenOutInv'
  BY <1>1 DEF SlowInv, IdsAgree, SharedInv, SameName, ServerInv, GivenOutInv
<1>3. \A s : /\ Creates(s) => Creates(s)'
             /\ Edits(s) => Edits(s)'
             /\ Acts(s) => Acts(s)'
  BY <1>1 DEF Creates, Edits, Acts
<1>4. SessionInv'
  BY <1>3 DEF SlowInv, SessionInv, AboutDatabase
<1>5. QED
  BY <1>1, <1>2, <1>4

(* T-SQL that is lost drops only what a manager had been handed to drop.   *)
LEMMA LostCallsDrop ==
    ASSUME NEW D \in SUBSET Databases, CallsLost(D)
    PROVE  \A n \in databases \ databases' :
              \E d \in D : dbPc[d] = "drop" /\ dbState[d].name = n
<1>1. PICK made \in SUBSET {d \in D : dbPc[d] = "create" /\ dbState[d].name \notin databases},
           dropped \in SUBSET {d \in D : dbPc[d] = "drop"} :
        LET new  == {dbState[d].name : d \in made}
            gone == {dbState[d].name : d \in dropped}
        IN databases' \in {(databases \cup new) \ gone, (databases \ gone) \cup new}
  BY DEF CallsLost
<1> DEFINE new == {dbState[d].name : d \in made}
           gone == {dbState[d].name : d \in dropped}
<1>2. databases' \in {(databases \cup new) \ gone, (databases \ gone) \cup new}
  BY <1>1
<1>3. databases \ databases' \subseteq gone
  <2> HIDE DEF new, gone
  <2>1. QED
    BY <1>2
<1>4. QED
  BY <1>3

(* A database that is dropped is one whose own deletion was accepted, or   *)
(* another one's that has its name.                                        *)
LEMMA ProvisionedKept ==
    ASSUME TypeInv, AskedInv, SlowInv,
           UNCHANGED <<database, deleteAccepted, destroyAccepted, provisioned, shared>>,
           \A n \in databases \ databases' :
              \/ destroyAccepted
              \/ \E e \in Databases : dbPc[e] = "drop" /\ dbState[e].name = n
    PROVE  ProvisionedStays'
<1>1. Hosted' = Hosted
  BY DEF Hosted
<1>2. SUFFICES ASSUME NEW d \in Hosted, d \notin shared, d \in provisioned, ~destroyAccepted,
                      <<d, database[d].name>> \notin deleteAccepted
               PROVE  database[d].name \in databases'
  BY <1>1 DEF ProvisionedStays
<1>3. database[d].name \in databases
  BY <1>2 DEF SlowInv, ProvisionedStays
<1>4. ASSUME NEW e \in Databases, dbPc[e] = "drop", dbState[e].name = database[d].name
      PROVE  FALSE
  <2>1. e \in Hosted /\ database[e].name = database[d].name
    BY <1>4 DEF SlowInv, WorkInv, Named
  <2>2. e = d
    BY <1>2, <2>1 DEF SlowInv, SharedInv, SameName, Hosted
  <2>3. <<d, dbState[d].name>> \in deleteAccepted
    BY <1>4, <2>2 DEF TypeInv, CopiesExist, AskedInv, ManagersAsked, Asked
  <2>4. QED
    BY <1>2, <1>4, <2>2, <2>3
<1>5. QED
  BY <1>2, <1>3, <1>4

(* The work on database d goes on. *)
LEMMA WorkStays ==
    ASSUME NEW d \in Databases, SlowInv, UNCHANGED database,
           \A i \in DOMAIN mgrInbox' :
              IsCopy(mgrInbox'[i], d) => \E j \in DOMAIN mgrInbox : mgrInbox'[i] = mgrInbox[j],
           dbInbox'[d] = dbInbox[d], dbPc'[d] = dbPc[d], dbState'[d] = dbState[d],
           Unreported(d) => Unreported(d)'
    PROVE  /\ WorkInv(d)'
           /\ Unsent(d) => Unsent(d)'
           /\ Sitting(d) => Sitting(d)'
<1>1. \A e, db : Named(e, db)' = Named(e, db)
  BY DEF Named, Hosted
<1>2. Sitting(d) = Sitting(d)'
  BY DEF Sitting
<1>3. WorkInv(d)
  BY DEF SlowInv
<1>4. QED
  BY <1>1, <1>2, <1>3 DEF WorkInv, Unsent

LEMMA ReportsStay ==
    ASSUME TypeInv, NEW m \in Notification, daInbox' = Append(daInbox, m)
    PROVE  /\ daInbox \in Seq(Notification)
           /\ daPc = "update" => Head(daInbox') = Head(daInbox)
           /\ \A d : m # About("deprovisioned", d) /\ Unreported(d) => Unreported(d)'
           /\ m.kind \notin DatabaseKinds => \A d : m # About("deprovisioned", d)
           /\ \A i \in DOMAIN daInbox' : daInbox'[i] = m \/ \E j \in DOMAIN daInbox : daInbox'[i] = daInbox[j]
           /\ NoOutcomes /\ m.kind \notin Outcome => NoOutcomes'
<1>1. daInbox \in Seq(Notification)
  BY DEF TypeInv, TypeOK
<1>2. daPc = "update" => daInbox # <<>>
  BY DEF TypeInv, CopiesExist
<1>3. InboxGrows
  BY TellGrows
<1>4. \A i \in DOMAIN daInbox' : daInbox'[i] = m \/ \E j \in DOMAIN daInbox : daInbox'[i] = daInbox[j]
  BY <1>1, AppendedOne
<1>5. QED
  BY <1>1, <1>2, <1>3, <1>4 DEF InboxGrows, Unreported, About, DatabaseKinds, NoOutcomes

LEMMA StoppedWork ==
    ASSUME StopManager
    PROVE  /\ OneEach(mgrInbox') /\ DOMAIN mgrInbox' = {} /\ ~busy' /\ provisioned' = provisioned
           /\ \A d \in Databases : WorkInv(d)' /\ Unsent(d)' /\ Sitting(d)'
<1>1. mgrInbox' = <<>> /\ ~busy' /\ StopDatabaseManagers
  BY DEF StopManager
<1>2. DOMAIN mgrInbox' = {}
  BY <1>1
<1>3. \A d \in Databases : dbInbox'[d] = <<>> /\ dbPc'[d] = "idle"
  BY <1>1 DEF StopDatabaseManagers
<1>4. QED
  BY <1>1, <1>2, <1>3 DEF OneEach, WorkInv, Unsent, Sitting, StopDatabaseManagers

(* A true outcome is sent by a manager that has finished. *)
LEMMA OutcomeSent ==
    ASSUME TypeInv, SlowInv, busy, server' = server, ~busy',
           mgrInbox' = mgrInbox,
           NEW m \in Notification, daInbox' = Append(daInbox, m), m.kind \in Outcome,
           m.kind = "serverReady" => state.action = "Reconfigure",
           m.kind = "serverGone" => state.action = "Deprovision"
    PROVE  ManagerInv'
<1>1. Current(state.action) /\ state.action # "None" /\ NoOutcomes
  BY DEF SlowInv, ManagerInv
<1>2. \A i \in DOMAIN mgrInbox' : ~Asks(mgrInbox'[i])
  BY DEF SlowInv, ManagerInv
<1>3. OneEach(mgrInbox')
  BY DEF SlowInv, ManagerInv
<1>4. daInbox \in Seq(Notification) /\ OneOutcome(daInbox) /\ OneOutcome(daInbox')
  BY <1>1, ReportsStay, ReportedLast DEF SlowInv, ManagerInv, NoOutcomes
<1>5. \A n : n = m \/ n.kind \notin Outcome => OutcomeIsTrue(n)'
  BY <1>1 DEF OutcomeIsTrue, Current
<1>6. \A i \in DOMAIN daInbox' : OutcomeIsTrue(daInbox[i])'
  BY <1>1, <1>5, ReportsStay DEF NoOutcomes
<1>7. QED
  BY <1>2, <1>3, <1>4, <1>6 DEF ManagerInv

(* Other notifications, or none, while the mailbox gets no new documents.  *)
LEMMA ManagerGoesOn ==
    ASSUME TypeInv, SlowInv, server' = server,
           ~busy' \/ (busy /\ UNCHANGED <<mode, state>>),
           OneEach(mgrInbox'),
           \A i \in DOMAIN mgrInbox' : \/ \E j \in DOMAIN mgrInbox : mgrInbox'[i] = mgrInbox[j]
                                       \/ mgrInbox'[i].kind = "terminated",
           \/ daInbox' = daInbox
           \/ \E m \in Notification : daInbox' = Append(daInbox, m) /\ m.kind \notin Outcome
    PROVE  ManagerInv'
<1>1. \A a : Current(a)' = Current(a)
  BY DEF Current
<1>2. \A n : OutcomeIsTrue(n)' = OutcomeIsTrue(n)
  BY DEF OutcomeIsTrue
<1>3. NoOutcomes => NoOutcomes'
  BY ReportsStay DEF NoOutcomes
<1>4. /\ OneOutcome(daInbox')
      /\ \A i \in DOMAIN daInbox' : OutcomeIsTrue(daInbox[i])'
  <2>1. CASE daInbox' = daInbox
    BY <1>2, <2>1 DEF SlowInv, ManagerInv
  <2>2. ASSUME NEW m \in Notification, daInbox' = Append(daInbox, m), m.kind \notin Outcome
        PROVE  /\ OneOutcome(daInbox')
               /\ \A i \in DOMAIN daInbox' : OutcomeIsTrue(daInbox[i])'
    <3>1. OneOutcome(daInbox')
      BY <2>2, ReportsStay, ReportedLast DEF SlowInv, ManagerInv
    <3>2. \A n : n.kind \notin Outcome => OutcomeIsTrue(n)'
      BY DEF OutcomeIsTrue
    <3>3. QED
      BY <1>2, <2>2, <3>1, <3>2, ReportsStay DEF SlowInv, ManagerInv
  <2>3. QED
    BY <2>1, <2>2
<1>5. \A i \in DOMAIN mgrInbox' : Asks(mgrInbox'[i]) =>
         \E j \in DOMAIN mgrInbox : mgrInbox'[i] = mgrInbox[j]
  BY DEF Asks
<1>6. QED
  BY <1>1, <1>3, <1>4, <1>5 DEF SlowInv, ManagerInv

(* The manager of the server. *)
LEMMA SlowInvServerManager == TypeInv /\ AskedInv /\ SlowInv /\ ServerManager => SlowInv'
<1> SUFFICES ASSUME TypeInv, AskedInv, SlowInv, ServerManager PROVE SlowInv'
  OBVIOUS
<1> USE DEF docVars, apiVars, daVars, mgrVars, dbVars
<1> DEFINE m == Head(mgrInbox)
           WorkGoesOn == /\ ManagerInv'
                         /\ \A d \in Databases :
                              /\ WorkInv(d)'
                              /\ daPc = "load" => Unsent(d)' /\ Sitting(d)' /\ Unreported(d)'
<1>1. UNCHANGED <<server, database, session, created, deleteAccepted, destroyAccepted, shared,
                  provisioned, daPc, daServer, daDatabase>>
  BY DEF ServerManager, HandleInitialize, HandleServer, StartServerAction, ReconfigureEnds,
         DeprovisionEnds, DeprovisionFails, UncaughtFailure, IgnoreWhileWaiting, IgnoreDatabase,
         UpdateDatabaseState, HandleTermination, StopManager, StopDatabaseManagers
<1>2. daPc = "update" => Head(daInbox') = Head(daInbox)
  BY ServerManagerGrowsInbox DEF InboxGrows, TypeInv, CopiesExist
<1>3. mgrInbox \in Seq(ManagerMessage) /\ OneEach(mgrInbox)
  BY DEF TypeInv, TypeOK, SlowInv, ManagerInv
<1>4. daPc # "scan"
  BY DEF ServerManager, HandleInitialize, HandleServer, StartServerAction, ReconfigureEnds,
         DeprovisionEnds, DeprovisionFails, UncaughtFailure, IgnoreWhileWaiting, IgnoreDatabase,
         UpdateDatabaseState, HandleTermination, MayHandle, MessageIs, SlowInv, ScanInv,
         TypeInv, CopiesExist
<1>5. daPc = "load" => \A d \in Databases : Unsent(d) /\ Sitting(d) /\ Unreported(d)
  BY DEF SlowInv, ScanInv
<1>6. ProvisionedStays'
  <2>1. \A n \in databases \ databases' :
           \/ destroyAccepted
           \/ \E e \in Databases : dbPc[e] = "drop" /\ dbState[e].name = n
    <3>1. CASE DeprovisionEnds \/ DeprovisionFails
      BY <3>1 DEF DeprovisionEnds, DeprovisionFails, AskedInv, ServersAsked, ServerAsked
    <3>2. CASE UncaughtFailure
      BY <3>2, LostCallsDrop DEF UncaughtFailure
    <3>3. ~(DeprovisionEnds \/ DeprovisionFails \/ UncaughtFailure) => databases' = databases
      BY DEF ServerManager, HandleInitialize, HandleServer, StartServerAction, ReconfigureEnds,
             IgnoreWhileWaiting, IgnoreDatabase, UpdateDatabaseState, HandleTermination, sqlVars
    <3>4. QED
      BY <3>1, <3>2, <3>3
  <2>2. QED
    BY <1>1, <2>1, ProvisionedKept
<1>7. ASSUME mgrInbox # <<>>, mgrInbox' = Tail(mgrInbox) \/ mgrInbox' = Append(Tail(mgrInbox), m)
      PROVE  Subsumes(mgrInbox, mgrInbox')
  BY <1>3, <1>7, HandledOne, PutLast
<1>8. ASSUME Subsumes(mgrInbox, mgrInbox') \/ mgrInbox' = mgrInbox,
             UNCHANGED <<dbInbox, dbPc, dbState>>,
             \A d \in Databases : Unreported(d) => Unreported(d)'
      PROVE  \A d \in Databases :
                /\ WorkInv(d)'
                /\ daPc = "load" => Unsent(d)' /\ Sitting(d)' /\ Unreported(d)'
  <2>1. \A i \in DOMAIN mgrInbox' : \E j \in DOMAIN mgrInbox : mgrInbox'[i] = mgrInbox[j]
    BY <1>8 DEF Subsumes
  <2>2. QED
    BY <1>1, <1>5, <1>8, <2>1, WorkStays
<1>9. CASE HandleInitialize \/ HandleServer \/ IgnoreWhileWaiting \/ IgnoreDatabase
           \/ HandleTermination
  <2>1. /\ mgrInbox # <<>>
        /\ mgrInbox' = Tail(mgrInbox) \/ mgrInbox' = Append(Tail(mgrInbox), m)
        /\ UNCHANGED <<busy, daInbox, dbInbox, dbPc, dbState>>
    BY <1>9 DEF HandleInitialize, HandleServer, IgnoreWhileWaiting, IgnoreDatabase,
                HandleTermination, MayHandle, MessageIs, TypeInv, CopiesExist
  <2>2. ~busy' \/ (busy /\ UNCHANGED <<mode, state>>)
    BY <1>9 DEF HandleInitialize, HandleServer, IgnoreWhileWaiting, IgnoreDatabase,
                HandleTermination, MayHandle, SlowInv, ManagerInv, TypeInv, TypeOK
  <2>3. Subsumes(mgrInbox, mgrInbox')
    BY <1>7, <2>1
  <2>4. ManagerInv'
    BY <1>1, <2>1, <2>2, <2>3, ManagerGoesOn DEF Subsumes
  <2>5. WorkGoesOn
    BY <1>8, <2>1, <2>3, <2>4 DEF Unreported
  <2>6. QED
    BY <1>1, <1>2, <1>4, <1>6, <2>5, DocumentsStay DEF SlowInv, ScanInv
<1>10. CASE StartServerAction
  <2> DEFINE n == OfServer("serverBusy")
  <2>1. /\ mgrInbox # <<>> /\ mgrInbox' = Tail(mgrInbox) /\ ~busy /\ busy' /\ mode' = "Ready"
        /\ m.kind = "server" /\ m.server.action # "None" /\ state' = m.server
        /\ daInbox' = Append(daInbox, n) /\ UNCHANGED <<dbInbox, dbPc, dbState>>
    BY <1>10 DEF StartServerAction, MayHandle, MessageIs
  <2>2. n \in Notification /\ n.kind = "serverBusy"
    BY MessagesTyped DEF OfServer
  <2>3. Current(m.server.action) /\ NoOutcomes
    BY <1>3, <2>1 DEF SlowInv, ManagerInv, Asks
  <2>4. \A i \in DOMAIN mgrInbox' : ~Asks(mgrInbox'[i])
    BY <1>3, <2>1, HandledOne DEF Clash, Asks
  <2>5. Subsumes(mgrInbox, mgrInbox') /\ NoOutcomes'
    BY <1>7, <2>1, <2>2, <2>3, ReportsStay DEF Outcome
  <2>6. OneOutcome(daInbox') /\ \A i \in DOMAIN daInbox' : OutcomeIsTrue(daInbox[i])'
    BY <2>5 DEF NoOutcomes, OneOutcome, OutcomeIsTrue
  <2>7. ManagerInv'
    BY <1>1, <2>1, <2>3, <2>4, <2>5, <2>6 DEF ManagerInv, Subsumes, Current
  <2>8. WorkGoesOn
    BY <1>8, <2>1, <2>2, <2>5, <2>7, ReportsStay DEF DatabaseKinds
  <2>9. QED
    BY <1>1, <1>2, <1>4, <1>6, <2>8, DocumentsStay DEF SlowInv, ScanInv
<1>11. CASE ReconfigureEnds \/ DeprovisionFails
  <2>1. PICK kind \in {"serverReady", "serverError"} :
          /\ busy /\ ~busy' /\ UNCHANGED <<mgrInbox, dbInbox, dbPc, dbState>>
          /\ daInbox' = Append(daInbox, OfServer(kind))
          /\ kind = "serverReady" => state.action = "Reconfigure"
    BY <1>11 DEF ReconfigureEnds, DeprovisionFails
  <2>2. OfServer(kind) \in Notification /\ OfServer(kind).kind = kind
    BY MessagesTyped DEF OfServer
  <2>3. Subsumes(mgrInbox, mgrInbox')
    BY <1>3, <2>1 DEF Subsumes
  <2> DEFINE n == OfServer(kind)
  <2>4. /\ n \in Notification /\ daInbox' = Append(daInbox, n) /\ n.kind \in Outcome
        /\ n.kind = "serverReady" => state.action = "Reconfigure"
        /\ n.kind = "serverGone" => state.action = "Deprovision"
    BY <2>1, <2>2 DEF Outcome
  <2>5. ManagerInv'
    <3> HIDE DEF n
    <3>1. server' = server
      BY <1>1
    <3>2. busy /\ ~busy' /\ mgrInbox' = mgrInbox
      BY <2>1
    <3>3. QED
      BY <2>4, <3>1, <3>2, OutcomeSent
  <2>6. WorkGoesOn
    BY <1>8, <2>1, <2>2, <2>5, ReportsStay DEF DatabaseKinds
  <2>7. QED
    BY <1>1, <1>2, <1>4, <1>6, <2>6, DocumentsStay DEF SlowInv, ScanInv
<1>12. CASE UncaughtFailure
  <2> DEFINE n == OfServer("terminated")
  <2>1. daInbox' = Append(daInbox, n) /\ StopManager
    BY <1>12 DEF UncaughtFailure
  <2>2. n \in Notification /\ n.kind = "terminated"
    BY MessagesTyped DEF OfServer
  <2>3. ManagerInv'
    BY <1>1, <2>1, <2>2, StoppedWork, ManagerGoesOn DEF Outcome
  <2>4. WorkGoesOn
    BY <1>1, <1>5, <2>1, <2>2, <2>3, StoppedWork, ReportsStay DEF DatabaseKinds
  <2>5. QED
    BY <1>1, <1>2, <1>4, <1>6, <2>4, DocumentsStay DEF SlowInv, ScanInv
<1>13. CASE DeprovisionEnds
  <2> DEFINE n == OfServer("serverGone")
             t == OfServer("terminated")
             told == Append(daInbox, n)
  <2>1. /\ busy /\ state.action = "Deprovision" /\ StopManager
        /\ daInbox' = daInbox \o <<n, t>>
    BY <1>13 DEF DeprovisionEnds
  <2>2. n \in Notification /\ n.kind = "serverGone" /\ t \in Notification /\ t.kind = "terminated"
    BY MessagesTyped DEF OfServer
  <2>3. daInbox \in Seq(Notification) /\ told \in Seq(Notification) /\ daInbox' = Append(told, t)
    <3>1. ASSUME NEW s \in Seq(Notification), NEW a \in Notification, NEW b \in Notification
          PROVE  s \o <<a, b>> = Append(Append(s, a), b)
      OBVIOUS
    <3>2. daInbox \in Seq(Notification)
      BY DEF TypeInv, TypeOK
    <3>3. told \in Seq(Notification)
      BY <2>2, <3>2
    <3>4. QED
      BY <2>1, <2>2, <3>1, <3>2, <3>3
  <2>4. Current("Deprovision") /\ NoOutcomes
    BY <2>1 DEF SlowInv, ManagerInv
  <2>5. /\ \A i \in DOMAIN told : told[i] = n \/ told[i].kind \notin Outcome
        /\ OneOutcome(told)
    BY <2>2, <2>3, <2>4, AppendedOne, ReportedLast DEF NoOutcomes, SlowInv, ManagerInv
  <2>6. /\ \A i \in DOMAIN daInbox' : daInbox'[i] = n \/ daInbox'[i].kind \notin Outcome
        /\ OneOutcome(daInbox')
    <3> HIDE DEF told, n, t
    <3>1. t.kind \notin Outcome
      BY <2>2 DEF Outcome
    <3>2. \A i \in DOMAIN daInbox' : \/ daInbox'[i] = t
                                     \/ i \in DOMAIN told /\ daInbox'[i] = told[i]
      BY <2>2, <2>3, AppendedLast
    <3>3. \A i \in DOMAIN daInbox' : daInbox'[i] = n \/ daInbox'[i].kind \notin Outcome
      BY <2>5, <3>1, <3>2
    <3>4. OneOutcome(Append(told, t))
      BY <2>2, <2>3, <2>5, <3>1, ReportedLast
    <3>5. QED
      BY <2>3, <3>3, <3>4
  <2>7. \A i \in DOMAIN daInbox' : OutcomeIsTrue(daInbox[i])'
    <3>1. \A x : x = n \/ x.kind \notin Outcome => OutcomeIsTrue(x)'
      BY <1>1, <2>2, <2>4 DEF OutcomeIsTrue, Current
    <3>2. QED
      BY <2>6, <3>1
  <2>8. ManagerInv'
    BY <2>1, <2>6, <2>7, StoppedWork DEF ManagerInv
  <2>9. \A d \in Databases : Unreported(d) => Unreported(d)'
    <3>1. \A i \in DOMAIN told : told[i] = n \/ \E j \in DOMAIN daInbox : told[i] = daInbox[j]
      BY <2>2, <2>3, AppendedOne
    <3>2. \A d : n # About("deprovisioned", d) /\ t # About("deprovisioned", d)
      BY <2>2 DEF About
    <3> HIDE DEF told, n, t
    <3>3. \A i \in DOMAIN daInbox' : daInbox'[i] = t \/ \E j \in DOMAIN told : daInbox'[i] = told[j]
      BY <2>2, <2>3, AppendedOne
    <3>4. QED
      BY <3>1, <3>2, <3>3 DEF Unreported
  <2>10. WorkGoesOn
    BY <1>1, <1>5, <2>1, <2>8, <2>9, StoppedWork
  <2>11. QED
    BY <1>1, <1>2, <1>4, <1>6, <2>10, DocumentsStay DEF SlowInv, ScanInv
<1>14. CASE UpdateDatabaseState
  <2>1. /\ mgrInbox # <<>> /\ m.kind = "database" /\ mgrInbox' = Tail(mgrInbox) /\ ~busy /\ ~busy'
        /\ UNCHANGED <<daInbox, dbPc, dbState>>
        /\ \/ dbInbox' = dbInbox
           \/ dbInbox' = [dbInbox EXCEPT ![m.id] = Append(@, m.database)]
           \/ dbInbox' = [dbInbox EXCEPT ![m.id] = <<m.database>>]
    BY <1>14 DEF UpdateDatabaseState, MayHandle, MessageIs
  <2>2. PICK d \in Databases, db \in DatabaseInstance :
          d = m.id /\ db = m.database /\ \E i \in DOMAIN mgrInbox : mgrInbox[i] = m
    BY <1>3, <2>1, HeadAndTail, MessageFields
  <2>3. Named(d, db) /\ Sitting(d) /\ Unreported(d) /\ ~Unsent(d)
    BY <2>1, <2>2 DEF SlowInv, WorkInv, IsCopy, Unsent
  <2>4. Subsumes(mgrInbox, mgrInbox') /\ \A i \in DOMAIN mgrInbox' : ~IsCopy(mgrInbox'[i], d)
    <3>1. \A i \in DOMAIN mgrInbox' : ~Clash(mgrInbox'[i], m)
      BY <1>3, <2>1, HandledOne
    <3>2. \A i \in DOMAIN mgrInbox' : ~IsCopy(mgrInbox'[i], d)
      BY <2>1, <2>2, <3>1 DEF Clash, IsCopy
    <3>3. QED
      BY <1>7, <2>1, <3>2
  <2>5. ManagerInv'
    BY <1>1, <2>1, <2>4, ManagerGoesOn DEF Subsumes
  <2>6. daPc # "load"
    BY <1>5, <2>3
  <2>7. ASSUME NEW e \in Databases, e # d PROVE WorkInv(e)'
    <3>1. dbInbox'[e] = dbInbox[e]
      BY <2>1, <2>2, <2>7 DEF TypeInv, TypeOK
    <3>2. QED
      BY <1>1, <2>1, <2>4, <3>1, WorkStays DEF Subsumes, Unreported
  <2>8. WorkInv(d)'
    <3>1. dbInbox'[d] = <<>> \/ dbInbox'[d] = Append(<<>>, db) \/ dbInbox'[d] = <<db>>
      BY <2>1, <2>2, <2>3 DEF TypeInv, TypeOK, Sitting
    <3>2. dbInbox'[d] # <<>> => Len(dbInbox'[d]) = 1 /\ Head(dbInbox'[d]) = db
      <4>1. ASSUME NEW x, NEW s, s = <<>> \/ s = Append(<<>>, x) \/ s = <<x>>
            PROVE  s # <<>> => Len(s) = 1 /\ Head(s) = x
        BY <4>1
      <4>2. QED
        BY <3>1, <4>1
    <3>3. dbPc'[d] = "idle" /\ Named(d, db)' /\ Unreported(d)'
      BY <1>1, <2>1, <2>3 DEF Sitting, Named, Hosted, Unreported
    <3>4. QED
      BY <2>4, <3>2, <3>3 DEF WorkInv
  <2>9. WorkGoesOn
    BY <2>5, <2>6, <2>7, <2>8
  <2>10. QED
    BY <1>1, <1>2, <1>4, <1>6, <2>9, DocumentsStay DEF SlowInv, ScanInv
<1>15. QED
  BY <1>9, <1>10, <1>11, <1>12, <1>13, <1>14 DEF ServerManager

(* The manager of a database. *)
LEMMA SlowInvDatabaseManager ==
    ASSUME TypeInv, AskedInv, SlowInv, NEW d \in Databases, DatabaseManager(d)
    PROVE  SlowInv'
<1> USE DEF docVars, apiVars, daVars, mgrVars, dbVars
<1> DEFINE TellsOf(kind) == daInbox' = Append(daInbox, About(kind, d))
<1>1. /\ UNCHANGED <<server, database, session, created, deleteAccepted, destroyAccepted,
                     shared, daPc, daServer, daDatabase, mode, busy, state>>
      /\ Hosted' = Hosted
  BY DEF DatabaseManager, DbInitialize, DbStart, DbIgnore, DbFound, DbNotFound, DbCall,
         DbCreated, DbCreateFailed, DbDropped, DbDropFailed, DbUncaught, Hosted
<1>2. WorkInv(d) /\ ~Sitting(d)
  BY DEF DatabaseManager, DbInitialize, DbStart, DbIgnore, DbFound, DbNotFound, DbCall,
         DbCreated, DbCreateFailed, DbDropped, DbDropFailed, DbUncaught, TakeDatabase,
         TypeInv, CopiesExist, SlowInv, Sitting
<1>3. Unsent(d) /\ Unreported(d) /\ daPc \notin {"scan", "load"}
  BY <1>2 DEF WorkInv, Unsent, Sitting, SlowInv, ScanInv
<1>4. \A e, db : Named(e, db)' = Named(e, db)
  BY <1>1 DEF Named
<1>5. daInbox' = daInbox \/ \E kind \in DatabaseKinds : TellsOf(kind)
  BY DEF DatabaseManager, DbInitialize, DbStart, DbIgnore, DbFound, DbNotFound, DbCall,
         DbCreated, DbCreateFailed, DbDropped, DbDropFailed, DbUncaught, Tell, DatabaseKinds
<1>6. ASSUME NEW kind \in DatabaseKinds, TellsOf(kind)
      PROVE  /\ \E m \in Notification : daInbox' = Append(daInbox, m) /\ m.kind \notin Outcome
             /\ kind # "deprovisioned" => Unreported(d)'
             /\ \A e : e # d /\ Unreported(e) => Unreported(e)'
  <2> DEFINE m == About(kind, d)
  <2>1. m \in Notification /\ m.kind = kind /\ m.id = d
    BY MessagesTyped DEF About
  <2>2. \A e : (e # d \/ kind # "deprovisioned") => m # About("deprovisioned", e)
    BY DEF About
  <2>3. daInbox' = Append(daInbox, m) /\ m.kind \notin Outcome
    BY <1>6, <2>1 DEF DatabaseKinds, Outcome
  <2> HIDE DEF m
  <2>4. QED
    BY <1>3, <2>1, <2>2, <2>3, ReportsStay
<1>7. daPc = "update" => Head(daInbox') = Head(daInbox)
  BY DatabaseManagerGrowsInbox DEF InboxGrows, TypeInv, CopiesExist
<1>8. /\ OneEach(mgrInbox')
      /\ \A i \in DOMAIN mgrInbox' : \/ \E j \in DOMAIN mgrInbox : mgrInbox'[i] = mgrInbox[j]
                                     \/ mgrInbox'[i].kind = "terminated"
  <2> DEFINE t == ManagerTerminated(d)
  <2>1. mgrInbox' = mgrInbox \/ mgrInbox' = Append(mgrInbox, t)
    BY DEF DatabaseManager, DbInitialize, DbStart, DbIgnore, DbFound, DbNotFound, DbCall,
           DbCreated, DbCreateFailed, DbDropped, DbDropFailed, DbUncaught, StopDatabaseManager
  <2>2. t \in ManagerMessage /\ t.kind = "terminated"
    BY MessagesTyped DEF ManagerTerminated
  <2>3. mgrInbox \in Seq(ManagerMessage) /\ OneEach(mgrInbox)
    BY DEF TypeInv, TypeOK, SlowInv, ManagerInv
  <2> HIDE DEF t
  <2>4. CASE mgrInbox' = mgrInbox
    BY <2>3, <2>4
  <2>5. CASE mgrInbox' = Append(mgrInbox, t)
    <3>1. \A x : ~Clash(x, t)
      BY <2>2 DEF Clash
    <3>2. OneEach(mgrInbox')
      BY <2>2, <2>3, <2>5, <3>1, SentLast
    <3>3. \A i \in DOMAIN mgrInbox' : \/ mgrInbox'[i] = t
                                      \/ i \in DOMAIN mgrInbox /\ mgrInbox'[i] = mgrInbox[i]
      BY <2>2, <2>3, <2>5, AppendedLast
    <3>4. QED
      BY <2>2, <3>2, <3>3
  <2>6. QED
    BY <2>1, <2>4, <2>5
<1>9. ManagerInv'
  <2>1. ~busy' \/ (busy /\ UNCHANGED <<mode, state>>)
    BY <1>1 DEF TypeInv, TypeOK
  <2>2. \/ daInbox' = daInbox
        \/ \E m \in Notification : daInbox' = Append(daInbox, m) /\ m.kind \notin Outcome
    BY <1>5, <1>6
  <2>3. QED
    BY <1>1, <1>8, <2>1, <2>2, ManagerGoesOn
<1>10. \A e : \A i \in DOMAIN mgrInbox' :
          IsCopy(mgrInbox'[i], e) => \E j \in DOMAIN mgrInbox : mgrInbox'[i] = mgrInbox[j]
  BY <1>8 DEF IsCopy
<1>11. ASSUME NEW e \in Databases, e # d PROVE WorkInv(e)'
  <2>1. dbInbox'[e] = dbInbox[e] /\ dbPc'[e] = dbPc[e] /\ dbState'[e] = dbState[e]
    BY <1>11 DEF DatabaseManager, DbInitialize, DbStart, DbIgnore, DbFound, DbNotFound, DbCall,
           DbCreated, DbCreateFailed, DbDropped, DbDropFailed, DbUncaught, TakeDatabase,
           StopDatabaseManager, Await, TypeInv, TypeOK
  <2>2. Unreported(e) => Unreported(e)'
    <3>1. daInbox' = daInbox => (Unreported(e) => Unreported(e)')
      BY DEF Unreported
    <3>2. QED
      BY <1>5, <1>6, <1>11, <3>1
  <2>3. QED
    BY <1>1, <1>10, <2>1, <2>2, WorkStays
<1>12. WorkInv(d)'
  <2>1. Unsent(d)'
    BY <1>3, <1>10 DEF Unsent
  <2>2. Sitting(d)' => WorkInv(d)'
    BY <2>1 DEF WorkInv, Unsent, Sitting
  <2>3. daInbox' = daInbox => Unreported(d)'
    BY <1>3 DEF Unreported
  <2>4. dbInbox[d] \in Seq(DatabaseInstance)
    BY DEF TypeInv, TypeOK
  <2>5. CASE DbInitialize(d)
    <3>1. dbInbox[d] # <<>> /\ Len(dbInbox[d]) = 1 /\ dbPc[d] = "idle" /\ Named(d, Head(dbInbox[d]))
      BY <1>2, <2>5 DEF DbInitialize, TypeInv, CopiesExist, WorkInv
    <3>2. /\ dbInbox'[d] = Append(Tail(dbInbox[d]), Head(dbInbox[d]))
          /\ dbPc' = dbPc /\ daInbox' = daInbox
      BY <2>5 DEF DbInitialize, TypeInv, TypeOK
    <3>3. Len(dbInbox'[d]) = 1 /\ Head(dbInbox'[d]) = Head(dbInbox[d])
      BY <2>4, <3>1, <3>2, OneOfOne
    <3>4. QED
      BY <1>4, <2>1, <2>3, <3>1, <3>2, <3>3 DEF WorkInv, Unsent
  <2>6. CASE DbStart(d) \/ DbIgnore(d)
    <3>1. /\ dbInbox[d] # <<>> /\ dbPc[d] = "idle"
          /\ dbInbox'[d] = Tail(dbInbox[d]) /\ dbState'[d] = Head(dbInbox[d])
      BY <2>6 DEF DbStart, DbIgnore, TakeDatabase, TypeInv, TypeOK
    <3>2. Len(dbInbox[d]) = 1 /\ Named(d, Head(dbInbox[d]))
      BY <1>2, <3>1 DEF WorkInv
    <3>3. dbInbox'[d] = <<>>
      BY <2>4, <3>1, <3>2, OneOfOne
    <3>4. CASE DbIgnore(d)
      BY <2>2, <3>1, <3>3, <3>4 DEF DbIgnore, Sitting
    <3>5. CASE DbStart(d)
      <4>1. PICK kind \in DatabaseKinds : TellsOf(kind) /\ kind # "deprovisioned"
        BY <3>5 DEF DbStart, Tell, DatabaseKinds
      <4>2. Unreported(d)'
        BY <1>6, <4>1
      <4>3. QED
        BY <1>4, <2>1, <3>1, <3>2, <3>3, <4>2 DEF WorkInv, Unsent
    <3>6. QED
      BY <2>6, <3>4, <3>5
  <2>7. dbPc[d] # "idle" => dbInbox[d] = <<>>
    BY <1>2 DEF WorkInv
  <2>8. CASE DbFound(d) \/ DbCreated(d) \/ DbCreateFailed(d) \/ DbDropFailed(d)
    <3>1. UNCHANGED dbInbox /\ dbPc[d] # "idle" /\ dbPc'[d] = "idle"
      BY <2>8 DEF DbFound, DbCreated, DbCreateFailed, DbDropFailed, Await, TypeInv, TypeOK
    <3>2. QED
      BY <2>2, <2>7, <3>1 DEF Sitting
  <2>9. CASE DbCall(d)
    <3>1. UNCHANGED <<dbInbox, dbState, daInbox>> /\ dbPc[d] # "idle"
      BY <2>9 DEF DbCall
    <3>2. dbInbox'[d] = <<>> /\ Named(d, dbState[d])
      BY <1>2, <2>7, <3>1 DEF WorkInv
    <3>3. QED
      BY <1>4, <2>1, <2>3, <3>1, <3>2 DEF WorkInv, Unsent
  <2>10. CASE DbNotFound(d) \/ DbDropped(d) \/ DbUncaught(d)
    <3>1. StopDatabaseManager(d)
      BY <2>10 DEF DbNotFound, DbDropped, DbUncaught
    <3>2. QED
      BY <2>2, <3>1 DEF StopDatabaseManager, Await, Sitting, TypeInv, TypeOK
  <2>11. QED
    BY <2>5, <2>6, <2>8, <2>9, <2>10 DEF DatabaseManager
<1>13. dbPc[d] # "idle" => d \in Hosted /\ dbState[d].name = database[d].name
  BY <1>2 DEF WorkInv, Named
<1>14. provisioned \subseteq provisioned' /\ provisioned' \subseteq provisioned \cup Hosted
  BY <1>13 DEF DatabaseManager, DbInitialize, DbStart, DbIgnore, DbFound, DbNotFound, DbCall,
         DbCreated, DbCreateFailed, DbDropped, DbDropFailed, DbUncaught
<1>15. ProvisionedStays'
  <2>1. CASE DbFound(d) \/ DbCreated(d)
    <3>1. /\ provisioned' = provisioned \cup {d} /\ databases \subseteq databases'
          /\ database[d].name \in databases'
      BY <1>13, <2>1 DEF DbFound, DbCreated, Exists, sqlVars
    <3>2. QED
      BY <1>1, <3>1 DEF SlowInv, ProvisionedStays
  <2>2. CASE ~(DbFound(d) \/ DbCreated(d))
    <3>1. provisioned' = provisioned
      BY <2>2 DEF DatabaseManager, DbInitialize, DbStart, DbIgnore, DbNotFound, DbCall,
             DbCreateFailed, DbDropped, DbDropFailed, DbUncaught
    <3>2. CallsLost({d}) => \A n \in databases \ databases' :
             \E e \in Databases : dbPc[e] = "drop" /\ dbState[e].name = n
      BY LostCallsDrop
    <3>3. \/ databases \subseteq databases' \/ CallsLost({d})
          \/ dbPc[d] = "drop" /\ databases' = databases \ {dbState[d].name}
      BY <2>2 DEF DatabaseManager, DbInitialize, DbStart, DbIgnore, DbNotFound, DbCall,
             DbCreateFailed, DbDropped, DbDropFailed, DbUncaught, sqlVars
    <3>4. \A n \in databases \ databases' :
             \E e \in Databases : dbPc[e] = "drop" /\ dbState[e].name = n
      BY <3>2, <3>3
    <3>5. QED
      BY <1>1, <3>1, <3>4, ProvisionedKept
  <2>3. QED
    BY <2>1, <2>2
<1>16. \A e \in Databases : WorkInv(e)'
  BY <1>11, <1>12
<1>17. QED
  BY <1>1, <1>3, <1>7, <1>9, <1>14, <1>15, <1>16, DocumentsStay DEF SlowInv, ScanInv

-----------------------------------------------------------------------------
(* The API. *)

(* Nobody else notices that a session is opened. *)
LEMMA SessionOpened ==
    ASSUME TypeInv, SlowInv, SessionsClosed, daPc \in {"idle", "stopped"}, server # NoServer,
           UNCHANGED <<docVars, deleteAccepted, destroyAccepted, shared, daVars, mgrVars, dbVars,
                       sqlVars>>,
           created \subseteq created',
           NEW c \in Clients, NEW s, session' = [session EXCEPT ![c] = s],
           (Creates(s) \/ Edits(s) \/ Acts(s))'
    PROVE  SlowInv'
<1> USE DEF docVars, daVars, mgrVars, dbVars, sqlVars
<1>1. Hosted' = Hosted
  BY DEF Hosted
<1>2. IdsAgree' /\ SharedInv' /\ ProvisionedStays' /\ ServerInv' /\ GivenOutInv'
  BY <1>1 DEF SlowInv, IdsAgree, SharedInv, SameName, ProvisionedStays, ServerInv, GivenOutInv
<1>3. /\ session'[c] = s
      /\ \A e \in Clients : session'[e] # NoSession => e = c
  BY DEF SessionsClosed, TypeInv, TypeOK
<1>4. SessionInv'
  BY <1>3 DEF SessionInv
<1>5. ManagerInv' /\ ScanInv'
  BY DEF SlowInv, ManagerInv, ScanInv, Current, NoOutcomes, OutcomeIsTrue, Unsent, Sitting, Unreported
<1>6. \A d : Unreported(d) => Unreported(d)'
  BY DEF Unreported
<1>7. \A d \in Databases : WorkInv(d)'
  BY <1>6, WorkStays DEF SlowInv
<1>8. QED
  BY <1>2, <1>4, <1>5, <1>7 DEF SlowInv

(* A session is saved: the databases keep their names, and one that is new *)
(* has not been reported as created.                                       *)
LEMMA SessionSaved ==
    ASSUME TypeInv, SlowInv, NEW c \in Clients, SaveRequest(c),
           \A e, db : Named(e, db) => Named(e, db)',
           IdsAgree', ServerInv', ManagerInv',
           \A e \in Hosted' : e \in created /\ (e \in provisioned => e \in Hosted)
    PROVE  SlowInv'
<1> USE DEF docVars, daVars, mgrVars, dbVars, sqlVars
<1>1. /\ daPc \in {"idle", "stopped"}
      /\ \A e \in Clients : session'[e] = NoSession
  BY DEF SaveRequest, SlowInv, SessionInv, TypeInv, TypeOK
<1>2. UNCHANGED <<created, daVars, mgrVars, dbVars, sqlVars>>
  BY DEF SaveRequest
<1>3. /\ deleteAccepted \subseteq deleteAccepted' /\ (destroyAccepted => destroyAccepted')
      /\ shared' = shared \cup {d \in Databases : \E e \in Databases : SameName(d, e)'}
  BY DEF SaveRequest
<1>4. GivenOutInv' /\ SharedInv'
  BY <1>2, <1>3 DEF SlowInv, GivenOutInv, SharedInv
<1>5. ProvisionedStays'
  <2>1. SUFFICES ASSUME NEW d \in Hosted', d \notin shared, d \in provisioned, ~destroyAccepted',
                        <<d, database'[d].name>> \notin deleteAccepted'
                 PROVE  database'[d].name \in databases
    BY <1>2, <1>3 DEF ProvisionedStays
  <2>2. Named(d, database[d])
    BY <2>1 DEF Named
  <2>3. d \in Hosted /\ database'[d].name = database[d].name
    BY <2>1, <2>2 DEF Named
  <2>4. QED
    BY <1>3, <2>1, <2>3 DEF SlowInv, ProvisionedStays
<1>6. SessionInv' /\ ScanInv'
  BY <1>1, <1>2 DEF SessionInv, ScanInv
<1>7. \A d \in Databases : WorkInv(d)'
  BY <1>2 DEF SlowInv, WorkInv, Unreported, Sitting
<1>8. QED
  BY <1>4, <1>5, <1>6, <1>7 DEF SlowInv

LEMMA SlowInvAPI == SlowTimers /\ TypeInv /\ SlowInv /\ API => SlowInv'
<1> SUFFICES ASSUME SlowTimers, TypeInv, SlowInv, API PROVE SlowInv'
  OBVIOUS
<1> USE ConstantsAssumption
<1>1. ASSUME NEW c \in Clients, MayRequest(c)
      PROVE  SessionsClosed /\ daPc \in {"idle", "stopped"}
  BY <1>1 DEF MayRequest, SlowTimers
<1>2. ASSUME NEW c \in Clients, NEW n \in Names, NEW u \in Users, LoadForCreate(c, n, u)
      PROVE  SlowInv'
  <2>1. PICK d \in Databases \ created :
          /\ WillSave(c, [server EXCEPT !.ids = @ \cup {d}], d,
                      [name |-> n, user |-> u, action |-> "Provision", status |-> "Pending"])
          /\ created' = created \cup {d}
    BY <1>2 DEF LoadForCreate
  <2> DEFINE db == [name |-> n, user |-> u, action |-> "Provision", status |-> "Pending"]
  <2> PICK s :
        s = [server |-> [server EXCEPT !.ids = @ \cup {d}], id |-> d, database |-> db]
    OBVIOUS
  <2>2. /\ server # NoServer /\ server.action = "None"
        /\ UNCHANGED <<docVars, deleteAccepted, destroyAccepted, shared, daVars, mgrVars, dbVars,
                       sqlVars>>
        /\ SessionsClosed /\ daPc \in {"idle", "stopped"}
    BY <1>1, <1>2 DEF LoadForCreate, SlowInv, ServerInv
  <2>3. db \in DatabaseInstance /\ db # NoDatabase /\ db.name = n /\ db.action = "Provision"
    BY DEF DatabaseInstance
  <2>4. d \in created' /\ d \notin Hosted /\ d \notin provisioned
    BY <2>1 DEF SlowInv, GivenOutInv
  <2>5. Creates(s)'
    BY <2>2, <2>3, <2>4 DEF Creates, Hosted, docVars, dbVars
  <2>6. QED
    BY <2>1, <2>2, <2>5, SessionOpened DEF WillSave
<1>3. ASSUME NEW c \in Clients, NEW d \in Databases, NEW a \in {"Deprovision", "Reconfigure"},
             LoadForDatabase(c, d, a)
      PROVE  SlowInv'
  <2> DEFINE db == [database[d] EXCEPT !.action = a, !.status = "Pending"]
  <2> PICK s : s = [server |-> NoServer, id |-> d, database |-> db]
    OBVIOUS
  <2>1. /\ server # NoServer /\ database[d] # NoDatabase /\ server.action = "None"
        /\ UNCHANGED <<docVars, deleteAccepted, destroyAccepted, shared, daVars, mgrVars, dbVars,
                       sqlVars>>
        /\ session' = [session EXCEPT ![c] = s] /\ created' = created
        /\ SessionsClosed /\ daPc \in {"idle", "stopped"}
    BY <1>1, <1>3 DEF LoadForDatabase, WillSave, SlowInv, ServerInv
  <2>2. db \in DatabaseInstance /\ db.name = database[d].name
    <3>1. database[d] \in DatabaseInstance
      BY <2>1 DEF TypeInv, TypeOK
    <3>2. QED
      BY <3>1 DEF DatabaseInstance
  <2>3. d \in Hosted /\ db # NoDatabase
    BY <2>1, <2>2 DEF Hosted
  <2>4. Edits(s)'
    BY <2>1, <2>2, <2>3 DEF Edits, Hosted, docVars
  <2>5. QED
    BY <2>1, <2>4, SessionOpened
<1>4. ASSUME NEW c \in Clients, NEW a \in ServerActions, LoadForServer(c, a)
      PROVE  SlowInv'
  <2> DEFINE new == [server EXCEPT !.action = a, !.status = "Pending"]
  <2> PICK s : s = [server |-> new, id |-> NoDatabase, database |-> NoDatabase]
    OBVIOUS
  <2>1. /\ server # NoServer /\ server.action = "None"
        /\ UNCHANGED <<docVars, deleteAccepted, destroyAccepted, shared, daVars, mgrVars, dbVars,
                       sqlVars>>
        /\ session' = [session EXCEPT ![c] = s] /\ created' = created
        /\ SessionsClosed /\ daPc \in {"idle", "stopped"}
    BY <1>1, <1>4 DEF LoadForServer, WillSave
  <2>2. server \in Server /\ a \in {"Reconfigure", "Deprovision"}
    BY <2>1 DEF TypeInv, TypeOK
  <2>3. /\ new \in Server /\ new.ids = server.ids /\ new.action = a /\ new.status = "Pending"
        /\ new # NoServer
    BY <2>2 DEF Server
  <2>4. Acts(s)'
    <3> HIDE DEF new
    <3>1. QED
      BY <2>1, <2>2, <2>3 DEF Acts, Hosted, docVars
  <2>5. QED
    BY <2>1, <2>4, SessionOpened
<1>5. ASSUME NEW c \in Clients, SaveRequest(c)
      PROVE  SlowInv'
  <2> DEFINE s == session[c]
  <2>1. /\ server # NoServer /\ server \in Server
        /\ Creates(s) \/ Edits(s) \/ Acts(s)
        /\ s.database \in DatabaseInstance \cup {NoDatabase} /\ s.server \in Server \cup {NoServer}
        /\ database \in [Databases -> DatabaseInstance \cup {NoDatabase}]
        /\ s.database # NoDatabase => s.id \in Databases
    BY <1>5 DEF SaveRequest, SlowInv, SessionInv, TypeInv, TypeOK, CopiesExist, Session
  <2>2. /\ server' = IF s.server = NoServer THEN server ELSE s.server
        /\ database' = IF s.database = NoDatabase THEN database
                       ELSE [database EXCEPT ![s.id] = s.database]
        /\ UNCHANGED <<created, daVars, mgrVars, dbVars, sqlVars>>
    BY <1>5 DEF SaveRequest
  <2>3. IdsAgree /\ ServerInv /\ GivenOutInv /\ ManagerInv /\ Hosted = server.ids
    BY <2>1 DEF SlowInv, IdsAgree
  <2>4. ASSUME server'.action = server.action, server' # NoServer PROVE ManagerInv'
    BY <2>1, <2>2, <2>3, <2>4 DEF ManagerInv, Current, NoOutcomes, OutcomeIsTrue, mgrVars, daVars
  <2>5. CASE Creates(s)
    <3>1. /\ s.database # NoDatabase /\ s.id \in Databases /\ s.id \in created
          /\ s.id \notin Hosted /\ s.id \notin provisioned
          /\ server.action = "None"
      BY <2>1, <2>5 DEF Creates
    <3>2. /\ s.server \in Server /\ s.server.ids = server.ids \cup {s.id}
          /\ s.server.action = "None" /\ s.server # NoServer
      BY <2>1, <2>5, <3>1 DEF Creates, Server
    <3>3. server' = s.server /\ database' = [database EXCEPT ![s.id] = s.database]
      BY <2>2, <3>1, <3>2
    <3>4. Hosted' = Hosted \cup {s.id}
      BY <2>1, <3>1, <3>3 DEF Hosted
    <3>5. /\ \A e \in Hosted : database'[e] = database[e]
          /\ database'[s.id] = s.database
      BY <2>1, <3>1, <3>3 DEF Hosted
    <3>6. \A e, db : Named(e, db) => Named(e, db)'
      BY <3>4, <3>5 DEF Named
    <3>7. IdsAgree' /\ ServerInv'
      BY <2>3, <3>2, <3>3, <3>4 DEF IdsAgree, ServerInv
    <3>8. ManagerInv'
      BY <2>4, <3>1, <3>2, <3>3
    <3>9. QED
      BY <1>5, <2>3, <3>1, <3>4, <3>6, <3>7, <3>8, SessionSaved DEF GivenOutInv
  <2>6. CASE Edits(s)
    <3>1. /\ s.database # NoDatabase /\ s.id \in Hosted /\ s.database.name = database[s.id].name
          /\ server' = server /\ database' = [database EXCEPT ![s.id] = s.database]
      BY <2>2, <2>6 DEF Edits
    <3>2. Hosted' = Hosted
      BY <2>1, <3>1 DEF Hosted
    <3>3. \A e \in Hosted : database'[e].name = database[e].name
      BY <2>1, <3>1 DEF Hosted
    <3>4. \A e, db : Named(e, db) => Named(e, db)'
      BY <3>2, <3>3 DEF Named
    <3>5. IdsAgree' /\ ServerInv' /\ ManagerInv'
      BY <2>1, <2>3, <2>4, <3>1, <3>2, <3>3 DEF IdsAgree, ServerInv
    <3>6. QED
      BY <1>5, <2>3, <3>2, <3>4, <3>5, SessionSaved DEF GivenOutInv
  <2>7. CASE Acts(s)
    <3>1. /\ server' = s.server /\ database' = database /\ server.action = "None"
          /\ s.server # NoServer /\ s.server.ids = server.ids
      BY <2>2, <2>7 DEF Acts
    <3>2. Hosted' = Hosted
      BY <3>1 DEF Hosted
    <3>3. \A e, db : Named(e, db) => Named(e, db)'
      BY <3>1, <3>2 DEF Named
    <3>4. IdsAgree' /\ ServerInv'
      BY <2>3, <2>7, <3>1, <3>2 DEF IdsAgree, ServerInv, Acts
    <3>5. ManagerInv'
      <4>1. ~busy /\ \A i \in DOMAIN mgrInbox : ~Asks(mgrInbox[i])
        BY <2>3, <3>1 DEF ManagerInv, Current, Asks
      <4>2. NoOutcomes
        BY <2>3, <3>1 DEF ManagerInv, OutcomeIsTrue, NoOutcomes
      <4>3. QED
        BY <2>2, <2>3, <4>1, <4>2 DEF ManagerInv, NoOutcomes, OutcomeIsTrue, mgrVars, daVars
    <3>6. QED
      BY <1>5, <2>3, <3>2, <3>3, <3>4, <3>5, SessionSaved DEF GivenOutInv
  <2>8. QED
    BY <2>1, <2>5, <2>6, <2>7
<1>6. QED
  BY <1>2, <1>3, <1>4, <1>5 DEF API

-----------------------------------------------------------------------------
(* The scan. *)

LEMMA Concatenated ==
    ASSUME NEW S, NEW s \in Seq(S), NEW t \in Seq(S)
    PROVE  \A i \in DOMAIN (s \o t) :
              \/ i \in DOMAIN s /\ (s \o t)[i] = s[i]
              \/ /\ i \in Int /\ Len(s) \in Int /\ i - Len(s) \in DOMAIN t
                 /\ (s \o t)[i] = t[i - Len(s)]
OBVIOUS

LEMMA DocumentsKept ==
    ASSUME SlowInv, UNCHANGED <<server, database, apiVars, dbVars, sqlVars>>
    PROVE  /\ IdsAgree' /\ SharedInv' /\ ProvisionedStays' /\ ServerInv' /\ GivenOutInv'
           /\ \A d, db : Named(d, db)' = Named(d, db)
BY DEF apiVars, dbVars, sqlVars, SlowInv, IdsAgree, SharedInv, SameName, ProvisionedStays,
       ServerInv, GivenOutInv, Named, Hosted

LEMMA SlowInvScanQuery == SlowTimers /\ TypeInv /\ SlowInv /\ ScanQuery => SlowInv'
<1> SUFFICES ASSUME SlowTimers, TypeInv, SlowInv, ScanQuery PROVE SlowInv'
  OBVIOUS
<1> USE DEF docVars, apiVars, mgrVars, dbVars, sqlVars
<1>1. /\ Quiescent /\ daPc' = "scan" /\ daServer' = server
      /\ UNCHANGED <<docVars, apiVars, daInbox, mgrVars, dbVars, sqlVars>>
  BY DEF ScanQuery, SlowTimers
<1>2. SessionInv'
  BY <1>1 DEF Quiescent, SessionsClosed, SessionInv
<1>3. ManagerInv'
  BY <1>1 DEF SlowInv, ManagerInv, Current, NoOutcomes, OutcomeIsTrue
<1>4. /\ DOMAIN mgrInbox' = {} /\ DOMAIN daInbox' = {}
      /\ daInbox' = <<>> /\ mgrInbox' = <<>> /\ ~busy'
      /\ \A d \in Databases : dbInbox'[d] = <<>> /\ dbPc'[d] = "idle"
  BY <1>1 DEF Quiescent
<1>5. ScanInv' /\ \A d \in Databases : WorkInv(d)'
  BY <1>4 DEF ScanInv, WorkInv, Unsent, Sitting, Unreported
<1>6. QED
  BY <1>1, <1>2, <1>3, <1>5, DocumentsKept DEF SlowInv

LEMMA SlowInvScanServer == TypeInv /\ SlowInv /\ ScanServer => SlowInv'
<1> SUFFICES ASSUME TypeInv, SlowInv, ScanServer PROVE SlowInv'
  OBVIOUS
<1> USE DEF docVars, apiVars, dbVars, sqlVars
<1> DEFINE m == ServerMessage(daServer)
<1>1. /\ daPc = "scan" /\ daPc' = "load"
      /\ UNCHANGED <<docVars, apiVars, daServer, daInbox, busy, state, dbVars, sqlVars>>
      /\ mgrInbox' \in {mgrInbox, Append(mgrInbox, m), <<m>>}
  BY DEF ScanServer
<1>2. /\ daInbox = <<>> /\ mgrInbox = <<>> /\ ~busy
      /\ \A d \in Databases : Sitting(d)
  BY <1>1 DEF SlowInv, ScanInv
<1>3. daServer = server /\ server # NoServer
  BY <1>1 DEF SlowInv, SessionInv, TypeInv, CopiesExist
<1>4. m.kind = "server" /\ m.server.action = server.action
  BY <1>3 DEF ServerMessage
<1>5. \A i \in DOMAIN mgrInbox' : i = 1 /\ mgrInbox'[i] = m
  <2> HIDE DEF m
  <2>1. ASSUME NEW x, NEW s, s \in {<<>>, Append(<<>>, x), <<x>>}
        PROVE  \A i \in DOMAIN s : i = 1 /\ s[i] = x
    BY <2>1
  <2>2. QED
    BY <1>1, <1>2, <2>1
<1>6. SessionInv'
  BY <1>1, <1>3 DEF SlowInv, SessionInv
<1>7. DOMAIN daInbox' = {} /\ ~busy'
  BY <1>1, <1>2
<1>8. ManagerInv'
  <2>1. OneEach(mgrInbox') /\ OneOutcome(daInbox') /\ NoOutcomes'
    BY <1>5, <1>7 DEF OneEach, OneOutcome, NoOutcomes
  <2>2. Current(server.action)'
    BY <1>1, <1>3 DEF Current
  <2>3. \A i \in DOMAIN mgrInbox' : mgrInbox'[i].server.action = server'.action
    BY <1>1, <1>4, <1>5
  <2>4. QED
    BY <1>7, <2>1, <2>2, <2>3 DEF ManagerInv, Current
<1>9. \A d \in Databases : Unsent(d)' /\ Sitting(d)' /\ Unreported(d)'
  BY <1>1, <1>2, <1>4, <1>5, <1>7 DEF Unsent, Sitting, Unreported, IsCopy
<1>10. ScanInv' /\ \A d \in Databases : WorkInv(d)'
  BY <1>1, <1>9 DEF ScanInv, WorkInv, Unsent, Sitting
<1>11. QED
  BY <1>1, <1>6, <1>8, <1>10, DocumentsKept DEF SlowInv

LEMMA SlowInvScanDatabases == TypeInv /\ SlowInv /\ ScanDatabases => SlowInv'
<1> SUFFICES ASSUME TypeInv, SlowInv, ScanDatabases PROVE SlowInv'
  OBVIOUS
<1> USE DEF docVars, apiVars, dbVars, sqlVars
<1> DEFINE listed == {d \in daServer.ids : database[d] # NoDatabase}
<1>1. /\ daPc = "load" /\ daPc' = "idle"
      /\ UNCHANGED <<docVars, apiVars, daInbox, mode, busy, state, dbVars, sqlVars>>
  BY DEF ScanDatabases
<1>2. /\ \A d \in Databases : Unsent(d) /\ Sitting(d) /\ Unreported(d)
      /\ daServer \in Server /\ listed \in SUBSET Databases /\ listed \subseteq Hosted
  <2>1. daServer \in Server
    BY <1>1 DEF TypeInv, TypeOK, CopiesExist
  <2>2. QED
    BY <1>1, <2>1 DEF SlowInv, ScanInv, Server, Hosted
<1>3. PICK order \in SetToSeqs(listed) :
        mgrInbox' = IF mode = "Stopped" THEN mgrInbox
                    ELSE mgrInbox \o [i \in DOMAIN order |->
                                        DatabaseMessage(order[i], database[order[i]])]
  BY DEF ScanDatabases
<1> DEFINE told == [i \in DOMAIN order |-> DatabaseMessage(order[i], database[order[i]])]
<1>4. order \in Seq(listed) /\ \A i, j \in DOMAIN order : order[i] = order[j] => i = j
  <2>1. order \in Seq(listed)
    BY <1>2, OrdersAreSequences
  <2>2. order \in [1..Cardinality(listed) -> listed]
        /\ \A i, j \in 1..Cardinality(listed) : order[i] = order[j] => i = j
    BY DEF SetToSeqs
  <2>3. QED
    BY <2>1, <2>2
<1>5. \A i \in DOMAIN order : order[i] \in Hosted /\ order[i] \in Databases
  BY <1>2, <1>4
<1>6. /\ DOMAIN told = DOMAIN order
      /\ \A i \in DOMAIN told : /\ told[i].kind = "database" /\ told[i].id = order[i]
                                /\ told[i].database = database[order[i]]
                                /\ told[i] \in ManagerMessage
  BY <1>5, MessagesTyped DEF DatabaseMessage, Hosted, TypeInv, TypeOK
<1>7. told \in Seq(ManagerMessage) /\ mgrInbox \in Seq(ManagerMessage)
  <2>1. Len(order) \in Nat /\ DOMAIN order = 1..Len(order)
    BY <1>4
  <2>2. told \in [1..Len(order) -> ManagerMessage]
    BY <1>6, <2>1
  <2>3. QED
    BY <2>1, <2>2 DEF TypeInv, TypeOK
<1>8. mgrInbox' = mgrInbox \/ mgrInbox' = mgrInbox \o told
  BY <1>3
<1> HIDE DEF told
<1>9. \A i \in DOMAIN mgrInbox' :
         \/ i \in DOMAIN mgrInbox /\ mgrInbox'[i] = mgrInbox[i]
         \/ /\ i \in Int /\ Len(mgrInbox) \in Int /\ i - Len(mgrInbox) \in DOMAIN told
            /\ mgrInbox'[i] = told[i - Len(mgrInbox)]
  BY <1>7, <1>8, Concatenated
<1>10. \A i \in DOMAIN mgrInbox' :
          /\ \/ \E j \in DOMAIN mgrInbox : mgrInbox'[i] = mgrInbox[j]
             \/ \E j \in DOMAIN told : mgrInbox'[i] = told[j]
          /\ Asks(mgrInbox'[i]) => \E j \in DOMAIN mgrInbox : mgrInbox'[i] = mgrInbox[j]
  BY <1>6, <1>9 DEF Asks
<1>11. OneEach(mgrInbox')
  <2>1. ASSUME NEW i \in DOMAIN mgrInbox, NEW j \in DOMAIN told
        PROVE  ~Clash(mgrInbox[i], told[j]) /\ ~Clash(told[j], mgrInbox[i])
    BY <1>2, <1>5, <1>6 DEF Clash, Unsent, IsCopy
  <2>2. \A i, j \in DOMAIN told : Clash(told[i], told[j]) => i = j
    BY <1>4, <1>6 DEF Clash
  <2>3. \A i, j \in DOMAIN mgrInbox : Clash(mgrInbox[i], mgrInbox[j]) => i = j
    BY DEF SlowInv, ManagerInv, OneEach
  <2>4. ASSUME NEW i \in DOMAIN mgrInbox', NEW j \in DOMAIN mgrInbox',
               Clash(mgrInbox'[i], mgrInbox'[j])
        PROVE  i = j
    BY <1>9, <2>1, <2>2, <2>3, <2>4
  <2>5. QED
    BY <2>4 DEF OneEach
<1>12. ManagerInv'
  BY <1>1, <1>10, <1>11 DEF SlowInv, ManagerInv, Current, NoOutcomes, OutcomeIsTrue
<1>13. SessionInv' /\ ScanInv'
  BY <1>1 DEF SlowInv, SessionInv, ScanInv
<1>14. ASSUME NEW d \in Databases PROVE WorkInv(d)'
  <2>1. Sitting(d)' /\ Unreported(d)'
    BY <1>1, <1>2 DEF Sitting, Unreported
  <2>2. ASSUME NEW i \in DOMAIN mgrInbox', IsCopy(mgrInbox'[i], d)
        PROVE  Named(d, mgrInbox'[i].database)
    <3>1. PICK j \in DOMAIN told : mgrInbox'[i] = told[j]
      BY <1>2, <1>10, <2>2 DEF Unsent
    <3>2. d \in Hosted /\ mgrInbox'[i].database = database[d]
      BY <1>5, <1>6, <2>2, <3>1 DEF IsCopy
    <3>3. QED
      BY <3>2 DEF Named
  <2>3. \A i \in DOMAIN mgrInbox' : IsCopy(mgrInbox'[i], d) => Named(d, mgrInbox[i].database)'
    BY <1>1, <2>2, DocumentsKept
  <2>4. QED
    BY <2>1, <2>3 DEF WorkInv, Sitting
<1>15. QED
  BY <1>1, <1>12, <1>13, <1>14, DocumentsKept DEF SlowInv

-----------------------------------------------------------------------------
(* Updates. *)

LEMMA ReportTaken ==
    ASSUME TypeInv, SlowInv, daInbox # <<>>, daInbox' = Tail(daInbox)
    PROVE  /\ Head(daInbox) \in Notification
           /\ \E j \in DOMAIN daInbox : Head(daInbox) = daInbox[j]
           /\ OneOutcome(daInbox')
           /\ \A i \in DOMAIN daInbox' : \E j \in DOMAIN daInbox : daInbox'[i] = daInbox[j]
           /\ NoOutcomes \/ Head(daInbox).kind \in Outcome => NoOutcomes'
           /\ \A d : Unreported(d) => Unreported(d)'
<1>1. daInbox \in Seq(Notification) /\ OneOutcome(daInbox)
  BY DEF TypeInv, TypeOK, SlowInv, ManagerInv
<1>2. QED
  BY <1>1, HeadAndTail, ReportHandled DEF NoOutcomes, Unreported

(* A notification has been dealt with.  Names and ids are as they were, but *)
(* for a database whose deletion it may have reported.                      *)
LEMMA UpdateDone ==
    ASSUME TypeInv, SlowInv, daInbox # <<>>, daInbox' = Tail(daInbox), daPc' = "idle",
           UNCHANGED <<apiVars, mgrVars, dbVars, sqlVars>>,
           daPc = "update" \/ (daPc = "idle" /\ UNCHANGED docVars),
           IdsAgree', ServerInv', ManagerInv', Hosted' \subseteq Hosted,
           \A e \in Hosted' : database'[e].name = database[e].name,
           \A e \in Hosted \ Hosted' : ~Unreported(e)
    PROVE  SlowInv'
<1> USE DEF docVars, apiVars, mgrVars, dbVars, sqlVars
<1>1. SharedInv' /\ ProvisionedStays' /\ GivenOutInv'
  <2>1. \A d, e \in Databases : SameName(d, e)' => SameName(d, e)
    BY DEF SameName, Hosted
  <2>2. QED
    BY <2>1 DEF SlowInv, SharedInv, ProvisionedStays, GivenOutInv
<1>2. SessionInv'
  <2>1. CASE daPc = "update"
    BY <2>1 DEF SlowInv, SessionInv
  <2>2. CASE UNCHANGED docVars
    <3>1. \A s : /\ Creates(s) => Creates(s)'
                 /\ Edits(s) => Edits(s)'
                 /\ Acts(s) => Acts(s)'
      BY <2>2 DEF Creates, Edits, Acts, Hosted
    <3>2. QED
      BY <2>2, <3>1 DEF SlowInv, SessionInv
  <2>3. QED
    BY <2>1, <2>2
<1>3. ScanInv'
  BY DEF ScanInv
<1>4. ASSUME NEW e \in Databases PROVE WorkInv(e)'
  <2>1. WorkInv(e) /\ (Unreported(e) => Unreported(e)')
    BY ReportTaken DEF SlowInv
  <2>2. \A db : Named(e, db) /\ Unreported(e) => Named(e, db)'
    BY DEF Named
  <2>3. QED
    BY <2>1, <2>2 DEF WorkInv, Sitting
<1>5. QED
  BY <1>1, <1>2, <1>3, <1>4 DEF SlowInv

LEMMA ManagerStays ==
    ASSUME TypeInv, SlowInv, daInbox # <<>>, daInbox' = Tail(daInbox), UNCHANGED mgrVars,
           server # NoServer => server' # NoServer /\ server'.action = server.action
    PROVE  ManagerInv'
<1>1. \A a : Current(a) => Current(a)'
  BY DEF Current
<1>2. \A x : OutcomeIsTrue(x) => OutcomeIsTrue(x)'
  BY DEF OutcomeIsTrue
<1>3. QED
  BY <1>1, <1>2, ReportTaken DEF SlowInv, ManagerInv, mgrVars

(* An update of a database: the names stay, and a database goes from both  *)
(* documents when its deletion was reported.                               *)
LEMMA DatabaseSaved ==
    ASSUME TypeInv, SlowInv, SaveDatabaseUpdate
    PROVE  LET m == Head(daInbox) IN
           /\ daPc = "update" /\ daPc' = "idle" /\ daInbox # <<>> /\ daInbox' = Tail(daInbox)
           /\ UNCHANGED <<apiVars, mgrVars, dbVars, sqlVars>>
           /\ server # NoServer /\ server' # NoServer /\ server'.ids = Hosted'
           /\ server'.action = server.action /\ server'.status = server.status
           /\ \/ /\ m.kind = "deprovisioned" /\ (\E j \in DOMAIN daInbox : daInbox[j] = m)
                 /\ m = About("deprovisioned", m.id)
                 /\ m.id \in Hosted /\ Hosted' = Hosted \ {m.id}
                 /\ \A e \in Hosted' : database'[e] = database[e]
              \/ Hosted' = Hosted /\ \A e \in Hosted : database'[e].name = database[e].name
<1> DEFINE m == Head(daInbox)
           edited == DatabaseUpdated(daDatabase, m.kind)
           remaining == IF edited = NoDatabase THEN daServer.ids \ {m.id} ELSE daServer.ids
<1>1. /\ daPc = "update" /\ daPc' = "idle" /\ AboutDatabase(m)
      /\ daInbox # <<>> /\ daInbox' = Tail(daInbox)
      /\ daServer = server /\ server # NoServer /\ daDatabase = database[m.id]
      /\ daDatabase # NoDatabase
      /\ UNCHANGED <<apiVars, mgrVars, dbVars, sqlVars>>
  BY DEF SaveDatabaseUpdate, SlowInv, SessionInv, TypeInv, CopiesExist
<1>2. \A x, y : Saved(x, y, x) = y
  BY DEF Saved
<1>3. m \in Notification /\ \E j \in DOMAIN daInbox : daInbox[j] = m
  BY <1>1, ReportTaken
<1>4. /\ m.id \in Databases /\ m.kind \in DatabaseKinds /\ server \in Server
      /\ database \in [Databases -> DatabaseInstance \cup {NoDatabase}]
      /\ daDatabase \in DatabaseInstance
  BY <1>1, <1>3, NotificationFields DEF TypeInv, TypeOK
<1>5. database' = [database EXCEPT ![m.id] = edited]
  <2>1. database' = [database EXCEPT ![m.id] = Saved(daDatabase, edited, @)]
    BY DEF SaveDatabaseUpdate
  <2> HIDE DEF edited
  <2>2. QED
    BY <1>1, <1>2, <1>4, <2>1
<1>6. server' = [server EXCEPT !.ids = remaining]
  <2>1. server' = Saved(daServer, [daServer EXCEPT !.ids = remaining], server)
    BY DEF SaveDatabaseUpdate
  <2> HIDE DEF remaining
  <2>2. QED
    BY <1>1, <1>2, <2>1
<1>7. /\ server' # NoServer /\ server'.ids = remaining
      /\ server'.action = server.action /\ server'.status = server.status
  <2>1. remaining \in SUBSET Databases
    BY <1>1, <1>4 DEF Server
  <2> HIDE DEF remaining
  <2>2. QED
    BY <1>4, <1>6, <2>1, ConstantsAssumption DEF Server
<1>8. Hosted = server.ids /\ m.id \in Hosted
  BY <1>1, <1>4 DEF SlowInv, IdsAgree, Hosted
<1>9. \A e \in Databases : database'[e] = IF e = m.id THEN edited ELSE database[e]
  BY <1>4, <1>5
<1>10. CASE m.kind = "deprovisioned"
  <2>1. edited = NoDatabase /\ remaining = Hosted \ {m.id}
    BY <1>1, <1>8, <1>10 DEF DatabaseUpdated
  <2>2. m = About("deprovisioned", m.id)
    BY <1>1, <1>3, <1>10 DEF Notification, About, AboutDatabase, DatabaseKinds
  <2> HIDE DEF edited, remaining
  <2>3. Hosted' = Hosted \ {m.id} /\ \A e \in Hosted' : database'[e] = database[e]
    BY <1>9, <2>1 DEF Hosted
  <2>4. QED
    BY <1>1, <1>3, <1>7, <1>8, <1>10, <2>1, <2>2, <2>3
<1>11. CASE m.kind # "deprovisioned"
  <2>1. edited # NoDatabase /\ edited.name = daDatabase.name
    BY <1>4, <1>11, UpdatesKeepNames, ConstantsAssumption
  <2>2. remaining = Hosted
    BY <1>1, <1>8, <2>1
  <2> HIDE DEF edited, remaining
  <2>3. Hosted' = Hosted /\ \A e \in Hosted : database'[e].name = database[e].name
    BY <1>1, <1>8, <1>9, <2>1 DEF Hosted
  <2>4. QED
    BY <1>1, <1>7, <2>2, <2>3
<1>12. QED
  BY <1>10, <1>11

LEMMA SlowInvUpdate == SlowTimers /\ TypeInv /\ SlowInv /\ Update => SlowInv'
<1> SUFFICES ASSUME SlowTimers, TypeInv, SlowInv, Update PROVE SlowInv'
  OBVIOUS
<1> USE DEF docVars
<1> DEFINE m == Head(daInbox)
<1>1. daInbox # <<>> => m \in Notification
  BY HeadAndTail DEF TypeInv, TypeOK
<1>2. \A x, y : Saved(x, y, x) = y
  BY DEF Saved
<1>3. IdsAgree /\ ServerInv /\ SessionInv /\ ManagerInv
  BY DEF SlowInv
<1>4. ASSUME daInbox # <<>>, daInbox' = Tail(daInbox), daPc = "idle", daPc' = "idle",
             UNCHANGED <<docVars, apiVars, mgrVars, dbVars, sqlVars>>
      PROVE  SlowInv'
  <2>1. Hosted' = Hosted
    BY <1>4 DEF Hosted
  <2>2. IdsAgree' /\ ServerInv'
    BY <1>3, <1>4, <2>1 DEF IdsAgree, ServerInv
  <2>3. ManagerInv'
    BY <1>4, ManagerStays
  <2>4. QED
    BY <1>4, <2>1, <2>2, <2>3, UpdateDone
<1>5. CASE LoadForUpdate
  <2>1. CASE daInbox' = Tail(daInbox) /\ UNCHANGED daPc
    BY <1>4, <1>5, <2>1 DEF LoadForUpdate
  <2>2. CASE ~(daInbox' = Tail(daInbox) /\ UNCHANGED daPc)
    <3>1. /\ daPc' = "update" /\ daServer' = server /\ UNCHANGED daInbox
          /\ daDatabase' = IF AboutDatabase(m) THEN database[m.id] ELSE NoDatabase
          /\ SessionsClosed /\ UNCHANGED <<docVars, apiVars, mgrVars, dbVars, sqlVars>>
      BY <1>5, <2>2 DEF LoadForUpdate, SlowTimers
    <3>2. SessionInv'
      BY <3>1 DEF SessionsClosed, SessionInv, AboutDatabase, apiVars
    <3>3. ManagerInv' /\ ScanInv'
      BY <3>1 DEF SlowInv, ManagerInv, ScanInv, Current, NoOutcomes, OutcomeIsTrue, mgrVars
    <3>4. \A d \in Databases : WorkInv(d)'
      BY <3>1, DocumentsKept DEF SlowInv, WorkInv, Sitting, Unreported, mgrVars, dbVars
    <3>5. QED
      BY <3>1, <3>2, <3>3, <3>4, DocumentsKept DEF SlowInv
  <2>3. QED
    BY <2>1, <2>2
<1>6. CASE ServerManagerTerminated
  <2>1. /\ daInbox # <<>> /\ daInbox' = Tail(daInbox) /\ daPc = "idle" /\ daPc' = "idle"
        /\ UNCHANGED <<docVars, apiVars, mgrVars, dbVars, sqlVars>>
    BY <1>6 DEF ServerManagerTerminated
  <2>2. QED
    BY <1>4, <2>1
<1>7. CASE SaveDatabaseUpdate
  <2>1. Hosted' \subseteq Hosted /\ \A e \in Hosted' : database'[e].name = database[e].name
    BY <1>7, DatabaseSaved
  <2>2. \A e \in Hosted \ Hosted' : ~Unreported(e)
    BY <1>7, DatabaseSaved DEF Unreported
  <2>3. IdsAgree' /\ ServerInv'
    BY <1>3, <1>7, <2>1, DatabaseSaved DEF IdsAgree, ServerInv
  <2>4. ManagerInv'
    BY <1>7, DatabaseSaved, ManagerStays
  <2>5. QED
    BY <1>7, <2>1, <2>2, <2>3, <2>4, DatabaseSaved, UpdateDone
<1>8. CASE SaveServerUpdate
  <2> DEFINE edited == ServerUpdated(daServer, m.kind)
  <2>1. /\ daPc = "update" /\ daPc' = "idle" /\ ~AboutDatabase(m)
        /\ m.kind \notin {"terminated", "orphaned"}
        /\ daInbox # <<>> /\ daInbox' = Tail(daInbox)
        /\ daServer = server /\ server # NoServer /\ server \in Server
        /\ UNCHANGED <<database, apiVars, mgrVars, dbVars, sqlVars>>
    BY <1>3, <1>8 DEF SaveServerUpdate, SessionInv, TypeInv, TypeOK, CopiesExist
  <2>2. server' = edited
    BY <1>8 DEF SaveServerUpdate
  <2>3. m.kind = "serverBusy" \/ m.kind \in Outcome
    BY <1>1, <2>1 DEF Notification, AboutDatabase, Outcome
  <2>4. Hosted' = Hosted
    BY <2>1 DEF Hosted
  <2>5. CASE m.kind = "serverBusy"
    <3>1. /\ server' \in Server /\ server' # NoServer /\ server'.action = server.action
          /\ server'.ids = server.ids /\ server'.status = "Pending"
      BY <2>1, <2>2, <2>5, ConstantsAssumption DEF ServerUpdated, Server
    <3>2. IdsAgree' /\ ServerInv'
      BY <1>3, <2>1, <2>4, <3>1 DEF IdsAgree, ServerInv
    <3>3. ManagerInv'
      BY <2>1, <3>1, ManagerStays
    <3>4. QED
      BY <2>1, <2>4, <3>2, <3>3, UpdateDone
  <2>6. CASE m.kind \in Outcome
    <3>1. OutcomeIsTrue(m) /\ ~NoOutcomes /\ NoOutcomes' /\ OneOutcome(daInbox')
      BY <1>3, <2>1, <2>6, ReportTaken DEF ManagerInv, NoOutcomes
    <3>2. ManagerInv'
      BY <1>3, <2>1, <3>1 DEF ManagerInv, NoOutcomes, OutcomeIsTrue, mgrVars
    <3>3. CASE m.kind = "serverGone"
      <4>1. server' = NoServer
        BY <2>2, <3>3 DEF ServerUpdated
      <4>2. IdsAgree' /\ ServerInv'
        BY <2>4, <4>1 DEF IdsAgree, ServerInv
      <4>3. QED
        BY <2>1, <2>4, <3>2, <4>2, UpdateDone
    <3>4. CASE m.kind # "serverGone"
      <4>1. /\ server' \in Server /\ server' # NoServer /\ server'.action = "None"
            /\ server'.ids = server.ids
        <5>1. \E st \in {"Ready", "Error"} : server' = [server EXCEPT !.status = st, !.action = "None"]
          BY <2>1, <2>2, <2>6, <3>4 DEF ServerUpdated, Outcome
        <5>2. QED
          BY <2>1, <5>1, ConstantsAssumption DEF Server
      <4>2. IdsAgree' /\ ServerInv'
        BY <1>3, <2>1, <2>4, <4>1 DEF IdsAgree, ServerInv
      <4>3. QED
        BY <2>1, <2>4, <3>2, <4>2, UpdateDone
    <3>5. QED
      BY <3>3, <3>4
  <2>7. QED
    BY <2>3, <2>5, <2>6
<1>9. QED
  BY <1>5, <1>6, <1>7, <1>8 DEF Update

-----------------------------------------------------------------------------
(* Crashes. *)

LEMMA OrphansKept ==
    ASSUME TypeInv, SlowInv, DataAccessRestart
    PROVE  /\ OneOutcome(daInbox')
           /\ \A i \in DOMAIN daInbox' : \/ daInbox'[i].kind \notin Outcome
                                         \/ \E j \in DOMAIN daInbox : daInbox'[i] = daInbox[j]
<1> DEFINE kept == IF daPc = "update" THEN Tail(daInbox) ELSE daInbox
<1>1. daInbox' = [i \in DOMAIN kept |->
                    IF kept[i].kind = "terminated" THEN OfServer("orphaned") ELSE kept[i]]
  BY DEF DataAccessRestart
<1>2. /\ OneOutcome(kept)
      /\ \A i \in DOMAIN kept : \E j \in DOMAIN daInbox : kept[i] = daInbox[j]
  <2>1. daInbox \in Seq(Notification) /\ OneOutcome(daInbox) /\ (daPc = "update" => daInbox # <<>>)
    BY DEF TypeInv, TypeOK, CopiesExist, SlowInv, ManagerInv
  <2>2. daPc = "update" => /\ OneOutcome(Tail(daInbox))
                           /\ \A i \in DOMAIN Tail(daInbox) :
                                 \E j \in DOMAIN daInbox : Tail(daInbox)[i] = daInbox[j]
    BY <2>1, ReportHandled
  <2>3. QED
    BY <2>1, <2>2
<1> HIDE DEF kept
<1>3. /\ DOMAIN daInbox' = DOMAIN kept
      /\ \A i \in DOMAIN kept : daInbox'[i].kind \notin Outcome \/ daInbox'[i] = kept[i]
  BY <1>1 DEF OfServer, Outcome
<1>4. QED
  BY <1>2, <1>3 DEF OneOutcome

LEMMA SlowInvCrash == TypeInv /\ AskedInv /\ SlowInv /\ Crash => SlowInv'
<1> SUFFICES ASSUME TypeInv, AskedInv, SlowInv, Crash PROVE SlowInv'
  OBVIOUS
<1>1. /\ UNCHANGED <<server, database, session, created, deleteAccepted, destroyAccepted, shared>>
      /\ StopManager /\ CallsLost(Databases) /\ daPc' \in {"idle", "stopped"}
  BY DEF Crash, EngineCrash, DataAccessRestart, DeathPact, ForgetManager, docVars, apiVars
<1>2. ProvisionedStays'
  <2>1. \A n \in databases \ databases' :
           \E e \in Databases : dbPc[e] = "drop" /\ dbState[e].name = n
    BY <1>1, LostCallsDrop
  <2>2. QED
    BY <1>1, <2>1, StoppedWork, ProvisionedKept
<1>3. /\ OneOutcome(daInbox')
      /\ \A i \in DOMAIN daInbox' : \/ daInbox'[i].kind \notin Outcome
                                    \/ \E j \in DOMAIN daInbox : daInbox'[i] = daInbox[j]
  <2>1. CASE DataAccessRestart
    BY <2>1, OrphansKept
  <2>2. CASE EngineCrash \/ DeathPact
    <3>1. daInbox' = <<>>
      BY <2>2 DEF EngineCrash, DeathPact
    <3>2. DOMAIN daInbox' = {}
      BY <3>1
    <3>3. QED
      BY <3>2 DEF OneOutcome
  <2>3. QED
    BY <2>1, <2>2 DEF Crash
<1>4. ManagerInv'
  <2>1. \A x : x.kind \notin Outcome \/ OutcomeIsTrue(x) => OutcomeIsTrue(x)'
    BY <1>1 DEF OutcomeIsTrue
  <2>2. \A i \in DOMAIN daInbox' : OutcomeIsTrue(daInbox[i])'
    BY <1>3, <2>1 DEF SlowInv, ManagerInv
  <2>3. QED
    BY <1>1, <1>3, <2>2, StoppedWork DEF ManagerInv
<1>5. ScanInv'
  BY <1>1 DEF ScanInv
<1>6. QED
  BY <1>1, <1>2, <1>4, <1>5, StoppedWork, DocumentsStay DEF SlowInv

-----------------------------------------------------------------------------
LEMMA SlowInvInit == Init => SlowInv
<1> SUFFICES ASSUME Init PROVE SlowInv
  OBVIOUS
<1> USE DEF Init
<1>1. Hosted = {}
  BY DEF Hosted
<1>2. server # NoServer
  BY ConstantsAssumption DEF Server
<1>3. IdsAgree /\ SharedInv /\ ProvisionedStays /\ ServerInv /\ GivenOutInv /\ SessionInv
  BY <1>1, <1>2 DEF IdsAgree, SharedInv, SameName, ProvisionedStays, ServerInv, GivenOutInv, SessionInv
<1>4. DOMAIN mgrInbox = {} /\ DOMAIN daInbox = {}
  OBVIOUS
<1>5. ManagerInv /\ ScanInv /\ \A d \in Databases : WorkInv(d)
  BY <1>4 DEF ManagerInv, OneEach, OneOutcome, ScanInv, WorkInv, Unsent
<1>6. QED
  BY <1>3, <1>5 DEF SlowInv

(* Nothing of this depends on what the index has. *)
LEMMA SlowInvIndexed ==
    SlowInv /\ UNCHANGED <<server, database, apiVars, daVars, mgrVars, dbVars, sqlVars>> => SlowInv'
<1> SUFFICES ASSUME SlowInv,
                    UNCHANGED <<server, database, apiVars, daVars, mgrVars, dbVars, sqlVars>>
             PROVE  SlowInv'
  OBVIOUS
<1> USE DEF apiVars, daVars, mgrVars, dbVars
<1>1. /\ IdsAgree' /\ SharedInv' /\ ProvisionedStays' /\ ServerInv' /\ GivenOutInv'
      /\ \A d, db : Named(d, db)' = Named(d, db)
  BY DocumentsKept
<1>2. \A s : /\ Creates(s) => Creates(s)'
             /\ Edits(s) => Edits(s)'
             /\ Acts(s) => Acts(s)'
  BY DEF Creates, Edits, Acts, Hosted
<1>3. SessionInv'
  BY <1>2 DEF SlowInv, SessionInv
<1>4. ManagerInv' /\ ScanInv'
  BY DEF SlowInv, ManagerInv, ScanInv, Current, NoOutcomes, OutcomeIsTrue, Unsent, Sitting,
         Unreported
<1>5. \A d \in Databases : WorkInv(d)'
  BY <1>1 DEF SlowInv, WorkInv, Sitting, Unreported
<1>6. QED
  BY <1>1, <1>3, <1>4, <1>5 DEF SlowInv

LEMMA SlowInvStep ==
    SlowTimers /\ TypeInv /\ AskedInv /\ SlowInv /\ [Next]_vars => SlowInv'
<1>1. IndexUpdates \/ UNCHANGED vars =>
         UNCHANGED <<server, database, apiVars, daVars, mgrVars, dbVars, sqlVars>>
  BY DocumentsUntouched
<1>2. QED
  BY <1>1, SlowInvIndexed, SlowInvAPI, SlowInvScanQuery, SlowInvScanServer,
     SlowInvScanDatabases, SlowInvUpdate, SlowInvServerManager, SlowInvDatabaseManager,
     SlowInvCrash DEF Next, Scan, Crash

(* The work on the databases is the documents': whoever has a copy of a    *)
(* document, on its way or at work, has the only one, of a database that   *)
(* exists under that name and whose deletion nobody has reported yet.      *)
THEOREM WorkIsTheDocuments ==
    ASSUME SlowTimers
    PROVE  Spec => []SlowInv
<1>1. SlowTimers
  OBVIOUS
<1>2. Init => SlowInv
  BY SlowInvInit
<1>3. TypeInv /\ AskedInv /\ SlowInv /\ [Next]_vars => SlowInv'
  BY <1>1, SlowInvStep
<1>4. QED
  BY <1>2, <1>3, TypeInvariant, DeprovisionIsAsked, PTL DEF Spec

(* A server lists exactly the databases that have documents, however       *)
(* requests to create and delete them alternate with updates and crashes:  *)
(* UpdateDatabaseProvisioningStatus and the API keep both documents in     *)
(* step.  (The databases of a server that has gone stay without one.)      *)
THEOREM ServersListTheirDatabases ==
    ASSUME SlowTimers
    PROVE  Spec => []IdsAgree
<1>1. SlowInv => IdsAgree
  BY DEF SlowInv
<1>2. QED
  BY <1>1, WorkIsTheDocuments, PTL

(* A database that has been reported as created is there until somebody    *)
(* asks for it, or its server, to be deleted: T-SQL that is lost, repeated *)
(* or late never drops it, also when it has the name of an older one.  It  *)
(* may go with another one that has had its name at the same time, which   *)
(* the name check on an index does not rule out.                           *)
THEOREM CreatedDatabasesStay ==
    ASSUME SlowTimers
    PROVE  Spec => []ProvisionedStays
<1>1. SlowInv => ProvisionedStays
  BY DEF SlowInv
<1>2. QED
  BY <1>1, WorkIsTheDocuments, PTL

-----------------------------------------------------------------------------
(***************************************************************************)
(* The implementation of DatabaseLifecycle.  It needs three more facts: a  *)
(* drop that is reported was asked for, the instance holds nothing but     *)
(* databases that have documents, and it holds nothing, with nobody at     *)
(* work, once the end of its server has been reported.                     *)
(***************************************************************************)
ReportedAsked ==
    \A i \in DOMAIN daInbox : daInbox[i].kind = "deprovisioned" => daInbox[i].id \in Doomed

PresentInv == \A n \in databases : \E d \in Hosted : database[d].name = n

ReportedGone(inbox) == \E i \in DOMAIN inbox : inbox[i].kind = "serverGone"

GoneInv ==
    server = NoServer \/ ReportedGone(daInbox) =>
        mode = "Stopped" /\ databases = {} /\ \A d \in Databases : Sitting(d)

LEMMA DoomedById ==
    ASSUME NEW d, NEW n, <<d, n>> \in deleteAccepted
    PROVE  d \in Doomed
<1>1. <<d, n>>[1] = d
  OBVIOUS
<1>2. QED
  BY <1>1 DEF Doomed

LEMMA DoomedGrows == [Next]_vars => Doomed \subseteq Doomed'
<1> SUFFICES ASSUME [Next]_vars PROVE Doomed \subseteq Doomed'
  OBVIOUS
<1>1. deleteAccepted \subseteq deleteAccepted'
  <2> USE DEF apiVars, vars
  <2>1. API => deleteAccepted \subseteq deleteAccepted'
    BY Zenon DEF API, LoadForCreate, LoadForDatabase, LoadForServer, SaveRequest
  <2>2. IndexUpdates \/ ScanQuery \/ Scan \/ Update => UNCHANGED deleteAccepted
    BY DEF IndexUpdates, ScanQuery, Scan, ScanServer, ScanDatabases, Update, LoadForUpdate,
           SaveDatabaseUpdate, SaveServerUpdate, ServerManagerTerminated
  <2>3. ServerManager => UNCHANGED deleteAccepted
    BY DEF ServerManager, HandleInitialize, HandleServer, StartServerAction, ReconfigureEnds,
           DeprovisionEnds, DeprovisionFails, UncaughtFailure, IgnoreWhileWaiting,
           IgnoreDatabase, UpdateDatabaseState, HandleTermination
  <2>4. \A d \in Databases : DatabaseManager(d) => UNCHANGED deleteAccepted
    BY DEF DatabaseManager, DbInitialize, DbStart, DbIgnore, DbFound, DbNotFound, DbCall,
           DbCreated, DbCreateFailed, DbDropped, DbDropFailed, DbUncaught
  <2>5. Crash => UNCHANGED deleteAccepted
    BY DEF Crash, EngineCrash, DataAccessRestart, DeathPact
  <2>6. QED
    BY <2>1, <2>2, <2>3, <2>4, <2>5 DEF Next, Crash
<1>2. QED
  BY <1>1 DEF Doomed

LEMMA ReportedAskedStep ==
    TypeInv /\ AskedInv /\ ReportedAsked /\ [Next]_vars => ReportedAsked'
<1> SUFFICES ASSUME TypeInv, AskedInv, ReportedAsked, [Next]_vars PROVE ReportedAsked'
  OBVIOUS
<1> USE DEF apiVars, daVars, mgrVars, dbVars, vars
<1> DEFINE Old(m) == \E j \in DOMAIN daInbox : m.kind = "deprovisioned" => m = daInbox[j]
           Known(m) == m.kind = "deprovisioned" => m.id \in Doomed
<1>1. SUFFICES \A i \in DOMAIN daInbox' : Known(daInbox'[i])
  BY DoomedGrows DEF ReportedAsked
<1>2. daInbox \in Seq(Notification) /\ \A i \in DOMAIN daInbox : Known(daInbox[i])
  BY DEF TypeInv, TypeOK, ReportedAsked
<1>3. CASE UNCHANGED daInbox
  BY <1>2, <1>3
<1>4. CASE daInbox # <<>> /\ daInbox' = Tail(daInbox)
  <2>1. \A i \in DOMAIN daInbox' : i + 1 \in DOMAIN daInbox /\ daInbox'[i] = daInbox[i + 1]
    BY <1>2, <1>4
  <2>2. QED
    BY <1>2, <2>1
<1>5. ASSUME NEW m \in Notification, Known(m), daInbox' = Append(daInbox, m)
      PROVE  \A i \in DOMAIN daInbox' : Known(daInbox'[i])
  BY <1>2, <1>5, AppendedLast
<1>6. API \/ IndexUpdates \/ ScanQuery \/ Scan => UNCHANGED daInbox
  <2>1. API => UNCHANGED daInbox
    BY Zenon DEF API, LoadForCreate, LoadForDatabase, LoadForServer, SaveRequest
  <2>2. QED
    BY <2>1 DEF IndexUpdates, ScanQuery, Scan, ScanServer, ScanDatabases
<1>7. Update => UNCHANGED daInbox \/ (daInbox # <<>> /\ daInbox' = Tail(daInbox))
  BY DEF Update, LoadForUpdate, SaveDatabaseUpdate, SaveServerUpdate, ServerManagerTerminated,
         TypeInv, CopiesExist
<1>8. CASE ServerManager
  <2>1. \A kind \in {"serverBusy", "serverReady", "serverError", "serverGone", "terminated"} :
           OfServer(kind) \in Notification /\ Known(OfServer(kind))
    BY MessagesTyped DEF OfServer
  <2>2. CASE DeprovisionEnds
    <3> DEFINE gone == OfServer("serverGone")  dead == OfServer("terminated")
    <3>1. daInbox' = daInbox \o <<gone, dead>>
      BY <2>2 DEF DeprovisionEnds
    <3>2. gone \in Notification /\ dead \in Notification /\ Known(gone) /\ Known(dead)
      BY <2>1
    <3> HIDE DEF gone, dead
    <3>3. \A i \in DOMAIN daInbox' : \/ daInbox'[i] \in {gone, dead}
                                     \/ i \in DOMAIN daInbox /\ daInbox'[i] = daInbox[i]
      BY <1>2, <3>1, <3>2
    <3>4. QED
      BY <1>2, <3>2, <3>3
  <2>3. ~DeprovisionEnds => \/ UNCHANGED daInbox
                            \/ \E kind \in {"serverBusy", "serverReady", "serverError", "terminated"} :
                                  daInbox' = Append(daInbox, OfServer(kind))
    BY <1>8 DEF ServerManager, HandleInitialize, HandleServer, StartServerAction, ReconfigureEnds,
                DeprovisionFails, UncaughtFailure, IgnoreWhileWaiting, IgnoreDatabase,
                UpdateDatabaseState, HandleTermination
  <2>4. QED
    BY <1>3, <1>5, <2>1, <2>2, <2>3
<1>9. ASSUME NEW d \in Databases, DatabaseManager(d)
      PROVE  \A i \in DOMAIN daInbox' : Known(daInbox'[i])
  <2>1. \A kind \in DatabaseKinds : About(kind, d) \in Notification /\ About(kind, d).kind = kind
                                    /\ About(kind, d).id = d
    BY MessagesTyped DEF About
  <2>2. DbNotFound(d) \/ DbDropped(d) => d \in Doomed
    BY DoomedById DEF DbNotFound, DbDropped, TypeInv, CopiesExist, AskedInv, ManagersAsked, Asked
  <2>3. \/ UNCHANGED daInbox
        \/ \E kind \in DatabaseKinds : /\ daInbox' = Append(daInbox, About(kind, d))
                                       /\ kind = "deprovisioned" => DbNotFound(d) \/ DbDropped(d)
    BY <1>9 DEF DatabaseManager, DbInitialize, DbStart, DbIgnore, DbFound, DbNotFound, DbCall,
           DbCreated, DbCreateFailed, DbDropped, DbDropFailed, DbUncaught, Tell, DatabaseKinds
  <2>4. QED
    BY <1>3, <1>5, <2>1, <2>2, <2>3
<1>10. CASE Crash
  <2>1. CASE DataAccessRestart
    <3> DEFINE kept == IF daPc = "update" THEN Tail(daInbox) ELSE daInbox
    <3>1. daInbox' = [i \in DOMAIN kept |->
                        IF kept[i].kind = "terminated" THEN OfServer("orphaned") ELSE kept[i]]
      BY <2>1 DEF DataAccessRestart
    <3>2. daPc = "update" => daInbox # <<>>
      BY DEF TypeInv, CopiesExist
    <3>3. \A i \in DOMAIN kept : \E j \in DOMAIN daInbox : kept[i] = daInbox[j]
      <4>1. daInbox # <<>> => \A i \in DOMAIN Tail(daInbox) :
               i + 1 \in DOMAIN daInbox /\ Tail(daInbox)[i] = daInbox[i + 1]
        BY <1>2
      <4>2. QED
        BY <3>2, <4>1
    <3> HIDE DEF kept
    <3>4. Known(OfServer("orphaned"))
      BY DEF OfServer
    <3>5. QED
      BY <1>2, <3>1, <3>3, <3>4
  <2>2. CASE EngineCrash \/ DeathPact
    BY <2>2 DEF EngineCrash, DeathPact
  <2>3. QED
    BY <1>10, <2>1, <2>2 DEF Crash
<1>11. QED
  BY <1>3, <1>4, <1>6, <1>7, <1>8, <1>9, <1>10 DEF Next, Crash

LEMMA GoneStep ==
    SlowTimers /\ TypeInv /\ SlowInv /\ GoneInv /\ [Next]_vars => GoneInv'
<1> SUFFICES ASSUME TypeInv, SlowInv, GoneInv, [Next]_vars PROVE GoneInv'
  OBVIOUS
<1> USE DEF docVars, apiVars, daVars, mgrVars, dbVars, sqlVars
<1>1. daInbox \in Seq(Notification)
  BY DEF TypeInv, TypeOK
<1>2. ASSUME server' = NoServer \/ ReportedGone(daInbox') =>
                server = NoServer \/ ReportedGone(daInbox),
             UNCHANGED <<mode, databases, dbInbox, dbPc>>
      PROVE  GoneInv'
  BY <1>2 DEF GoneInv, Sitting
<1>3. ASSUME daInbox # <<>>, daInbox' = Tail(daInbox)
      PROVE  ReportedGone(daInbox') => ReportedGone(daInbox)
  <2>1. \A i \in DOMAIN Tail(daInbox) : i + 1 \in DOMAIN daInbox /\ Tail(daInbox)[i] = daInbox[i + 1]
    BY <1>1, <1>3
  <2>2. QED
    BY <1>3, <2>1 DEF ReportedGone
<1>4. CASE API
  <2>1. UNCHANGED <<daInbox, mode, databases, dbInbox, dbPc>>
        /\ (server' = NoServer => server = NoServer)
    BY <1>4, Zenon DEF API, LoadForCreate, LoadForDatabase, LoadForServer, SaveRequest
  <2>2. QED
    BY <1>2, <2>1
<1>5. CASE IndexUpdates \/ ScanQuery \/ ScanDatabases \/ UNCHANGED vars
  BY <1>2, <1>5 DEF IndexUpdates, ScanQuery, ScanDatabases, vars
<1>6. CASE ScanServer
  <2>1. /\ server' = server /\ daInbox' = daInbox
        /\ daInbox = <<>> /\ server # NoServer
    BY <1>6 DEF ScanServer, SlowInv, ScanInv, SessionInv, TypeInv, CopiesExist
  <2>2. DOMAIN daInbox' = {}
    BY <2>1
  <2>3. QED
    BY <2>1, <2>2 DEF GoneInv, ReportedGone
<1>7. CASE Update
  <2>1. CASE LoadForUpdate \/ ServerManagerTerminated
    BY <1>2, <1>3, <2>1 DEF LoadForUpdate, ServerManagerTerminated
  <2>2. CASE SaveDatabaseUpdate
    BY <1>2, <1>3, <2>2, DatabaseSaved
  <2>3. CASE SaveServerUpdate
    <3>1. /\ daInbox # <<>> /\ daInbox' = Tail(daInbox) /\ daServer = server /\ server # NoServer
          /\ server \in Server /\ UNCHANGED <<mode, databases, dbInbox, dbPc>>
          /\ server' = ServerUpdated(server, Head(daInbox).kind)
          /\ Head(daInbox).kind \notin {"terminated", "orphaned"}
          /\ ~AboutDatabase(Head(daInbox))
      BY <2>3 DEF SaveServerUpdate, SlowInv, SessionInv, TypeInv, TypeOK, CopiesExist
    <3>2. Head(daInbox) \in Notification /\ \E j \in DOMAIN daInbox : Head(daInbox) = daInbox[j]
      BY <3>1, ReportTaken
    <3>3. Head(daInbox).kind \in {"serverBusy", "serverReady", "serverError", "serverGone"}
      BY <3>1, <3>2 DEF Notification, AboutDatabase
    <3>4. Head(daInbox).kind # "serverGone" => server' # NoServer
      <4>1. ASSUME Head(daInbox).kind \in {"serverBusy", "serverReady", "serverError"}
            PROVE  server' \in Server
        <5>1. \E st \in {"Pending", "Ready", "Error"}, a \in {server.action, "None"} :
                 server' = [server EXCEPT !.status = st, !.action = a]
          BY <3>1, <4>1 DEF ServerUpdated, Server
        <5>2. QED
          BY <3>1, <5>1 DEF Server
      <4>2. QED
        BY <3>3, <4>1, ConstantsAssumption
    <3>5. Head(daInbox).kind = "serverGone" => ReportedGone(daInbox)
      BY <3>2 DEF ReportedGone
    <3>6. QED
      BY <1>2, <1>3, <3>1, <3>4, <3>5
  <2>4. QED
    BY <1>7, <2>1, <2>2, <2>3 DEF Update
<1>8. ASSUME NEW m, m \in Notification, m.kind # "serverGone", daInbox' = Append(daInbox, m)
      PROVE  ReportedGone(daInbox') => ReportedGone(daInbox)
  <2>1. \A i \in DOMAIN daInbox' : daInbox'[i] = m \/ (i \in DOMAIN daInbox /\ daInbox'[i] = daInbox[i])
    BY <1>1, <1>8, AppendedLast
  <2>2. QED
    BY <1>8, <2>1 DEF ReportedGone
<1>9. CASE ServerManager
  <2>1. mode # "Stopped" /\ server' = server
    BY <1>9 DEF ServerManager, HandleInitialize, HandleServer, StartServerAction, ReconfigureEnds,
           DeprovisionEnds, DeprovisionFails, UncaughtFailure, IgnoreWhileWaiting,
           IgnoreDatabase, UpdateDatabaseState, HandleTermination, MayHandle, MessageIs,
           SlowInv, ManagerInv
  <2>2. server # NoServer /\ ~ReportedGone(daInbox)
    BY <2>1 DEF GoneInv
  <2>3. CASE DeprovisionEnds
    BY <2>3, StoppedWork DEF DeprovisionEnds, StopManager, GoneInv
  <2>4. CASE ~DeprovisionEnds
    <3>1. \/ UNCHANGED daInbox
          \/ \E kind \in {"serverBusy", "serverReady", "serverError", "terminated"} :
                daInbox' = Append(daInbox, OfServer(kind))
      BY <1>9, <2>4 DEF ServerManager, HandleInitialize, HandleServer, StartServerAction,
             ReconfigureEnds, DeprovisionFails, UncaughtFailure, IgnoreWhileWaiting,
             IgnoreDatabase, UpdateDatabaseState, HandleTermination
    <3>2. \A kind \in {"serverBusy", "serverReady", "serverError", "terminated"} :
             OfServer(kind) \in Notification /\ OfServer(kind).kind # "serverGone"
      BY MessagesTyped DEF OfServer
    <3>3. ~ReportedGone(daInbox')
      BY <1>8, <2>2, <3>1, <3>2
    <3>4. QED
      BY <2>1, <2>2, <3>3 DEF GoneInv
  <2>5. QED
    BY <2>3, <2>4
<1>10. ASSUME NEW d \in Databases, DatabaseManager(d) PROVE GoneInv'
  <2>1. ~Sitting(d) /\ server' = server
    BY <1>10 DEF DatabaseManager, DbInitialize, DbStart, DbIgnore, DbFound, DbNotFound, DbCall,
           DbCreated, DbCreateFailed, DbDropped, DbDropFailed, DbUncaught, TakeDatabase,
           TypeInv, CopiesExist, Sitting
  <2>2. server # NoServer /\ ~ReportedGone(daInbox)
    BY <2>1 DEF GoneInv
  <2>3. \/ UNCHANGED daInbox
        \/ \E kind \in DatabaseKinds : daInbox' = Append(daInbox, About(kind, d))
    BY <1>10 DEF DatabaseManager, DbInitialize, DbStart, DbIgnore, DbFound, DbNotFound, DbCall,
           DbCreated, DbCreateFailed, DbDropped, DbDropFailed, DbUncaught, Tell, DatabaseKinds
  <2>4. \A kind \in DatabaseKinds :
           About(kind, d) \in Notification /\ About(kind, d).kind # "serverGone"
    BY MessagesTyped DEF About, DatabaseKinds
  <2>5. ~ReportedGone(daInbox')
    BY <1>8, <2>2, <2>3, <2>4
  <2>6. QED
    BY <2>1, <2>2, <2>5 DEF GoneInv
<1>11. CASE Crash
  <2>1. server' = server /\ StopManager /\ CallsLost(Databases)
    BY <1>11 DEF Crash, EngineCrash, DataAccessRestart, DeathPact, ForgetManager
  <2>2. ReportedGone(daInbox') => ReportedGone(daInbox)
    <3>1. CASE DataAccessRestart
      BY <3>1, OrphansKept DEF ReportedGone, Outcome
    <3>2. CASE EngineCrash \/ DeathPact
      <4>1. DOMAIN daInbox' = {}
        BY <3>2 DEF EngineCrash, DeathPact
      <4>2. QED
        BY <4>1 DEF ReportedGone
    <3>3. QED
      BY <1>11, <3>1, <3>2 DEF Crash
  <2>3. SUFFICES ASSUME server = NoServer \/ ReportedGone(daInbox) PROVE databases' = {}
    BY <2>1, <2>2, StoppedWork DEF GoneInv, StopManager
  <2>4. databases = {} /\ \A d \in Databases : dbPc[d] = "idle"
    BY <2>3 DEF GoneInv, Sitting
  <2>5. \A n \in databases' \ databases : FALSE
    BY <2>1, <2>4, LostCallsMake
  <2>6. QED
    BY <2>4, <2>5
<1>12. QED
  BY <1>4, <1>5, <1>6, <1>7, <1>9, <1>10, <1>11 DEF Next, Scan, Crash

(* The engine makes the databases that have documents, and drops those of  *)
(* which the deletion was accepted, or all of them with their server.      *)
LEMMA WorkImplements ==
    ASSUME UNCHANGED <<server, database, session, created, deleteAccepted>>,
           provisioned \subseteq provisioned',
           \A d \in provisioned' \ provisioned : d \in Hosted /\ database[d].name \in databases',
           \A n \in databases' \ databases : \E d \in Hosted : database[d].name = n,
           \/ server.action = "Deprovision"
           \/ \A n \in databases \ databases' : \E d \in Hosted \cap Doomed : database[d].name = n,
           server # NoServer, PresentInv
    PROVE  Lifecycle!Work /\ PresentInv'
<1>1. /\ Hosted' = Hosted /\ Host' = Host /\ Doomed' = Doomed /\ Used' = Used
      /\ Listed' = Listed
  BY DEF Hosted, Host, Doomed, Used, Listed
<1>2. \A d \in Hosted : LET entry == <<d, database[d].name>>
                        IN  entry \in Listed /\ entry[1] = d /\ entry[2] = database[d].name
  BY DEF Listed
<1>3. databases' \ databases \subseteq {entry[2] : entry \in Listed}
  BY <1>2
<1>4. /\ Host # "gone"
      /\ Host = "open" => databases \ databases' \subseteq
                             {entry[2] : entry \in {e \in Listed : e[1] \in Doomed}}
  <2>1. Host # "gone" /\ (Host = "open" => server.action # "Deprovision")
    BY DEF Host
  <2>2. ASSUME \A n \in databases \ databases' :
                  \E d \in Hosted \cap Doomed : database[d].name = n
        PROVE  databases \ databases' \subseteq
                  {entry[2] : entry \in {e \in Listed : e[1] \in Doomed}}
    BY <1>2, <2>2
  <2>3. QED
    BY <2>1, <2>2
<1>5. \A d \in provisioned' \ provisioned : \E n \in databases' : <<d, n>> \in Listed
  BY <1>2
<1>6. Lifecycle!Work
  BY <1>1, <1>3, <1>4, <1>5 DEF Lifecycle!Work
<1>7. PresentInv'
  BY <1>1 DEF PresentInv
<1>8. QED
  BY <1>6, <1>7

(* Whatever the actors do, and whatever becomes of their calls when they   *)
(* are stopped, is the engine's work.                                      *)
LEMMA EngineWorks ==
    ASSUME TypeInv, AskedInv, SlowInv, PresentInv, server # NoServer,
           ServerManager \/ (\E d \in Databases : DatabaseManager(d)) \/ Crash
    PROVE  Lifecycle!Work /\ PresentInv'
<1> USE DEF docVars, apiVars, daVars, mgrVars, dbVars, sqlVars
<1> DEFINE Documented(n) == \E d \in Hosted : database[d].name = n
           Doomable(n) == \E d \in Hosted \cap Doomed : database[d].name = n
<1>1. \A d \in Databases : dbPc[d] # "idle" => d \in Hosted /\ database[d].name = dbState[d].name
  BY DEF SlowInv, WorkInv, Named
<1>2. \A d \in Databases : dbPc[d] = "drop" => d \in Doomed
  BY DoomedById DEF TypeInv, CopiesExist, AskedInv, ManagersAsked, Asked
<1>3. ASSUME NEW D \in SUBSET Databases, CallsLost(D)
      PROVE  /\ \A n \in databases' \ databases : Documented(n)
             /\ \A n \in databases \ databases' : Doomable(n)
  <2>1. \A n \in databases' \ databases :
           \E e \in Databases : dbPc[e] = "create" /\ dbState[e].name = n
    BY <1>3, LostCallsMake
  <2>2. \A n \in databases \ databases' :
           \E d \in D : dbPc[d] = "drop" /\ dbState[d].name = n
    BY <1>3, LostCallsDrop
  <2>3. QED
    BY <1>1, <1>2, <2>1, <2>2
<1>4. UNCHANGED <<server, database, session, created, deleteAccepted>>
  <2>1. ServerManager => UNCHANGED <<server, database, session, created, deleteAccepted>>
    BY DEF ServerManager, HandleInitialize, HandleServer, StartServerAction, ReconfigureEnds,
           DeprovisionEnds, DeprovisionFails, UncaughtFailure, IgnoreWhileWaiting,
           IgnoreDatabase, UpdateDatabaseState, HandleTermination
  <2>2. \A d \in Databases :
           DatabaseManager(d) => UNCHANGED <<server, database, session, created, deleteAccepted>>
    BY DEF DatabaseManager, DbInitialize, DbStart, DbIgnore, DbFound, DbNotFound, DbCall,
           DbCreated, DbCreateFailed, DbDropped, DbDropFailed, DbUncaught
  <2>3. Crash => UNCHANGED <<server, database, session, created, deleteAccepted>>
    BY DEF Crash, EngineCrash, DataAccessRestart, DeathPact
  <2>4. QED
    BY <2>1, <2>2, <2>3
<1>5. ASSUME NEW D \in SUBSET Databases, CallsLost(D), provisioned' = provisioned
      PROVE  Lifecycle!Work /\ PresentInv'
  BY <1>3, <1>4, <1>5, WorkImplements
<1>6. ASSUME provisioned' = provisioned, databases' = databases
      PROVE  Lifecycle!Work /\ PresentInv'
  BY <1>4, <1>6, WorkImplements
<1>7. CASE ServerManager
  <2>1. CASE DeprovisionEnds \/ DeprovisionFails
    <3>1. busy /\ state.action = "Deprovision"
      BY <2>1 DEF DeprovisionEnds, DeprovisionFails
    <3>2. server.action = "Deprovision"
      BY <3>1 DEF SlowInv, ManagerInv, Current
    <3>3. databases' \subseteq databases /\ provisioned' = provisioned
      BY <2>1 DEF DeprovisionEnds, DeprovisionFails, StopManager, StopDatabaseManagers
    <3>4. QED
      BY <1>4, <3>2, <3>3, WorkImplements
  <2>2. CASE UncaughtFailure
    <3>1. CallsLost(Databases) /\ provisioned' = provisioned
      BY <2>2 DEF UncaughtFailure, StopManager, StopDatabaseManagers
    <3>2. QED
      BY <1>5, <3>1
  <2>3. CASE ~(DeprovisionEnds \/ DeprovisionFails \/ UncaughtFailure)
    <3>1. databases' = databases /\ provisioned' = provisioned
      BY <1>7, <2>3 DEF ServerManager, HandleInitialize, HandleServer, StartServerAction,
             ReconfigureEnds, IgnoreWhileWaiting, IgnoreDatabase, UpdateDatabaseState,
             HandleTermination
    <3>2. QED
      BY <1>6, <3>1
  <2>4. QED
    BY <2>1, <2>2, <2>3
<1>8. ASSUME NEW d \in Databases, DatabaseManager(d)
      PROVE  Lifecycle!Work /\ PresentInv'
  <2>1. CASE DbFound(d)
    <3>1. /\ provisioned' = provisioned \cup {d} /\ databases' = databases
          /\ dbPc[d] # "idle" /\ dbState[d].name \in databases
      BY <2>1 DEF DbFound, Exists
    <3>2. QED
      BY <1>1, <1>4, <3>1, WorkImplements
  <2>2. CASE DbCreated(d)
    <3>1. /\ provisioned' = provisioned \cup {d} /\ databases' = databases \cup {dbState[d].name}
          /\ dbPc[d] # "idle"
      BY <2>2 DEF DbCreated
    <3>2. QED
      BY <1>1, <1>4, <3>1, WorkImplements
  <2>3. CASE DbCreateFailed(d)
    <3>1. /\ provisioned' = provisioned /\ dbPc[d] # "idle"
          /\ \/ databases' = databases \/ databases' = databases \cup {dbState[d].name}
             \/ CallsLost({d})
      BY <2>3 DEF DbCreateFailed
    <3>2. CASE databases' = databases \cup {dbState[d].name}
      BY <1>1, <1>4, <3>1, <3>2, WorkImplements
    <3>3. QED
      BY <1>5, <1>6, <3>1, <3>2
  <2>4. CASE DbDropped(d)
    <3>1. /\ provisioned' = provisioned /\ databases' = databases \ {dbState[d].name}
          /\ dbPc[d] = "drop"
      BY <2>4 DEF DbDropped
    <3>2. QED
      BY <1>1, <1>2, <1>4, <3>1, WorkImplements
  <2>5. CASE DbUncaught(d)
    <3>1. CallsLost({d}) /\ provisioned' = provisioned
      BY <2>5 DEF DbUncaught
    <3>2. QED
      BY <1>5, <3>1
  <2>6. CASE ~(DbFound(d) \/ DbCreated(d) \/ DbCreateFailed(d) \/ DbDropped(d) \/ DbUncaught(d))
    <3>1. databases' = databases /\ provisioned' = provisioned
      BY <1>8, <2>6 DEF DatabaseManager, DbInitialize, DbStart, DbIgnore, DbNotFound, DbCall,
             DbDropFailed
    <3>2. QED
      BY <1>6, <3>1
  <2>7. QED
    BY <2>1, <2>2, <2>3, <2>4, <2>5, <2>6
<1>9. CASE Crash
  <2>1. CallsLost(Databases) /\ provisioned' = provisioned
    BY <1>9 DEF Crash, EngineCrash, DataAccessRestart, DeathPact, ForgetManager, StopManager,
                StopDatabaseManagers
  <2>2. QED
    BY <1>5, <2>1
<1>10. QED
  BY <1>7, <1>8, <1>9

LEMMA EngineStutters ==
    ASSUME UNCHANGED <<server, database, session, created, deleteAccepted, provisioned, databases>>
    PROVE  UNCHANGED Lifecycle!vars /\ (PresentInv => PresentInv')
<1>1. Hosted' = Hosted
  BY DEF Hosted
<1>2. Host' = Host /\ Listed' = Listed /\ Used' = Used /\ Doomed' = Doomed
  BY <1>1 DEF Host, Listed, Used, Doomed
<1>3. QED
  BY <1>1, <1>2 DEF Lifecycle!vars, PresentInv

(* A server that has gone has nobody who works on it. *)
LEMMA NobodyWorks ==
    ASSUME TypeInv, SlowInv, GoneInv, server = NoServer,
           ServerManager \/ (\E d \in Databases : DatabaseManager(d)) \/ Crash
    PROVE  UNCHANGED <<server, database, session, created, deleteAccepted, provisioned, databases>>
<1>1. mode = "Stopped" /\ databases = {} /\ \A d \in Databases : Sitting(d)
  BY DEF GoneInv
<1>2. ~ServerManager
  BY <1>1 DEF ServerManager, HandleInitialize, HandleServer, StartServerAction, ReconfigureEnds,
         DeprovisionEnds, DeprovisionFails, UncaughtFailure, IgnoreWhileWaiting,
         IgnoreDatabase, UpdateDatabaseState, HandleTermination, MayHandle, MessageIs,
         SlowInv, ManagerInv
<1>3. \A d \in Databases : ~DatabaseManager(d)
  BY <1>1 DEF DatabaseManager, DbInitialize, DbStart, DbIgnore, DbFound, DbNotFound, DbCall,
         DbCreated, DbCreateFailed, DbDropped, DbDropFailed, DbUncaught, TakeDatabase,
         TypeInv, CopiesExist, Sitting
<1>4. /\ UNCHANGED <<server, database, session, created, deleteAccepted>> /\ StopManager
      /\ CallsLost(Databases)
  BY <1>2, <1>3 DEF Crash, EngineCrash, DataAccessRestart, DeathPact, ForgetManager, docVars, apiVars
<1>5. \A n \in databases' \ databases : FALSE
  BY <1>1, <1>4, LostCallsMake DEF Sitting
<1>6. databases' = databases /\ provisioned' = provisioned
  BY <1>1, <1>4, <1>5 DEF StopManager, StopDatabaseManagers
<1>7. QED
  BY <1>4, <1>6

(* What a request loads is nobody's business: an id that has been given    *)
(* out is not used before both documents are saved.                        *)
LEMMA SessionImplements ==
    ASSUME TypeInv, SessionsClosed, UNCHANGED <<docVars, deleteAccepted, provisioned, databases>>,
           NEW c \in Clients, NEW s, session' = [session EXCEPT ![c] = s],
           \/ created' = created /\ ~SavesBoth(s)
           \/ created' = created \cup {s.id} /\ SavesBoth(s) /\ s.id \notin created
    PROVE  UNCHANGED Lifecycle!vars /\ (PresentInv => PresentInv')
<1> USE DEF docVars
<1>1. Hosted' = Hosted
  BY DEF Hosted
<1>2. Host' = Host /\ Listed' = Listed /\ Doomed' = Doomed
  BY <1>1 DEF Host, Listed, Doomed
<1>3. \A e \in Clients : ~SavesBoth(session[e])
  BY DEF SessionsClosed, SavesBoth, NoSession
<1>4. session'[c] = s /\ \A e \in Clients \ {c} : session'[e] = session[e]
  BY DEF TypeInv, TypeOK
<1>5. Used = created
  BY <1>3 DEF Used
<1>6. Used' = IF SavesBoth(s) THEN created' \ {s.id} ELSE created'
  <2>1. \A e \in Clients : SavesBoth(session'[e]) <=> e = c /\ SavesBoth(s)
    BY <1>3, <1>4 DEF SavesBoth
  <2>2. {e \in Clients : SavesBoth(session'[e])} = IF SavesBoth(s) THEN {c} ELSE {}
    BY <2>1
  <2>3. Used' = created' \ {session'[e].id : e \in {e \in Clients : SavesBoth(session'[e])}}
    BY DEF Used, SavesBoth
  <2>4. QED
    BY <1>4, <2>2, <2>3
<1>7. Used' = Used
  BY <1>5, <1>6
<1>8. QED
  BY <1>1, <1>2, <1>7 DEF Lifecycle!vars, PresentInv

LEMMA FirstsAdded ==
    ASSUME NEW S, NEW d, NEW n
    PROVE  {x[1] : x \in S \cup {<<d, n>>}} = {x[1] : x \in S} \cup {d}
<1>1. <<d, n>>[1] = d /\ <<d, n>> \in S \cup {<<d, n>>}
  OBVIOUS
<1>2. \A x \in S \cup {<<d, n>>} : x \in S \/ x = <<d, n>>
  OBVIOUS
<1>3. ASSUME NEW y PROVE y \in {x[1] : x \in S \cup {<<d, n>>}} <=> y \in {x[1] : x \in S} \cup {d}
  <2>1. (\E x \in S \cup {<<d, n>>} : y = x[1]) <=> (\E x \in S : y = x[1]) \/ y = d
    BY <1>1, <1>2
  <2>2. QED
    BY <2>1
<1>4. QED
  BY <1>3

(* A request that is saved is the tenant's: to create a database, to       *)
(* delete one, or to destroy the server.                                   *)
LEMMA RequestImplements ==
    ASSUME TypeInv, SlowInv, PresentInv, NEW c \in Clients, SaveRequest(c)
    PROVE  [Lifecycle!Next]_(Lifecycle!vars) /\ PresentInv'
<1> DEFINE s == session[c]
<1> USE ConstantsAssumption
<1>1. /\ server # NoServer /\ server \in Server /\ s # NoSession
      /\ Creates(s) \/ Edits(s) \/ Acts(s)
      /\ s.database \in DatabaseInstance \cup {NoDatabase} /\ s.server \in Server \cup {NoServer}
      /\ database \in [Databases -> DatabaseInstance \cup {NoDatabase}]
      /\ s.database # NoDatabase => s.id \in Databases
  BY DEF SaveRequest, SlowInv, SessionInv, TypeInv, TypeOK, CopiesExist, Session
<1>2. /\ server' = IF s.server = NoServer THEN server ELSE s.server
      /\ database' = IF s.database = NoDatabase THEN database
                     ELSE [database EXCEPT ![s.id] = s.database]
      /\ deleteAccepted' = IF s.database # NoDatabase /\ s.database.action = "Deprovision"
                           THEN deleteAccepted \cup {<<s.id, s.database.name>>}
                           ELSE deleteAccepted
      /\ session' = [session EXCEPT ![c] = NoSession]
      /\ created' = created /\ provisioned' = provisioned /\ databases' = databases
  BY DEF SaveRequest, dbVars, sqlVars
<1>3. /\ \A e \in Clients \ {c} : session[e] = NoSession
      /\ \A e \in Clients : session'[e] = NoSession
  BY <1>1, <1>2 DEF SlowInv, SessionInv, TypeInv, TypeOK
<1>4. \A e \in Clients : ~SavesBoth(session'[e]) /\ (e # c => ~SavesBoth(session[e]))
  BY <1>3 DEF SavesBoth, NoSession
<1>5. Used' = created
  <2>1. Used' = created' \ {session'[e].id : e \in {e \in Clients : SavesBoth(session'[e])}}
    BY DEF Used, SavesBoth
  <2>2. QED
    BY <1>2, <1>4, <2>1
<1>6. Used = IF SavesBoth(s) THEN created \ {s.id} ELSE created
  <2>1. {e \in Clients : SavesBoth(session[e])} = IF SavesBoth(s) THEN {c} ELSE {}
    BY <1>4
  <2>2. QED
    BY <2>1 DEF Used
<1>7. CASE Creates(s)
  <2> DEFINE d == s.id  n == s.database.name
  <2>1. /\ s.database \in DatabaseInstance /\ d \in Databases /\ d \in created /\ d \notin Hosted
        /\ server.action = "None" /\ deleteAccepted' = deleteAccepted
    BY <1>1, <1>2, <1>7 DEF Creates
  <2>2. /\ s.server \in Server /\ s.server # NoServer /\ s.server.action = "None"
    BY <1>1, <1>7, <2>1 DEF Creates, Server
  <2>3. server' = s.server /\ database' = [database EXCEPT ![d] = s.database] /\ SavesBoth(s)
    BY <1>2, <2>1, <2>2 DEF SavesBoth
  <2>4. /\ Hosted' = Hosted \cup {d} /\ database'[d] = s.database
        /\ \A e \in Hosted : database'[e] = database[e]
    BY <1>1, <2>1, <2>3 DEF Hosted
  <2>5. Listed' = Listed \cup {<<d, n>>}
    BY <2>4 DEF Listed
  <2>6. Host = "open" /\ Host' = "open"
    BY <1>1, <2>1, <2>2, <2>3 DEF Host
  <2>7. Used' = Used \cup {d} /\ d \notin Used
    BY <1>5, <1>6, <2>1, <2>3
  <2>8. PresentInv'
    BY <1>2, <2>4 DEF PresentInv
  <2>9. n \in Names
    BY <2>1 DEF DatabaseInstance
  <2>10. Doomed' = Doomed
    BY <2>1 DEF Doomed
  <2>11. Lifecycle!Create(d, n)
    BY <1>2, <2>5, <2>6, <2>7, <2>10 DEF Lifecycle!Create
  <2>12. QED
    BY <2>1, <2>8, <2>9, <2>11 DEF Lifecycle!Next
<1>8. CASE Edits(s)
  <2> DEFINE d == s.id  n == s.database.name
  <2>1. /\ s.server = NoServer /\ s.database \in DatabaseInstance /\ d \in Hosted
        /\ n = database[d].name /\ server' = server /\ server.action = "None"
        /\ database' = [database EXCEPT ![d] = s.database]
    BY <1>1, <1>2, <1>8 DEF Edits
  <2>2. Hosted' = Hosted /\ \A e \in Hosted : database'[e].name = database[e].name
    BY <1>1, <2>1 DEF Hosted
  <2>3. Listed' = Listed /\ Host' = Host /\ Host = "open"
    BY <1>1, <2>1, <2>2 DEF Listed, Host
  <2>4. Used' = Used /\ PresentInv'
    BY <1>2, <1>5, <1>6, <2>1, <2>2 DEF SavesBoth, PresentInv
  <2>5. d \in Databases /\ n \in Names /\ <<d, n>> \in Listed
    BY <2>1 DEF Hosted, Listed, DatabaseInstance
  <2>6. CASE s.database.action = "Deprovision"
    <3>1. deleteAccepted' = deleteAccepted \cup {<<d, n>>}
      BY <1>2, <2>1, <2>6
    <3>2. Doomed' = Doomed \cup {d}
      BY <3>1, FirstsAdded DEF Doomed
    <3>3. Lifecycle!Delete(d, n)
      BY <1>2, <2>3, <2>4, <2>5, <3>2 DEF Lifecycle!Delete
    <3>4. QED
      BY <2>4, <2>5, <3>3 DEF Lifecycle!Next
  <2>7. CASE s.database.action # "Deprovision"
    <3>1. Doomed' = Doomed
      BY <1>2, <2>7 DEF Doomed
    <3>2. QED
      BY <1>2, <2>3, <2>4, <3>1 DEF Lifecycle!vars
  <2>8. QED
    BY <2>6, <2>7
<1>9. CASE Acts(s)
  <2>1. /\ server' = s.server /\ database' = database /\ deleteAccepted' = deleteAccepted
        /\ server.action = "None" /\ s.server # NoServer /\ ~SavesBoth(s)
    BY <1>2, <1>9 DEF Acts, SavesBoth
  <2>2. Hosted' = Hosted
    BY <2>1 DEF Hosted
  <2>3. Listed' = Listed /\ Doomed' = Doomed /\ Used' = Used /\ PresentInv'
    BY <1>2, <1>5, <1>6, <2>1, <2>2 DEF Listed, Doomed, PresentInv
  <2>4. Host = "open" /\ Host' = IF s.server.action = "Deprovision" THEN "closing" ELSE "open"
    BY <1>1, <2>1 DEF Host
  <2>5. CASE s.server.action = "Deprovision"
    <3>1. Lifecycle!Close
      BY <1>2, <2>3, <2>4, <2>5 DEF Lifecycle!Close
    <3>2. QED
      BY <2>3, <3>1 DEF Lifecycle!Next
  <2>6. CASE s.server.action # "Deprovision"
    BY <1>2, <2>3, <2>4, <2>6 DEF Lifecycle!vars
  <2>7. QED
    BY <2>5, <2>6
<1>10. QED
  BY <1>1, <1>7, <1>8, <1>9

(* An update withdraws a database that was dropped, and ends the closing   *)
(* of the server one way or the other.                                     *)
LEMMA UpdateImplements ==
    ASSUME TypeInv, SlowInv, OrderInv, ReportedAsked, PresentInv, GoneInv, Update
    PROVE  [Lifecycle!Next]_(Lifecycle!vars) /\ PresentInv'
<1> DEFINE m == Head(daInbox)
<1> USE DEF docVars, apiVars, dbVars, sqlVars
<1>1. CASE LoadForUpdate \/ ServerManagerTerminated
  <2>1. UNCHANGED <<server, database, session, created, deleteAccepted, provisioned, databases>>
    BY <1>1 DEF LoadForUpdate, ServerManagerTerminated
  <2>2. QED
    BY <2>1, EngineStutters
<1>2. CASE SaveDatabaseUpdate
  <2>1. /\ server # NoServer /\ server' # NoServer /\ server'.action = server.action
        /\ UNCHANGED <<session, created, deleteAccepted, provisioned, databases>>
    BY <1>2, DatabaseSaved
  <2>2. Host' = Host /\ Host # "gone" /\ Used' = Used /\ Doomed' = Doomed
    BY <2>1 DEF Host, Used, Doomed
  <2>3. CASE Hosted' = Hosted /\ \A e \in Hosted : database'[e].name = database[e].name
    <3>1. Listed' = Listed /\ PresentInv'
      BY <2>1, <2>3 DEF Listed, PresentInv
    <3>2. QED
      BY <2>1, <2>2, <3>1 DEF Lifecycle!vars
  <2>4. CASE /\ m.kind = "deprovisioned" /\ (\E j \in DOMAIN daInbox : daInbox[j] = m)
             /\ m.id \in Hosted /\ Hosted' = Hosted \ {m.id}
             /\ \A e \in Hosted' : database'[e] = database[e]
    <3> DEFINE d == m.id  n == database[d].name
    <3>1. d \in Databases /\ database[d] # NoDatabase /\ database'[d] = NoDatabase
      BY <2>4 DEF Hosted
    <3>2. n \in databases => \E e \in Hosted \ {d} : database[e].name = n
      BY <1>2, <3>1, DeleteStep DEF Next, Update
    <3>3. d \in Doomed
      BY <2>4 DEF ReportedAsked
    <3>4. <<d, n>> \in Listed /\ n \in Names
      BY <2>4, <3>1 DEF Listed, TypeInv, TypeOK, DatabaseInstance
    <3> HIDE DEF d
    <3>5. Listed' = Listed \ {<<d, n>>}
      BY <2>4 DEF Listed, d
    <3>6. n \in databases => \E e \in Databases \ {d} : <<e, n>> \in Listed
      BY <3>2 DEF Listed, Hosted
    <3>7. Lifecycle!Withdraw(d, n)
      BY <2>1, <2>2, <3>3, <3>4, <3>5, <3>6 DEF Lifecycle!Withdraw
    <3>8. PresentInv'
      <4>1. SUFFICES ASSUME NEW k \in databases PROVE \E e \in Hosted \ {d} : database[e].name = k
        BY <2>1, <2>4 DEF PresentInv, d
      <4>2. QED
        BY <3>2 DEF PresentInv
    <3>9. QED
      BY <3>1, <3>4, <3>7, <3>8 DEF Lifecycle!Next
  <2>5. QED
    BY <1>2, <2>3, <2>4, DatabaseSaved
<1>3. CASE SaveServerUpdate
  <2>1. /\ daServer = server /\ server # NoServer /\ server \in Server
        /\ m \in Notification /\ ~AboutDatabase(m) /\ m.kind \notin {"terminated", "orphaned"}
        /\ \E j \in DOMAIN daInbox : m = daInbox[j]
        /\ UNCHANGED <<database, session, created, deleteAccepted, provisioned, databases>>
    <3>1. daInbox # <<>> /\ daInbox' = Tail(daInbox)
      BY <1>3 DEF SaveServerUpdate, TypeInv, CopiesExist
    <3>2. QED
      BY <1>3, <3>1, ReportTaken DEF SaveServerUpdate, SlowInv, SessionInv, TypeInv, TypeOK,
         CopiesExist
  <2>2. server' = ServerUpdated(server, m.kind)
    BY <1>3, <2>1 DEF SaveServerUpdate
  <2>3. m.kind \in {"serverBusy", "serverReady", "serverError", "serverGone"}
    BY <2>1 DEF Notification, AboutDatabase
  <2>4. OutcomeIsTrue(m)
    BY <2>1 DEF SlowInv, ManagerInv
  <2>5. Hosted' = Hosted
    BY <2>1 DEF Hosted
  <2>6. Listed' = Listed /\ Used' = Used /\ Doomed' = Doomed /\ PresentInv'
    BY <2>1, <2>5 DEF Listed, Used, Doomed, PresentInv
  <2>7. CASE m.kind = "serverBusy"
    <3>1. server' # NoServer /\ server'.action = server.action
      BY <2>1, <2>2, <2>7, ConstantsAssumption DEF ServerUpdated, Server
    <3>2. Host' = Host
      BY <2>1, <3>1 DEF Host
    <3>3. QED
      BY <2>1, <2>6, <3>2 DEF Lifecycle!vars
  <2>8. CASE m.kind \in {"serverReady", "serverError"}
    <3>1. \E st \in {"Ready", "Error"} : server' = [server EXCEPT !.status = st, !.action = "None"]
      BY <2>2, <2>8 DEF ServerUpdated
    <3>2. server' # NoServer /\ server'.action = "None"
      BY <2>1, <3>1, ConstantsAssumption DEF Server
    <3>3. Host' = "open" /\ Host \in {"open", "closing"}
      BY <2>1, <3>2 DEF Host
    <3>4. CASE Host = "open"
      BY <2>1, <2>6, <3>3, <3>4 DEF Lifecycle!vars
    <3>5. CASE Host = "closing"
      <4>1. Lifecycle!Reopen
        BY <2>1, <2>6, <3>3, <3>5 DEF Lifecycle!Reopen
      <4>2. QED
        BY <2>6, <4>1 DEF Lifecycle!Next
    <3>6. QED
      BY <3>3, <3>4, <3>5
  <2>9. CASE m.kind = "serverGone"
    <3>1. server' = NoServer /\ server.action = "Deprovision"
      BY <2>2, <2>4, <2>9 DEF ServerUpdated, OutcomeIsTrue, Outcome
    <3>2. Host = "closing" /\ Host' = "gone"
      BY <2>1, <3>1 DEF Host
    <3>3. databases = {}
      BY <2>1, <2>9 DEF GoneInv, ReportedGone
    <3>4. Lifecycle!Vanish
      BY <2>1, <2>6, <3>2, <3>3 DEF Lifecycle!Vanish
    <3>5. QED
      BY <2>6, <3>4 DEF Lifecycle!Next
  <2>10. QED
    BY <2>3, <2>7, <2>8, <2>9
<1>4. QED
  BY <1>1, <1>2, <1>3 DEF Update

LEMMA APIImplements ==
    ASSUME SlowTimers, TypeInv, SlowInv, PresentInv, API
    PROVE  [Lifecycle!Next]_(Lifecycle!vars) /\ PresentInv'
<1> USE ConstantsAssumption DEF dbVars, sqlVars
<1>1. ASSUME NEW c \in Clients, MayRequest(c) PROVE SessionsClosed
  BY <1>1 DEF MayRequest, SlowTimers
<1>2. ASSUME NEW c \in Clients, NEW n \in Names, NEW u \in Users, LoadForCreate(c, n, u)
      PROVE  UNCHANGED Lifecycle!vars /\ PresentInv'
  <2>1. PICK d \in Databases \ created :
          /\ WillSave(c, [server EXCEPT !.ids = @ \cup {d}], d,
                      [name |-> n, user |-> u, action |-> "Provision", status |-> "Pending"])
          /\ created' = created \cup {d}
    BY <1>2 DEF LoadForCreate
  <2> DEFINE db == [name |-> n, user |-> u, action |-> "Provision", status |-> "Pending"]
             new == [server EXCEPT !.ids = @ \cup {d}]
  <2>2. server \in Server /\ UNCHANGED <<docVars, deleteAccepted, provisioned, databases>>
    BY <1>2 DEF LoadForCreate, TypeInv, TypeOK
  <2>3. db \in DatabaseInstance /\ new \in Server
    BY <2>2 DEF DatabaseInstance, Server
  <2> HIDE DEF db, new
  <2>4. PICK s : s = [server |-> new, id |-> d, database |-> db]
    OBVIOUS
  <2>5. SavesBoth(s) /\ s.id = d /\ session' = [session EXCEPT ![c] = s]
    BY <2>1, <2>3, <2>4 DEF SavesBoth, WillSave, db, new
  <2>6. QED
    BY <1>1, <1>2, <2>1, <2>2, <2>5, SessionImplements DEF LoadForCreate
<1>3. ASSUME NEW c \in Clients, NEW d \in Databases, NEW a \in {"Deprovision", "Reconfigure"},
             LoadForDatabase(c, d, a)
      PROVE  UNCHANGED Lifecycle!vars /\ PresentInv'
  <2> PICK s : s = [server |-> NoServer, id |-> d,
                    database |-> [database[d] EXCEPT !.action = a, !.status = "Pending"]]
    OBVIOUS
  <2>1. /\ UNCHANGED <<docVars, deleteAccepted, created, provisioned, databases>>
        /\ SessionsClosed /\ session' = [session EXCEPT ![c] = s]
    BY <1>1, <1>3 DEF LoadForDatabase, WillSave
  <2>2. QED
    BY <2>1, SessionImplements DEF SavesBoth
<1>4. ASSUME NEW c \in Clients, NEW a \in ServerActions, LoadForServer(c, a)
      PROVE  UNCHANGED Lifecycle!vars /\ PresentInv'
  <2> PICK s : s = [server |-> [server EXCEPT !.action = a, !.status = "Pending"],
                    id |-> NoDatabase, database |-> NoDatabase]
    OBVIOUS
  <2>1. /\ UNCHANGED <<docVars, deleteAccepted, created, provisioned, databases>>
        /\ SessionsClosed /\ session' = [session EXCEPT ![c] = s]
    BY <1>1, <1>4 DEF LoadForServer, WillSave
  <2>2. QED
    BY <2>1, SessionImplements DEF SavesBoth
<1>5. ASSUME NEW c \in Clients, SaveRequest(c)
      PROVE  [Lifecycle!Next]_(Lifecycle!vars) /\ PresentInv'
  BY <1>5, RequestImplements
<1>6. QED
  BY <1>2, <1>3, <1>4, <1>5 DEF API

(* Every step is one of the abstract specification's, or none.             *)
LEMMA StepImplements ==
    SlowTimers /\ TypeInv /\ AskedInv /\ SlowInv /\ OrderInv /\ ReportedAsked /\ PresentInv
    /\ GoneInv /\ [Next]_vars => [Lifecycle!Next]_(Lifecycle!vars) /\ PresentInv'
<1> SUFFICES ASSUME SlowTimers, TypeInv, AskedInv, SlowInv, OrderInv, ReportedAsked, PresentInv,
                    GoneInv, [Next]_vars
             PROVE  [Lifecycle!Next]_(Lifecycle!vars) /\ PresentInv'
  OBVIOUS
<1>1. CASE IndexUpdates \/ ScanQuery \/ Scan \/ UNCHANGED vars
  <2>1. UNCHANGED <<server, database, session, created, deleteAccepted, provisioned, databases>>
    BY <1>1 DEF IndexUpdates, ScanQuery, Scan, ScanServer, ScanDatabases, vars, docVars, apiVars, dbVars, sqlVars
  <2>2. QED
    BY <2>1, EngineStutters
<1>2. CASE ServerManager \/ (\E d \in Databases : DatabaseManager(d)) \/ Crash
  <2>1. CASE server = NoServer
    BY <1>2, <2>1, NobodyWorks, EngineStutters
  <2>2. CASE server # NoServer
    BY <1>2, <2>2, EngineWorks DEF Lifecycle!Next
  <2>3. QED
    BY <2>1, <2>2
<1>3. QED
  BY <1>1, <1>2, APIImplements, UpdateImplements DEF Next, Crash

LEMMA InitImplements == Init => Lifecycle!Init /\ ReportedAsked /\ PresentInv /\ GoneInv
<1> SUFFICES ASSUME Init PROVE Lifecycle!Init /\ ReportedAsked /\ PresentInv /\ GoneInv
  OBVIOUS
<1>1. /\ server = [action |-> "None", status |-> "Ready", ids |-> {}] /\ created = {}
      /\ provisioned = {} /\ databases = {} /\ deleteAccepted = {} /\ daInbox = <<>>
      /\ database = [d \in Databases |-> NoDatabase]
  BY DEF Init
<1>2. server # NoServer /\ server.action = "None"
  BY <1>1, ConstantsAssumption DEF Server
<1>3. Hosted = {}
  BY <1>1 DEF Hosted
<1>4. Host = "open" /\ Listed = {} /\ Used = {} /\ Doomed = {}
  BY <1>1, <1>2, <1>3 DEF Host, Listed, Used, Doomed
<1>5. DOMAIN daInbox = {}
  BY <1>1
<1>6. QED
  BY <1>1, <1>2, <1>4, <1>5 DEF Lifecycle!Init, ReportedAsked, PresentInv, GoneInv, ReportedGone

LEMMA AbstractionInvariant ==
    ASSUME SlowTimers
    PROVE  Spec => [](ReportedAsked /\ PresentInv /\ GoneInv /\ OrderInv)
<1>1. SlowTimers
  OBVIOUS
<1>2. TypeInv /\ AskedInv /\ SlowInv /\ OrderInv /\ ReportedAsked /\ PresentInv /\ GoneInv
      /\ [Next]_vars => ReportedAsked' /\ PresentInv' /\ GoneInv'
  BY <1>1, StepImplements, ReportedAskedStep, GoneStep
<1>3. QED
  BY <1>2, InitImplements, OrderInvInit, OrderInvStep, TypeInvariant, DeprovisionIsAsked,
     WorkIsTheDocuments, PTL DEF Spec

(* The instance never holds a database that no document accounts for: one  *)
(* that is made has a document already, and the last document of a name    *)
(* only goes after the database, also when calls outlive the managers that *)
(* made them.                                                              *)
THEOREM NothingIsOrphaned ==
    ASSUME SlowTimers
    PROVE  Spec => []PresentInv
BY AbstractionInvariant, PTL

(* Requests, scans, updates, managers, T-SQL and every failure and restart *)
(* between them implement DatabaseLifecycle: a database is made only for a *)
(* document that lists it, dropped only at a request to delete it or its   *)
(* server, listed until it has been dropped and never again after that,    *)
(* and the server goes only when the instance holds nothing any more.      *)
THEOREM LifecycleIsImplemented ==
    ASSUME SlowTimers
    PROVE  Spec => ImplementsLifecycle
<1>1. SlowTimers
  OBVIOUS
<1>2. TypeInv /\ AskedInv /\ SlowInv /\ OrderInv /\ ReportedAsked /\ PresentInv /\ GoneInv
      /\ [Next]_vars => [Lifecycle!Next]_(Lifecycle!vars)
  BY <1>1, StepImplements
<1>3. QED
  BY <1>2, InitImplements, AbstractionInvariant, TypeInvariant, DeprovisionIsAsked,
     WorkIsTheDocuments, PTL DEF Spec, ImplementsLifecycle, Lifecycle!Spec
=============================================================================
