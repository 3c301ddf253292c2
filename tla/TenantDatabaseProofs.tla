------------------------ MODULE TenantDatabaseProofs ------------------------
(***************************************************************************)
(* Theorems about TenantDatabase, for every set of databases, names, users *)
(* and clients, every bound and every schedule of scans and sessions,      *)
(* through every failure, crash and restart: first the types and what the  *)
(* actors do, then their registries and the copies of documents.           *)
(***************************************************************************)
EXTENDS TenantDatabase, FiniteSetTheorems, TLAPS

-----------------------------------------------------------------------------
(* Documents, messages and notifications keep their types.                 *)

LEMMA HeadAndTail ==
    ASSUME NEW S, NEW s \in Seq(S), s # <<>>
    PROVE  Head(s) \in S /\ Tail(s) \in Seq(S)
OBVIOUS

LEMMA RotatedTyped ==
    ASSUME NEW S, NEW s \in Seq(S), s # <<>>
    PROVE  Append(Tail(s), Head(s)) \in Seq(S)
OBVIOUS

LEMMA SingletonTyped ==
    ASSUME NEW S, NEW x \in S
    PROVE  <<x>> \in Seq(S) /\ <<x>> # <<>> /\ Head(<<x>>) = x
OBVIOUS

LEMMA AppendKeepsHead ==
    ASSUME NEW S, NEW s \in Seq(S), NEW x \in S
    PROVE  /\ Append(s, x) \in Seq(S) /\ Append(s, x) # <<>>
           /\ s # <<>> => Head(Append(s, x)) = Head(s)
OBVIOUS

LEMMA MessagesTyped ==
    /\ \A s \in Server : ServerMessage(s) \in ManagerMessage
    /\ \A d \in Databases, db \in DatabaseInstance : DatabaseMessage(d, db) \in ManagerMessage
    /\ \A d \in Databases : ManagerTerminated(d) \in ManagerMessage
    /\ \A d \in Databases, kind \in DatabaseKinds : About(kind, d) \in Notification
    /\ \A kind \in {"serverBusy", "serverReady", "serverError", "serverGone",
                    "terminated", "orphaned"} : OfServer(kind) \in Notification
BY DEF ServerMessage, DatabaseMessage, ManagerTerminated, About, OfServer, ManagerMessage,
       Notification, Server, ServerState

LEMMA MessageFields ==
    ASSUME NEW m \in ManagerMessage
    PROVE  /\ m.kind = "server" => m.server \in ServerState
           /\ m.kind = "database" => m.id \in Databases /\ m.database \in DatabaseInstance
           /\ m.kind = "terminated" => m.id \in Databases
BY DEF ManagerMessage

LEMMA NotificationFields ==
    ASSUME NEW m \in Notification
    PROVE  AboutDatabase(m) => m.id \in Databases /\ m.kind \in DatabaseKinds
BY DEF Notification, AboutDatabase, DatabaseKinds

LEMMA DatabaseUpdatedTyped ==
    ASSUME NEW db \in DatabaseInstance, NEW kind \in DatabaseKinds
    PROVE  DatabaseUpdated(db, kind) \in DatabaseInstance \cup {NoDatabase}
BY DEF DatabaseUpdated, StatusOf, DatabaseInstance, DatabaseKinds

LEMMA ServerUpdatedTyped ==
    ASSUME NEW s \in Server,
           NEW kind \in {"serverBusy", "serverReady", "serverError", "serverGone"}
    PROVE  ServerUpdated(s, kind) \in Server \cup {NoServer}
BY DEF ServerUpdated, Server

LEMMA OrdersAreSequences ==
    ASSUME NEW S \in SUBSET Databases, NEW order \in SetToSeqs(S)
    PROVE  order \in Seq(S)
<1>1. Cardinality(S) \in Nat
  BY ConstantsAssumption, FS_Subset, FS_CardinalityType
<1>2. QED
  BY <1>1 DEF SetToSeqs

-----------------------------------------------------------------------------
(* Every copy that a process works from exists, and every actor that has   *)
(* yet to be initialised has the message that does it.                     *)
CopiesExist ==
    /\ daPc \in {"scan", "load", "update"} => daServer # NoServer
    /\ daPc = "update" =>
          /\ daInbox # <<>> /\ Head(daInbox).kind \notin {"terminated", "orphaned"}
          /\ AboutDatabase(Head(daInbox)) => daDatabase # NoDatabase
    /\ mode = "Initializing" => mgrInbox # <<>> /\ Head(mgrInbox).kind = "server"
    /\ \A d \in Databases :
          /\ dbMode[d] = "Initializing" => dbInbox[d] # <<>>
          /\ dbPc[d] # "idle" => dbState[d] # NoDatabase
    /\ \A c \in Clients : session[c].database # NoDatabase => session[c].id \in Databases

TypeInv == TypeOK /\ CopiesExist

LEMMA TypeInvInit == Init => TypeInv
<1> SUFFICES ASSUME Init PROVE TypeInv
  OBVIOUS
<1> USE ConstantsAssumption DEF Init
<1>1. server \in Server
  BY DEF Server
<1>2. NoSession \in Session /\ session \in [Clients -> Session]
  BY DEF Session, NoSession
<1>3. state \in ServerState
  BY DEF NoState, ServerState
<1>4. /\ database \in [Databases -> DatabaseInstance \cup {NoDatabase}]
      /\ dbState \in [Databases -> DatabaseInstance \cup {NoDatabase}]
      /\ dbMode \in [Databases -> {"Stopped", "Initializing", "Ready"}]
      /\ dbPc \in [Databases -> {"idle", "exists", "create", "drop"}]
  OBVIOUS
<1>5. dbInbox \in [Databases -> Seq(DatabaseInstance)]
  <2>1. <<>> \in Seq(DatabaseInstance)
    OBVIOUS
  <2>2. QED
    BY <2>1
<1>6. TypeOK
  <2>1. daInbox \in Seq(Notification) /\ mgrInbox \in Seq(ManagerMessage)
    <3>1. daInbox = <<>> /\ mgrInbox = <<>>
      OBVIOUS
    <3>2. QED
      BY <3>1
  <2>2. /\ created \in SUBSET Databases /\ provisioned \in SUBSET Databases
        /\ children \in SUBSET Databases /\ deleteAccepted \in SUBSET (Databases \X Names)
        /\ databases \in SUBSET Names /\ logins \in SUBSET Users
        /\ requests \in 0..MaxRequests /\ faults \in 0..MaxFaults
    OBVIOUS
  <2>3. QED
    BY <1>1, <1>2, <1>3, <1>4, <1>5, <2>1, <2>2 DEF TypeOK
<1>7. CopiesExist
  BY DEF CopiesExist, NoSession
<1>8. QED
  BY <1>6, <1>7 DEF TypeInv

LEMMA TypeInvAPI == TypeInv /\ API => TypeInv'
<1> SUFFICES ASSUME TypeInv, API PROVE TypeInv'
  OBVIOUS
<1> USE ConstantsAssumption DEF TypeInv, TypeOK, CopiesExist, docVars, daVars, mgrVars,
        dbVars, sqlVars
<1>1. ASSUME NEW c \in Clients, MayRequest(c)
      PROVE  requests' \in 0..MaxRequests
  BY <1>1 DEF MayRequest
<1>2. ASSUME NEW c \in Clients, NEW n \in Names, NEW u \in Users, LoadForCreate(c, n, u)
      PROVE  TypeInv'
  <2>1. PICK d \in Databases \ created :
          /\ WillSave(c, [server EXCEPT !.ids = @ \cup {d}], d,
                      [name |-> n, user |-> u, action |-> "Provision", status |-> "Pending"])
          /\ created' = created \cup {d}
    BY <1>2 DEF LoadForCreate
  <2>2. [server EXCEPT !.ids = @ \cup {d}] \in Server
    BY <1>2 DEF LoadForCreate, Server
  <2>3. [name |-> n, user |-> u, action |-> "Provision", status |-> "Pending"]
          \in DatabaseInstance
    BY DEF DatabaseInstance
  <2>4. /\ session' \in [Clients -> Session] /\ created' \in SUBSET Databases
        /\ \A e \in Clients : session'[e].database # NoDatabase => session'[e].id \in Databases
    BY <2>1, <2>2, <2>3 DEF WillSave, Session
  <2>5. QED
    BY <1>1, <1>2, <2>4 DEF LoadForCreate
<1>3. ASSUME NEW c \in Clients, NEW d \in Databases, NEW a \in {"Deprovision", "Reconfigure"},
             LoadForDatabase(c, d, a)
      PROVE  TypeInv'
  <2>1. [database[d] EXCEPT !.action = a, !.status = "Pending"] \in DatabaseInstance
    <3>1. database[d] \in DatabaseInstance
      BY <1>3 DEF LoadForDatabase
    <3>2. QED
      BY <3>1 DEF DatabaseInstance
  <2>2. /\ session' \in [Clients -> Session]
        /\ \A e \in Clients : session'[e].database # NoDatabase => session'[e].id \in Databases
    BY <1>3, <2>1 DEF LoadForDatabase, WillSave, Session
  <2>3. QED
    BY <1>1, <1>3, <2>2 DEF LoadForDatabase
<1>4. ASSUME NEW c \in Clients, NEW a \in ServerActions, LoadForServer(c, a)
      PROVE  TypeInv'
  <2>1. [server EXCEPT !.action = a, !.status = "Pending"] \in Server
    BY <1>4 DEF LoadForServer, Server
  <2>2. /\ session' \in [Clients -> Session]
        /\ \A e \in Clients : session'[e].database # NoDatabase => session'[e].id \in Databases
    BY <1>4, <2>1 DEF LoadForServer, WillSave, Session
  <2>3. QED
    BY <1>1, <1>4, <2>2 DEF LoadForServer
<1>5. ASSUME NEW c \in Clients, SaveRequest(c)
      PROVE  TypeInv'
  <2> DEFINE s == session[c]
  <2>1. /\ s.server \in Server \cup {NoServer} /\ s.id \in Databases \cup {NoDatabase}
        /\ s.database \in DatabaseInstance \cup {NoDatabase}
    BY DEF Session
  <2>2. server' \in Server \cup {NoServer}
    BY <1>5, <2>1 DEF SaveRequest
  <2>3. database' \in [Databases -> DatabaseInstance \cup {NoDatabase}]
    BY <1>5, <2>1 DEF SaveRequest
  <2>4. deleteAccepted' \in SUBSET (Databases \X Names)
    BY <1>5, <2>1 DEF SaveRequest, DatabaseInstance
  <2>5. /\ session' \in [Clients -> Session] /\ destroyAccepted' \in BOOLEAN
        /\ \A e \in Clients : session'[e].database # NoDatabase => session'[e].id \in Databases
    BY <1>5 DEF SaveRequest, Session, NoSession
  <2>6. indexed' \in SUBSET Databases /\ shared' \in SUBSET Databases
    BY <1>5 DEF SaveRequest
  <2>7. QED
    BY <1>5, <2>2, <2>3, <2>4, <2>5, <2>6 DEF SaveRequest
<1>6. QED
  BY <1>2, <1>3, <1>4, <1>5 DEF API

LEMMA TypeInvScan == TypeInv /\ (ScanQuery \/ Scan) => TypeInv'
<1> SUFFICES ASSUME TypeInv, ScanQuery \/ Scan PROVE TypeInv'
  OBVIOUS
<1> USE ConstantsAssumption DEF TypeInv, TypeOK, CopiesExist, docVars, apiVars, daVars,
        mgrVars, dbVars, sqlVars
<1>1. CASE ScanQuery
  BY <1>1 DEF ScanQuery
<1>2. CASE ScanServer
  <2>1. ServerMessage(daServer) \in ManagerMessage /\ ServerMessage(daServer).kind = "server"
    BY <1>2, MessagesTyped DEF ScanServer, ServerMessage
  <2>2. /\ mgrInbox' \in Seq(ManagerMessage)
        /\ mode' = "Initializing" => mgrInbox' # <<>> /\ Head(mgrInbox').kind = "server"
    <3> DEFINE m == ServerMessage(daServer)
    <3>1. \/ mode' = mode /\ (mgrInbox' = mgrInbox \/ mgrInbox' = Append(mgrInbox, m))
          \/ mgrInbox' = <<m>>
      BY <1>2 DEF ScanServer
    <3>2. m \in ManagerMessage /\ m.kind = "server"
      BY <2>1
    <3> HIDE DEF m
    <3>3. mgrInbox \in Seq(ManagerMessage)
      OBVIOUS
    <3>4. /\ Append(mgrInbox, m) \in Seq(ManagerMessage) /\ Append(mgrInbox, m) # <<>>
          /\ mgrInbox # <<>> => Head(Append(mgrInbox, m)) = Head(mgrInbox)
      BY <3>2, <3>3, AppendKeepsHead
    <3>5. <<m>> \in Seq(ManagerMessage) /\ <<m>> # <<>> /\ Head(<<m>>) = m
      BY <3>2, SingletonTyped
    <3>6. QED
      BY <3>1, <3>2, <3>3, <3>4, <3>5
  <2>3. QED
    BY <1>2, <2>2 DEF ScanServer
<1>3. CASE ScanDatabases
  <2> DEFINE listed == {d \in daServer.ids : database[d] # NoDatabase}
  <2>1. listed \in SUBSET Databases
    BY <1>3 DEF ScanDatabases, Server
  <2>2. PICK order \in SetToSeqs(listed) :
          mgrInbox' = IF mode = "Stopped" THEN mgrInbox
                      ELSE mgrInbox \o [i \in DOMAIN order |->
                                          DatabaseMessage(order[i], database[order[i]])]
    BY <1>3 DEF ScanDatabases
  <2> DEFINE told == [i \in DOMAIN order |-> DatabaseMessage(order[i], database[order[i]])]
  <2>3. order \in Seq(listed)
    BY <2>1, <2>2, OrdersAreSequences
  <2>4. told \in Seq(ManagerMessage)
    <3>1. \A i \in DOMAIN order : order[i] \in Databases /\ database[order[i]] \in DatabaseInstance
      BY <2>1, <2>3
    <3>2. \A i \in DOMAIN order : told[i] \in ManagerMessage
      BY <3>1, MessagesTyped
    <3>3. Len(order) \in Nat /\ DOMAIN order = 1..Len(order)
      BY <2>3
    <3>4. told \in [1..Len(order) -> ManagerMessage]
      BY <3>2, <3>3
    <3>5. QED
      BY <3>3, <3>4
  <2>5. /\ mgrInbox' \in Seq(ManagerMessage)
        /\ mgrInbox # <<>> => mgrInbox' # <<>> /\ Head(mgrInbox') = Head(mgrInbox)
    BY <2>2, <2>4
  <2>6. QED
    BY <1>3, <2>5 DEF ScanDatabases
<1>4. QED
  BY <1>1, <1>2, <1>3 DEF Scan

LEMMA TypeInvUpdate == TypeInv /\ Update => TypeInv'
<1> SUFFICES ASSUME TypeInv, Update PROVE TypeInv'
  OBVIOUS
<1> USE ConstantsAssumption DEF TypeInv, TypeOK, CopiesExist, docVars, apiVars, daVars,
        mgrVars, dbVars, sqlVars
<1> DEFINE m == Head(daInbox)
<1>1. daInbox # <<>> => m \in Notification /\ Tail(daInbox) \in Seq(Notification)
  BY HeadAndTail
<1>2. CASE LoadForUpdate
  <2>1. AboutDatabase(m) => m.id \in Databases
    BY <1>1, <1>2, NotificationFields DEF LoadForUpdate
  <2>2. CASE server = NoServer \/ (AboutDatabase(m) /\ database[m.id] = NoDatabase)
    BY <1>1, <1>2, <2>2 DEF LoadForUpdate
  <2>3. CASE ~(server = NoServer \/ (AboutDatabase(m) /\ database[m.id] = NoDatabase))
    <3>1. daPc' = "update" /\ daServer' = server /\ daInbox' = daInbox /\ server # NoServer
      BY <1>2, <2>3 DEF LoadForUpdate
    <3>2. /\ daDatabase' \in DatabaseInstance \cup {NoDatabase}
          /\ AboutDatabase(m) => daDatabase' # NoDatabase
      BY <1>2, <2>1, <2>3 DEF LoadForUpdate
    <3>3. QED
      BY <1>2, <3>1, <3>2 DEF LoadForUpdate
  <2>4. QED
    BY <2>2, <2>3
<1>3. CASE SaveDatabaseUpdate
  <2> DEFINE edited == DatabaseUpdated(daDatabase, m.kind)
  <2>1. m.id \in Databases /\ m.kind \in DatabaseKinds /\ daDatabase \in DatabaseInstance
    BY <1>1, <1>3, NotificationFields DEF SaveDatabaseUpdate
  <2>2. edited \in DatabaseInstance \cup {NoDatabase}
    BY <2>1, DatabaseUpdatedTyped
  <2>3. database' = [database EXCEPT ![m.id] = Saved(daDatabase, edited, @)]
    BY <1>3 DEF SaveDatabaseUpdate
  <2>4. database' \in [Databases -> DatabaseInstance \cup {NoDatabase}]
    <3> HIDE DEF edited
    <3>1. QED
      BY <2>1, <2>2, <2>3 DEF Saved
  <2>5. server' \in Server \cup {NoServer}
    <3>1. daServer \in Server
      BY <1>3 DEF SaveDatabaseUpdate
    <3>2. \A ids \in SUBSET Databases : [daServer EXCEPT !.ids = ids] \in Server
      BY <3>1 DEF Server
    <3>3. daServer.ids \in SUBSET Databases /\ daServer.ids \ {m.id} \in SUBSET Databases
      BY <3>1 DEF Server
    <3>4. QED
      BY <1>3, <3>2, <3>3 DEF SaveDatabaseUpdate, Saved
  <2>6. indexed' \in SUBSET Databases
    BY <1>3 DEF SaveDatabaseUpdate
  <2>7. QED
    BY <1>1, <1>3, <2>4, <2>5, <2>6 DEF SaveDatabaseUpdate
<1>4. CASE SaveServerUpdate
  <2>1. m.kind \in {"serverBusy", "serverReady", "serverError", "serverGone"}
    BY <1>1, <1>4 DEF SaveServerUpdate, Notification, AboutDatabase
  <2>2. ServerUpdated(daServer, m.kind) \in Server \cup {NoServer}
    BY <1>4, <2>1, ServerUpdatedTyped DEF SaveServerUpdate
  <2>3. server' \in Server \cup {NoServer}
    BY <1>4, <2>2 DEF SaveServerUpdate
  <2>4. QED
    BY <1>1, <1>4, <2>3 DEF SaveServerUpdate
<1>5. CASE ServerManagerTerminated
  BY <1>1, <1>5 DEF ServerManagerTerminated
<1>6. QED
  BY <1>2, <1>3, <1>4, <1>5 DEF Update

(* Calls of a manager are made for a database it knows. *)
LEMMA CallsLostTyped ==
    ASSUME TypeInv, NEW D \in SUBSET Databases, CallsLost(D)
    PROVE  databases' \in SUBSET Names /\ logins' \in SUBSET Users
<1>1. \A d \in D : dbPc[d] # "idle" => dbState[d].name \in Names /\ dbState[d].user \in Users
  BY DEF TypeInv, TypeOK, CopiesExist, DatabaseInstance
<1>2. PICK made \in SUBSET {d \in D : dbPc[d] = "create" /\ dbState[d].name \notin databases},
           dropped \in SUBSET {d \in D : dbPc[d] = "drop"} :
        LET new  == {dbState[d].name : d \in made}
            gone == {dbState[d].name : d \in dropped}
        IN /\ databases' \in {(databases \cup new) \ gone, (databases \ gone) \cup new}
           /\ \E given \in SUBSET made : logins' = logins \cup {dbState[d].user : d \in given}
  BY DEF CallsLost
<1> DEFINE new == {dbState[d].name : d \in made}
           gone == {dbState[d].name : d \in dropped}
<1>3. new \subseteq Names
  BY <1>1
<1>4. databases' \in {(databases \cup new) \ gone, (databases \ gone) \cup new}
  BY <1>2
<1>5. databases \in SUBSET Names /\ logins \in SUBSET Users
  BY DEF TypeInv, TypeOK
<1>6. databases' \in SUBSET Names
  <2> HIDE DEF new, gone
  <2>1. QED
    BY <1>3, <1>4, <1>5
<1>7. logins' \in SUBSET Users
  BY <1>1, <1>2, <1>5
<1>8. QED
  BY <1>6, <1>7

(* DataAccess is told; what it is working on stays at the head.            *)
InboxGrows ==
    /\ daInbox' \in Seq(Notification)
    /\ daInbox # <<>> => daInbox' # <<>> /\ Head(daInbox') = Head(daInbox)

LEMMA TellGrows ==
    ASSUME TypeInv, NEW m \in Notification, daInbox' = Append(daInbox, m)
    PROVE  InboxGrows
<1>1. daInbox \in Seq(Notification)
  BY DEF TypeInv, TypeOK
<1>2. QED
  BY <1>1, AppendKeepsHead DEF InboxGrows

(* An actor that stops leaves nothing behind that is not typed. *)
LEMMA StopManagerTyped ==
    ASSUME StopManager
    PROVE  /\ mode' = "Stopped" /\ busy' = FALSE /\ state' \in ServerState
           /\ mgrInbox' \in Seq(ManagerMessage) /\ children' \in SUBSET Databases
           /\ dbMode' \in [Databases -> {"Stopped"}] /\ dbPc' \in [Databases -> {"idle"}]
           /\ dbState' \in [Databases -> {NoDatabase}]
           /\ dbInbox' \in [Databases -> Seq(DatabaseInstance)]
           /\ provisioned' = provisioned
<1>1. state' \in ServerState
  BY DEF StopManager, NoState, ServerState
<1>2. mgrInbox' \in Seq(ManagerMessage) /\ <<>> \in Seq(DatabaseInstance)
  BY DEF StopManager
<1>3. QED
  BY <1>1, <1>2 DEF StopManager, StopDatabaseManagers

LEMMA StopKeepsTypes ==
    ASSUME TypeInv, StopManager, InboxGrows,
           databases' \in SUBSET Names, logins' \in SUBSET Users, faults' \in 0..MaxFaults,
           UNCHANGED <<docVars, apiVars, daPc, daServer, daDatabase, registered>>
    PROVE  TypeInv'
<1>1. /\ UNCHANGED <<server, database, indexed>>
      /\ UNCHANGED <<session, created, deleteAccepted, destroyAccepted, shared, requests>>
      /\ UNCHANGED <<daPc, daServer, daDatabase, registered>>
  BY DEF docVars, apiVars
<1>2. /\ mode' = "Stopped" /\ busy' = FALSE /\ state' \in ServerState
      /\ mgrInbox' \in Seq(ManagerMessage) /\ children' \in SUBSET Databases
      /\ dbMode' \in [Databases -> {"Stopped"}] /\ dbPc' \in [Databases -> {"idle"}]
      /\ dbState' \in [Databases -> {NoDatabase}]
      /\ dbInbox' \in [Databases -> Seq(DatabaseInstance)]
      /\ provisioned' = provisioned
  BY StopManagerTyped
<1>3. daInbox' \in Seq(Notification)
  BY DEF TypeInv, TypeOK, InboxGrows
<1>4. TypeOK'
  <2>1. /\ server' \in Server \cup {NoServer}
        /\ database' \in [Databases -> DatabaseInstance \cup {NoDatabase}]
        /\ indexed' \in SUBSET Databases /\ session' \in [Clients -> Session]
        /\ daPc' \in {"idle", "scan", "load", "update", "stopped"}
        /\ daServer' \in Server \cup {NoServer}
        /\ daDatabase' \in DatabaseInstance \cup {NoDatabase}
        /\ registered' \in BOOLEAN
    BY <1>1 DEF TypeInv, TypeOK
  <2>2. /\ created' \in SUBSET Databases /\ provisioned' \in SUBSET Databases
        /\ deleteAccepted' \in SUBSET (Databases \X Names) /\ destroyAccepted' \in BOOLEAN
        /\ shared' \in SUBSET Databases /\ requests' \in 0..MaxRequests
    BY <1>1, <1>2 DEF TypeInv, TypeOK
  <2>3. /\ mode' \in {"Stopped", "Initializing", "Ready"} /\ busy' \in BOOLEAN
        /\ dbMode' \in [Databases -> {"Stopped", "Initializing", "Ready"}]
        /\ dbPc' \in [Databases -> {"idle", "exists", "create", "drop"}]
        /\ dbState' \in [Databases -> DatabaseInstance \cup {NoDatabase}]
    BY <1>2
  <2>4. QED
    BY <1>2, <1>3, <2>1, <2>2, <2>3 DEF TypeOK
<1>5. CopiesExist'
  BY <1>1, <1>2 DEF TypeInv, CopiesExist, InboxGrows
<1>6. QED
  BY <1>4, <1>5 DEF TypeInv

LEMMA DbInboxTyped ==
    ASSUME TypeInv, NEW d \in Databases, NEW db \in DatabaseInstance
    PROVE  Append(dbInbox[d], db) \in Seq(DatabaseInstance) /\ Append(dbInbox[d], db) # <<>>
<1>1. dbInbox[d] \in Seq(DatabaseInstance)
  BY DEF TypeInv, TypeOK
<1>2. QED
  BY <1>1, AppendKeepsHead

LEMMA TypeInvServerManager == TypeInv /\ ServerManager => TypeInv'
<1> SUFFICES ASSUME TypeInv, ServerManager PROVE TypeInv'
  OBVIOUS
<1> USE ConstantsAssumption DEF TypeInv, TypeOK, CopiesExist, docVars, apiVars, daVars,
        mgrVars, dbVars, sqlVars
<1> DEFINE m == Head(mgrInbox)
<1>1. mgrInbox # <<>> => m \in ManagerMessage /\ Tail(mgrInbox) \in Seq(ManagerMessage)
  BY HeadAndTail
<1>2. CASE HandleInitialize
  <2>1. m \in ManagerMessage /\ m.kind = "server" /\ mgrInbox # <<>>
    BY <1>1, <1>2 DEF HandleInitialize
  <2>2. state' \in ServerState
    BY <1>2, <2>1, MessageFields DEF HandleInitialize
  <2>3. mgrInbox' \in Seq(ManagerMessage)
    BY <1>2, <2>1, RotatedTyped DEF HandleInitialize
  <2>4. QED
    BY <1>2, <2>2, <2>3 DEF HandleInitialize
<1>3. CASE HandleServer
  <2>1. state' \in ServerState
    BY <1>1, <1>3, MessageFields DEF HandleServer, MayHandle, MessageIs
  <2>2. QED
    BY <1>1, <1>3, <2>1 DEF HandleServer, MayHandle, MessageIs
<1>4. CASE StartServerAction
  <2>1. state' \in ServerState
    BY <1>1, <1>4, MessageFields DEF StartServerAction, MayHandle, MessageIs
  <2>2. InboxGrows
    BY <1>4, TellGrows, MessagesTyped DEF StartServerAction
  <2>3. QED
    BY <1>1, <1>4, <2>1, <2>2 DEF StartServerAction, MayHandle, MessageIs, InboxGrows
<1>5. CASE ReconfigureEnds
  <2>1. InboxGrows
    BY <1>5, TellGrows, MessagesTyped DEF ReconfigureEnds
  <2>2. state' \in ServerState
    BY <1>5 DEF ReconfigureEnds, ServerState
  <2>3. faults' \in 0..MaxFaults
    BY <1>5 DEF ReconfigureEnds, Fault
  <2>4. QED
    BY <1>5, <2>1, <2>2, <2>3 DEF ReconfigureEnds, InboxGrows
<1>6. CASE DeprovisionEnds
  <2>1. InboxGrows
    <3>1. <<OfServer("serverGone"), OfServer("terminated")>> \in Seq(Notification)
      BY MessagesTyped
    <3>2. QED
      BY <1>6, <3>1 DEF DeprovisionEnds, InboxGrows
  <2>2. StopManager /\ databases' = {} /\ logins' = {}
        /\ UNCHANGED <<docVars, apiVars, daPc, daServer, daDatabase, registered, faults>>
    BY <1>6 DEF DeprovisionEnds
  <2>3. databases' \in SUBSET Names /\ logins' \in SUBSET Users /\ faults' \in 0..MaxFaults
    BY <2>2
  <2>4. QED
    <3> HIDE DEF TypeInv, TypeOK, CopiesExist, docVars, apiVars
    <3>1. QED
      BY <2>1, <2>2, <2>3, StopKeepsTypes
<1>7. CASE DeprovisionFails
  <2>1. InboxGrows
    BY <1>7, TellGrows, MessagesTyped DEF DeprovisionFails
  <2>2. state' \in ServerState
    BY <1>7 DEF DeprovisionFails, ServerState
  <2>3. faults' \in 0..MaxFaults
    BY <1>7 DEF DeprovisionFails, Fault
  <2>4. TypeOK'
    <3>1. databases' \in SUBSET Names /\ logins' \in SUBSET Users
      BY <1>7 DEF DeprovisionFails
    <3>2. UNCHANGED <<docVars, apiVars, daPc, daServer, daDatabase, registered, mode, mgrInbox,
                      children, dbVars>> /\ busy' = FALSE
      BY <1>7 DEF DeprovisionFails
    <3>3. daInbox' \in Seq(Notification)
      BY <2>1 DEF InboxGrows
    <3>4. /\ server' \in Server \cup {NoServer}
          /\ database' \in [Databases -> DatabaseInstance \cup {NoDatabase}]
          /\ indexed' \in SUBSET Databases /\ session' \in [Clients -> Session]
          /\ created' \in SUBSET Databases /\ provisioned' \in SUBSET Databases
          /\ deleteAccepted' \in SUBSET (Databases \X Names) /\ destroyAccepted' \in BOOLEAN
          /\ shared' \in SUBSET Databases /\ requests' \in 0..MaxRequests
      BY <3>2
    <3>5. /\ daPc' \in {"idle", "scan", "load", "update", "stopped"}
          /\ daServer' \in Server \cup {NoServer}
          /\ daDatabase' \in DatabaseInstance \cup {NoDatabase} /\ registered' \in BOOLEAN
          /\ mode' \in {"Stopped", "Initializing", "Ready"} /\ busy' \in BOOLEAN
          /\ mgrInbox' \in Seq(ManagerMessage) /\ children' \in SUBSET Databases
      BY <3>2
    <3>6. /\ dbMode' \in [Databases -> {"Stopped", "Initializing", "Ready"}]
          /\ dbPc' \in [Databases -> {"idle", "exists", "create", "drop"}]
          /\ dbState' \in [Databases -> DatabaseInstance \cup {NoDatabase}]
          /\ dbInbox' \in [Databases -> Seq(DatabaseInstance)]
      BY <3>2
    <3>7. QED
      <4> HIDE DEF docVars, apiVars, dbVars, TypeInv
      <4>1. QED
        BY <2>2, <2>3, <3>1, <3>3, <3>4, <3>5, <3>6 DEF TypeOK
  <2>5. CopiesExist'
    BY <1>7, <2>1, <2>2 DEF DeprovisionFails, InboxGrows
  <2>6. QED
    BY <2>4, <2>5
<1>8. CASE UncaughtFailure
  <2>1. InboxGrows
    BY <1>8, TellGrows, MessagesTyped DEF UncaughtFailure
  <2>2. databases' \in SUBSET Names /\ logins' \in SUBSET Users
    BY <1>8, CallsLostTyped DEF UncaughtFailure
  <2>3. StopManager /\ faults' \in 0..MaxFaults
        /\ UNCHANGED <<docVars, apiVars, daPc, daServer, daDatabase, registered>>
    BY <1>8 DEF UncaughtFailure, Fault
  <2>4. QED
    <3> HIDE DEF TypeInv, TypeOK, CopiesExist, docVars, apiVars
    <3>1. QED
      BY <2>1, <2>2, <2>3, StopKeepsTypes
<1>9. CASE IgnoreWhileWaiting \/ IgnoreDatabase
  <2>1. CASE IgnoreWhileWaiting
    BY <1>1, <2>1 DEF IgnoreWhileWaiting, MessageIs
  <2>2. CASE IgnoreDatabase
    BY <1>1, <2>2 DEF IgnoreDatabase, MayHandle, MessageIs
  <2>3. QED
    BY <1>9, <2>1, <2>2
<1>10. CASE UpdateDatabaseState
  <2> DEFINE d == m.id
             db == m.database
  <2>1. d \in Databases /\ db \in DatabaseInstance
    BY <1>1, <1>10, MessageFields DEF UpdateDatabaseState, MayHandle, MessageIs
  <2>2. \/ UNCHANGED <<dbInbox, dbMode, children>>
        \/ dbInbox' = [dbInbox EXCEPT ![d] = Append(@, db)] /\ UNCHANGED <<dbMode, children>>
        \/ /\ dbInbox' = [dbInbox EXCEPT ![d] = <<db>>]
           /\ dbMode' = [dbMode EXCEPT ![d] = "Initializing"]
           /\ children' = children \cup {d}
    BY <1>10 DEF UpdateDatabaseState
  <2> HIDE DEF d, db
  <2>3. /\ Append(dbInbox[d], db) \in Seq(DatabaseInstance) /\ Append(dbInbox[d], db) # <<>>
        /\ <<db>> \in Seq(DatabaseInstance) /\ <<db>> # <<>>
    <3>2. Append(dbInbox[d], db) \in Seq(DatabaseInstance) /\ Append(dbInbox[d], db) # <<>>
      BY <2>1, DbInboxTyped
    <3>3. <<db>> \in Seq(DatabaseInstance) /\ <<db>> # <<>>
      BY <2>1, SingletonTyped
    <3>4. QED
      BY <3>2, <3>3
  <2>4. /\ dbInbox' \in [Databases -> Seq(DatabaseInstance)]
        /\ dbMode' \in [Databases -> {"Stopped", "Initializing", "Ready"}]
        /\ \A e \in Databases : dbMode'[e] = "Initializing" => dbInbox'[e] # <<>>
        /\ children' \in SUBSET Databases
    <3>1. CASE UNCHANGED <<dbInbox, dbMode, children>>
      BY <3>1
    <3>2. CASE dbInbox' = [dbInbox EXCEPT ![d] = Append(@, db)] /\ UNCHANGED <<dbMode, children>>
      BY <2>1, <2>3, <3>2
    <3>3. CASE /\ dbInbox' = [dbInbox EXCEPT ![d] = <<db>>]
               /\ dbMode' = [dbMode EXCEPT ![d] = "Initializing"]
               /\ children' = children \cup {d}
      BY <2>1, <2>3, <3>3
    <3>4. QED
      BY <2>2, <3>1, <3>2, <3>3
  <2>5. QED
    BY <1>1, <1>10, <2>4 DEF UpdateDatabaseState, MayHandle, MessageIs
<1>11. CASE HandleTermination
  BY <1>1, <1>11 DEF HandleTermination, MessageIs
<1>12. QED
  BY <1>2, <1>3, <1>4, <1>5, <1>6, <1>7, <1>8, <1>9, <1>10, <1>11 DEF ServerManager

LEMMA StopDatabaseManagerTyped ==
    ASSUME TypeInv, NEW d \in Databases, StopDatabaseManager(d)
    PROVE  /\ dbMode' \in [Databases -> {"Stopped", "Initializing", "Ready"}]
           /\ dbPc' \in [Databases -> {"idle", "exists", "create", "drop"}]
           /\ dbState' \in [Databases -> DatabaseInstance \cup {NoDatabase}]
           /\ dbInbox' \in [Databases -> Seq(DatabaseInstance)]
           /\ mgrInbox' \in Seq(ManagerMessage)
           /\ mgrInbox # <<>> => mgrInbox' # <<>> /\ Head(mgrInbox') = Head(mgrInbox)
<1>1. ManagerTerminated(d) \in ManagerMessage /\ <<>> \in Seq(DatabaseInstance)
  BY MessagesTyped
<1>2. mgrInbox \in Seq(ManagerMessage)
  BY DEF TypeInv, TypeOK
<1>3. /\ mgrInbox' \in Seq(ManagerMessage)
      /\ mgrInbox # <<>> => mgrInbox' # <<>> /\ Head(mgrInbox') = Head(mgrInbox)
  BY <1>1, <1>2, AppendKeepsHead DEF StopDatabaseManager
<1>4. QED
  BY <1>1, <1>3 DEF StopDatabaseManager, Await, TypeInv, TypeOK

LEMMA StopKeepsCopies ==
    ASSUME TypeInv, NEW d \in Databases, StopDatabaseManager(d), InboxGrows,
           UNCHANGED <<daPc, daServer, daDatabase, mode, session>>
    PROVE  CopiesExist'
<1>1. daPc = "update" => /\ daInbox' # <<>> /\ Head(daInbox') = Head(daInbox)
                         /\ Head(daInbox).kind \notin {"terminated", "orphaned"}
                         /\ AboutDatabase(Head(daInbox)) => daDatabase # NoDatabase
  BY DEF TypeInv, CopiesExist, InboxGrows
<1>2. mode' = "Initializing" => mgrInbox' # <<>> /\ Head(mgrInbox').kind = "server"
  BY StopDatabaseManagerTyped DEF TypeInv, CopiesExist
<1>3. \A e \in Databases : /\ dbMode'[e] = "Initializing" => dbInbox'[e] # <<>>
                           /\ dbPc'[e] # "idle" => dbState'[e] # NoDatabase
  BY DEF StopDatabaseManager, Await, TypeInv, TypeOK, CopiesExist
<1>4. QED
  BY <1>1, <1>2, <1>3 DEF TypeInv, CopiesExist

LEMMA TypeInvDatabaseManager ==
    ASSUME TypeInv, NEW d \in Databases, DatabaseManager(d)
    PROVE  TypeInv'
<1> USE ConstantsAssumption DEF TypeInv, TypeOK, CopiesExist, docVars, apiVars, daVars,
        mgrVars, dbVars, sqlVars
<1>1. dbInbox[d] # <<>> => /\ Head(dbInbox[d]) \in DatabaseInstance
                           /\ Tail(dbInbox[d]) \in Seq(DatabaseInstance)
  BY HeadAndTail
<1>2. dbPc[d] # "idle" => dbState[d] \in DatabaseInstance
                          /\ dbState[d].name \in Names /\ dbState[d].user \in Users
  BY DEF DatabaseInstance
<1>3. \A kind \in DatabaseKinds : Tell(kind, d) => InboxGrows
  BY TellGrows, MessagesTyped DEF Tell
<1>4. StopDatabaseManager(d) =>
        /\ dbMode' \in [Databases -> {"Stopped", "Initializing", "Ready"}]
        /\ dbPc' \in [Databases -> {"idle", "exists", "create", "drop"}]
        /\ dbState' \in [Databases -> DatabaseInstance \cup {NoDatabase}]
        /\ dbInbox' \in [Databases -> Seq(DatabaseInstance)]
        /\ mgrInbox' \in Seq(ManagerMessage)
  BY StopDatabaseManagerTyped
<1>5. TakeDatabase(d) =>
        /\ dbState' \in [Databases -> DatabaseInstance \cup {NoDatabase}]
        /\ dbInbox' \in [Databases -> Seq(DatabaseInstance)]
        /\ dbState'[d] # NoDatabase /\ dbMode[d] = "Ready"
        /\ \A e \in Databases \ {d} : dbInbox'[e] = dbInbox[e] /\ dbState'[e] = dbState[e]
  BY <1>1 DEF TakeDatabase
<1>6. CASE DbInitialize(d)
  <2>1. Append(Tail(dbInbox[d]), Head(dbInbox[d])) \in Seq(DatabaseInstance)
    BY <1>6, RotatedTyped DEF DbInitialize
  <2>2. QED
    BY <1>1, <1>6, <2>1 DEF DbInitialize
<1>7. CASE DbStart(d)
  <2>1. InboxGrows
    BY <1>3, <1>7 DEF DbStart, DatabaseKinds
  <2>2. QED
    BY <1>5, <1>7, <2>1 DEF DbStart, Await, InboxGrows
<1>8. CASE DbIgnore(d)
  BY <1>5, <1>8 DEF DbIgnore
<1>9. CASE DbFound(d)
  <2>1. InboxGrows
    BY <1>3, <1>9 DEF DbFound, DatabaseKinds
  <2>2. QED
    BY <1>9, <2>1 DEF DbFound, Await, InboxGrows
<1>10. CASE DbNotFound(d)
  <2>1. Tell("deprovisioned", d) /\ StopDatabaseManager(d)
    BY <1>10 DEF DbNotFound
  <2>2. InboxGrows
    BY <1>3, <2>1 DEF DatabaseKinds
  <2>3. TypeOK'
    BY <1>4, <1>10, <2>1, <2>2 DEF DbNotFound, InboxGrows
  <2>4. CopiesExist'
    BY <1>10, <2>1, <2>2, StopKeepsCopies DEF DbNotFound
  <2>5. QED
    BY <2>3, <2>4
<1>11. CASE DbCall(d)
  <2>1. dbPc' \in [Databases -> {"idle", "exists", "create", "drop"}]
    BY <1>11 DEF DbCall, Await
  <2>2. \A e \in Databases : dbPc'[e] # "idle" => dbState[e] # NoDatabase
    BY <1>11 DEF DbCall, Await
  <2>3. QED
    BY <1>11, <2>1, <2>2 DEF DbCall
<1>12. CASE DbCreated(d)
  <2>1. InboxGrows
    BY <1>3, <1>12 DEF DbCreated, DatabaseKinds
  <2>2. QED
    BY <1>2, <1>12, <2>1 DEF DbCreated, Await, InboxGrows
<1>13. CASE DbCreateFailed(d)
  <2>1. InboxGrows
    BY <1>3, <1>13 DEF DbCreateFailed, DatabaseKinds
  <2>2. /\ databases' \in SUBSET Names /\ logins' \in SUBSET Users
        /\ faults' \in 0..MaxFaults
    <3>1. {d} \in SUBSET Databases
      OBVIOUS
    <3>2. CASE UNCHANGED <<sqlVars, faults>>
      BY <3>2
    <3>3. CASE databases' = databases \cup {dbState[d].name} /\ UNCHANGED <<logins, faults>>
      BY <1>2, <1>13, <3>3 DEF DbCreateFailed
    <3>4. CASE Fault /\ CallsLost({d})
      <4>1. faults' \in 0..MaxFaults
        BY <3>4 DEF Fault
      <4>2. databases' \in SUBSET Names /\ logins' \in SUBSET Users
        <5> HIDE DEF TypeInv, TypeOK, CopiesExist
        <5>1. QED
          BY <3>1, <3>4, CallsLostTyped
      <4>3. QED
        BY <4>1, <4>2
    <3>5. QED
      BY <1>13, <3>2, <3>3, <3>4 DEF DbCreateFailed
  <2>3. UNCHANGED <<docVars, apiVars, daPc, daServer, daDatabase, registered, mgrVars, dbMode,
                    dbState, dbInbox, provisioned>>
    BY <1>13 DEF DbCreateFailed
  <2>4. /\ dbPc' \in [Databases -> {"idle", "exists", "create", "drop"}]
        /\ \A e \in Databases : dbPc'[e] # "idle" => dbPc[e] # "idle"
    BY <1>13 DEF DbCreateFailed, Await
  <2>5. TypeOK'
    <3>1. daInbox' \in Seq(Notification)
      BY <2>1 DEF InboxGrows
    <3>2. /\ server' \in Server \cup {NoServer}
          /\ database' \in [Databases -> DatabaseInstance \cup {NoDatabase}]
          /\ indexed' \in SUBSET Databases /\ session' \in [Clients -> Session]
          /\ created' \in SUBSET Databases /\ provisioned' \in SUBSET Databases
          /\ deleteAccepted' \in SUBSET (Databases \X Names) /\ destroyAccepted' \in BOOLEAN
          /\ shared' \in SUBSET Databases /\ requests' \in 0..MaxRequests
      BY <2>3
    <3>3. /\ daPc' \in {"idle", "scan", "load", "update", "stopped"}
          /\ daServer' \in Server \cup {NoServer}
          /\ daDatabase' \in DatabaseInstance \cup {NoDatabase} /\ registered' \in BOOLEAN
          /\ mode' \in {"Stopped", "Initializing", "Ready"} /\ busy' \in BOOLEAN
          /\ state' \in ServerState
          /\ mgrInbox' \in Seq(ManagerMessage) /\ children' \in SUBSET Databases
      BY <2>3
    <3>4. /\ dbMode' \in [Databases -> {"Stopped", "Initializing", "Ready"}]
          /\ dbState' \in [Databases -> DatabaseInstance \cup {NoDatabase}]
          /\ dbInbox' \in [Databases -> Seq(DatabaseInstance)]
      BY <2>3
    <3>5. QED
      <4> HIDE DEF docVars, apiVars, mgrVars, TypeInv
      <4>1. QED
        BY <2>2, <2>4, <3>1, <3>2, <3>3, <3>4 DEF TypeOK
  <2>6. CopiesExist'
    <3>1. /\ daPc' = daPc /\ daServer' = daServer /\ daDatabase' = daDatabase /\ mode' = mode
          /\ mgrInbox' = mgrInbox /\ dbMode' = dbMode /\ dbInbox' = dbInbox
          /\ dbState' = dbState /\ session' = session
      BY <2>3
    <3>2. daInbox # <<>> => daInbox' # <<>> /\ Head(daInbox') = Head(daInbox)
      BY <2>1 DEF InboxGrows
    <3>3. QED
      BY <2>4, <3>1, <3>2 DEF AboutDatabase
  <2>7. QED
    BY <2>5, <2>6
<1>14. CASE DbDropped(d)
  <2>1. InboxGrows
    BY <1>3, <1>14 DEF DbDropped, DatabaseKinds
  <2>2. StopDatabaseManager(d)
    BY <1>14 DEF DbDropped
  <2>3. databases' \in SUBSET Names
    BY <1>14 DEF DbDropped
  <2>4. TypeOK'
    BY <1>4, <1>14, <2>1, <2>2, <2>3 DEF DbDropped, InboxGrows
  <2>5. CopiesExist'
    BY <1>14, <2>1, <2>2, StopKeepsCopies DEF DbDropped
  <2>6. QED
    BY <2>4, <2>5
<1>15. CASE DbDropFailed(d)
  BY <1>15 DEF DbDropFailed, Await, Fault
<1>16. CASE DbUncaught(d)
  <2>1. databases' \in SUBSET Names /\ logins' \in SUBSET Users
    <3>1. {d} \in SUBSET Databases /\ CallsLost({d})
      BY <1>16 DEF DbUncaught
    <3>2. QED
      BY <3>1, CallsLostTyped
  <2>2. StopDatabaseManager(d) /\ faults' \in 0..MaxFaults
    BY <1>16 DEF DbUncaught, Fault
  <2>3. TypeOK'
    BY <1>4, <1>16, <2>1, <2>2 DEF DbUncaught
  <2>4. CopiesExist'
    <3>1. InboxGrows
      BY <1>16 DEF DbUncaught, InboxGrows
    <3>2. QED
      BY <1>16, <2>2, <3>1, StopKeepsCopies DEF DbUncaught
  <2>5. QED
    BY <2>3, <2>4
<1>17. QED
  BY <1>6, <1>7, <1>8, <1>9, <1>10, <1>11, <1>12, <1>13, <1>14, <1>15, <1>16
     DEF DatabaseManager

LEMMA OrphansTyped ==
    ASSUME NEW kept \in Seq(Notification), NEW renamed,
           renamed = [i \in DOMAIN kept |->
                         IF kept[i].kind = "terminated" THEN OfServer("orphaned") ELSE kept[i]]
    PROVE  renamed \in Seq(Notification)
<1>1. \A i \in DOMAIN kept : renamed[i] \in Notification
  BY MessagesTyped
<1>2. renamed \in [1..Len(kept) -> Notification]
  BY <1>1
<1>3. QED
  BY <1>2

Crash == EngineCrash \/ DataAccessRestart \/ DeathPact

LEMMA TypeInvCrash == TypeInv /\ Crash => TypeInv'
<1> SUFFICES ASSUME TypeInv, Crash PROVE TypeInv'
  OBVIOUS
<1>1. daInbox' \in Seq(Notification)
  <2>1. CASE EngineCrash \/ DeathPact
    <3>1. daInbox' = <<>>
      BY <2>1 DEF EngineCrash, DeathPact
    <3>2. QED
      BY <3>1
  <2>2. CASE DataAccessRestart
    <3> DEFINE kept == IF daPc = "update" THEN Tail(daInbox) ELSE daInbox
    <3>1. kept \in Seq(Notification)
      BY HeadAndTail DEF TypeInv, TypeOK, CopiesExist
    <3>2. daInbox' = [i \in DOMAIN kept |->
                         IF kept[i].kind = "terminated" THEN OfServer("orphaned") ELSE kept[i]]
      BY <2>2 DEF DataAccessRestart
    <3>3. QED
      BY <3>1, <3>2, OrphansTyped
  <2>3. QED
    BY <2>1, <2>2 DEF Crash
<1>2. faults' \in 0..MaxFaults
  BY ConstantsAssumption DEF Crash, EngineCrash, DataAccessRestart, DeathPact, Fault, TypeInv, TypeOK
<1>3. /\ StopManager /\ CallsLost(Databases) /\ registered' = FALSE
      /\ daPc' \in {"idle", "stopped"}
      /\ daServer' \in Server \cup {NoServer}
      /\ daDatabase' \in DatabaseInstance \cup {NoDatabase}
      /\ UNCHANGED <<docVars, apiVars>>
  BY DEF Crash, EngineCrash, DataAccessRestart, DeathPact, ForgetManager, TypeInv, TypeOK
<1>4. databases' \in SUBSET Names /\ logins' \in SUBSET Users
  BY <1>3, CallsLostTyped
<1>5. TypeOK'
  BY <1>1, <1>2, <1>3, <1>4, StopManagerTyped DEF TypeInv, TypeOK, docVars, apiVars
<1>6. CopiesExist'
  BY <1>3, StopManagerTyped DEF TypeInv, CopiesExist, apiVars
<1>7. QED
  BY <1>5, <1>6 DEF TypeInv

(* An update of the index, or nothing at all. *)
LEMMA DocumentsUntouched ==
    ASSUME IndexUpdates \/ UNCHANGED vars
    PROVE  UNCHANGED <<server, database, apiVars, daVars, mgrVars, dbVars, sqlVars, faults>>
BY DEF IndexUpdates, vars, docVars

LEMMA TypeInvStep == TypeInv /\ [Next]_vars => TypeInv'
<1>1. ASSUME TypeInv, IndexUpdates \/ UNCHANGED vars PROVE TypeInv'
  <2>1. UNCHANGED <<server, database, apiVars, daVars, mgrVars, dbVars, sqlVars, faults>>
    BY <1>1, DocumentsUntouched
  <2>2. indexed' \in SUBSET Databases
    BY <1>1 DEF IndexUpdates, Hosted, vars, docVars, TypeInv, TypeOK
  <2>3. QED
    BY <1>1, <2>1, <2>2 DEF TypeInv, TypeOK, CopiesExist, apiVars, daVars, mgrVars, dbVars, sqlVars
<1>2. QED
  BY <1>1, TypeInvAPI, TypeInvScan, TypeInvUpdate, TypeInvServerManager, TypeInvDatabaseManager,
     TypeInvCrash
     DEF Next, Crash

(* Every variable keeps its type, every copy that a process works from     *)
(* exists, and every actor that starts has the message that initialises it. *)
THEOREM TypeInvariant == Spec => []TypeInv
BY TypeInvInit, TypeInvStep, PTL DEF Spec

(* The type of every variable, whatever the documents, actors and faults.  *)
THEOREM TypeCorrect == Spec => []TypeOK
<1>1. TypeInv => TypeOK
  BY DEF TypeInv
<1>2. QED
  BY <1>1, TypeInvariant, PTL

-----------------------------------------------------------------------------
(***************************************************************************)
(* A copy of a document may be stale when it is acted on, and may outlive  *)
(* the document, but it only ever says "Deprovision" if a request that was *)
(* accepted said so: every copy that a process holds or has been sent is   *)
(* one that some request or some update wrote, and an update never writes  *)
(* an action other than the one it has read, or None.                      *)
(***************************************************************************)
Asked(d, db) == db.action = "Deprovision" => <<d, db.name>> \in deleteAccepted
ServerAsked(s) == s.action = "Deprovision" => destroyAccepted

AskedDatabases(d) == {db \in DatabaseInstance : Asked(d, db)}
AskedMessages ==
    {m \in ManagerMessage : /\ m.kind = "server" => ServerAsked(m.server)
                            /\ m.kind = "database" => Asked(m.id, m.database)}

ServersAsked ==
    /\ server # NoServer => ServerAsked(server)
    /\ daServer # NoServer => ServerAsked(daServer)
    /\ ServerAsked(state)

DocumentsAsked ==
    /\ \A d \in Databases : database[d] # NoDatabase => Asked(d, database[d])
    /\ daPc = "update" /\ AboutDatabase(Head(daInbox)) => Asked(Head(daInbox).id, daDatabase)

ManagersAsked ==
    \A d \in Databases :
       /\ dbState[d] # NoDatabase => Asked(d, dbState[d])
       /\ dbInbox[d] \in Seq(AskedDatabases(d))
       /\ dbPc[d] # "idle" => dbMode[d] = "Ready"
       /\ dbPc[d] = "drop" => dbState[d].action = "Deprovision"

AskedInv ==
    /\ ServersAsked /\ DocumentsAsked /\ ManagersAsked
    /\ mgrInbox \in Seq(AskedMessages)

LEMMA SeqMonotone ==
    ASSUME NEW S, NEW T, S \subseteq T, NEW s \in Seq(S)
    PROVE  s \in Seq(T)
OBVIOUS

(* Accepting a request only adds to what has been asked for.               *)
LEMMA AskedGrows ==
    ASSUME deleteAccepted \subseteq deleteAccepted', destroyAccepted => destroyAccepted'
    PROVE  /\ \A d, db : Asked(d, db) => Asked(d, db)'
           /\ \A s : ServerAsked(s) => ServerAsked(s)'
           /\ \A d : AskedDatabases(d) \subseteq AskedDatabases(d)'
           /\ AskedMessages \subseteq AskedMessages'
BY DEF Asked, ServerAsked, AskedDatabases, AskedMessages

LEMMA AskedUnchanged ==
    ASSUME UNCHANGED <<deleteAccepted, destroyAccepted>>
    PROVE  /\ \A d, db : Asked(d, db)' = Asked(d, db)
           /\ \A s : ServerAsked(s)' = ServerAsked(s)
           /\ \A d : AskedDatabases(d)' = AskedDatabases(d)
           /\ AskedMessages' = AskedMessages
BY DEF Asked, ServerAsked, AskedDatabases, AskedMessages

LEMMA AskedInvInit == Init => AskedInv
<1> SUFFICES ASSUME Init PROVE AskedInv
  OBVIOUS
<1>1. ServersAsked /\ DocumentsAsked
  BY DEF Init, ServersAsked, DocumentsAsked, ServerAsked, NoState
<1>2. ManagersAsked /\ mgrInbox \in Seq(AskedMessages)
  <2>1. \A S : <<>> \in Seq(S)
    OBVIOUS
  <2>2. QED
    BY <2>1 DEF Init, ManagersAsked
<1>3. QED
  BY <1>1, <1>2 DEF AskedInv

LEMMA AskedInvAPI == TypeInv /\ AskedInv /\ API => AskedInv'
<1> SUFFICES ASSUME TypeInv, AskedInv, API PROVE AskedInv'
  OBVIOUS
<1>1. UNCHANGED <<daVars, mgrVars, dbVars>>
  BY DEF API, LoadForCreate, LoadForDatabase, LoadForServer, SaveRequest
<1>2. deleteAccepted \subseteq deleteAccepted' /\ (destroyAccepted => destroyAccepted')
  <2>1. ASSUME NEW c \in Clients, SaveRequest(c)
        PROVE  deleteAccepted \subseteq deleteAccepted' /\ (destroyAccepted => destroyAccepted')
    <3>1. deleteAccepted \subseteq deleteAccepted'
      BY <2>1 DEF SaveRequest
    <3>2. destroyAccepted => destroyAccepted'
      BY <2>1 DEF SaveRequest
    <3>3. QED
      BY <3>1, <3>2
  <2>2. (\E c \in Clients : SaveRequest(c)) \/ UNCHANGED <<deleteAccepted, destroyAccepted>>
    BY DEF API, LoadForCreate, LoadForDatabase, LoadForServer
  <2>3. QED
    BY <2>1, <2>2
<1>3. /\ \A d, db : Asked(d, db) => Asked(d, db)'
      /\ \A s : ServerAsked(s) => ServerAsked(s)'
      /\ \A d : AskedDatabases(d) \subseteq AskedDatabases(d)'
      /\ AskedMessages \subseteq AskedMessages'
  BY <1>2, AskedGrows
<1>4. /\ server' # NoServer => ServerAsked(server)'
      /\ \A d \in Databases : database'[d] # NoDatabase => Asked(d, database[d])'
  <2>1. CASE UNCHANGED docVars
    BY <1>3, <2>1 DEF AskedInv, ServersAsked, DocumentsAsked, docVars, ServerAsked, Asked
  <2>2. ASSUME NEW c \in Clients, SaveRequest(c)
        PROVE  <1>4!:
    <3> DEFINE s == session[c]
    <3>1. server' # NoServer => ServerAsked(server)'
      BY <1>3, <2>2 DEF SaveRequest, AskedInv, ServersAsked, ServerAsked
    <3>2. ASSUME NEW d \in Databases, database'[d] # NoDatabase
          PROVE  Asked(d, database[d])'
      <4>1. CASE s.database # NoDatabase /\ d = s.id
        <5>1. database'[d] = s.database
          BY <2>2, <4>1 DEF SaveRequest, TypeInv, TypeOK
        <5>2. QED
          BY <2>2, <4>1, <5>1 DEF SaveRequest, Asked
      <4>2. CASE ~(s.database # NoDatabase /\ d = s.id)
        <5>1. database'[d] = database[d]
          BY <2>2, <4>2 DEF SaveRequest, TypeInv, TypeOK
        <5>2. QED
          BY <1>2, <3>2, <5>1 DEF AskedInv, DocumentsAsked, Asked
      <4>3. QED
        BY <4>1, <4>2
    <3>3. QED
      BY <3>1, <3>2
  <2>3. QED
    BY <2>1, <2>2 DEF API, LoadForCreate, LoadForDatabase, LoadForServer
<1>5. ServersAsked' /\ DocumentsAsked'
  BY <1>1, <1>2, <1>4 DEF AskedInv, ServersAsked, DocumentsAsked, ServerAsked, Asked, daVars, mgrVars
<1>6. ManagersAsked'
  <2>1. \A d \in Databases : dbInbox[d] \in Seq(AskedDatabases(d)')
    BY <1>3, SeqMonotone DEF AskedInv, ManagersAsked
  <2>2. QED
    BY <1>1, <1>2, <2>1 DEF AskedInv, ManagersAsked, Asked, dbVars
<1>7. mgrInbox' \in Seq(AskedMessages')
  BY <1>1, <1>3, SeqMonotone DEF AskedInv, mgrVars
<1>8. QED
  BY <1>5, <1>6, <1>7 DEF AskedInv

(* What a process sends on is as asked as what it has. *)
LEMMA AskedSent ==
    ASSUME TypeInv, AskedInv
    PROVE  /\ daServer # NoServer => ServerMessage(daServer) \in AskedMessages
           /\ \A d \in Databases :
                 /\ ManagerTerminated(d) \in AskedMessages
                 /\ database[d] # NoDatabase => DatabaseMessage(d, database[d]) \in AskedMessages
           /\ mgrInbox # <<>> => /\ Head(mgrInbox) \in AskedMessages
                                 /\ Tail(mgrInbox) \in Seq(AskedMessages)
           /\ \A d \in Databases : dbInbox[d] # <<>> =>
                 Head(dbInbox[d]) \in AskedDatabases(d) /\ Tail(dbInbox[d]) \in Seq(AskedDatabases(d))
<1>1. daServer # NoServer => ServerMessage(daServer) \in AskedMessages
  <2> SUFFICES ASSUME daServer # NoServer PROVE ServerMessage(daServer) \in AskedMessages
    OBVIOUS
  <2>1. ServerMessage(daServer) \in ManagerMessage
    BY MessagesTyped DEF TypeInv, TypeOK
  <2>2. QED
    BY <2>1 DEF AskedInv, ServersAsked, ServerAsked, ServerMessage, AskedMessages
<1>2. ASSUME NEW d \in Databases
      PROVE  /\ ManagerTerminated(d) \in AskedMessages
             /\ database[d] # NoDatabase => DatabaseMessage(d, database[d]) \in AskedMessages
  <2>1. database[d] # NoDatabase => database[d] \in DatabaseInstance
    BY DEF TypeInv, TypeOK
  <2>2. /\ ManagerTerminated(d) \in ManagerMessage
        /\ database[d] # NoDatabase => DatabaseMessage(d, database[d]) \in ManagerMessage
    BY <2>1, MessagesTyped
  <2>3. QED
    BY <2>2 DEF AskedInv, DocumentsAsked, DatabaseMessage, ManagerTerminated, AskedMessages
<1>3. QED
  BY <1>1, <1>2, HeadAndTail DEF AskedInv, ManagersAsked

LEMMA AskedInvScan == TypeInv /\ AskedInv /\ (ScanQuery \/ Scan) => AskedInv'
<1> SUFFICES ASSUME TypeInv, AskedInv, ScanQuery \/ Scan PROVE AskedInv'
  OBVIOUS
<1>1. /\ UNCHANGED <<docVars, apiVars, dbVars, state>>
      /\ daServer' \in {server, daServer, NoServer} /\ daPc' # "update"
  BY DEF ScanQuery, Scan, ScanServer, ScanDatabases, mgrVars, Server
<1>2. /\ \A d, db : Asked(d, db)' = Asked(d, db)
      /\ \A s : ServerAsked(s)' = ServerAsked(s)
      /\ \A d : AskedDatabases(d)' = AskedDatabases(d)
      /\ AskedMessages' = AskedMessages
  BY <1>1, AskedUnchanged DEF apiVars
<1>3. ServersAsked' /\ DocumentsAsked'
  BY <1>1, <1>2 DEF AskedInv, ServersAsked, DocumentsAsked, docVars, apiVars, ServerAsked, Asked
<1>4. ManagersAsked'
  BY <1>1, <1>2 DEF AskedInv, ManagersAsked, dbVars, apiVars, Asked
<1>5. mgrInbox' \in Seq(AskedMessages)
  <2>1. CASE ScanQuery
    BY <2>1 DEF ScanQuery, mgrVars, AskedInv
  <2>2. CASE ScanServer
    <3> DEFINE m == ServerMessage(daServer)
    <3>1. m \in AskedMessages
      BY <2>2, AskedSent DEF ScanServer, TypeInv, CopiesExist
    <3>2. mgrInbox' \in {mgrInbox, Append(mgrInbox, m), <<m>>}
      BY <2>2 DEF ScanServer
    <3> HIDE DEF m
    <3>3. mgrInbox \in Seq(AskedMessages)
      BY DEF AskedInv
    <3>4. Append(mgrInbox, m) \in Seq(AskedMessages) /\ <<m>> \in Seq(AskedMessages)
      BY <3>1, <3>3, AppendKeepsHead, SingletonTyped
    <3>5. QED
      BY <3>2, <3>3, <3>4
  <2>3. CASE ScanDatabases
    <3> DEFINE listed == {d \in daServer.ids : database[d] # NoDatabase}
    <3>1. listed \in SUBSET Databases
      BY <2>3 DEF ScanDatabases, Server, TypeInv, TypeOK, CopiesExist
    <3>2. PICK order \in SetToSeqs(listed) :
            mgrInbox' = IF mode = "Stopped" THEN mgrInbox
                        ELSE mgrInbox \o [i \in DOMAIN order |->
                                            DatabaseMessage(order[i], database[order[i]])]
      BY <2>3 DEF ScanDatabases
    <3> DEFINE told == [i \in DOMAIN order |-> DatabaseMessage(order[i], database[order[i]])]
    <3>3. order \in Seq(listed)
      BY <3>1, <3>2, OrdersAreSequences
    <3>4. told \in Seq(AskedMessages)
      <4>1. \A i \in DOMAIN order : order[i] \in Databases /\ database[order[i]] # NoDatabase
        BY <3>1, <3>3
      <4>2. \A i \in DOMAIN order : told[i] \in AskedMessages
        BY <4>1, AskedSent
      <4>3. Len(order) \in Nat /\ DOMAIN order = 1..Len(order)
        BY <3>3
      <4>4. told \in [1..Len(order) -> AskedMessages]
        BY <4>2, <4>3
      <4>5. QED
        BY <4>3, <4>4
    <3>5. QED
      BY <3>2, <3>4 DEF AskedInv
  <2>4. QED
    BY <2>1, <2>2, <2>3 DEF Scan
<1>6. QED
  BY <1>2, <1>3, <1>4, <1>5 DEF AskedInv

(* An update keeps the action it has read, or ends it. *)
LEMMA UpdatesAsked ==
    /\ \A d \in Databases, db \in DatabaseInstance, kind \in DatabaseKinds :
          LET edited == DatabaseUpdated(db, kind)
          IN Asked(d, db) /\ edited # NoDatabase => Asked(d, edited)
    /\ \A s \in Server, kind \in {"serverBusy", "serverReady", "serverError", "serverGone"} :
          LET edited == ServerUpdated(s, kind)
          IN ServerAsked(s) /\ edited # NoServer => ServerAsked(edited)
BY DEF Asked, ServerAsked, DatabaseUpdated, ServerUpdated, StatusOf, DatabaseInstance, Server,
       DatabaseKinds

LEMMA AskedInvUpdate == TypeInv /\ AskedInv /\ Update => AskedInv'
<1> SUFFICES ASSUME TypeInv, AskedInv, Update PROVE AskedInv'
  OBVIOUS
<1> DEFINE m == Head(daInbox)
<1>1. UNCHANGED <<apiVars, mgrVars, dbVars>>
  BY DEF Update, LoadForUpdate, SaveDatabaseUpdate, SaveServerUpdate, ServerManagerTerminated
<1>2. /\ \A d, db : Asked(d, db)' = Asked(d, db)
      /\ \A s : ServerAsked(s)' = ServerAsked(s)
      /\ \A d : AskedDatabases(d)' = AskedDatabases(d)
      /\ AskedMessages' = AskedMessages
  BY <1>1, AskedUnchanged DEF apiVars
<1>3. daInbox # <<>> => m \in Notification
  BY HeadAndTail DEF TypeInv, TypeOK
<1>4. ServerAsked(state)' /\ ManagersAsked' /\ mgrInbox' \in Seq(AskedMessages')
  BY <1>1, <1>2 DEF AskedInv, ServersAsked, ManagersAsked, apiVars, mgrVars, dbVars, Asked,
                    ServerAsked
<1>5. ServersAsked' /\ DocumentsAsked'
  <2>1. CASE LoadForUpdate
    <3>1. UNCHANGED docVars /\ daServer' \in {server, daServer}
      BY <2>1 DEF LoadForUpdate
    <3>2. daPc' = "update" => /\ daInbox' = daInbox
                              /\ AboutDatabase(m) => /\ m.id \in Databases
                                                     /\ daDatabase' = database[m.id]
                                                     /\ database[m.id] # NoDatabase
      BY <1>3, <2>1, NotificationFields DEF LoadForUpdate
    <3>3. ServersAsked'
      BY <1>1, <1>4, <3>1 DEF AskedInv, ServersAsked, docVars, apiVars, ServerAsked
    <3>4. DocumentsAsked'
      BY <1>1, <3>1, <3>2 DEF AskedInv, DocumentsAsked, docVars, apiVars, Asked
    <3>5. QED
      BY <3>3, <3>4
  <2>2. CASE SaveDatabaseUpdate
    <3> DEFINE edited == DatabaseUpdated(daDatabase, m.kind)
    <3>1. /\ m.id \in Databases /\ m.kind \in DatabaseKinds /\ daDatabase \in DatabaseInstance
          /\ Asked(m.id, daDatabase)
      BY <1>3, <2>2, NotificationFields
         DEF SaveDatabaseUpdate, TypeInv, TypeOK, CopiesExist, AskedInv, DocumentsAsked
    <3>2. edited # NoDatabase => Asked(m.id, edited)
      BY <3>1, UpdatesAsked
    <3>3. database' = [database EXCEPT ![m.id] = Saved(daDatabase, edited, @)]
      BY <2>2 DEF SaveDatabaseUpdate
    <3>4. ASSUME NEW d \in Databases, database'[d] # NoDatabase
          PROVE  Asked(d, database'[d])
      <4> HIDE DEF edited
      <4>1. CASE d = m.id /\ database'[d] = edited
        BY <3>2, <3>4, <4>1
      <4>2. CASE database'[d] = database[d]
        BY <3>4, <4>2 DEF AskedInv, DocumentsAsked
      <4>3. database'[d] = database[d] \/ (d = m.id /\ database'[d] = edited)
        BY <3>1, <3>3 DEF Saved, TypeInv, TypeOK
      <4>4. QED
        BY <4>1, <4>2, <4>3
    <3>5. DocumentsAsked'
      BY <1>1, <2>2, <3>4 DEF DocumentsAsked, SaveDatabaseUpdate, apiVars, Asked
    <3>6. server' # NoServer => server' = server \/ server'.action = daServer.action
      BY <2>2 DEF SaveDatabaseUpdate, Saved, TypeInv, TypeOK, CopiesExist, Server
    <3>7. daServer # NoServer /\ daServer' = NoServer
      BY <2>2 DEF SaveDatabaseUpdate, TypeInv, CopiesExist
    <3>8. ServersAsked'
      BY <1>1, <1>4, <3>6, <3>7 DEF AskedInv, ServersAsked, ServerAsked, apiVars
    <3>9. QED
      BY <3>5, <3>8
  <2>3. CASE SaveServerUpdate
    <3> DEFINE edited == ServerUpdated(daServer, m.kind)
    <3>1. m.kind \in {"serverBusy", "serverReady", "serverError", "serverGone"}
      BY <1>3, <2>3 DEF SaveServerUpdate, Notification, AboutDatabase, TypeInv, CopiesExist
    <3>2. daServer \in Server /\ ServerAsked(daServer)
      BY <2>3 DEF SaveServerUpdate, TypeInv, TypeOK, CopiesExist, AskedInv, ServersAsked
    <3>3. edited # NoServer => ServerAsked(edited)
      BY <3>1, <3>2, UpdatesAsked
    <3>4. server' \in {server, edited} /\ daServer' = NoServer
      BY <2>3 DEF SaveServerUpdate, Saved
    <3>5. ServersAsked'
      <4> HIDE DEF edited
      <4>1. QED
        BY <1>1, <1>4, <3>3, <3>4 DEF AskedInv, ServersAsked, ServerAsked, apiVars
    <3>6. DocumentsAsked'
      BY <1>1, <2>3 DEF AskedInv, DocumentsAsked, SaveServerUpdate, apiVars, Asked
    <3>7. QED
      BY <3>5, <3>6
  <2>4. CASE ServerManagerTerminated
    BY <1>1, <1>4, <2>4 DEF AskedInv, ServersAsked, DocumentsAsked, ServerManagerTerminated,
                            docVars, apiVars, ServerAsked, Asked
  <2>5. QED
    BY <2>1, <2>2, <2>3, <2>4 DEF Update
<1>6. QED
  BY <1>4, <1>5 DEF AskedInv

(* The actors leave the documents and DataAccess to themselves: they only  *)
(* add to its mailbox.                                                     *)
LEMMA ActorsLeaveDocuments ==
    ASSUME TypeInv, AskedInv, InboxGrows,
           UNCHANGED <<docVars, apiVars, daPc, daServer, daDatabase>>
    PROVE  /\ server' # NoServer => ServerAsked(server)'
           /\ daServer' # NoServer => ServerAsked(daServer)'
           /\ DocumentsAsked'
<1>1. daPc' = "update" => Head(daInbox') = Head(daInbox)
  BY DEF TypeInv, CopiesExist, InboxGrows
<1>2. QED
  BY <1>1 DEF AskedInv, ServersAsked, DocumentsAsked, ServerAsked, Asked, docVars, apiVars

LEMMA StoppedManagersAsked ==
    ASSUME StopManager
    PROVE  ManagersAsked' /\ ServerAsked(state)' /\ mgrInbox' \in Seq(AskedMessages')
<1>1. \A S : <<>> \in Seq(S)
  OBVIOUS
<1>2. QED
  BY <1>1 DEF StopManager, StopDatabaseManagers, ManagersAsked, NoState, ServerAsked

LEMMA ServerManagerGrowsInbox == TypeInv /\ ServerManager => InboxGrows
<1> SUFFICES ASSUME TypeInv, ServerManager PROVE InboxGrows
  OBVIOUS
<1>1. CASE StartServerAction
  BY <1>1, TellGrows, MessagesTyped DEF StartServerAction
<1>2. CASE ReconfigureEnds
  BY <1>2, TellGrows, MessagesTyped DEF ReconfigureEnds
<1>3. CASE DeprovisionEnds
  <2>1. <<OfServer("serverGone"), OfServer("terminated")>> \in Seq(Notification)
    BY MessagesTyped
  <2>2. daInbox \in Seq(Notification)
    BY DEF TypeInv, TypeOK
  <2>3. QED
    BY <1>3, <2>1, <2>2 DEF DeprovisionEnds, InboxGrows
<1>4. CASE DeprovisionFails
  BY <1>4, TellGrows, MessagesTyped DEF DeprovisionFails
<1>5. CASE UncaughtFailure
  BY <1>5, TellGrows, MessagesTyped DEF UncaughtFailure
<1>6. ASSUME UNCHANGED daVars PROVE InboxGrows
  BY <1>6 DEF daVars, TypeInv, TypeOK, InboxGrows
<1>7. QED
  BY <1>1, <1>2, <1>3, <1>4, <1>5, <1>6
     DEF ServerManager, HandleInitialize, HandleServer, IgnoreWhileWaiting, IgnoreDatabase,
         UpdateDatabaseState, HandleTermination

LEMMA AskedInvServerManager == TypeInv /\ AskedInv /\ ServerManager => AskedInv'
<1> SUFFICES ASSUME TypeInv, AskedInv, ServerManager PROVE AskedInv'
  OBVIOUS
<1> DEFINE m == Head(mgrInbox)
<1>1. UNCHANGED <<docVars, apiVars, daPc, daServer, daDatabase>>
  BY DEF ServerManager, HandleInitialize, HandleServer, StartServerAction, ReconfigureEnds,
         DeprovisionEnds, DeprovisionFails, UncaughtFailure, IgnoreWhileWaiting, IgnoreDatabase,
         UpdateDatabaseState, HandleTermination, daVars
<1>2. /\ \A d, db : Asked(d, db)' = Asked(d, db)
      /\ \A s : ServerAsked(s)' = ServerAsked(s)
      /\ \A d : AskedDatabases(d)' = AskedDatabases(d)
      /\ AskedMessages' = AskedMessages
  BY <1>1, AskedUnchanged DEF apiVars
<1>3. /\ server' # NoServer => ServerAsked(server)'
      /\ daServer' # NoServer => ServerAsked(daServer)'
      /\ DocumentsAsked'
  BY <1>1, ServerManagerGrowsInbox, ActorsLeaveDocuments
<1>4. mgrInbox # <<>> => m \in AskedMessages /\ Tail(mgrInbox) \in Seq(AskedMessages)
  BY AskedSent
<1>5. mgrInbox # <<>> /\ m.kind = "server" => ServerAsked(m.server)
  BY <1>4 DEF AskedMessages
<1> SUFFICES ManagersAsked' /\ ServerAsked(state)' /\ mgrInbox' \in Seq(AskedMessages')
  BY <1>3 DEF AskedInv, ServersAsked
<1>6. CASE DeprovisionEnds \/ UncaughtFailure
  BY <1>6, StoppedManagersAsked DEF DeprovisionEnds, UncaughtFailure
<1>7. ASSUME UNCHANGED dbVars PROVE ManagersAsked'
  BY <1>1, <1>2, <1>7 DEF AskedInv, ManagersAsked, dbVars, apiVars, Asked
<1>8. CASE HandleInitialize
  <2>1. mgrInbox # <<>> /\ m.kind = "server"
    BY <1>8 DEF HandleInitialize, TypeInv, CopiesExist
  <2>2. mgrInbox' \in Seq(AskedMessages)
    BY <1>8, <2>1, RotatedTyped DEF HandleInitialize, AskedInv
  <2>3. ServerAsked(state)'
    BY <1>1, <1>5, <1>8, <2>1 DEF HandleInitialize, ServerAsked, apiVars
  <2>4. QED
    BY <1>2, <1>7, <1>8, <2>2, <2>3 DEF HandleInitialize
<1>9. CASE HandleServer \/ StartServerAction
  <2>1. mgrInbox # <<>> /\ m.kind = "server" /\ state' = m.server /\ mgrInbox' = Tail(mgrInbox)
    BY <1>9 DEF HandleServer, StartServerAction, MayHandle, MessageIs
  <2>2. ServerAsked(state)'
    BY <1>1, <1>5, <2>1 DEF ServerAsked, apiVars
  <2>3. QED
    BY <1>2, <1>4, <1>7, <1>9, <2>1, <2>2 DEF HandleServer, StartServerAction
<1>10. CASE ReconfigureEnds \/ DeprovisionFails
  <2>1. /\ UNCHANGED <<mgrInbox, dbVars>>
        /\ state'.action = state.action
    BY <1>10 DEF ReconfigureEnds, DeprovisionFails, TypeInv, TypeOK, ServerState
  <2>2. ServerAsked(state)'
    BY <1>1, <2>1 DEF AskedInv, ServersAsked, ServerAsked, apiVars
  <2>3. QED
    BY <1>2, <1>7, <2>1, <2>2 DEF AskedInv
<1>11. ASSUME UNCHANGED state PROVE ServerAsked(state)'
  BY <1>1, <1>11 DEF AskedInv, ServersAsked, ServerAsked, apiVars
<1>12. CASE IgnoreWhileWaiting \/ IgnoreDatabase \/ HandleTermination
  BY <1>2, <1>4, <1>7, <1>11, <1>12
     DEF IgnoreWhileWaiting, IgnoreDatabase, HandleTermination, MayHandle, MessageIs
<1>13. CASE UpdateDatabaseState
  <2> DEFINE d == m.id
             db == m.database
  <2>1. mgrInbox # <<>> /\ m.kind = "database" /\ UNCHANGED <<state, dbPc, dbState>>
        /\ mgrInbox' = Tail(mgrInbox)
    BY <1>13 DEF UpdateDatabaseState, MayHandle, MessageIs
  <2>2. d \in Databases /\ db \in AskedDatabases(d)
    BY <1>4, <2>1, MessageFields DEF AskedMessages, AskedDatabases
  <2>3. \/ UNCHANGED <<dbInbox, dbMode>>
        \/ dbInbox' = [dbInbox EXCEPT ![d] = Append(@, db)] /\ UNCHANGED dbMode
        \/ /\ dbInbox' = [dbInbox EXCEPT ![d] = <<db>>]
           /\ dbMode' = [dbMode EXCEPT ![d] = "Initializing"]
           /\ dbMode[d] = "Stopped"
    BY <1>13 DEF UpdateDatabaseState
  <2> HIDE DEF d, db
  <2>4. Append(dbInbox[d], db) \in Seq(AskedDatabases(d)) /\ <<db>> \in Seq(AskedDatabases(d))
    BY <2>2, AppendKeepsHead, SingletonTyped DEF AskedInv, ManagersAsked
  <2>5. \A e \in Databases : dbInbox'[e] \in Seq(AskedDatabases(e))
    BY <2>2, <2>3, <2>4 DEF AskedInv, ManagersAsked, TypeInv, TypeOK
  <2>6. \A e \in Databases : dbPc'[e] # "idle" => dbMode'[e] = "Ready"
    BY <2>1, <2>2, <2>3 DEF AskedInv, ManagersAsked, TypeInv, TypeOK
  <2>7. ManagersAsked'
    BY <1>1, <1>2, <2>1, <2>5, <2>6 DEF AskedInv, ManagersAsked, Asked, apiVars
  <2>8. QED
    BY <1>2, <1>4, <1>11, <2>1, <2>7
<1>14. QED
  BY <1>6, <1>8, <1>9, <1>10, <1>12, <1>13 DEF ServerManager

LEMMA DatabaseManagerGrowsInbox ==
    ASSUME TypeInv, NEW d \in Databases, DatabaseManager(d)
    PROVE  InboxGrows
<1>1. \A kind \in DatabaseKinds : Tell(kind, d) => InboxGrows
  BY TellGrows, MessagesTyped DEF Tell
<1>2. UNCHANGED daVars => InboxGrows
  BY DEF daVars, TypeInv, TypeOK, InboxGrows
<1>3. UNCHANGED daVars \/ \E kind \in DatabaseKinds : Tell(kind, d)
  BY DEF DatabaseManager, DbInitialize, DbStart, DbIgnore, DbFound, DbNotFound, DbCall,
         DbCreated, DbCreateFailed, DbDropped, DbDropFailed, DbUncaught, DatabaseKinds
<1>4. QED
  BY <1>1, <1>2, <1>3

LEMMA AskedInvDatabaseManager ==
    ASSUME TypeInv, AskedInv, NEW d \in Databases, DatabaseManager(d)
    PROVE  AskedInv'
<1>1. UNCHANGED <<docVars, apiVars, daPc, daServer, daDatabase, state>>
  BY DEF DatabaseManager, DbInitialize, DbStart, DbIgnore, DbFound, DbNotFound, DbCall,
         DbCreated, DbCreateFailed, DbDropped, DbDropFailed, DbUncaught, daVars, mgrVars
<1>2. /\ \A e, db : Asked(e, db)' = Asked(e, db)
      /\ \A s : ServerAsked(s)' = ServerAsked(s)
      /\ \A e : AskedDatabases(e)' = AskedDatabases(e)
      /\ AskedMessages' = AskedMessages
  BY <1>1, AskedUnchanged DEF apiVars
<1>3. ServersAsked' /\ DocumentsAsked'
  <2>1. ServerAsked(state)'
    BY <1>1 DEF AskedInv, ServersAsked, ServerAsked, apiVars
  <2>2. QED
    BY <1>1, <2>1, DatabaseManagerGrowsInbox, ActorsLeaveDocuments DEF ServersAsked
<1>4. mgrInbox' \in Seq(AskedMessages)
  <2>1. mgrInbox' \in {mgrInbox, Append(mgrInbox, ManagerTerminated(d))}
    BY DEF DatabaseManager, DbInitialize, DbStart, DbIgnore, DbFound, DbNotFound, DbCall,
           DbCreated, DbCreateFailed, DbDropped, DbDropFailed, DbUncaught, StopDatabaseManager,
           mgrVars
  <2>2. QED
    BY <2>1, AskedSent, AppendKeepsHead DEF AskedInv
<1>5. dbInbox[d] # <<>> => /\ Head(dbInbox[d]) \in AskedDatabases(d)
                           /\ Tail(dbInbox[d]) \in Seq(AskedDatabases(d))
                           /\ Asked(d, Head(dbInbox[d]))
  BY AskedSent DEF AskedDatabases
<1>6. ManagersAsked'
  <2>1. CASE DbInitialize(d)
    <3>1. dbInbox[d] # <<>> /\ dbPc[d] = "idle"
      BY <2>1 DEF DbInitialize, TypeInv, TypeOK, CopiesExist, AskedInv, ManagersAsked
    <3>2. dbInbox'[d] \in Seq(AskedDatabases(d))
      BY <2>1, <3>1, RotatedTyped DEF DbInitialize, TypeInv, TypeOK, AskedInv, ManagersAsked
    <3>3. QED
      BY <1>1, <1>2, <1>5, <2>1, <3>1, <3>2
         DEF DbInitialize, TypeInv, TypeOK, AskedInv, ManagersAsked, Asked, apiVars
  <2>2. CASE DbStart(d) \/ DbIgnore(d)
    <3>1. TakeDatabase(d) /\ UNCHANGED dbMode
          /\ (UNCHANGED dbPc \/ dbPc' = [dbPc EXCEPT ![d] = "exists"])
      BY <2>2 DEF DbStart, DbIgnore, Await
    <3>2. QED
      BY <1>1, <1>2, <1>5, <3>1
         DEF TakeDatabase, TypeInv, TypeOK, AskedInv, ManagersAsked, Asked, apiVars
  <2>3. CASE DbFound(d) \/ DbCreated(d) \/ DbCreateFailed(d) \/ DbDropFailed(d)
    <3>1. UNCHANGED <<dbMode, dbState, dbInbox>> /\ dbPc' = [dbPc EXCEPT ![d] = "idle"]
      BY <2>3 DEF DbFound, DbCreated, DbCreateFailed, DbDropFailed, Await
    <3>2. QED
      BY <1>1, <1>2, <3>1 DEF TypeInv, TypeOK, AskedInv, ManagersAsked, Asked, apiVars
  <2>4. CASE DbCall(d)
    <3>1. /\ UNCHANGED <<dbMode, dbState, dbInbox>> /\ dbPc[d] = "exists"
          /\ \/ dbPc' = [dbPc EXCEPT ![d] = "create"]
             \/ dbPc' = [dbPc EXCEPT ![d] = "drop"] /\ dbState[d].action = "Deprovision"
      BY <2>4 DEF DbCall, Await
    <3>2. QED
      BY <1>1, <1>2, <3>1 DEF TypeInv, TypeOK, AskedInv, ManagersAsked, Asked, apiVars
  <2>5. CASE DbNotFound(d) \/ DbDropped(d) \/ DbUncaught(d)
    <3>1. StopDatabaseManager(d)
      BY <2>5 DEF DbNotFound, DbDropped, DbUncaught
    <3>2. \A S : <<>> \in Seq(S)
      OBVIOUS
    <3>3. QED
      BY <1>1, <1>2, <3>1, <3>2
         DEF StopDatabaseManager, Await, TypeInv, TypeOK, AskedInv, ManagersAsked, Asked, apiVars
  <2>6. QED
    BY <2>1, <2>2, <2>3, <2>4, <2>5 DEF DatabaseManager
<1>7. QED
  BY <1>2, <1>3, <1>4, <1>6 DEF AskedInv

LEMMA AskedInvCrash == TypeInv /\ AskedInv /\ Crash => AskedInv'
<1> SUFFICES ASSUME TypeInv, AskedInv, Crash PROVE AskedInv'
  OBVIOUS
<1>1. UNCHANGED <<docVars, apiVars>> /\ StopManager /\ daPc' # "update"
      /\ daServer' \in {daServer, NoServer}
  BY DEF Crash, EngineCrash, DataAccessRestart, DeathPact, ForgetManager
<1>2. ServersAsked' /\ DocumentsAsked'
  BY <1>1, StoppedManagersAsked DEF AskedInv, ServersAsked, DocumentsAsked, ServerAsked, Asked,
                                    docVars, apiVars
<1>3. QED
  BY <1>1, <1>2, StoppedManagersAsked DEF AskedInv

LEMMA AskedInvStep == TypeInv /\ AskedInv /\ [Next]_vars => AskedInv'
<1>1. ASSUME AskedInv, IndexUpdates \/ UNCHANGED vars PROVE AskedInv'
  <2>1. UNCHANGED <<server, database, apiVars, daVars, mgrVars, dbVars>>
    BY <1>1, DocumentsUntouched
  <2>2. AskedMessages' = AskedMessages /\ \A d : AskedDatabases(d)' = AskedDatabases(d)
    BY <2>1, AskedUnchanged DEF apiVars
  <2>3. QED
    BY <1>1, <2>1, <2>2
       DEF AskedInv, ServersAsked, DocumentsAsked, ManagersAsked, ServerAsked, Asked,
           apiVars, daVars, mgrVars, dbVars
<1>2. QED
  BY <1>1, AskedInvAPI, AskedInvScan, AskedInvUpdate, AskedInvServerManager,
     AskedInvDatabaseManager, AskedInvCrash
     DEF Next, Crash

(* No document, message or actor says "Deprovision" of a database, under a *)
(* name, or of the server, unless a request to delete it was accepted.     *)
THEOREM DeprovisionIsAsked == Spec => []AskedInv
BY TypeInvariant, AskedInvInit, AskedInvStep, PTL DEF Spec

Requested(n) == destroyAccepted \/ \E d \in Databases : <<d, n>> \in deleteAccepted

(* T-SQL that is still executed after its manager has stopped drops what   *)
(* the manager was asked to drop.                                          *)
LEMMA LostCallsRequested ==
    ASSUME TypeInv, AskedInv, NEW D \in SUBSET Databases, CallsLost(D)
    PROVE  \A n \in databases \ databases' : Requested(n)
<1>1. PICK made \in SUBSET {d \in D : dbPc[d] = "create" /\ dbState[d].name \notin databases},
           dropped \in SUBSET {d \in D : dbPc[d] = "drop"} :
        LET new  == {dbState[d].name : d \in made}
            gone == {dbState[d].name : d \in dropped}
        IN databases' \in {(databases \cup new) \ gone, (databases \ gone) \cup new}
  BY DEF CallsLost
<1> DEFINE new == {dbState[d].name : d \in made}
           gone == {dbState[d].name : d \in dropped}
<1>2. \A d \in dropped : d \in Databases /\ <<d, dbState[d].name>> \in deleteAccepted
  BY DEF TypeInv, CopiesExist, AskedInv, ManagersAsked, Asked
<1>3. \A n \in gone : Requested(n)
  BY <1>2 DEF Requested
<1>4. databases' \in {(databases \cup new) \ gone, (databases \ gone) \cup new}
  BY <1>1
<1>5. databases \ databases' \subseteq gone
  <2> HIDE DEF new, gone
  <2>1. QED
    BY <1>4
<1>6. QED
  BY <1>3, <1>5

LEMMA DropStep ==
    TypeInv /\ AskedInv /\ [Next]_vars => \A n \in databases \ databases' : Requested(n)
<1> SUFFICES ASSUME TypeInv, AskedInv, [Next]_vars
             PROVE  \A n \in databases \ databases' : Requested(n)
  OBVIOUS
<1>1. CASE databases \subseteq databases'
  BY <1>1
<1>2. ASSUME NEW D \in SUBSET Databases, CallsLost(D)
      PROVE  \A n \in databases \ databases' : Requested(n)
  BY <1>2, LostCallsRequested
<1>3. CASE API \/ IndexUpdates \/ ScanQuery \/ Scan \/ Update \/ UNCHANGED vars
  <2>1. UNCHANGED databases
    BY <1>3 DEF API, IndexUpdates, LoadForCreate, LoadForDatabase, LoadForServer, SaveRequest, ScanQuery, Scan,
                ScanServer, ScanDatabases, Update, LoadForUpdate, SaveDatabaseUpdate,
                SaveServerUpdate, ServerManagerTerminated, vars, sqlVars
  <2>2. QED
    BY <1>1, <2>1
<1>4. CASE ServerManager
  <2>1. CASE DeprovisionEnds \/ DeprovisionFails
    <3>1. state.action = "Deprovision"
      BY <2>1 DEF DeprovisionEnds, DeprovisionFails
    <3>2. destroyAccepted
      BY <3>1 DEF AskedInv, ServersAsked, ServerAsked
    <3>3. QED
      BY <3>2 DEF Requested
  <2>2. CASE UncaughtFailure
    BY <1>2, <2>2 DEF UncaughtFailure
  <2>3. ~(DeprovisionEnds \/ DeprovisionFails \/ UncaughtFailure) => UNCHANGED databases
    BY <1>4 DEF ServerManager, HandleInitialize, HandleServer, StartServerAction, ReconfigureEnds,
                IgnoreWhileWaiting, IgnoreDatabase, UpdateDatabaseState, HandleTermination, sqlVars
  <2>4. QED
    BY <1>1, <2>1, <2>2, <2>3
<1>5. ASSUME NEW d \in Databases, DatabaseManager(d)
      PROVE  \A n \in databases \ databases' : Requested(n)
  <2>1. CASE DbDropped(d)
    <3>1. <<d, dbState[d].name>> \in deleteAccepted
      BY <2>1 DEF DbDropped, TypeInv, CopiesExist, AskedInv, ManagersAsked, Asked
    <3>2. QED
      BY <2>1, <3>1 DEF DbDropped, Requested
  <2>2. {d} \in SUBSET Databases
    OBVIOUS
  <2>3. CASE DbCreateFailed(d)
    <3>1. \/ UNCHANGED databases \/ databases' = databases \cup {dbState[d].name}
          \/ CallsLost({d})
      BY <2>3 DEF DbCreateFailed, sqlVars
    <3>2. QED
      BY <1>1, <1>2, <2>2, <3>1
  <2>4. CASE DbUncaught(d)
    BY <1>2, <2>2, <2>4 DEF DbUncaught
  <2>5. ~(DbDropped(d) \/ DbCreateFailed(d) \/ DbUncaught(d)) => databases \subseteq databases'
    BY <1>5 DEF DatabaseManager, DbInitialize, DbStart, DbIgnore, DbFound, DbNotFound, DbCall,
                DbCreated, DbDropFailed, sqlVars
  <2>6. QED
    BY <1>1, <2>1, <2>3, <2>4, <2>5
<1>6. CASE Crash
  <2>1. CallsLost(Databases)
    BY <1>6 DEF Crash, EngineCrash, DataAccessRestart, DeathPact, ForgetManager
  <2>2. QED
    BY <1>2, <2>1
<1>7. QED
  BY <1>3, <1>4, <1>5, <1>6 DEF Next, Crash

(* A database is only ever dropped at somebody's request: whatever copies  *)
(* are stale, calls lost and actors stopped or restarted, no step of the   *)
(* API, the engine or the database server removes one whose name nobody    *)
(* asked to delete, unless the deletion of the whole server was accepted.  *)
THEOREM DropsAreRequested == Spec => DropIsRequested
<1>1. TypeInv /\ AskedInv /\ [Next]_vars => [\A n \in databases \ databases' :
          destroyAccepted \/ \E d \in Databases : <<d, n>> \in deleteAccepted]_vars
  BY DropStep DEF Requested
<1>2. QED
  BY <1>1, TypeInvariant, DeprovisionIsAsked, PTL DEF Spec, DropIsRequested

-----------------------------------------------------------------------------
(***************************************************************************)
(* The actors and the two registries of them, _serverManagers of           *)
(* DataAccess and _databaseManagers of the server manager; below, the      *)
(* copies of documents that travel between them, and the order in which    *)
(* they were taken.                                                        *)
(***************************************************************************)

(* How often a mailbox holds a message. *)
Never(s, x) == \A i \in DOMAIN s : s[i] # x
Once(s, x) == \E i \in DOMAIN s : s[i] = x /\ \A j \in DOMAIN s : s[j] = x => j = i

LEMMA Sent ==
    ASSUME NEW S, NEW s \in Seq(S), NEW m \in S, NEW x
    PROVE  /\ m # x /\ Never(s, x) => Never(Append(s, m), x)
           /\ m # x /\ Once(s, x) => Once(Append(s, m), x)
           /\ m = x /\ Never(s, x) => Once(Append(s, m), x)
<1> DEFINE t == Append(s, m)
<1>1. /\ DOMAIN s \subseteq DOMAIN t /\ \A i \in DOMAIN s : t[i] = s[i]
      /\ \A i \in DOMAIN t : i \in DOMAIN s \/ i = Len(s) + 1
      /\ Len(s) + 1 \in DOMAIN t /\ t[Len(s) + 1] = m
  OBVIOUS
<1> HIDE DEF t
<1>2. /\ m # x /\ Never(s, x) => Never(t, x)
      /\ m # x /\ Once(s, x) => Once(t, x)
      /\ m = x /\ Never(s, x) => Once(t, x)
  BY <1>1 DEF Never, Once
<1>3. QED
  BY <1>2 DEF t

LEMMA Received ==
    ASSUME NEW S, NEW s \in Seq(S), s # <<>>, NEW x
    PROVE  /\ Never(s, x) => Never(Tail(s), x) /\ Head(s) # x
           /\ Head(s) # x /\ Once(s, x) => Once(Tail(s), x)
           /\ Head(s) = x /\ Once(s, x) => Never(Tail(s), x)
<1> DEFINE t == Tail(s)
<1>1. \A i \in DOMAIN t : i + 1 \in DOMAIN s /\ t[i] = s[i + 1] /\ i + 1 # 1 /\ i \in Int
  OBVIOUS
<1>2. \A i \in DOMAIN s : i = 1 \/ (i - 1 \in DOMAIN t /\ i \in Int /\ t[i - 1] = s[i])
  OBVIOUS
<1>3. 1 \in DOMAIN s /\ s[1] = Head(s)
  OBVIOUS
<1> HIDE DEF t
<1>4. Never(s, x) => Never(t, x) /\ Head(s) # x
  BY <1>1, <1>3 DEF Never
<1>5. ASSUME Head(s) # x, Once(s, x) PROVE Once(t, x)
  <2>1. PICK i \in DOMAIN s : s[i] = x /\ \A j \in DOMAIN s : s[j] = x => j = i
    BY <1>5 DEF Once
  <2>2. i - 1 \in DOMAIN t /\ t[i - 1] = x /\ i \in Int
    BY <1>2, <1>3, <1>5, <2>1
  <2>3. \A j \in DOMAIN t : t[j] = x => j = i - 1
    BY <1>1, <2>1, <2>2
  <2>4. QED
    BY <2>2, <2>3 DEF Once
<1>6. Head(s) = x /\ Once(s, x) => Never(t, x)
  BY <1>1, <1>3 DEF Once, Never
<1>7. QED
  BY <1>4, <1>5, <1>6 DEF t

LEMMA Rotated ==
    ASSUME NEW S, NEW s \in Seq(S), s # <<>>, NEW x
    PROVE  /\ Never(s, x) => Never(Append(Tail(s), Head(s)), x)
           /\ Once(s, x) => Once(Append(Tail(s), Head(s)), x)
<1>1. Head(s) \in S /\ Tail(s) \in Seq(S)
  BY HeadAndTail
<1>2. QED
  BY <1>1, Received, Sent

LEMMA Joined ==
    ASSUME NEW S, NEW s \in Seq(S), NEW t \in Seq(S), NEW x, Never(t, x)
    PROVE  /\ Never(s, x) => Never(s \o t, x)
           /\ Once(s, x) => Once(s \o t, x)
<1> DEFINE u == s \o t
<1>1. /\ \A i \in DOMAIN u : \/ i \in DOMAIN s /\ u[i] = s[i]
                             \/ \E j \in DOMAIN t : u[i] = t[j]
      /\ \A i \in DOMAIN s : i \in DOMAIN u /\ u[i] = s[i]
  <2>1. \A i \in DOMAIN u : \/ i \in DOMAIN s /\ u[i] = s[i]
                            \/ i - Len(s) \in DOMAIN t /\ u[i] = t[i - Len(s)]
    OBVIOUS
  <2>2. \A i \in DOMAIN s : i \in DOMAIN u /\ u[i] = s[i]
    OBVIOUS
  <2> HIDE DEF u
  <2>3. QED
    BY <2>1, <2>2
<1> HIDE DEF u
<1>2. /\ Never(s, x) => Never(u, x)
      /\ Once(s, x) => Once(u, x)
  BY <1>1 DEF Never, Once
<1>3. QED
  BY <1>2 DEF u

LEMMA EmptyOrOne ==
    ASSUME NEW x, NEW m
    PROVE  Never(<<>>, x) /\ (m # x => Never(<<m>>, x))
<1>1. DOMAIN <<>> = {} /\ DOMAIN <<m>> = {1} /\ <<m>>[1] = m
  OBVIOUS
<1>2. QED
  BY <1>1 DEF Never

-----------------------------------------------------------------------------
(* An actor's life ends in exactly one Terminated, and its entry lives     *)
(* until that has been handled.                                            *)
Ended == OfServer("terminated")

ServerRegistry ==
    /\ mode # "Stopped" => registered /\ Never(daInbox, Ended)
    /\ mode = "Stopped" =>
          /\ IF registered THEN Once(daInbox, Ended) ELSE Never(daInbox, Ended)
          /\ children = {} /\ ~busy

DatabaseRegistry(d) ==
    /\ dbMode[d] # "Stopped" =>
          mode # "Stopped" /\ d \in children /\ Never(mgrInbox, ManagerTerminated(d))
    /\ dbMode[d] = "Stopped" =>
          IF d \in children THEN Once(mgrInbox, ManagerTerminated(d))
                            ELSE Never(mgrInbox, ManagerTerminated(d))

RegistryInv == ServerRegistry /\ \A d \in Databases : DatabaseRegistry(d)
-----------------------------------------------------------------------------
LEMMA WhatIsSent ==
    /\ Ended \in Notification
    /\ \A n \in Notification : n.kind = "terminated" => n = Ended
    /\ \A kind : kind # "terminated" => OfServer(kind) # Ended
    /\ \A kind \in DatabaseKinds : \A d : About(kind, d) # Ended
    /\ \A m, d : m.kind # "terminated" => m # ManagerTerminated(d)
    /\ \A m \in ManagerMessage : m.kind = "terminated" => m = ManagerTerminated(m.id)
    /\ \A d, e : ManagerTerminated(d) = ManagerTerminated(e) => d = e
<1>1. Ended \in Notification
  BY MessagesTyped DEF Ended
<1>2. \A n \in Notification : n.kind = "terminated" => n = Ended
  BY DEF Notification, DatabaseKinds, Ended, OfServer
<1>3. /\ \A kind : kind # "terminated" => OfServer(kind) # Ended
      /\ \A kind \in DatabaseKinds : \A d : About(kind, d) # Ended
  <2>1. Ended.kind = "terminated"
    BY DEF Ended, OfServer
  <2>2. \A kind, d : OfServer(kind).kind = kind /\ About(kind, d).kind = kind
    BY DEF OfServer, About
  <2>3. QED
    BY <2>1, <2>2 DEF DatabaseKinds
<1>4. \A d : ManagerTerminated(d).kind = "terminated" /\ ManagerTerminated(d).id = d
  BY DEF ManagerTerminated
<1>5. \A m \in ManagerMessage : m.kind = "terminated" => m = ManagerTerminated(m.id)
  BY DEF ManagerMessage, ManagerTerminated
<1>6. QED
  BY <1>1, <1>2, <1>3, <1>4, <1>5

(* A notification that is not the end of the server manager. *)
LEMMA Told ==
    ASSUME TypeInv, ServerRegistry, UNCHANGED registered,
           IF mode = "Stopped" THEN UNCHANGED <<mode, busy, children>> ELSE mode' # "Stopped",
           \/ daInbox' = daInbox
           \/ \E n \in Notification : n # Ended /\ daInbox' = Append(daInbox, n)
    PROVE  ServerRegistry'
<1>1. daInbox \in Seq(Notification)
  BY DEF TypeInv, TypeOK
<1>2. /\ Never(daInbox, Ended) => Never(daInbox', Ended)
      /\ Once(daInbox, Ended) => Once(daInbox', Ended)
  <2>1. ASSUME NEW n \in Notification, n # Ended, daInbox' = Append(daInbox, n)
        PROVE  /\ Never(daInbox, Ended) => Never(daInbox', Ended)
               /\ Once(daInbox, Ended) => Once(daInbox', Ended)
    BY <1>1, <2>1, Sent
  <2>2. QED
    BY <2>1
<1>3. CASE mode = "Stopped"
  BY <1>2, <1>3 DEF ServerRegistry, Ended
<1>4. CASE mode # "Stopped"
  BY <1>2, <1>4 DEF ServerRegistry, Ended
<1>5. QED
  BY <1>3, <1>4

(* The managers of databases are left alone. *)
LEMMA Unaffected ==
    ASSUME NEW d \in Databases, DatabaseRegistry(d), UNCHANGED children,
           mode # "Stopped" => mode' # "Stopped", dbMode'[d] = dbMode[d],
           Never(mgrInbox, ManagerTerminated(d)) => Never(mgrInbox', ManagerTerminated(d)),
           Once(mgrInbox, ManagerTerminated(d)) => Once(mgrInbox', ManagerTerminated(d))
    PROVE  DatabaseRegistry(d)'
BY DEF DatabaseRegistry

(* With the server manager everything it has created is forgotten. *)
LEMMA Forgotten ==
    ASSUME StopManager
    PROVE  /\ mode' = "Stopped" /\ children' = {} /\ ~busy'
           /\ \A d \in Databases : DatabaseRegistry(d)'
<1>1. mode' = "Stopped" /\ children' = {} /\ ~busy' /\ mgrInbox' = <<>>
  BY DEF StopManager
<1>2. \A d \in Databases : dbMode'[d] = "Stopped"
  BY DEF StopManager, StopDatabaseManagers
<1>3. QED
  BY <1>1, <1>2, EmptyOrOne DEF DatabaseRegistry

LEMMA RegistryInvServerManager == TypeInv /\ RegistryInv /\ ServerManager => RegistryInv'
<1> SUFFICES ASSUME TypeInv, RegistryInv, ServerManager PROVE RegistryInv'
  OBVIOUS
<1> USE DEF daVars, dbVars
<1> DEFINE m == Head(mgrInbox)
<1>1. /\ mode # "Stopped" /\ registered /\ UNCHANGED registered
      /\ Never(daInbox, Ended)
  BY DEF ServerManager, HandleInitialize, HandleServer, StartServerAction, ReconfigureEnds,
         DeprovisionEnds, DeprovisionFails, UncaughtFailure, IgnoreWhileWaiting, IgnoreDatabase,
         UpdateDatabaseState, HandleTermination, MayHandle, MessageIs, RegistryInv, ServerRegistry
<1>2. mgrInbox \in Seq(ManagerMessage) /\ daInbox \in Seq(Notification)
  BY DEF TypeInv, TypeOK
<1>3. CASE UncaughtFailure \/ DeprovisionEnds
  <2>1. StopManager /\ Once(daInbox', Ended)
    <3>1. CASE UncaughtFailure
      BY <1>1, <1>2, <3>1, WhatIsSent, Sent DEF UncaughtFailure, Ended
    <3>2. CASE DeprovisionEnds
      <4> DEFINE gone == OfServer("serverGone")
      <4>1. gone \in Notification /\ gone # Ended
        BY MessagesTyped, WhatIsSent
      <4>2. Never(Append(daInbox, gone), Ended) /\ Append(daInbox, gone) \in Seq(Notification)
        BY <1>1, <1>2, <4>1, Sent
      <4>3. daInbox' = Append(Append(daInbox, gone), Ended)
        <5>1. ASSUME NEW s \in Seq(Notification), NEW a \in Notification, NEW b \in Notification
              PROVE  s \o <<a, b>> = Append(Append(s, a), b)
          OBVIOUS
        <5>2. daInbox' = daInbox \o <<gone, Ended>>
          BY <3>2 DEF DeprovisionEnds, Ended
        <5>3. QED
          BY <1>2, <4>1, <5>1, <5>2, WhatIsSent
      <4> HIDE DEF gone
      <4>4. Once(daInbox', Ended)
        BY <4>2, <4>3, WhatIsSent, Sent
      <4>5. QED
        BY <3>2, <4>4 DEF DeprovisionEnds
    <3>3. QED
      BY <1>3, <3>1, <3>2 DEF UncaughtFailure
  <2>2. QED
    BY <1>1, <2>1, Forgotten DEF RegistryInv, ServerRegistry
<1>4. CASE ~(UncaughtFailure \/ DeprovisionEnds)
  <2>1. /\ mode' # "Stopped"
        /\ \/ daInbox' = daInbox
           \/ \E kind \in {"serverBusy", "serverReady", "serverError"} :
                 daInbox' = Append(daInbox, OfServer(kind))
    BY <1>1, <1>4 DEF ServerManager, HandleInitialize, HandleServer, StartServerAction,
       ReconfigureEnds, DeprovisionFails, IgnoreWhileWaiting, IgnoreDatabase,
       UpdateDatabaseState, HandleTermination
  <2>2. ServerRegistry'
    <3>1. \A kind \in {"serverBusy", "serverReady", "serverError"} :
             OfServer(kind) \in Notification /\ OfServer(kind) # Ended
      BY MessagesTyped, WhatIsSent
    <3>2. QED
      BY <1>1, <2>1, <3>1, Told DEF RegistryInv
  <2>3. ASSUME NEW d \in Databases PROVE DatabaseRegistry(d)'
    <3> DEFINE t == ManagerTerminated(d)
    <3>1. DatabaseRegistry(d)
      BY DEF RegistryInv
    <3>2. ASSUME mgrInbox # <<>>, mgrInbox' = Tail(mgrInbox), m.kind # "terminated"
          PROVE  /\ Never(mgrInbox, t) => Never(mgrInbox', t)
                 /\ Once(mgrInbox, t) => Once(mgrInbox', t)
      <4>1. m # t
        BY <3>2, WhatIsSent
      <4> HIDE DEF t, m
      <4>2. QED
        BY <1>2, <3>2, <4>1, Received DEF m
    <3>3. CASE HandleInitialize
      <4>1. mgrInbox # <<>> /\ mgrInbox' = Append(Tail(mgrInbox), m) /\ UNCHANGED <<children, dbMode>>
        BY <3>3 DEF HandleInitialize, TypeInv, CopiesExist
      <4>2. /\ Never(mgrInbox, t) => Never(mgrInbox', t)
            /\ Once(mgrInbox, t) => Once(mgrInbox', t)
        BY <1>2, <4>1, Rotated
      <4>3. QED
        BY <2>1, <3>1, <4>1, <4>2, Unaffected
    <3>4. CASE ReconfigureEnds \/ DeprovisionFails
      BY <2>1, <3>1, <3>4, Unaffected DEF ReconfigureEnds, DeprovisionFails
    <3>5. CASE HandleServer \/ StartServerAction \/ IgnoreWhileWaiting \/ IgnoreDatabase
      <4>1. /\ mgrInbox # <<>> /\ mgrInbox' = Tail(mgrInbox) /\ m.kind # "terminated"
            /\ UNCHANGED <<children, dbMode>>
        BY <3>5 DEF HandleServer, StartServerAction, IgnoreWhileWaiting, IgnoreDatabase,
                    MayHandle, MessageIs
      <4>2. QED
        BY <2>1, <3>1, <3>2, <4>1, Unaffected
    <3>6. CASE UpdateDatabaseState
      <4>1. /\ mgrInbox # <<>> /\ mgrInbox' = Tail(mgrInbox) /\ m.kind = "database"
            /\ \/ UNCHANGED <<children, dbMode>>
               \/ /\ m.id \notin children /\ children' = children \cup {m.id}
                  /\ dbMode[m.id] = "Stopped"
                  /\ dbMode' = [dbMode EXCEPT ![m.id] = "Initializing"]
        BY <3>6 DEF UpdateDatabaseState, MayHandle, MessageIs
      <4>2. /\ Never(mgrInbox, t) => Never(mgrInbox', t)
            /\ Once(mgrInbox, t) => Once(mgrInbox', t)
        BY <3>2, <4>1
      <4>3. CASE UNCHANGED <<children, dbMode>>
        BY <2>1, <3>1, <4>2, <4>3, Unaffected
      <4>4. CASE ~UNCHANGED <<children, dbMode>> /\ d # m.id
        <5>1. dbMode'[d] = dbMode[d] /\ (d \in children' <=> d \in children)
          BY <4>1, <4>4 DEF TypeInv, TypeOK
        <5>2. QED
          BY <2>1, <3>1, <4>2, <5>1 DEF DatabaseRegistry
      <4>5. CASE ~UNCHANGED <<children, dbMode>> /\ d = m.id
        <5>1. dbMode'[d] = "Initializing" /\ d \in children' /\ d \notin children /\ dbMode[d] = "Stopped"
          BY <4>1, <4>5 DEF TypeInv, TypeOK
        <5>2. QED
          BY <2>1, <3>1, <4>2, <5>1 DEF DatabaseRegistry
      <4>6. QED
        BY <4>3, <4>4, <4>5
    <3>7. CASE HandleTermination
      <4>1. /\ mgrInbox # <<>> /\ mgrInbox' = Tail(mgrInbox) /\ m.kind = "terminated"
            /\ children' = children \ {m.id} /\ UNCHANGED dbMode /\ m \in ManagerMessage
        BY <1>2, <3>7, HeadAndTail DEF HandleTermination, MessageIs
      <4>2. m = t <=> m.id = d
        BY <4>1, WhatIsSent
      <4>3. /\ Never(mgrInbox, t) => Never(mgrInbox', t) /\ m # t
            /\ m # t /\ Once(mgrInbox, t) => Once(mgrInbox', t)
            /\ m = t /\ Once(mgrInbox, t) => Never(mgrInbox', t)
        BY <1>2, <4>1, Received
      <4>4. d \in children' <=> d \in children /\ m # t
        BY <4>1, <4>2
      <4> HIDE DEF m
      <4>5. QED
        BY <2>1, <3>1, <4>1, <4>3, <4>4 DEF DatabaseRegistry
    <3>8. QED
      BY <1>4, <3>3, <3>4, <3>5, <3>6, <3>7 DEF ServerManager
  <2>4. QED
    BY <2>2, <2>3 DEF RegistryInv
<1>5. QED
  BY <1>3, <1>4

LEMMA RegistryInvDatabaseManager ==
    ASSUME TypeInv, AskedInv, RegistryInv, NEW d \in Databases, DatabaseManager(d)
    PROVE  RegistryInv'
<1> USE DEF daVars, mgrVars, dbVars
<1> DEFINE t(e) == ManagerTerminated(e)
<1>1. /\ UNCHANGED <<mode, busy, children, registered>>
      /\ daInbox' = daInbox \/ \E kind \in DatabaseKinds : daInbox' = Append(daInbox, About(kind, d))
  BY DEF DatabaseManager, DbInitialize, DbStart, DbIgnore, DbFound, DbNotFound, DbCall,
         DbCreated, DbCreateFailed, DbDropped, DbDropFailed, DbUncaught, Tell, DatabaseKinds
<1>2. ServerRegistry'
  <2>1. \A kind \in DatabaseKinds : About(kind, d) \in Notification /\ About(kind, d) # Ended
    BY MessagesTyped, WhatIsSent
  <2>2. QED
    BY <1>1, <2>1, Told DEF RegistryInv
<1>3. mgrInbox \in Seq(ManagerMessage) /\ DatabaseRegistry(d)
  BY DEF TypeInv, TypeOK, RegistryInv
<1>4. CASE StopDatabaseManager(d)
  <2>1. /\ dbMode' = [dbMode EXCEPT ![d] = "Stopped"]
        /\ mgrInbox' = Append(mgrInbox, t(d)) /\ dbMode[d] # "Stopped"
    BY <1>4 DEF DatabaseManager, DbInitialize, DbStart, DbIgnore, DbFound, DbNotFound, DbCall,
           DbCreated, DbCreateFailed, DbDropped, DbDropFailed, DbUncaught, TakeDatabase,
           StopDatabaseManager, AskedInv, ManagersAsked
  <2>2. t(d) \in ManagerMessage
    BY MessagesTyped
  <2>3. ASSUME NEW e \in Databases, e # d PROVE DatabaseRegistry(e)'
    <3>1. t(d) # t(e)
      BY <2>3, WhatIsSent
    <3>2. /\ Never(mgrInbox, t(e)) => Never(mgrInbox', t(e))
          /\ Once(mgrInbox, t(e)) => Once(mgrInbox', t(e))
      BY <1>3, <2>1, <2>2, <3>1, Sent
    <3>3. dbMode'[e] = dbMode[e]
      BY <2>1, <2>3 DEF TypeInv, TypeOK
    <3>4. QED
      BY <1>1, <3>2, <3>3, Unaffected DEF RegistryInv
  <2>4. DatabaseRegistry(d)'
    <3>1. d \in children /\ Never(mgrInbox, t(d))
      BY <1>3, <2>1 DEF DatabaseRegistry
    <3>2. Once(mgrInbox', t(d)) /\ dbMode'[d] = "Stopped" /\ d \in children'
      BY <1>1, <1>3, <2>1, <2>2, <3>1, Sent DEF TypeInv, TypeOK
    <3>3. QED
      BY <3>2 DEF DatabaseRegistry
  <2>5. QED
    BY <1>2, <2>3, <2>4 DEF RegistryInv
<1>5. CASE ~StopDatabaseManager(d)
  <2>1. /\ mgrInbox' = mgrInbox
        /\ \/ dbMode' = dbMode
           \/ dbMode[d] = "Initializing" /\ dbMode' = [dbMode EXCEPT ![d] = "Ready"]
    BY <1>5 DEF DatabaseManager, DbInitialize, DbStart, DbIgnore, DbFound, DbNotFound, DbCall,
           DbCreated, DbCreateFailed, DbDropped, DbDropFailed, DbUncaught, TakeDatabase
  <2>2. \A e \in Databases : dbMode'[e] = "Stopped" <=> dbMode[e] = "Stopped"
    BY <2>1 DEF TypeInv, TypeOK
  <2>3. QED
    BY <1>1, <1>2, <2>1, <2>2 DEF RegistryInv, DatabaseRegistry
<1>6. QED
  BY <1>4, <1>5

LEMMA RegistryInvScan == TypeInv /\ RegistryInv /\ (ScanQuery \/ Scan) => RegistryInv'
<1> SUFFICES ASSUME TypeInv, RegistryInv, ScanQuery \/ Scan PROVE RegistryInv'
  OBVIOUS
<1> USE DEF daVars, mgrVars, dbVars
<1>1. mgrInbox \in Seq(ManagerMessage)
  BY DEF TypeInv, TypeOK
<1>2. CASE ScanQuery
  BY <1>2 DEF ScanQuery, RegistryInv, ServerRegistry, DatabaseRegistry
<1>3. CASE ScanServer
  <2> DEFINE m == ServerMessage(daServer)
  <2>1. m \in ManagerMessage /\ \A d : m # ManagerTerminated(d)
    <3>1. daServer \in Server /\ m.kind = "server"
      BY <1>3 DEF ScanServer, TypeInv, TypeOK, CopiesExist, ServerMessage
    <3>2. QED
      BY <3>1, MessagesTyped, WhatIsSent
  <2>2. UNCHANGED <<daInbox, children, busy, dbMode>>
    BY <1>3 DEF ScanServer
  <2> HIDE DEF m
  <2>3. CASE registered
    <3>1. UNCHANGED <<mode, registered>> /\ (mgrInbox' = mgrInbox \/ mgrInbox' = Append(mgrInbox, m))
      BY <1>3, <2>3 DEF ScanServer, m
    <3>2. \A d : /\ Never(mgrInbox, ManagerTerminated(d)) => Never(mgrInbox', ManagerTerminated(d))
                 /\ Once(mgrInbox, ManagerTerminated(d)) => Once(mgrInbox', ManagerTerminated(d))
      <4>1. ASSUME NEW d, NEW x, x = ManagerTerminated(d)
            PROVE  /\ Never(mgrInbox, x) => Never(mgrInbox', x)
                   /\ Once(mgrInbox, x) => Once(mgrInbox', x)
        <5>1. m # x
          BY <2>1, <4>1
        <5>2. CASE mgrInbox' = mgrInbox
          BY <5>2
        <5>3. CASE mgrInbox' = Append(mgrInbox, m)
          BY <1>1, <2>1, <5>1, <5>3, Sent
        <5>4. QED
          BY <3>1, <5>2, <5>3
      <4>2. QED
        BY <4>1
    <3>3. QED
      BY <2>2, <3>1, <3>2, Unaffected DEF RegistryInv, ServerRegistry
  <2>4. CASE ~registered
    <3>1. mode = "Stopped" /\ mode' # "Stopped" /\ mgrInbox' = <<m>> /\ registered'
      BY <1>3, <2>4 DEF ScanServer, m
    <3>2. \A d : Never(mgrInbox', ManagerTerminated(d))
      BY <2>1, <3>1, EmptyOrOne
    <3>3. children = {} /\ Never(daInbox, Ended) /\ \A d \in Databases : dbMode[d] = "Stopped"
      BY <2>4, <3>1 DEF RegistryInv, ServerRegistry, DatabaseRegistry
    <3>4. QED
      BY <2>2, <3>1, <3>2, <3>3 DEF RegistryInv, ServerRegistry, DatabaseRegistry, Ended
  <2>5. QED
    BY <2>3, <2>4
<1>4. CASE ScanDatabases
  <2> DEFINE listed == {d \in daServer.ids : database[d] # NoDatabase}
  <2>1. listed \in SUBSET Databases
    BY <1>4 DEF ScanDatabases, TypeInv, TypeOK, CopiesExist, Server
  <2>2. PICK order \in SetToSeqs(listed) :
          mgrInbox' = IF mode = "Stopped" THEN mgrInbox
                      ELSE mgrInbox \o [i \in DOMAIN order |->
                                          DatabaseMessage(order[i], database[order[i]])]
    BY <1>4 DEF ScanDatabases
  <2> DEFINE told == [i \in DOMAIN order |-> DatabaseMessage(order[i], database[order[i]])]
  <2>3. order \in Seq(listed)
    BY <2>1, <2>2, OrdersAreSequences
  <2>4. \A i \in DOMAIN order : told[i].kind = "database" /\ told[i] \in ManagerMessage
    <3>1. \A i \in DOMAIN order : order[i] \in Databases /\ database[order[i]] \in DatabaseInstance
      BY <2>1, <2>3 DEF TypeInv, TypeOK
    <3>2. QED
      BY <3>1, MessagesTyped DEF DatabaseMessage
  <2>5. told \in Seq(ManagerMessage) /\ DOMAIN told = DOMAIN order
    <3>1. Len(order) \in Nat /\ DOMAIN order = 1..Len(order)
      BY <2>3
    <3>2. told \in [1..Len(order) -> ManagerMessage]
      BY <2>4, <3>1
    <3>3. QED
      BY <3>1, <3>2
  <2>6. mgrInbox' = mgrInbox \/ mgrInbox' = mgrInbox \o told
    BY <2>2
  <2> HIDE DEF told
  <2>7. \A d : Never(told, ManagerTerminated(d))
    BY <2>4, <2>5, WhatIsSent DEF Never
  <2>8. \A d : /\ Never(mgrInbox, ManagerTerminated(d)) => Never(mgrInbox', ManagerTerminated(d))
               /\ Once(mgrInbox, ManagerTerminated(d)) => Once(mgrInbox', ManagerTerminated(d))
    BY <1>1, <2>5, <2>6, <2>7, Joined
  <2>9. UNCHANGED <<daInbox, registered, children, busy, mode, dbMode>>
    BY <1>4 DEF ScanDatabases
  <2>10. QED
    BY <2>8, <2>9, Unaffected DEF RegistryInv, ServerRegistry
<1>5. QED
  BY <1>2, <1>3, <1>4 DEF Scan

LEMMA RegistryInvStep == TypeInv /\ AskedInv /\ RegistryInv /\ [Next]_vars => RegistryInv'
<1> SUFFICES ASSUME TypeInv, AskedInv, RegistryInv, [Next]_vars PROVE RegistryInv'
  OBVIOUS
<1> USE DEF daVars, mgrVars, dbVars
<1> DEFINE m == Head(daInbox)
<1>1. daInbox \in Seq(Notification)
  BY DEF TypeInv, TypeOK
<1>2. CASE IndexUpdates \/ UNCHANGED vars
  BY <1>2, DocumentsUntouched DEF RegistryInv, ServerRegistry, DatabaseRegistry
<1>3. CASE API
  <2>1. UNCHANGED <<daInbox, registered, mode, busy, mgrInbox, children, dbMode>>
    BY <1>3 DEF API, LoadForCreate, LoadForDatabase, LoadForServer, SaveRequest
  <2>2. QED
    BY <2>1 DEF RegistryInv, ServerRegistry, DatabaseRegistry
<1>4. CASE LoadForUpdate \/ SaveDatabaseUpdate \/ SaveServerUpdate
  <2>1. /\ UNCHANGED <<mgrVars, dbVars, registered>>
        /\ \/ daInbox' = daInbox
           \/ daInbox # <<>> /\ m.kind # "terminated" /\ daInbox' = Tail(daInbox)
    BY <1>4 DEF LoadForUpdate, SaveDatabaseUpdate, SaveServerUpdate, TypeInv, CopiesExist
  <2>2. /\ Never(daInbox, Ended) => Never(daInbox', Ended)
        /\ Once(daInbox, Ended) => Once(daInbox', Ended)
    <3>1. CASE daInbox' = daInbox
      BY <3>1
    <3>2. CASE daInbox # <<>> /\ m.kind # "terminated" /\ daInbox' = Tail(daInbox)
      <4>1. m # Ended
        BY <3>2 DEF Ended, OfServer
      <4>2. QED
        BY <1>1, <3>2, <4>1, Received
    <3>3. QED
      BY <2>1, <3>1, <3>2
  <2>3. QED
    BY <2>1, <2>2 DEF RegistryInv, ServerRegistry, DatabaseRegistry, Ended
<1>5. CASE ServerManagerTerminated
  <2>1. /\ daInbox # <<>> /\ daInbox' = Tail(daInbox) /\ m = Ended /\ ~registered'
        /\ UNCHANGED <<mgrVars, dbVars>>
    BY <1>1, <1>5, HeadAndTail, WhatIsSent DEF ServerManagerTerminated
  <2>2. ~Never(daInbox, Ended) /\ (Once(daInbox, Ended) => Never(daInbox', Ended))
    BY <1>1, <2>1, Received
  <2>3. QED
    BY <2>1, <2>2 DEF RegistryInv, ServerRegistry, DatabaseRegistry, Ended
<1>6. CASE Crash
  <2>1. StopManager /\ registered' = FALSE
    BY <1>6 DEF Crash, EngineCrash, DataAccessRestart, DeathPact, ForgetManager
  <2>2. Never(daInbox', Ended)
    <3>1. CASE EngineCrash \/ DeathPact
      BY <3>1, EmptyOrOne DEF EngineCrash, DeathPact
    <3>2. CASE DataAccessRestart
      <4> DEFINE kept == IF daPc = "update" THEN Tail(daInbox) ELSE daInbox
      <4>1. daInbox' = [i \in DOMAIN kept |->
                          IF kept[i].kind = "terminated" THEN OfServer("orphaned") ELSE kept[i]]
        BY <3>2 DEF DataAccessRestart
      <4> HIDE DEF kept
      <4>2. Ended.kind = "terminated" /\ OfServer("orphaned").kind = "orphaned"
        BY DEF Ended, OfServer
      <4>3. QED
        BY <4>1, <4>2 DEF Never
    <3>3. QED
      BY <1>6, <3>1, <3>2 DEF Crash
  <2>3. QED
    BY <2>1, <2>2, Forgotten DEF RegistryInv, ServerRegistry
<1>7. QED
  BY <1>2, <1>3, <1>4, <1>5, <1>6, RegistryInvScan, RegistryInvServerManager,
     RegistryInvDatabaseManager DEF Next, Update, Crash

(* _serverManagers, _databaseManagers and the actors they are about agree  *)
(* on both levels, over any number of failures, crashes and restarts:      *)
(* DataAccess and the server manager never ask Akka for a second actor of  *)
(* a name, nor forget a live one, nor keep the entry of a dead one for     *)
(* ever.                                                                   *)
THEOREM RegistriesAreCoherent == Spec => []RegistriesCoherent
<1>1. Init => RegistryInv
  BY EmptyOrOne DEF Init, RegistryInv, ServerRegistry, DatabaseRegistry
<1>2. TypeInv /\ RegistryInv => RegistriesCoherent
  <2> SUFFICES ASSUME TypeInv, RegistryInv PROVE RegistriesCoherent
    OBVIOUS
  <2>1. daInbox \in Seq(Notification) /\ mgrInbox \in Seq(ManagerMessage)
    BY DEF TypeInv, TypeOK
  <2>2. Terminations = {i \in DOMAIN daInbox : daInbox[i] = Ended}
    <3>1. \A i \in DOMAIN daInbox : daInbox[i].kind = "terminated" <=> daInbox[i] = Ended
      BY <2>1, WhatIsSent DEF Ended, OfServer
    <3>2. QED
      BY <3>1 DEF Terminations
  <2>3. \A d \in Databases :
           ChildTerminations(d) = {i \in DOMAIN mgrInbox : mgrInbox[i] = ManagerTerminated(d)}
    <3>1. \A i \in DOMAIN mgrInbox, d \in Databases :
             mgrInbox[i].kind = "terminated" /\ mgrInbox[i].id = d
             <=> mgrInbox[i] = ManagerTerminated(d)
      BY <2>1, WhatIsSent DEF ManagerTerminated
    <3>2. QED
      BY <3>1 DEF ChildTerminations
  <2>4. ASSUME NEW s, NEW x, NEW found, found = {i \in DOMAIN s : s[i] = x}
        PROVE  /\ Never(s, x) => found = {} /\ Cardinality(found) = 0
               /\ Once(s, x) => Cardinality(found) = 1
    <3>1. ASSUME Never(s, x) PROVE found = {} /\ Cardinality(found) = 0
      <4>1. found = {}
        BY <2>4, <3>1 DEF Never
      <4>2. QED
        BY <4>1, FS_EmptySet
    <3>2. ASSUME Once(s, x) PROVE Cardinality(found) = 1
      <4>1. PICK i : found = {i}
        BY <2>4, <3>2 DEF Once
      <4>2. QED
        BY <4>1, FS_Singleton
    <3>3. QED
      BY <3>1, <3>2
  <2>5. /\ Never(daInbox, Ended) => Terminations = {} /\ Cardinality(Terminations) = 0
        /\ Once(daInbox, Ended) => Cardinality(Terminations) = 1
    BY <2>2, <2>4
  <2>6. /\ mode # "Stopped" => registered /\ Terminations = {}
        /\ mode = "Stopped" => Cardinality(Terminations) = (IF registered THEN 1 ELSE 0)
    BY <2>5 DEF RegistryInv, ServerRegistry
  <2>7. ASSUME NEW d \in Databases
        PROVE  /\ dbMode[d] # "Stopped" =>
                    mode # "Stopped" /\ d \in children /\ ChildTerminations(d) = {}
               /\ dbMode[d] = "Stopped" =>
                    Cardinality(ChildTerminations(d)) = (IF d \in children THEN 1 ELSE 0)
    <3>1. /\ Never(mgrInbox, ManagerTerminated(d)) =>
                ChildTerminations(d) = {} /\ Cardinality(ChildTerminations(d)) = 0
          /\ Once(mgrInbox, ManagerTerminated(d)) => Cardinality(ChildTerminations(d)) = 1
      BY <2>3, <2>4
    <3>2. DatabaseRegistry(d)
      BY DEF RegistryInv
    <3>3. QED
      BY <3>1, <3>2 DEF DatabaseRegistry
  <2>8. QED
    BY <2>6, <2>7 DEF RegistriesCoherent
<1>3. QED
  BY <1>1, <1>2, RegistryInvStep, TypeInvariant, DeprovisionIsAsked, PTL DEF Spec
-----------------------------------------------------------------------------
(***************************************************************************)
(* The order in which the copies of a document are taken.  A creation is   *)
(* asked for once, when the document is made; copies of it travel from the *)
(* store to DataAccess, the mailbox of the server manager, that of the     *)
(* database's own manager, and the call that manager awaits.  None of them *)
(* is overtaken on the way: once a copy that says "Deprovision" has left   *)
(* the store no copy that says "Provision" follows it, and when a database *)
(* has been reported as dropped there is none left.  So a database that is *)
(* there when the report is handled is another document's.                 *)
(***************************************************************************)
Dropped(d) == About("deprovisioned", d)

(* The copies of document d: in the store, in the sessions of the API, in  *)
(* the session of DataAccess, in the mailbox of the server manager, and    *)
(* with the database's own manager.                                        *)
Stored(d) == IF database[d] = NoDatabase THEN {} ELSE {database[d]}
Filed(d)  == {session[c].database : c \in {c \in Clients : session[c].id = d}}
Edited(d) == IF daPc = "update" /\ AboutDatabase(Head(daInbox)) /\ Head(daInbox).id = d
             THEN {daDatabase} ELSE {}
Concerns(m, d) == m.kind = "database" /\ m.id = d
Mail(s, d) == {s[i].database : i \in {i \in DOMAIN s : Concerns(s[i], d)}}
Mailed(d) == Mail(mgrInbox, d)
Held(d) == {dbInbox[d][i] : i \in DOMAIN dbInbox[d]}
           \cup (IF dbPc[d] = "idle" THEN {} ELSE {dbState[d]})

Copies(d) == Stored(d) \cup Filed(d) \cup Edited(d) \cup Mailed(d) \cup Held(d)

Creating(copies) == \E db \in copies : db.action = "Provision"
Deleting(copies) == \E db \in copies : db.action = "Deprovision"

(* In a mailbox no creation of d comes after a deletion of it. *)
Sorted(s, d) ==
    \A i, j \in DOMAIN s :
       /\ i < j /\ Concerns(s[i], d) /\ Concerns(s[j], d)
       /\ s[i].database.action = "Deprovision"
       => s[j].database.action # "Provision"

(* A document comes into being by the one session that creates it, and     *)
(* leaves no trace anywhere before that session is saved.                  *)
Unborn(d) ==
    \/ d \notin created
    \/ \E c \in Clients : session[c].id = d /\ session[c].database.action = "Provision"

Born(d) ==
    /\ \A c \in Clients : session[c].id = d => session[c].database # NoDatabase /\ d \in created
    /\ \A c, e \in Clients :
         session[c].id = d /\ session[e].id = d /\ session[c].database.action = "Provision" => c = e
    /\ Unborn(d) => /\ Stored(d) \cup Edited(d) \cup Mailed(d) \cup Held(d) = {}
                    /\ Never(daInbox, Dropped(d))

OneName(d) == \A db, other \in Copies(d) : db.name = other.name

CallsAreTheActions(d) ==
    /\ dbPc[d] # "idle" => dbState[d].action \in {"Provision", "Deprovision"}
    /\ dbPc[d] = "create" => dbState[d].action = "Provision"

InTurn(d) ==
    /\ Creating(Stored(d) \cup Edited(d)) =>
          ~Deleting(Mailed(d) \cup Held(d)) /\ Never(daInbox, Dropped(d))
    /\ Sorted(mgrInbox, d)
    /\ Creating(Mailed(d)) => ~Deleting(Held(d))
    /\ Creating(Mailed(d) \cup Held(d)) =>
          Never(daInbox, Dropped(d)) /\ database[d] # NoDatabase

(* A database that has been reported as dropped is not there, or it is one *)
(* that another document asks for, which will not be deleted before.       *)
Reported(d) ==
    \A i \in DOMAIN daInbox : daInbox[i] = Dropped(d) =>
       \A db \in Copies(d) : db.name \in databases =>
          \E e \in Databases \ {d} :
             /\ database[e] # NoDatabase /\ database[e].name = db.name
             /\ \A j \in DOMAIN daInbox : daInbox[j] = Dropped(e) => i < j

OrderInv ==
    \A d \in Databases :
       Born(d) /\ OneName(d) /\ CallsAreTheActions(d) /\ InTurn(d) /\ Reported(d)

(* Copies that only go on, or get lost, keep their order. *)
LEMMA CopiesGoOn ==
    ASSUME NEW d \in Databases, Born(d), OneName(d), InTurn(d),
           database'[d] = database[d], UNCHANGED <<session, created>>,
           Edited(d)' \subseteq Edited(d), Mailed(d)' \subseteq Mailed(d),
           Held(d)' \subseteq Held(d),
           Sorted(mgrInbox, d) => Sorted(mgrInbox', d),
           Never(daInbox, Dropped(d)) => Never(daInbox', Dropped(d))
    PROVE  Copies(d)' \subseteq Copies(d) /\ Born(d)' /\ OneName(d)' /\ InTurn(d)'
<1>1. Stored(d)' = Stored(d) /\ Filed(d)' = Filed(d) /\ Unborn(d)' = Unborn(d)
  BY DEF Stored, Filed, Unborn
<1>2. Copies(d)' \subseteq Copies(d)
  BY <1>1 DEF Copies
<1>3. Born(d)'
  BY <1>1 DEF Born, Dropped
<1>4. InTurn(d)'
  <2>1. Sorted(mgrInbox, d)'
    BY DEF InTurn, Sorted
  <2>2. QED
    BY <1>1, <2>1 DEF InTurn, Creating, Deleting, Dropped
<1>5. QED
  BY <1>2, <1>3, <1>4 DEF OneName

(* DataAccess has handled the first k of its notifications and got others, *)
(* none of them the report that a database has been dropped.               *)
Aged(k) ==
    \A i \in DOMAIN daInbox', d \in Databases :
       daInbox'[i] = Dropped(d) => i + k \in DOMAIN daInbox /\ daInbox[i + k] = Dropped(d)

LEMMA NeverAged ==
    ASSUME NEW k, Aged(k), NEW d \in Databases, Never(daInbox, Dropped(d))
    PROVE  Never(daInbox', Dropped(d))
BY DEF Aged, Never

LEMMA InboxAged ==
    ASSUME TypeInv
    PROVE  /\ daInbox' = daInbox => Aged(0)
           /\ daInbox' = <<>> => Aged(0)
           /\ daInbox # <<>> /\ daInbox' = Tail(daInbox) => Aged(1)
           /\ \A n \in Notification :
                 n.kind # "deprovisioned" /\ daInbox' = Append(daInbox, n) => Aged(0)
<1>1. daInbox \in Seq(Notification) /\ \A i \in DOMAIN daInbox : i \in Int /\ i + 0 = i
  BY DEF TypeInv, TypeOK
<1>2. \A d : Dropped(d).kind = "deprovisioned"
  BY DEF Dropped, About
<1>3. daInbox # <<>> => \A i \in DOMAIN Tail(daInbox) :
                           i + 1 \in DOMAIN daInbox /\ Tail(daInbox)[i] = daInbox[i + 1]
  BY <1>1
<1>4. ASSUME NEW n \in Notification, n.kind # "deprovisioned", daInbox' = Append(daInbox, n)
      PROVE  Aged(0)
  <2>1. \A i \in DOMAIN daInbox' : daInbox'[i] = n \/ (i \in DOMAIN daInbox /\ daInbox'[i] = daInbox[i])
    BY <1>1, <1>4
  <2>2. QED
    BY <1>1, <1>2, <1>4, <2>1 DEF Aged
<1>5. DOMAIN <<>> = {}
  OBVIOUS
<1>6. QED
  BY <1>1, <1>3, <1>4, <1>5 DEF Aged

(* What keeps the reports true: documents keep their names, and only the   *)
(* first report deletes one; databases are made by managers that create.   *)
LEMMA ReportsStayTrue ==
    ASSUME TypeInv, TypeInv', OrderInv, NEW k \in {0, 1}, Aged(k),
           \A d \in Databases : ~Never(daInbox, Dropped(d)) =>
              \A db \in Copies(d)' : \E copy \in Copies(d) : copy.name = db.name,
           \A e \in Databases : database[e] # NoDatabase =>
              \/ database'[e] # NoDatabase /\ database'[e].name = database[e].name
              \/ k = 1 /\ 1 \in DOMAIN daInbox /\ daInbox[1] = Dropped(e),
           \A n \in databases' \ databases :
              \E e \in Databases : dbPc[e] = "create" /\ dbState[e].name = n
    PROVE  \A d \in Databases : Reported(d)'
<1> SUFFICES ASSUME NEW d \in Databases, NEW i \in DOMAIN daInbox', daInbox'[i] = Dropped(d),
                    NEW db \in Copies(d)', db.name \in databases'
             PROVE  \E e \in Databases \ {d} :
                       /\ database'[e] # NoDatabase /\ database'[e].name = db.name
                       /\ \A j \in DOMAIN daInbox' : daInbox'[j] = Dropped(e) => i < j
  BY DEF Reported, Dropped
<1>1. i + k \in DOMAIN daInbox /\ daInbox[i + k] = Dropped(d)
  BY DEF Aged
<1>2. ~Never(daInbox, Dropped(d))
  BY <1>1 DEF Never
<1>3. PICK copy \in Copies(d) : copy.name = db.name
  BY <1>2
<1>4. DOMAIN daInbox \subseteq Int /\ DOMAIN daInbox' \subseteq Int /\ k \in Int /\ i \in Int /\ i > 0
  <2>1. ASSUME NEW s \in Seq(Notification), NEW j \in DOMAIN s PROVE j \in Int /\ j > 0
    OBVIOUS
  <2>2. daInbox \in Seq(Notification) /\ daInbox' \in Seq(Notification)
    BY DEF TypeInv, TypeOK
  <2>3. QED
    BY <2>1, <2>2
<1>5. CASE db.name \in databases
  <2>1. PICK e \in Databases \ {d} :
           /\ database[e] # NoDatabase /\ database[e].name = copy.name
           /\ \A j \in DOMAIN daInbox : daInbox[j] = Dropped(e) => i + k < j
    BY <1>1, <1>3, <1>5 DEF OrderInv, Reported
  <2>2. ~(k = 1 /\ 1 \in DOMAIN daInbox /\ daInbox[1] = Dropped(e))
    BY <1>4, <2>1
  <2>3. database'[e] # NoDatabase /\ database'[e].name = db.name
    BY <1>3, <2>1, <2>2
  <2>4. ASSUME NEW j \in DOMAIN daInbox', daInbox'[j] = Dropped(e) PROVE i < j
    <3>1. i + k < j + k /\ j \in Int
      BY <1>4, <2>1, <2>4 DEF Aged
    <3>2. QED
      BY <1>4, <3>1
  <2>5. QED
    BY <2>3, <2>4
<1>6. CASE db.name \notin databases
  <2>1. PICK e \in Databases : dbPc[e] = "create" /\ dbState[e].name = db.name
    BY <1>6
  <2>2. dbState[e] \in Held(e) /\ dbState[e].action = "Provision"
    BY <2>1 DEF Held, OrderInv, CallsAreTheActions
  <2>3. Never(daInbox, Dropped(e)) /\ database[e] # NoDatabase
    BY <2>2 DEF OrderInv, InTurn, Creating
  <2>4. database[e].name = db.name
    BY <2>1, <2>2, <2>3 DEF OrderInv, OneName, Copies, Stored
  <2>5. e # d /\ Never(daInbox', Dropped(e))
    BY <1>2, <2>3, NeverAged
  <2>6. QED
    BY <2>3, <2>4, <2>5 DEF Never
<1>7. QED
  BY <1>5, <1>6

(* A step that leaves the documents and the sessions alone, and lets the   *)
(* copies go on or get lost.                                               *)
LEMMA OrderGoesOn ==
    ASSUME TypeInv, TypeInv', OrderInv, UNCHANGED <<database, session, created>>,
           \A d \in Databases :
              /\ Edited(d)' \subseteq Edited(d) /\ Mailed(d)' \subseteq Mailed(d)
              /\ Held(d)' \subseteq Held(d)
              /\ Sorted(mgrInbox, d) => Sorted(mgrInbox', d)
              /\ CallsAreTheActions(d)',
           NEW k \in {0, 1}, Aged(k),
           \A n \in databases' \ databases :
              \E e \in Databases : dbPc[e] = "create" /\ dbState[e].name = n
    PROVE  OrderInv'
<1>1. ASSUME NEW d \in Databases
      PROVE  Copies(d)' \subseteq Copies(d) /\ Born(d)' /\ OneName(d)' /\ InTurn(d)'
  <2>1. Never(daInbox, Dropped(d)) => Never(daInbox', Dropped(d))
    BY NeverAged
  <2>2. QED
    BY <2>1, CopiesGoOn DEF OrderInv
<1>2. \A d \in Databases : \A db \in Copies(d)' : \E copy \in Copies(d) : copy.name = db.name
  BY <1>1
<1>3. \A d \in Databases : Reported(d)'
  BY <1>2, ReportsStayTrue
<1>4. QED
  BY <1>1, <1>3 DEF OrderInv

LEMMA MailReceived ==
    ASSUME NEW s \in Seq(ManagerMessage), s # <<>>, NEW d
    PROVE  /\ Mail(Tail(s), d) \subseteq Mail(s, d)
           /\ Sorted(s, d) => Sorted(Tail(s), d)
           /\ Concerns(Head(s), d) => Head(s).database \in Mail(s, d)
           /\ Sorted(s, d) /\ Concerns(Head(s), d) /\ Head(s).database.action = "Deprovision" =>
                 ~Creating(Mail(Tail(s), d))
<1> DEFINE t == Tail(s)
<1>1. /\ \A i \in DOMAIN t : i + 1 \in DOMAIN s /\ t[i] = s[i + 1] /\ i \in Int /\ i > 0
      /\ 1 \in DOMAIN s /\ s[1] = Head(s)
  OBVIOUS
<1> HIDE DEF t
<1>2. Mail(t, d) \subseteq Mail(s, d)
  BY <1>1 DEF Mail
<1>3. ASSUME Sorted(s, d) PROVE Sorted(t, d)
  <2>1. ASSUME NEW i \in DOMAIN t, NEW j \in DOMAIN t, i < j PROVE i + 1 < j + 1
    BY <1>1, <2>1
  <2>2. QED
    BY <1>1, <1>3, <2>1 DEF Sorted
<1>4. Concerns(Head(s), d) => Head(s).database \in Mail(s, d)
  BY <1>1 DEF Mail
<1>5. ASSUME Sorted(s, d), Concerns(Head(s), d), Head(s).database.action = "Deprovision"
      PROVE  ~Creating(Mail(t, d))
  <2>1. ASSUME NEW i \in DOMAIN t, Concerns(t[i], d)
        PROVE  t[i].database.action # "Provision"
    <3>1. i + 1 \in DOMAIN s /\ 1 < i + 1
      BY <1>1
    <3>2. QED
      BY <1>1, <1>5, <2>1, <3>1 DEF Sorted
  <2>2. QED
    BY <2>1 DEF Creating, Mail
<1>6. QED
  BY <1>2, <1>3, <1>4, <1>5 DEF t

LEMMA MailSent ==
    ASSUME NEW s \in Seq(ManagerMessage), NEW m \in ManagerMessage, NEW d, ~Concerns(m, d)
    PROVE  /\ Mail(Append(s, m), d) \subseteq Mail(s, d)
           /\ Sorted(s, d) => Sorted(Append(s, m), d)
<1> DEFINE t == Append(s, m)
<1>1. \A i \in DOMAIN t : t[i] = m \/ (i \in DOMAIN s /\ t[i] = s[i])
  OBVIOUS
<1> HIDE DEF t
<1>2. Mail(t, d) \subseteq Mail(s, d) /\ (Sorted(s, d) => Sorted(t, d))
  BY <1>1 DEF Mail, Sorted
<1>3. QED
  BY <1>2 DEF t

LEMMA MailStarted ==
    ASSUME NEW m, NEW d
    PROVE  /\ Mail(<<>>, d) = {} /\ Sorted(<<>>, d)
           /\ ~Concerns(m, d) => Mail(<<m>>, d) = {} /\ Sorted(<<m>>, d)
<1>1. DOMAIN <<>> = {} /\ DOMAIN <<m>> = {1} /\ <<m>>[1] = m
  OBVIOUS
<1>2. QED
  BY <1>1 DEF Mail, Sorted

(* What can happen to the mailbox of the server manager besides a scan.    *)
LEMMA MailGoesOn ==
    ASSUME TypeInv, NEW d,
           \/ mgrInbox' = mgrInbox \/ mgrInbox' = <<>>
           \/ mgrInbox # <<>> /\ mgrInbox' = Tail(mgrInbox)
           \/ \E m \in ManagerMessage : /\ ~Concerns(m, d)
                                        /\ \/ mgrInbox' = Append(mgrInbox, m)
                                           \/ mgrInbox' = <<m>>
           \/ /\ mgrInbox # <<>> /\ ~Concerns(Head(mgrInbox), d)
              /\ mgrInbox' = Append(Tail(mgrInbox), Head(mgrInbox))
    PROVE  Mailed(d)' \subseteq Mailed(d) /\ (Sorted(mgrInbox, d) => Sorted(mgrInbox', d))
<1>1. mgrInbox \in Seq(ManagerMessage)
  BY DEF TypeInv, TypeOK
<1>2. Mailed(d)' = Mail(mgrInbox', d) /\ Mailed(d) = Mail(mgrInbox, d)
  BY DEF Mailed, Mail, Concerns
<1>3. CASE mgrInbox # <<>> /\ mgrInbox' = Tail(mgrInbox)
  BY <1>1, <1>2, <1>3, MailReceived
<1>4. CASE \E m \in ManagerMessage : ~Concerns(m, d) /\ mgrInbox' = Append(mgrInbox, m)
  BY <1>1, <1>2, <1>4, MailSent
<1>5. CASE \/ mgrInbox' = <<>>
           \/ \E m \in ManagerMessage : ~Concerns(m, d) /\ mgrInbox' = <<m>>
  BY <1>2, <1>5, MailStarted
<1>6. CASE /\ mgrInbox # <<>> /\ ~Concerns(Head(mgrInbox), d)
           /\ mgrInbox' = Append(Tail(mgrInbox), Head(mgrInbox))
  <2>1. Head(mgrInbox) \in ManagerMessage /\ Tail(mgrInbox) \in Seq(ManagerMessage)
    BY <1>1, <1>6, HeadAndTail
  <2>2. /\ Mail(mgrInbox', d) \subseteq Mail(Tail(mgrInbox), d)
        /\ Sorted(Tail(mgrInbox), d) => Sorted(mgrInbox', d)
    BY <1>6, <2>1, MailSent
  <2>3. /\ Mail(Tail(mgrInbox), d) \subseteq Mail(mgrInbox, d)
        /\ Sorted(mgrInbox, d) => Sorted(Tail(mgrInbox), d)
    BY <1>1, <1>6, MailReceived
  <2>4. QED
    BY <1>2, <2>2, <2>3
<1>7. QED
  BY <1>2, <1>3, <1>4, <1>5, <1>6

LEMMA LostCallsMake ==
    ASSUME NEW D \in SUBSET Databases, CallsLost(D)
    PROVE  \A n \in databases' \ databases :
              \E e \in Databases : dbPc[e] = "create" /\ dbState[e].name = n
<1>1. PICK made \in SUBSET {d \in D : dbPc[d] = "create" /\ dbState[d].name \notin databases},
           dropped \in SUBSET {d \in D : dbPc[d] = "drop"} :
        LET new  == {dbState[d].name : d \in made}
            gone == {dbState[d].name : d \in dropped}
        IN databases' \in {(databases \cup new) \ gone, (databases \ gone) \cup new}
  BY DEF CallsLost
<1> DEFINE new == {dbState[d].name : d \in made}
           gone == {dbState[d].name : d \in dropped}
<1>2. databases' \in {(databases \cup new) \ gone, (databases \ gone) \cup new}
  BY <1>1
<1>3. databases' \ databases \subseteq new
  <2> HIDE DEF new, gone
  <2>1. QED
    BY <1>2
<1>4. QED
  BY <1>3

(* The actors only add to the mailbox of DataAccess. *)
LEMMA SessionGoesOn ==
    ASSUME TypeInv, InboxGrows, UNCHANGED <<daPc, daDatabase>>, NEW d
    PROVE  Edited(d)' = Edited(d)
<1>1. daPc = "update" => Head(daInbox') = Head(daInbox)
  BY DEF TypeInv, CopiesExist, InboxGrows
<1>2. QED
  BY <1>1 DEF Edited, AboutDatabase

LEMMA ManagersStop ==
    ASSUME StopManager, NEW d \in Databases
    PROVE  Held(d)' = {} /\ CallsAreTheActions(d)' /\ mgrInbox' = <<>>
<1>1. dbInbox'[d] = <<>> /\ dbPc'[d] = "idle" /\ mgrInbox' = <<>> /\ DOMAIN <<>> = {}
  BY DEF StopManager, StopDatabaseManagers
<1>2. QED
  BY <1>1 DEF Held, CallsAreTheActions

LEMMA HeldUnchanged ==
    ASSUME UNCHANGED <<dbPc, dbState, dbInbox>>, NEW d
    PROVE  Held(d)' = Held(d) /\ CallsAreTheActions(d)' = CallsAreTheActions(d)
BY DEF Held, CallsAreTheActions

LEMMA OrderInvServerManager == TypeInv /\ TypeInv' /\ OrderInv /\ ServerManager => OrderInv'
<1> SUFFICES ASSUME TypeInv, TypeInv', OrderInv, ServerManager PROVE OrderInv'
  OBVIOUS
<1> USE DEF docVars, apiVars, daVars, mgrVars, dbVars, sqlVars
<1> DEFINE m == Head(mgrInbox)
<1>1. UNCHANGED <<database, session, created, daPc, daDatabase>>
  BY DEF ServerManager, HandleInitialize, HandleServer, StartServerAction, ReconfigureEnds,
         DeprovisionEnds, DeprovisionFails, UncaughtFailure, IgnoreWhileWaiting, IgnoreDatabase,
         UpdateDatabaseState, HandleTermination
<1>2. \A d : Edited(d)' = Edited(d)
  BY <1>1, ServerManagerGrowsInbox, SessionGoesOn
<1>3. Aged(0)
  <2>1. CASE DeprovisionEnds
    <3> DEFINE gone == OfServer("serverGone")
               end  == OfServer("terminated")
    <3>1. \A d : gone # Dropped(d) /\ end # Dropped(d)
      <4>1. gone.kind = "serverGone" /\ end.kind = "terminated"
        BY DEF OfServer
      <4>2. \A d : Dropped(d).kind = "deprovisioned"
        BY DEF Dropped, About
      <4>3. QED
        BY <4>1, <4>2
    <3>2. daInbox' = daInbox \o <<gone, end>> /\ daInbox \in Seq(Notification)
      BY <2>1 DEF DeprovisionEnds, TypeInv, TypeOK
    <3> HIDE DEF gone, end
    <3>3. \A i \in DOMAIN daInbox' : \/ daInbox'[i] \in {gone, end}
                                     \/ i \in DOMAIN daInbox /\ i + 0 = i /\ daInbox'[i] = daInbox[i]
      BY <3>2
    <3>4. QED
      BY <3>1, <3>3 DEF Aged
  <2>2. CASE ~DeprovisionEnds
    <3>1. \/ daInbox' = daInbox
          \/ \E kind \in {"serverBusy", "serverReady", "serverError", "terminated"} :
                daInbox' = Append(daInbox, OfServer(kind))
      BY <2>2 DEF ServerManager, HandleInitialize, HandleServer, StartServerAction,
         ReconfigureEnds, DeprovisionFails, UncaughtFailure, IgnoreWhileWaiting, IgnoreDatabase,
         UpdateDatabaseState, HandleTermination
    <3>2. \A kind \in {"serverBusy", "serverReady", "serverError", "terminated"} :
             OfServer(kind) \in Notification /\ OfServer(kind).kind # "deprovisioned"
      BY MessagesTyped DEF OfServer
    <3>3. QED
      BY <3>1, <3>2, InboxAged
  <2>3. QED
    BY <2>1, <2>2
<1>4. \A n \in databases' \ databases :
         \E e \in Databases : dbPc[e] = "create" /\ dbState[e].name = n
  <2>1. CASE UncaughtFailure
    BY <2>1, LostCallsMake DEF UncaughtFailure
  <2>2. CASE ~UncaughtFailure
    BY <2>2 DEF ServerManager, HandleInitialize, HandleServer, StartServerAction,
       ReconfigureEnds, DeprovisionEnds, DeprovisionFails, IgnoreWhileWaiting, IgnoreDatabase,
       UpdateDatabaseState, HandleTermination
  <2>3. QED
    BY <2>1, <2>2
<1>5. mgrInbox \in Seq(ManagerMessage)
  BY DEF TypeInv, TypeOK
<1>6. CASE UncaughtFailure \/ DeprovisionEnds
  <2>1. StopManager
    BY <1>6 DEF UncaughtFailure, DeprovisionEnds
  <2>2. QED
    BY <1>1, <1>2, <1>3, <1>4, <2>1, ManagersStop, MailGoesOn, OrderGoesOn
<1>7. CASE ~(UncaughtFailure \/ DeprovisionEnds \/ UpdateDatabaseState)
  <2>1. UNCHANGED <<dbPc, dbState, dbInbox>>
    BY <1>7 DEF ServerManager, HandleInitialize, HandleServer, StartServerAction,
       ReconfigureEnds, DeprovisionFails, IgnoreWhileWaiting, IgnoreDatabase, HandleTermination
  <2>2. \/ mgrInbox' = mgrInbox
        \/ mgrInbox # <<>> /\ mgrInbox' = Tail(mgrInbox)
        \/ mgrInbox # <<>> /\ m.kind = "server" /\ mgrInbox' = Append(Tail(mgrInbox), m)
    BY <1>7 DEF ServerManager, HandleInitialize, HandleServer, StartServerAction,
       ReconfigureEnds, DeprovisionFails, IgnoreWhileWaiting, IgnoreDatabase, HandleTermination,
       MayHandle, MessageIs, TypeInv, CopiesExist
  <2>3. \A d : Mailed(d)' \subseteq Mailed(d) /\ (Sorted(mgrInbox, d) => Sorted(mgrInbox', d))
    BY <2>2, MailGoesOn DEF Concerns
  <2>4. QED
    BY <1>1, <1>2, <1>3, <1>4, <2>1, <2>3, HeldUnchanged, OrderGoesOn DEF OrderInv
<1>8. CASE UpdateDatabaseState
  <2>1. PICK e \in Databases, taken \in DatabaseInstance :
           /\ Concerns(m, e) /\ m.database = taken
           /\ mgrInbox # <<>> /\ mgrInbox' = Tail(mgrInbox)
           /\ UNCHANGED <<dbPc, dbState, databases, daInbox>>
           /\ dbInbox' \in {dbInbox, [dbInbox EXCEPT ![e] = Append(@, taken)],
                            [dbInbox EXCEPT ![e] = <<taken>>]}
    <3>1. m.kind = "database" /\ m \in ManagerMessage
      BY <1>5, <1>8, HeadAndTail DEF UpdateDatabaseState, MayHandle, MessageIs
    <3>2. m.id \in Databases /\ m.database \in DatabaseInstance
      BY <3>1, MessageFields
    <3>3. QED
      BY <1>8, <3>1, <3>2 DEF UpdateDatabaseState, MayHandle, MessageIs, Concerns
  <2>2. \A d : Mailed(d)' \subseteq Mailed(d) /\ (Sorted(mgrInbox, d) => Sorted(mgrInbox', d))
    BY <2>1, MailGoesOn
  <2>3. (\A d \in Databases \ {e} : Held(d)' = Held(d)) /\ Held(e)' \subseteq Held(e) \cup {taken}
    <3> DEFINE old == dbInbox[e]
               new == dbInbox'[e]
    <3>1. old \in Seq(DatabaseInstance) /\ dbInbox \in [Databases -> Seq(DatabaseInstance)]
      BY DEF TypeInv, TypeOK
    <3>2. /\ \A d \in Databases \ {e} : dbInbox'[d] = dbInbox[d]
          /\ new \in {old, Append(old, taken), <<taken>>}
      BY <2>1, <3>1
    <3>3. \A i \in DOMAIN new : new[i] = taken \/ (i \in DOMAIN old /\ new[i] = old[i])
      <4>1. ASSUME NEW s \in Seq(DatabaseInstance), NEW t, t \in {s, Append(s, taken), <<taken>>}
            PROVE  \A i \in DOMAIN t : t[i] = taken \/ (i \in DOMAIN s /\ t[i] = s[i])
        <5>1. \A i \in DOMAIN Append(s, taken) :
                 Append(s, taken)[i] = taken \/ (i \in DOMAIN s /\ Append(s, taken)[i] = s[i])
          OBVIOUS
        <5>2. \A i \in DOMAIN <<taken>> : <<taken>>[i] = taken
          OBVIOUS
        <5>3. QED
          BY <4>1, <5>1, <5>2
      <4> HIDE DEF old, new
      <4>2. QED
        BY <3>1, <3>2, <4>1
    <3>4. \A d \in Databases \ {e} : Held(d)' = Held(d)
      BY <2>1, <3>2 DEF Held
    <3>5. {new[i] : i \in DOMAIN new} \subseteq {old[i] : i \in DOMAIN old} \cup {taken}
      BY <3>3
    <3>6. /\ Held(e) = {old[i] : i \in DOMAIN old} \cup (IF dbPc[e] = "idle" THEN {} ELSE {dbState[e]})
          /\ Held(e)' = {new[i] : i \in DOMAIN new} \cup (IF dbPc[e] = "idle" THEN {} ELSE {dbState[e]})
      BY <2>1 DEF Held
    <3> HIDE DEF old, new
    <3>7. QED
      BY <3>4, <3>5, <3>6
  <2>4. \A d \in Databases : CallsAreTheActions(d)'
    BY <2>1 DEF OrderInv, CallsAreTheActions
  <2>5. taken \in Mailed(e)
    BY <1>5, <2>1, MailReceived DEF Mailed
  <2>6. taken.action = "Deprovision" => ~Creating(Mailed(e)')
    <3>1. Mailed(e)' = Mail(mgrInbox', e)
      BY DEF Mailed, Mail, Concerns
    <3>2. Sorted(mgrInbox, e)
      BY DEF OrderInv, InTurn
    <3>3. QED
      BY <1>5, <2>1, <3>1, <3>2, MailReceived
  <2> HIDE DEF m
  <2>7. ASSUME NEW d \in Databases
        PROVE  Copies(d)' \subseteq Copies(d) /\ Born(d)' /\ OneName(d)' /\ InTurn(d)'
    <3>1. CASE d # e
      BY <1>1, <1>2, <2>1, <2>2, <2>3, <3>1, CopiesGoOn DEF OrderInv
    <3>2. CASE d = e
      <4>1. /\ Stored(d)' = Stored(d) /\ Filed(d)' = Filed(d) /\ Unborn(d)' = Unborn(d)
            /\ UNCHANGED daInbox /\ Edited(d)' = Edited(d)
        BY <1>1, <1>2, <2>1 DEF Stored, Filed, Unborn
      <4>2. Copies(d)' \subseteq Copies(d)
        BY <2>2, <2>3, <2>5, <3>2, <4>1 DEF Copies
      <4>3. Born(d)'
        <5>1. ~Unborn(d)
          BY <2>5, <3>2 DEF OrderInv, Born
        <5>2. QED
          BY <1>1, <4>1, <5>1 DEF OrderInv, Born
      <4>4. InTurn(d)'
        <5>1. InTurn(d) /\ Sorted(mgrInbox, d)'
          BY <2>2 DEF OrderInv, InTurn, Sorted
        <5>2. QED
          BY <1>1, <2>2, <2>3, <2>5, <2>6, <3>2, <4>1, <5>1
             DEF InTurn, Creating, Deleting, Dropped
      <4>5. QED
        BY <4>2, <4>3, <4>4 DEF OrderInv, OneName
    <3>3. QED
      BY <3>1, <3>2
  <2>8. \A d \in Databases : \A db \in Copies(d)' : \E copy \in Copies(d) : copy.name = db.name
    BY <2>7
  <2>9. \A d \in Databases : Reported(d)'
    BY <1>1, <1>3, <1>4, <2>8, ReportsStayTrue
  <2>10. QED
    BY <2>4, <2>7, <2>9 DEF OrderInv
<1>9. QED
  BY <1>6, <1>7, <1>8

(* A manager works off what it has been sent, one copy at a time.          *)
LEMMA ManagersWorkOff ==
    ASSUME TypeInv, AskedInv, OrderInv, NEW d \in Databases, DatabaseManager(d)
    PROVE  \A e \in Databases : Held(e)' \subseteq Held(e) /\ CallsAreTheActions(e)'
<1> DEFINE old == dbInbox[d]
<1>1. \A e \in Databases \ {d} :
         dbInbox'[e] = dbInbox[e] /\ dbPc'[e] = dbPc[e] /\ dbState'[e] = dbState[e]
  BY DEF DatabaseManager, DbInitialize, DbStart, DbIgnore, DbFound, DbNotFound, DbCall, DbCreated,
         DbCreateFailed, DbDropped, DbDropFailed, DbUncaught, TakeDatabase, StopDatabaseManager,
         Await, dbVars, TypeInv, TypeOK
<1>2. \A e \in Databases \ {d} : Held(e)' = Held(e) /\ CallsAreTheActions(e)'
  BY <1>1 DEF Held, OrderInv, CallsAreTheActions
<1>3. /\ old \in Seq(DatabaseInstance) /\ CallsAreTheActions(d)
      /\ dbInbox \in [Databases -> Seq(DatabaseInstance)]
      /\ dbPc \in [Databases -> {"idle", "exists", "create", "drop"}]
      /\ dbState \in [Databases -> DatabaseInstance \cup {NoDatabase}]
  BY DEF TypeInv, TypeOK, OrderInv
<1>4. old # <<>> => /\ \E i \in DOMAIN old : old[i] = Head(old)
                    /\ \A j \in DOMAIN Tail(old) : \E i \in DOMAIN old : Tail(old)[j] = old[i]
                    /\ \A j \in DOMAIN Append(Tail(old), Head(old)) :
                          \E i \in DOMAIN old : Append(Tail(old), Head(old))[j] = old[i]
  <2>1. ASSUME NEW s \in Seq(DatabaseInstance), s # <<>>
        PROVE  /\ 1 \in DOMAIN s /\ s[1] = Head(s)
               /\ \A j \in DOMAIN Tail(s) : j + 1 \in DOMAIN s /\ Tail(s)[j] = s[j + 1]
               /\ \A j \in DOMAIN Append(Tail(s), Head(s)) :
                     \/ Append(Tail(s), Head(s))[j] = Head(s)
                     \/ j \in DOMAIN Tail(s) /\ Append(Tail(s), Head(s))[j] = Tail(s)[j]
    BY <2>1
  <2> HIDE DEF old
  <2>2. QED
    BY <1>3, <2>1
<1>5. CASE DbInitialize(d)
  <2>1. /\ dbPc[d] = "idle" /\ old # <<>> /\ UNCHANGED dbPc
        /\ dbInbox'[d] = Append(Tail(old), Head(old))
    BY <1>3, <1>5 DEF DbInitialize, AskedInv, ManagersAsked, TypeInv, CopiesExist
  <2>2. Held(d)' \subseteq Held(d) /\ CallsAreTheActions(d)'
    BY <1>4, <2>1 DEF Held, CallsAreTheActions
  <2>3. QED
    BY <1>2, <2>2
<1>6. CASE DbStart(d) \/ DbIgnore(d)
  <2>1. /\ dbPc[d] = "idle" /\ old # <<>> /\ dbInbox'[d] = Tail(old) /\ dbState'[d] = Head(old)
        /\ \/ dbPc'[d] = "exists" /\ dbState'[d].action \in {"Provision", "Deprovision"}
           \/ dbPc'[d] = "idle"
    BY <1>3, <1>6 DEF DbStart, DbIgnore, TakeDatabase, Await
  <2>2. Held(d)' \subseteq Held(d) /\ CallsAreTheActions(d)'
    BY <1>4, <2>1 DEF Held, CallsAreTheActions
  <2>3. QED
    BY <1>2, <2>2
<1>7. CASE DbFound(d) \/ DbCreated(d) \/ DbCreateFailed(d) \/ DbDropFailed(d)
  <2>1. UNCHANGED <<dbState, dbInbox>> /\ dbPc'[d] = "idle"
    BY <1>3, <1>7 DEF DbFound, DbCreated, DbCreateFailed, DbDropFailed, Await
  <2>2. Held(d)' \subseteq Held(d) /\ CallsAreTheActions(d)'
    BY <2>1 DEF Held, CallsAreTheActions
  <2>3. QED
    BY <1>2, <2>2
<1>8. CASE DbCall(d)
  <2>1. /\ UNCHANGED <<dbState, dbInbox>> /\ dbPc[d] = "exists"
        /\ \/ dbPc'[d] = "create" /\ dbState[d].action = "Provision"
           \/ dbPc'[d] = "drop"
    BY <1>3, <1>8 DEF DbCall, Await
  <2>2. Held(d)' \subseteq Held(d) /\ CallsAreTheActions(d)'
    BY <1>3, <2>1 DEF Held, CallsAreTheActions
  <2>3. QED
    BY <1>2, <2>2
<1>9. CASE DbNotFound(d) \/ DbDropped(d) \/ DbUncaught(d)
  <2>1. dbInbox'[d] = <<>> /\ dbPc'[d] = "idle" /\ DOMAIN <<>> = {}
    BY <1>3, <1>9 DEF DbNotFound, DbDropped, DbUncaught, StopDatabaseManager, Await
  <2>2. Held(d)' \subseteq Held(d) /\ CallsAreTheActions(d)'
    BY <2>1 DEF Held, CallsAreTheActions
  <2>3. QED
    BY <1>2, <2>2
<1>10. QED
  BY <1>5, <1>6, <1>7, <1>8, <1>9 DEF DatabaseManager

LEMMA OrderInvDatabaseManager ==
    ASSUME TypeInv, TypeInv', AskedInv, OrderInv, NEW d \in Databases, DatabaseManager(d)
    PROVE  OrderInv'
<1> USE DEF docVars, apiVars, daVars, mgrVars, dbVars, sqlVars
<1>1. UNCHANGED <<database, session, created, daPc, daDatabase>>
  BY DEF DatabaseManager, DbInitialize, DbStart, DbIgnore, DbFound, DbNotFound, DbCall, DbCreated,
         DbCreateFailed, DbDropped, DbDropFailed, DbUncaught
<1>2. \A e : Edited(e)' = Edited(e)
  BY <1>1, DatabaseManagerGrowsInbox, SessionGoesOn
<1>3. \A e \in Databases : Held(e)' \subseteq Held(e) /\ CallsAreTheActions(e)'
  BY ManagersWorkOff
<1>4. \A e \in Databases :
         Mailed(e)' \subseteq Mailed(e) /\ (Sorted(mgrInbox, e) => Sorted(mgrInbox', e))
  <2>1. mgrInbox' = mgrInbox \/ mgrInbox' = Append(mgrInbox, ManagerTerminated(d))
    BY DEF DatabaseManager, DbInitialize, DbStart, DbIgnore, DbFound, DbNotFound, DbCall, DbCreated,
           DbCreateFailed, DbDropped, DbDropFailed, DbUncaught, StopDatabaseManager
  <2>2. ManagerTerminated(d) \in ManagerMessage /\ \A e : ~Concerns(ManagerTerminated(d), e)
    BY MessagesTyped DEF ManagerTerminated, Concerns
  <2>3. QED
    BY <2>1, <2>2, MailGoesOn
<1>5. CASE DbNotFound(d) \/ DbDropped(d)
  <2>1. /\ dbPc[d] # "idle" /\ dbState[d].action = "Deprovision"
        /\ daInbox' = Append(daInbox, Dropped(d))
        /\ dbInbox'[d] = <<>> /\ dbPc'[d] = "idle"
        /\ databases' \subseteq databases /\ dbState[d].name \notin databases'
    BY <1>5 DEF DbNotFound, DbDropped, StopDatabaseManager, Await, Tell, Dropped, Exists,
                AskedInv, ManagersAsked, TypeInv, TypeOK
  <2>2. dbState[d] \in Held(d) /\ Deleting(Held(d)) /\ Held(d)' = {}
    <3>1. DOMAIN <<>> = {}
      OBVIOUS
    <3>2. QED
      BY <2>1, <3>1 DEF Held, Deleting
  <2>3. /\ daInbox \in Seq(Notification) /\ Dropped(d) \in Notification
        /\ \A e : Dropped(e) = Dropped(d) => e = d
    <3>1. Dropped(d) \in Notification
      BY MessagesTyped DEF Dropped, DatabaseKinds
    <3>2. \A e : Dropped(e).id = e
      BY DEF Dropped, About
    <3>3. \A e : Dropped(e) = Dropped(d) => e = d
      BY <3>2
    <3>4. QED
      BY <3>1, <3>3 DEF TypeInv, TypeOK
  <2>4. \A e \in Databases \ {d} :
           Copies(e)' \subseteq Copies(e) /\ Born(e)' /\ OneName(e)' /\ InTurn(e)'
    <3> SUFFICES ASSUME NEW e \in Databases \ {d}
                 PROVE  Copies(e)' \subseteq Copies(e) /\ Born(e)' /\ OneName(e)' /\ InTurn(e)'
      OBVIOUS
    <3>1. Never(daInbox, Dropped(e)) => Never(daInbox', Dropped(e))
      BY <2>1, <2>3, Sent
    <3>2. QED
      BY <1>1, <1>2, <1>3, <1>4, <3>1, CopiesGoOn DEF OrderInv
  <2>5. Copies(d)' \subseteq Copies(d) /\ Born(d)' /\ OneName(d)' /\ InTurn(d)'
    <3>1. /\ Stored(d)' = Stored(d) /\ Filed(d)' = Filed(d) /\ Unborn(d)' = Unborn(d)
          /\ Edited(d)' = Edited(d) /\ Mailed(d)' \subseteq Mailed(d)
      BY <1>1, <1>2, <1>4 DEF Stored, Filed, Unborn
    <3>2. Copies(d)' \subseteq Copies(d)
      BY <2>2, <3>1 DEF Copies
    <3>3. Born(d)'
      <4>1. ~Unborn(d)
        BY <2>2 DEF OrderInv, Born
      <4>2. QED
        BY <1>1, <3>1, <4>1 DEF OrderInv, Born
    <3>4. InTurn(d)'
      <4>1. Sorted(mgrInbox, d)' /\ InTurn(d)
        BY <1>4 DEF OrderInv, InTurn, Sorted
      <4>2. ~Creating(Stored(d) \cup Edited(d)) /\ ~Creating(Mailed(d))
        BY <2>2, <4>1 DEF InTurn, Deleting
      <4>3. ~Creating(Stored(d) \cup Edited(d))' /\ ~Creating(Mailed(d) \cup Held(d))'
        BY <2>2, <3>1, <4>2 DEF Creating
      <4>4. QED
        BY <4>1, <4>3 DEF InTurn, Creating
    <3>5. QED
      BY <3>2, <3>3, <3>4 DEF OrderInv, OneName
  <2>6. ASSUME NEW e \in Databases PROVE Reported(e)'
    <3> SUFFICES ASSUME NEW i \in DOMAIN daInbox', daInbox'[i] = Dropped(e),
                        NEW db \in Copies(e)', db.name \in databases'
                 PROVE  \E f \in Databases \ {e} :
                           /\ database'[f] # NoDatabase /\ database'[f].name = db.name
                           /\ \A j \in DOMAIN daInbox' : daInbox'[j] = Dropped(f) => i < j
      BY DEF Reported, Dropped
    <3>1. \A j \in DOMAIN daInbox' :
             \/ j = Len(daInbox) + 1 /\ daInbox'[j] = Dropped(d)
             \/ j \in DOMAIN daInbox /\ j < Len(daInbox) + 1 /\ daInbox'[j] = daInbox[j]
      <4>1. ASSUME NEW s \in Seq(Notification), NEW m \in Notification
            PROVE  \A j \in DOMAIN Append(s, m) :
                      \/ j = Len(s) + 1 /\ Append(s, m)[j] = m
                      \/ j \in DOMAIN s /\ j < Len(s) + 1 /\ Append(s, m)[j] = s[j]
        OBVIOUS
      <4>2. QED
        BY <2>1, <2>3, <4>1
    <3>2. db \in Copies(e)
      BY <2>4, <2>5
    <3>3. CASE i \in DOMAIN daInbox /\ i < Len(daInbox) + 1 /\ daInbox[i] = Dropped(e)
      <4>1. PICK f \in Databases \ {e} :
               /\ database[f] # NoDatabase /\ database[f].name = db.name
               /\ \A j \in DOMAIN daInbox : daInbox[j] = Dropped(f) => i < j
        BY <2>1, <3>2, <3>3 DEF OrderInv, Reported
      <4>2. QED
        BY <1>1, <3>1, <3>3, <4>1
    <3>4. CASE i = Len(daInbox) + 1 /\ e = d
      BY <2>1, <2>2, <3>2, <3>4 DEF OrderInv, OneName, Copies
    <3>5. QED
      BY <2>3, <3>1, <3>3, <3>4
  <2>7. QED
    BY <1>3, <2>4, <2>5, <2>6 DEF OrderInv
<1>6. CASE ~(DbNotFound(d) \/ DbDropped(d))
  <2>1. \/ daInbox' = daInbox
        \/ \E kind \in DatabaseKinds \ {"deprovisioned"} : daInbox' = Append(daInbox, About(kind, d))
    BY <1>6 DEF DatabaseManager, DbInitialize, DbStart, DbIgnore, DbFound, DbCall, DbCreated,
                DbCreateFailed, DbDropFailed, DbUncaught, Tell, DatabaseKinds
  <2>2. \A kind \in DatabaseKinds \ {"deprovisioned"} :
           About(kind, d) \in Notification /\ About(kind, d).kind # "deprovisioned"
    BY MessagesTyped DEF About
  <2>3. Aged(0)
    BY <2>1, <2>2, InboxAged
  <2>4. {d} \in SUBSET Databases
    OBVIOUS
  <2>5. \A n \in databases' \ databases :
           \E e \in Databases : dbPc[e] = "create" /\ dbState[e].name = n
    <3>1. CASE DbCreateFailed(d)
      <4>1. \/ UNCHANGED databases \/ CallsLost({d})
            \/ dbPc[d] = "create" /\ databases' = databases \cup {dbState[d].name}
        BY <3>1 DEF DbCreateFailed
      <4>2. QED
        BY <2>4, <4>1, LostCallsMake
    <3>2. CASE DbUncaught(d)
      BY <2>4, <3>2, LostCallsMake DEF DbUncaught
    <3>3. CASE ~(DbCreateFailed(d) \/ DbUncaught(d))
      <4>1. \/ UNCHANGED databases
            \/ dbPc[d] = "create" /\ databases' = databases \cup {dbState[d].name}
        BY <1>6, <3>3 DEF DatabaseManager, DbInitialize, DbStart, DbIgnore, DbFound, DbCall,
                          DbCreated, DbDropFailed
      <4>2. QED
        BY <4>1
    <3>4. QED
      BY <3>1, <3>2, <3>3
  <2>6. QED
    BY <1>1, <1>2, <1>3, <1>4, <2>3, <2>5, OrderGoesOn
<1>7. QED
  BY <1>5, <1>6

(* Copies are handed on from the store; a copy that is handed on is the    *)
(* document as it is.                                                      *)
LEMMA MailJoined ==
    ASSUME NEW s \in Seq(ManagerMessage), NEW t \in Seq(ManagerMessage), NEW d, NEW copies,
           \A i \in DOMAIN t : Concerns(t[i], d) => t[i].database \in copies,
           Sorted(s, d), Creating(copies) => ~Deleting(copies) /\ ~Deleting(Mail(s, d))
    PROVE  Mail(s \o t, d) \subseteq Mail(s, d) \cup copies /\ Sorted(s \o t, d)
<1> DEFINE u == s \o t
<1>1. \A i \in DOMAIN u : \/ i \in DOMAIN s /\ u[i] = s[i] /\ i <= Len(s)
                          \/ i - Len(s) \in DOMAIN t /\ u[i] = t[i - Len(s)] /\ i > Len(s)
  OBVIOUS
<1>2. \A i, j \in DOMAIN u : i \in Int /\ j \in Int /\ Len(s) \in Int
  OBVIOUS
<1> HIDE DEF u
<1>3. Mail(u, d) \subseteq Mail(s, d) \cup copies
  BY <1>1 DEF Mail
<1>4. Sorted(u, d)
  <2> SUFFICES ASSUME NEW i \in DOMAIN u, NEW j \in DOMAIN u, i < j, Concerns(u[i], d),
                      Concerns(u[j], d), u[i].database.action = "Deprovision",
                      u[j].database.action = "Provision"
               PROVE  FALSE
    BY DEF Sorted
  <2>1. \/ i \in DOMAIN s /\ j \in DOMAIN s /\ u[i] = s[i] /\ u[j] = s[j]
        \/ i \in DOMAIN s /\ u[i] = s[i] /\ u[j].database \in copies
        \/ u[i].database \in copies /\ u[j].database \in copies
    BY <1>1, <1>2
  <2>2. QED
    BY <2>1 DEF Sorted, Creating, Deleting, Mail
<1>5. QED
  BY <1>3, <1>4 DEF u

LEMMA OrderInvScan == TypeInv /\ TypeInv' /\ OrderInv /\ (ScanQuery \/ Scan) => OrderInv'
<1> SUFFICES ASSUME TypeInv, TypeInv', OrderInv, ScanQuery \/ Scan PROVE OrderInv'
  OBVIOUS
<1> USE DEF docVars, apiVars, daVars, mgrVars, dbVars, sqlVars
<1>1. /\ UNCHANGED <<database, session, created, daInbox, databases, dbPc, dbState, dbInbox>>
      /\ daPc # "update" /\ daPc' # "update"
  BY DEF ScanQuery, Scan, ScanServer, ScanDatabases
<1>2. /\ \A d : Edited(d) = {} /\ Edited(d)' = {}
      /\ \A d : Held(d)' = Held(d) /\ CallsAreTheActions(d)' = CallsAreTheActions(d)
      /\ \A d : Stored(d)' = Stored(d) /\ Filed(d)' = Filed(d) /\ Unborn(d)' = Unborn(d)
      /\ Aged(0)
  BY <1>1, HeldUnchanged, InboxAged DEF Edited, Stored, Filed, Unborn
<1>3. CASE ScanQuery \/ ScanServer
  <2>1. \/ mgrInbox' = mgrInbox
        \/ \E m \in ManagerMessage : /\ m.kind = "server"
                                     /\ mgrInbox' = Append(mgrInbox, m) \/ mgrInbox' = <<m>>
    <3>1. CASE ScanQuery
      BY <3>1 DEF ScanQuery
    <3>2. CASE ScanServer
      <4>1. daServer \in Server
        BY <3>2 DEF ScanServer, TypeInv, TypeOK, CopiesExist
      <4>2. ServerMessage(daServer) \in ManagerMessage /\ ServerMessage(daServer).kind = "server"
        BY <4>1, MessagesTyped DEF ServerMessage
      <4>3. QED
        BY <3>2, <4>2 DEF ScanServer
    <3>3. QED
      BY <1>3, <3>1, <3>2
  <2>2. \A d : Mailed(d)' \subseteq Mailed(d) /\ (Sorted(mgrInbox, d) => Sorted(mgrInbox', d))
    BY <2>1, MailGoesOn DEF Concerns
  <2>3. QED
    BY <1>1, <1>2, <2>2, OrderGoesOn DEF OrderInv
<1>4. CASE ScanDatabases
  <2> DEFINE listed == {d \in daServer.ids : database[d] # NoDatabase}
  <2>1. listed \in SUBSET Databases
    BY <1>4 DEF ScanDatabases, TypeInv, TypeOK, CopiesExist, Server
  <2>2. PICK order \in SetToSeqs(listed) :
          mgrInbox' = IF mode = "Stopped" THEN mgrInbox
                      ELSE mgrInbox \o [i \in DOMAIN order |->
                                          DatabaseMessage(order[i], database[order[i]])]
    BY <1>4 DEF ScanDatabases
  <2> DEFINE told == [i \in DOMAIN order |-> DatabaseMessage(order[i], database[order[i]])]
  <2>3. order \in Seq(listed)
    BY <2>1, <2>2, OrdersAreSequences
  <2>4. \A i \in DOMAIN order : /\ told[i] \in ManagerMessage
                                /\ \A d : Concerns(told[i], d) => told[i].database \in Stored(d)
    <3>1. \A i \in DOMAIN order : order[i] \in Databases /\ database[order[i]] \in DatabaseInstance
      BY <2>1, <2>3 DEF TypeInv, TypeOK
    <3>2. \A d, db : DatabaseMessage(d, db).id = d /\ DatabaseMessage(d, db).database = db
      BY DEF DatabaseMessage
    <3>3. \A i \in DOMAIN order : database[order[i]] # NoDatabase
      BY <2>3
    <3>4. QED
      BY <3>1, <3>2, <3>3, MessagesTyped DEF Concerns, Stored
  <2>5. told \in Seq(ManagerMessage) /\ DOMAIN told = DOMAIN order
    <3>1. Len(order) \in Nat /\ DOMAIN order = 1..Len(order)
      BY <2>3
    <3>2. told \in [1..Len(order) -> ManagerMessage]
      BY <2>4, <3>1
    <3>3. QED
      BY <3>1, <3>2
  <2>6. mgrInbox' = mgrInbox \/ mgrInbox' = mgrInbox \o told
    BY <2>2
  <2>7. mgrInbox \in Seq(ManagerMessage)
    BY DEF TypeInv, TypeOK
  <2> HIDE DEF told
  <2>8. ASSUME NEW d \in Databases
        PROVE  Mailed(d)' \subseteq Mailed(d) \cup Stored(d) /\ Sorted(mgrInbox', d)
    <3>1. Mailed(d)' = Mail(mgrInbox', d) /\ Mailed(d) = Mail(mgrInbox, d)
      BY DEF Mailed, Mail, Concerns
    <3>2. InTurn(d)
      BY DEF OrderInv
    <3>3. Creating(Stored(d)) => ~Deleting(Stored(d)) /\ ~Deleting(Mail(mgrInbox, d))
      BY <3>1, <3>2 DEF InTurn, Creating, Deleting, Stored
    <3>4. Sorted(mgrInbox, d)
      BY <3>2 DEF InTurn
    <3>5. \A i \in DOMAIN told : Concerns(told[i], d) => told[i].database \in Stored(d)
      BY <2>4, <2>5
    <3>6. Mail(mgrInbox \o told, d) \subseteq Mail(mgrInbox, d) \cup Stored(d)
          /\ Sorted(mgrInbox \o told, d)
      BY <2>5, <2>7, <3>3, <3>4, <3>5, MailJoined
    <3>7. QED
      BY <2>6, <3>1, <3>4, <3>6
  <2>9. ASSUME NEW d \in Databases
        PROVE  Copies(d)' \subseteq Copies(d) /\ Born(d)' /\ OneName(d)' /\ InTurn(d)'
    <3>1. Copies(d)' \subseteq Copies(d)
      BY <1>2, <2>8 DEF Copies
    <3>2. Born(d)'
      <4>1. Unborn(d) => Stored(d) = {} /\ Mailed(d)' = {}
        BY <2>8 DEF OrderInv, Born
      <4>2. Born(d)
        BY DEF OrderInv
      <4>3. QED
        BY <1>1, <1>2, <4>1, <4>2 DEF Born, Dropped
    <3>3. InTurn(d)'
      <4>1. Sorted(mgrInbox, d)' /\ InTurn(d)
        BY <2>8 DEF OrderInv, Sorted
      <4>2. Creating(Stored(d)) => ~Deleting(Stored(d)) /\ database[d] # NoDatabase
        BY DEF Creating, Deleting, Stored
      <4>3. QED
        BY <1>1, <1>2, <2>8, <4>1, <4>2 DEF InTurn, Creating, Deleting, Dropped
    <3>4. QED
      BY <3>1, <3>2, <3>3 DEF OrderInv, OneName
  <2>10. \A d \in Databases : \A db \in Copies(d)' : \E copy \in Copies(d) : copy.name = db.name
    BY <2>9
  <2>11. \A d \in Databases : Reported(d)'
    BY <1>1, <1>2, <2>10, ReportsStayTrue
  <2>12. QED
    BY <1>2, <2>9, <2>11 DEF OrderInv
<1>5. QED
  BY <1>3, <1>4 DEF Scan

(* An update keeps the name, and writes the action it has read, or None.   *)
LEMMA UpdatesKeepNames ==
    ASSUME NEW db \in DatabaseInstance, NEW kind \in DatabaseKinds
    PROVE  LET edited == DatabaseUpdated(db, kind) IN
           \/ kind = "deprovisioned" /\ edited = NoDatabase
           \/ /\ edited \in DatabaseInstance /\ edited.name = db.name
              /\ edited.action \in {db.action, "None"}
BY DEF DatabaseUpdated, DatabaseInstance, StatusOf, DatabaseKinds

LEMMA OrderInvUpdate == TypeInv /\ TypeInv' /\ OrderInv /\ Update => OrderInv'
<1> SUFFICES ASSUME TypeInv, TypeInv', OrderInv, Update PROVE OrderInv'
  OBVIOUS
<1> USE DEF docVars, apiVars, daVars, mgrVars, dbVars, sqlVars
<1> DEFINE m == Head(daInbox)
<1>1. UNCHANGED <<session, created, mgrInbox, databases, dbPc, dbState, dbInbox>>
  BY DEF Update, LoadForUpdate, SaveDatabaseUpdate, SaveServerUpdate, ServerManagerTerminated
<1>2. \A d : /\ Held(d)' = Held(d) /\ CallsAreTheActions(d)' = CallsAreTheActions(d)
             /\ Filed(d)' = Filed(d) /\ Unborn(d)' = Unborn(d)
             /\ Mailed(d)' = Mailed(d) /\ (Sorted(mgrInbox, d) => Sorted(mgrInbox', d))
  BY <1>1, HeldUnchanged DEF Filed, Unborn, Mailed, Mail, Concerns
<1>3. ASSUME UNCHANGED database, daPc' # "update", daInbox # <<>>, daInbox' = Tail(daInbox)
      PROVE  OrderInv'
  <2>1. \A d : Edited(d)' = {}
    BY <1>3 DEF Edited
  <2>2. Aged(1)
    BY <1>3, InboxAged
  <2>3. QED
    BY <1>1, <1>2, <1>3, <2>1, <2>2, OrderGoesOn DEF OrderInv
<1>4. CASE ServerManagerTerminated \/ SaveServerUpdate
  BY <1>3, <1>4 DEF ServerManagerTerminated, SaveServerUpdate, TypeInv, CopiesExist
<1>5. CASE LoadForUpdate
  <2>1. CASE daInbox' = Tail(daInbox) /\ UNCHANGED daPc
    BY <1>3, <1>5, <2>1 DEF LoadForUpdate
  <2>2. CASE ~(daInbox' = Tail(daInbox) /\ UNCHANGED daPc)
    <3>1. /\ UNCHANGED <<database, daInbox>> /\ daPc = "idle"
          /\ AboutDatabase(m) => daDatabase' = database[m.id] /\ database[m.id] # NoDatabase
      BY <1>5, <2>2 DEF LoadForUpdate
    <3>2. \A d : /\ Edited(d) = {} /\ Edited(d)' \subseteq Stored(d) /\ Stored(d)' = Stored(d)
      BY <3>1 DEF Edited, Stored, AboutDatabase
    <3>3. Aged(0)
      BY <3>1, InboxAged
    <3>4. ASSUME NEW d \in Databases
          PROVE  Copies(d)' \subseteq Copies(d) /\ Born(d)' /\ OneName(d)' /\ InTurn(d)'
      <4>1. Copies(d)' \subseteq Copies(d)
        BY <1>2, <3>2 DEF Copies
      <4>2. Born(d) /\ InTurn(d) /\ OneName(d)
        BY DEF OrderInv
      <4>3. Born(d)'
        BY <1>1, <1>2, <3>1, <3>2, <4>2 DEF Born, Dropped
      <4>4. InTurn(d)'
        BY <1>1, <1>2, <3>1, <3>2, <4>2 DEF InTurn, Creating, Dropped
      <4>5. QED
        BY <4>1, <4>2, <4>3, <4>4 DEF OneName
    <3>5. \A d \in Databases : \A db \in Copies(d)' : \E copy \in Copies(d) : copy.name = db.name
      BY <3>4
    <3>6. \A d \in Databases : Reported(d)'
      BY <1>1, <3>1, <3>3, <3>5, ReportsStayTrue
    <3>7. QED
      BY <1>2, <3>4, <3>6 DEF OrderInv
  <2>3. QED
    BY <2>1, <2>2
<1>6. CASE SaveDatabaseUpdate
  <2>1. PICK e \in Databases, kind \in DatabaseKinds : m = About(kind, e)
    <3>1. m \in Notification /\ AboutDatabase(m)
      BY <1>6, HeadAndTail DEF SaveDatabaseUpdate, TypeInv, TypeOK, CopiesExist
    <3>2. QED
      BY <3>1 DEF Notification, AboutDatabase, DatabaseKinds, About
  <2>2. m.id = e /\ m.kind = kind /\ (kind = "deprovisioned" <=> m = Dropped(e))
    <3>1. m.id = e /\ m.kind = kind /\ Dropped(e).kind = "deprovisioned"
      BY <2>1 DEF About, Dropped
    <3>2. QED
      BY <2>1, <3>1 DEF Dropped
  <2> DEFINE loaded == daDatabase
             edited == DatabaseUpdated(loaded, kind)
             saved  == Saved(loaded, edited, database[e])
  <2>3. /\ daPc = "update" /\ daInbox # <<>> /\ daInbox' = Tail(daInbox) /\ daPc' # "update"
        /\ database' = [database EXCEPT ![e] = saved]
        /\ daInbox \in Seq(Notification)
    BY <1>6, <2>2 DEF SaveDatabaseUpdate, TypeInv, TypeOK, CopiesExist
  <2>4. Edited(e) = {loaded} /\ loaded \in DatabaseInstance /\ \A d : Edited(d)' = {}
    <3>1. AboutDatabase(m)
      BY <1>6 DEF SaveDatabaseUpdate
    <3>2. QED
      BY <2>2, <2>3, <3>1 DEF Edited, TypeInv, TypeOK, CopiesExist
  <2>5. /\ database'[e] = saved /\ \A d \in Databases \ {e} : database'[d] = database[d]
        /\ NoDatabase \notin DatabaseInstance
    BY <2>3, ConstantsAssumption DEF TypeInv, TypeOK
  <2>6. \/ edited = NoDatabase /\ kind = "deprovisioned"
        \/ /\ edited \in DatabaseInstance /\ edited.name = loaded.name
           /\ edited.action \in {loaded.action, "None"}
    BY <2>4, UpdatesKeepNames
  <2> HIDE DEF edited, loaded
  <2>7. \/ saved = database[e]
        \/ saved = NoDatabase /\ m = Dropped(e)
        \/ /\ saved \in DatabaseInstance /\ saved.name = loaded.name
           /\ saved.action \in {loaded.action, "None"}
    BY <2>2, <2>6 DEF Saved
  <2> HIDE DEF saved, m
  <2>8. Aged(1) /\ \A d \in Databases : Never(daInbox, Dropped(d)) => Never(daInbox', Dropped(d))
    BY <2>3, InboxAged, NeverAged
  <2>9. 1 \in DOMAIN daInbox /\ daInbox[1] = m
    BY <2>3 DEF m
  <2>10. Born(e) /\ OneName(e) /\ InTurn(e) /\ ~Unborn(e)
    BY <2>4 DEF OrderInv, Born
  <2>11. ASSUME NEW d \in Databases
         PROVE  /\ \A db \in Copies(d)' : \E copy \in Copies(d) : copy.name = db.name
                /\ Born(d)' /\ OneName(d)' /\ InTurn(d)'
    <3>1. CASE d # e
      BY <1>1, <1>2, <2>4, <2>5, <2>8, <3>1, CopiesGoOn DEF OrderInv
    <3>2. CASE d = e
      <4>1. \A db \in Stored(e)' : \E copy \in Stored(e) \cup Edited(e) :
               copy.name = db.name /\ db.action \in {copy.action, "None"}
        BY <2>4, <2>5, <2>7 DEF Stored
      <4>2. \A db \in Copies(e)' : \E copy \in Copies(e) : copy.name = db.name
        BY <1>2, <2>4, <4>1 DEF Copies
      <4>3. Born(e)'
        BY <1>1, <1>2, <2>10 DEF Born
      <4>4. InTurn(e)'
        <5>1. Creating(Stored(e) \cup Edited(e))' => Creating(Stored(e) \cup Edited(e))
          BY <2>4, <4>1 DEF Creating
        <5>2. database[e] # NoDatabase /\ Never(daInbox, Dropped(e)) => database'[e] # NoDatabase
          BY <2>5, <2>7, <2>9 DEF Never
        <5>3. Sorted(mgrInbox, e)'
          BY <1>2, <2>10 DEF InTurn, Sorted
        <5>4. /\ Creating(Mailed(e))' = Creating(Mailed(e))
              /\ Creating(Mailed(e) \cup Held(e))' = Creating(Mailed(e) \cup Held(e))
              /\ Deleting(Held(e))' = Deleting(Held(e))
              /\ Deleting(Mailed(e) \cup Held(e))' = Deleting(Mailed(e) \cup Held(e))
              /\ Never(daInbox, Dropped(e)) => Never(daInbox, Dropped(e))'
          BY <1>2, <2>8 DEF Creating, Deleting, Dropped
        <5>5. QED
          BY <2>10, <5>1, <5>2, <5>3, <5>4 DEF InTurn
      <4>5. QED
        BY <2>10, <3>2, <4>2, <4>3, <4>4 DEF OneName
    <3>3. QED
      BY <3>1, <3>2
  <2>12. \A d \in Databases : database[d] # NoDatabase =>
            \/ database'[d] # NoDatabase /\ database'[d].name = database[d].name
            \/ 1 \in DOMAIN daInbox /\ daInbox[1] = Dropped(d)
    <3>1. database[e] # NoDatabase => loaded.name = database[e].name
      BY <2>4, <2>10 DEF OneName, Copies, Stored
    <3>2. QED
      BY <2>5, <2>7, <2>9, <3>1
  <2>13. \A d \in Databases : Reported(d)'
    BY <1>1, <2>8, <2>11, <2>12, ReportsStayTrue
  <2>14. QED
    BY <1>2, <2>11, <2>13 DEF OrderInv
<1>7. QED
  BY <1>4, <1>5, <1>6 DEF Update

LEMMA OrderInvAPI == TypeInv /\ TypeInv' /\ OrderInv /\ API => OrderInv'
<1> SUFFICES ASSUME TypeInv, TypeInv', OrderInv, API PROVE OrderInv'
  OBVIOUS
<1> USE DEF docVars, apiVars, daVars, mgrVars, dbVars, sqlVars
<1>1. UNCHANGED <<daPc, daInbox, daDatabase, mgrInbox, databases, dbPc, dbState, dbInbox>>
  BY Zenon DEF API, LoadForCreate, LoadForDatabase, LoadForServer, SaveRequest
<1>2. /\ \A d : /\ Held(d)' = Held(d) /\ CallsAreTheActions(d)' = CallsAreTheActions(d)
                /\ Edited(d)' = Edited(d) /\ Mailed(d)' = Mailed(d)
                /\ Sorted(mgrInbox, d)' = Sorted(mgrInbox, d)
                /\ Never(daInbox, Dropped(d))' = Never(daInbox, Dropped(d))
      /\ Aged(0)
  BY <1>1, HeldUnchanged, InboxAged
     DEF Edited, AboutDatabase, Mailed, Mail, Concerns, Sorted, Never, Dropped
<1>3. /\ NoDatabase \notin Databases /\ NoDatabase \notin DatabaseInstance
      /\ session \in [Clients -> Session] /\ NoSession.id = NoDatabase
      /\ NoSession.database = NoDatabase
  BY ConstantsAssumption DEF TypeInv, TypeOK, NoSession
<1>4. \A d \in Databases : Born(d) /\ OneName(d) /\ InTurn(d)
  BY DEF OrderInv
<1>5. ASSUME NEW c \in Clients, NEW n \in Names, NEW u \in Users, LoadForCreate(c, n, u)
      PROVE  OrderInv'
  <2>1. PICK e \in Databases \ created, db \in DatabaseInstance :
           /\ session[c] = NoSession /\ UNCHANGED database /\ created' = created \cup {e}
           /\ \A b \in Clients \ {c} : session'[b] = session[b]
           /\ session'[c].id = e /\ session'[c].database = db /\ db.action = "Provision"
    <3>1. PICK e \in Databases \ created :
             /\ WillSave(c, [server EXCEPT !.ids = @ \cup {e}], e,
                         [name |-> n, user |-> u, action |-> "Provision", status |-> "Pending"])
             /\ created' = created \cup {e}
      BY <1>5 DEF LoadForCreate
    <3>2. [name |-> n, user |-> u, action |-> "Provision", status |-> "Pending"] \in DatabaseInstance
      BY DEF DatabaseInstance
    <3>3. QED
      BY <1>3, <1>5, <3>1, <3>2 DEF LoadForCreate, MayRequest, WillSave
  <2>2. \A d \in Databases \ {e} :
           Filed(d)' = Filed(d) /\ Unborn(d)' = Unborn(d) /\ Stored(d)' = Stored(d)
    BY <1>3, <2>1 DEF Filed, Unborn, Stored
  <2>3. \A b \in Clients : session[b].id # e
    BY <1>4, <2>1 DEF Born
  <2>4. /\ Stored(e) \cup Edited(e) \cup Mailed(e) \cup Held(e) = {} /\ Filed(e)' = {db}
        /\ Never(daInbox, Dropped(e)) /\ Stored(e)' = Stored(e)
    BY <1>4, <2>1, <2>3 DEF Born, Unborn, Filed, Stored
  <2>5. ASSUME NEW d \in Databases
        PROVE  /\ ~Never(daInbox, Dropped(d)) => Copies(d)' = Copies(d)
               /\ Born(d)' /\ OneName(d)' /\ InTurn(d)'
    <3>1. InTurn(d)'
      BY <1>1, <1>2, <1>4, <2>1, <2>2, <2>4 DEF InTurn, Creating, Deleting
    <3>2. CASE d # e
      <4>1. Copies(d)' = Copies(d)
        BY <1>2, <2>2, <3>2 DEF Copies
      <4>2. Born(d)'
        BY <1>2, <1>3, <1>4, <2>1, <2>2, <3>2 DEF Born
      <4>3. QED
        BY <1>4, <3>1, <4>1, <4>2 DEF OneName
    <3>3. CASE d = e
      <4>1. Copies(e)' = {db}
        BY <1>2, <2>4 DEF Copies
      <4>2. Born(e)'
        BY <1>2, <1>3, <2>1, <2>3, <2>4 DEF Born
      <4>3. OneName(e)'
        BY <4>1 DEF OneName
      <4>4. QED
        BY <2>4, <3>1, <3>3, <4>2, <4>3
    <3>4. QED
      BY <3>2, <3>3
  <2>6. \A d \in Databases : Reported(d)'
    BY <1>1, <1>2, <2>1, <2>5, ReportsStayTrue
  <2>7. QED
    BY <1>2, <2>5, <2>6 DEF OrderInv
<1>6. ASSUME NEW c \in Clients, NEW id \in Databases \cup {NoDatabase},
             NEW db \in DatabaseInstance \cup {NoDatabase},
             session[c] = NoSession, UNCHANGED <<database, created>>,
             \A b \in Clients \ {c} : session'[b] = session[b],
             session'[c].id = id, session'[c].database = db,
             id # NoDatabase => /\ database[id] # NoDatabase /\ db # NoDatabase
                                /\ db.name = database[id].name /\ db.action # "Provision"
      PROVE  OrderInv'
  <2>1. \A d : Stored(d)' = Stored(d)
    BY <1>6 DEF Stored
  <2>2. ASSUME NEW d \in Databases
        PROVE  /\ \A new \in Copies(d)' : \E copy \in Copies(d) : copy.name = new.name
               /\ Born(d)' /\ OneName(d)' /\ InTurn(d)'
    <3>1. /\ Filed(d)' \subseteq Filed(d) \cup (IF id = d THEN {db} ELSE {})
          /\ Unborn(d)' = Unborn(d)
      BY <1>3, <1>6 DEF Filed, Unborn
    <3>2. id = d => \E copy \in Stored(d) : copy.name = db.name
      BY <1>3, <1>6 DEF Stored
    <3>3. \A new \in Copies(d)' : \E copy \in Copies(d) : copy.name = new.name
      BY <1>2, <2>1, <3>1, <3>2 DEF Copies
    <3>4. id = d => d \in created
      BY <1>3, <1>4, <1>6 DEF Born, Unborn, Stored
    <3>5. Born(d)'
      <4>1. \A b \in Clients : session'[b].id = d => session'[b].database # NoDatabase /\ d \in created
        BY <1>3, <1>4, <1>6, <3>4 DEF Born
      <4>2. \A a, b \in Clients :
               session'[a].id = d /\ session'[b].id = d /\ session'[a].database.action = "Provision"
               => a = b
        <5> SUFFICES ASSUME NEW a \in Clients, NEW b \in Clients, session'[a].id = d,
                            session'[b].id = d, session'[a].database.action = "Provision"
                     PROVE  a = b
          OBVIOUS
        <5>1. a # c
          BY <1>3, <1>6
        <5>2. Unborn(d) /\ Stored(d) = {}
          BY <1>4, <1>6, <5>1 DEF Born, Unborn
        <5>3. b # c
          BY <1>3, <1>6, <3>2, <5>2
        <5>4. QED
          BY <1>4, <1>6, <5>1, <5>3 DEF Born
      <4>3. QED
        BY <1>2, <1>4, <1>6, <2>1, <3>1, <4>1, <4>2 DEF Born
    <3>6. InTurn(d)'
      BY <1>2, <1>4, <1>6, <2>1 DEF InTurn, Creating, Deleting
    <3>7. QED
      BY <1>4, <3>3, <3>5, <3>6 DEF OneName
  <2>3. \A d \in Databases : Reported(d)'
    BY <1>1, <1>2, <1>6, <2>2, ReportsStayTrue
  <2>4. QED
    BY <1>2, <2>2, <2>3 DEF OrderInv
<1>7. ASSUME NEW c \in Clients, NEW d \in Databases, NEW a \in {"Deprovision", "Reconfigure"},
             LoadForDatabase(c, d, a)
      PROVE  OrderInv'
  <2> DEFINE db == [database[d] EXCEPT !.action = a, !.status = "Pending"]
  <2>1. database[d] \in DatabaseInstance /\ database[d] # NoDatabase
    BY <1>7 DEF LoadForDatabase, TypeInv, TypeOK
  <2>2. db \in DatabaseInstance /\ db.name = database[d].name /\ db.action = a
    BY <2>1 DEF DatabaseInstance
  <2>3. /\ session[c] = NoSession /\ UNCHANGED <<database, created>>
        /\ \A b \in Clients \ {c} : session'[b] = session[b]
        /\ session'[c].id = d /\ session'[c].database = db
    BY <1>3, <1>7 DEF LoadForDatabase, MayRequest, WillSave
  <2> HIDE DEF db
  <2>4. QED
    BY <1>3, <1>6, <2>1, <2>2, <2>3
<1>8. ASSUME NEW c \in Clients, NEW a \in ServerActions, LoadForServer(c, a) PROVE OrderInv'
  <2>1. /\ session[c] = NoSession /\ UNCHANGED <<database, created>>
        /\ \A b \in Clients \ {c} : session'[b] = session[b]
        /\ session'[c].id = NoDatabase /\ session'[c].database = NoDatabase
    BY <1>3, <1>8 DEF LoadForServer, MayRequest, WillSave
  <2>2. QED
    BY <1>6, <2>1
<1>9. ASSUME NEW c \in Clients, SaveRequest(c) PROVE OrderInv'
  <2> DEFINE e  == session[c].id
             db == session[c].database
  <2>1. /\ session'[c] = NoSession /\ UNCHANGED created
        /\ \A b \in Clients \ {c} : session'[b] = session[b]
        /\ database' = IF db = NoDatabase THEN database ELSE [database EXCEPT ![e] = db]
        /\ db # NoDatabase => e \in Databases /\ db \in DatabaseInstance
    BY <1>3, <1>9 DEF SaveRequest, TypeInv, CopiesExist, Session
  <2>2. /\ db # NoDatabase => database'[e] = db
        /\ \A d \in Databases : (db = NoDatabase \/ d # e) => database'[d] = database[d]
    BY <2>1 DEF TypeInv, TypeOK
  <2>3. \A d \in Databases : \A b \in Clients :
           session'[b].id = d => b # c /\ session'[b] = session[b]
    BY <1>3, <2>1
  <2>4. \A d \in Databases : /\ Filed(d)' \subseteq Filed(d) /\ (Unborn(d)' => Unborn(d))
                             /\ e = d => db # NoDatabase /\ db \in Filed(d)
    BY <1>4, <2>1, <2>3 DEF Filed, Unborn, Born
  <2>5. ASSUME NEW d \in Databases
        PROVE  /\ \A new \in Copies(d)' : \E copy \in Copies(d) : copy.name = new.name
               /\ Born(d)' /\ OneName(d)' /\ InTurn(d)'
    <3>1. /\ Stored(d)' \subseteq Stored(d) \cup Filed(d)
          /\ d = e => Stored(d)' = {db} /\ database'[d] # NoDatabase
          /\ d # e => Stored(d)' = Stored(d) /\ database'[d] = database[d]
      BY <2>2, <2>4 DEF Stored
    <3>2. Copies(d)' \subseteq Copies(d)
      BY <1>2, <2>4, <3>1 DEF Copies
    <3>3. Born(d)'
      <4>1. \A b \in Clients : session'[b].id = d => session'[b].database # NoDatabase /\ d \in created
        BY <1>4, <2>3 DEF Born
      <4>2. \A a, b \in Clients :
               session'[a].id = d /\ session'[b].id = d /\ session'[a].database.action = "Provision"
               => a = b
        BY <1>4, <2>3 DEF Born
      <4>3. d = e => ~Unborn(d)'
        BY <1>4, <2>1, <2>3 DEF Born, Unborn
      <4>4. QED
        BY <1>2, <1>4, <2>1, <2>4, <3>1, <4>1, <4>2, <4>3 DEF Born
    <3>4. InTurn(d)'
      <4>1. CASE d = e /\ db.action = "Provision"
        <5>1. /\ Stored(d) \cup Edited(d) \cup Mailed(d) \cup Held(d) = {}
              /\ Never(daInbox, Dropped(d))
          BY <1>4, <4>1 DEF Born, Unborn
        <5>2. Sorted(mgrInbox, d)
          BY <1>4 DEF InTurn
        <5>3. QED
          BY <1>2, <5>1, <5>2 DEF InTurn, Creating, Deleting
      <4>2. CASE ~(d = e /\ db.action = "Provision")
        <5>1. Creating(Stored(d) \cup Edited(d))' => Creating(Stored(d) \cup Edited(d))
          BY <1>2, <3>1, <4>2 DEF Creating
        <5>2. database[d] # NoDatabase => database'[d] # NoDatabase
          BY <3>1
        <5>3. QED
          BY <1>2, <1>4, <5>1, <5>2 DEF InTurn, Creating, Deleting
      <4>3. QED
        BY <4>1, <4>2
    <3>5. QED
      BY <1>4, <3>2, <3>3, <3>4 DEF OneName
  <2>6. ASSUME NEW d \in Databases, database[d] # NoDatabase
        PROVE  database'[d] # NoDatabase /\ database'[d].name = database[d].name
    <3>1. CASE d = e
      BY <1>4, <2>2, <2>4, <2>6, <3>1 DEF OneName, Copies, Stored
    <3>2. CASE d # e
      BY <2>2, <2>6, <3>2
    <3>3. QED
      BY <3>1, <3>2
  <2>7. \A d \in Databases : Reported(d)'
    BY <1>1, <1>2, <2>5, <2>6, ReportsStayTrue
  <2>8. QED
    BY <1>2, <2>5, <2>7 DEF OrderInv
<1>10. QED
  BY <1>5, <1>7, <1>8, <1>9 DEF API

LEMMA OrderInvCrash == TypeInv /\ TypeInv' /\ OrderInv /\ Crash => OrderInv'
<1> SUFFICES ASSUME TypeInv, TypeInv', OrderInv, Crash PROVE OrderInv'
  OBVIOUS
<1>1. /\ UNCHANGED <<database, session, created>> /\ daPc' # "update"
      /\ StopManager /\ CallsLost(Databases)
  BY DEF Crash, EngineCrash, DataAccessRestart, DeathPact, ForgetManager, docVars, apiVars
<1>2. \A d : Edited(d)' = {}
  BY <1>1 DEF Edited
<1>3. \E k \in {0, 1} : Aged(k)
  <2>1. CASE EngineCrash \/ DeathPact
    BY <2>1, InboxAged DEF EngineCrash, DeathPact
  <2>2. CASE DataAccessRestart
    <3> DEFINE kept == IF daPc = "update" THEN Tail(daInbox) ELSE daInbox
               k == IF daPc = "update" THEN 1 ELSE 0
    <3>1. daInbox' = [i \in DOMAIN kept |->
                        IF kept[i].kind = "terminated" THEN OfServer("orphaned") ELSE kept[i]]
      BY <2>2 DEF DataAccessRestart
    <3>2. \A i \in DOMAIN kept : i + k \in DOMAIN daInbox /\ kept[i] = daInbox[i + k]
      <4>1. daInbox \in Seq(Notification) /\ (daPc = "update" => daInbox # <<>>)
        BY DEF TypeInv, TypeOK, CopiesExist
      <4>2. ASSUME NEW s \in Seq(Notification)
            PROVE  /\ \A i \in DOMAIN s : i + 0 = i
                   /\ s # <<>> => \A i \in DOMAIN Tail(s) : i + 1 \in DOMAIN s /\ Tail(s)[i] = s[i + 1]
        OBVIOUS
      <4>3. QED
        BY <4>1, <4>2
    <3>3. \A d : Dropped(d) # OfServer("orphaned")
      <4>1. \A d : Dropped(d).kind = "deprovisioned"
        BY DEF Dropped, About
      <4>2. OfServer("orphaned").kind = "orphaned"
        BY DEF OfServer
      <4>3. QED
        BY <4>1, <4>2
    <3> HIDE DEF kept
    <3>4. QED
      BY <3>1, <3>2, <3>3 DEF Aged
  <2>3. QED
    BY <2>1, <2>2 DEF Crash
<1>4. QED
  BY <1>1, <1>2, <1>3, ManagersStop, MailGoesOn, LostCallsMake, OrderGoesOn

LEMMA OrderInvInit == Init => OrderInv
<1> SUFFICES ASSUME Init, NEW d \in Databases
             PROVE  Born(d) /\ OneName(d) /\ CallsAreTheActions(d) /\ InTurn(d) /\ Reported(d)
  BY DEF OrderInv
<1>1. /\ database[d] = NoDatabase /\ dbPc[d] = "idle" /\ dbInbox[d] = <<>>
      /\ daPc = "idle" /\ daInbox = <<>> /\ mgrInbox = <<>> /\ DOMAIN <<>> = {}
  BY DEF Init
<1>2. \A c \in Clients : session[c].id # d
  BY ConstantsAssumption DEF Init, NoSession
<1>3. /\ Stored(d) = {} /\ Filed(d) = {} /\ Edited(d) = {} /\ Mailed(d) = {} /\ Held(d) = {}
      /\ Sorted(mgrInbox, d) /\ Never(daInbox, Dropped(d))
  BY <1>1, <1>2, MailStarted DEF Stored, Filed, Edited, Mailed, Held, Never
<1>4. QED
  BY <1>1, <1>2, <1>3
     DEF Born, OneName, Copies, CallsAreTheActions, InTurn, Creating, Deleting, Reported

LEMMA OrderInvStep ==
    TypeInv /\ TypeInv' /\ AskedInv /\ OrderInv /\ [Next]_vars => OrderInv'
<1> SUFFICES ASSUME TypeInv, TypeInv', AskedInv, OrderInv, [Next]_vars PROVE OrderInv'
  OBVIOUS
<1>1. CASE IndexUpdates \/ UNCHANGED vars
  <2> USE DEF apiVars, daVars, mgrVars, dbVars, sqlVars
  <2>1. /\ UNCHANGED <<database, session, created, daInbox, mgrInbox, databases>>
        /\ \A d : Held(d)' = Held(d) /\ CallsAreTheActions(d)' = CallsAreTheActions(d)
    BY <1>1, DocumentsUntouched, HeldUnchanged
  <2>2. \A d : Edited(d)' = Edited(d)
    BY <1>1, DocumentsUntouched DEF Edited, AboutDatabase
  <2>3. /\ Aged(0)
        /\ \A d : /\ Mailed(d)' \subseteq Mailed(d)
                  /\ Sorted(mgrInbox, d) => Sorted(mgrInbox', d)
    BY <2>1, InboxAged, MailGoesOn
  <2>4. QED
    BY <2>1, <2>2, <2>3, OrderGoesOn DEF OrderInv
<1>2. QED
  BY <1>1, OrderInvAPI, OrderInvScan, OrderInvUpdate, OrderInvServerManager,
     OrderInvDatabaseManager, OrderInvCrash DEF Next, Crash

LEMMA DeleteStep ==
    TypeInv /\ OrderInv /\ [Next]_vars =>
       \A d \in Databases :
          database[d] # NoDatabase /\ database'[d] = NoDatabase =>
             \/ database[d].name \notin databases
             \/ \E e \in Hosted \ {d} : database[e].name = database[d].name
<1> SUFFICES ASSUME TypeInv, OrderInv, [Next]_vars, NEW d \in Databases,
                    database[d] # NoDatabase, database'[d] = NoDatabase
             PROVE  \/ database[d].name \notin databases
                    \/ \E e \in Hosted \ {d} : database[e].name = database[d].name
  OBVIOUS
<1> USE DEF docVars, apiVars, daVars, mgrVars, dbVars, sqlVars
<1>1. SaveDatabaseUpdate \/ \E c \in Clients : SaveRequest(c)
  <2>1. ~UNCHANGED database
    OBVIOUS
  <2>2. \A e \in Databases : DatabaseManager(e) => UNCHANGED database
    BY DEF DatabaseManager, DbInitialize, DbStart, DbIgnore, DbFound, DbNotFound, DbCall, DbCreated,
           DbCreateFailed, DbDropped, DbDropFailed, DbUncaught
  <2>3. ServerManager => UNCHANGED database
    BY DEF ServerManager, HandleInitialize, HandleServer, StartServerAction, ReconfigureEnds,
           DeprovisionEnds, DeprovisionFails, UncaughtFailure, IgnoreWhileWaiting, IgnoreDatabase,
           UpdateDatabaseState, HandleTermination
  <2>4. Crash \/ IndexUpdates \/ ScanQuery \/ Scan \/ UNCHANGED vars => UNCHANGED database
    BY DEF Crash, IndexUpdates, EngineCrash, DataAccessRestart, DeathPact, ScanQuery, Scan, ScanServer,
           ScanDatabases, vars
  <2>5. API => UNCHANGED database \/ \E c \in Clients : SaveRequest(c)
    BY Zenon DEF API, LoadForCreate, LoadForDatabase, LoadForServer
  <2>6. Update => UNCHANGED database \/ SaveDatabaseUpdate
    BY DEF Update, LoadForUpdate, SaveServerUpdate, ServerManagerTerminated
  <2>7. QED
    BY <2>1, <2>2, <2>3, <2>4, <2>5, <2>6 DEF Next, Crash
<1>2. ASSUME NEW c \in Clients, SaveRequest(c) PROVE FALSE
  <2>1. session[c].database # NoDatabase => session[c].id \in Databases
    BY DEF TypeInv, CopiesExist
  <2>2. database' = database \/ (/\ session[c].database # NoDatabase
                                 /\ database' = [database EXCEPT ![session[c].id] = session[c].database])
    BY <1>2 DEF SaveRequest
  <2>3. QED
    BY <2>1, <2>2 DEF TypeInv, TypeOK
<1>3. CASE SaveDatabaseUpdate
  <2> DEFINE m == Head(daInbox)
             edited == DatabaseUpdated(daDatabase, m.kind)
  <2>1. /\ daInbox \in Seq(Notification) /\ daInbox # <<>> /\ AboutDatabase(m)
        /\ daDatabase \in DatabaseInstance
        /\ database' = [database EXCEPT ![m.id] = Saved(daDatabase, edited, @)]
    BY <1>3 DEF SaveDatabaseUpdate, TypeInv, TypeOK, CopiesExist
  <2>2. m.id = d /\ edited = NoDatabase
    <3> DEFINE saved == Saved(daDatabase, edited, database[m.id])
    <3>1. database' = [database EXCEPT ![m.id] = saved] /\ DOMAIN database = Databases
      BY <2>1 DEF TypeInv, TypeOK
    <3> HIDE DEF saved, m
    <3>2. m.id = d /\ saved = NoDatabase
      BY <3>1
    <3>3. QED
      BY <3>2 DEF saved, Saved
  <2>3. m.kind = "deprovisioned"
    <3>1. m.kind \in DatabaseKinds
      BY <2>1 DEF AboutDatabase
    <3>2. QED
      BY <2>1, <2>2, <3>1, UpdatesKeepNames, ConstantsAssumption
  <2>4. m = Dropped(d)
    <3>1. m \in Notification
      BY <2>1, HeadAndTail
    <3>2. QED
      BY <2>1, <2>2, <2>3, <3>1 DEF Notification, AboutDatabase, DatabaseKinds, Dropped, About
  <2>5. 1 \in DOMAIN daInbox /\ daInbox[1] = Dropped(d)
    BY <2>1, <2>4
  <2>6. database[d] \in Copies(d)
    BY DEF Copies, Stored
  <2>7. QED
    BY <2>5, <2>6 DEF OrderInv, Reported, Hosted
<1>4. QED
  BY <1>1, <1>2, <1>3

(* The document of a database is only deleted once the database is gone,   *)
(* or while another document of the server asks for one of that name:      *)
(* whatever requests overlap and scans race with, whichever of the copies  *)
(* are stale, messages and calls lost and actors restarted.                *)
THEOREM DeletedDatabasesAreGone == Spec => DeletedMeansDropped
<1>1. TypeInv /\ OrderInv /\ [Next]_vars =>
         [\A d \in Databases :
             database[d] # NoDatabase /\ database'[d] = NoDatabase =>
                \/ database[d].name \notin databases
                \/ \E e \in Hosted \ {d} : database[e].name = database[d].name]_vars
  BY DeleteStep
<1>2. QED
  BY <1>1, OrderInvInit, OrderInvStep, TypeInvariant, DeprovisionIsAsked, PTL
     DEF Spec, DeletedMeansDropped
=============================================================================
