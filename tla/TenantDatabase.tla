--------------------------- MODULE TenantDatabase ---------------------------
(***************************************************************************)
(* The databases of one SQL Server: requests to the Databases API edit     *)
(* DatabaseInstance documents and the list of them in the server document, *)
(* DataAccess hands what it finds to the server's manager, which forwards  *)
(* each database to a TenantDatabaseManager of its own, which creates or   *)
(* drops the database by T-SQL.                                            *)
(*                                                                         *)
(* The server has been provisioned.  Of what TenantServer says about it    *)
(* this module keeps that an action takes it out of Ready for a while and  *)
(* ends Ready, in Error or with the server gone.                           *)
(***************************************************************************)
EXTENDS SequencesExt

CONSTANTS
    Databases,       \* document ids; an id is never used again
    Names,           \* database names
    Users,           \* names of database users (logins)
    Clients,         \* concurrent API requests
    NoServer, NoDatabase, \* there is no such document
    RequestsOverlap, \* may another session run between a session's load and save?
    TimersRace,      \* may a scan start before the work of the last one is done?
    MaxRequests,     \* bound: requests that pass the API's checks
    MaxFaults,       \* bound: failing calls, crashes
    MailboxLimit,    \* bound: no scan starts while that many messages wait in a mailbox
    ServerActions    \* server-level requests that are made

Server == [action : {"None", "Reconfigure", "Deprovision"},
           status : {"Pending", "Ready", "Error"},
           ids    : SUBSET Databases]

DatabaseInstance ==
    [name : Names, user : Users,
     action : {"None", "Provision", "Deprovision", "Reconfigure"},
     status : {"Pending", "Ready", "Deprovisioning", "Error"}]

ASSUME ConstantsAssumption ==
    /\ NoServer \notin Server /\ NoDatabase \notin Databases \cup DatabaseInstance
    /\ RequestsOverlap \in BOOLEAN /\ TimersRace \in BOOLEAN
    /\ MaxRequests \in Nat /\ MaxFaults \in Nat /\ MailboxLimit \in Nat \ {0}
    /\ ServerActions \subseteq {"Reconfigure", "Deprovision"}
    /\ IsFiniteSet(Databases)

(* What the actors send each other.  The server manager gets documents and *)
(* the Terminated messages of its children, DataAccess gets notifications  *)
(* and the Terminated message of the server manager, "orphaned" when that  *)
(* manager is no longer an entry of _serverManagers.                       *)
ServerState == [action : {"None", "Reconfigure", "Deprovision"},
                status : {"Pending", "Ready", "Error"}]

ManagerMessage ==
    [kind : {"server"}, server : ServerState]
    \cup [kind : {"database"}, id : Databases, database : DatabaseInstance]
    \cup [kind : {"terminated"}, id : Databases]

ServerMessage(s) ==
    [kind |-> "server", server |-> [action |-> s.action, status |-> s.status]]
DatabaseMessage(d, database) == [kind |-> "database", id |-> d, database |-> database]
ManagerTerminated(d) == [kind |-> "terminated", id |-> d]

DatabaseKinds ==
    {"provisioning", "provisioned", "failed", "deprovisioning", "deprovisioned"}

Notification ==
    [kind : DatabaseKinds, id : Databases]
    \cup [kind : {"serverBusy", "serverReady", "serverError", "serverGone",
                  "terminated", "orphaned"}]

About(kind, d) == [kind |-> kind, id |-> d]
OfServer(kind) == [kind |-> kind]

(* The ProvisioningStatus each database message passes to its base class:  *)
(* that of DatabaseProvisioning is Ready.                                  *)
StatusOf(kind) ==
    CASE kind \in {"provisioning", "provisioned"} -> "Ready"
      [] kind = "failed"                          -> "Error"
      [] kind = "deprovisioning"                  -> "Deprovisioning"
      [] kind = "deprovisioned"                   -> "Deprovisioned"

VARIABLES
    (* The management database. *)
    server,      \* the DatabaseServer document, or NoServer
    database,    \* database[d]: the DatabaseInstance document, or NoDatabase
    indexed,     \* the databases that its queries find
    session,     \* session[c]: what the API request of client c will save
    (* DataAccess. *)
    daPc,        \* "idle", in ScanTenants ("scan", "load"), in an update, "stopped"
    daServer,    \* the copies loaded by
    daDatabase,  \*   the session that is open
    daInbox,     \* notifications
    registered,  \* is the server manager an entry of _serverManagers?
    (* TenantServerManager. *)
    mode,        \* "Stopped", "Initializing" or running ("Ready")
    busy,        \* is a server-level action under way?
    state,       \* Provisioner.State
    mgrInbox,
    children,    \* keys of _databaseManagers
    (* TenantDatabaseManagers. *)
    dbMode,      \* dbMode[d]: "Stopped", "Initializing" or "Ready"
    dbPc,        \* the call it awaits: of DoesDatabaseExist, CreateDatabase or DropDatabase
    dbState,     \* ActiveProvisioner.State
    dbInbox,
    (* The instance of SQL Server. *)
    databases,   \* sys.databases
    logins,
    (* History and budgets. *)
    created,     \* ids that have been given out
    provisioned, \* databases whose creation has been reported
    deleteAccepted, \* <<id, name>> of the databases whose deletion has been accepted
    destroyAccepted, \* has a DestroyServer request been accepted?
    shared,      \* databases that have had the name of another one
    requests, faults

docVars == <<server, database, indexed>>
apiVars == <<session, created, deleteAccepted, destroyAccepted, shared, requests>>
daVars  == <<daPc, daServer, daDatabase, daInbox, registered>>
mgrVars == <<mode, busy, state, mgrInbox, children>>
dbVars  == <<dbMode, dbPc, dbState, dbInbox, provisioned>>
sqlVars == <<databases, logins>>
vars    == <<docVars, apiVars, daVars, mgrVars, dbVars, sqlVars, faults>>

(* What an API request saves: a server document, a database document, or   *)
(* both (NoServer, NoDatabase: not written).                               *)
Session == [server : Server \cup {NoServer}, id : Databases \cup {NoDatabase},
            database : DatabaseInstance \cup {NoDatabase}]
NoSession == [server |-> NoServer, id |-> NoDatabase, database |-> NoDatabase]

Hosted == {d \in Databases : database[d] # NoDatabase}

TypeOK ==
    /\ server \in Server \cup {NoServer}
    /\ database \in [Databases -> DatabaseInstance \cup {NoDatabase}]
    /\ indexed \in SUBSET Databases
    /\ session \in [Clients -> Session]
    /\ daPc \in {"idle", "scan", "load", "update", "stopped"}
    /\ daServer \in Server \cup {NoServer}
    /\ daDatabase \in DatabaseInstance \cup {NoDatabase}
    /\ daInbox \in Seq(Notification)
    /\ registered \in BOOLEAN
    /\ mode \in {"Stopped", "Initializing", "Ready"}
    /\ busy \in BOOLEAN
    /\ state \in ServerState
    /\ mgrInbox \in Seq(ManagerMessage)
    /\ children \in SUBSET Databases
    /\ dbMode \in [Databases -> {"Stopped", "Initializing", "Ready"}]
    /\ dbPc \in [Databases -> {"idle", "exists", "create", "drop"}]
    /\ dbState \in [Databases -> DatabaseInstance \cup {NoDatabase}]
    /\ dbInbox \in [Databases -> Seq(DatabaseInstance)]
    /\ databases \in SUBSET Names /\ logins \in SUBSET Users
    /\ created \in SUBSET Databases /\ provisioned \in SUBSET Databases
    /\ deleteAccepted \in SUBSET (Databases \X Names) /\ destroyAccepted \in BOOLEAN
    /\ shared \in SUBSET Databases
    /\ requests \in 0..MaxRequests /\ faults \in 0..MaxFaults

NoState == [action |-> "None", status |-> "Pending"]

(* A server that is ready, and has no databases yet; the engine starts.    *)
Init ==
    /\ server = [action |-> "None", status |-> "Ready", ids |-> {}]
    /\ database = [d \in Databases |-> NoDatabase] /\ indexed = {}
    /\ session = [c \in Clients |-> NoSession]
    /\ daPc = "idle" /\ daServer = NoServer /\ daDatabase = NoDatabase
    /\ daInbox = <<>> /\ registered = FALSE
    /\ mode = "Stopped" /\ busy = FALSE /\ state = NoState
    /\ mgrInbox = <<>> /\ children = {}
    /\ dbMode = [d \in Databases |-> "Stopped"] /\ dbPc = [d \in Databases |-> "idle"]
    /\ dbState = [d \in Databases |-> NoDatabase]
    /\ dbInbox = [d \in Databases |-> <<>>]
    /\ databases = {} /\ logins = {}
    /\ created = {} /\ provisioned = {}
    /\ deleteAccepted = {} /\ destroyAccepted = FALSE /\ shared = {}
    /\ requests = 0 /\ faults = 0

Fault == faults < MaxFaults /\ faults' = faults + 1

-----------------------------------------------------------------------------
(* The API.  A request loads documents, checks them, and saves those it    *)
(* has changed; refused requests change nothing.                           *)

SessionsClosed == \A c \in Clients : session[c] = NoSession

MayRequest(c) ==
    /\ session[c] = NoSession /\ requests < MaxRequests
    /\ RequestsOverlap \/ (SessionsClosed /\ daPc \in {"idle", "stopped"})
    /\ requests' = requests + 1

(* RavenDB brings the index of the DatabaseInstance documents up to date   *)
(* when it gets to it, and no query of the API waits for that.  A query    *)
(* finds the documents that the index has and that still exist.  When no   *)
(* requests are left (a bound) nobody looks at the index any more.         *)
IndexUpdates ==
    /\ indexed # Hosted /\ requests < MaxRequests
    /\ indexed' = Hosted
    /\ UNCHANGED <<server, database, apiVars, daVars, mgrVars, dbVars, sqlVars, faults>>

WillSave(c, s, d, db) ==
    session' = [session EXCEPT ![c] = [server |-> s, id |-> d, database |-> db]]

(* CreateDatabase: the server must be Ready, and the query                 *)
(* GetDatabaseInstanceByName must find no database of that name.  The new  *)
(* id is added to the server's copy, so both documents are saved.          *)
LoadForCreate(c, n, u) ==
    /\ MayRequest(c)
    /\ server # NoServer /\ server.status = "Ready"
    /\ \A d \in indexed : database[d].name # n
    /\ \E d \in Databases \ created :
          /\ WillSave(c, [server EXCEPT !.ids = @ \cup {d}], d,
                      [name |-> n, user |-> u, action |-> "Provision", status |-> "Pending"])
          /\ created' = created \cup {d}
    /\ UNCHANGED <<docVars, deleteAccepted, destroyAccepted, shared, daVars, mgrVars, dbVars,
                   sqlVars, faults>>

(* DeleteDatabase / ReconfigureDatabase: server and database must be Ready. *)
LoadForDatabase(c, d, action) ==
    /\ MayRequest(c)
    /\ database[d] # NoDatabase /\ database[d].status = "Ready"
    /\ server # NoServer /\ server.status = "Ready"
    /\ WillSave(c, NoServer, d,
                [database[d] EXCEPT !.action = action, !.status = "Pending"])
    /\ UNCHANGED <<docVars, created, deleteAccepted, destroyAccepted, shared, daVars, mgrVars,
                   dbVars, sqlVars, faults>>

(* ReconfigureServer / DestroyServer: no action may be in progress, and of *)
(* a server that is destroyed the query DoesServerHaveDatabases must find  *)
(* no databases.                                                           *)
LoadForServer(c, action) ==
    /\ MayRequest(c)
    /\ server # NoServer /\ server.action = "None"
    /\ action = "Deprovision" => indexed = {}
    /\ WillSave(c, [server EXCEPT !.action = action, !.status = "Pending"],
                NoDatabase, NoDatabase)
    /\ UNCHANGED <<docVars, created, deleteAccepted, destroyAccepted, shared, daVars, mgrVars,
                   dbVars, sqlVars, faults>>

(* Two documents have the same name. *)
SameName(d, e) ==
    /\ d # e /\ database[d] # NoDatabase /\ database[e] # NoDatabase
    /\ database[d].name = database[e].name

(* SaveChanges. *)
SaveRequest(c) ==
    LET s == session[c] IN
    /\ s # NoSession
    /\ server' = IF s.server = NoServer THEN server ELSE s.server
    /\ database' = IF s.database = NoDatabase THEN database
                   ELSE [database EXCEPT ![s.id] = s.database]
    /\ deleteAccepted' = IF s.database # NoDatabase /\ s.database.action = "Deprovision"
                         THEN deleteAccepted \cup {<<s.id, s.database.name>>}
                         ELSE deleteAccepted
    /\ destroyAccepted' = (destroyAccepted \/
          (s.server # NoServer /\ s.server.action = "Deprovision"))
    /\ session' = [session EXCEPT ![c] = NoSession]
    /\ shared' = shared \cup {d \in Databases : \E e \in Databases : SameName(d, e)'}
    /\ UNCHANGED <<indexed, created, requests, daVars, mgrVars, dbVars, sqlVars, faults>>

-----------------------------------------------------------------------------
(* When TimersRace is FALSE a scan starts only once everything that earlier *)
(* scans led to has been handled.                                          *)
Quiescent ==
    /\ SessionsClosed
    /\ daInbox = <<>> /\ mgrInbox = <<>> /\ ~busy
    /\ \A d \in Databases : dbInbox[d] = <<>> /\ dbPc[d] = "idle"

(* ScanTenants: the query of the server documents.                         *)
ScanQuery ==
    /\ daPc = "idle"
    /\ TimersRace \/ Quiescent
    /\ RequestsOverlap \/ SessionsClosed
    /\ Len(daInbox) < MailboxLimit /\ Len(mgrInbox) < MailboxLimit
    /\ \A d \in Databases : Len(dbInbox[d]) < MailboxLimit
    /\ server # NoServer
    /\ daPc' = "scan" /\ daServer' = server
    /\ UNCHANGED <<docVars, apiVars, daDatabase, daInbox, registered, mgrVars, dbVars,
                   sqlVars, faults>>

(* ScanTenants: a new manager is created, a registered one is told of the  *)
(* document; messages to a manager that has stopped are lost.              *)
ScanServer ==
    /\ daPc = "scan"
    /\ IF registered
       THEN /\ mgrInbox' = IF mode = "Stopped" THEN mgrInbox
                           ELSE Append(mgrInbox, ServerMessage(daServer))
            /\ UNCHANGED <<mode, registered>>
       ELSE /\ mode = "Stopped"
            /\ mode' = "Initializing" /\ mgrInbox' = <<ServerMessage(daServer)>>
            /\ registered' = TRUE
    /\ daPc' = "load"
    /\ UNCHANGED <<docVars, apiVars, daServer, daDatabase, daInbox, busy, state, children,
                   dbVars, sqlVars, faults>>

(* ScanTenants: the database documents that the copy of the server lists   *)
(* are loaded, and those that exist are handed to the manager.             *)
ScanDatabases ==
    /\ daPc = "load"
    /\ \E order \in SetToSeqs({d \in daServer.ids : database[d] # NoDatabase}) :
          mgrInbox' = IF mode = "Stopped" THEN mgrInbox
                      ELSE mgrInbox \o [i \in DOMAIN order |->
                                          DatabaseMessage(order[i], database[order[i]])]
    /\ daPc' = "idle" /\ daServer' = NoServer
    /\ UNCHANGED <<docVars, apiVars, daDatabase, daInbox, registered, mode, busy, state,
                   children, dbVars, sqlVars, faults>>

(* UpdateDatabaseProvisioningStatus loads the database and its server,     *)
(* UpdateServerProvisioningStatus the server; when one is gone the         *)
(* notification is dropped.                                                *)
AboutDatabase(m) == m.kind \in DatabaseKinds

LoadForUpdate ==
    /\ daPc = "idle" /\ daInbox # <<>>
    /\ RequestsOverlap \/ SessionsClosed
    /\ LET m == Head(daInbox) IN
       /\ m.kind \notin {"terminated", "orphaned"}
       /\ IF server = NoServer \/ (AboutDatabase(m) /\ database[m.id] = NoDatabase)
          THEN daInbox' = Tail(daInbox) /\ UNCHANGED <<daPc, daServer, daDatabase>>
          ELSE /\ daPc' = "update" /\ daServer' = server
               /\ daDatabase' = IF AboutDatabase(m) THEN database[m.id] ELSE NoDatabase
               /\ UNCHANGED daInbox
    /\ UNCHANGED <<docVars, apiVars, registered, mgrVars, dbVars, sqlVars, faults>>

(* A session saves a document only if it has changed it. *)
Saved(loaded, edited, stored) == IF edited = loaded THEN stored ELSE edited

DatabaseUpdated(db, kind) ==
    IF kind = "deprovisioned" THEN NoDatabase
    ELSE [db EXCEPT !.status = StatusOf(kind),
                    !.action = IF StatusOf(kind) = "Deprovisioning" THEN @ ELSE "None"]

ServerUpdated(s, kind) ==
    CASE kind = "serverGone"  -> NoServer
      [] kind = "serverBusy"  -> [s EXCEPT !.status = "Pending"]
      [] kind = "serverReady" -> [s EXCEPT !.status = "Ready", !.action = "None"]
      [] kind = "serverError" -> [s EXCEPT !.status = "Error", !.action = "None"]

(* Faulty variant: the server keeps the id of a deleted database.          *)
SaveDatabaseUpdateKeepingId ==
    /\ daPc = "update" /\ AboutDatabase(Head(daInbox))
    /\ LET m == Head(daInbox)
           edited == DatabaseUpdated(daDatabase, m.kind)
       IN database' = [database EXCEPT ![m.id] = Saved(daDatabase, edited, @)]
    /\ indexed' = indexed \cap Hosted'
    /\ daInbox' = Tail(daInbox)
    /\ daPc' = "idle" /\ daServer' = NoServer /\ daDatabase' = NoDatabase
    /\ UNCHANGED <<server, apiVars, registered, mgrVars, dbVars, sqlVars, faults>>

(* UpdateDatabaseProvisioningStatus saves.  When the database has been     *)
(* deleted its id is removed from the server, which is then saved as well. *)
SaveDatabaseUpdate ==
    /\ daPc = "update" /\ AboutDatabase(Head(daInbox))
    /\ LET m == Head(daInbox)
           edited == DatabaseUpdated(daDatabase, m.kind)
           remaining == IF edited = NoDatabase THEN daServer.ids \ {m.id} ELSE daServer.ids
       IN /\ database' = [database EXCEPT ![m.id] = Saved(daDatabase, edited, @)]
          /\ server' = Saved(daServer, [daServer EXCEPT !.ids = remaining], server)
          /\ indexed' = indexed \cap Hosted'
    /\ daInbox' = Tail(daInbox)
    /\ daPc' = "idle" /\ daServer' = NoServer /\ daDatabase' = NoDatabase
    /\ UNCHANGED <<apiVars, registered, mgrVars, dbVars, sqlVars, faults>>

(* UpdateServerProvisioningStatus saves: it has added an event in any case. *)
SaveServerUpdate ==
    /\ daPc = "update" /\ ~AboutDatabase(Head(daInbox))
    /\ server' = ServerUpdated(daServer, Head(daInbox).kind)
    /\ daInbox' = Tail(daInbox)
    /\ daPc' = "idle" /\ daServer' = NoServer
    /\ UNCHANGED <<database, indexed, apiVars, daDatabase, registered, mgrVars, dbVars, sqlVars, faults>>

(* Receive<Terminated>. *)
ServerManagerTerminated ==
    /\ daPc = "idle" /\ daInbox # <<>> /\ Head(daInbox).kind = "terminated"
    /\ registered' = FALSE /\ daInbox' = Tail(daInbox)
    /\ UNCHANGED <<docVars, apiVars, daPc, daServer, daDatabase, mgrVars, dbVars, sqlVars, faults>>

-----------------------------------------------------------------------------
(* TenantServerManager.  It handles a message when it is not awaiting the  *)
(* calls of a server-level action.                                         *)

StopDatabaseManagers ==
    /\ dbMode' = [d \in Databases |-> "Stopped"] /\ dbPc' = [d \in Databases |-> "idle"]
    /\ dbState' = [d \in Databases |-> NoDatabase]
    /\ dbInbox' = [d \in Databases |-> <<>>]
    /\ UNCHANGED provisioned

(* A manager that stops takes its children with it. *)
StopManager ==
    /\ mode' = "Stopped" /\ busy' = FALSE /\ state' = NoState
    /\ mgrInbox' = <<>> /\ children' = {}
    /\ StopDatabaseManagers

(* T-SQL that has been sent for the databases in D when their managers     *)
(* stop: each batch may still be executed, or not.                         *)
CallsLost(D) ==
    \E made \in SUBSET {d \in D : dbPc[d] = "create" /\ dbState[d].name \notin databases},
      dropped \in SUBSET {d \in D : dbPc[d] = "drop"} :
      LET new  == {dbState[d].name : d \in made}
          gone == {dbState[d].name : d \in dropped}
      IN /\ databases' \in {(databases \cup new) \ gone, (databases \ gone) \cup new}
         /\ \E given \in SUBSET made : logins' = logins \cup {dbState[d].user : d \in given}

(* The actor is Ready from here on and sends itself the initial state.     *)
HandleInitialize ==
    /\ mode = "Initializing"
    /\ mode' = "Ready"
    /\ state' = Head(mgrInbox).server
    /\ mgrInbox' = Append(Tail(mgrInbox), Head(mgrInbox))
    /\ UNCHANGED <<docVars, apiVars, daVars, busy, children, dbVars, sqlVars, faults>>

MessageIs(kind) ==
    mode = "Ready" /\ mgrInbox # <<>> /\ Head(mgrInbox).kind = kind

MayHandle(kind) == MessageIs(kind) /\ ~busy

(* A document without an action: the manager only remembers it, and looks  *)
(* up the ingress.                                                         *)
HandleServer ==
    /\ MayHandle("server") /\ Head(mgrInbox).server.action = "None"
    /\ state' = Head(mgrInbox).server /\ mgrInbox' = Tail(mgrInbox)
    /\ UNCHANGED <<docVars, apiVars, daVars, mode, busy, children, dbVars, sqlVars, faults>>

(* A document with an action: the first of its phases is announced.        *)
StartServerAction ==
    /\ MayHandle("server") /\ Head(mgrInbox).server.action # "None"
    /\ state' = Head(mgrInbox).server /\ mgrInbox' = Tail(mgrInbox)
    /\ busy' = TRUE
    /\ daInbox' = Append(daInbox, OfServer("serverBusy"))
    /\ UNCHANGED <<docVars, apiVars, daPc, daServer, daDatabase, registered, mode, children,
                   dbVars, sqlVars, faults>>

(* A Reconfigure ends, one way or the other.                               *)
ReconfigureEnds ==
    /\ busy /\ state.action = "Reconfigure"
    /\ \/ /\ daInbox' = Append(daInbox, OfServer("serverReady"))
          /\ UNCHANGED <<state, faults>>
       \/ /\ Fault
          /\ daInbox' = Append(daInbox, OfServer("serverError"))
          /\ state' = [state EXCEPT !.status = "Error"]
    /\ busy' = FALSE
    /\ UNCHANGED <<docVars, apiVars, daPc, daServer, daDatabase, registered, mode, mgrInbox,
                   children, dbVars, sqlVars>>

(* A Deprovision ends: with the instance and everything in it gone, ...    *)
DeprovisionEnds ==
    /\ busy /\ state.action = "Deprovision"
    /\ daInbox' = daInbox \o <<OfServer("serverGone"), OfServer("terminated")>>
    /\ databases' = {} /\ logins' = {}
    /\ StopManager
    /\ UNCHANGED <<docVars, apiVars, daPc, daServer, daDatabase, registered, faults>>

(* ... or in a failure that leaves the data where it is, or not.           *)
DeprovisionFails ==
    /\ busy /\ state.action = "Deprovision" /\ Fault
    /\ daInbox' = Append(daInbox, OfServer("serverError"))
    /\ state' = [state EXCEPT !.status = "Error"] /\ busy' = FALSE
    /\ UNCHANGED sqlVars \/ (databases' = {} /\ logins' = {})
    /\ UNCHANGED <<docVars, apiVars, daPc, daServer, daDatabase, registered, mode, mgrInbox,
                   children, dbVars>>

(* The look-up of the ingress, or a poll during a Reconfigure, throws what  *)
(* nobody catches: the supervisor stops the actor and its children.        *)
UncaughtFailure ==
    /\ \/ busy /\ state.action = "Reconfigure"
       \/ MayHandle("server") /\ Head(mgrInbox).server.action = "None"
    /\ Fault
    /\ daInbox' = Append(daInbox, OfServer("terminated"))
    /\ StopManager /\ CallsLost(Databases)
    /\ UNCHANGED <<docVars, apiVars, daPc, daServer, daDatabase, registered>>

(* WaitForServerAvailable, which a Reconfigure goes through, drops         *)
(* documents of servers and of databases.                                  *)
IgnoreWhileWaiting ==
    /\ busy /\ state.action = "Reconfigure"
    /\ MessageIs("server") \/ MessageIs("database")
    /\ mgrInbox' = Tail(mgrInbox)
    /\ UNCHANGED <<docVars, apiVars, daVars, mode, busy, state, children, dbVars, sqlVars, faults>>

(* Databases of a server that is not Ready are ignored.                    *)
IgnoreDatabase ==
    /\ MayHandle("database") /\ state.status # "Ready"
    /\ mgrInbox' = Tail(mgrInbox)
    /\ UNCHANGED <<docVars, apiVars, daVars, mode, busy, state, children, dbVars, sqlVars, faults>>

(* UpdateDatabaseState: create a manager for the database, or tell the one *)
(* there is; what is sent to one that has stopped is lost.                 *)
UpdateDatabaseState ==
    /\ MayHandle("database") /\ state.status = "Ready"
    /\ LET d == Head(mgrInbox).id
           db == Head(mgrInbox).database
       IN IF d \in children
          THEN /\ dbInbox' = IF dbMode[d] = "Stopped" THEN dbInbox
                             ELSE [dbInbox EXCEPT ![d] = Append(@, db)]
               /\ UNCHANGED <<children, dbMode>>
          ELSE /\ dbMode[d] = "Stopped"
               /\ dbMode' = [dbMode EXCEPT ![d] = "Initializing"]
               /\ dbInbox' = [dbInbox EXCEPT ![d] = <<db>>]
               /\ children' = children \cup {d}
    /\ mgrInbox' = Tail(mgrInbox)
    /\ UNCHANGED <<docVars, apiVars, daVars, mode, busy, state, dbPc, dbState, provisioned,
                   sqlVars, faults>>

(* Faulty variant: a terminated manager stays in _databaseManagers.        *)
HandleTerminationKept ==
    /\ MessageIs("terminated")
    /\ busy => state.action = "Reconfigure"
    /\ mgrInbox' = Tail(mgrInbox)
    /\ UNCHANGED <<docVars, apiVars, daVars, mode, busy, state, children, dbVars, sqlVars, faults>>

(* HandleTermination, in Ready and in WaitForServerAvailable.              *)
HandleTermination ==
    /\ MessageIs("terminated")
    /\ busy => state.action = "Reconfigure"
    /\ children' = children \ {Head(mgrInbox).id}
    /\ mgrInbox' = Tail(mgrInbox)
    /\ UNCHANGED <<docVars, apiVars, daVars, mode, busy, state, dbVars, sqlVars, faults>>

-----------------------------------------------------------------------------
(* TenantDatabaseManager of database d.                                    *)

Tell(kind, d) == daInbox' = Append(daInbox, About(kind, d))
Await(d, call) == dbPc' = [dbPc EXCEPT ![d] = call]

(* Faulty variant: the actor is not watched.                               *)
StopDatabaseManagerUnwatched(d) ==
    /\ dbMode' = [dbMode EXCEPT ![d] = "Stopped"] /\ Await(d, "idle")
    /\ dbState' = [dbState EXCEPT ![d] = NoDatabase]
    /\ dbInbox' = [dbInbox EXCEPT ![d] = <<>>]
    /\ UNCHANGED mgrInbox

(* The actor stops: its parent is told.                                    *)
StopDatabaseManager(d) ==
    /\ dbMode' = [dbMode EXCEPT ![d] = "Stopped"] /\ Await(d, "idle")
    /\ dbState' = [dbState EXCEPT ![d] = NoDatabase]
    /\ dbInbox' = [dbInbox EXCEPT ![d] = <<>>]
    /\ mgrInbox' = Append(mgrInbox, ManagerTerminated(d))

DbInitialize(d) ==
    /\ dbMode[d] = "Initializing"
    /\ dbMode' = [dbMode EXCEPT ![d] = "Ready"]
    /\ dbState' = [dbState EXCEPT ![d] = Head(dbInbox[d])]
    /\ dbInbox' = [dbInbox EXCEPT ![d] = Append(Tail(@), Head(@))]
    /\ UNCHANGED <<docVars, apiVars, daVars, mgrVars, dbPc, provisioned, sqlVars, faults>>

(* The next document becomes ActiveProvisioner.State. *)
TakeDatabase(d) ==
    /\ dbMode[d] = "Ready" /\ dbPc[d] = "idle" /\ dbInbox[d] # <<>>
    /\ dbState' = [dbState EXCEPT ![d] = Head(dbInbox[d])]
    /\ dbInbox' = [dbInbox EXCEPT ![d] = Tail(@)]

(* Provision / Deprovision begin: DataAccess is told, and the provisioner  *)
(* is asked whether the database exists.                                   *)
DbStart(d) ==
    /\ TakeDatabase(d)
    /\ \/ Head(dbInbox[d]).action = "Provision" /\ Tell("provisioning", d)
       \/ Head(dbInbox[d]).action = "Deprovision" /\ Tell("deprovisioning", d)
    /\ Await(d, "exists")
    /\ UNCHANGED <<docVars, apiVars, daPc, daServer, daDatabase, registered, mgrVars, dbMode,
                   provisioned, sqlVars, faults>>

(* There is no case for other actions, Reconfigure included.               *)
DbIgnore(d) ==
    /\ TakeDatabase(d)
    /\ Head(dbInbox[d]).action \in {"None", "Reconfigure"}
    /\ UNCHANGED <<docVars, apiVars, daVars, mgrVars, dbMode, dbPc, provisioned, sqlVars, faults>>

Exists(d) == dbState[d].name \in databases

(* A database that exists is treated as provisioned. *)
DbFound(d) ==
    /\ dbPc[d] = "exists" /\ dbState[d].action = "Provision" /\ Exists(d)
    /\ Tell("provisioned", d) /\ provisioned' = provisioned \cup {d}
    /\ Await(d, "idle")
    /\ UNCHANGED <<docVars, apiVars, daPc, daServer, daDatabase, registered, mgrVars, dbMode,
                   dbState, dbInbox, sqlVars, faults>>

(* One that does not is treated as de-provisioned. *)
DbNotFound(d) ==
    /\ dbPc[d] = "exists" /\ dbState[d].action = "Deprovision" /\ ~Exists(d)
    /\ Tell("deprovisioned", d)
    /\ StopDatabaseManager(d)
    /\ UNCHANGED <<docVars, apiVars, daPc, daServer, daDatabase, registered, mode, busy, state,
                   children, provisioned, sqlVars, faults>>

DbCall(d) ==
    /\ dbPc[d] = "exists"
    /\ \/ dbState[d].action = "Provision" /\ ~Exists(d) /\ Await(d, "create")
       \/ dbState[d].action = "Deprovision" /\ Exists(d) /\ Await(d, "drop")
    /\ UNCHANGED <<docVars, apiVars, daVars, mgrVars, dbMode, dbState, dbInbox, provisioned,
                   sqlVars, faults>>

(* CreateDatabase: the batches "Create Database" and "Create Login" both   *)
(* succeed.                                                                *)
DbCreated(d) ==
    /\ dbPc[d] = "create" /\ ~Exists(d) /\ dbState[d].user \notin logins
    /\ databases' = databases \cup {dbState[d].name}
    /\ logins' = logins \cup {dbState[d].user}
    /\ Tell("provisioned", d) /\ provisioned' = provisioned \cup {d}
    /\ Await(d, "idle")
    /\ UNCHANGED <<docVars, apiVars, daPc, daServer, daDatabase, registered, mgrVars, dbMode,
                   dbState, dbInbox, faults>>

(* Faulty variants: the result of the command is not looked at; a failed   *)
(* creation is cleaned up.                                                 *)
DbCreateFailedUnnoticed(d) ==
    /\ dbPc[d] = "create" /\ Fault
    /\ CallsLost({d})
    /\ Tell("provisioned", d) /\ provisioned' = provisioned \cup {d}
    /\ Await(d, "idle")
    /\ UNCHANGED <<docVars, apiVars, daPc, daServer, daDatabase, registered, mgrVars, dbMode,
                   dbState, dbInbox>>

DbCreateFailedCleanedUp(d) ==
    /\ dbPc[d] = "create" /\ Exists(d)
    /\ databases' = databases \ {dbState[d].name}
    /\ Tell("failed", d)
    /\ Await(d, "idle")
    /\ UNCHANGED <<docVars, apiVars, daPc, daServer, daDatabase, registered, mgrVars, dbMode,
                   dbState, dbInbox, provisioned, logins, faults>>

(* ... or one of them fails and the rest is not executed: because there is *)
(* such a database or such a login, or for another reason.                 *)
DbCreateFailed(d) ==
    /\ dbPc[d] = "create"
    /\ \/ Exists(d) /\ UNCHANGED <<sqlVars, faults>>
       \/ /\ ~Exists(d) /\ dbState[d].user \in logins
          /\ databases' = databases \cup {dbState[d].name} /\ UNCHANGED <<logins, faults>>
       \/ Fault /\ CallsLost({d})
    /\ Tell("failed", d)
    /\ Await(d, "idle")
    /\ UNCHANGED <<docVars, apiVars, daPc, daServer, daDatabase, registered, mgrVars, dbMode,
                   dbState, dbInbox, provisioned>>

(* Faulty variant: a failed drop is reported as a success.                 *)
DbDroppedAnyway(d) ==
    /\ dbPc[d] = "drop"
    /\ databases' \in {databases, databases \ {dbState[d].name}}
    /\ Tell("deprovisioned", d)
    /\ StopDatabaseManager(d)
    /\ UNCHANGED <<docVars, apiVars, daPc, daServer, daDatabase, registered, mode, busy, state,
                   children, provisioned, logins, faults>>

(* DropDatabase succeeds; the login stays. *)
DbDropped(d) ==
    /\ dbPc[d] = "drop" /\ Exists(d)
    /\ databases' = databases \ {dbState[d].name}
    /\ Tell("deprovisioned", d)
    /\ StopDatabaseManager(d)
    /\ UNCHANGED <<docVars, apiVars, daPc, daServer, daDatabase, registered, mode, busy, state,
                   children, provisioned, logins, faults>>

(* ... or fails, which nobody is told: the next scan tries again.          *)
DbDropFailed(d) ==
    /\ dbPc[d] = "drop"
    /\ Fault \/ (~Exists(d) /\ UNCHANGED faults)
    /\ Await(d, "idle")
    /\ UNCHANGED <<docVars, apiVars, daVars, mgrVars, dbMode, dbState, dbInbox, provisioned,
                   sqlVars>>

(* A call to the database proxy throws: the supervisor stops the actor.    *)
DbUncaught(d) ==
    /\ dbPc[d] # "idle" /\ Fault
    /\ CallsLost({d})
    /\ StopDatabaseManager(d)
    /\ UNCHANGED <<docVars, apiVars, daVars, mode, busy, state, children, provisioned>>

-----------------------------------------------------------------------------
(* Failures of the engine, as in TenantServer.                             *)

ForgetManager == StopManager /\ registered' = FALSE /\ CallsLost(Databases)

EngineCrash ==
    /\ Fault
    /\ daPc' = "idle" /\ daServer' = NoServer /\ daDatabase' = NoDatabase /\ daInbox' = <<>>
    /\ ForgetManager
    /\ UNCHANGED <<docVars, apiVars>>

(* A RavenDB call of DataAccess throws. *)
DataAccessRestart ==
    /\ daPc \in {"scan", "load", "update"} /\ Fault
    /\ LET kept == IF daPc = "update" THEN Tail(daInbox) ELSE daInbox
       IN daInbox' = [i \in DOMAIN kept |->
                        IF kept[i].kind = "terminated" THEN OfServer("orphaned") ELSE kept[i]]
    /\ daPc' = "idle" /\ daServer' = NoServer /\ daDatabase' = NoDatabase
    /\ ForgetManager
    /\ UNCHANGED <<docVars, apiVars>>

DeathPact ==
    /\ daPc = "idle" /\ daInbox # <<>> /\ Head(daInbox).kind = "orphaned"
    /\ daPc' = "stopped" /\ daInbox' = <<>> /\ UNCHANGED <<daServer, daDatabase>>
    /\ ForgetManager
    /\ UNCHANGED <<docVars, apiVars, faults>>

-----------------------------------------------------------------------------
API == \E c \in Clients :
          \/ \E n \in Names, u \in Users : LoadForCreate(c, n, u)
          \/ \E d \in Databases, a \in {"Deprovision", "Reconfigure"} : LoadForDatabase(c, d, a)
          \/ \E a \in ServerActions : LoadForServer(c, a)
          \/ SaveRequest(c)

Scan == ScanServer \/ ScanDatabases
Update == LoadForUpdate \/ SaveDatabaseUpdate \/ SaveServerUpdate \/ ServerManagerTerminated

ServerManager ==
    \/ HandleInitialize \/ HandleServer \/ StartServerAction \/ ReconfigureEnds
    \/ DeprovisionEnds \/ DeprovisionFails \/ UncaughtFailure \/ IgnoreWhileWaiting
    \/ IgnoreDatabase \/ UpdateDatabaseState \/ HandleTermination

DatabaseManager(d) ==
    \/ DbInitialize(d) \/ DbStart(d) \/ DbIgnore(d) \/ DbFound(d) \/ DbNotFound(d) \/ DbCall(d)
    \/ DbCreated(d) \/ DbCreateFailed(d) \/ DbDropped(d) \/ DbDropFailed(d) \/ DbUncaught(d)

Next == \/ API \/ IndexUpdates \/ ScanQuery \/ Scan \/ Update \/ ServerManager
        \/ \E d \in Databases : DatabaseManager(d)
        \/ EngineCrash \/ DataAccessRestart \/ DeathPact

Spec == Init /\ [][Next]_vars

(* Fairness, as in TenantServer: mailboxes are drained, awaited calls      *)
(* return, the scan timer repeats for ever, sessions that have begun end.  *)
FairSpec ==
    /\ Spec
    /\ \A c \in Clients : WF_vars(SaveRequest(c))
    /\ WF_vars(Scan) /\ WF_vars(Update \/ DeathPact) /\ SF_vars(ScanQuery)
    /\ WF_vars(ServerManager)
    /\ \A d \in Databases : WF_vars(DatabaseManager(d))

-----------------------------------------------------------------------------
(***************************************************************************)
(* Safety under every schedule.                                            *)
(***************************************************************************)

Terminations == {i \in DOMAIN daInbox : daInbox[i].kind = "terminated"}
ChildTerminations(d) ==
    {i \in DOMAIN mgrInbox : mgrInbox[i].kind = "terminated" /\ mgrInbox[i].id = d}

(* _serverManagers, _databaseManagers and the actors agree on two levels:  *)
(* a live manager is registered with its live parent, which therefore      *)
(* never asks Akka for a second actor of the same name, and for every      *)
(* registered manager that has stopped just one Terminated is on its way.  *)
RegistriesCoherent ==
    /\ mode # "Stopped" => registered /\ Terminations = {}
    /\ mode = "Stopped" => Cardinality(Terminations) = (IF registered THEN 1 ELSE 0)
    /\ \A d \in Databases :
         /\ dbMode[d] # "Stopped" =>
               mode # "Stopped" /\ d \in children /\ ChildTerminations(d) = {}
         /\ dbMode[d] = "Stopped" =>
               Cardinality(ChildTerminations(d)) = (IF d \in children THEN 1 ELSE 0)

(* A database's document is deleted only when the database is gone, or     *)
(* another document claims it.                                             *)
DeletedMeansDropped ==
    [][ \A d \in Databases :
          database[d] # NoDatabase /\ database'[d] = NoDatabase =>
             \/ database[d].name \notin databases
             \/ \E e \in Hosted \ {d} : database[e].name = database[d].name
      ]_vars

(* No step removes a database from the instance unless somebody has asked  *)
(* for a database of that name, or for the server, to be deleted.          *)
DropIsRequested ==
    [][ \A n \in databases \ databases' :
          destroyAccepted \/ \E d \in Databases : <<d, n>> \in deleteAccepted ]_vars

(***************************************************************************)
(* Properties that need slow timers and sessions that do not overlap.      *)
(***************************************************************************)

(* A server lists exactly the databases that have documents. *)
IdsAgree == server # NoServer => Hosted = server.ids

(* The names of the databases in a server are unique.  That the API checks *)
(* it does not make it so: the index may not know of the other one yet.    *)
NamesUnique ==
    \A d, e \in Hosted : database[d].name = database[e].name => d = e

(* A database that has been reported as created is there until its         *)
(* deletion, or its server's, is requested: also when it has the name of   *)
(* one that was deleted before.  Not so when another document has had its  *)
(* name together with it: the two have one database between them.          *)
ProvisionedStays ==
    \A d \in Hosted \ shared :
       /\ d \in provisioned /\ ~destroyAccepted
       /\ <<d, database[d].name>> \notin deleteAccepted
       => database[d].name \in databases

(* The databases of the server as DatabaseLifecycle describes them: the    *)
(* documents, the requests that were accepted, and what the instance holds.*)
(* An id that CreateDatabase has given out is used when both are saved.    *)
SavesBoth(s) == s.server # NoServer /\ s.database # NoDatabase

Host   == IF server = NoServer THEN "gone"
          ELSE IF server.action = "Deprovision" THEN "closing" ELSE "open"
Listed == {<<d, database[d].name>> : d \in Hosted}
Used   == created \ {session[c].id : c \in {c \in Clients : SavesBoth(session[c])}}
Doomed == {accepted[1] : accepted \in deleteAccepted}

Lifecycle ==
    INSTANCE DatabaseLifecycle WITH
        host <- Host, listed <- Listed, used <- Used, doomed <- Doomed,
        confirmed <- provisioned, present <- databases

(* The API, the engine's actors, the instance and every failure between    *)
(* them implement the life of databases a tenant may count on.             *)
ImplementsLifecycle == Lifecycle!Spec

(* Requests to create or to delete a database settle while the server is   *)
(* Ready.                                                                  *)
RequestsSettle ==
    \A d \in Databases :
       (database[d] # NoDatabase /\ database[d].action \in {"Provision", "Deprovision"}) ~>
       (\/ database[d] = NoDatabase \/ database[d].action = "None"
        \/ server = NoServer \/ server.status # "Ready" \/ daPc = "stopped")
=============================================================================
