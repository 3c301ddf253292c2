---------------------------- MODULE TenantServer ----------------------------
(***************************************************************************)
(* The life of one tenant database server: API requests edit its document  *)
(* in the management database, the DataAccess actor scans the document and *)
(* stores the notifications it receives, the TenantServerManager actor     *)
(* converges Kubernetes with the document it was last handed, phase by     *)
(* phase.  The three never share memory: they meet in the document store   *)
(* (whole documents, last write wins, no concurrency check anywhere in the *)
(* code), in two mailboxes and in Kubernetes.                              *)
(*                                                                         *)
(* A step ends where a handler awaits something another process can        *)
(* observe or change: a document session's load and its SaveChanges, a     *)
(* Kubernetes call.                                                        *)
(***************************************************************************)
EXTENDS DaaSModels, FiniteSets

CONSTANTS
    Clients,         \* concurrent API requests
    Kind,            \* DatabaseServerKind of the server
    RequestsOverlap, \* may another session run between a session's load and save?
    TimersRace,      \* may a timer fire before the work of the last one is done?
    MaxRequests,     \* bound: requests that pass the API's checks
    MaxFaults,       \* bound: failing Kubernetes and RavenDB calls, crashes
    MailboxLimit,    \* bound: no scan starts while this many documents wait for the manager
    NotificationLimit \* bound: the manager sends nothing while this many wait

ASSUME ConstantsAssumption ==
    /\ Kind \in {"SqlServer", "RavenDB"}
    /\ RequestsOverlap \in BOOLEAN /\ TimersRace \in BOOLEAN
    /\ MaxRequests \in Nat /\ MaxFaults \in Nat /\ MailboxLimit \in Nat \ {0}
    /\ NotificationLimit \in Nat \ {0}

VARIABLES
    (* The management database. *)
    server,      \* the DatabaseServer document, or NoServer
    session,     \* session[c]: the API session of client c
    (* DataAccess. *)
    daPc,        \* "idle", inside ScanTenants ("scan") or an update ("update"), "stopped"
    daServer,    \* the copy loaded by the session that is open
    daInbox,     \* notifications
    registered,  \* is the manager an entry of _serverManagers?
    (* TenantServerManager. *)
    mode,        \* its behaviour: Initializing, Ready or WaitForServerAvailable
    pc,          \* "idle", or awaiting the call of a "phase" or of the "ingress" check
    state,       \* Provisioner.State
    mgrInbox,    \* DatabaseServer messages (the head is Initialize's, at first)
    (* Kubernetes and the database server running in it. *)
    kube,        \* resources that exist, by the phase that creates them
    deployment,  \* what the Deployment's status says of its replicas
    port,        \* the external service's node port, NoPort when it does not exist
    configured,  \* has the server's initial configuration been applied?
    (* History and budgets. *)
    destroyAccepted, \* has a DestroyServer request been accepted?
    leaked,          \* has a failed delete been swallowed?
    requests, faults

dbVars   == <<server, session, destroyAccepted, requests>>
daVars   == <<daPc, daServer, daInbox, registered>>
mgrVars  == <<mode, pc, state, mgrInbox>>
kubeVars == <<kube, deployment, port, configured>>
vars     == <<dbVars, daVars, mgrVars, kubeVars, leaked, faults>>

(* Resources of a fully provisioned server besides its external service;   *)
(* only SQL Server instances are monitored.                                *)
Resources == {"Storage", "Security", "Instance", "Network", "Monitoring"}
Expected == IF Kind = "SqlServer" THEN Resources ELSE Resources \ {"Monitoring"}

Sessions == [op : {"None", "Reconfigure", "Deprovision"},
             server : DatabaseServer \cup {NoServer}]
NoSession == [op |-> "None", server |-> NoServer]

TypeOK ==
    /\ server \in DatabaseServer \cup {NoServer}
    /\ session \in [Clients -> Sessions]
    /\ daPc \in {"idle", "scan", "update", "stopped"}
    /\ daServer \in DatabaseServer \cup {NoServer}
    /\ daInbox \in Seq(Notification)
    /\ registered \in BOOLEAN
    /\ mode \in {"Stopped", "Initializing", "Ready", "Waiting"}
    /\ pc \in {"idle", "phase", "ingress"}
    /\ state \in DatabaseServer \cup {NoServer}
    /\ mgrInbox \in Seq(DatabaseServer)
    /\ kube \in SUBSET Resources
    /\ deployment \in {"unobserved", "unavailable", "available"}
    /\ port \in Ports \cup {NoPort}
    /\ configured \in BOOLEAN
    /\ destroyAccepted \in BOOLEAN /\ leaked \in BOOLEAN
    /\ requests \in 0..MaxRequests /\ faults \in 0..MaxFaults

Init ==
    /\ server = NoServer /\ session = [c \in Clients |-> NoSession]
    /\ daPc = "idle" /\ daServer = NoServer /\ daInbox = <<>> /\ registered = FALSE
    /\ mode = "Stopped" /\ pc = "idle" /\ state = NoServer /\ mgrInbox = <<>>
    /\ kube = {} /\ deployment = "unobserved" /\ port = NoPort /\ configured = FALSE
    /\ destroyAccepted = FALSE /\ leaked = FALSE
    /\ requests = 0 /\ faults = 0

(* A call that fails uses up one of the bounded number of faults. *)
Fault == faults < MaxFaults /\ faults' = faults + 1

-----------------------------------------------------------------------------
(* API: ServersController.  A request loads the document, checks it and    *)
(* writes the whole document back.                                         *)

SessionsClosed == \A c \in Clients : session[c] = NoSession

(* CreateSqlServer / CreateRavenServer. *)
CreateServer ==
    /\ requests = 0 /\ MaxRequests > 0
    /\ server' = CreatedServer
    /\ requests' = 1
    /\ UNCHANGED <<session, destroyAccepted, daVars, mgrVars, kubeVars, leaked, faults>>

(* Faulty variant: the check that the server is not busy is missing.       *)
LoadForRequestUnchecked(c, op) ==
    /\ session[c] = NoSession
    /\ requests < MaxRequests
    /\ RequestsOverlap \/ (SessionsClosed /\ daPc # "update")
    /\ server # NoServer
    /\ session' = [session EXCEPT ![c] = [op |-> op, server |-> server]]
    /\ requests' = requests + 1
    /\ UNCHANGED <<server, destroyAccepted, daVars, mgrVars, kubeVars, leaked, faults>>

(* ReconfigureServer / DestroyServer up to the guard; refused requests     *)
(* (404, 409) change nothing.                                              *)
LoadForRequest(c, op) ==
    /\ session[c] = NoSession
    /\ requests < MaxRequests
    /\ RequestsOverlap \/ (SessionsClosed /\ daPc # "update")
    /\ server # NoServer
    /\ server.action = "None"
    /\ session' = [session EXCEPT ![c] = [op |-> op, server |-> server]]
    /\ requests' = requests + 1
    /\ UNCHANGED <<server, destroyAccepted, daVars, mgrVars, kubeVars, leaked, faults>>

(* SaveChanges; the caller is told that the request is queued. *)
SaveRequest(c) ==
    /\ session[c] # NoSession
    /\ server' = Requested(session[c].server, session[c].op)
    /\ destroyAccepted' = (destroyAccepted \/ session[c].op = "Deprovision")
    /\ session' = [session EXCEPT ![c] = NoSession]
    /\ UNCHANGED <<requests, daVars, mgrVars, kubeVars, leaked, faults>>

-----------------------------------------------------------------------------
(* When TimersRace is FALSE, timers are slow: a timer message is handled   *)
(* only once everything earlier timer messages led to has been handled.    *)
Quiescent ==
    /\ SessionsClosed
    /\ daPc = "idle" /\ daInbox = <<>>
    /\ pc = "idle" /\ mgrInbox = <<>>

TimerMayFire == TimersRace \/ Quiescent

(* ScanTenants: the query. *)
ScanRead ==
    /\ daPc = "idle" /\ TimerMayFire
    /\ Len(mgrInbox) < MailboxLimit
    /\ server # NoServer
    /\ daPc' = "scan" /\ daServer' = server
    /\ UNCHANGED <<dbVars, daInbox, registered, mgrVars, kubeVars, leaked, faults>>

(* Faulty variant: the new manager is not entered in _serverManagers.      *)
ScanCreateManagerUnregistered ==
    /\ daPc = "scan" /\ ~registered
    /\ mode = "Stopped"
    /\ mode' = "Initializing" /\ mgrInbox' = <<daServer>>
    /\ daPc' = "idle" /\ daServer' = NoServer
    /\ UNCHANGED <<dbVars, daInbox, registered, pc, state, kubeVars, leaked, faults>>

(* ScanTenants: a server without a registered manager gets a new one.      *)
(* ActorOf requires that no actor of that name is alive.                   *)
ScanCreateManager ==
    /\ daPc = "scan" /\ ~registered
    /\ mode = "Stopped"
    /\ registered' = TRUE
    /\ mode' = "Initializing" /\ mgrInbox' = <<daServer>>
    /\ daPc' = "idle" /\ daServer' = NoServer
    /\ UNCHANGED <<dbVars, daInbox, pc, state, kubeVars, leaked, faults>>

(* ScanTenants: a registered manager is told of the current document; what *)
(* is sent to a manager that has stopped is lost.                          *)
ScanNotifyManager ==
    /\ daPc = "scan" /\ registered
    /\ mgrInbox' = IF mode = "Stopped" THEN mgrInbox ELSE Append(mgrInbox, daServer)
    /\ daPc' = "idle" /\ daServer' = NoServer
    /\ UNCHANGED <<dbVars, daInbox, registered, mode, pc, state, kubeVars, leaked, faults>>

(* UpdateServerProvisioningStatus / UpdateServerIngress: the session loads *)
(* the document; a notification about a deleted server is dropped.         *)
LoadForUpdate ==
    /\ daPc = "idle" /\ daInbox # <<>>
    /\ Head(daInbox).kind \notin {"terminated", "orphaned"}
    /\ RequestsOverlap \/ SessionsClosed
    /\ IF server = NoServer
       THEN daInbox' = Tail(daInbox) /\ UNCHANGED <<daPc, daServer>>
       ELSE daPc' = "update" /\ daServer' = server /\ UNCHANGED daInbox
    /\ UNCHANGED <<dbVars, registered, mgrVars, kubeVars, leaked, faults>>

(* ... and saves it. *)
SaveUpdate ==
    /\ daPc = "update"
    /\ server' = Updated(daServer, Head(daInbox))
    /\ daInbox' = Tail(daInbox)
    /\ daPc' = "idle" /\ daServer' = NoServer
    /\ UNCHANGED <<session, destroyAccepted, requests, registered, mgrVars,
                   kubeVars, leaked, faults>>

(* Faulty variant: a terminated manager stays in _serverManagers.          *)
ManagerTerminatedKept ==
    /\ daPc = "idle" /\ daInbox # <<>>
    /\ Head(daInbox).kind = "terminated"
    /\ daInbox' = Tail(daInbox)
    /\ UNCHANGED <<dbVars, daPc, daServer, registered, mgrVars, kubeVars, leaked, faults>>

(* Receive<Terminated>. *)
ManagerTerminated ==
    /\ daPc = "idle" /\ daInbox # <<>>
    /\ Head(daInbox).kind = "terminated"
    /\ registered' = FALSE /\ daInbox' = Tail(daInbox)
    /\ UNCHANGED <<dbVars, daPc, daServer, mgrVars, kubeVars, leaked, faults>>

-----------------------------------------------------------------------------
(* TenantServerManager.  The phases of a convergence (ProvisionServer and  *)
(* ReconfigureServer are the same but for the messages they send) and of a *)
(* de-provisioning.  "Done" ends the switch statement.                     *)

(* Faulty variants: a de-provisioning starts where a provisioning does;    *)
(* the phase "None" is not resolved.                                       *)
FirstPhaseAlwaysStorage(s) == IF s.phase # "None" THEN s.phase ELSE "Storage"
FirstPhaseUnresolved(s) == IF s.phase # "None" THEN s.phase ELSE "Done"

FirstPhase(s) ==
    IF s.phase # "None" THEN s.phase
    ELSE IF s.action = "Deprovision" THEN "Ingress" ELSE "Storage"

(* Faulty variants: the instance is created before its credentials; the    *)
(* server is not configured.                                               *)
NextPhaseInstanceFirst(a, p) ==
    IF a = "Deprovision"
    THEN CASE p = "Ingress"    -> "Monitoring"
           [] p = "Monitoring" -> "Network"
           [] p = "Network"    -> "Instance"
           [] p = "Instance"   -> "Security"
           [] p = "Security"   -> "Storage"
           [] OTHER            -> "Done"
    ELSE CASE p = "Storage"       -> "Instance"
           [] p = "Instance"      -> "Security"
           [] p = "Security"      -> "Network"
           [] p = "Network"       -> "Monitoring"
           [] p = "Configuration" -> "Ingress"
           [] OTHER               -> "Done"

NextPhase(a, p) ==
    IF a = "Deprovision"
    THEN CASE p = "Ingress"    -> "Monitoring"
           [] p = "Monitoring" -> "Network"
           [] p = "Network"    -> "Instance"
           [] p = "Instance"   -> "Security"
           [] p = "Security"   -> "Storage"
           [] OTHER            -> "Done"
    ELSE CASE p = "Storage"       -> "Security"
           [] p = "Security"      -> "Instance"
           [] p = "Instance"      -> "Network"
           [] p = "Network"       -> "Monitoring"
           [] p = "Configuration" -> "Ingress"
           [] OTHER               -> "Done"   \* Monitoring: wait for the Deployment

(* What the phases of a convergence make sure of.  Each call looks for the *)
(* resource first, and creates it only if it is not there.                 *)
EnsureDataVolumeClaimPresent ==
    kube' = kube \cup {"Storage"} /\ UNCHANGED <<deployment, port, configured>>

EnsureCredentialsSecretPresent ==
    kube' = kube \cup {"Security"} /\ UNCHANGED <<deployment, port, configured>>

EnsureDeploymentPresent ==
    /\ kube' = kube \cup {"Instance"}
    /\ deployment' = IF "Instance" \in kube THEN deployment ELSE "unobserved"
    /\ UNCHANGED <<port, configured>>

EnsureInternalServicePresent ==
    kube' = kube \cup {"Network"} /\ UNCHANGED <<deployment, port, configured>>

EnsureServiceMonitorPresent ==
    /\ kube' = IF Kind = "SqlServer" THEN kube \cup {"Monitoring"} ELSE kube
    /\ UNCHANGED <<deployment, port, configured>>

(* A RavenDB server is configured by Provision only; the call does nothing *)
(* in a Reconfigure.                                                       *)
NeedsConfiguration == Kind = "SqlServer" \/ state.action = "Provision"

InitialiseServerConfiguration ==
    /\ configured' = (configured \/ NeedsConfiguration)
    /\ UNCHANGED <<kube, deployment, port>>

EnsureExternalServicePresent ==
    /\ IF port = NoPort THEN port' \in Ports ELSE port' = port
    /\ UNCHANGED <<kube, deployment, configured>>

EnsurePresent(p) ==
    \/ p = "Storage"       /\ EnsureDataVolumeClaimPresent
    \/ p = "Security"      /\ EnsureCredentialsSecretPresent
    \/ p = "Instance"      /\ EnsureDeploymentPresent
    \/ p = "Network"       /\ EnsureInternalServicePresent
    \/ p = "Monitoring"    /\ EnsureServiceMonitorPresent
    \/ p = "Configuration" /\ InitialiseServerConfiguration
    \/ p = "Ingress"       /\ EnsureExternalServicePresent

(* What the phases of a de-provisioning make sure of.  A database server   *)
(* that is created again on a new volume has to be configured again.       *)
EnsureExternalServiceAbsent ==
    port' = NoPort /\ UNCHANGED <<kube, deployment, configured>>

EnsureServiceMonitorAbsent ==
    kube' = kube \ {"Monitoring"} /\ UNCHANGED <<deployment, port, configured>>

EnsureInternalServiceAbsent ==
    kube' = kube \ {"Network"} /\ UNCHANGED <<deployment, port, configured>>

EnsureDeploymentAbsent ==
    /\ kube' = kube \ {"Instance"} /\ deployment' = "unobserved"
    /\ UNCHANGED <<port, configured>>

EnsureCredentialsSecretAbsent ==
    kube' = kube \ {"Security"} /\ UNCHANGED <<deployment, port, configured>>

EnsureDataVolumeClaimAbsent ==
    /\ kube' = kube \ {"Storage"} /\ configured' = FALSE
    /\ UNCHANGED <<deployment, port>>

EnsureAbsent(p) ==
    \/ p = "Ingress"    /\ EnsureExternalServiceAbsent
    \/ p = "Monitoring" /\ EnsureServiceMonitorAbsent
    \/ p = "Network"    /\ EnsureInternalServiceAbsent
    \/ p = "Instance"   /\ EnsureDeploymentAbsent
    \/ p = "Security"   /\ EnsureCredentialsSecretAbsent
    \/ p = "Storage"    /\ EnsureDataVolumeClaimAbsent

(* Faulty variant: a reconfiguration is taken for a de-provisioning.       *)
PerformPhaseTwoWay ==
    IF state.action = "Provision" THEN EnsurePresent(state.phase)
                                  ELSE EnsureAbsent(state.phase)

PerformPhase ==
    IF state.action = "Deprovision" THEN EnsureAbsent(state.phase)
                                    ELSE EnsurePresent(state.phase)

(* The configuration is applied by the database server itself, through the *)
(* database proxy.                                                         *)
NeedsServer == state.phase = "Configuration" /\ NeedsConfiguration

(* Faulty variant: the creating calls catch their errors as well.          *)
SwallowsAnyFailure == state.phase \in {"Storage", "Security", "Instance"}

(* EnsureDataVolumeClaimAbsent, EnsureCredentialsSecretAbsent and          *)
(* EnsureDeploymentAbsent catch the API error and return false; their      *)
(* callers ignore what they return.                                        *)
SwallowsFailure == /\ state.action = "Deprovision"
                   /\ state.phase \in {"Storage", "Security", "Instance"}

CallReturns ==
    \/ /\ NeedsServer => deployment = "available"
       /\ PerformPhase
       /\ UNCHANGED <<leaked, faults>>
    \/ /\ SwallowsFailure /\ Fault
       /\ leaked' = TRUE
       /\ UNCHANGED kubeVars

(* Sending does not block; the limit only bounds the model. *)
MaySend == Len(daInbox) < NotificationLimit

(* Context.Stop(Self), or an exception the supervisor answers with Stop:   *)
(* the mailbox is gone and DataAccess will be told.                        *)
StopManager == mode' = "Stopped" /\ pc' = "idle" /\ state' = NoServer /\ mgrInbox' = <<>>

(* Receive<Initialize>; Self.Tell puts the state behind what has arrived.  *)
HandleInitialize ==
    /\ mode = "Initializing"
    /\ mode' = "Ready"
    /\ state' = Head(mgrInbox)
    /\ mgrInbox' = Append(Tail(mgrInbox), Head(mgrInbox))
    /\ UNCHANGED <<dbVars, daVars, pc, kubeVars, leaked, faults>>

MayHandleServer == mode = "Ready" /\ pc = "idle" /\ mgrInbox # <<>> /\ MaySend

(* ReceiveAsync<DatabaseServer>: a requested action is taken up at the     *)
(* document's phase, up to that phase's Kubernetes call.                   *)
StartAction ==
    /\ MayHandleServer
    /\ LET received == Head(mgrInbox)
           phase == FirstPhase(received)
       IN /\ received.action # "None"
          /\ ~(received.action = "Deprovision" /\ phase = "Configuration")
          /\ state' = [received EXCEPT !.phase = phase]
          /\ daInbox' = Append(daInbox, Progress(received.action, phase))
    /\ pc' = "phase" /\ mgrInbox' = Tail(mgrInbox)
    /\ UNCHANGED <<dbVars, daPc, daServer, registered, mode, kubeVars, leaked, faults>>

(* DeprovisionServer has no case for the Configuration phase: nothing is   *)
(* done and the actor stops as if it were finished.                        *)
AbandonDeprovisioning ==
    /\ MayHandleServer
    /\ Head(mgrInbox).action = "Deprovision" /\ Head(mgrInbox).phase = "Configuration"
    /\ daInbox' = Append(daInbox, Terminated)
    /\ StopManager
    /\ UNCHANGED <<dbVars, daPc, daServer, registered, kubeVars, leaked, faults>>

(* Without an action only the ingress details are looked up. *)
StartIngressCheck ==
    /\ MayHandleServer
    /\ Head(mgrInbox).action = "None"
    /\ state' = Head(mgrInbox)
    /\ pc' = "ingress" /\ mgrInbox' = Tail(mgrInbox)
    /\ UNCHANGED <<dbVars, daVars, mode, kubeVars, leaked, faults>>

(* WaitForServerAvailable ignores DatabaseServer messages. *)
IgnoreServer ==
    /\ mode = "Waiting" /\ pc = "idle" /\ mgrInbox # <<>>
    /\ mgrInbox' = Tail(mgrInbox)
    /\ UNCHANGED <<dbVars, daVars, mode, pc, state, kubeVars, leaked, faults>>

(* The call of a phase returns and the next phase starts. *)
AdvancePhase ==
    /\ pc = "phase" /\ MaySend
    /\ NextPhase(state.action, state.phase) # "Done"
    /\ CallReturns
    /\ LET next == NextPhase(state.action, state.phase)
       IN /\ state' = [state EXCEPT !.phase = next]
          /\ daInbox' = Append(daInbox, Progress(state.action, next))
    /\ UNCHANGED <<dbVars, daPc, daServer, registered, mode, pc, mgrInbox>>

(* The last call of a convergence returns; on to UpdateServerIngressDetails, *)
(* in WaitForServerAvailable if the Deployment has to come up first.         *)
FinishPhases ==
    /\ pc = "phase"
    /\ state.action # "Deprovision"
    /\ NextPhase(state.action, state.phase) = "Done"
    /\ CallReturns
    /\ mode' = IF state.phase = "Monitoring" THEN "Waiting" ELSE mode
    /\ pc' = "ingress"
    /\ UNCHANGED <<dbVars, daVars, state, mgrInbox>>

(* The last call of a de-provisioning returns: CompleteCurrentAction, and  *)
(* the actor stops.                                                        *)
FinishDeprovisioning ==
    /\ pc = "phase" /\ MaySend
    /\ state.action = "Deprovision"
    /\ NextPhase(state.action, state.phase) = "Done"
    /\ CallReturns
    /\ daInbox' = daInbox \o <<Completed("Deprovision"), Terminated>>
    /\ StopManager
    /\ UNCHANGED <<dbVars, daPc, daServer, registered>>

(* The call throws, before or after it took effect: FailCurrentAction.     *)
FailPhase ==
    /\ pc = "phase" /\ MaySend
    /\ \/ NeedsServer /\ deployment # "available" /\ UNCHANGED <<kubeVars, faults>>
       \/ Fault /\ (PerformPhase \/ UNCHANGED kubeVars)
    /\ daInbox' = Append(daInbox, Failed(state.action))
    /\ state' = [state EXCEPT !.status = "Error", !.phase = "None"]
    /\ pc' = "idle"
    /\ UNCHANGED <<dbVars, daPc, daServer, registered, mode, mgrInbox, leaked>>

(* Faulty variant: the address is reported only on completion.             *)
IngressFoundOnCompletion ==
    /\ pc = "ingress" /\ MaySend
    /\ port # NoPort
    /\ daInbox' = IF state.phase = "Ingress" /\ state.action # "None"
                  THEN daInbox \o <<IngressChanged(port), Completed(state.action)>>
                  ELSE daInbox
    /\ state' = [state EXCEPT !.port = port]
    /\ pc' = "idle"
    /\ UNCHANGED <<dbVars, daPc, daServer, registered, mode, mgrInbox, kubeVars, leaked, faults>>

(* UpdateServerIngressDetails with an external service: tell DataAccess    *)
(* where the server is if that is news, and complete the current action if *)
(* it has reached its last phase.                                          *)
IngressFound ==
    /\ pc = "ingress" /\ MaySend
    /\ port # NoPort
    /\ LET news == IF port # state.port THEN <<IngressChanged(port)>> ELSE <<>>
           done == IF state.phase = "Ingress" /\ state.action # "None"
                   THEN <<Completed(state.action)>> ELSE <<>>
       IN daInbox' = daInbox \o news \o done
    /\ state' = [state EXCEPT !.port = port]
    /\ pc' = "idle"
    /\ UNCHANGED <<dbVars, daPc, daServer, registered, mode, mgrInbox, kubeVars, leaked, faults>>

(* ... and without one. *)
IngressMissing ==
    /\ pc = "ingress" /\ MaySend
    /\ port = NoPort
    /\ daInbox' = IF state.port # NoPort THEN Append(daInbox, IngressChanged(NoPort))
                                         ELSE daInbox
    /\ pc' = "idle"
    /\ UNCHANGED <<dbVars, daPc, daServer, registered, mode, state, mgrInbox,
                   kubeVars, leaked, faults>>

(* Signal.PollDeployment in WaitForServerAvailable.  No timer ever sends   *)
(* Signal.Timeout: StartPolling schedules the poll signal in its place.    *)
MayPoll == mode = "Waiting" /\ pc = "idle" /\ TimerMayFire /\ MaySend

(* A missing Deployment fails the action.  Otherwise all the replicas its  *)
(* status mentions are available (none of none, while the status is empty) *)
(* and the Configuration phase is announced; the next document that names  *)
(* that phase starts it.                                                   *)
PollDeployment ==
    /\ MayPoll
    /\ "Instance" \in kube => deployment # "unavailable"
    /\ mode' = "Ready"
    /\ IF state.status = "Ready" THEN UNCHANGED <<state, daInbox>>
       ELSE IF "Instance" \notin kube
       THEN /\ state' = [state EXCEPT !.status = "Error", !.phase = "None"]
            /\ daInbox' = Append(daInbox, Failed(state.action))
       ELSE /\ state' = [state EXCEPT !.phase = "Configuration"]
            /\ daInbox' = Append(daInbox, Progress(state.action, "Configuration"))
    /\ UNCHANGED <<dbVars, daPc, daServer, registered, pc, mgrInbox, kubeVars, leaked, faults>>

(* The calls outside UpdateServerState's try block throw: the actor is     *)
(* stopped by its supervisor.                                              *)
UncaughtFailure ==
    /\ pc = "ingress" \/ MayPoll
    /\ MaySend /\ Fault
    /\ daInbox' = Append(daInbox, Terminated)
    /\ StopManager
    /\ UNCHANGED <<dbVars, daPc, daServer, registered, kubeVars, leaked>>

-----------------------------------------------------------------------------
(* Kubernetes: the deployment controller.                                  *)

DeploymentObserved ==
    /\ "Instance" \in kube /\ deployment = "unobserved"
    /\ deployment' = "unavailable"
    /\ UNCHANGED <<dbVars, daVars, mgrVars, kube, port, configured, leaked, faults>>

ReplicaAvailable ==
    /\ "Instance" \in kube /\ deployment = "unavailable"
    /\ deployment' = "available"
    /\ UNCHANGED <<dbVars, daVars, mgrVars, kube, port, configured, leaked, faults>>

ReplicaLost ==
    /\ "Instance" \in kube /\ deployment = "available" /\ Fault
    /\ deployment' = "unavailable"
    /\ UNCHANGED <<dbVars, daVars, mgrVars, kube, port, configured, leaked>>

-----------------------------------------------------------------------------
(* Failures of the engine.  A Kubernetes call that has been sent may still *)
(* take effect.                                                            *)
CallLost == \/ pc = "phase" /\ PerformPhase
            \/ UNCHANGED kubeVars

ForgetManager == StopManager /\ registered' = FALSE

(* The host process dies and is restarted: documents and Kubernetes stay.  *)
EngineCrash ==
    /\ Fault
    /\ daPc' = "idle" /\ daServer' = NoServer /\ daInbox' = <<>>
    /\ ForgetManager /\ CallLost
    /\ UNCHANGED <<dbVars, leaked>>

(* A RavenDB call of DataAccess throws.  The guardian restarts the actor:  *)
(* the message it was handling is lost, its children are unwatched and     *)
(* stopped, the new instance has an empty _serverManagers.  The mailbox    *)
(* stays: a Terminated that waits there no longer belongs to an entry.     *)
DataAccessRestart ==
    /\ daPc \in {"scan", "update"} /\ Fault
    /\ LET kept == IF daPc = "update" THEN Tail(daInbox) ELSE daInbox
       IN daInbox' = [i \in DOMAIN kept |->
                         IF kept[i].kind = "terminated" THEN Orphaned ELSE kept[i]]
    /\ daPc' = "idle" /\ daServer' = NoServer
    /\ ForgetManager /\ CallLost
    /\ UNCHANGED <<dbVars, leaked>>

(* Unhandled(terminated) throws a DeathPactException, which the guardian   *)
(* answers by stopping DataAccess, and its children with it, for good.     *)
DeathPact ==
    /\ daPc = "idle" /\ daInbox # <<>>
    /\ Head(daInbox).kind = "orphaned"
    /\ daPc' = "stopped" /\ daInbox' = <<>> /\ UNCHANGED daServer
    /\ ForgetManager /\ CallLost
    /\ UNCHANGED <<dbVars, leaked, faults>>

-----------------------------------------------------------------------------
API == \/ CreateServer
       \/ \E c \in Clients, op \in {"Reconfigure", "Deprovision"} : LoadForRequest(c, op)
       \/ \E c \in Clients : SaveRequest(c)

DataAccess == \/ ScanRead \/ ScanCreateManager \/ ScanNotifyManager
              \/ LoadForUpdate \/ SaveUpdate \/ ManagerTerminated

Manager == \/ HandleInitialize
           \/ StartAction \/ AbandonDeprovisioning \/ StartIngressCheck \/ IgnoreServer
           \/ AdvancePhase \/ FinishPhases \/ FinishDeprovisioning \/ FailPhase
           \/ IngressFound \/ IngressMissing
           \/ PollDeployment \/ UncaughtFailure

Kubernetes == DeploymentObserved \/ ReplicaAvailable \/ ReplicaLost

Crash == EngineCrash \/ DataAccessRestart \/ DeathPact

Next == API \/ DataAccess \/ Manager \/ Kubernetes \/ Crash

Spec == Init /\ [][Next]_vars

(***************************************************************************)
(* Fairness.  Actors process their mailboxes and awaited calls return      *)
(* (Akka's dispatcher, HTTP timeouts); the scan and poll timers repeat     *)
(* every five seconds, so although slow timers are disabled by each        *)
(* other's work, none is passed over for ever; the deployment controller   *)
(* brings replicas up.  Nothing obliges clients to send requests, only to  *)
(* finish those in progress.                                               *)
(***************************************************************************)
Responsive ==
    /\ \A c \in Clients : WF_vars(SaveRequest(c))
    /\ WF_vars(ScanCreateManager \/ ScanNotifyManager)
    /\ WF_vars(LoadForUpdate \/ SaveUpdate \/ ManagerTerminated \/ DeathPact)
    /\ WF_vars(HandleInitialize \/ StartAction \/ AbandonDeprovisioning
               \/ StartIngressCheck \/ IgnoreServer)
    /\ WF_vars(AdvancePhase \/ FinishPhases \/ FinishDeprovisioning \/ FailPhase)
    /\ WF_vars(IngressFound \/ IngressMissing)
    /\ SF_vars(ScanRead) /\ SF_vars(PollDeployment)

DeploymentsComeUp == WF_vars(DeploymentObserved) /\ WF_vars(ReplicaAvailable)

FairSpec == Spec /\ Responsive /\ DeploymentsComeUp

-----------------------------------------------------------------------------
(***************************************************************************)
(* Safety under every schedule (TimersRace and RequestsOverlap TRUE).      *)
(***************************************************************************)

Terminations == {i \in DOMAIN daInbox : daInbox[i].kind = "terminated"}

(* _serverManagers and the actors agree: a live manager is registered, so  *)
(* ScanTenants never asks Akka for a second actor of the same name; a      *)
(* registered one that has stopped has exactly one Terminated on its way   *)
(* that will remove it, so it is replaced.                                 *)
RegistryCoherent ==
    /\ mode # "Stopped" => registered /\ Terminations = {}
    /\ mode = "Stopped" => Cardinality(Terminations) = (IF registered THEN 1 ELSE 0)

(* The resources that the phases before p create. *)
CreatedBefore(p) ==
    Expected \cap
    CASE p \in {"None", "Storage"} -> {}
      [] p = "Security"            -> {"Storage"}
      [] p = "Instance"            -> {"Storage", "Security"}
      [] p = "Network"             -> {"Storage", "Security", "Instance"}
      [] p = "Monitoring"          -> {"Storage", "Security", "Instance", "Network"}
      [] OTHER                     -> Resources

Reached(p) == /\ CreatedBefore(p) \subseteq kube
              /\ p = "Ingress" /\ Kind = "SqlServer" => configured

Provisioned == /\ Expected \subseteq kube /\ port # NoPort
               /\ Kind = "SqlServer" => configured

(* A phase recorded in the document can be resumed from, whenever a crash  *)
(* makes a new manager start there: as long as nobody asked for the server *)
(* to be destroyed, everything the earlier phases create is there, however *)
(* stale the copies of the document that were worked from.                 *)
RecordedPhaseIsReached ==
    server # NoServer /\ ~destroyAccepted => Reached(server.phase)

(* A document that says Ready describes a server that has all its          *)
(* resources, an external service and (SQL Server) its configuration.      *)
ReadyMeansProvisioned ==
    server # NoServer /\ ~destroyAccepted =>
        (server.status = "Ready" => Provisioned)

(* No step removes a Kubernetes resource of a server nobody asked to       *)
(* destroy: not a stale document, a duplicate, a failure or a restart.     *)
DestructionIsRequested ==
    [][ ~(kube \subseteq kube') \/ (port # NoPort /\ port' = NoPort)
        => destroyAccepted ]_vars

(***************************************************************************)
(* Properties that need the timers to be slow and store sessions not to    *)
(* overlap.                                                                *)
(***************************************************************************)

(* A request the API has accepted (the document's action) is cleared only  *)
(* by the notification that this very kind of action completed or failed.  *)
SettledByOwnOutcome ==
    [][ server # NoServer /\ server.action # "None"
        /\ (server' = NoServer \/ server'.action # server.action)
        => /\ daPc = "update"
           /\ Head(daInbox).kind \in {"completed", "failed"}
           /\ Head(daInbox).action = server.action ]_vars

(* The server as ServerLifecycle describes it: what its document says of   *)
(* the request in progress, and what exists of it in Kubernetes.           *)
Lifecycle ==
    INSTANCE ServerLifecycle WITH
        request   <- IF server # NoServer THEN server.action
                     ELSE IF requests = 0 THEN "unborn" ELSE "gone",
        ready     <- server # NoServer /\ server.status = "Ready",
        footprint <- kube \cup (IF port = NoPort THEN {} ELSE {"Service"}),
        leaked    <- leaked,
        Needed    <- Expected \cup {"Service"}

(* The API, the engine's two actors, Kubernetes and every failure between  *)
(* them implement the life of a server a tenant may count on.              *)
ImplementsLifecycle == Lifecycle!Spec

(* An instance never runs without its volume and its credentials.          *)
InstanceHasDependencies ==
    "Instance" \in kube /\ ~leaked => {"Storage", "Security"} \subseteq kube

(* The document of a de-provisioned server is deleted only when nothing of *)
(* it is left, unless a failed delete was swallowed.                       *)
NothingLeftBehind ==
    server = NoServer /\ requests > 0 /\ ~leaked => kube = {} /\ port = NoPort

(* Every accepted request settles: the action ends, one way or the other,  *)
(* whatever failed on the way, as long as DataAccess lives.                *)
RequestsSettle ==
    (server # NoServer /\ server.action # "None") ~>
    (server = NoServer \/ server.action = "None" \/ daPc = "stopped")

(* The advertised address keeps being brought in line with the service,    *)
(* although notifications of changes can be lost.                          *)
AddressConverges ==
    []<>(server = NoServer \/ server.port = port \/ daPc = "stopped")
=============================================================================
