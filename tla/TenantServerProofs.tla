------------------------- MODULE TenantServerProofs -------------------------
(***************************************************************************)
(* Theorems about TenantServer, for every set of clients and ports, every  *)
(* bound, both kinds of server and every schedule of timers and sessions.  *)
(***************************************************************************)
EXTENDS TenantServer, FiniteSetTheorems, TLAPS

-----------------------------------------------------------------------------
(* Documents and notifications keep their types. *)

LEMMA HeadAndTail ==
    ASSUME NEW S, NEW s \in Seq(S), s # <<>>
    PROVE  Head(s) \in S /\ Tail(s) \in Seq(S)
OBVIOUS

LEMMA ConcatAssociates ==
    ASSUME NEW S, NEW r \in Seq(S), NEW s \in Seq(S), NEW t \in Seq(S)
    PROVE  /\ s \o t \in Seq(S)
           /\ (r \o s) \o t = r \o (s \o t)
OBVIOUS

LEMMA ServerFields ==
    ASSUME NEW s \in DatabaseServer
    PROVE  /\ s.action \in Action /\ s.status \in Status /\ s.phase \in Phase
           /\ s.port \in Ports \cup {NoPort}
BY DEF DatabaseServer

LEMMA MessagesTyped ==
    ASSUME NEW a \in Action, NEW p \in Phase, NEW q \in Ports \cup {NoPort}
    PROVE  /\ Progress(a, p) \in Notification
           /\ Completed(a) \in Notification
           /\ Failed(a) \in Notification
           /\ IngressChanged(q) \in Notification
           /\ Terminated \in Notification
BY DEF Progress, Completed, Failed, IngressChanged, Terminated, Notification, Action, Phase

LEMMA OrphanedTyped == Orphaned \in Notification /\ Orphaned.kind = "orphaned"
BY DEF Orphaned, Terminated, Notification, Action, Phase

LEMMA UpdatedTyped ==
    ASSUME NEW s \in DatabaseServer, NEW m \in Notification
    PROVE  Updated(s, m) \in DatabaseServer \cup {NoServer}
<1>1. StatusOf(m) \in Status
  BY DEF StatusOf, Status
<1>2. QED
  BY <1>1 DEF Updated, DatabaseServer, Notification, Action, Phase

LEMMA NextPhaseTyped ==
    ASSUME NEW a \in Action, NEW p \in Phase
    PROVE  NextPhase(a, p) \in Phase \cup {"Done"}
BY DEF NextPhase, Phase

LEMMA FirstPhaseTyped ==
    ASSUME NEW s \in DatabaseServer
    PROVE  FirstPhase(s) \in Phase \ {"None"}
BY DEF FirstPhase, DatabaseServer, Phase

-----------------------------------------------------------------------------
(* The Ensure...Present operations, taken together, ...                    *)
LEMMA EnsurePresentIs ==
    ASSUME NEW p, EnsurePresent(p)
    PROVE  /\ kube' = IF p \in Expected THEN kube \cup {p} ELSE kube
           /\ deployment' \in {deployment, "unobserved"}
           /\ IF p = "Ingress" /\ port = NoPort THEN port' \in Ports ELSE port' = port
           /\ \/ configured' = configured /\ p # "Configuration"
              \/ configured' = (configured \/ NeedsConfiguration) /\ p = "Configuration"
<1> USE DEF Expected, Resources
<1>1. CASE p = "Storage"
  BY <1>1 DEF EnsurePresent, EnsureDataVolumeClaimPresent
<1>2. CASE p = "Security"
  BY <1>2 DEF EnsurePresent, EnsureCredentialsSecretPresent
<1>3. CASE p = "Instance"
  BY <1>3 DEF EnsurePresent, EnsureDeploymentPresent
<1>4. CASE p = "Network"
  BY <1>4 DEF EnsurePresent, EnsureInternalServicePresent
<1>5. CASE p = "Monitoring"
  BY <1>5, ConstantsAssumption DEF EnsurePresent, EnsureServiceMonitorPresent
<1>6. CASE p = "Configuration"
  BY <1>6 DEF EnsurePresent, InitialiseServerConfiguration
<1>7. CASE p = "Ingress"
  BY <1>7 DEF EnsurePresent, EnsureExternalServicePresent
<1>8. QED
  BY <1>1, <1>2, <1>3, <1>4, <1>5, <1>6, <1>7 DEF EnsurePresent

(* ... and the Ensure...Absent operations. *)
LEMMA EnsureAbsentIs ==
    ASSUME NEW p, EnsureAbsent(p)
    PROVE  /\ kube' = kube \ {p} \/ kube' = kube
           /\ deployment' \in {deployment, "unobserved"}
           /\ port' \in {port, NoPort}
           /\ configured' \in {configured, FALSE}
BY DEF EnsureAbsent, EnsureExternalServiceAbsent, EnsureServiceMonitorAbsent,
       EnsureInternalServiceAbsent, EnsureDeploymentAbsent, EnsureCredentialsSecretAbsent,
       EnsureDataVolumeClaimAbsent

-----------------------------------------------------------------------------
(* What the type invariant needs to be inductive: the copies of the        *)
(* document that a process works from exist.                               *)
CopiesExist ==
    /\ mode = "Initializing" => mgrInbox # <<>>
    /\ mode \in {"Ready", "Waiting"} => state \in DatabaseServer
    /\ pc # "idle" => mode \in {"Ready", "Waiting"}
    /\ daPc \in {"scan", "update"} => daServer \in DatabaseServer
    /\ daPc = "update" => daInbox # <<>>
    /\ \A c \in Clients : \/ session[c] = NoSession
                          \/ session[c] \in [op : {"Reconfigure", "Deprovision"},
                                             server : DatabaseServer]

TypeInv == TypeOK /\ CopiesExist

LEMMA TypeInvInit == Init => TypeInv
<1> SUFFICES ASSUME Init PROVE TypeInv
  OBVIOUS
<1>1. session \in [Clients -> Sessions] /\ \A c \in Clients : session[c] = NoSession
  BY DEF Init, NoSession, Sessions
<1>2. requests \in 0..MaxRequests /\ faults \in 0..MaxFaults
  BY ConstantsAssumption DEF Init
<1>3. daInbox \in Seq(Notification) /\ mgrInbox \in Seq(DatabaseServer)
  BY DEF Init
<1>4. TypeOK
  BY <1>1, <1>2, <1>3 DEF Init, TypeOK
<1>5. CopiesExist
  BY <1>1 DEF Init, CopiesExist
<1>6. QED
  BY <1>4, <1>5 DEF TypeInv

LEMMA TypeInvAPI == TypeInv /\ API => TypeInv'
<1> SUFFICES ASSUME TypeInv, API PROVE TypeInv'
  OBVIOUS
<1> USE SentinelsAssumption, ConstantsAssumption DEF TypeInv, TypeOK, CopiesExist, dbVars, daVars, mgrVars, kubeVars
<1>1. CASE CreateServer
  <2>1. server' \in DatabaseServer
    BY <1>1 DEF CreateServer, CreatedServer, DatabaseServer, Action, Status, Phase
  <2>2. requests' \in 0..MaxRequests
    <3>1. MaxRequests \in Nat /\ MaxRequests > 0 /\ requests' = 1
      BY <1>1 DEF CreateServer
    <3>2. QED
      BY ONLY <3>1
  <2>3. QED
    BY <1>1, <2>1, <2>2 DEF CreateServer
<1>2. ASSUME NEW c \in Clients, NEW op \in {"Reconfigure", "Deprovision"},
             LoadForRequest(c, op)
      PROVE  TypeInv'
  <2>1. [op |-> op, server |-> server] \in [op : {"Reconfigure", "Deprovision"}, server : DatabaseServer]
    BY <1>2 DEF LoadForRequest
  <2>2. requests' \in 0..MaxRequests
    BY <1>2 DEF LoadForRequest
  <2>3. QED
    BY <1>2, <2>1, <2>2 DEF LoadForRequest, Sessions
<1>3. ASSUME NEW c \in Clients, SaveRequest(c)
      PROVE  TypeInv'
  <2>1. session[c] \in [op : {"Reconfigure", "Deprovision"}, server : DatabaseServer]
    BY <1>3 DEF SaveRequest
  <2>2. server' \in DatabaseServer
    BY <1>3, <2>1 DEF SaveRequest, Requested, DatabaseServer, Action, Status
  <2>3. QED
    BY <1>3, <2>2 DEF SaveRequest, NoSession, Sessions
<1>4. QED
  BY <1>1, <1>2, <1>3 DEF API

LEMMA TypeInvDataAccess == TypeInv /\ DataAccess => TypeInv'
<1> SUFFICES ASSUME TypeInv, DataAccess PROVE TypeInv'
  OBVIOUS
<1> USE SentinelsAssumption, ConstantsAssumption DEF TypeInv, TypeOK, CopiesExist, dbVars, daVars, mgrVars, kubeVars
<1>1. CASE ScanRead
  BY <1>1 DEF ScanRead
<1>2. CASE ScanCreateManager
  BY <1>2 DEF ScanCreateManager
<1>3. CASE ScanNotifyManager
  BY <1>3 DEF ScanNotifyManager
<1>4. CASE LoadForUpdate
  <2>1. CASE server = NoServer
    BY <1>4, <2>1, HeadAndTail DEF LoadForUpdate
  <2>2. CASE server # NoServer
    BY <1>4, <2>2 DEF LoadForUpdate
  <2>3. QED
    BY <2>1, <2>2
<1>5. CASE SaveUpdate
  BY <1>5, UpdatedTyped DEF SaveUpdate
<1>6. CASE ManagerTerminated
  <2>1. daInbox' \in Seq(Notification) /\ daPc = "idle"
    BY <1>6, HeadAndTail DEF ManagerTerminated
  <2>2. TypeOK'
    BY <1>6, <2>1 DEF ManagerTerminated
  <2>3. CopiesExist'
    BY <1>6, <2>1 DEF ManagerTerminated
  <2>4. QED
    BY <2>2, <2>3
<1>7. QED
  BY <1>1, <1>2, <1>3, <1>4, <1>5, <1>6 DEF DataAccess

LEMMA TypeInvManager == TypeInv /\ Manager => TypeInv'
<1> SUFFICES ASSUME TypeInv, Manager PROVE TypeInv'
  OBVIOUS
<1> USE SentinelsAssumption, ConstantsAssumption DEF TypeInv, TypeOK, CopiesExist, dbVars, daVars, mgrVars, kubeVars
<1>1. CASE HandleInitialize
  BY <1>1 DEF HandleInitialize
<1>2. CASE StartAction
  <2> DEFINE received == Head(mgrInbox)
  <2>1. received \in DatabaseServer /\ received.action \in Action
    BY <1>2, HeadAndTail, ServerFields DEF MayHandleServer, StartAction
  <2>2. FirstPhase(received) \in Phase
    BY <2>1, FirstPhaseTyped
  <2>3. state' \in DatabaseServer
    BY <1>2, <2>1, <2>2 DEF StartAction, DatabaseServer
  <2>4. daInbox' \in Seq(Notification) /\ daInbox' # <<>>
    <3>1. Progress(received.action, FirstPhase(received)) \in Notification
      BY <2>1, <2>2, MessagesTyped
    <3>2. QED
      BY <1>2, <3>1 DEF StartAction
  <2>5. QED
    BY <1>2, <2>3, <2>4 DEF StartAction, MayHandleServer
<1>3. CASE AbandonDeprovisioning
  <2>1. daInbox' \in Seq(Notification) /\ daInbox' # <<>>
    BY <1>3, MessagesTyped DEF AbandonDeprovisioning, Action, Phase
  <2>2. QED
    BY <1>3, <2>1 DEF AbandonDeprovisioning, StopManager
<1>4. CASE StartIngressCheck
  BY <1>4 DEF StartIngressCheck, MayHandleServer
<1>5. CASE IgnoreServer
  BY <1>5 DEF IgnoreServer
<1>6. CASE AdvancePhase \/ FinishPhases \/ FinishDeprovisioning \/ FailPhase
  <2>1. state \in DatabaseServer /\ state.action \in Action /\ state.phase \in Phase
    BY <1>6, ServerFields DEF AdvancePhase, FinishPhases, FinishDeprovisioning, FailPhase
  <2>2. PerformPhase => /\ kube' \in SUBSET Resources
                        /\ deployment' \in {"unobserved", "unavailable", "available"}
                        /\ port' \in Ports \cup {NoPort}
                        /\ configured' \in BOOLEAN
    <3>1. Expected \subseteq Resources
      BY DEF Expected
    <3>2. ASSUME EnsurePresent(state.phase)
          PROVE  /\ kube' \in SUBSET Resources
                 /\ deployment' \in {"unobserved", "unavailable", "available"}
                 /\ port' \in Ports \cup {NoPort}
                 /\ configured' \in BOOLEAN
      BY <3>1, <3>2, EnsurePresentIs
    <3>3. ASSUME EnsureAbsent(state.phase)
          PROVE  /\ kube' \in SUBSET Resources
                 /\ deployment' \in {"unobserved", "unavailable", "available"}
                 /\ port' \in Ports \cup {NoPort}
                 /\ configured' \in BOOLEAN
      BY <3>3, EnsureAbsentIs
    <3>4. QED
      BY <3>2, <3>3 DEF PerformPhase
  <2>3. Fault => faults' \in 0..MaxFaults
    BY DEF Fault
  <2>4. CallReturns => /\ kube' \in SUBSET Resources
                       /\ deployment' \in {"unobserved", "unavailable", "available"}
                       /\ port' \in Ports \cup {NoPort}
                       /\ configured' \in BOOLEAN
                       /\ leaked' \in BOOLEAN
                       /\ faults' \in 0..MaxFaults
    BY <2>2, <2>3 DEF CallReturns
  <2>5. CASE AdvancePhase
    <3> DEFINE next == NextPhase(state.action, state.phase)
    <3>1. next \in Phase
      BY <2>1, <2>5, NextPhaseTyped DEF AdvancePhase
    <3>2. Progress(state.action, next) \in Notification
      BY <2>1, <3>1, MessagesTyped
    <3>3. state' \in DatabaseServer
      BY <2>1, <2>5, <3>1 DEF AdvancePhase, DatabaseServer
    <3>4. daInbox' \in Seq(Notification) /\ daInbox' # <<>>
      BY <2>5, <3>2 DEF AdvancePhase
    <3>5. QED
      BY <2>4, <2>5, <3>3, <3>4 DEF AdvancePhase
  <2>6. CASE FinishPhases
    BY <2>4, <2>6 DEF FinishPhases
  <2>7. CASE FinishDeprovisioning
    <3>1. daInbox' \in Seq(Notification) /\ daInbox' # <<>>
      <4>1. <<Completed("Deprovision"), Terminated>> \in Seq(Notification)
        BY MessagesTyped DEF Action, Phase
      <4>2. QED
        BY <2>7, <4>1 DEF FinishDeprovisioning
    <3>2. QED
      BY <2>4, <2>7, <3>1 DEF FinishDeprovisioning, StopManager
  <2>8. CASE FailPhase
    <3>1. state' \in DatabaseServer
      BY <2>1, <2>8 DEF FailPhase, DatabaseServer, Status, Phase
    <3>2. daInbox' \in Seq(Notification) /\ daInbox' # <<>>
      BY <2>1, <2>8, MessagesTyped DEF FailPhase
    <3>3. QED
      BY <2>2, <2>3, <2>8, <3>1, <3>2 DEF FailPhase
  <2>9. QED
    BY <1>6, <2>5, <2>6, <2>7, <2>8
<1>7. CASE IngressFound
  <2>1. state \in DatabaseServer /\ state.action \in Action
    BY <1>7, ServerFields DEF IngressFound
  <2>2. state' \in DatabaseServer
    BY <1>7, <2>1 DEF IngressFound, DatabaseServer
  <2> DEFINE news == IF port # state.port THEN <<IngressChanged(port)>> ELSE <<>>
             done == IF state.phase = "Ingress" /\ state.action # "None"
                     THEN <<Completed(state.action)>> ELSE <<>>
  <2>3. news \in Seq(Notification) /\ done \in Seq(Notification)
    BY <2>1, MessagesTyped DEF Action, Phase
  <2>4. daInbox' = daInbox \o news \o done
    BY <1>7 DEF IngressFound
  <2>5. daInbox' \in Seq(Notification) /\ (daInbox # <<>> => daInbox' # <<>>)
    BY <2>3, <2>4
  <2>6. QED
    BY <1>7, <2>2, <2>5 DEF IngressFound
<1>8. CASE IngressMissing
  <2>1. daInbox' \in Seq(Notification) /\ (daInbox # <<>> => daInbox' # <<>>)
    BY <1>8, MessagesTyped DEF IngressMissing, Action, Phase
  <2>2. QED
    BY <1>8, <2>1 DEF IngressMissing
<1>9. CASE PollDeployment
  <2>1. state \in DatabaseServer /\ state.action \in Action
    BY <1>9, ServerFields DEF PollDeployment, MayPoll
  <2>2. "Error" \in Status /\ "None" \in Phase /\ "Configuration" \in Phase
    BY DEF Status, Phase
  <2>3. /\ Failed(state.action) \in Notification
        /\ Progress(state.action, "Configuration") \in Notification
    BY <2>1, <2>2, MessagesTyped
  <2>4. state' \in DatabaseServer
    BY <1>9, <2>1, <2>2 DEF PollDeployment, DatabaseServer
  <2>5. daInbox' \in Seq(Notification) /\ (daInbox # <<>> => daInbox' # <<>>)
    <3>1. \/ daInbox' = daInbox
          \/ daInbox' = Append(daInbox, Failed(state.action))
          \/ daInbox' = Append(daInbox, Progress(state.action, "Configuration"))
      BY <1>9 DEF PollDeployment
    <3>2. QED
      BY <2>3, <3>1
  <2>6. QED
    BY <1>9, <2>4, <2>5 DEF PollDeployment, MayPoll
<1>10. CASE UncaughtFailure
  <2>1. daInbox' \in Seq(Notification) /\ daInbox' # <<>>
    BY <1>10, MessagesTyped DEF UncaughtFailure, Action, Phase
  <2>2. QED
    BY <1>10, <2>1 DEF UncaughtFailure, StopManager, Fault
<1>11. QED
  BY <1>1, <1>2, <1>3, <1>4, <1>5, <1>6, <1>7, <1>8, <1>9, <1>10 DEF Manager

LEMMA TypeInvKubernetes == TypeInv /\ Kubernetes => TypeInv'
BY ConstantsAssumption
   DEF TypeInv, TypeOK, CopiesExist, dbVars, daVars, mgrVars, Kubernetes,
       DeploymentObserved, ReplicaAvailable, ReplicaLost, Fault

(* A lost call has no effect or the effect it would have had. *)
LEMMA CallLostTyped ==
    ASSUME TypeInv, CallLost
    PROVE  /\ kube' \in SUBSET Resources
           /\ deployment' \in {"unobserved", "unavailable", "available"}
           /\ port' \in Ports \cup {NoPort}
           /\ configured' \in BOOLEAN
<1>1. Expected \subseteq Resources
  BY DEF Expected
<1>2. CASE UNCHANGED kubeVars
  BY <1>2 DEF TypeInv, TypeOK, kubeVars
<1>3. CASE EnsurePresent(state.phase)
  BY <1>1, <1>3, EnsurePresentIs DEF TypeInv, TypeOK
<1>4. CASE EnsureAbsent(state.phase)
  BY <1>4, EnsureAbsentIs DEF TypeInv, TypeOK
<1>5. QED
  BY <1>2, <1>3, <1>4 DEF CallLost, PerformPhase

(* A restart renames the Terminated messages that wait. *)
LEMMA OrphansTyped ==
    ASSUME NEW kept \in Seq(Notification), NEW renamed,
           renamed = [i \in DOMAIN kept |->
                         IF kept[i].kind = "terminated" THEN Orphaned ELSE kept[i]]
    PROVE  renamed \in Seq(Notification) /\ DOMAIN renamed = DOMAIN kept
<1>1. \A i \in DOMAIN kept : renamed[i] \in Notification
  BY OrphanedTyped
<1>2. renamed \in [1..Len(kept) -> Notification]
  BY <1>1
<1>3. QED
  BY <1>2

LEMMA TypeInvCrash == TypeInv /\ Crash => TypeInv'
<1> SUFFICES ASSUME TypeInv, Crash PROVE TypeInv'
  OBVIOUS
<1>1. daInbox' \in Seq(Notification)
  <2>1. CASE EngineCrash \/ DeathPact
    <3>1. daInbox' = <<>>
      BY <2>1 DEF EngineCrash, DeathPact
    <3>2. QED
      BY <3>1
  <2>2. CASE DataAccessRestart
    <3> DEFINE kept == IF daPc = "update" THEN Tail(daInbox) ELSE daInbox
    <3>1. kept \in Seq(Notification)
      BY HeadAndTail DEF TypeInv, TypeOK, CopiesExist
    <3>2. daInbox' = [i \in DOMAIN kept |->
                         IF kept[i].kind = "terminated" THEN Orphaned ELSE kept[i]]
      BY <2>2 DEF DataAccessRestart
    <3>3. QED
      BY <3>1, <3>2, OrphanedTyped, OrphansTyped
  <2>3. QED
    BY <2>1, <2>2 DEF Crash
<1>2. faults' \in 0..MaxFaults
  BY ConstantsAssumption DEF Crash, EngineCrash, DataAccessRestart, DeathPact, Fault, TypeInv, TypeOK
<1>3. /\ CallLost /\ ForgetManager /\ daPc' \in {"idle", "stopped"}
      /\ daServer' \in DatabaseServer \cup {NoServer}
      /\ UNCHANGED <<dbVars, leaked>>
  BY DEF Crash, EngineCrash, DataAccessRestart, DeathPact, TypeInv, TypeOK
<1>4. /\ mode' = "Stopped" /\ pc' = "idle" /\ state' = NoServer
      /\ mgrInbox' = <<>> /\ registered' = FALSE
  BY <1>3 DEF ForgetManager, StopManager
<1>5. TypeOK'
  <2>1. <<>> \in Seq(DatabaseServer)
    OBVIOUS
  <2>2. UNCHANGED <<server, session, destroyAccepted, requests, leaked>>
    BY <1>3 DEF dbVars
  <2>3. QED
    BY <1>1, <1>2, <1>3, <1>4, <2>1, <2>2, CallLostTyped DEF TypeInv, TypeOK
<1>6. CopiesExist'
  BY <1>3, <1>4 DEF TypeInv, CopiesExist, dbVars
<1>7. QED
  BY <1>5, <1>6 DEF TypeInv

LEMMA TypeInvStep == TypeInv /\ [Next]_vars => TypeInv'
<1>1. TypeInv /\ UNCHANGED vars => TypeInv'
  BY DEF TypeInv, TypeOK, CopiesExist, vars, dbVars, daVars, mgrVars, kubeVars
<1>2. QED
  BY <1>1, TypeInvAPI, TypeInvDataAccess, TypeInvManager, TypeInvKubernetes, TypeInvCrash
     DEF Next

(* Every variable keeps its type and every copy that is worked from exists. *)
THEOREM TypeInvariant == Spec => []TypeInv
BY TypeInvInit, TypeInvStep, PTL DEF Spec

(* The type invariant of the runs. *)
THEOREM TypeCorrect == Spec => []TypeOK
<1>1. TypeInv => TypeOK
  BY DEF TypeInv
<1>2. QED
  BY <1>1, TypeInvariant, PTL

-----------------------------------------------------------------------------
(***************************************************************************)
(* Until a DestroyServer request is accepted, every copy of the document,  *)
(* however stale, and every notification on its way agrees with what has   *)
(* been built: nothing is ever removed, so a copy that was true stays      *)
(* true.  That is why stale documents and repeated phases are harmless     *)
(* then, and it is the inductive invariant behind RecordedPhaseIsReached,  *)
(* ReadyMeansProvisioned and DestructionIsRequested.                       *)
(***************************************************************************)
CopyFits(s) ==
    s # NoServer => /\ s.action # "Deprovision"
                    /\ Reached(s.phase)
                    /\ s.status = "Ready" => Provisioned

MessageFits(m) ==
    /\ m.action # "Deprovision"
    /\ Reached(m.phase)
    /\ m.kind = "progress" => m.action # "None"
    /\ m.kind = "completed" => Provisioned

EverythingFits ==
    /\ CopyFits(server) /\ CopyFits(daServer) /\ CopyFits(state)
    /\ \A c \in Clients : CopyFits(session[c].server)
    /\ \A i \in DOMAIN mgrInbox : CopyFits(mgrInbox[i])
    /\ \A i \in DOMAIN daInbox : MessageFits(daInbox[i])
    /\ daPc = "update" => Head(daInbox).kind \notin {"terminated", "orphaned"}
    /\ mode = "Waiting" => Expected \subseteq kube /\ state.action # "None"
    /\ pc = "phase" => state.action # "None" /\ state.phase # "None"
    /\ pc = "ingress" /\ port # NoPort /\ state.phase = "Ingress" => Provisioned

FitInv == ~destroyAccepted => EverythingFits

(* Nothing that a copy or a notification vouches for goes away. *)
Grows == /\ kube \subseteq kube'
         /\ configured => configured'
         /\ port # NoPort => port' # NoPort

LEMMA CopyStaysFit ==
    ASSUME Grows, NEW s, CopyFits(s)
    PROVE  CopyFits(s)'
BY DEF Grows, CopyFits, Reached, Provisioned

LEMMA MessageStaysFit ==
    ASSUME Grows, NEW m, MessageFits(m)
    PROVE  MessageFits(m)'
BY DEF Grows, MessageFits, Reached, Provisioned

(* What DataAccess stores fits if the copy it loaded and the notification do. *)
LEMMA UpdatedFits ==
    ASSUME NEW s \in DatabaseServer, NEW m \in Notification,
           CopyFits(s), MessageFits(m), m.kind \notin {"terminated", "orphaned"}
    PROVE  CopyFits(Updated(s, m))
<1>1. s # NoServer
  BY SentinelsAssumption
<1>2. CASE m.kind = "ingress"
  BY <1>1, <1>2 DEF Updated, CopyFits, DatabaseServer
<1>3. CASE m.kind = "completed"
  <2>1. StatusOf(m) = "Ready"
    BY <1>3 DEF StatusOf, MessageFits
  <2>2. Updated(s, m) = [s EXCEPT !.status = "Ready", !.action = "None", !.phase = "None"]
    BY <1>3, <2>1 DEF Updated
  <2>3. QED
    BY <1>3, <2>2 DEF CopyFits, MessageFits, DatabaseServer, Reached, CreatedBefore
<1>4. CASE m.kind = "failed"
  <2>1. StatusOf(m) = "Error"
    BY <1>4 DEF StatusOf
  <2>2. Updated(s, m) = [s EXCEPT !.status = "Error", !.action = "None", !.phase = "None"]
    BY <1>4, <2>1 DEF Updated
  <2>3. QED
    BY <2>2 DEF CopyFits, DatabaseServer, Reached, CreatedBefore
<1>5. CASE m.kind = "progress"
  <2>1. m.action \in {"Provision", "Reconfigure"}
    BY <1>5 DEF MessageFits, Notification, Action
  <2>2. StatusOf(m) \in {"Provisioning", "Reconfiguring"}
    BY <1>5, <2>1 DEF StatusOf
  <2>3. Updated(s, m) = [s EXCEPT !.status = StatusOf(m), !.phase = m.phase]
    BY <1>5, <2>2 DEF Updated
  <2>4. QED
    BY <1>1, <2>2, <2>3 DEF CopyFits, MessageFits, DatabaseServer
<1>6. QED
  BY <1>2, <1>3, <1>4, <1>5 DEF Notification

LEMMA CreatedBeforeIs ==
    /\ CreatedBefore("None") = {}
    /\ CreatedBefore("Storage") = {}
    /\ CreatedBefore("Security") = Expected \cap {"Storage"}
    /\ CreatedBefore("Instance") = Expected \cap {"Storage", "Security"}
    /\ CreatedBefore("Network") = Expected \cap {"Storage", "Security", "Instance"}
    /\ CreatedBefore("Monitoring") = Expected \ {"Monitoring"}
    /\ CreatedBefore("Configuration") = Expected
    /\ CreatedBefore("Ingress") = Expected
BY DEF CreatedBefore, Expected, Resources

(* A phase's call, when it succeeds, takes the server to the next phase.   *)
LEMMA PresentReaches ==
    ASSUME TypeInv, NEW a \in {"Provision", "Reconfigure"}, NEW p \in Phase \ {"None"},
           Reached(p), EnsurePresent(p)
    PROVE  /\ Grows
           /\ NextPhase(a, p) # "Done" => Reached(NextPhase(a, p))'
           /\ p = "Monitoring" => Expected \subseteq kube'
           /\ p = "Ingress" => Provisioned'
<1>1. Grows
  BY EnsurePresentIs, SentinelsAssumption DEF Grows, TypeInv, TypeOK
<1>2. p \in {"Storage", "Security", "Instance", "Network", "Monitoring",
             "Configuration", "Ingress"}
  BY DEF Phase
<1>3. \A q \in Expected : (q \in CreatedBefore(p) \/ q = p) => q \in kube'
  BY <1>1, EnsurePresentIs DEF Grows, Reached
<1>4. Kind = "SqlServer" /\ p \in {"Configuration", "Ingress"} => configured'
  BY <1>1, EnsurePresentIs DEF NeedsConfiguration, Grows, Reached
<1>5. NextPhase(a, p) # "Done" => Reached(NextPhase(a, p))'
  <2>1. CASE p = "Storage"
    <3>1. NextPhase(a, p) = "Security"
      BY <2>1 DEF NextPhase
    <3>2. QED
      BY <1>3, <1>4, <2>1, <3>1, CreatedBeforeIs DEF Reached, Expected, Resources
  <2>2. CASE p = "Security"
    <3>1. NextPhase(a, p) = "Instance"
      BY <2>2 DEF NextPhase
    <3>2. QED
      BY <1>3, <1>4, <2>2, <3>1, CreatedBeforeIs DEF Reached, Expected, Resources
  <2>3. CASE p = "Instance"
    <3>1. NextPhase(a, p) = "Network"
      BY <2>3 DEF NextPhase
    <3>2. QED
      BY <1>3, <1>4, <2>3, <3>1, CreatedBeforeIs DEF Reached, Expected, Resources
  <2>4. CASE p = "Network"
    <3>1. NextPhase(a, p) = "Monitoring"
      BY <2>4 DEF NextPhase
    <3>2. QED
      BY <1>3, <1>4, <2>4, <3>1, CreatedBeforeIs DEF Reached, Expected, Resources
  <2>5. CASE p = "Configuration"
    <3>1. NextPhase(a, p) = "Ingress"
      BY <2>5 DEF NextPhase
    <3>2. QED
      BY <1>3, <1>4, <2>5, <3>1, CreatedBeforeIs DEF Reached, Expected, Resources
  <2>6. CASE p \in {"Monitoring", "Ingress"}
    BY <2>6 DEF NextPhase
  <2>7. QED
    BY <1>2, <2>1, <2>2, <2>3, <2>4, <2>5, <2>6
<1>6. p = "Monitoring" => Expected \subseteq kube'
  BY <1>3, CreatedBeforeIs
<1>7. p = "Ingress" => Provisioned'
  <2>1. SUFFICES ASSUME p = "Ingress" PROVE Provisioned'
    OBVIOUS
  <2>2. Expected \subseteq kube'
    BY <1>3, <2>1 DEF CreatedBefore, Expected, Resources
  <2>3. port' # NoPort
    BY <2>1, SentinelsAssumption, EnsurePresentIs
  <2>4. QED
    BY <1>4, <2>1, <2>2, <2>3 DEF Provisioned
<1>8. QED
  BY <1>1, <1>5, <1>6, <1>7

LEMMA FitInvInit == Init => FitInv
BY SentinelsAssumption
   DEF Init, FitInv, EverythingFits, CopyFits, NoSession

LEMMA FitInvAPI == TypeInv /\ FitInv /\ API => FitInv'
<1> SUFFICES ASSUME TypeInv, FitInv, API, ~destroyAccepted' PROVE EverythingFits'
  BY DEF FitInv
<1>1. ~destroyAccepted /\ EverythingFits
  BY DEF API, CreateServer, LoadForRequest, SaveRequest, FitInv, TypeInv, TypeOK
<1>2. UNCHANGED <<daVars, mgrVars, kubeVars>>
  BY DEF API, CreateServer, LoadForRequest, SaveRequest
<1>3. Grows
  BY <1>2 DEF Grows, kubeVars
<1>4. CopyFits(server)'
  <2>1. CASE CreateServer
    <3>1. server' = CreatedServer
      BY <2>1 DEF CreateServer
    <3>2. QED
      BY <3>1, CreatedBeforeIs DEF CreatedServer, CopyFits, Reached
  <2>2. ASSUME NEW c \in Clients, NEW op \in {"Reconfigure", "Deprovision"},
               LoadForRequest(c, op)
        PROVE  CopyFits(server)'
    BY <2>2, <1>1, <1>3, CopyStaysFit DEF LoadForRequest, EverythingFits
  <2>3. ASSUME NEW c \in Clients, SaveRequest(c)
        PROVE  CopyFits(server)'
    <3> DEFINE s == session[c].server
    <3>1. s \in DatabaseServer /\ session[c].op = "Reconfigure"
      BY <2>3, <1>1 DEF SaveRequest, TypeInv, CopiesExist
    <3>2. Reached(s.phase)
      BY <1>1, <3>1, SentinelsAssumption DEF EverythingFits, CopyFits
    <3>3. /\ server'.action = "Reconfigure" /\ server'.status = "Pending"
          /\ server'.phase = s.phase
      BY <2>3, <3>1 DEF SaveRequest, Requested, DatabaseServer
    <3>4. CreatedBefore(s.phase) \subseteq kube'
      BY <1>3, <3>2 DEF Grows, Reached
    <3>5. s.phase = "Ingress" /\ Kind = "SqlServer" => configured'
      BY <1>3, <3>2 DEF Grows, Reached
    <3>6. QED
      BY <3>3, <3>4, <3>5 DEF CopyFits, Reached
  <2>4. QED
    BY <2>1, <2>2, <2>3 DEF API
<1>5. \A d \in Clients : CopyFits(session[d].server)'
  <2>0. SUFFICES ASSUME NEW d \in Clients PROVE CopyFits(session[d].server)'
    OBVIOUS
  <2> DEFINE s == session'[d].server
  <2>1. s \in {session[d].server, server, NoServer}
    <3>1. CASE CreateServer
      BY <3>1 DEF CreateServer
    <3>2. ASSUME NEW c \in Clients, NEW op \in {"Reconfigure", "Deprovision"},
                 LoadForRequest(c, op)
          PROVE  s \in {session[d].server, server, NoServer}
      BY <3>2 DEF LoadForRequest, TypeInv, TypeOK
    <3>3. ASSUME NEW c \in Clients, SaveRequest(c)
          PROVE  s \in {session[d].server, server, NoServer}
      BY <3>3 DEF SaveRequest, TypeInv, TypeOK, NoSession
    <3>4. QED
      BY <3>1, <3>2, <3>3 DEF API
  <2>2. CopyFits(s)
    BY <1>1, <2>1 DEF EverythingFits, CopyFits
  <2>3. QED
    BY <1>3, <2>2 DEF CopyFits, Grows, Reached, Provisioned
<1>6. QED
  <2>1. CopyFits(daServer)' /\ CopyFits(state)'
    BY <1>1, <1>2 DEF EverythingFits, CopyFits, Reached, Provisioned, daVars, mgrVars, kubeVars
  <2>2. \A i \in DOMAIN mgrInbox' : CopyFits(mgrInbox[i])'
    BY <1>1, <1>2 DEF EverythingFits, CopyFits, Reached, Provisioned, mgrVars, kubeVars
  <2>3. \A i \in DOMAIN daInbox' : MessageFits(daInbox[i])'
    BY <1>1, <1>2 DEF EverythingFits, MessageFits, Reached, Provisioned, daVars, kubeVars
  <2>4. QED
    BY <1>1, <1>2, <1>4, <1>5, <2>1, <2>2, <2>3
       DEF EverythingFits, daVars, mgrVars, kubeVars, Provisioned

LEMMA FitInvDataAccess == TypeInv /\ FitInv /\ DataAccess => FitInv'
<1> SUFFICES ASSUME TypeInv, FitInv, DataAccess, ~destroyAccepted' PROVE EverythingFits'
  BY DEF FitInv
<1> USE DEF dbVars, daVars, mgrVars, kubeVars
<1>1. UNCHANGED kubeVars /\ UNCHANGED <<session, destroyAccepted, pc, state>>
  BY DEF DataAccess, ScanRead, ScanCreateManager, ScanNotifyManager,
         LoadForUpdate, SaveUpdate, ManagerTerminated
<1>2. EverythingFits /\ Grows
  BY <1>1 DEF FitInv, Grows
<1>3. CopyFits(server)'
  <2>1. CASE SaveUpdate
    <3>1. Head(daInbox) \in Notification /\ MessageFits(Head(daInbox))
      BY <2>1, <1>2, HeadAndTail DEF SaveUpdate, TypeInv, TypeOK, CopiesExist, EverythingFits
    <3>2. Head(daInbox).kind \notin {"terminated", "orphaned"}
      BY <2>1, <1>2 DEF SaveUpdate, EverythingFits
    <3>3. daServer \in DatabaseServer /\ CopyFits(daServer)
      BY <2>1, <1>2 DEF SaveUpdate, TypeInv, CopiesExist, EverythingFits
    <3>4. CopyFits(Updated(daServer, Head(daInbox)))
      BY <3>1, <3>2, <3>3, UpdatedFits
    <3>5. server' = Updated(daServer, Head(daInbox))
      BY <2>1 DEF SaveUpdate
    <3>6. QED
      BY <1>2, <3>4, <3>5 DEF CopyFits, Grows, Reached, Provisioned
  <2>2. CASE ~SaveUpdate
    <3>1. server' = server
      BY <2>2 DEF DataAccess, ScanRead, ScanCreateManager, ScanNotifyManager,
                  LoadForUpdate, ManagerTerminated
    <3>2. QED
      BY <1>2, <3>1 DEF EverythingFits, CopyFits, Grows, Reached, Provisioned
  <2>3. QED
    BY <2>1, <2>2
<1>4. CopyFits(daServer)' /\ CopyFits(state)'
  <2>1. daServer' \in {server, daServer, NoServer}
    BY DEF DataAccess, ScanRead, ScanCreateManager, ScanNotifyManager,
           LoadForUpdate, SaveUpdate, ManagerTerminated
  <2>2. CopyFits(daServer') /\ CopyFits(state')
    BY <1>1, <1>2, <2>1 DEF EverythingFits, CopyFits
  <2>3. QED
    BY <1>1, <2>2 DEF CopyFits, Reached, Provisioned
<1>5. \A i \in DOMAIN mgrInbox' : CopyFits(mgrInbox[i])'
  <2>1. \A i \in DOMAIN mgrInbox' : CopyFits(mgrInbox'[i])
    <3>1. CASE ScanCreateManager
      BY <1>2, <3>1 DEF ScanCreateManager, EverythingFits
    <3>2. CASE ScanNotifyManager
      BY <1>2, <3>2 DEF ScanNotifyManager, EverythingFits, TypeInv, TypeOK, CopiesExist
    <3>3. CASE ~ScanCreateManager /\ ~ScanNotifyManager
      BY <1>2, <3>3 DEF DataAccess, ScanRead, LoadForUpdate, SaveUpdate, ManagerTerminated,
                        EverythingFits
    <3>4. QED
      BY <3>1, <3>2, <3>3
  <2>2. QED
    BY <1>1, <2>1 DEF CopyFits, Reached, Provisioned
<1>6. \A i \in DOMAIN daInbox' : MessageFits(daInbox[i])'
  <2>1. daInbox' = daInbox \/ (daInbox # <<>> /\ daInbox' = Tail(daInbox))
    BY DEF DataAccess, ScanRead, ScanCreateManager, ScanNotifyManager,
           LoadForUpdate, SaveUpdate, ManagerTerminated, TypeInv, CopiesExist
  <2>2. \A i \in DOMAIN daInbox' : MessageFits(daInbox'[i])
    BY <1>2, <2>1 DEF EverythingFits, TypeInv, TypeOK
  <2>3. QED
    BY <1>1, <2>2 DEF MessageFits, Reached, Provisioned
<1>7. mode' = "Waiting" => mode = "Waiting"
  BY DEF DataAccess, ScanRead, ScanCreateManager, ScanNotifyManager,
         LoadForUpdate, SaveUpdate, ManagerTerminated
<1>8. daPc' = "update" => Head(daInbox').kind \notin {"terminated", "orphaned"}
  BY DEF DataAccess, ScanRead, ScanCreateManager, ScanNotifyManager,
         LoadForUpdate, SaveUpdate, ManagerTerminated
<1>9. QED
  <2>1. \A c \in Clients : CopyFits(session[c].server)'
    BY <1>1, <1>2 DEF EverythingFits, CopyFits, Reached, Provisioned
  <2>2. QED
    BY <1>1, <1>2, <1>3, <1>4, <1>5, <1>6, <1>7, <1>8, <2>1 DEF EverythingFits, Provisioned

(* Messages that fit may be sent. *)
LEMMA SendFits ==
    ASSUME TypeInv, EverythingFits, Grows,
           NEW sent \in Seq(Notification), \A i \in DOMAIN sent : MessageFits(sent[i])',
           daInbox' = daInbox \o sent, daPc' = daPc
    PROVE  /\ \A i \in DOMAIN daInbox' : MessageFits(daInbox[i])'
           /\ daPc' = "update" => Head(daInbox').kind \notin {"terminated", "orphaned"}
<1>1. \A i \in DOMAIN daInbox : MessageFits(daInbox[i])
  BY DEF EverythingFits
<1>2. \A i \in DOMAIN daInbox' : MessageFits(daInbox'[i]) \/ \E j \in DOMAIN sent : daInbox'[i] = sent[j]
  BY <1>1 DEF TypeInv, TypeOK
<1>3. \A i \in DOMAIN daInbox' : MessageFits(daInbox[i])'
  BY <1>2, MessageStaysFit
<1>4. daPc = "update" => daInbox # <<>> /\ Head(daInbox').kind = Head(daInbox).kind
  BY DEF TypeInv, TypeOK, CopiesExist
<1>5. QED
  BY <1>3, <1>4 DEF EverythingFits

LEMMA SendOneFits ==
    ASSUME TypeInv, EverythingFits, Grows,
           NEW m \in Notification, MessageFits(m)',
           daInbox' = Append(daInbox, m), daPc' = daPc
    PROVE  /\ \A i \in DOMAIN daInbox' : MessageFits(daInbox[i])'
           /\ daPc' = "update" => Head(daInbox').kind \notin {"terminated", "orphaned"}
<1>1. <<m>> \in Seq(Notification) /\ daInbox' = daInbox \o <<m>>
  <2>1. daInbox \in Seq(Notification)
    BY DEF TypeInv, TypeOK
  <2>2. QED
    BY <2>1
<1>2. \A i \in DOMAIN <<m>> : MessageFits(<<m>>[i])'
  OBVIOUS
<1>3. QED
  BY <1>1, <1>2, SendFits

(* While a phase is under way and no destruction was requested, ...        *)
LEMMA PhaseUnderWay ==
    ASSUME TypeInv, EverythingFits, pc = "phase"
    PROVE  /\ state \in DatabaseServer
           /\ state.action \in {"Provision", "Reconfigure"}
           /\ state.phase \in Phase \ {"None"}
           /\ Reached(state.phase)
<1>1. state \in DatabaseServer /\ state # NoServer
  BY SentinelsAssumption DEF TypeInv, CopiesExist
<1>2. QED
  BY <1>1 DEF EverythingFits, CopyFits, DatabaseServer, Action

(* ... its call, returned or lost, only adds to what is there. *)
LEMMA PerformGrows ==
    ASSUME TypeInv, EverythingFits, pc = "phase",
           PerformPhase \/ UNCHANGED kubeVars
    PROVE  Grows
<1>1. CASE PerformPhase
  <2>1. EnsurePresent(state.phase)
    BY <1>1, PhaseUnderWay DEF PerformPhase
  <2>2. QED
    BY <2>1, PhaseUnderWay, PresentReaches
<1>2. CASE UNCHANGED kubeVars
  BY <1>2 DEF Grows, kubeVars
<1>3. QED
  BY <1>1, <1>2

(* A step of the manager that keeps to a copy that fits, in a state where  *)
(* everything fits, leads to such a state.                                 *)
LEMMA ManagerKeepsFit ==
    ASSUME TypeInv, EverythingFits, Grows,
           UNCHANGED <<server, session, daPc, daServer>>,
           CopyFits(state)',
           \A i \in DOMAIN mgrInbox' : CopyFits(mgrInbox'[i]),
           \A i \in DOMAIN daInbox' : MessageFits(daInbox[i])',
           daPc' = "update" => Head(daInbox').kind \notin {"terminated", "orphaned"},
           mode' = "Waiting" => Expected \subseteq kube' /\ state'.action # "None",
           pc' = "phase" => state'.action # "None" /\ state'.phase # "None",
           pc' = "ingress" /\ port' # NoPort /\ state'.phase = "Ingress" => Provisioned'
    PROVE  EverythingFits'
<1>1. CopyFits(server)' /\ CopyFits(daServer)'
  BY CopyStaysFit DEF EverythingFits
<1>2. \A c \in Clients : CopyFits(session[c].server)'
  BY CopyStaysFit DEF EverythingFits
<1>3. \A i \in DOMAIN mgrInbox' : CopyFits(mgrInbox[i])'
  BY CopyStaysFit
<1>4. QED
  BY <1>1, <1>2, <1>3 DEF EverythingFits

LEMMA FitInvManager == TypeInv /\ FitInv /\ Manager => FitInv'
<1> SUFFICES ASSUME TypeInv, FitInv, Manager, ~destroyAccepted' PROVE EverythingFits'
  BY DEF FitInv
<1> USE DEF dbVars, mgrVars, daVars
<1>1. UNCHANGED <<server, session, destroyAccepted, daPc, daServer>>
  BY DEF Manager, HandleInitialize, StartAction, AbandonDeprovisioning, StartIngressCheck,
         IgnoreServer, AdvancePhase, FinishPhases, FinishDeprovisioning, FailPhase,
         IngressFound, IngressMissing, PollDeployment, UncaughtFailure
<1>2. EverythingFits
  BY <1>1 DEF FitInv
<1>3. ASSUME UNCHANGED kubeVars PROVE Grows
  BY <1>3 DEF Grows, kubeVars
<1>4. mgrInbox # <<>> => CopyFits(Head(mgrInbox)) /\ Head(mgrInbox) \in DatabaseServer
  BY <1>2, HeadAndTail DEF EverythingFits, TypeInv, TypeOK
<1>5. mgrInbox # <<>> => \A i \in DOMAIN Tail(mgrInbox) : CopyFits(Tail(mgrInbox)[i])
  BY <1>2 DEF EverythingFits, TypeInv, TypeOK
<1>6. Terminated \in Notification /\ MessageFits(Terminated)'
  <2>1. MessageFits(Terminated)'
    BY CreatedBeforeIs DEF Terminated, MessageFits, Reached
  <2>2. QED
    BY <2>1, MessagesTyped DEF Action, Phase
<1>7. ASSUME UNCHANGED daInbox, Grows
      PROVE  /\ \A i \in DOMAIN daInbox' : MessageFits(daInbox[i])'
             /\ daPc' = "update" => Head(daInbox').kind \notin {"terminated", "orphaned"}
  BY <1>1, <1>2, <1>7, MessageStaysFit DEF EverythingFits
<1>8. CopyFits(NoServer)'
  BY DEF CopyFits
<1>9. CASE HandleInitialize
  <2>1. Grows /\ UNCHANGED <<daInbox, pc>> /\ mgrInbox # <<>>
    BY <1>3, <1>9 DEF HandleInitialize, TypeInv, CopiesExist
  <2>2. CopyFits(state)'
    BY <1>4, <1>9, <2>1, CopyStaysFit DEF HandleInitialize
  <2>3. \A i \in DOMAIN mgrInbox' : CopyFits(mgrInbox'[i])
    BY <1>4, <1>5, <1>9, <2>1, HeadAndTail DEF HandleInitialize, TypeInv, TypeOK
  <2>4. pc = "idle" /\ mode' = "Ready"
    BY <1>9 DEF HandleInitialize, TypeInv, TypeOK, CopiesExist
  <2>5. QED
    BY <1>1, <1>2, <1>7, <2>1, <2>2, <2>3, <2>4, ManagerKeepsFit
<1>10. CASE StartAction
  <2> DEFINE received == Head(mgrInbox)
             phase == FirstPhase(received)
  <2>1. Grows /\ mgrInbox # <<>> /\ mode' = "Ready"
    BY <1>3, <1>10 DEF StartAction, MayHandleServer
  <2>2. received \in DatabaseServer /\ CopyFits(received) /\ received # NoServer
    BY <1>4, <2>1, SentinelsAssumption
  <2>3. received.action \in {"Provision", "Reconfigure"} /\ phase \in Phase \ {"None"}
    BY <1>10, <2>2, FirstPhaseTyped DEF StartAction, CopyFits, DatabaseServer, Action
  <2>4. Reached(phase)
    BY <2>2, <2>3, CreatedBeforeIs DEF FirstPhase, CopyFits, Reached
  <2>5. state' = [received EXCEPT !.phase = phase]
    BY <1>10 DEF StartAction
  <2>6. state'.action = received.action /\ state'.phase = phase /\ state'.status = received.status
    BY <2>2, <2>5 DEF DatabaseServer
  <2>7. CopyFits(state') /\ state'.phase # "None" /\ state'.action # "None"
    BY <2>2, <2>3, <2>4, <2>6 DEF CopyFits
  <2>8. CopyFits(state)'
    BY <2>1, <2>7 DEF CopyFits, Grows, Reached, Provisioned
  <2> DEFINE m == Progress(received.action, phase)
  <2>9. m \in Notification
    BY <2>3, MessagesTyped DEF Action
  <2>10. MessageFits(m)
    BY <2>3, <2>4 DEF MessageFits, Progress
  <2>11. /\ \A i \in DOMAIN daInbox' : MessageFits(daInbox[i])'
         /\ daPc' = "update" => Head(daInbox').kind \notin {"terminated", "orphaned"}
    <3>1. daInbox' = Append(daInbox, m)
      BY <1>10 DEF StartAction
    <3>2. \A n : n = m => MessageFits(n)'
      BY <2>1, <2>10, MessageStaysFit
    <3>3. QED
      BY <1>1, <1>2, <2>1, <2>9, <3>1, <3>2, SendOneFits
  <2>12. \A i \in DOMAIN mgrInbox' : CopyFits(mgrInbox'[i])
    BY <1>5, <1>10, <2>1 DEF StartAction
  <2>13. QED
    BY <1>1, <1>2, <1>10, <2>1, <2>7, <2>8, <2>11, <2>12, ManagerKeepsFit DEF StartAction
<1>11. CASE AbandonDeprovisioning
  <2>1. Grows /\ daInbox' = Append(daInbox, Terminated) /\ StopManager
    BY <1>3, <1>11 DEF AbandonDeprovisioning
  <2>2. QED
    BY <1>1, <1>2, <1>6, <1>8, <2>1, SendOneFits, ManagerKeepsFit DEF StopManager
<1>12. CASE StartIngressCheck
  <2>1. Grows /\ UNCHANGED <<daInbox, kube, port, configured>> /\ mgrInbox # <<>> /\ mode' = "Ready"
    BY <1>3, <1>12 DEF StartIngressCheck, MayHandleServer, kubeVars
  <2>2. CopyFits(state)'
    BY <1>4, <1>12, <2>1, CopyStaysFit DEF StartIngressCheck
  <2>3. \A i \in DOMAIN mgrInbox' : CopyFits(mgrInbox'[i])
    BY <1>5, <1>12, <2>1 DEF StartIngressCheck
  <2>4. port' # NoPort /\ state'.phase = "Ingress" => Provisioned'
    <3>1. state' \in DatabaseServer /\ state' # NoServer
      BY <1>4, <1>12, <2>1, SentinelsAssumption DEF StartIngressCheck
    <3>2. QED
      BY <2>2, <3>1, CreatedBeforeIs DEF CopyFits, Reached, Provisioned
  <2>5. QED
    BY <1>1, <1>2, <1>7, <1>12, <2>1, <2>2, <2>3, <2>4, ManagerKeepsFit DEF StartIngressCheck
<1>13. CASE IgnoreServer
  <2>1. Grows /\ UNCHANGED <<daInbox, kube, port, configured, mode, pc, state>> /\ mgrInbox # <<>>
    BY <1>3, <1>13 DEF IgnoreServer, kubeVars
  <2>2. CopyFits(state)'
    BY <1>2, <2>1, CopyStaysFit DEF EverythingFits
  <2>3. \A i \in DOMAIN mgrInbox' : CopyFits(mgrInbox'[i])
    BY <1>5, <1>13, <2>1 DEF IgnoreServer
  <2>4. QED
    BY <1>1, <1>2, <1>7, <2>1, <2>2, <2>3, ManagerKeepsFit DEF EverythingFits, Provisioned
<1>14. CASE AdvancePhase \/ FinishPhases \/ FinishDeprovisioning
  <2> DEFINE a == state.action
             p == state.phase
             next == NextPhase(a, p)
  <2>1. /\ state \in DatabaseServer /\ a \in {"Provision", "Reconfigure"}
        /\ p \in Phase \ {"None"} /\ Reached(p) /\ pc = "phase"
    BY <1>2, <1>14, PhaseUnderWay DEF AdvancePhase, FinishPhases, FinishDeprovisioning
  <2>2. EnsurePresent(p)
    BY <1>14, <2>1
       DEF AdvancePhase, FinishPhases, FinishDeprovisioning, CallReturns, SwallowsFailure, PerformPhase
  <2>3. /\ Grows
        /\ \A n : n = next /\ n # "Done" => Reached(n)'
        /\ p = "Monitoring" => Expected \subseteq kube'
        /\ p = "Ingress" => Provisioned'
    BY <2>1, <2>2, PresentReaches
  <2>4. mode \in {"Ready", "Waiting"} /\ CopyFits(state) /\ state # NoServer
    BY <1>2, <2>1, SentinelsAssumption DEF EverythingFits, TypeInv, CopiesExist
  <2>5. \A i \in DOMAIN mgrInbox : CopyFits(mgrInbox[i])
    BY <1>2 DEF EverythingFits
  <2>6. CASE AdvancePhase
    <3>1. next \in Phase \ {"None"} /\ next # "Done"
      BY <2>1, <2>6 DEF AdvancePhase, NextPhase, Phase
    <3>2. state' = [state EXCEPT !.phase = next]
      BY <2>6 DEF AdvancePhase
    <3>3. state'.action = a /\ state'.phase = next /\ state'.status = state.status
      BY <2>1, <3>2 DEF DatabaseServer
    <3>4. \A n : n = next => Reached(n)'
      BY <2>3, <3>1
    <3>5. Provisioned => Provisioned'
      BY <2>3 DEF Grows, Provisioned
    <3>6. CopyFits(state)'
      BY <2>1, <2>4, <3>3, <3>4, <3>5 DEF CopyFits
    <3> DEFINE m == Progress(a, next)
    <3>7. m \in Notification
      BY <2>1, <3>1, MessagesTyped DEF Action
    <3>8. \A n : n = m => MessageFits(n)'
      BY <2>1, <3>4 DEF MessageFits, Progress
    <3>9. daInbox' = Append(daInbox, m) /\ UNCHANGED <<mode, pc, mgrInbox>>
      BY <2>6 DEF AdvancePhase
    <3>10. /\ \A i \in DOMAIN daInbox' : MessageFits(daInbox[i])'
           /\ daPc' = "update" => Head(daInbox').kind \notin {"terminated", "orphaned"}
      BY <1>1, <1>2, <2>3, <3>7, <3>8, <3>9, SendOneFits
    <3>11. mode' = "Waiting" => Expected \subseteq kube'
      BY <1>2, <2>3, <3>9 DEF EverythingFits, Grows
    <3>12. QED
      BY <1>1, <1>2, <2>1, <2>3, <2>5, <3>1, <3>3, <3>6, <3>9, <3>10, <3>11, ManagerKeepsFit
  <2>7. CASE FinishPhases
    <3>1. UNCHANGED <<daInbox, state, mgrInbox>> /\ pc' = "ingress"
          /\ mode' = IF p = "Monitoring" THEN "Waiting" ELSE mode
      BY <2>7 DEF FinishPhases
    <3>2. CopyFits(state)'
      BY <2>3, <2>4, <3>1, CopyStaysFit
    <3>3. mode' = "Waiting" => Expected \subseteq kube' /\ state'.action # "None"
      BY <1>2, <2>1, <2>3, <3>1 DEF EverythingFits, Grows
    <3>4. QED
      BY <1>1, <1>2, <1>7, <2>3, <2>5, <3>1, <3>2, <3>3, ManagerKeepsFit
  <2>8. QED
    BY <1>14, <2>1, <2>6, <2>7 DEF FinishDeprovisioning
<1>15. CASE FailPhase
  <2>1. /\ state \in DatabaseServer /\ state.action \in {"Provision", "Reconfigure"}
        /\ pc = "phase" /\ CopyFits(state) /\ state # NoServer
    BY <1>2, <1>15, PhaseUnderWay, SentinelsAssumption DEF FailPhase, EverythingFits
  <2>2. Grows
    BY <1>2, <1>15, <2>1, PerformGrows DEF FailPhase
  <2>3. /\ state'.action = state.action /\ state'.phase = "None" /\ state'.status = "Error"
        /\ UNCHANGED <<mode, mgrInbox>> /\ pc' = "idle"
        /\ daInbox' = Append(daInbox, Failed(state.action))
    BY <1>15, <2>1 DEF FailPhase, DatabaseServer
  <2>4. CopyFits(state)'
    BY <2>1, <2>3, CreatedBeforeIs DEF CopyFits, Reached
  <2>5. Failed(state.action) \in Notification
    BY <2>1, MessagesTyped DEF Action, Phase
  <2>6. \A n : n = Failed(state.action) => MessageFits(n)'
    BY <2>1, CreatedBeforeIs DEF MessageFits, Failed, Reached
  <2>7. /\ \A i \in DOMAIN daInbox' : MessageFits(daInbox[i])'
        /\ daPc' = "update" => Head(daInbox').kind \notin {"terminated", "orphaned"}
    BY <1>1, <1>2, <2>2, <2>3, <2>5, <2>6, SendOneFits
  <2>8. mode' = "Waiting" => Expected \subseteq kube' /\ state'.action # "None"
    BY <1>2, <2>2, <2>3 DEF EverythingFits, Grows
  <2>9. \A i \in DOMAIN mgrInbox' : CopyFits(mgrInbox'[i])
    BY <1>2, <2>3 DEF EverythingFits
  <2>10. QED
    BY <1>1, <1>2, <2>2, <2>3, <2>4, <2>7, <2>8, <2>9, ManagerKeepsFit
<1>16. CASE IngressFound
  <2> DEFINE news == IF port # state.port THEN <<IngressChanged(port)>> ELSE <<>>
             done == IF state.phase = "Ingress" /\ state.action # "None"
                     THEN <<Completed(state.action)>> ELSE <<>>
  <2>1. /\ Grows /\ pc = "ingress" /\ port # NoPort /\ pc' = "idle"
        /\ daInbox' = daInbox \o news \o done
        /\ UNCHANGED <<mode, mgrInbox, kube, port, configured>>
    BY <1>3, <1>16 DEF IngressFound, kubeVars
  <2>2. state \in DatabaseServer /\ state # NoServer /\ CopyFits(state)
    BY <1>2, <2>1, SentinelsAssumption DEF EverythingFits, TypeInv, CopiesExist
  <2>3. state.action \in {"None", "Provision", "Reconfigure"}
    BY <2>2 DEF CopyFits, DatabaseServer, Action
  <2>4. /\ state'.action = state.action /\ state'.phase = state.phase
        /\ state'.status = state.status
    BY <1>16, <2>2 DEF IngressFound, DatabaseServer
  <2>5. CopyFits(state)'
    BY <2>1, <2>2, <2>4 DEF CopyFits, Reached, Provisioned
  <2>6. state.phase = "Ingress" => Provisioned
    BY <1>2, <2>1 DEF EverythingFits
  <2> DEFINE sent == news \o done
  <2>7. news \in Seq(Notification) /\ done \in Seq(Notification)
    <3>1. port \in Ports \cup {NoPort} /\ "None" \in Phase /\ state.action \in Action
      BY <2>2, ServerFields DEF TypeInv, TypeOK, Phase
    <3>2. IngressChanged(port) \in Notification /\ Completed(state.action) \in Notification
      BY <3>1, MessagesTyped
    <3>3. QED
      BY <3>2
  <2>8. \A n : n = IngressChanged(port) => MessageFits(n)
    BY CreatedBeforeIs DEF MessageFits, IngressChanged, Reached
  <2>9. \A n : state.phase = "Ingress" /\ state.action # "None" /\ n = Completed(state.action)
               => MessageFits(n)
    BY <2>3, <2>6, CreatedBeforeIs DEF MessageFits, Completed, Reached
  <2>10. \A i \in DOMAIN sent : MessageFits(sent[i])
    <3>1. \A i \in DOMAIN news : news[i] = IngressChanged(port)
      OBVIOUS
    <3>2. \A i \in DOMAIN done : /\ state.phase = "Ingress" /\ state.action # "None"
                                 /\ done[i] = Completed(state.action)
      OBVIOUS
    <3>3. \A i \in DOMAIN sent : \/ \E j \in DOMAIN news : sent[i] = news[j]
                                 \/ \E j \in DOMAIN done : sent[i] = done[j]
      BY <2>7
    <3>4. QED
      BY <2>8, <2>9, <3>1, <3>2, <3>3
  <2>11. daInbox' = daInbox \o sent /\ sent \in Seq(Notification)
    <3>1. daInbox \in Seq(Notification)
      BY DEF TypeInv, TypeOK
    <3> HIDE DEF news, done
    <3>2. QED
      BY <2>1, <2>7, <3>1, ConcatAssociates
  <2>12. \A s \in Seq(Notification) : s = sent => \A i \in DOMAIN s : MessageFits(s[i])'
    BY <2>1, <2>10, MessageStaysFit
  <2>13. /\ \A i \in DOMAIN daInbox' : MessageFits(daInbox[i])'
         /\ daPc' = "update" => Head(daInbox').kind \notin {"terminated", "orphaned"}
    BY <1>1, <1>2, <2>1, <2>11, <2>12, SendFits
  <2>14. QED
    BY <1>1, <1>2, <2>1, <2>4, <2>5, <2>13, ManagerKeepsFit DEF EverythingFits
<1>17. CASE IngressMissing
  <2>1. /\ Grows /\ port = NoPort /\ pc' = "idle"
        /\ UNCHANGED <<mode, mgrInbox, state, kube, port, configured>>
    BY <1>3, <1>17 DEF IngressMissing, kubeVars
  <2>2. CopyFits(state)'
    BY <1>2, <2>1, CopyStaysFit DEF EverythingFits
  <2>3. /\ \A i \in DOMAIN daInbox' : MessageFits(daInbox[i])'
        /\ daPc' = "update" => Head(daInbox').kind \notin {"terminated", "orphaned"}
    <3>1. CASE daInbox' = daInbox
      BY <1>7, <2>1, <3>1
    <3>2. CASE daInbox' = Append(daInbox, IngressChanged(NoPort))
      <4>1. IngressChanged(NoPort) \in Notification
        BY MessagesTyped DEF Action, Phase
      <4>2. MessageFits(IngressChanged(NoPort))'
        BY CreatedBeforeIs DEF MessageFits, IngressChanged, Reached
      <4>3. QED
        BY <1>1, <1>2, <2>1, <3>2, <4>1, <4>2, SendOneFits
    <3>3. QED
      BY <1>17, <3>1, <3>2 DEF IngressMissing
  <2>4. QED
    BY <1>1, <1>2, <2>1, <2>2, <2>3, ManagerKeepsFit DEF EverythingFits
<1>18. CASE PollDeployment
  <2>1. /\ Grows /\ mode = "Waiting" /\ pc = "idle" /\ mode' = "Ready"
        /\ UNCHANGED <<pc, mgrInbox, kube, port, configured>>
    BY <1>3, <1>18 DEF PollDeployment, MayPoll, kubeVars
  <2>2. /\ state \in DatabaseServer /\ state # NoServer /\ CopyFits(state)
        /\ state.action \in {"Provision", "Reconfigure"} /\ Expected \subseteq kube
    BY <1>2, <2>1, SentinelsAssumption
       DEF EverythingFits, TypeInv, CopiesExist, CopyFits, DatabaseServer, Action
  <2>3. Reached("Configuration") /\ Reached("None")
    BY <2>2, CreatedBeforeIs DEF Reached
  <2> DEFINE failed == Failed(state.action)
             progress == Progress(state.action, "Configuration")
  <2>4. failed \in Notification /\ progress \in Notification
    BY <2>2, MessagesTyped DEF Action, Phase
  <2>5. MessageFits(failed) /\ MessageFits(progress)
    BY <2>2, <2>3 DEF MessageFits, Failed, Progress
  <2>6. \/ daInbox' = daInbox /\ state' = state
        \/ /\ daInbox' = Append(daInbox, failed)
           /\ state' = [state EXCEPT !.status = "Error", !.phase = "None"]
        \/ /\ daInbox' = Append(daInbox, progress)
           /\ state' = [state EXCEPT !.phase = "Configuration"]
    BY <1>18 DEF PollDeployment
  <2>7. CopyFits(state')
    <3>1. CASE state' = state
      BY <2>2, <3>1
    <3>2. CASE state' = [state EXCEPT !.status = "Error", !.phase = "None"]
      <4>1. state'.action = state.action /\ state'.phase = "None" /\ state'.status = "Error"
        BY <2>2, <3>2 DEF DatabaseServer
      <4>2. QED
        BY <2>2, <2>3, <4>1 DEF CopyFits
    <3>3. CASE state' = [state EXCEPT !.phase = "Configuration"]
      <4>1. /\ state'.action = state.action /\ state'.phase = "Configuration"
            /\ state'.status = state.status
        BY <2>2, <3>3 DEF DatabaseServer
      <4>2. QED
        BY <2>2, <2>3, <4>1 DEF CopyFits
    <3>4. QED
      BY <2>6, <3>1, <3>2, <3>3
  <2>8. CopyFits(state)'
    BY <2>1, <2>7 DEF CopyFits, Reached, Provisioned
  <2>9. /\ \A i \in DOMAIN daInbox' : MessageFits(daInbox[i])'
        /\ daPc' = "update" => Head(daInbox').kind \notin {"terminated", "orphaned"}
    <3>1. \A n : n = failed \/ n = progress => MessageFits(n)'
      BY <2>1, <2>5, MessageStaysFit
    <3>2. CASE daInbox' = daInbox
      BY <1>7, <2>1, <3>2
    <3>3. CASE daInbox' = Append(daInbox, failed)
      BY <1>1, <1>2, <2>1, <2>4, <3>1, <3>3, SendOneFits
    <3>4. CASE daInbox' = Append(daInbox, progress)
      BY <1>1, <1>2, <2>1, <2>4, <3>1, <3>4, SendOneFits
    <3>5. QED
      BY <2>6, <3>2, <3>3, <3>4
  <2>10. QED
    BY <1>1, <1>2, <2>1, <2>8, <2>9, ManagerKeepsFit DEF EverythingFits
<1>19. CASE UncaughtFailure
  <2>1. Grows /\ daInbox' = Append(daInbox, Terminated) /\ StopManager
    BY <1>3, <1>19 DEF UncaughtFailure
  <2>2. QED
    BY <1>1, <1>2, <1>6, <1>8, <2>1, SendOneFits, ManagerKeepsFit DEF StopManager
<1>20. QED
  BY <1>9, <1>10, <1>11, <1>12, <1>13, <1>14, <1>15, <1>16, <1>17, <1>18, <1>19 DEF Manager

(* What the engine forgets in a crash or a restart need not be kept. *)
LEMMA FitInvCrash == TypeInv /\ FitInv /\ Crash => FitInv'
<1> SUFFICES ASSUME TypeInv, FitInv, Crash, ~destroyAccepted' PROVE EverythingFits'
  BY DEF FitInv
<1>1. /\ UNCHANGED <<server, session, destroyAccepted>> /\ StopManager /\ CallLost
      /\ daPc' \in {"idle", "stopped"} /\ daServer' \in {NoServer, daServer}
  BY DEF Crash, EngineCrash, DataAccessRestart, DeathPact, ForgetManager, dbVars
<1>2. EverythingFits
  BY <1>1 DEF FitInv
<1>3. Grows
  BY <1>1, <1>2, PerformGrows DEF CallLost, Grows, kubeVars
<1>4. CopyFits(server)' /\ CopyFits(daServer)' /\ CopyFits(state)'
  BY <1>1, <1>2, <1>3, CopyStaysFit DEF EverythingFits, StopManager, CopyFits
<1>5. \A c \in Clients : CopyFits(session[c].server)'
  BY <1>1, <1>2, <1>3, CopyStaysFit DEF EverythingFits
<1>6. \A i \in DOMAIN daInbox' : MessageFits(daInbox[i])'
  <2>1. \A m \in Notification : m = Orphaned => MessageFits(m)
    BY CreatedBeforeIs DEF Orphaned, Terminated, MessageFits, Reached
  <2>2. CASE daInbox' = <<>>
    BY <2>2
  <2>3. CASE DataAccessRestart
    <3> DEFINE kept == IF daPc = "update" THEN Tail(daInbox) ELSE daInbox
    <3>1. kept \in Seq(Notification) /\ \A i \in DOMAIN kept : MessageFits(kept[i])
      BY <1>2, HeadAndTail DEF EverythingFits, TypeInv, TypeOK, CopiesExist
    <3>2. daInbox' = [i \in DOMAIN kept |->
                         IF kept[i].kind = "terminated" THEN Orphaned ELSE kept[i]]
      BY <2>3 DEF DataAccessRestart
    <3>3. \A i \in DOMAIN daInbox' : MessageFits(daInbox'[i])
      BY <2>1, <3>1, <3>2, OrphanedTyped
    <3>4. QED
      BY <1>3, <3>3, MessageStaysFit
  <2>4. QED
    BY <2>2, <2>3 DEF Crash, EngineCrash, DeathPact
<1>7. QED
  BY <1>1, <1>4, <1>5, <1>6 DEF EverythingFits, StopManager

LEMMA FitInvKubernetes == TypeInv /\ FitInv /\ Kubernetes => FitInv'
BY DEF FitInv, EverythingFits, CopyFits, MessageFits, Reached, Provisioned, dbVars, daVars,
       mgrVars, Kubernetes, DeploymentObserved, ReplicaAvailable, ReplicaLost

LEMMA FitInvStep == TypeInv /\ FitInv /\ [Next]_vars => FitInv'
<1>1. FitInv /\ UNCHANGED vars => FitInv'
  BY DEF FitInv, EverythingFits, CopyFits, MessageFits, Reached, Provisioned,
         vars, dbVars, daVars, mgrVars, kubeVars
<1>2. QED
  BY <1>1, FitInvAPI, FitInvDataAccess, FitInvManager, FitInvCrash, FitInvKubernetes DEF Next

(* Until a destruction is accepted, no stale copy asks for one. *)
THEOREM CopiesAgree == Spec => []FitInv
BY TypeInvariant, FitInvInit, FitInvStep, PTL DEF Spec

(* A recorded phase can be resumed from (see RecordedPhaseIsReached). *)
THEOREM ResumptionIsSound == Spec => []RecordedPhaseIsReached
<1>1. FitInv => RecordedPhaseIsReached
  BY DEF FitInv, EverythingFits, CopyFits, RecordedPhaseIsReached
<1>2. QED
  BY <1>1, CopiesAgree, PTL

(* What the API reports as ready is there (see ReadyMeansProvisioned). *)
THEOREM ReadyIsTrue == Spec => []ReadyMeansProvisioned
<1>1. FitInv => ReadyMeansProvisioned
  BY DEF FitInv, EverythingFits, CopyFits, ReadyMeansProvisioned
<1>2. QED
  BY <1>1, CopiesAgree, PTL

(* Every step before an accepted destruction only adds to what is there.   *)
LEMMA StepGrows ==
    TypeInv /\ FitInv /\ [Next]_vars /\ ~destroyAccepted => Grows
<1> SUFFICES ASSUME TypeInv, FitInv, [Next]_vars, ~destroyAccepted PROVE Grows
  OBVIOUS
<1>1. EverythingFits
  BY DEF FitInv
<1>2. ASSUME UNCHANGED kubeVars PROVE Grows
  BY <1>2 DEF Grows, kubeVars
<1>3. CASE UNCHANGED vars
  BY <1>2, <1>3 DEF vars
<1>4. CASE API
  BY <1>2, <1>4 DEF API, CreateServer, LoadForRequest, SaveRequest
<1>5. CASE DataAccess
  BY <1>2, <1>5 DEF DataAccess, ScanRead, ScanCreateManager, ScanNotifyManager,
                    LoadForUpdate, SaveUpdate, ManagerTerminated
<1>6. CASE Manager
  <2>1. CASE AdvancePhase \/ FinishPhases \/ FinishDeprovisioning \/ FailPhase
    <3>1. pc = "phase" /\ (PerformPhase \/ UNCHANGED kubeVars)
      BY <2>1 DEF AdvancePhase, FinishPhases, FinishDeprovisioning, FailPhase, CallReturns
    <3>2. QED
      BY <1>1, <3>1, PerformGrows
  <2>2. CASE ~(AdvancePhase \/ FinishPhases \/ FinishDeprovisioning \/ FailPhase)
    <3>1. UNCHANGED kubeVars
      BY <1>6, <2>2
         DEF Manager, HandleInitialize, StartAction, AbandonDeprovisioning,
             StartIngressCheck, IgnoreServer, IngressFound, IngressMissing,
             PollDeployment, UncaughtFailure
    <3>2. QED
      BY <1>2, <3>1
  <2>3. QED
    BY <2>1, <2>2
<1>7. CASE Kubernetes
  BY <1>7 DEF Kubernetes, DeploymentObserved, ReplicaAvailable, ReplicaLost, Grows
<1>8. CASE Crash
  BY <1>1, <1>2, <1>8, PerformGrows DEF Crash, EngineCrash, DataAccessRestart, DeathPact, CallLost
<1>9. QED
  BY <1>3, <1>4, <1>5, <1>6, <1>7, <1>8 DEF Next

(* Nothing is removed that nobody asked to destroy. *)
THEOREM NothingIsDestroyedUnasked == Spec => DestructionIsRequested
<1>1. TypeInv /\ FitInv /\ [Next]_vars
      => [~(kube \subseteq kube') \/ (port # NoPort /\ port' = NoPort)
          => destroyAccepted]_vars
  BY StepGrows DEF Grows
<1>2. QED
  BY <1>1, TypeInvariant, CopiesAgree, PTL DEF Spec, DestructionIsRequested

-----------------------------------------------------------------------------
(***************************************************************************)
(* The registry.  An actor's life ends in exactly one Terminated, and the  *)
(* entry in _serverManagers lives until DataAccess has handled it.         *)
(***************************************************************************)
TerminationsIn(s) == {i \in DOMAIN s : s[i].kind = "terminated"}

RegistryInv ==
    /\ mode # "Stopped" => registered /\ TerminationsIn(daInbox) = {}
    /\ mode = "Stopped" /\ registered
       => \E i \in DOMAIN daInbox : TerminationsIn(daInbox) = {i}
    /\ mode = "Stopped" /\ ~registered => TerminationsIn(daInbox) = {}
    /\ daPc = "update" => Head(daInbox).kind \notin {"terminated", "orphaned"}

(* Other notifications do not disturb the count; a Terminated adds one.    *)
LEMMA AppendTerminations ==
    ASSUME NEW s \in Seq(Notification), NEW m \in Notification
    PROVE  /\ m.kind # "terminated"
              => TerminationsIn(Append(s, m)) = TerminationsIn(s)
           /\ m.kind = "terminated" /\ TerminationsIn(s) = {}
              => TerminationsIn(Append(s, m)) = {Len(s) + 1}
BY DEF TerminationsIn

(* Consuming a notification. *)
LEMMA TailTerminations ==
    ASSUME NEW s \in Seq(Notification), s # <<>>
    PROVE  /\ TerminationsIn(s) = {} => TerminationsIn(Tail(s)) = {}
           /\ \A i \in DOMAIN s : TerminationsIn(s) = {i} =>
                IF Head(s).kind = "terminated"
                THEN TerminationsIn(Tail(s)) = {}
                ELSE \E j \in DOMAIN Tail(s) : TerminationsIn(Tail(s)) = {j}
<1>1. TerminationsIn(s) = {} => TerminationsIn(Tail(s)) = {}
  BY DEF TerminationsIn
<1>2. ASSUME NEW i \in DOMAIN s, TerminationsIn(s) = {i}
      PROVE  IF Head(s).kind = "terminated"
             THEN TerminationsIn(Tail(s)) = {}
             ELSE \E j \in DOMAIN Tail(s) : TerminationsIn(Tail(s)) = {j}
  <2>1. \A k \in DOMAIN s : s[k].kind = "terminated" <=> k = i
    BY <1>2 DEF TerminationsIn
  <2>2. \A k \in DOMAIN Tail(s) : k + 1 \in DOMAIN s /\ Tail(s)[k] = s[k + 1]
    OBVIOUS
  <2>3. CASE Head(s).kind = "terminated"
    <3>1. i = 1
      BY <2>1, <2>3
    <3>2. QED
      BY <2>1, <2>2, <2>3, <3>1 DEF TerminationsIn
  <2>4. CASE Head(s).kind # "terminated"
    <3>1. i # 1 /\ i - 1 \in DOMAIN Tail(s)
      BY <2>1, <2>4
    <3>2. \A k \in DOMAIN Tail(s) : Tail(s)[k].kind = "terminated" <=> k = i - 1
      BY <2>1, <2>2, <3>1
    <3>3. QED
      BY <2>4, <3>1, <3>2 DEF TerminationsIn
  <2>5. QED
    BY <2>3, <2>4
<1>3. QED
  BY <1>1, <1>2

(* A live manager's sends, followed by its end or not. *)
LEMMA ManagerSends ==
    ASSUME TypeInv, RegistryInv, mode # "Stopped", UNCHANGED <<registered, daPc>>,
           \/ /\ mode' # "Stopped" /\ daInbox' = daInbox
           \/ \E m \in Notification :
                /\ daInbox' = Append(daInbox, m)
                /\ IF m.kind = "terminated" THEN mode' = "Stopped" ELSE mode' # "Stopped"
    PROVE  RegistryInv'
<1>1. daInbox \in Seq(Notification) /\ registered /\ TerminationsIn(daInbox) = {}
  BY DEF TypeInv, TypeOK, RegistryInv
<1>2. CASE mode' # "Stopped" /\ daInbox' = daInbox
  BY <1>1, <1>2 DEF RegistryInv
<1>3. ASSUME NEW m \in Notification, daInbox' = Append(daInbox, m),
             IF m.kind = "terminated" THEN mode' = "Stopped" ELSE mode' # "Stopped"
      PROVE  RegistryInv'
  <2>1. daPc = "update" => Head(daInbox') = Head(daInbox)
    BY <1>1, <1>3 DEF TypeInv, CopiesExist
  <2>2. Len(daInbox) + 1 \in DOMAIN daInbox'
    BY <1>1, <1>3
  <2>3. IF m.kind = "terminated" THEN TerminationsIn(daInbox') = {Len(daInbox) + 1}
                                 ELSE TerminationsIn(daInbox') = {}
    BY <1>1, <1>3, AppendTerminations
  <2>4. QED
    BY <1>1, <1>3, <2>1, <2>2, <2>3 DEF RegistryInv
<1>4. QED
  BY <1>2, <1>3

LEMMA RegistryInvManager == TypeInv /\ RegistryInv /\ Manager => RegistryInv'
<1> SUFFICES ASSUME TypeInv, RegistryInv, Manager PROVE RegistryInv'
  OBVIOUS
<1>1. UNCHANGED <<registered, daPc>>
  BY DEF Manager, HandleInitialize, StartAction, AbandonDeprovisioning, StartIngressCheck,
         IgnoreServer, AdvancePhase, FinishPhases, FinishDeprovisioning, FailPhase,
         IngressFound, IngressMissing, PollDeployment, UncaughtFailure, daVars
<1>2. mode # "Stopped"
  BY DEF Manager, HandleInitialize, StartAction, AbandonDeprovisioning, StartIngressCheck,
         IgnoreServer, AdvancePhase, FinishPhases, FinishDeprovisioning, FailPhase,
         IngressFound, IngressMissing, PollDeployment, UncaughtFailure,
         MayHandleServer, MayPoll, TypeInv, CopiesExist
<1>3. CASE HandleInitialize \/ StartIngressCheck \/ IgnoreServer \/ FinishPhases
  <2>1. mode' # "Stopped" /\ daInbox' = daInbox
    BY <1>2, <1>3 DEF HandleInitialize, StartIngressCheck, IgnoreServer, FinishPhases, daVars
  <2>2. QED
    BY <1>1, <1>2, <2>1, ManagerSends
<1>4. CASE StartAction
  <2> DEFINE received == Head(mgrInbox)
             m == Progress(received.action, FirstPhase(received))
  <2>1. received \in DatabaseServer
    BY <1>4, HeadAndTail DEF StartAction, MayHandleServer, TypeInv, TypeOK
  <2>2. m \in Notification /\ m.kind = "progress"
    BY <2>1, ServerFields, FirstPhaseTyped, MessagesTyped DEF Progress
  <2>3. daInbox' = Append(daInbox, m) /\ mode' # "Stopped"
    BY <1>2, <1>4 DEF StartAction
  <2>4. QED
    BY <1>1, <1>2, <2>2, <2>3, ManagerSends
<1>5. CASE AbandonDeprovisioning \/ UncaughtFailure
  <2>1. daInbox' = Append(daInbox, Terminated) /\ mode' = "Stopped"
    BY <1>5 DEF AbandonDeprovisioning, UncaughtFailure, StopManager
  <2>2. Terminated \in Notification /\ Terminated.kind = "terminated"
    BY MessagesTyped DEF Terminated, Action, Phase
  <2>3. QED
    BY <1>1, <1>2, <2>1, <2>2, ManagerSends
<1>6. CASE AdvancePhase
  <2> DEFINE next == NextPhase(state.action, state.phase)
             m == Progress(state.action, next)
  <2>1. state \in DatabaseServer
    BY <1>6 DEF AdvancePhase, TypeInv, CopiesExist
  <2>2. next \in Phase
    BY <1>6, <2>1, ServerFields, NextPhaseTyped DEF AdvancePhase
  <2>3. m \in Notification /\ m.kind = "progress"
    BY <2>1, <2>2, ServerFields, MessagesTyped DEF Progress
  <2>4. daInbox' = Append(daInbox, m) /\ mode' # "Stopped"
    BY <1>2, <1>6 DEF AdvancePhase
  <2>5. QED
    BY <1>1, <1>2, <2>3, <2>4, ManagerSends
<1>7. CASE FinishDeprovisioning
  <2> DEFINE done == Completed("Deprovision")
             told == Append(daInbox, done)
  <2>1. done \in Notification /\ done.kind = "completed"
    BY MessagesTyped DEF Completed, Action, Phase
  <2>2. Terminated \in Notification /\ Terminated.kind = "terminated"
    BY MessagesTyped DEF Terminated, Action, Phase
  <2>3. daInbox \in Seq(Notification) /\ TerminationsIn(daInbox) = {} /\ registered
    BY <1>2 DEF TypeInv, TypeOK, RegistryInv
  <2>4. told \in Seq(Notification) /\ TerminationsIn(told) = {}
    BY <2>1, <2>3, AppendTerminations
  <2>5. daInbox' = Append(told, Terminated)
    <3>1. daInbox' = daInbox \o <<done, Terminated>>
      BY <1>7 DEF FinishDeprovisioning
    <3>2. ASSUME NEW s \in Seq(Notification), NEW a \in Notification, NEW b \in Notification
          PROVE  s \o <<a, b>> = Append(Append(s, a), b)
      OBVIOUS
    <3>3. QED
      BY <2>1, <2>2, <2>3, <3>1, <3>2
  <2>6. TerminationsIn(daInbox') = {Len(told) + 1} /\ Len(told) + 1 \in DOMAIN daInbox'
    <3> HIDE DEF told
    <3>1. TerminationsIn(Append(told, Terminated)) = {Len(told) + 1}
      BY <2>2, <2>4, AppendTerminations
    <3>2. Len(told) + 1 \in DOMAIN Append(told, Terminated)
      BY <2>2, <2>4
    <3>3. QED
      BY <2>5, <3>1, <3>2
  <2>7. daPc = "update" => daInbox # <<>> /\ Head(daInbox') = Head(daInbox)
    BY <2>2, <2>3, <2>5 DEF TypeInv, CopiesExist
  <2>8. mode' = "Stopped"
    BY <1>7 DEF FinishDeprovisioning, StopManager
  <2>9. QED
    BY <1>1, <2>3, <2>6, <2>7, <2>8 DEF RegistryInv
<1>8. CASE FailPhase \/ PollDeployment
  <2>1. state \in DatabaseServer
    BY <1>8 DEF FailPhase, PollDeployment, MayPoll, TypeInv, CopiesExist
  <2> DEFINE failed == Failed(state.action)
             progress == Progress(state.action, "Configuration")
  <2>2. /\ failed \in Notification /\ failed.kind = "failed"
        /\ progress \in Notification /\ progress.kind = "progress"
    BY <2>1, ServerFields, MessagesTyped DEF Failed, Progress, Action, Phase
  <2>3. /\ mode' # "Stopped"
        /\ \/ daInbox' = daInbox
           \/ daInbox' = Append(daInbox, failed)
           \/ daInbox' = Append(daInbox, progress)
    BY <1>2, <1>8 DEF FailPhase, PollDeployment
  <2>4. QED
    BY <1>1, <1>2, <2>2, <2>3, ManagerSends
<1>9. CASE IngressMissing
  <2>1. IngressChanged(NoPort) \in Notification /\ IngressChanged(NoPort).kind = "ingress"
    BY MessagesTyped DEF IngressChanged, Action, Phase
  <2>2. /\ mode' # "Stopped"
        /\ daInbox' = daInbox \/ daInbox' = Append(daInbox, IngressChanged(NoPort))
    BY <1>2, <1>9 DEF IngressMissing
  <2>3. QED
    BY <1>1, <1>2, <2>1, <2>2, ManagerSends
<1>10. CASE IngressFound
  <2> DEFINE news == IF port # state.port THEN <<IngressChanged(port)>> ELSE <<>>
             done == IF state.phase = "Ingress" /\ state.action # "None"
                     THEN <<Completed(state.action)>> ELSE <<>>
             changed == IngressChanged(port)
             completed == Completed(state.action)
  <2>1. state \in DatabaseServer /\ port \in Ports \cup {NoPort}
    BY <1>10 DEF IngressFound, TypeInv, TypeOK, CopiesExist
  <2>2. /\ changed \in Notification /\ changed.kind = "ingress"
        /\ completed \in Notification /\ completed.kind = "completed"
    BY <2>1, ServerFields, MessagesTyped DEF IngressChanged, Completed, Phase
  <2>3. daInbox \in Seq(Notification) /\ TerminationsIn(daInbox) = {} /\ registered
    BY <1>2 DEF TypeInv, TypeOK, RegistryInv
  <2>4. /\ mode' # "Stopped"
        /\ daInbox' \in {daInbox, Append(daInbox, changed), Append(daInbox, completed),
                         Append(Append(daInbox, changed), completed)}
    <3>1. daInbox' = daInbox \o news \o done /\ mode' # "Stopped"
      BY <1>2, <1>10 DEF IngressFound
    <3>2. ASSUME NEW s \in Seq(Notification), NEW a \in Notification, NEW b \in Notification
          PROVE  /\ s \o <<>> = s /\ s \o <<a>> = Append(s, a)
                 /\ Append(s, a) \o <<b>> = Append(Append(s, a), b)
                 /\ Append(s, a) \o <<>> = Append(s, a)
      OBVIOUS
    <3>3. daInbox \o news \in {daInbox, Append(daInbox, changed)}
      BY <2>2, <2>3, <3>2
    <3>4. QED
      BY <2>2, <2>3, <3>1, <3>2, <3>3
  <2>5. TerminationsIn(daInbox') = {}
    <3>1. Append(daInbox, changed) \in Seq(Notification)
      BY <2>2, <2>3
    <3>2. QED
      BY <2>2, <2>3, <2>4, <3>1, AppendTerminations
  <2>6. daPc = "update" => Head(daInbox') = Head(daInbox)
    BY <2>2, <2>3, <2>4 DEF TypeInv, CopiesExist
  <2>7. QED
    BY <1>1, <2>3, <2>4, <2>5, <2>6 DEF RegistryInv
<1>11. QED
  BY <1>3, <1>4, <1>5, <1>6, <1>7, <1>8, <1>9, <1>10 DEF Manager

LEMMA RegistryInvStep == TypeInv /\ RegistryInv /\ [Next]_vars => RegistryInv'
<1> SUFFICES ASSUME TypeInv, RegistryInv, [Next]_vars PROVE RegistryInv'
  OBVIOUS
<1> USE DEF dbVars, daVars, mgrVars
<1>1. daInbox \in Seq(Notification)
  BY DEF TypeInv, TypeOK
<1>2. CASE UNCHANGED vars
  BY <1>2 DEF vars, RegistryInv
<1>3. CASE API \/ Kubernetes
  BY <1>3 DEF API, CreateServer, LoadForRequest, SaveRequest, Kubernetes,
              DeploymentObserved, ReplicaAvailable, ReplicaLost, RegistryInv
<1>4. CASE ScanRead \/ ScanCreateManager \/ ScanNotifyManager
  BY <1>4 DEF ScanRead, ScanCreateManager, ScanNotifyManager, RegistryInv
<1>5. CASE LoadForUpdate /\ daInbox' = daInbox
  BY <1>5 DEF LoadForUpdate, RegistryInv
<1>6. CASE /\ LoadForUpdate \/ SaveUpdate
           /\ daInbox # <<>> /\ daInbox' = Tail(daInbox)
  <2>1. Head(daInbox).kind \notin {"terminated", "orphaned"} /\ daPc' # "update" /\ UNCHANGED <<mode, registered>>
    BY <1>1, <1>6 DEF LoadForUpdate, SaveUpdate, RegistryInv
  <2>2. QED
    BY <1>1, <1>6, <2>1, TailTerminations DEF RegistryInv
<1>7. CASE ManagerTerminated
  <2>1. /\ daInbox # <<>> /\ Head(daInbox).kind = "terminated"
        /\ daPc' = "idle" /\ ~registered' /\ daInbox' = Tail(daInbox) /\ UNCHANGED mode
    BY <1>7 DEF ManagerTerminated
  <2>2. 1 \in TerminationsIn(daInbox)
    BY <1>1, <2>1 DEF TerminationsIn
  <2>3. mode = "Stopped" /\ \E i \in DOMAIN daInbox : TerminationsIn(daInbox) = {i}
    BY <2>1, <2>2 DEF RegistryInv, TypeInv, TypeOK
  <2>4. QED
    BY <1>1, <2>1, <2>3, TailTerminations DEF RegistryInv
<1>8. CASE Crash
  <2>1. mode' = "Stopped" /\ registered' = FALSE /\ daPc' \in {"idle", "stopped"}
    BY <1>8 DEF Crash, EngineCrash, DataAccessRestart, DeathPact, ForgetManager, StopManager
  <2>2. TerminationsIn(daInbox') = {}
    BY <1>8, OrphanedTyped DEF Crash, EngineCrash, DataAccessRestart, DeathPact, TerminationsIn
  <2>3. QED
    BY <2>1, <2>2 DEF RegistryInv
<1>9. CASE Manager
  BY <1>9, RegistryInvManager
<1>10. QED
  BY <1>2, <1>3, <1>4, <1>5, <1>6, <1>7, <1>8, <1>9
     DEF Next, DataAccess, LoadForUpdate, SaveUpdate, TypeInv, CopiesExist

(* _serverManagers agrees with the actors (see RegistryCoherent).          *)
THEOREM RegistryIsCoherent == Spec => []RegistryCoherent
<1>1. Init => RegistryInv
  BY DEF Init, RegistryInv, TerminationsIn
<1>2. RegistryInv => RegistryCoherent
  <2>1. Terminations = TerminationsIn(daInbox)
    BY DEF Terminations, TerminationsIn
  <2>2. Cardinality({}) = 0 /\ \A i : Cardinality({i}) = 1
    BY FS_EmptySet, FS_Singleton
  <2>3. QED
    BY <2>1, <2>2 DEF RegistryInv, RegistryCoherent
<1>3. QED
  BY <1>1, <1>2, RegistryInvStep, TypeInvariant, PTL DEF Spec
=============================================================================
