----------------------- MODULE TenantServerSlowProofs -----------------------
(***************************************************************************)
(* Theorems about TenantServer when timers are slow and document sessions  *)
(* do not overlap: what it then promises to the tenant (ServerLifecycle),  *)
(* for every set of clients and ports, every bound, both kinds of server   *)
(* and every failure and crash.                                            *)
(***************************************************************************)
EXTENDS TenantServerProofs, SequenceTheorems

(* A timer fires when the work of the last one is done, and a session runs *)
(* from its load to its save undisturbed.                                  *)
SlowTimers == ~TimersRace /\ ~RequestsOverlap

-----------------------------------------------------------------------------
(***************************************************************************)
(* The inductive invariant.  Its idea: while an action is in the document, *)
(* whoever works on it works on that very action, and the phase each of    *)
(* them has noted (the document, the manager, a notification on its way)   *)
(* is one that can be resumed from.                                        *)
(***************************************************************************)

(* What is gone when a de-provisioning has come to phase p. *)
RemovedBefore(p) ==
    /\ p \notin {"None", "Ingress"} => port = NoPort
    /\ p \in {"Network", "Instance", "Security", "Storage"} => "Monitoring" \notin kube
    /\ p \in {"Instance", "Security", "Storage"} => "Network" \notin kube
    /\ p \in {"Security", "Storage"} => "Instance" \notin kube
    /\ p = "Storage" => "Security" \notin kube

(* Action a can be resumed from phase p. *)
Resumable(a, p) ==
    IF a = "Deprovision" THEN leaked \/ RemovedBefore(p)
                         ELSE CreatedBefore(p) \subseteq kube

(* The document. *)
DocumentInv ==
    /\ server # NoServer =>
          /\ requests > 0
          /\ Resumable(server.action, server.phase)
          /\ IF server.action = "None" THEN server.phase = "None"
                                       ELSE server.status # "Ready"
    /\ server = NoServer => mode = "Stopped" /\ daPc # "scan"

(* At most one session is open, on the document as it is. *)
SessionInv ==
    /\ \A c \in Clients : session[c] # NoSession =>
          /\ server # NoServer /\ server.action = "None"
          /\ session[c].server = server
          /\ \A d \in Clients : session[d] # NoSession => d = c
          /\ daPc # "update"
    /\ daPc = "update" => /\ daServer = server
                          /\ Head(daInbox).kind \notin {"terminated", "orphaned"}

(* A copy on its way to the manager is alone on its way, and is only about *)
(* an action when it is the document as it is.                             *)
CopyIsCurrent(s) == s.action # "None" => s = server

TransitInv ==
    /\ daPc = "scan" => mgrInbox = <<>> /\ CopyIsCurrent(daServer)
    /\ mgrInbox # <<>> => Len(mgrInbox) = 1 /\ CopyIsCurrent(Head(mgrInbox))
    /\ daPc = "scan" \/ mgrInbox # <<>> => daInbox = <<>> /\ pc = "idle"

(* The manager works on the document's action. *)
AtWork == \/ pc = "phase" \/ mode = "Waiting"
          \/ pc = "ingress" /\ state.action # "None"

ManagerInv ==
    /\ AtWork => /\ server # NoServer /\ server.action # "None"
                 /\ state.action = server.action
    /\ pc = "phase" => mode = "Ready" /\ Resumable(state.action, state.phase)
    /\ mode = "Waiting" => state.phase = "Monitoring"
    /\ AtWork /\ pc # "phase" => /\ state.action # "Deprovision"
                                 /\ Expected \subseteq kube

(* Notifications about an action are about the document's; the one of its  *)
(* outcome is true, the last of them, and the manager has finished.        *)
AboutAction == {"progress", "completed", "failed"}
Outcome == {"completed", "failed"}

MessageIsTrue(m) ==
    /\ m.kind \in AboutAction =>
          server # NoServer /\ server.action # "None" /\ m.action = server.action
    /\ m.kind = "progress" => Resumable(m.action, m.phase)
    /\ m.kind \in Outcome => pc = "idle" /\ mode # "Waiting"
    /\ m.kind = "completed" =>
          IF m.action = "Deprovision"
          THEN mode = "Stopped" /\ (leaked \/ (kube = {} /\ port = NoPort))
          ELSE Expected \subseteq kube /\ port # NoPort

OutcomeIsLast(s) ==
    \A i, j \in DOMAIN s :
        i < j /\ s[i].kind \in Outcome => s[j].kind \notin AboutAction

NotificationInv == /\ \A i \in DOMAIN daInbox : MessageIsTrue(daInbox[i])
                   /\ OutcomeIsLast(daInbox)

SlowInv == /\ DocumentInv /\ SessionInv /\ TransitInv
           /\ ManagerInv /\ NotificationInv
           /\ InstanceHasDependencies /\ NothingLeftBehind
-----------------------------------------------------------------------------
(* The calls of the phases. *)

(* A phase that creates leads from what the earlier phases created to what *)
(* the next one starts from, and keeps what there is.                      *)
LEMMA CreatingResumes ==
    ASSUME NEW a \in Action \ {"Deprovision"}, NEW p,
           EnsurePresent(p), CreatedBefore(p) \subseteq kube
    PROVE  /\ kube \subseteq kube'
           /\ port # NoPort => port' # NoPort
           /\ InstanceHasDependencies /\ leaked' = leaked => InstanceHasDependencies'
           /\ NextPhase(a, p) # "Done" => CreatedBefore(NextPhase(a, p)) \subseteq kube'
           /\ NextPhase(a, p) = "Done" => Expected \subseteq kube'
<1>1. kube \subseteq kube' /\ \A q \in Expected : q \in CreatedBefore(p) \/ q = p => q \in kube'
  BY EnsurePresentIs
<1>2. port # NoPort => port' # NoPort
  BY EnsurePresentIs
<1>3. p \in {"Storage", "Security", "Instance", "Network", "Monitoring",
             "Configuration", "Ingress"}
  BY DEF EnsurePresent
<1>4. {"Storage", "Security", "Instance", "Network"} \subseteq Expected
  BY DEF Expected, Resources
<1>5. InstanceHasDependencies /\ leaked' = leaked => InstanceHasDependencies'
  <2>1. "Instance" \in kube' => "Instance" \in kube \/ p = "Instance"
    BY EnsurePresentIs
  <2>2. p = "Instance" => {"Storage", "Security"} \subseteq kube
    BY <1>4, CreatedBeforeIs
  <2>3. QED
    BY <1>1, <2>1, <2>2 DEF InstanceHasDependencies
<1>6. CreatedBefore(NextPhase(a, p)) \subseteq kube' \/ NextPhase(a, p) = "Done"
  <2>1. CASE p = "Storage"
    BY <1>1, <2>1, CreatedBeforeIs DEF NextPhase
  <2>2. CASE p = "Security"
    BY <1>1, <2>2, CreatedBeforeIs DEF NextPhase
  <2>3. CASE p = "Instance"
    BY <1>1, <2>3, CreatedBeforeIs DEF NextPhase
  <2>4. CASE p = "Network"
    BY <1>1, <2>4, CreatedBeforeIs DEF NextPhase, Expected, Resources
  <2>5. CASE p = "Configuration"
    BY <1>1, <2>5, CreatedBeforeIs DEF NextPhase
  <2>6. CASE p \in {"Monitoring", "Ingress"}
    BY <2>6 DEF NextPhase
  <2>7. QED
    BY <1>3, <2>1, <2>2, <2>3, <2>4, <2>5, <2>6
<1>7. NextPhase(a, p) = "Done" => Expected \subseteq kube'
  <2>1. NextPhase(a, p) = "Done" => p \in {"Monitoring", "Ingress"}
    BY <1>3 DEF NextPhase
  <2>2. QED
    BY <1>1, <2>1, CreatedBeforeIs
<1>8. QED
  BY <1>1, <1>2, <1>5, <1>6, <1>7

(* A phase that removes only removes, ... *)
LEMMA RemovingRemoves ==
    ASSUME TypeInv, NEW p, EnsureAbsent(p)
    PROVE  /\ kube' = kube \ {p}
           /\ port' = IF p = "Ingress" THEN NoPort ELSE port
           /\ p \in {"Ingress", "Monitoring", "Network", "Instance", "Security", "Storage"}
BY DEF EnsureAbsent, EnsureExternalServiceAbsent, EnsureServiceMonitorAbsent,
       EnsureInternalServiceAbsent, EnsureDeploymentAbsent, EnsureCredentialsSecretAbsent,
       EnsureDataVolumeClaimAbsent, TypeInv, TypeOK, Resources

(* ... and in an order that leaves no instance without what it needs.      *)
LEMMA RemovingResumes ==
    ASSUME TypeInv, NEW p, EnsureAbsent(p)
    PROVE  /\ kube' \subseteq kube
           /\ port = NoPort => port' = NoPort
           /\ RemovedBefore(p) =>
                /\ InstanceHasDependencies /\ leaked' = leaked => InstanceHasDependencies'
                /\ NextPhase("Deprovision", p) # "Done"
                   => RemovedBefore(NextPhase("Deprovision", p))'
                /\ NextPhase("Deprovision", p) = "Done" => kube' = {} /\ port' = NoPort
<1>1. kube' \subseteq kube /\ (port = NoPort => port' = NoPort)
  BY RemovingRemoves
<1> SUFFICES ASSUME RemovedBefore(p)
             PROVE  /\ InstanceHasDependencies /\ leaked' = leaked => InstanceHasDependencies'
                    /\ NextPhase("Deprovision", p) # "Done"
                       => RemovedBefore(NextPhase("Deprovision", p))'
                    /\ NextPhase("Deprovision", p) = "Done" => kube' = {} /\ port' = NoPort
  BY <1>1
<1>2. InstanceHasDependencies /\ leaked' = leaked => InstanceHasDependencies'
  BY RemovingRemoves DEF InstanceHasDependencies, RemovedBefore
<1>3. NextPhase("Deprovision", p) # "Done" => RemovedBefore(NextPhase("Deprovision", p))'
  <2>1. CASE p = "Ingress"
    BY <2>1, RemovingRemoves DEF RemovedBefore, NextPhase
  <2>2. CASE p = "Monitoring"
    BY <2>2, RemovingRemoves DEF RemovedBefore, NextPhase
  <2>3. CASE p = "Network"
    BY <2>3, RemovingRemoves DEF RemovedBefore, NextPhase
  <2>4. CASE p = "Instance"
    BY <2>4, RemovingRemoves DEF RemovedBefore, NextPhase
  <2>5. CASE p = "Security"
    BY <2>5, RemovingRemoves DEF RemovedBefore, NextPhase
  <2>6. CASE p = "Storage"
    BY <2>6 DEF NextPhase
  <2>7. QED
    BY <2>1, <2>2, <2>3, <2>4, <2>5, <2>6, RemovingRemoves
<1>4. NextPhase("Deprovision", p) = "Done" => kube' = {} /\ port' = NoPort
  <2>1. NextPhase("Deprovision", p) = "Done" => p = "Storage"
    BY RemovingRemoves DEF NextPhase
  <2>2. kube \subseteq Resources
    BY DEF TypeInv, TypeOK
  <2>3. QED
    BY <2>1, <2>2, RemovingRemoves DEF RemovedBefore, Resources
<1>5. QED
  BY <1>2, <1>3, <1>4

(* What Kubernetes looks like after a step that may include the call of    *)
(* the manager's phase, or part of it, or none.                            *)
WorldStep ==
    \/ UNCHANGED <<kube, port>> /\ leaked' = leaked
    \/ UNCHANGED <<kube, port>> /\ leaked' = TRUE /\ state.action = "Deprovision"
    \/ PerformPhase /\ leaked' = leaked

(* Whatever could be resumed before can be resumed after it. *)
LEMMA WorldKeepsResumable ==
    ASSUME TypeInv, SlowInv, WorldStep,
           pc = "phase" \/ UNCHANGED <<kube, port, leaked>>,
           NEW a, server # NoServer => a = server.action
    PROVE  /\ server # NoServer => \A p : Resumable(a, p) => Resumable(a, p)'
           /\ InstanceHasDependencies'
           /\ ~UNCHANGED <<kube, port, leaked>> =>
                /\ server # NoServer
                /\ IF a = "Deprovision"
                   THEN /\ kube' \subseteq kube /\ (port = NoPort => port' = NoPort)
                        /\ leaked => leaked'
                   ELSE /\ kube \subseteq kube' /\ (port # NoPort => port' # NoPort)
                        /\ leaked' = leaked
<1>1. CASE UNCHANGED <<kube, port, leaked>>
  <2>1. \A p : Resumable(a, p) => Resumable(a, p)'
    BY <1>1 DEF Resumable, RemovedBefore
  <2>2. QED
    BY <1>1, <2>1 DEF SlowInv, InstanceHasDependencies
<1>2. CASE /\ pc = "phase" /\ UNCHANGED <<kube, port>> /\ leaked' = TRUE
           /\ state.action = "Deprovision"
  <2>1. server # NoServer /\ a = "Deprovision"
    BY <1>2 DEF SlowInv, ManagerInv, AtWork
  <2>2. QED
    BY <1>2, <2>1 DEF Resumable, InstanceHasDependencies
<1>3. CASE pc = "phase" /\ PerformPhase /\ leaked' = leaked
  <2>1. /\ server # NoServer /\ state.action = a
        /\ Resumable(a, state.phase) /\ InstanceHasDependencies
        /\ a \in Action
    BY <1>3, ServerFields DEF SlowInv, ManagerInv, AtWork, TypeInv, CopiesExist
  <2>2. CASE a = "Deprovision"
    <3>1. EnsureAbsent(state.phase) /\ (leaked \/ RemovedBefore(state.phase))
      BY <1>3, <2>1, <2>2 DEF PerformPhase, Resumable
    <3>2. kube' \subseteq kube /\ (port = NoPort => port' = NoPort)
      BY <3>1, RemovingResumes
    <3>3. InstanceHasDependencies'
      BY <1>3, <2>1, <3>1, RemovingResumes DEF InstanceHasDependencies
    <3>4. \A p : Resumable(a, p) => Resumable(a, p)'
      BY <1>3, <2>2, <3>2 DEF Resumable, RemovedBefore
    <3>5. QED
      BY <1>3, <2>1, <2>2, <3>2, <3>3, <3>4
  <2>3. CASE a # "Deprovision"
    <3>1. EnsurePresent(state.phase) /\ CreatedBefore(state.phase) \subseteq kube
      BY <1>3, <2>1, <2>3 DEF PerformPhase, Resumable
    <3>2. /\ kube \subseteq kube' /\ (port # NoPort => port' # NoPort)
          /\ InstanceHasDependencies'
      BY <1>3, <2>1, <2>3, <3>1, CreatingResumes
    <3>3. \A p : Resumable(a, p) => Resumable(a, p)'
      BY <2>3, <3>2 DEF Resumable
    <3>4. QED
      BY <1>3, <2>1, <2>3, <3>2, <3>3
  <2>4. QED
    BY <2>2, <2>3
<1>4. QED
  BY <1>1, <1>2, <1>3 DEF WorldStep

(* A call that returns takes the action to its next phase, or to its end.  *)
LEMMA CallLeadsOn ==
    ASSUME TypeInv, SlowInv, pc = "phase", CallReturns,
           NEW a, a = state.action, NEW next, next = NextPhase(a, state.phase)
    PROVE  /\ next # "Done" => Resumable(a, next)'
           /\ next = "Done" /\ a # "Deprovision" => Expected \subseteq kube'
           /\ next = "Done" /\ a = "Deprovision"
              => leaked' \/ (kube' = {} /\ port' = NoPort)
           /\ WorldStep
<1>1. WorldStep
  BY DEF CallReturns, SwallowsFailure, WorldStep, kubeVars
<1>2. a \in Action /\ Resumable(a, state.phase)
  BY ServerFields DEF SlowInv, ManagerInv, TypeInv, CopiesExist
<1>3. CASE PerformPhase /\ leaked' = leaked /\ a = "Deprovision"
  <2>1. EnsureAbsent(state.phase) /\ (leaked \/ RemovedBefore(state.phase))
    BY <1>2, <1>3 DEF PerformPhase, Resumable
  <2>2. leaked' \/ IF next = "Done" THEN kube' = {} /\ port' = NoPort
                                    ELSE RemovedBefore(next)'
    BY <1>3, <2>1, RemovingResumes
  <2>3. QED
    BY <1>1, <1>3, <2>2 DEF Resumable
<1>4. CASE PerformPhase /\ leaked' = leaked /\ a # "Deprovision"
  <2>1. EnsurePresent(state.phase) /\ CreatedBefore(state.phase) \subseteq kube
    BY <1>2, <1>4 DEF PerformPhase, Resumable
  <2>2. IF next = "Done" THEN Expected \subseteq kube'
                         ELSE CreatedBefore(next) \subseteq kube'
    BY <1>2, <1>4, <2>1, CreatingResumes
  <2>3. CreatedBefore(next)' = CreatedBefore(next)
    BY DEF CreatedBefore
  <2>4. QED
    BY <1>1, <1>4, <2>2, <2>3 DEF Resumable
<1>5. CASE a = "Deprovision" /\ leaked' = TRUE
  BY <1>1, <1>5 DEF Resumable
<1>6. QED
  BY <1>3, <1>4, <1>5 DEF CallReturns, SwallowsFailure
-----------------------------------------------------------------------------
(* Notifications on their way. *)

LEMMA AppendOutcome ==
    ASSUME NEW s \in Seq(Notification), NEW m \in Notification,
           \A i \in DOMAIN s : s[i].kind \notin Outcome
    PROVE  OutcomeIsLast(Append(s, m))
BY DEF OutcomeIsLast

LEMMA TailOutcome ==
    ASSUME NEW s \in Seq(Notification), s # <<>>, OutcomeIsLast(s)
    PROVE  /\ OutcomeIsLast(Tail(s))
           /\ Head(s).kind \in Outcome
              => \A i \in DOMAIN Tail(s) : Tail(s)[i].kind \notin AboutAction
<1>1. \A i \in DOMAIN Tail(s) : i + 1 \in DOMAIN s /\ Tail(s)[i] = s[i + 1]
  OBVIOUS
<1>2. \A i, j \in DOMAIN Tail(s) : i < j => i + 1 < j + 1
  OBVIOUS
<1>3. OutcomeIsLast(Tail(s))
  BY <1>1, <1>2 DEF OutcomeIsLast
<1>4. 1 \in DOMAIN s /\ Head(s) = s[1] /\ \A i \in DOMAIN Tail(s) : 1 < i + 1
  OBVIOUS
<1>5. QED
  BY <1>1, <1>3, <1>4 DEF OutcomeIsLast

(* What a notification says of an action in progress stays true. *)
LEMMA MessageStaysTrue ==
    ASSUME TypeInv, SlowInv, WorldStep,
           pc = "phase" \/ UNCHANGED <<kube, port, leaked>>, server' = server,
           NEW m, m.kind \notin Outcome, MessageIsTrue(m)
    PROVE  MessageIsTrue(m)'
BY WorldKeepsResumable DEF MessageIsTrue, AboutAction, Outcome

LEMMA SingletonQueue ==
    ASSUME NEW S, NEW s \in Seq(S), Len(s) = 1
    PROVE  Tail(s) = <<>> /\ Append(Tail(s), Head(s)) = s
<1>1. Tail(s) = <<>>
  <2>1. s # <<>>
    OBVIOUS
  <2>2. Tail(s) \in Seq(S) /\ Len(Tail(s)) = 0
    BY <2>1, HeadTailProperties
  <2>3. QED
    BY <2>2, EmptySeq
<1>2. Append(<<>>, Head(s)) = s
  <2>1. <<>> \in Seq(S) /\ Len(<<>>) = 0 /\ Head(s) \in S /\ Head(s) = s[1]
    OBVIOUS
  <2>2. /\ Append(<<>>, Head(s)) \in Seq(S) /\ Len(Append(<<>>, Head(s))) = 1
        /\ Append(<<>>, Head(s))[1] = s[1]
    BY <2>1, AppendProperties
  <2>3. QED
    BY <2>2, SeqEqual
<1>3. QED
  BY <1>1, <1>2

(* While no outcome is on its way, true notifications may be sent.         *)
LEMMA SentNothing ==
    ASSUME TypeInv, SlowInv, WorldStep,
           pc = "phase" \/ UNCHANGED <<kube, port, leaked>>, server' = server,
           \A i \in DOMAIN daInbox : daInbox[i].kind \notin Outcome,
           daInbox' = daInbox
    PROVE  NotificationInv'
BY MessageStaysTrue DEF SlowInv, NotificationInv

LEMMA SentOne ==
    ASSUME TypeInv, SlowInv, WorldStep,
           pc = "phase" \/ UNCHANGED <<kube, port, leaked>>, server' = server,
           \A i \in DOMAIN daInbox : daInbox[i].kind \notin Outcome,
           NEW m \in Notification, MessageIsTrue(m)',
           daInbox' = Append(daInbox, m)
    PROVE  NotificationInv'
<1>1. daInbox \in Seq(Notification)
  BY DEF TypeInv, TypeOK
<1>2. \A i \in DOMAIN daInbox' : daInbox'[i] = m \/ \E j \in DOMAIN daInbox : daInbox'[i] = daInbox[j]
  BY <1>1
<1>3. \A j \in DOMAIN daInbox : MessageIsTrue(daInbox[j]) /\ daInbox[j].kind \notin Outcome
  BY DEF SlowInv, NotificationInv
<1>4. \A i \in DOMAIN daInbox' : MessageIsTrue(daInbox[i])'
  BY <1>2, <1>3, MessageStaysTrue
<1>5. QED
  BY <1>1, <1>4, AppendOutcome DEF NotificationInv

LEMMA SentTwo ==
    ASSUME TypeInv, SlowInv, WorldStep,
           pc = "phase" \/ UNCHANGED <<kube, port, leaked>>, server' = server,
           \A i \in DOMAIN daInbox : daInbox[i].kind \notin Outcome,
           NEW m \in Notification, MessageIsTrue(m)',
           NEW n \in Notification, MessageIsTrue(n)',
           m.kind \notin Outcome \/ n.kind \notin AboutAction,
           daInbox' = Append(Append(daInbox, m), n)
    PROVE  NotificationInv'
<1>1. daInbox \in Seq(Notification) /\ Append(daInbox, m) \in Seq(Notification)
  BY DEF TypeInv, TypeOK
<1>2. \A i \in DOMAIN daInbox' : \/ daInbox'[i] \in {m, n}
                                \/ \E j \in DOMAIN daInbox : daInbox'[i] = daInbox[j]
  BY <1>1
<1>3. \A j \in DOMAIN daInbox : MessageIsTrue(daInbox[j]) /\ daInbox[j].kind \notin Outcome
  BY DEF SlowInv, NotificationInv
<1>4. \A i \in DOMAIN daInbox' : MessageIsTrue(daInbox[i])'
  BY <1>2, <1>3, MessageStaysTrue
<1>5. OutcomeIsLast(daInbox')
  <2>1. /\ DOMAIN daInbox' = 1..(Len(daInbox) + 2)
        /\ \A i \in DOMAIN daInbox : daInbox'[i] = daInbox[i]
        /\ daInbox'[Len(daInbox) + 1] = m /\ daInbox'[Len(daInbox) + 2] = n
    BY <1>1
  <2>2. ASSUME NEW i \in DOMAIN daInbox', NEW j \in DOMAIN daInbox',
               i < j, daInbox'[i].kind \in Outcome
        PROVE  daInbox'[j].kind \notin AboutAction
    <3>1. i \notin DOMAIN daInbox
      BY <2>1, <2>2
    <3>2. i = Len(daInbox) + 1 /\ j = Len(daInbox) + 2
      BY <1>1, <2>1, <2>2, <3>1
    <3>3. QED
      BY <2>1, <2>2, <3>2
  <2>3. QED
    BY <2>2 DEF OutcomeIsLast
<1>6. QED
  BY <1>4, <1>5 DEF NotificationInv

-----------------------------------------------------------------------------
(* The manager. *)

(* It only moves while no outcome is on its way, and no scan either. *)
LEMMA ManagerMoves ==
    ASSUME SlowTimers, TypeInv, SlowInv, Manager
    PROVE  /\ mode # "Stopped" /\ server # NoServer /\ daPc # "scan"
           /\ \A i \in DOMAIN daInbox : daInbox[i].kind \notin Outcome
           /\ UNCHANGED <<server, session, requests, daPc, daServer>>
           /\ \/ mgrInbox' = <<>>
              \/ /\ HandleInitialize /\ mgrInbox' = mgrInbox
                 /\ daInbox = <<>> /\ pc = "idle"
<1> USE DEF dbVars, daVars, mgrVars
<1>1. mode # "Stopped" /\ UNCHANGED <<server, session, requests, daPc, daServer>>
  BY DEF Manager, HandleInitialize, StartAction, AbandonDeprovisioning, StartIngressCheck,
         IgnoreServer, AdvancePhase, FinishPhases, FinishDeprovisioning, FailPhase,
         IngressFound, IngressMissing, PollDeployment, UncaughtFailure,
         MayHandleServer, MayPoll, TypeInv, CopiesExist
<1>2. server # NoServer
  BY <1>1 DEF SlowInv, DocumentInv
<1>3. /\ mgrInbox \in Seq(DatabaseServer)
      /\ mgrInbox # <<>> => Len(mgrInbox) = 1 /\ daInbox = <<>> /\ pc = "idle"
      /\ daPc = "scan" => mgrInbox = <<>> /\ pc = "idle"
      /\ mode = "Initializing" => mgrInbox # <<>>
      /\ pc # "idle" => mode \in {"Ready", "Waiting"}
  BY DEF SlowInv, TransitInv, TypeInv, TypeOK, CopiesExist
<1>4. \A i \in DOMAIN daInbox :
          daInbox[i].kind \in Outcome => pc = "idle" /\ mode # "Waiting"
  BY DEF SlowInv, NotificationInv, MessageIsTrue
<1>5. CASE mgrInbox # <<>>
  <2>1. daPc # "scan" /\ daInbox = <<>> /\ pc = "idle"
    BY <1>3, <1>5
  <2>2. Tail(mgrInbox) = <<>> /\ Append(Tail(mgrInbox), Head(mgrInbox)) = mgrInbox
    BY <1>3, <1>5, SingletonQueue
  <2>3. \/ mgrInbox' = <<>>
        \/ HandleInitialize /\ mgrInbox' = mgrInbox
    <3>1. CASE HandleInitialize
      BY <2>2, <3>1 DEF HandleInitialize
    <3>2. CASE StartAction \/ AbandonDeprovisioning \/ StartIngressCheck \/ IgnoreServer
      BY <2>2, <3>2 DEF StartAction, AbandonDeprovisioning, StartIngressCheck,
                        IgnoreServer, StopManager
    <3>3. CASE AdvancePhase \/ FinishPhases \/ FinishDeprovisioning \/ FailPhase
               \/ IngressFound \/ IngressMissing
      BY <2>1, <3>3 DEF AdvancePhase, FinishPhases, FinishDeprovisioning, FailPhase,
                        IngressFound, IngressMissing
    <3>4. CASE PollDeployment
      BY <1>5, <3>4 DEF PollDeployment, MayPoll, TimerMayFire, Quiescent, SlowTimers
    <3>5. CASE UncaughtFailure
      BY <3>5 DEF UncaughtFailure, StopManager
    <3>6. QED
      BY <3>1, <3>2, <3>3, <3>4, <3>5 DEF Manager
  <2>4. QED
    BY <1>1, <1>2, <2>1, <2>3
<1>6. CASE mgrInbox = <<>>
  <2>1. pc # "idle" \/ (mode = "Waiting" /\ daPc = "idle")
    BY <1>3, <1>6
       DEF Manager, HandleInitialize, StartAction, AbandonDeprovisioning, StartIngressCheck,
           IgnoreServer, AdvancePhase, FinishPhases, FinishDeprovisioning, FailPhase,
           IngressFound, IngressMissing, PollDeployment, UncaughtFailure,
           MayHandleServer, MayPoll, TimerMayFire, Quiescent, SlowTimers
  <2>2. mgrInbox' = <<>>
    BY <1>3, <1>6
       DEF Manager, HandleInitialize, StartAction, AbandonDeprovisioning, StartIngressCheck,
           IgnoreServer, AdvancePhase, FinishPhases, FinishDeprovisioning, FailPhase,
           IngressFound, IngressMissing, PollDeployment, UncaughtFailure,
           MayHandleServer, StopManager
  <2>3. QED
    BY <1>1, <1>2, <1>3, <1>4, <2>1, <2>2
<1>7. QED
  BY <1>5, <1>6

(* The parts of the invariant that are not about what the manager did.     *)
LEMMA ManagerKeeps ==
    ASSUME SlowTimers, TypeInv, SlowInv, Manager, TypeInv', WorldStep,
           pc = "phase" \/ UNCHANGED <<kube, port, leaked>>,
           ~HandleInitialize \/ UNCHANGED <<daInbox, pc>>,
           daPc = "update" => Head(daInbox') = Head(daInbox),
           ManagerInv', NotificationInv'
    PROVE  SlowInv'
<1>1. /\ server # NoServer /\ daPc # "scan"
      /\ UNCHANGED <<server, session, requests, daPc, daServer>>
  BY ManagerMoves
<1>2. InstanceHasDependencies' /\ Resumable(server.action, server.phase)'
  <2>1. \A a, p : a = server.action /\ p = server.phase => Resumable(a, p)'
    BY <1>1, WorldKeepsResumable DEF SlowInv, DocumentInv
  <2>2. QED
    BY <1>1, <2>1, WorldKeepsResumable
<1>3. DocumentInv' /\ NothingLeftBehind'
  BY <1>1, <1>2 DEF SlowInv, DocumentInv, NothingLeftBehind
<1>4. SessionInv'
  BY <1>1 DEF SlowInv, SessionInv
<1>5. TransitInv'
  <2>1. CASE mgrInbox' = <<>>
    BY <1>1, <2>1 DEF TransitInv
  <2>2. CASE HandleInitialize /\ mgrInbox' = mgrInbox /\ daInbox = <<>> /\ pc = "idle"
    BY <1>1, <2>2 DEF SlowInv, TransitInv, CopyIsCurrent
  <2>3. QED
    BY <2>1, <2>2, ManagerMoves
<1>6. QED
  BY <1>2, <1>3, <1>4, <1>5 DEF SlowInv

LEMMA FirstPhaseResumable ==
    ASSUME NEW s \in DatabaseServer, Resumable(s.action, s.phase)
    PROVE  Resumable(s.action, FirstPhase(s))
BY CreatedBeforeIs DEF FirstPhase, Resumable, RemovedBefore

LEMMA SlowInvManager ==
    SlowTimers /\ TypeInv /\ SlowInv /\ Manager /\ TypeInv' => SlowInv'
<1> SUFFICES ASSUME SlowTimers, TypeInv, SlowInv, Manager, TypeInv' PROVE SlowInv'
  OBVIOUS
<1>1. /\ mode # "Stopped" /\ server # NoServer
      /\ UNCHANGED <<server, session, requests, daPc, daServer>>
      /\ \A i \in DOMAIN daInbox : daInbox[i].kind \notin Outcome
  BY ManagerMoves
<1>2. daInbox \in Seq(Notification) /\ (daPc = "update" => daInbox # <<>>)
  BY DEF TypeInv, TypeOK, CopiesExist
<1>3. ASSUME UNCHANGED <<kubeVars, leaked>>
      PROVE  WorldStep /\ UNCHANGED <<kube, port, leaked>>
  BY <1>3 DEF WorldStep, kubeVars
<1>4. /\ Terminated \in Notification /\ Terminated.kind = "terminated"
      /\ MessageIsTrue(Terminated)'
  BY MessagesTyped DEF Terminated, MessageIsTrue, AboutAction, Outcome, Action, Phase
<1>5. ASSUME NEW m \in Notification, daInbox' = Append(daInbox, m)
      PROVE  daPc = "update" => Head(daInbox') = Head(daInbox)
  BY <1>2, <1>5
<1>6. ASSUME NEW m \in Notification, NEW n \in Notification,
             daInbox' = Append(Append(daInbox, m), n)
      PROVE  daPc = "update" => Head(daInbox') = Head(daInbox)
  BY <1>2, <1>6
<1>7. mode' = "Stopped" /\ pc' = "idle" => ManagerInv'
  BY DEF ManagerInv, AtWork
<1>8. mode' = "Ready" /\ pc' = "idle" => ManagerInv'
  BY DEF ManagerInv, AtWork
<1>9. AtWork => /\ server.action # "None" /\ state.action = server.action
                /\ state \in DatabaseServer /\ state.action \in Action
  BY ServerFields DEF SlowInv, ManagerInv, AtWork, TypeInv, CopiesExist
<1>10. CASE HandleInitialize
  <2>1. /\ UNCHANGED <<kubeVars, leaked, daInbox, pc>> /\ mode' = "Ready" /\ pc = "idle"
    BY <1>10 DEF HandleInitialize, daVars, TypeInv, TypeOK, CopiesExist
  <2>2. NotificationInv'
    BY <1>1, <1>3, <2>1, SentNothing
  <2>3. QED
    BY <1>3, <1>8, <2>1, <2>2, ManagerKeeps
<1>11. CASE StartAction
  <2> DEFINE received == Head(mgrInbox)
             phase == FirstPhase(received)
             m == Progress(received.action, phase)
  <2>1. UNCHANGED <<kubeVars, leaked>> /\ mode' = "Ready" /\ pc' = "phase" /\ mgrInbox # <<>>
    BY <1>11 DEF StartAction, MayHandleServer
  <2>2. received = server /\ server.action # "None"
    BY <1>11, <2>1 DEF StartAction, SlowInv, TransitInv, CopyIsCurrent
  <2>3. server \in DatabaseServer /\ phase \in Phase /\ server.action \in Action
    BY <1>1, <2>2, FirstPhaseTyped, ServerFields DEF TypeInv, TypeOK
  <2>4. state'.action = server.action /\ state'.phase = phase
    BY <1>11, <2>2, <2>3 DEF StartAction, DatabaseServer
  <2>5. Resumable(server.action, phase)
    BY <1>1, <2>2, <2>3, FirstPhaseResumable DEF SlowInv, DocumentInv
  <2>6. \A a, p : a = server.action /\ p = phase => Resumable(a, p)'
    BY <1>1, <1>3, <2>1, <2>5, WorldKeepsResumable
  <2>7. ManagerInv'
    BY <1>1, <2>1, <2>2, <2>4, <2>6 DEF ManagerInv, AtWork
  <2>8. m \in Notification
    BY <2>2, <2>3, MessagesTyped
  <2>9. \A n : n = m => MessageIsTrue(n)'
    BY <1>1, <2>2, <2>6 DEF MessageIsTrue, Progress, Outcome
  <2>10. daInbox' = Append(daInbox, m)
    BY <1>11 DEF StartAction
  <2>11. NotificationInv'
    BY <1>1, <1>3, <2>1, <2>8, <2>9, <2>10, SentOne
  <2>12. ~HandleInitialize
    BY <1>11 DEF StartAction, MayHandleServer, HandleInitialize
  <2>13. QED
    BY <1>3, <1>5, <2>1, <2>7, <2>8, <2>10, <2>11, <2>12, ManagerKeeps
<1>12. CASE AbandonDeprovisioning \/ UncaughtFailure
  <2>1. /\ UNCHANGED <<kubeVars, leaked>> /\ mode' = "Stopped" /\ pc' = "idle"
        /\ daInbox' = Append(daInbox, Terminated) /\ ~HandleInitialize
    BY <1>12 DEF AbandonDeprovisioning, UncaughtFailure, StopManager, HandleInitialize
  <2>2. NotificationInv'
    BY <1>1, <1>3, <1>4, <2>1, SentOne
  <2>3. QED
    BY <1>3, <1>4, <1>5, <1>7, <2>1, <2>2, ManagerKeeps
<1>13. CASE StartIngressCheck
  <2>1. /\ UNCHANGED <<kubeVars, leaked, daInbox>> /\ mode' = "Ready" /\ pc' = "ingress"
        /\ state'.action = "None" /\ ~HandleInitialize
    BY <1>13 DEF StartIngressCheck, MayHandleServer, HandleInitialize, daVars
  <2>2. NotificationInv'
    BY <1>1, <1>3, <2>1, SentNothing
  <2>3. ManagerInv'
    BY <2>1 DEF ManagerInv, AtWork
  <2>4. QED
    BY <1>3, <2>1, <2>2, <2>3, ManagerKeeps
<1>14. CASE IgnoreServer
  <2>1. UNCHANGED <<kubeVars, leaked, daInbox, mode, pc, state>> /\ ~HandleInitialize
    BY <1>14 DEF IgnoreServer, HandleInitialize, daVars
  <2>2. NotificationInv'
    BY <1>1, <1>3, <2>1, SentNothing
  <2>3. \A a, p : Resumable(a, p) => Resumable(a, p)'
    BY <2>1 DEF Resumable, RemovedBefore, kubeVars
  <2>4. ManagerInv'
    BY <1>1, <1>14, <2>1 DEF SlowInv, ManagerInv, AtWork, IgnoreServer, kubeVars
  <2>5. QED
    BY <1>3, <2>1, <2>2, <2>4, ManagerKeeps
<1>15. CASE AdvancePhase
  <2> DEFINE a == state.action
             next == NextPhase(a, state.phase)
             m == Progress(a, next)
  <2>1. /\ pc = "phase" /\ next # "Done" /\ CallReturns /\ UNCHANGED <<mode, pc>>
        /\ daInbox' = Append(daInbox, m) /\ ~HandleInitialize
    BY <1>15 DEF AdvancePhase, HandleInitialize
  <2>2. /\ state \in DatabaseServer /\ a \in Action /\ next \in Phase
        /\ a = server.action /\ a # "None"
    BY <1>9, <2>1, ServerFields, NextPhaseTyped DEF AtWork
  <2>3. WorldStep /\ \A b, p : b = a /\ p = next => Resumable(b, p)'
    BY <2>1, CallLeadsOn
  <2>4. state'.action = a /\ state'.phase = next
    BY <1>15, <2>2 DEF AdvancePhase, DatabaseServer
  <2>5. mode' = "Ready"
    BY <2>1 DEF SlowInv, ManagerInv
  <2>6. ManagerInv'
    BY <1>1, <2>1, <2>2, <2>3, <2>4, <2>5 DEF ManagerInv, AtWork
  <2>7. m \in Notification
    BY <2>2, MessagesTyped
  <2>8. \A n : n = m => MessageIsTrue(n)'
    BY <1>1, <2>2, <2>3 DEF MessageIsTrue, Progress, Outcome
  <2>9. NotificationInv'
    BY <1>1, <2>1, <2>3, <2>7, <2>8, SentOne
  <2>10. QED
    BY <1>5, <2>1, <2>3, <2>6, <2>7, <2>9, ManagerKeeps
<1>16. CASE FinishPhases
  <2>1. /\ pc = "phase" /\ state.action # "Deprovision" /\ CallReturns
        /\ NextPhase(state.action, state.phase) = "Done"
        /\ UNCHANGED <<state, daInbox>> /\ pc' = "ingress"
        /\ mode' = IF state.phase = "Monitoring" THEN "Waiting" ELSE mode
        /\ ~HandleInitialize
    BY <1>16 DEF FinishPhases, HandleInitialize, daVars
  <2>2. WorldStep /\ Expected \subseteq kube'
    BY <2>1, CallLeadsOn
  <2>3. mode = "Ready" /\ state.action = server.action /\ server.action # "None"
    BY <1>9, <2>1 DEF SlowInv, ManagerInv, AtWork
  <2>4. ManagerInv'
    BY <1>1, <2>1, <2>2, <2>3 DEF ManagerInv, AtWork
  <2>5. NotificationInv'
    BY <1>1, <2>1, <2>2, SentNothing
  <2>6. QED
    BY <2>1, <2>2, <2>4, <2>5, ManagerKeeps
<1>17. CASE FinishDeprovisioning
  <2> DEFINE m == Completed("Deprovision")
  <2>1. /\ pc = "phase" /\ state.action = "Deprovision" /\ CallReturns
        /\ NextPhase(state.action, state.phase) = "Done"
        /\ daInbox' = daInbox \o <<m, Terminated>>
        /\ mode' = "Stopped" /\ pc' = "idle" /\ ~HandleInitialize
    BY <1>17 DEF FinishDeprovisioning, StopManager, HandleInitialize
  <2>2. WorldStep /\ (leaked' \/ (kube' = {} /\ port' = NoPort))
    BY <2>1, CallLeadsOn
  <2>3. server.action = "Deprovision"
    BY <1>9, <2>1 DEF AtWork
  <2>4. m \in Notification
    BY MessagesTyped DEF Action, Phase
  <2>5. \A n : n = m => MessageIsTrue(n)'
    BY <1>1, <2>1, <2>2, <2>3 DEF MessageIsTrue, Completed
  <2>6. daInbox' = Append(Append(daInbox, m), Terminated)
    <3>1. ASSUME NEW s \in Seq(Notification), NEW b \in Notification, NEW c \in Notification
          PROVE  s \o <<b, c>> = Append(Append(s, b), c)
      OBVIOUS
    <3>2. QED
      BY <1>2, <1>4, <2>1, <2>4, <3>1
  <2>7. NotificationInv'
    BY <1>1, <1>4, <2>1, <2>2, <2>4, <2>5, <2>6, SentTwo DEF AboutAction
  <2>8. QED
    BY <1>4, <1>6, <1>7, <2>1, <2>2, <2>4, <2>6, <2>7, ManagerKeeps
<1>18. CASE FailPhase
  <2> DEFINE m == Failed(state.action)
  <2>1. /\ pc = "phase" /\ (PerformPhase \/ UNCHANGED kubeVars) /\ leaked' = leaked
        /\ pc' = "idle" /\ mode' = mode /\ daInbox' = Append(daInbox, m) /\ ~HandleInitialize
    BY <1>18 DEF FailPhase, HandleInitialize
  <2>2. WorldStep /\ mode = "Ready"
    BY <2>1 DEF WorldStep, kubeVars, SlowInv, ManagerInv
  <2>3. state.action = server.action /\ server.action # "None" /\ m \in Notification
    BY <1>9, <2>1, MessagesTyped DEF AtWork, Phase
  <2>4. \A n : n = m => MessageIsTrue(n)'
    BY <1>1, <2>1, <2>2, <2>3 DEF MessageIsTrue, Failed
  <2>5. NotificationInv'
    BY <1>1, <2>1, <2>2, <2>3, <2>4, SentOne
  <2>6. QED
    BY <1>5, <1>8, <2>1, <2>2, <2>3, <2>5, ManagerKeeps
<1>19. CASE IngressFound \/ IngressMissing
  <2> DEFINE changed == IngressChanged(port)
             completed == Completed(state.action)
             finished == state.phase = "Ingress" /\ state.action # "None"
  <2>1. /\ pc = "ingress" /\ pc' = "idle" /\ UNCHANGED <<mode, kubeVars, leaked>>
        /\ state'.action = state.action /\ state'.phase = state.phase /\ ~HandleInitialize
    BY <1>19 DEF IngressFound, IngressMissing, HandleInitialize, TypeInv, CopiesExist,
                 DatabaseServer
  <2>2. /\ state \in DatabaseServer /\ port \in Ports \cup {NoPort}
        /\ state.action \in Action
    BY <2>1, ServerFields DEF TypeInv, TypeOK, CopiesExist
  <2>3. /\ changed \in Notification /\ changed.kind = "ingress"
        /\ completed \in Notification /\ completed.kind = "completed"
    BY <2>2, MessagesTyped DEF IngressChanged, Completed, Phase
  <2>4. \A n : n = changed => MessageIsTrue(n)'
    BY DEF MessageIsTrue, IngressChanged, AboutAction, Outcome
  <2>5. finished /\ IngressFound => \A n : n = completed => MessageIsTrue(n)'
    <3>1. SUFFICES ASSUME finished, IngressFound, NEW n, n = completed
                   PROVE  MessageIsTrue(n)'
      OBVIOUS
    <3>2. /\ n.kind = "completed" /\ n.action = server.action /\ server.action # "None"
          /\ n.action # "Deprovision" /\ Expected \subseteq kube /\ port # NoPort
          /\ mode # "Waiting"
      BY <1>9, <2>1, <3>1 DEF SlowInv, ManagerInv, AtWork, IngressFound, Completed
    <3>3. QED
      BY <1>1, <2>1, <3>2 DEF MessageIsTrue, kubeVars
  <2>6. /\ daInbox' \in {daInbox, Append(daInbox, changed), Append(daInbox, completed),
                         Append(Append(daInbox, changed), completed)}
        /\ daInbox' # daInbox /\ daInbox' # Append(daInbox, changed)
           => finished /\ IngressFound
    <3>1. ASSUME NEW s \in Seq(Notification), NEW b \in Notification, NEW c \in Notification
          PROVE  /\ s \o <<>> = s /\ s \o <<b>> = Append(s, b)
                 /\ Append(s, b) \o <<c>> = Append(Append(s, b), c)
                 /\ Append(s, b) \o <<>> = Append(s, b)
      OBVIOUS
    <3>2. CASE IngressFound
      <4> DEFINE news == IF port # state.port THEN <<changed>> ELSE <<>>
                 done == IF finished THEN <<completed>> ELSE <<>>
      <4>1. daInbox' = daInbox \o news \o done
        BY <3>2 DEF IngressFound
      <4>2. daInbox \o news \in {daInbox, Append(daInbox, changed)}
        BY <1>2, <2>3, <3>1
      <4>3. daInbox \o news \in Seq(Notification)
        BY <1>2, <2>3, <4>2
      <4>4. ~finished => daInbox' = daInbox \o news
        <5> HIDE DEF news
        <5>1. ~finished => daInbox' = (daInbox \o news) \o <<>>
          BY <4>1
        <5>2. QED
          BY <4>3, <5>1, ConcatEmptySeq
      <4>5. finished => daInbox' = Append(daInbox \o news, completed)
        <5> HIDE DEF news
        <5>1. finished => daInbox' = (daInbox \o news) \o <<completed>>
          BY <4>1
        <5>2. QED
          BY <2>3, <4>3, <5>1, AppendIsConcat
      <4>6. QED
        BY <3>2, <4>2, <4>4, <4>5
    <3>3. CASE IngressMissing
      BY <3>3 DEF IngressMissing
    <3>4. QED
      BY <1>19, <3>2, <3>3
  <2>7. NotificationInv' /\ (daPc = "update" => Head(daInbox') = Head(daInbox))
    <3>1. CASE daInbox' = daInbox
      BY <1>1, <1>3, <2>1, <3>1, SentNothing
    <3>2. CASE daInbox' = Append(daInbox, changed)
      BY <1>1, <1>3, <1>5, <2>1, <2>3, <2>4, <3>2, SentOne
    <3>3. CASE daInbox' = Append(daInbox, completed) /\ finished /\ IngressFound
      BY <1>1, <1>3, <1>5, <2>1, <2>3, <2>5, <3>3, SentOne
    <3>4. CASE /\ daInbox' = Append(Append(daInbox, changed), completed)
               /\ finished /\ IngressFound
      BY <1>1, <1>3, <1>6, <2>1, <2>3, <2>4, <2>5, <3>4, SentTwo DEF Outcome
    <3>5. QED
      BY <2>6, <3>1, <3>2, <3>3, <3>4
  <2>8. ManagerInv'
    BY <1>1, <2>1 DEF SlowInv, ManagerInv, AtWork, kubeVars
  <2>9. QED
    BY <1>3, <2>1, <2>7, <2>8, ManagerKeeps
<1>20. CASE PollDeployment
  <2> DEFINE failed == Failed(state.action)
             progress == Progress(state.action, "Configuration")
  <2>1. /\ mode = "Waiting" /\ pc = "idle" /\ pc' = "idle" /\ mode' = "Ready"
        /\ UNCHANGED <<kubeVars, leaked>> /\ ~HandleInitialize
        /\ daInbox' \in {daInbox, Append(daInbox, failed), Append(daInbox, progress)}
    BY <1>20 DEF PollDeployment, MayPoll, HandleInitialize
  <2>2. /\ state.action = server.action /\ server.action # "None"
        /\ state.action # "Deprovision" /\ Expected \subseteq kube
    BY <1>9, <2>1 DEF SlowInv, ManagerInv, AtWork
  <2>3. /\ failed \in Notification /\ failed.kind = "failed"
        /\ progress \in Notification /\ progress.kind = "progress"
    BY <1>9, <2>1, MessagesTyped DEF Failed, Progress, AtWork, Phase
  <2>4. \A n : n = failed => MessageIsTrue(n)'
    BY <1>1, <2>1, <2>2 DEF MessageIsTrue, Failed
  <2>5. \A n : n = progress => MessageIsTrue(n)'
    <3>1. \A b : b # "Deprovision" => Resumable(b, "Configuration")'
      BY <2>1, <2>2, CreatedBeforeIs DEF Resumable, kubeVars, CreatedBefore
    <3>2. QED
      BY <1>1, <2>1, <2>2, <3>1 DEF MessageIsTrue, Progress, Outcome
  <2>6. NotificationInv' /\ (daPc = "update" => Head(daInbox') = Head(daInbox))
    BY <1>1, <1>3, <1>5, <2>1, <2>3, <2>4, <2>5, SentNothing, SentOne
  <2>7. QED
    BY <1>3, <1>8, <2>1, <2>6, ManagerKeeps
<1>21. QED
  BY <1>10, <1>11, <1>12, <1>13, <1>14, <1>15, <1>16, <1>17, <1>18, <1>19, <1>20
     DEF Manager

-----------------------------------------------------------------------------
(* The other processes. *)

LEMMA SlowInvAPI == SlowTimers /\ TypeInv /\ SlowInv /\ API => SlowInv'
<1> SUFFICES ASSUME SlowTimers, TypeInv, SlowInv, API PROVE SlowInv'
  OBVIOUS
<1> USE DEF daVars, mgrVars, kubeVars
<1>1. /\ UNCHANGED <<daPc, daServer, daInbox, mode, pc, state, mgrInbox, kube, port, leaked>>
      /\ InstanceHasDependencies'
      /\ \A a, p : Resumable(a, p) => Resumable(a, p)'
  <2>1. UNCHANGED <<daVars, mgrVars, kubeVars, leaked>>
    BY DEF API, CreateServer, LoadForRequest, SaveRequest
  <2>2. QED
    BY <2>1 DEF SlowInv, InstanceHasDependencies, Resumable, RemovedBefore
<1>2. server # NoServer => requests > 0
  BY DEF SlowInv, DocumentInv
<1>3. CASE CreateServer
  <2>1. /\ server = NoServer /\ server' = CreatedServer /\ requests' = 1
        /\ UNCHANGED session /\ server' # NoServer
    BY <1>2, <1>3, SentinelsAssumption
       DEF CreateServer, CreatedServer, DatabaseServer, Action, Status, Phase
  <2>2. /\ mode = "Stopped" /\ daPc \notin {"scan", "update"} /\ pc = "idle"
        /\ \A c \in Clients : session[c] = NoSession
    BY <2>1, SentinelsAssumption DEF SlowInv, DocumentInv, SessionInv, TypeInv, CopiesExist
  <2>3. \A p : p = "None" => Resumable("Provision", p)'
    BY CreatedBeforeIs DEF Resumable, CreatedBefore
  <2>4. DocumentInv'
    BY <2>1, <2>3 DEF DocumentInv, CreatedServer
  <2>5. SessionInv'
    BY <1>1, <2>1, <2>2 DEF SessionInv
  <2>6. TransitInv' /\ ManagerInv'
    <3>1. mgrInbox # <<>> => Head(mgrInbox) \in DatabaseServer
      BY HeadAndTail DEF TypeInv, TypeOK
    <3>2. mgrInbox # <<>> => Head(mgrInbox).action = "None"
      BY <2>1, <3>1, SentinelsAssumption DEF SlowInv, TransitInv, CopyIsCurrent
    <3>3. TransitInv'
      BY <1>1, <2>2, <3>2 DEF SlowInv, TransitInv, CopyIsCurrent
    <3>4. QED
      BY <1>1, <2>2, <3>3 DEF ManagerInv, AtWork
  <2>7. NotificationInv'
    <3>1. \A i \in DOMAIN daInbox : daInbox[i].kind \notin AboutAction
      BY <2>1 DEF SlowInv, NotificationInv, MessageIsTrue
    <3>2. QED
      BY <1>1, <3>1 DEF SlowInv, NotificationInv, MessageIsTrue, AboutAction, Outcome
  <2>8. QED
    BY <1>1, <2>1, <2>4, <2>5, <2>6, <2>7 DEF SlowInv, NothingLeftBehind
<1>4. ASSUME NEW c \in Clients, NEW op \in {"Reconfigure", "Deprovision"},
             LoadForRequest(c, op)
      PROVE  SlowInv'
  <2>1. /\ SessionsClosed /\ daPc # "update" /\ server # NoServer /\ server.action = "None"
        /\ session' = [session EXCEPT ![c] = [op |-> op, server |-> server]]
        /\ requests' = requests + 1 /\ server' = server /\ requests \in Nat
    BY <1>4 DEF LoadForRequest, SlowTimers, TypeInv, TypeOK
  <2>2. SessionInv'
    <3>1. \A d \in Clients : session'[d] = IF d = c THEN [op |-> op, server |-> server]
                                                    ELSE NoSession
      BY <2>1 DEF SessionsClosed, TypeInv, TypeOK
    <3>2. QED
      BY <1>1, <2>1, <3>1 DEF SessionInv
  <2>3. DocumentInv' /\ NothingLeftBehind'
    <3>1. \A a, p : a = server.action /\ p = server.phase => Resumable(a, p)'
      BY <1>1, <2>1 DEF SlowInv, DocumentInv
    <3>2. QED
      BY <1>1, <2>1, <3>1 DEF SlowInv, DocumentInv, NothingLeftBehind
  <2>4. TransitInv' /\ ManagerInv'
    BY <1>1, <2>1 DEF SlowInv, TransitInv, CopyIsCurrent, ManagerInv, AtWork, Resumable,
                      RemovedBefore
  <2>5. NotificationInv'
    BY <1>1, <2>1 DEF SlowInv, NotificationInv, MessageIsTrue
  <2>6. QED
    BY <1>1, <2>2, <2>3, <2>4, <2>5 DEF SlowInv
<1>5. ASSUME NEW c \in Clients, SaveRequest(c)
      PROVE  SlowInv'
  <2>1. /\ server # NoServer /\ server.action = "None" /\ session[c].server = server
        /\ \A d \in Clients : session[d] # NoSession => d = c
        /\ daPc # "update" /\ server.phase = "None" /\ requests > 0
    BY <1>5 DEF SaveRequest, SlowInv, SessionInv, DocumentInv
  <2>2. /\ server \in DatabaseServer /\ session[c].op \in {"Reconfigure", "Deprovision"}
    BY <1>5, <2>1 DEF SaveRequest, TypeInv, TypeOK, CopiesExist
  <2>3. /\ server' \in DatabaseServer
        /\ server'.action = session[c].op /\ server'.status = "Pending"
        /\ server'.phase = "None" /\ server' # NoServer
        /\ session' = [session EXCEPT ![c] = NoSession] /\ UNCHANGED requests
    BY <1>5, <2>1, <2>2, SentinelsAssumption
       DEF SaveRequest, Requested, DatabaseServer, Action, Status
  <2>4. SessionInv'
    BY <1>1, <2>1, <2>3 DEF SessionInv, TypeInv, TypeOK
  <2>5. DocumentInv' /\ NothingLeftBehind'
    <3>1. \A a, p : p = "None" => Resumable(a, p)'
      BY CreatedBeforeIs DEF Resumable, RemovedBefore, CreatedBefore
    <3>2. QED
      BY <1>1, <2>1, <2>2, <2>3, <3>1 DEF DocumentInv, NothingLeftBehind
  <2>6. TransitInv'
    <3>1. daPc = "scan" => daServer.action = "None"
      BY <2>1 DEF SlowInv, TransitInv, CopyIsCurrent
    <3>2. mgrInbox # <<>> => Head(mgrInbox).action = "None"
      BY <2>1 DEF SlowInv, TransitInv, CopyIsCurrent
    <3>3. QED
      BY <1>1, <3>1, <3>2 DEF SlowInv, TransitInv, CopyIsCurrent
  <2>7. ~AtWork /\ ManagerInv'
    BY <1>1, <2>1 DEF SlowInv, ManagerInv, AtWork
  <2>8. NotificationInv'
    <3>1. \A i \in DOMAIN daInbox : daInbox[i].kind \notin AboutAction
      BY <2>1 DEF SlowInv, NotificationInv, MessageIsTrue
    <3>2. QED
      BY <1>1, <3>1 DEF SlowInv, NotificationInv, MessageIsTrue, AboutAction, Outcome
  <2>9. QED
    BY <1>1, <2>4, <2>5, <2>6, <2>7, <2>8 DEF SlowInv
<1>6. QED
  BY <1>3, <1>4, <1>5 DEF API

(* What DataAccess stores: the address, a phase, or the end of the action. *)
LEMMA StoredIs ==
    ASSUME TypeInv, SlowInv, daPc = "update", NEW m, m = Head(daInbox)
    PROVE  /\ m \in Notification /\ MessageIsTrue(m)
           /\ server \in DatabaseServer /\ server # NoServer
           /\ m.kind \in AboutAction \cup {"ingress"}
           /\ m.kind = "ingress" => Updated(server, m) = [server EXCEPT !.port = m.port]
           /\ m.kind = "progress" =>
                /\ Updated(server, m).action = server.action
                /\ Updated(server, m).phase = m.phase
                /\ Updated(server, m).status
                     \in {"Provisioning", "Reconfiguring", "Deprovisioning"}
           /\ m.kind \in Outcome =>
                IF m.kind = "completed" /\ m.action = "Deprovision"
                THEN Updated(server, m) = NoServer
                ELSE /\ Updated(server, m).action = "None"
                     /\ Updated(server, m).phase = "None"
                     /\ Updated(server, m).status
                          = IF m.kind = "failed" THEN "Error" ELSE "Ready"
           /\ Updated(server, m) \in DatabaseServer \cup {NoServer}
           /\ Updated(server, m) = NoServer => m.kind = "completed" /\ m.action = "Deprovision"
<1>1. /\ m \in Notification /\ MessageIsTrue(m)
      /\ server \in DatabaseServer /\ server # NoServer
      /\ m.kind \notin {"terminated", "orphaned"}
  BY HeadAndTail, SentinelsAssumption
     DEF SlowInv, NotificationInv, SessionInv, TypeInv, TypeOK, CopiesExist
<1>2. m.kind \in AboutAction \cup {"ingress"} /\ m.action \in Action
  BY <1>1 DEF Notification, AboutAction
<1>3. m.kind \in AboutAction => m.action \in Action \ {"None"}
  BY <1>1, <1>2 DEF MessageIsTrue
<1>4. CASE m.kind = "ingress"
  <2>1. Updated(server, m) = [server EXCEPT !.port = m.port]
    BY <1>4 DEF Updated
  <2>2. QED
    BY <1>1, <1>2, <1>4, <2>1, UpdatedTyped, SentinelsAssumption
       DEF Outcome, Notification, DatabaseServer
<1>5. CASE m.kind = "progress"
  <2>1. StatusOf(m) \in {"Provisioning", "Reconfiguring", "Deprovisioning"}
    BY <1>3, <1>5 DEF StatusOf, AboutAction, Action
  <2>2. Updated(server, m) = [server EXCEPT !.status = StatusOf(m), !.phase = m.phase]
    BY <1>5, <2>1 DEF Updated
  <2>3. [server EXCEPT !.status = StatusOf(m), !.phase = m.phase] \in DatabaseServer
    BY <1>1, <2>1 DEF DatabaseServer, Notification, Status
  <2>4. QED
    BY <1>1, <1>2, <1>5, <2>1, <2>2, <2>3, SentinelsAssumption DEF Outcome, DatabaseServer
<1>6. CASE m.kind = "completed" /\ m.action = "Deprovision"
  <2>1. StatusOf(m) = "Deprovisioned"
    BY <1>6 DEF StatusOf
  <2>2. Updated(server, m) = NoServer
    BY <1>6, <2>1 DEF Updated
  <2>3. QED
    BY <1>1, <1>2, <1>6, <2>2
<1>7. CASE m.kind = "failed" \/ (m.kind = "completed" /\ m.action # "Deprovision")
  <2> DEFINE s == IF m.kind = "failed" THEN "Error" ELSE "Ready"
  <2>1. StatusOf(m) = s
    BY <1>7 DEF StatusOf
  <2>2. Updated(server, m) = [server EXCEPT !.status = s, !.action = "None", !.phase = "None"]
    BY <1>7, <2>1 DEF Updated
  <2>3. [server EXCEPT !.status = s, !.action = "None", !.phase = "None"] \in DatabaseServer
    BY <1>1 DEF DatabaseServer, Status, Action, Phase
  <2>4. QED
    BY <1>1, <1>2, <1>7, <2>2, <2>3, SentinelsAssumption DEF DatabaseServer
<1>8. QED
  BY <1>2, <1>4, <1>5, <1>6, <1>7 DEF AboutAction

LEMMA SlowInvDataAccess == SlowTimers /\ TypeInv /\ SlowInv /\ DataAccess => SlowInv'
<1> SUFFICES ASSUME SlowTimers, TypeInv, SlowInv, DataAccess PROVE SlowInv'
  OBVIOUS
<1> USE DEF dbVars, mgrVars, kubeVars
<1>1. /\ UNCHANGED <<session, requests, pc, state, kube, port, leaked>>
      /\ InstanceHasDependencies'
      /\ \A a, p : Resumable(a, p) => Resumable(a, p)'
  <2>1. UNCHANGED <<session, requests, pc, state, kubeVars, leaked>>
    BY DEF DataAccess, ScanRead, ScanCreateManager, ScanNotifyManager,
           LoadForUpdate, SaveUpdate, ManagerTerminated
  <2>2. QED
    BY <2>1 DEF SlowInv, InstanceHasDependencies, Resumable, RemovedBefore
<1>2. CASE ScanRead
  <2>1. /\ daPc = "idle" /\ server # NoServer /\ daPc' = "scan" /\ daServer' = server
        /\ UNCHANGED <<server, mode, mgrInbox, daInbox>>
        /\ SessionsClosed /\ daInbox = <<>> /\ pc = "idle" /\ mgrInbox = <<>>
    BY <1>2 DEF ScanRead, TimerMayFire, Quiescent, SlowTimers
  <2>2. DocumentInv' /\ NothingLeftBehind'
    <3>1. \A a, p : a = server.action /\ p = server.phase => Resumable(a, p)'
      BY <1>1, <2>1 DEF SlowInv, DocumentInv
    <3>2. QED
      BY <1>1, <2>1, <3>1 DEF SlowInv, DocumentInv, NothingLeftBehind
  <2>3. SessionInv' /\ TransitInv'
    BY <1>1, <2>1 DEF SessionInv, TransitInv, CopyIsCurrent, SessionsClosed
  <2>4. ManagerInv'
    BY <1>1, <2>1 DEF SlowInv, ManagerInv, AtWork
  <2>5. NotificationInv'
    BY <1>1, <2>1 DEF SlowInv, NotificationInv
  <2>6. QED
    BY <1>1, <2>2, <2>3, <2>4, <2>5 DEF SlowInv
<1>3. CASE ScanCreateManager \/ ScanNotifyManager
  <2>1. /\ daPc = "scan" /\ daPc' = "idle" /\ UNCHANGED <<server, daInbox>>
        /\ mode' = mode \/ (mode = "Stopped" /\ mode' = "Initializing")
        /\ mgrInbox' \in {mgrInbox, <<daServer>>, Append(mgrInbox, daServer)}
    BY <1>3 DEF ScanCreateManager, ScanNotifyManager
  <2>2. /\ mgrInbox = <<>> /\ CopyIsCurrent(daServer) /\ daInbox = <<>> /\ pc = "idle"
        /\ server # NoServer /\ daServer \in DatabaseServer
    BY <2>1 DEF SlowInv, TransitInv, DocumentInv, TypeInv, CopiesExist
  <2>3. mgrInbox' # <<>> => Len(mgrInbox') = 1 /\ Head(mgrInbox') = daServer
    BY <2>1, <2>2
  <2>4. DocumentInv' /\ NothingLeftBehind'
    <3>1. \A a, p : a = server.action /\ p = server.phase => Resumable(a, p)'
      BY <1>1, <2>2 DEF SlowInv, DocumentInv
    <3>2. QED
      BY <1>1, <2>1, <2>2, <3>1 DEF SlowInv, DocumentInv, NothingLeftBehind
  <2>5. SessionInv'
    BY <1>1, <2>1 DEF SlowInv, SessionInv
  <2>6. TransitInv'
    BY <1>1, <2>1, <2>2, <2>3 DEF TransitInv, CopyIsCurrent
  <2>7. ManagerInv'
    BY <1>1, <2>1, <2>2 DEF SlowInv, ManagerInv, AtWork
  <2>8. NotificationInv'
    BY <2>1, <2>2 DEF NotificationInv, OutcomeIsLast
  <2>9. QED
    BY <1>1, <2>4, <2>5, <2>6, <2>7, <2>8 DEF SlowInv
<1>4. CASE LoadForUpdate \/ ManagerTerminated
  <2>1. /\ daPc = "idle" /\ daPc' \in {"idle", "update"}
        /\ UNCHANGED <<server, mode, mgrInbox>>
        /\ daInbox' \in {daInbox, Tail(daInbox)} /\ daInbox # <<>>
        /\ daPc' = "update" => /\ daServer' = server /\ SessionsClosed /\ daInbox' = daInbox
                               /\ Head(daInbox).kind \notin {"terminated", "orphaned"}
    BY <1>4 DEF LoadForUpdate, ManagerTerminated, SlowTimers
  <2>2. DocumentInv' /\ NothingLeftBehind'
    <3>1. \A a, p : server # NoServer /\ a = server.action /\ p = server.phase => Resumable(a, p)'
      BY <1>1, <2>1 DEF SlowInv, DocumentInv
    <3>2. QED
      BY <1>1, <2>1, <3>1 DEF SlowInv, DocumentInv, NothingLeftBehind
  <2>3. SessionInv'
    BY <1>1, <2>1 DEF SlowInv, SessionInv, SessionsClosed
  <2>4. TransitInv'
    BY <1>1, <2>1 DEF SlowInv, TransitInv
  <2>5. ManagerInv'
    BY <1>1, <2>1 DEF SlowInv, ManagerInv, AtWork
  <2>6. NotificationInv'
    <3>1. daInbox \in Seq(Notification) /\ OutcomeIsLast(daInbox')
      BY <2>1, TailOutcome DEF SlowInv, NotificationInv, TypeInv, TypeOK
    <3>2. \A i \in DOMAIN daInbox' : \E j \in DOMAIN daInbox : daInbox'[i] = daInbox[j]
      BY <2>1, <3>1
    <3>3. \A m : MessageIsTrue(m) => MessageIsTrue(m)'
      BY <1>1, <2>1 DEF MessageIsTrue
    <3>4. QED
      BY <3>1, <3>2, <3>3 DEF SlowInv, NotificationInv
  <2>7. QED
    BY <1>1, <2>2, <2>3, <2>4, <2>5, <2>6 DEF SlowInv
<1>5. CASE SaveUpdate
  <2> DEFINE m == Head(daInbox)
  <2>1. /\ daPc = "update" /\ server' = Updated(server, m)
        /\ daInbox # <<>> /\ daInbox' = Tail(daInbox) /\ daInbox \in Seq(Notification)
        /\ daPc' = "idle" /\ UNCHANGED <<mode, mgrInbox>>
        /\ \A c \in Clients : session[c] = NoSession
    BY <1>5 DEF SaveUpdate, SlowInv, SessionInv, TypeInv, TypeOK, CopiesExist
  <2>2. /\ server # NoServer /\ MessageIsTrue(m) /\ requests > 0
        /\ m.kind \in AboutAction \cup {"ingress"}
        /\ m.kind \in {"ingress", "progress"} =>
             /\ server' # NoServer /\ server'.action = server.action
             /\ server'.phase = IF m.kind = "progress" THEN m.phase ELSE server.phase
             /\ server.action # "None" /\ server.status # "Ready" => server'.status # "Ready"
        /\ m.kind \in Outcome /\ server' # NoServer =>
             server'.action = "None" /\ server'.phase = "None"
        /\ server' = NoServer => m.kind = "completed" /\ m.action = "Deprovision"
    <3>1. m.kind = "ingress" =>
             /\ server' # NoServer /\ server'.action = server.action
             /\ server'.phase = server.phase /\ server'.status = server.status
      BY <2>1, StoredIs DEF DatabaseServer
    <3>2. QED
      BY <2>1, <3>1, StoredIs DEF SlowInv, DocumentInv, Outcome
  <2>3. mgrInbox = <<>>
    BY <2>1 DEF SlowInv, TransitInv
  <2>4. \A a, p : a = server'.action /\ p = server'.phase /\ server' # NoServer
                  => Resumable(a, p)'
    <3>1. CASE m.kind \in {"ingress", "progress"}
      BY <1>1, <2>2, <3>1 DEF SlowInv, DocumentInv, MessageIsTrue, AboutAction
    <3>2. CASE m.kind \in Outcome
      BY <2>2, <3>2, CreatedBeforeIs DEF Resumable, RemovedBefore, CreatedBefore
    <3>3. QED
      BY <2>2, <3>1, <3>2 DEF AboutAction, Outcome
  <2>5. server' = NoServer => mode = "Stopped" /\ (leaked \/ (kube = {} /\ port = NoPort))
    BY <2>2 DEF MessageIsTrue
  <2>6. DocumentInv'
    <3>1. server' # NoServer =>
             IF server'.action = "None" THEN server'.phase = "None" ELSE server'.status # "Ready"
      <4>1. CASE m.kind \in {"ingress", "progress"}
        BY <2>2, <4>1 DEF SlowInv, DocumentInv, MessageIsTrue, AboutAction
      <4>2. CASE m.kind \in Outcome
        BY <2>2, <4>2
      <4>3. QED
        BY <2>2, <4>1, <4>2 DEF AboutAction, Outcome
    <3>2. server' # NoServer => Resumable(server.action, server.phase)'
      BY <2>4
    <3>3. QED
      BY <1>1, <2>1, <2>2, <2>5, <3>1, <3>2 DEF DocumentInv
  <2>7. SessionInv' /\ TransitInv' /\ NothingLeftBehind'
    BY <1>1, <2>1, <2>3, <2>5 DEF SessionInv, TransitInv, NothingLeftBehind
  <2>8. ManagerInv'
    <3>1. CASE m.kind \in {"ingress", "progress"}
      BY <1>1, <2>1, <2>2, <3>1 DEF SlowInv, ManagerInv, AtWork
    <3>2. CASE m.kind \in Outcome
      <4>1. pc = "idle" /\ mode # "Waiting"
        BY <2>2, <3>2 DEF MessageIsTrue
      <4>2. QED
        BY <1>1, <2>1, <4>1 DEF ManagerInv, AtWork
    <3>3. QED
      BY <2>2, <3>1, <3>2 DEF AboutAction, Outcome
  <2>9. NotificationInv'
    <3>1. /\ OutcomeIsLast(daInbox')
          /\ m.kind \in Outcome => \A i \in DOMAIN daInbox' : daInbox'[i].kind \notin AboutAction
      BY <2>1, TailOutcome DEF SlowInv, NotificationInv
    <3>2. \A i \in DOMAIN daInbox' : \E j \in DOMAIN daInbox : daInbox'[i] = daInbox[j]
      BY <2>1
    <3>3. CASE m.kind \in {"ingress", "progress"}
      <4>1. \A n : MessageIsTrue(n) => MessageIsTrue(n)'
        BY <1>1, <2>1, <2>2, <3>3 DEF MessageIsTrue
      <4>2. QED
        BY <3>1, <3>2, <4>1 DEF SlowInv, NotificationInv
    <3>4. CASE m.kind \in Outcome
      <4>1. \A n : n.kind \notin AboutAction => MessageIsTrue(n)'
        BY DEF MessageIsTrue, AboutAction, Outcome
      <4>2. QED
        BY <3>1, <3>4, <4>1 DEF NotificationInv
    <3>5. QED
      BY <2>2, <3>3, <3>4 DEF AboutAction, Outcome
  <2>10. QED
    BY <1>1, <2>6, <2>7, <2>8, <2>9 DEF SlowInv
<1>6. QED
  BY <1>2, <1>3, <1>4, <1>5 DEF DataAccess

LEMMA SlowInvKubernetes == TypeInv /\ SlowInv /\ Kubernetes => SlowInv'
BY DEF Kubernetes, DeploymentObserved, ReplicaAvailable, ReplicaLost, Fault, dbVars, daVars,
       mgrVars, SlowInv, DocumentInv, SessionInv, TransitInv, CopyIsCurrent, ManagerInv, AtWork,
       NotificationInv, MessageIsTrue, InstanceHasDependencies, NothingLeftBehind, Resumable,
       RemovedBefore

(* A restart renames some of the messages that wait, and keeps their order. *)
LEMMA OrphansOutcome ==
    ASSUME NEW kept \in Seq(Notification), OutcomeIsLast(kept), NEW renamed,
           renamed = [i \in DOMAIN kept |->
                         IF kept[i].kind = "terminated" THEN Orphaned ELSE kept[i]]
    PROVE  OutcomeIsLast(renamed)
<1>1. \A i \in DOMAIN kept : \/ renamed[i] = kept[i]
                             \/ renamed[i].kind = "orphaned"
  BY OrphanedTyped
<1>2. DOMAIN renamed = DOMAIN kept
  OBVIOUS
<1>3. QED
  BY <1>1, <1>2 DEF OutcomeIsLast, Outcome, AboutAction

LEMMA SlowInvCrash == TypeInv /\ SlowInv /\ Crash => SlowInv'
<1> SUFFICES ASSUME TypeInv, SlowInv, Crash PROVE SlowInv'
  OBVIOUS
<1>1. /\ CallLost /\ ForgetManager /\ daPc' \in {"idle", "stopped"}
      /\ UNCHANGED <<server, session, requests, leaked>>
  BY DEF Crash, EngineCrash, DataAccessRestart, DeathPact, dbVars
<1>2. mode' = "Stopped" /\ pc' = "idle" /\ mgrInbox' = <<>>
  BY <1>1 DEF ForgetManager, StopManager
<1>3. WorldStep /\ (pc = "phase" \/ UNCHANGED <<kube, port, leaked>>)
  BY <1>1 DEF CallLost, WorldStep, kubeVars
<1>4. DocumentInv'
  <2>1. \A a, p : server # NoServer /\ a = server.action /\ p = server.phase => Resumable(a, p)'
    BY <1>3, WorldKeepsResumable DEF SlowInv, DocumentInv
  <2>2. server # NoServer => Resumable(server.action, server.phase)'
    BY <1>1, <2>1
  <2>3. QED
    BY <1>1, <1>2, <2>2 DEF SlowInv, DocumentInv
<1>5. InstanceHasDependencies' /\ NothingLeftBehind'
  BY <1>1, <1>3, WorldKeepsResumable DEF SlowInv, NothingLeftBehind
<1>6. SessionInv' /\ TransitInv' /\ ManagerInv'
  BY <1>1, <1>2 DEF SlowInv, SessionInv, TransitInv, ManagerInv, AtWork
<1>7. NotificationInv'
  <2>1. ASSUME NEW m, MessageIsTrue(m) PROVE MessageIsTrue(m)'
    <3>1. CASE m.kind \notin Outcome
      BY <1>1, <1>3, <2>1, <3>1, MessageStaysTrue
    <3>2. CASE m.kind \in Outcome
      <4>1. UNCHANGED <<kube, port, leaked, server>>
        BY <1>1, <1>3, <2>1, <3>2 DEF MessageIsTrue
      <4>2. QED
        BY <1>2, <2>1, <3>2, <4>1 DEF MessageIsTrue, Outcome, AboutAction
    <3>3. QED
      BY <3>1, <3>2
  <2>2. CASE daInbox' = <<>>
    BY <2>2 DEF NotificationInv, OutcomeIsLast
  <2>3. CASE DataAccessRestart
    <3> DEFINE kept == IF daPc = "update" THEN Tail(daInbox) ELSE daInbox
    <3>1. daInbox \in Seq(Notification) /\ (daPc = "update" => daInbox # <<>>)
      BY DEF TypeInv, TypeOK, CopiesExist
    <3>2. /\ kept \in Seq(Notification) /\ OutcomeIsLast(kept)
          /\ \A i \in DOMAIN kept : \E j \in DOMAIN daInbox : kept[i] = daInbox[j]
      BY <3>1, HeadAndTail, TailOutcome DEF SlowInv, NotificationInv
    <3>3. daInbox' = [i \in DOMAIN kept |->
                         IF kept[i].kind = "terminated" THEN Orphaned ELSE kept[i]]
      BY <2>3 DEF DataAccessRestart
    <3> HIDE DEF kept
    <3>4. OutcomeIsLast(daInbox')
      BY <3>2, <3>3, OrphansOutcome
    <3>5. \A i \in DOMAIN daInbox' : \/ daInbox'[i].kind = "orphaned"
                                    \/ \E j \in DOMAIN daInbox : daInbox'[i] = daInbox[j]
      BY <3>2, <3>3, OrphanedTyped
    <3>6. \A n : n.kind = "orphaned" => MessageIsTrue(n)'
      BY DEF MessageIsTrue, AboutAction, Outcome
    <3>7. \A i \in DOMAIN daInbox' : MessageIsTrue(daInbox[i])'
      BY <2>1, <3>5, <3>6 DEF SlowInv, NotificationInv
    <3>8. QED
      BY <3>4, <3>7 DEF NotificationInv
  <2>4. QED
    BY <2>2, <2>3 DEF Crash, EngineCrash, DeathPact
<1>8. QED
  BY <1>4, <1>5, <1>6, <1>7 DEF SlowInv

LEMMA SlowInvInit == Init => SlowInv
BY DEF Init, SlowInv, DocumentInv, SessionInv, TransitInv, ManagerInv, AtWork, NotificationInv,
       OutcomeIsLast, InstanceHasDependencies, NothingLeftBehind, NoSession

LEMMA SlowInvStep == SlowTimers /\ TypeInv /\ SlowInv /\ [Next]_vars /\ TypeInv' => SlowInv'
<1>1. TypeInv /\ SlowInv /\ UNCHANGED vars => SlowInv'
  BY DEF vars, dbVars, daVars, mgrVars, kubeVars, SlowInv, DocumentInv, SessionInv, TransitInv,
         CopyIsCurrent, ManagerInv, AtWork, NotificationInv, MessageIsTrue,
         InstanceHasDependencies, NothingLeftBehind, Resumable, RemovedBefore
<1>2. QED
  BY <1>1, SlowInvAPI, SlowInvDataAccess, SlowInvManager, SlowInvKubernetes, SlowInvCrash
     DEF Next

(* Whoever works on an action works on the one that is in the document,    *)
(* from a phase that can be resumed from; the outcome it reports is true,  *)
(* and the last word on that action.                                       *)
THEOREM WorkIsTheDocuments == ASSUME SlowTimers PROVE Spec => []SlowInv
<1>1. TypeInv /\ TypeInv' /\ SlowInv /\ [Next]_vars => SlowInv'
  BY SlowInvStep
<1>2. QED
  BY <1>1, SlowInvInit, TypeInvariant, PTL DEF Spec

(* No phase, failure, crash or restart, in a provisioning or in a          *)
(* de-provisioning, leaves an instance running without the volume and the  *)
(* credentials it uses, unless a failed delete was swallowed.              *)
THEOREM InstancesAreWhole == ASSUME SlowTimers PROVE Spec => []InstanceHasDependencies
<1>1. SlowInv => InstanceHasDependencies
  BY DEF SlowInv
<1>2. QED
  BY <1>1, WorkIsTheDocuments, PTL

(* DataAccess deletes the document of a server only when none of its       *)
(* Kubernetes resources is left, unless a failed delete was swallowed.     *)
THEOREM DestroyedMeansGone == ASSUME SlowTimers PROVE Spec => []NothingLeftBehind
<1>1. SlowInv => NothingLeftBehind
  BY DEF SlowInv
<1>2. QED
  BY <1>1, WorkIsTheDocuments, PTL
-----------------------------------------------------------------------------
(***************************************************************************)
(* What the document says of the request, and Kubernetes, step by step.    *)
(***************************************************************************)

(* Kubernetes changes only by the call of the manager's phase. *)
LEMMA ManagerWorld ==
    ASSUME TypeInv, Manager
    PROVE  WorldStep /\ (pc = "phase" \/ UNCHANGED <<kube, port, leaked>>)
<1> USE DEF kubeVars
<1>1. CASE AdvancePhase \/ FinishPhases \/ FinishDeprovisioning
  <2>1. pc = "phase" /\ CallReturns
    BY <1>1 DEF AdvancePhase, FinishPhases, FinishDeprovisioning
  <2>2. QED
    BY <2>1 DEF CallReturns, SwallowsFailure, WorldStep
<1>2. CASE FailPhase
  BY <1>2 DEF FailPhase, WorldStep
<1>3. CASE HandleInitialize \/ StartAction \/ AbandonDeprovisioning \/ StartIngressCheck
           \/ IgnoreServer \/ IngressFound \/ IngressMissing \/ PollDeployment
           \/ UncaughtFailure
  BY <1>3 DEF HandleInitialize, StartAction, AbandonDeprovisioning, StartIngressCheck,
              IgnoreServer, IngressFound, IngressMissing, PollDeployment, UncaughtFailure,
              WorldStep
<1>4. QED
  BY <1>1, <1>2, <1>3 DEF Manager

(* Every step stores a document or changes what exists of the server, and  *)
(* no step does both.                                                      *)
LEMMA StepIs ==
    ASSUME TypeInv, SlowInv, Next
    PROVE  \/ CreateServer \/ (\E c \in Clients : SaveRequest(c)) \/ SaveUpdate
           \/ /\ server' = server
              /\ server = NoServer => requests' = requests
              /\ WorldStep /\ (pc = "phase" \/ UNCHANGED <<kube, port, leaked>>)
<1> USE DEF dbVars, kubeVars
<1>1. CASE \E c \in Clients, op \in {"Reconfigure", "Deprovision"} : LoadForRequest(c, op)
  BY <1>1 DEF LoadForRequest, WorldStep
<1>2. CASE ScanRead \/ ScanCreateManager \/ ScanNotifyManager \/ LoadForUpdate
           \/ ManagerTerminated
  BY <1>2 DEF ScanRead, ScanCreateManager, ScanNotifyManager, LoadForUpdate,
              ManagerTerminated, WorldStep
<1>3. CASE Manager
  <2>1. UNCHANGED <<server, requests>>
    BY <1>3 DEF Manager, HandleInitialize, StartAction, AbandonDeprovisioning,
                StartIngressCheck, IgnoreServer, AdvancePhase, FinishPhases,
                FinishDeprovisioning, FailPhase, IngressFound, IngressMissing,
                PollDeployment, UncaughtFailure
  <2>2. QED
    BY <1>3, <2>1, ManagerWorld
<1>4. CASE Kubernetes
  BY <1>4 DEF Kubernetes, DeploymentObserved, ReplicaAvailable, ReplicaLost, WorldStep
<1>5. CASE Crash
  BY <1>5 DEF Crash, EngineCrash, DataAccessRestart, DeathPact, CallLost, WorldStep
<1>6. QED
  BY <1>1, <1>2, <1>3, <1>4, <1>5 DEF Next, API, DataAccess

LEMMA SettledStep ==
    ASSUME TypeInv, SlowInv, [Next]_vars, server # NoServer, server.action # "None",
           server' = NoServer \/ server'.action # server.action
    PROVE  /\ daPc = "update"
           /\ Head(daInbox).kind \in {"completed", "failed"}
           /\ Head(daInbox).action = server.action
<1>1. server' # server
  OBVIOUS
<1>2. ~CreateServer
  BY DEF CreateServer, SlowInv, DocumentInv
<1>3. \A c \in Clients : ~SaveRequest(c)
  BY DEF SaveRequest, SlowInv, SessionInv
<1>4. SaveUpdate
  BY <1>1, <1>2, <1>3, StepIs DEF vars, dbVars
<1>5. daPc = "update" /\ server' = Updated(server, Head(daInbox))
  BY <1>4 DEF SaveUpdate, SlowInv, SessionInv
<1>6. Head(daInbox).kind \in Outcome
  BY <1>5, StoredIs DEF AboutAction, Outcome, DatabaseServer
<1>7. QED
  BY <1>5, <1>6, StoredIs DEF MessageIsTrue, AboutAction, Outcome

(* A request the API has accepted is cleared from the document only by the *)
(* notification that this very kind of action completed or failed: not by  *)
(* a stale document, by the outcome of an earlier one, or by a restart.    *)
THEOREM RequestsEndInTheirOutcome == ASSUME SlowTimers PROVE Spec => SettledByOwnOutcome
<1>1. TypeInv /\ SlowInv /\ [Next]_vars
      => [ server # NoServer /\ server.action # "None"
           /\ (server' = NoServer \/ server'.action # server.action)
           => /\ daPc = "update"
              /\ Head(daInbox).kind \in {"completed", "failed"}
              /\ Head(daInbox).action = server.action ]_vars
  BY SettledStep
<1>2. QED
  BY <1>1, TypeInvariant, WorkIsTheDocuments, PTL DEF Spec, SettledByOwnOutcome
-----------------------------------------------------------------------------
(***************************************************************************)
(* The implementation of ServerLifecycle: every step of the API, of the    *)
(* engine, of Kubernetes or of a failure is one of its steps, or none.     *)
(***************************************************************************)

(* The abstract state, as the module's INSTANCE maps it. *)
Request == IF server # NoServer THEN server.action
           ELSE IF requests = 0 THEN "unborn" ELSE "gone"
ReadyForUse == server # NoServer /\ server.status = "Ready"
Footprint == kube \cup (IF port = NoPort THEN {} ELSE {"Service"})

LEMMA LifecycleInit == Init => Lifecycle!Init
BY DEF Init, Lifecycle!Init

(* What the phases do is building or dismantling. *)
LEMMA WorldImplements ==
    ASSUME TypeInv, SlowInv, WorldStep, pc = "phase" \/ UNCHANGED <<kube, port, leaked>>,
           server' = server, server = NoServer => requests' = requests
    PROVE  [Lifecycle!Next]_(Lifecycle!vars)
<1>1. UNCHANGED <<Request, ReadyForUse>>
  BY DEF Request, ReadyForUse
<1>2. CASE UNCHANGED <<kube, port, leaked>>
  <2>1. UNCHANGED <<Request, ReadyForUse, Footprint, leaked>>
    BY <1>1, <1>2 DEF Footprint
  <2>2. QED
    BY <2>1 DEF Lifecycle!vars, Request, ReadyForUse, Footprint
<1>3. CASE ~UNCHANGED <<kube, port, leaked>>
  <2> DEFINE a == server.action
  <2>1. /\ server # NoServer
        /\ IF a = "Deprovision"
           THEN kube' \subseteq kube /\ (port = NoPort => port' = NoPort) /\ (leaked => leaked')
           ELSE kube \subseteq kube' /\ (port # NoPort => port' # NoPort) /\ leaked' = leaked
    BY <1>3, WorldKeepsResumable
  <2>2. a \in {"Provision", "Reconfigure", "Deprovision"}
    BY <1>3, <2>1, ServerFields
       DEF SlowInv, ManagerInv, AtWork, TypeInv, TypeOK, Action
  <2>3. Request = a
    BY <2>1 DEF Request
  <2>4. CASE a = "Deprovision"
    <3>1. Footprint' \subseteq Footprint
      BY <2>1, <2>4 DEF Footprint
    <3>2. Lifecycle!Dismantle
      BY <1>1, <2>1, <2>3, <2>4, <3>1 DEF Lifecycle!Dismantle, Request, ReadyForUse, Footprint
    <3>3. QED
      BY <3>2 DEF Lifecycle!Next
  <2>5. CASE a # "Deprovision"
    <3>1. Footprint \subseteq Footprint'
      BY <2>1, <2>5 DEF Footprint
    <3>2. Lifecycle!Build
      BY <1>1, <2>1, <2>2, <2>3, <2>5, <3>1
         DEF Lifecycle!Build, Request, ReadyForUse, Footprint
    <3>3. QED
      BY <3>2 DEF Lifecycle!Next
  <2>6. QED
    BY <2>4, <2>5
<1>4. QED
  BY <1>2, <1>3

(* The requests are asking, ... *)
LEMMA CreateImplements ==
    ASSUME TypeInv, SlowInv, CreateServer PROVE Lifecycle!Create
<1>1. /\ server = NoServer /\ requests = 0 /\ server' = CreatedServer
      /\ UNCHANGED <<kube, port, leaked>> /\ CreatedServer # NoServer
  BY SentinelsAssumption
     DEF CreateServer, SlowInv, DocumentInv, kubeVars, CreatedServer, DatabaseServer,
         Action, Status, Phase
<1>2. Request = "unborn" /\ Request' = "Provision" /\ ~ReadyForUse /\ ~ReadyForUse'
  BY <1>1 DEF Request, ReadyForUse, CreatedServer
<1>3. UNCHANGED <<Footprint, leaked>>
  BY <1>1 DEF Footprint
<1>4. QED
  BY <1>2, <1>3 DEF Lifecycle!Create, Request, ReadyForUse, Footprint

LEMMA AskImplements ==
    ASSUME TypeInv, SlowInv, NEW c \in Clients, SaveRequest(c)
    PROVE  \E action \in {"Reconfigure", "Deprovision"} : Lifecycle!Ask(action)
<1> DEFINE op == session[c].op
<1>1. /\ server # NoServer /\ server.action = "None" /\ session[c].server = server
      /\ UNCHANGED <<kube, port, leaked>>
  BY DEF SaveRequest, SlowInv, SessionInv, kubeVars
<1>2. server \in DatabaseServer /\ op \in {"Reconfigure", "Deprovision"}
  BY <1>1 DEF SaveRequest, TypeInv, TypeOK, CopiesExist
<1>3. /\ server' # NoServer /\ server'.action = op /\ server'.status = "Pending"
  BY <1>1, <1>2, SentinelsAssumption
     DEF SaveRequest, Requested, DatabaseServer, Action, Status
<1>4. Request = "None" /\ Request' = op /\ ~ReadyForUse'
  BY <1>1, <1>3 DEF Request, ReadyForUse
<1>5. UNCHANGED <<Footprint, leaked>>
  BY <1>1 DEF Footprint
<1>6. Lifecycle!Ask(op)
  BY <1>4, <1>5 DEF Lifecycle!Ask, Request, ReadyForUse, Footprint
<1>7. QED
  BY <1>2, <1>6

(* ... and what DataAccess stores is the end of the request, or nothing a  *)
(* tenant sees.                                                            *)
LEMMA UpdateImplements ==
    ASSUME TypeInv, SlowInv, SaveUpdate
    PROVE  Lifecycle!Settle \/ Lifecycle!Disappear \/ UNCHANGED Lifecycle!vars
<1> DEFINE m == Head(daInbox)
<1>1. /\ daPc = "update" /\ server' = Updated(server, m)
      /\ UNCHANGED <<requests, kube, port, leaked>>
  BY DEF SaveUpdate, SlowInv, SessionInv, kubeVars
<1>2. /\ server \in DatabaseServer /\ server # NoServer /\ requests > 0 /\ MessageIsTrue(m)
      /\ m.kind \in AboutAction \cup {"ingress"}
      /\ server.action # "None" => server.status # "Ready"
  BY <1>1, StoredIs DEF SlowInv, DocumentInv
<1>3. UNCHANGED <<Footprint, leaked>> /\ Request = server.action
  BY <1>1, <1>2 DEF Footprint, Request
<1>4. m.kind \in Outcome =>
          /\ m.action = server.action
          /\ server.action \in {"Provision", "Reconfigure", "Deprovision"}
  BY <1>2, ServerFields DEF MessageIsTrue, Outcome, AboutAction, Action
<1>5. CASE m.kind \in {"ingress", "progress"}
  <2>1. /\ server' # NoServer /\ server'.action = server.action
        /\ (server'.status = "Ready") = (server.status = "Ready")
    <3>1. CASE m.kind = "ingress"
      <4>1. server' = [server EXCEPT !.port = m.port] /\ server' # NoServer
        BY <1>1, <3>1, StoredIs
      <4>2. QED
        BY <1>2, <4>1 DEF DatabaseServer
    <3>2. CASE m.kind = "progress"
      BY <1>1, <1>2, <3>2, StoredIs DEF MessageIsTrue, AboutAction
    <3>3. QED
      BY <1>5, <3>1, <3>2
  <2>2. UNCHANGED <<Request, ReadyForUse>>
    BY <1>2, <2>1 DEF Request, ReadyForUse
  <2>3. QED
    BY <1>3, <2>2 DEF Lifecycle!vars, Request, ReadyForUse, Footprint
<1>6. CASE m.kind \in Outcome /\ server' # NoServer
  <2>1. /\ server'.action = "None"
        /\ server'.status = IF m.kind = "failed" THEN "Error" ELSE "Ready"
        /\ m.kind = "completed" => m.action # "Deprovision"
    BY <1>1, <1>6, StoredIs
  <2>2. server'.status = "Ready"
        => server.action # "Deprovision" /\ Expected \subseteq kube /\ port # NoPort
    BY <1>2, <1>4, <1>6, <2>1 DEF MessageIsTrue, Outcome
  <2>3. Request' = "None" /\ ReadyForUse' = (server'.status = "Ready")
    BY <1>6, <2>1 DEF Request, ReadyForUse
  <2>4. ReadyForUse' => Request # "Deprovision" /\ (Expected \cup {"Service"}) \subseteq Footprint
    BY <1>3, <2>2, <2>3 DEF Footprint
  <2>5. Lifecycle!Settle
    BY <1>3, <1>4, <1>6, <2>3, <2>4 DEF Lifecycle!Settle, Request, ReadyForUse, Footprint
  <2>6. QED
    BY <2>5
<1>7. CASE m.kind \in Outcome /\ server' = NoServer
  <2>1. m.kind = "completed" /\ m.action = "Deprovision"
    BY <1>1, <1>7, StoredIs
  <2>2. server.action = "Deprovision" /\ (leaked \/ (kube = {} /\ port = NoPort))
    BY <1>2, <1>4, <1>7, <2>1 DEF MessageIsTrue
  <2>3. Request' = "gone" /\ ~ReadyForUse' /\ (leaked \/ Footprint = {})
    BY <1>1, <1>2, <1>7, <2>2 DEF Request, ReadyForUse, Footprint
  <2>4. Lifecycle!Disappear
    BY <1>3, <2>2, <2>3 DEF Lifecycle!Disappear, Request, ReadyForUse, Footprint
  <2>5. QED
    BY <2>4
<1>8. QED
  BY <1>2, <1>5, <1>6, <1>7 DEF AboutAction, Outcome

LEMMA StepImplements ==
    ASSUME TypeInv, SlowInv, [Next]_vars PROVE [Lifecycle!Next]_(Lifecycle!vars)
<1>1. CASE CreateServer
  BY <1>1, CreateImplements DEF Lifecycle!Next
<1>2. CASE \E c \in Clients : SaveRequest(c)
  BY <1>2, AskImplements DEF Lifecycle!Next
<1>3. CASE SaveUpdate
  BY <1>3, UpdateImplements DEF Lifecycle!Next
<1>4. CASE UNCHANGED vars
  <2>1. UNCHANGED <<server, requests, kube, port, leaked>>
    BY <1>4 DEF vars, dbVars, kubeVars
  <2>2. WorldStep
    BY <2>1 DEF WorldStep
  <2>3. QED
    BY <2>1, <2>2, WorldImplements
<1>5. QED
  BY <1>1, <1>2, <1>3, <1>4, StepIs, WorldImplements

(* To a tenant the API, the engine's two actors, Kubernetes and every      *)
(* failure and crash between them behave as ServerLifecycle says: requests *)
(* end one at a time in their outcome, what exists of the server changes   *)
(* only as the request in progress allows, ready is said of a whole server *)
(* and gone of one of which nothing, or a swallowed failure, is left.      *)
THEOREM LifecycleIsImplemented == ASSUME SlowTimers PROVE Spec => ImplementsLifecycle
<1>1. TypeInv /\ SlowInv /\ [Next]_vars => [Lifecycle!Next]_(Lifecycle!vars)
  BY StepImplements
<1>2. QED
  BY <1>1, LifecycleInit, TypeInvariant, WorkIsTheDocuments, PTL
     DEF Spec, ImplementsLifecycle, Lifecycle!Spec
=============================================================================
