----------------------------- MODULE DaaSModels -----------------------------
(***************************************************************************)
(* The data shared by the API, the provisioning engine and the management  *)
(* database (DaaSDemo.Models/Data and DaaSDemo.Provisioning/Messages):     *)
(* what a DatabaseServer document says about provisioning, and the         *)
(* notifications a TenantServerManager sends to DataAccess.                *)
(*                                                                         *)
(* Names, credentials, settings and event logs are left out: nothing in    *)
(* the provisioning protocol branches on them.                             *)
(***************************************************************************)
EXTENDS Naturals, Sequences

CONSTANTS
    Ports,      \* node ports Kubernetes may allocate to an external service
    NoPort,     \* DatabaseServer.PublicPort (and PublicFQDN) is null
    NoServer    \* there is no such document

Action == {"None", "Provision", "Deprovision", "Reconfigure"}

Status == {"Pending", "Ready", "Provisioning", "Deprovisioning",
           "Reconfiguring", "Error", "Deprovisioned"}

(* ServerProvisioningPhase.Done is the target of a "goto case" only: it is *)
(* never stored in a document and never sent.                              *)
Phase == {"None", "Storage", "Security", "Instance", "Network",
          "Monitoring", "Configuration", "Ingress"}

DatabaseServer == [action : Action, status : Status, phase : Phase,
                   port : Ports \cup {NoPort}]

ASSUME SentinelsAssumption == /\ NoPort \notin Ports
                              /\ NoServer \notin DatabaseServer

-----------------------------------------------------------------------------
(***************************************************************************)
(* Notifications.  One record stands for one message class: "progress" for *)
(* ServerProvisioning, ServerReconfiguring and ServerDeprovisioning,       *)
(* "completed" for ServerProvisioned, ..., "failed" for                    *)
(* ServerProvisioningFailed, ..., "ingress" for ServerIngressChanged.      *)
(* Akka's Terminated message is "terminated" when its ActorRef is an entry *)
(* of _serverManagers and "orphaned" when it is not.                       *)
(***************************************************************************)
Notification ==
    [kind : {"progress", "completed", "failed", "ingress", "terminated", "orphaned"},
     action : Action, phase : Phase, port : Ports \cup {NoPort}]

Progress(a, p) ==
    [kind |-> "progress", action |-> a, phase |-> p, port |-> NoPort]

Completed(a) ==
    [kind |-> "completed", action |-> a, phase |-> "None", port |-> NoPort]

Failed(a) ==
    [kind |-> "failed", action |-> a, phase |-> "None", port |-> NoPort]

IngressChanged(port) ==
    [kind |-> "ingress", action |-> "None", phase |-> "None", port |-> port]

Terminated ==
    [kind |-> "terminated", action |-> "None", phase |-> "None", port |-> NoPort]

Orphaned == [Terminated EXCEPT !.kind = "orphaned"]

(* The ProvisioningStatus each message class passes to its base class. *)
StatusOf(m) ==
    CASE m.kind = "failed"                                      -> "Error"
      [] m.kind = "progress"  /\ m.action = "Provision"         -> "Provisioning"
      [] m.kind = "progress"  /\ m.action = "Reconfigure"       -> "Reconfiguring"
      [] m.kind = "progress"  /\ m.action = "Deprovision"       -> "Deprovisioning"
      [] m.kind = "completed" /\ m.action = "Deprovision"       -> "Deprovisioned"
      [] OTHER                                                  -> "Ready"

-----------------------------------------------------------------------------
(***************************************************************************)
(* What the API controllers and DataAccess do to a document.               *)
(***************************************************************************)

(* CreateSqlServer / CreateRavenServer. *)
CreatedServer == [action |-> "Provision", status |-> "Pending",
                  phase |-> "None", port |-> NoPort]

(* ReconfigureServer and DestroyServer: the phase is left as it was. *)
Requested(server, a) == [server EXCEPT !.action = a, !.status = "Pending"]

(* UpdateServerProvisioningStatus and UpdateServerIngress; NoServer when   *)
(* the document is deleted.                                                *)
Updated(server, m) ==
    IF m.kind = "ingress" THEN [server EXCEPT !.port = m.port]
    ELSE IF StatusOf(m) = "Deprovisioned" THEN NoServer
    ELSE IF StatusOf(m) \in {"Ready", "Error"}
    THEN [server EXCEPT !.status = StatusOf(m), !.action = "None", !.phase = "None"]
    ELSE [server EXCEPT !.status = StatusOf(m), !.phase = m.phase]
=============================================================================
