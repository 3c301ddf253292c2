--------------------------- MODULE MCTenantServer ---------------------------
(***************************************************************************)
(* TenantServer for TLC, and what the repository's comments and messages   *)
(* say of a server that the code does not keep.  Each of these is violated *)
(* in one of the configurations that name it.                              *)
(***************************************************************************)
EXTENDS TenantServer

(* The actors and timers run, but Deployments need not come up.            *)
ResponsiveSpec == Spec /\ Responsive

(* "The length of time before a polling operation times out."              *)
(* (TenantServerManager.PollTimeout): waiting for a Deployment ends.       *)
PollingTimesOut == mode = "Waiting" ~> mode # "Waiting"

(* "... waiting for the server's Deployment to indicate that all replicas  *)
(* are Available" (WaitForServerAvailable): the Configuration phase is     *)
(* announced only then.                                                    *)
ConfiguredOnceAvailable ==
    [][ mode = "Waiting" /\ state'.phase = "Configuration"
        => deployment = "available" ]_vars

(* "queued for deletion" (DestroyServer): an accepted request ends in the  *)
(* de-provisioning of the server, or in its failure.                       *)
DestroyIsSettledByItsOutcome ==
    [][ server # NoServer /\ server.action = "Deprovision"
        /\ (server' = NoServer \/ server'.action # "Deprovision")
        => /\ daPc = "update"
           /\ Head(daInbox).kind \in {"completed", "failed"}
           /\ Head(daInbox).action = "Deprovision" ]_vars

(* "queued for deletion" again: the request does end.                      *)
DestroySettles ==
    (server # NoServer /\ server.action = "Deprovision") ~>
    (server = NoServer \/ server.action # "Deprovision")

(* ProvisioningStatus.Deprovisioned, "Resource has been de-provisioned":   *)
(* when the document is deleted nothing is left.                           *)
DeprovisionedMeansGone ==
    server = NoServer /\ requests > 0 => kube = {} /\ port = NoPort

(* ProvisioningStatus.Ready, "Resource is ready for use": the server has   *)
(* been configured.                                                        *)
ReadyMeansConfigured ==
    server # NoServer /\ ~destroyAccepted =>
        (server.status = "Ready" => configured)
=============================================================================
