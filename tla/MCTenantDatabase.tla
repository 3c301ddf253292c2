-------------------------- MODULE MCTenantDatabase --------------------------
(***************************************************************************)
(* TenantDatabase for TLC, and what the repository's comments and messages *)
(* say of a database that the code does not keep.  Each of these is        *)
(* violated in the configuration that names it.                            *)
(***************************************************************************)
EXTENDS TenantDatabase

(* ProvisioningStatus.Ready, "Resource is ready for use": a database whose *)
(* document says so exists.                                                *)
ReadyMeansExists ==
    \A d \in Hosted : database[d].status = "Ready" => database[d].name \in databases

(* "queued for deletion" (DeleteDatabase): an accepted request is settled  *)
(* by the notification that the database has been de-provisioned.          *)
DeleteIsSettledByItsOutcome ==
    [][ \A d \in Databases :
          database[d] # NoDatabase /\ database[d].action = "Deprovision"
          /\ (database'[d] = NoDatabase \/ database'[d].action # "Deprovision")
          => daPc = "update" /\ Head(daInbox) = About("deprovisioned", d) ]_vars

Available == server # NoServer /\ server.status = "Ready" /\ daPc # "stopped"

(* "queued for reconfiguration" (ReconfigureDatabase): the request ends.   *)
ReconfigureSettles ==
    \A d \in Databases :
       (database[d] # NoDatabase /\ database[d].action = "Reconfigure") ~>
       (database[d] = NoDatabase \/ database[d].action # "Reconfigure" \/ ~Available)

(* "because a database-level action is already in progress": that is what  *)
(* DeleteDatabase answers when a database of an idle server is not Ready.  *)
RefusedMeansInProgress ==
    \A d \in Hosted : database[d].status # "Ready" => database[d].action # "None"

(* ProvisioningStatus.Deprovisioned, "Resource has been de-provisioned":   *)
(* once no documents are left, neither is what was made for them.          *)
DeprovisionedMeansGone ==
    Hosted = {} /\ SessionsClosed => databases = {} /\ logins = {}

(* "Database ... already exists on server" (CreateDatabase): there are no  *)
(* two databases of the same name in a server.  One request after another  *)
(* is enough to violate it: the index need not have the first one yet.     *)
NoDuplicates == NamesUnique

(* "Cannot de-provision database server because it still hosts one or more *)
(* databases" (DestroyServer): none is left behind.  Violated by one       *)
(* request after another, too.                                             *)
NoOrphans == server = NoServer => Hosted = {}

(* "queued for creation on server" (CreateDatabase): the request ends.     *)
CreationSettles ==
    \A d \in Databases :
       (database[d] # NoDatabase /\ database[d].action = "Provision") ~>
       (database[d] = NoDatabase \/ database[d].action # "Provision" \/ ~Available)

(* "Resource is ready for use" again: a database that was created and that *)
(* nobody asked to delete stays, at least while it has its name for itself. *)
(* Not so when timers race.                                                *)
ReadyStaysUsable == ProvisionedStays

(* And once more: the user of a database that is reported as created can   *)
(* log in.                                                                 *)
ReadyHasLogin ==
    \A d \in Hosted :
       d \in provisioned /\ database[d].status = "Ready" /\ ~destroyAccepted
       => database[d].user \in logins
=============================================================================
