----------------------------- MODULE DaaSClient -----------------------------
(***************************************************************************)
(* The client of the web API that every page of the console shares         *)
(* (api/daas-api.ts) and the answers of the API's controllers it can meet. *)
(*                                                                         *)
(* A record of the API (a server or a database) is abstracted to the part  *)
(* its pages tell apart: "Ready" and "Error" have no action in progress,   *)
(* "Busy" has one, "Gone" is a record that no longer exists.  An answer is *)
(* the status of the HTTP response and, for a 404, the entityType of its   *)
(* body; "broken" is a request that fails or a body that is not JSON.  A   *)
(* method of the client turns the answer into what its promise does:       *)
(* "value" and "null" are resolutions, "throws" is a rejection.            *)
(***************************************************************************)

RecordStates == {"Ready", "Error", "Busy", "Gone"}

-----------------------------------------------------------------------------
(* The controllers: what they answer about a record.  Tenants are never    *)
(* deleted, so the references of a record to its owners always resolve.    *)

AnswerGetServer(state) == IF state = "Gone" THEN "noServer" ELSE "ok"

AnswerGetServerEvents(state) == IF state = "Gone" THEN "noServer" ELSE "ok"

AnswerGetDatabase(state) == IF state = "Gone" THEN "noDatabase" ELSE "ok"

\* A query returns the records that match, possibly none.
AnswerQuery(state) == "ok"

AnswerReconfigureServer(state) ==
  CASE state = "Gone" -> "noServer"
    [] state = "Busy" -> "conflict"
    [] OTHER          -> "ok"

AnswerDestroyServer(state, hostsDatabases) ==
  IF state = "Gone" THEN "noServer"
  ELSE IF hostsDatabases THEN "badRequest"
  ELSE IF state = "Busy" THEN "conflict"
  ELSE "ok"

AnswerDeleteDatabase(state) ==
  CASE state = "Gone"            -> "noDatabase"
    [] state \in {"Busy", "Error"} -> "conflict"
    [] OTHER                     -> "ok"

-----------------------------------------------------------------------------
(* The methods of the client.                                              *)

\* The list methods do not look at the status: any JSON body is the list.
GetTenants(answer)   == IF answer = "broken" THEN "throws" ELSE "value"
GetServers(answer)   == IF answer = "broken" THEN "throws" ELSE "value"
GetDatabases(answer) == IF answer = "broken" THEN "throws" ELSE "value"

\* One record, or null if the body of a 404 is about a DatabaseServer.
RecordOrNull(answer) ==
  CASE answer = "ok"       -> "value"
    [] answer = "noServer" -> "null"
    [] OTHER               -> "throws"

ValueOnly(answer) == IF answer = "ok" THEN "value" ELSE "throws"

GetServer(answer)          == RecordOrNull(answer)
GetDatabase(answer)        == RecordOrNull(answer)
GetTenant(answer)          == RecordOrNull(answer)
GetTenantDatabases(answer) == RecordOrNull(answer)
GetTenantServers(answer)   == ValueOnly(answer)
GetServerEvents(answer)    == ValueOnly(answer)
GetServerDatabases(answer) == ValueOnly(answer)

CreateTenant(answer)       == ValueOnly(answer)
DeploySqlServer(answer)    == ValueOnly(answer)
DeployRavenServer(answer)  == ValueOnly(answer)
CreateDatabase(answer)     == ValueOnly(answer)
DestroyServer(answer)      == ValueOnly(answer)
ReconfigureServer(answer)  == ValueOnly(answer)

\* A 400 counts as a deletion.
DeleteDatabase(answer) ==
  IF answer \in {"ok", "badRequest"} THEN "value" ELSE "throws"

-----------------------------------------------------------------------------
(* The promise "configured", made once by the constructor: every method    *)
(* awaits it before it sends anything.                                     *)

Configurations == {"pending", "ok", "failed"}

Configure(c) == IF c = "pending" THEN {"ok", "failed"} ELSE {}
=============================================================================
