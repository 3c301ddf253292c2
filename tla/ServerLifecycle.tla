--------------------------- MODULE ServerLifecycle ---------------------------
(***************************************************************************)
(* What a tenant may count on for one server, whatever the engine does     *)
(* inside: requests are carried out one at a time and end in an outcome;   *)
(* what exists of the server grows only while it is being provisioned or   *)
(* reconfigured, shrinks only while it is being destroyed, and is left     *)
(* alone otherwise; "ready" is reported of a whole server only; the server *)
(* is gone only when nothing of it is left, or the engine knows it left    *)
(* something behind.                                                       *)
(***************************************************************************)
CONSTANTS
  Needed      \* what a server that is ready consists of

VARIABLES
  request,    \* what was asked and has not ended: "None" if nothing
  ready,      \* is the server reported as ready for use?
  footprint,  \* what exists of the server
  leaked      \* has a removal failed without being reported?

vars == <<request, ready, footprint, leaked>>

Init ==
  /\ request = "unborn"
  /\ ready = FALSE
  /\ footprint = {}
  /\ leaked = FALSE

\* The tenant asks: for a new server, or for an action on an idle one.
Create ==
  /\ request = "unborn"
  /\ request' = "Provision"
  /\ UNCHANGED <<ready, footprint, leaked>>

Ask(action) ==
  /\ request = "None"
  /\ request' = action
  /\ ready' = FALSE
  /\ UNCHANGED <<footprint, leaked>>

Build ==
  /\ request \in {"Provision", "Reconfigure"}
  /\ footprint \subseteq footprint'
  /\ UNCHANGED <<request, ready, leaked>>

Dismantle ==
  /\ request = "Deprovision"
  /\ footprint' \subseteq footprint
  /\ leaked => leaked'
  /\ UNCHANGED <<request, ready>>

\* The request ends: the server is ready, or in error.
Settle ==
  /\ request \in {"Provision", "Reconfigure", "Deprovision"}
  /\ request' = "None"
  /\ ready' => request # "Deprovision" /\ Needed \subseteq footprint
  /\ UNCHANGED <<footprint, leaked>>

Disappear ==
  /\ request = "Deprovision"
  /\ footprint = {} \/ leaked
  /\ request' = "gone"
  /\ ready' = FALSE
  /\ UNCHANGED <<footprint, leaked>>

Next ==
  \/ Create
  \/ \E action \in {"Reconfigure", "Deprovision"} : Ask(action)
  \/ Build
  \/ Dismantle
  \/ Settle
  \/ Disappear

Spec == Init /\ [][Next]_vars
=============================================================================
