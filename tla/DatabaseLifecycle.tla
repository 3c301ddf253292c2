-------------------------- MODULE DatabaseLifecycle --------------------------
(***************************************************************************)
(* What the tenants of one server may count on for its databases, whatever *)
(* the engine does inside: a database is made only for one that is listed, *)
(* and dropped only when the deletion of one that is listed under its name *)
(* was accepted, or its server is being destroyed; it is said to be        *)
(* created only when it is there; its entry goes when it has been dropped, *)
(* and never comes back; and the server goes only with all it holds.       *)
(*                                                                         *)
(* What they may not count on: that names are unique, and that a server    *)
(* that is destroyed lists no databases.  The API checks both, but by      *)
(* queries whose answer may be out of date.  Two entries of one name share *)
(* one database, and the entries of a server that has gone stay.           *)
(***************************************************************************)
CONSTANTS
  Databases,   \* identities, of which none is used twice
  Names        \* what a database is called in its server

VARIABLES
  host,        \* the server: "open", "closing" while it is destroyed, "gone"
  listed,      \* <<d, n>>: the server lists database d, called n
  used,        \* the databases that are listed or have been
  doomed,      \* those of which the deletion has been accepted
  confirmed,   \* those that have been reported as created
  present      \* names: what is in the instance

vars == <<host, listed, used, doomed, confirmed, present>>

Init ==
  /\ host = "open"
  /\ listed = {} /\ used = {} /\ doomed = {} /\ confirmed = {} /\ present = {}

\* The tenant asks for a database.
Create(d, n) ==
  /\ host = "open"
  /\ d \notin used
  /\ listed' = listed \cup {<<d, n>>}
  /\ used' = used \cup {d}
  /\ UNCHANGED <<host, doomed, confirmed, present>>

\* The tenant asks for a database to be deleted.
Delete(d, n) ==
  /\ host = "open"
  /\ <<d, n>> \in listed
  /\ doomed' = doomed \cup {d}
  /\ UNCHANGED <<host, listed, used, confirmed, present>>

\* The engine makes and drops databases, and reports what it has made.
Work ==
  /\ host # "gone"
  /\ present' \ present \subseteq {entry[2] : entry \in listed}
  /\ host = "open" =>
       present \ present' \subseteq {entry[2] : entry \in {e \in listed : e[1] \in doomed}}
  /\ confirmed \subseteq confirmed'
  /\ \A d \in confirmed' \ confirmed : \E n \in present' : <<d, n>> \in listed
  /\ UNCHANGED <<host, listed, used, doomed>>

\* A database that was dropped goes from the list; so does one that another
\* entry stands for as well.
Withdraw(d, n) ==
  /\ host # "gone"
  /\ <<d, n>> \in listed /\ d \in doomed
  /\ n \in present => \E e \in Databases \ {d} : <<e, n>> \in listed
  /\ listed' = listed \ {<<d, n>>}
  /\ UNCHANGED <<host, used, doomed, confirmed, present>>

\* The tenant asks for the server to be destroyed; that fails, or it is gone.
Close ==
  /\ host = "open"
  /\ host' = "closing"
  /\ UNCHANGED <<listed, used, doomed, confirmed, present>>

Reopen ==
  /\ host = "closing"
  /\ host' = "open"
  /\ UNCHANGED <<listed, used, doomed, confirmed, present>>

Vanish ==
  /\ host = "closing" /\ present = {}
  /\ host' = "gone"
  /\ UNCHANGED <<listed, used, doomed, confirmed, present>>

Next ==
  \/ \E d \in Databases, n \in Names : Create(d, n) \/ Delete(d, n) \/ Withdraw(d, n)
  \/ Work
  \/ Close \/ Reopen \/ Vanish

Spec == Init /\ [][Next]_vars
=============================================================================
