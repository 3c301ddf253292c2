--------------------------- MODULE MCConsoleView ---------------------------
(* Small instances of ConsoleView for TLC.                                 *)
EXTENDS ConsoleView

EveryPage == AllKinds
DatabasePages == {"databaseDetail"}

\* The pages of a tenant have the most states.
TwoKicksOrOne ==
  [k \in Kinds |-> IF k \in {"tenantDetail", "tenantDatabases"} THEN 1 ELSE 2]
NoKicks == [k \in Kinds |-> 0]
=============================================================================
