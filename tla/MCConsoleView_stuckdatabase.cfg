\* A database is deleted while its page shows the deletion in progress.
SPECIFICATION Spec
CONSTANTS
  Kinds <- DatabasePages
  MaxVersion = 3
  MaxLoads = 2
  MaxOperations = 1
  MaxKicks <- NoKicks
  MaxFailures = 0
  IndexLags = FALSE
PROPERTIES
  DeletedDatabaseIsNoticed

CHECK_DEADLOCK FALSE
