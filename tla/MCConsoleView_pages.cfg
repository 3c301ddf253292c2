\* Every page of the console under fair scheduling, with crossing operations, a
\* failure and a lagging index.
SPECIFICATION Spec
CONSTANTS
  Kinds <- EveryPage
  MaxVersion = 2
  MaxLoads = 2
  MaxOperations = 2
  MaxKicks <- TwoKicksOrOne
  MaxFailures = 1
  IndexLags = TRUE
INVARIANTS
  BusyIsFollowed
  ChainsAreTheUsers
PROPERTIES
  BusyDisplayEnds
  LeftPageFallsSilent
  OwnChangeIsShown

CHECK_DEADLOCK FALSE
