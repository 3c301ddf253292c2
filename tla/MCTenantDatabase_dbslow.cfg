SPECIFICATION FairSpec
CONSTANTS
    Databases = {d1, d2}
    Names = {n1}
    Users = {u1}
    Clients = {c1}
    NoServer = NoServer
    NoDatabase = NoDatabase
    RequestsOverlap = FALSE
    TimersRace = FALSE
    MaxRequests = 3
    MaxFaults = 1
    MailboxLimit = 1
    ServerActions = {"Reconfigure", "Deprovision"}
INVARIANTS
    IdsAgree
    ProvisionedStays
PROPERTIES
    ImplementsLifecycle
    RequestsSettle
\* Once every request has settled and the server is gone nothing is left to do.
CHECK_DEADLOCK FALSE
