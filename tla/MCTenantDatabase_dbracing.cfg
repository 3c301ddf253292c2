SPECIFICATION Spec
CONSTANTS
    Databases = {d1, d2}
    Names = {n1}
    Users = {u1}
    Clients = {c1, c2}
    NoServer = NoServer
    NoDatabase = NoDatabase
    RequestsOverlap = TRUE
    TimersRace = TRUE
    MaxRequests = 3
    MaxFaults = 1
    MailboxLimit = 1
    ServerActions = {"Reconfigure", "Deprovision"}
INVARIANTS
    RegistriesCoherent
PROPERTIES
    DeletedMeansDropped
    DropIsRequested
\* Once every request has settled and the server is gone nothing is left to do.
CHECK_DEADLOCK FALSE
