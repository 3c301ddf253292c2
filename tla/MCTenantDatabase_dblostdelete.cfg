SPECIFICATION Spec
CONSTANTS
    Databases = {d1}
    Names = {n1}
    Users = {u1}
    Clients = {c1}
    NoServer = NoServer
    NoDatabase = NoDatabase
    RequestsOverlap = FALSE
    TimersRace = FALSE
    MaxRequests = 2
    MaxFaults = 0
    MailboxLimit = 1
    ServerActions = {}
PROPERTIES
    DeleteIsSettledByItsOutcome
\* Once every request has settled and the server is gone nothing is left to do.
CHECK_DEADLOCK FALSE
