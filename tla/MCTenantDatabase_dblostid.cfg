SPECIFICATION FairSpec
CONSTANTS
    Databases = {d1, d2}
    Names = {n1, n2}
    Users = {u1, u2}
    Clients = {c1}
    NoServer = NoServer
    NoDatabase = NoDatabase
    RequestsOverlap = TRUE
    TimersRace = FALSE
    MaxRequests = 3
    MaxFaults = 0
    MailboxLimit = 1
    ServerActions = {}
PROPERTIES
    CreationSettles
\* Once every request has settled and the server is gone nothing is left to do.
CHECK_DEADLOCK FALSE
