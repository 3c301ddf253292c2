SPECIFICATION Spec
CONSTANTS
    Databases = {d1, d2}
    Names = {n1}
    Users = {u1, u2}
    Clients = {c1}
    NoServer = NoServer
    NoDatabase = NoDatabase
    RequestsOverlap = FALSE
    TimersRace = TRUE
    MaxRequests = 3
    MaxFaults = 0
    MailboxLimit = 1
    ServerActions = {}
INVARIANTS
    ReadyStaysUsable
\* Once every request has settled and the server is gone nothing is left to do.
CHECK_DEADLOCK FALSE
