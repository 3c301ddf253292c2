SPECIFICATION FairSpec
CONSTANTS
    Ports = {p1, p2}
    NoPort = NoPort
    NoServer = NoServer
    Clients = {c1}
    Kind = "SqlServer"
    RequestsOverlap = FALSE
    TimersRace = FALSE
    MaxRequests = 2
    MaxFaults = 1
    MailboxLimit = 1
    NotificationLimit = 2
PROPERTIES
    DestroySettles
\* Once the document is gone an idle system has nothing left to do.
CHECK_DEADLOCK FALSE
