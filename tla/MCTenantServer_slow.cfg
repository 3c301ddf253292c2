SPECIFICATION FairSpec
CONSTANTS
    Ports = {p1, p2}
    NoPort = NoPort
    NoServer = NoServer
    Clients = {c1}
    Kind = "SqlServer"
    RequestsOverlap = FALSE
    TimersRace = FALSE
    MaxRequests = 3
    MaxFaults = 2
    MailboxLimit = 1
    NotificationLimit = 2
INVARIANTS
    TypeOK
    InstanceHasDependencies
    NothingLeftBehind
PROPERTIES
    SettledByOwnOutcome
    ImplementsLifecycle
    RequestsSettle
    AddressConverges
\* Once the document is gone an idle system has nothing left to do.
CHECK_DEADLOCK FALSE
