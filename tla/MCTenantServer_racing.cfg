SPECIFICATION Spec
CONSTANTS
    Ports = {p1, p2}
    NoPort = NoPort
    NoServer = NoServer
    Clients = {c1}
    Kind = "RavenDB"
    RequestsOverlap = TRUE
    TimersRace = TRUE
    MaxRequests = 2
    MaxFaults = 1
    MailboxLimit = 1
    NotificationLimit = 2
INVARIANTS
    RegistryCoherent
    RecordedPhaseIsReached
    ReadyMeansProvisioned
PROPERTIES
    DestructionIsRequested
\* Once the document is gone an idle system has nothing left to do.
CHECK_DEADLOCK FALSE
