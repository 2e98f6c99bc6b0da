SPECIFICATION FairSpec
CONSTANTS
    c1 = c1
    c2 = c2
    Clients <- MCClients
    MaxConnections = 1
    Background = {"ttl", "replica"}
    MaxRequests = 2
INVARIANTS
    TypeOK
    PermitsExact
    ShutdownFinishesReplies
PROPERTIES
    QueueDrains
    ConnectionsStop
    ProgramStops
CHECK_DEADLOCK FALSE
