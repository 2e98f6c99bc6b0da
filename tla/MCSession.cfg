SPECIFICATION Spec
CONSTANTS
    None = None
    MaxCapacity = 20
    Sessions <- MCSessions
INVARIANTS
    TypeOK
    FramingIndependentOfReads
    RepliesFramed
    StreamReplays
    RoutedBySlot
    KeySlotMatchesRedis
    PayloadGuard
CHECK_DEADLOCK FALSE
