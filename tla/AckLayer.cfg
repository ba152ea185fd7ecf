SPECIFICATION LiveSpec
CONSTANTS
    Width = 3
    ReorderLimit = 2
    LastTsn <- Last
    LastA = 3
    LastB = 2
INVARIANTS
    TypeOK
    MaskExact
PROPERTIES
    ImplementsChannel
    EveryPacketAnswered
CHECK_DEADLOCK FALSE
