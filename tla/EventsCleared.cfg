SPECIFICATION CallbackSpec
CONSTANTS
    Width = 3
    ReorderLimit = 2
    LastTsn <- Last
    LastA = 2
    LastB = 1
INVARIANT
    EventsCleared
CHECK_DEADLOCK FALSE
