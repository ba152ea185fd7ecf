SPECIFICATION Spec
CONSTANTS
    LongStreams = {s1}
    ShortStreams = {s2, s3}
    LastA = 3
    LastB = 2
    Streams <- Every
    Owner <- Writer
    Parts <- Lengths
    LastTsn <- LastOf
    Period = 2
    SeqNums = 4
    MaxIds = 2
    MaxChannels = 0
    MaxResets = 0
    Width = 2
    ReorderLimit = 1
SYMMETRY Alike
INVARIANT ToldIsDelivered
CHECK_DEADLOCK FALSE
