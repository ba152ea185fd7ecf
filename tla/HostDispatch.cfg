SPECIFICATION EitherSpec
CONSTANTS
    Long = {l}
    Trio = {t1, t2, t3}
    Streams <- AllStreams
    Owner <- FromA
    Parts <- Lengths
    Period = 2
    SeqNums = 4
    MaxIds = 2
    MaxChannels = 1
    MaxResets = 1
    Width = 2
    ReorderLimit = 1
    LastTsn <- Limits
SYMMETRY Alike
INVARIANTS
    IdsPartition
    StreamsArrive
CHECK_DEADLOCK FALSE
