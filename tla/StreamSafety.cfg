SPECIFICATION Spec
CONSTANTS
    MaxOffset = 3
    PacketMax = 2
    MinimumWindow = 2
    BarrierIncrement = 1
    SillyWindow = 1
    MaxWindow = 4
    MaxWrite = 2
    MaxFaults = 1
    WSlots = {w1, w2}
    RSlots = {r1}
SYMMETRY Symmetry
CHECK_DEADLOCK FALSE
INVARIANTS
    TypeOK
    NoByteLost
    DeliveryTruth
    EofTruth
    ConnectedWithinBarrier
    NobodySleeps
    RetransmitBytes
    ReassemblyInv
PROPERTY
    ImplementsService
