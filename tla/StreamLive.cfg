SPECIFICATION LiveSpec
CONSTANTS
    MaxOffset = 2
    PacketMax = 2
    MinimumWindow = 4
    BarrierIncrement = 1
    SillyWindow = 1
    MaxWindow = 8
    MaxWrite = 2
    MaxFaults = 1
    WSlots = {w1, w2}
    RSlots = {r1}
CHECK_DEADLOCK FALSE
PROPERTIES
    ShutdownCompletes
    ResetsResolve
