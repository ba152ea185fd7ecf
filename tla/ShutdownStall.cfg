SPECIFICATION CalmSpec
CONSTANTS
    MaxOffset = 3
    PacketMax = 1
    MinimumWindow = 2
    BarrierIncrement = 1
    SillyWindow = 1
    MaxWindow = 2
    MaxWrite = 3
    MaxFaults = 2
    WSlots = {w1, w2}
    RSlots = {r1}
CHECK_DEADLOCK FALSE
PROPERTY ShutdownCompletes
