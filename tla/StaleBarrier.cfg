SPECIFICATION CalmSpec
CONSTANTS
    MaxOffset = 8
    PacketMax = 2
    MinimumWindow = 4
    BarrierIncrement = 1
    SillyWindow = 1
    MaxWindow = 4
    MaxWrite = 8
    MaxFaults = 0
    WSlots = {w1}
    RSlots = {r1, r2}
CHECK_DEADLOCK FALSE
PROPERTY WriteCompletes
