SPECIFICATION LiveSpec
CONSTANTS
    MaxOffset = 3
    PacketMax = 1
    MinimumWindow = 2
    BarrierIncrement = 1
    SillyWindow = 1
    MaxWindow = 8
    MaxWrite = 2
    MaxFaults = 1
    WSlots = {w1}
    RSlots = {r1}
CHECK_DEADLOCK FALSE
PROPERTY WriteCompletes
