SPECIFICATION UnionSpec
CONSTANTS
    Strings <- Texts
    Writes = 3
    Sizes = {0, 1, 2}
    Socks = {s1, s2, s3, s4, s5}
    IfAddrs = {a1, a2}
    Ports = {1}
    MaxClients = 2
    MaxInterfaces = 2
    Requests <- Packets
    BufferLen = 60
    Damages = {1, 256, 65535}
    Addrs = {x1, x2, x3}
    UPDATE_FREQ = 1
    MaxTime = 4
SYMMETRY Alike
INVARIANTS
    RequestsEnd
    WritesKept
    ClientsServed
    ErrorArrives
    AddressesHold
CHECK_DEADLOCK FALSE
