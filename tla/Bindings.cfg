SPECIFICATION UnionSpec
CONSTANTS
    Values = {a, b}
    InitialSize = 2
    MaxCells = 4
    Handles = {h1, h2}
    Slots = {s1, s2}
    Table <- AllClasses
    InPlay <- SoundClasses
    MaxDepth = 1
    MaxOpens = 1
    Width = 6
    Data = {d1, d2}
    CallsBack <- Calling
    MaxFrames = 4
    Callers = {c1, c2}
    Loops = {l1, l2}
SYMMETRY Alike
INVARIANTS
    TypesOK
    NoRoomIsLost
    FillCounts
    ObjectsOwn
    AssertsHold
    EachSuiteOnce
    SignalsFollowSide
    HeldIsLive
    DataAccounted
    CallbackPins
    TasksRun
PROPERTY
    Promise
CHECK_DEADLOCK FALSE
