SPECIFICATION Spec
SYMMETRY Symmetry
CONSTANTS
    Ends = {a, b}
    Offers <- OffersSmall
    DeathCount = 1
    MaxHalves = 3
    MaxTsn = 1
    MaxNet = 2
INVARIANTS
    TypeOK
    KeysAgree
    ResumeAgrees
    TablesMatch
PROPERTY
    WaitingEnds
CHECK_DEADLOCK FALSE
