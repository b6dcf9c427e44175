CONSTANTS
    w1 = w1
    w2 = w2
    k1 = k1
    k2 = k2
    Workers = {w1, w2}
    Keys = {k1, k2}
    Kinds = {"perform", "snmp", "log", "fru", "raw"}
    Values = {1, 2}
    MaxMessages = 4
    MaxTroubles = 2
SPECIFICATION Spec
SYMMETRY Symmetry
INVARIANTS
    TypeOK
    DuplicatesBounded
    SerialIsExact
    ForeignNeedsTwoTroubles
CHECK_DEADLOCK FALSE
