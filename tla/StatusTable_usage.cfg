CONSTANTS
    w1 = w1
    w2 = w2
    k1 = k1
    k2 = k2
    Workers = {w1}
    Keys = {k1}
    Kinds = {"perform"}
    Values = {1}
    MaxMessages = 3
    MaxTroubles = 0
SPECIFICATION Spec
INVARIANTS
    UsageNewest
CHECK_DEADLOCK FALSE
