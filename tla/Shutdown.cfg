SPECIFICATION SSpec
CONSTANTS
    Workers = {w1, w2}
    Listener = L
    Bystander = S
    Messages = {m1, m2}
    Nodes = {n1, n2}
    NULL = NULL
CHECK_DEADLOCK FALSE
INVARIANTS
    ReleasesQueueOnly
