SPECIFICATION FairSpec
CONSTANTS
    Workers = {w1,w2,w3}
    Listener = L
    Messages = {m1,m2,m3}
    Nodes = {n1,n2,n3}
    NULL = NULL
INVARIANTS
    TypeOK
    NoDanglingAccess
    NoSleeperWhileWork
    ExactlyOnce
PROPERTIES
    ImplementsFifo
    EveryMessageHandled
