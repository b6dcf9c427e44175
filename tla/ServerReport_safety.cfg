CONSTANTS
    p1 = p1
    p2 = p2
    d1 = d1
    d2 = d2
    d3 = d3
    Partitions = {p1, p2}
    Disks = {d1, d2, d3}
    Reports <- SomeReports
SPECIFICATION Spec
INVARIANTS
    GhostsBounded
    PartitionsExact
    BackOnline
