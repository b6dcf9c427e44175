---------------------------- MODULE MCServerReport ----------------------------
(* An instance of ServerReport for TLC. The reports cover each list empty, *)
(* shrunk, exchanged and with a disk that has no serial number, and the    *)
(* partition list closed, ragged and empty.                                *)
EXTENDS ServerReport

CONSTANTS p1, p2, d1, d2, d3

Report(parts, ragged, pds, unnamed, vds, ssd) ==
    [proc |-> TRUE, partitions |-> parts, ragged |-> ragged, raid |-> TRUE,
     named |-> [l \in Lists |-> IF l = "pd" THEN pds ELSE vds],
     unnamed |-> [l \in Lists |-> IF l = "pd" THEN unnamed ELSE 0],
     ssd |-> ssd, ssd_data |-> FALSE]

SomeReports ==
    {Report({p1, p2}, FALSE, {d1, d2}, 0, {d1}, FALSE),
     Report({p1}, FALSE, {d1, d3}, 0, {d2}, TRUE),
     Report({p2}, TRUE, {d1}, 1, {}, FALSE),
     Report({}, FALSE, {}, 0, {d1, d2}, FALSE),
     [Report({}, FALSE, {d2}, 0, {}, TRUE) EXCEPT !.proc = FALSE, !.ssd_data = TRUE],
     [Report({p2}, FALSE, {}, 0, {}, FALSE) EXCEPT !.raid = FALSE]}
=============================================================================
