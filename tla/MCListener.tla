------------------------------ MODULE MCListener ------------------------------
(* TLC instance of Listener: a peer that sends IPMI data of a failed       *)
(* collection or SNMP data of a RAID, with a number and a text, in up to   *)
(* three pieces, and one that sends a message of a class unknown here in   *)
(* one piece.                                                              *)
EXTENDS Listener, TLC
CONSTANTS p1, p2

Set(class, fields) == {Cell(class, f) : f \in fields}
Whole(class) == Set(class, DOMAIN Labels[class])
Needed(class) == Set(class, {f \in DOMAIN Labels[class] : Labels[class][f] = Required})
Sent(class, chosen) == [class |-> class, body |-> Serialized(class, chosen)]

Failed == Sent("CollectData", Needed("CollectData") \cup Whole("FruData")
                   \cup Set("CollectData", {"fru_data", "error_code"}))
Snmp   == Sent("SNMPData", Needed("SNMPData") \cup Set("SNMPData", {"raid_info"})
                   \cup Set("Raid", {"uint64_kv", "string_kv"})
                   \cup Whole("KV_UINT64") \cup Whole("KV_STRING"))
Other  == Sent("ReturnCode", Whole("ReturnCode"))

MCForms == [p \in {p1, p2} |-> IF p = p1 THEN {Failed, Snmp} ELSE {Other}]
MCPieces == [p \in {p1, p2} |-> IF p = p1 THEN 3 ELSE 1]
=============================================================================
