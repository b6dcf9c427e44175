------------------------------- MODULE Messages -------------------------------
(***************************************************************************)
(* The messages the collectors, the master and the alert module exchange   *)
(* with the server: the classes generated into *.pb.h and *.pb.cc. For     *)
(* each class its fields with their labels (the accessors and has bits of  *)
(* the header), and the order in which its fields are written and, unless  *)
(* the sender is another program, read.                                    *)
(*                                                                         *)
(* On the wire a message is a sequence of cells, one for a field: a field  *)
(* with a message in it is a cell of its own followed by the cells of that *)
(* message. One element stands for a repeated field. A value is what was   *)
(* sent, a default, or garbage, and is not given here.                     *)
(***************************************************************************)
EXTENDS Naturals, Sequences, FiniteSets, SequencesExt

Required == "required"
Optional == "optional"
Repeated == "repeated"

(* The fields of every class and their labels.                             *)
KV_UINT64   == [name |-> Optional, value |-> Optional]
KV_STRING   == [name |-> Optional, value |-> Optional]
IfData      == [uint64_kv |-> Repeated, string_kv |-> Repeated]
DiskData    == [index |-> Required, uint64_kv |-> Repeated, string_kv |-> Repeated]
ProcData    == [uint64_kv |-> Repeated, string_kv |-> Repeated, if_info |-> Repeated,
                disk_info |-> Repeated, storage_info |-> Repeated]
Raid        == [uint64_kv |-> Repeated, string_kv |-> Repeated]
PD          == [index |-> Required, uint64_kv |-> Repeated, string_kv |-> Repeated]
VD          == [index |-> Required, uint64_kv |-> Repeated, string_kv |-> Repeated]
StorageData == [index |-> Required, uint64_kv |-> Repeated, string_kv |-> Repeated]
SNMPData    == [server_id |-> Required, server_type |-> Required, os_type |-> Required,
                collect_time |-> Required, server_ip |-> Optional,
                server_name |-> Optional, mib_type |-> Required,
                raid_info |-> Repeated, pd_info |-> Repeated, vd_info |-> Repeated,
                proc_data |-> Optional, ssd_data |-> Optional, proc_error |-> Optional,
                raid_error |-> Optional, ssd_error |-> Optional]
ValueData   == [sdr_name |-> Required, sdr_num |-> Required, value |-> Required]
FruData     == [fru_name |-> Required, value |-> Required]
LogData     == [id |-> Required, time |-> Optional, content |-> Required]
CollectData == [server_id |-> Required, server_type |-> Required,
                collect_time |-> Required, server_ip |-> Optional,
                server_name |-> Optional, value_data |-> Repeated,
                log_data |-> Repeated, fru_data |-> Repeated, error_code |-> Optional]
Map         == [type_id |-> Required, column |-> Optional, sensor |-> Optional]
Action      == [data |-> Repeated, act |-> Required, name |-> Optional,
                token |-> Optional, collect_time |-> Optional]
ReturnCode  == [return_code |-> Required, message |-> Optional]

Labels == [KV_UINT64 |-> KV_UINT64, KV_STRING |-> KV_STRING, IfData |-> IfData,
           DiskData |-> DiskData, ProcData |-> ProcData, Raid |-> Raid, PD |-> PD,
           VD |-> VD, StorageData |-> StorageData, SNMPData |-> SNMPData,
           ValueData |-> ValueData, FruData |-> FruData, LogData |-> LogData,
           CollectData |-> CollectData, Map |-> Map, Action |-> Action,
           ReturnCode |-> ReturnCode]
-----------------------------------------------------------------------------
(* The classes as written: fields by ascending number.                     *)
KV_UINT64Wire   == <<"name", "value">>
KV_STRINGWire   == <<"name", "value">>
IfDataWire      == <<"uint64_kv", "string_kv">>
DiskDataWire    == <<"index", "uint64_kv", "string_kv">>
ProcDataWire    == <<"uint64_kv", "string_kv", "if_info", "disk_info", "storage_info">>
RaidWire        == <<"uint64_kv", "string_kv">>
PDWire          == <<"index", "uint64_kv", "string_kv">>
VDWire          == <<"index", "uint64_kv", "string_kv">>
StorageDataWire == <<"index", "uint64_kv", "string_kv">>
ValueDataWire   == <<"sdr_name", "sdr_num", "value">>
FruDataWire     == <<"fru_name", "value">>
LogDataWire     == <<"id", "time", "content">>
MapWire         == <<"type_id", "column", "sensor">>
ReturnCodeWire  == <<"return_code", "message">>

(* An operator whose name ends in _M is a fault of the operator below it,  *)
(* seeded to show that a property can tell the two apart; no behaviour     *)
(* uses it.                                                                *)
DataFirst_M == <<"server_id", "server_type", "value_data", "log_data", "fru_data",
                 "collect_time", "server_ip", "server_name", "error_code">>

CollectDataWire == <<"server_id", "server_type", "collect_time", "server_ip",
                     "server_name", "value_data", "log_data", "fru_data", "error_code">>

ActionWire      == <<"data", "act", "name", "token", "collect_time">>

SNMPDataWire    == <<"server_id", "server_type", "os_type", "collect_time",
                     "server_ip", "server_name", "mib_type", "raid_info", "pd_info",
                     "vd_info", "proc_data", "ssd_data", "proc_error", "raid_error",
                     "ssd_error">>

Wire == [KV_UINT64 |-> KV_UINT64Wire, KV_STRING |-> KV_STRINGWire,
         IfData |-> IfDataWire, DiskData |-> DiskDataWire, ProcData |-> ProcDataWire,
         Raid |-> RaidWire, PD |-> PDWire, VD |-> VDWire,
         StorageData |-> StorageDataWire, SNMPData |-> SNMPDataWire,
         ValueData |-> ValueDataWire, FruData |-> FruDataWire, LogData |-> LogDataWire,
         CollectData |-> CollectDataWire, Map |-> MapWire, Action |-> ActionWire,
         ReturnCode |-> ReturnCodeWire]

Classes == DOMAIN Wire
-----------------------------------------------------------------------------
(* The class of the message in a field, for the fields that hold one.      *)
Embedded == [uint64_kv |-> "KV_UINT64", string_kv |-> "KV_STRING",
             if_info |-> "IfData", disk_info |-> "DiskData",
             storage_info |-> "StorageData", raid_info |-> "Raid", pd_info |-> "PD",
             vd_info |-> "VD", proc_data |-> "ProcData", value_data |-> "ValueData",
             log_data |-> "LogData", fru_data |-> "FruData", data |-> "Map"]

Cell(class, field) == [class |-> class, field |-> field]

(* A message of a class in which the chosen fields are set, as it is       *)
(* written: a message in a field follows the field's cell.                 *)
Serialized(class, chosen) ==
    LET cells[c \in Classes] ==
            FlattenSeq([i \in 1..Len(Wire[c]) |->
                LET f == Wire[c][i]
                IN IF Cell(c, f) \notin chosen THEN <<>>
                   ELSE <<Cell(c, f)>> \o (IF f \in DOMAIN Embedded
                                           THEN cells[Embedded[f]] ELSE <<>>)])
    IN cells[class]

(* Before(class, f, g): field f is written before field g.                 *)
Before(class, f, g) ==
    \E p, q \in DOMAIN Wire[class] : p < q /\ Wire[class][p] = f /\ Wire[class][q] = g

(* A body as it leaves its sender: every required field is set, the fields *)
(* of the message itself are in the order of the wire, and a pair has its  *)
(* value next to its name.                                                 *)
AsWritten(class, body) ==
    /\ \A f \in DOMAIN Labels[class] :
          Labels[class][f] = Required => \E i \in 1..Len(body) : body[i] = Cell(class, f)
    /\ \A i, j \in 1..Len(body) :
          i < j /\ body[i].class = class /\ body[j].class = class
              => Before(class, body[i].field, body[j].field)
    /\ \A i \in 1..Len(body), c \in {"KV_UINT64", "KV_STRING"} :
          body[i] = Cell(c, "name") => i < Len(body) /\ body[i + 1] = Cell(c, "value")

(* has_field() of the message itself.                                      *)
Has(got, class, field) == Cell(class, field) \in got

(* IsInitialized of a message and of those in it.                          *)
IsInitialized(class, got) ==
    \A c \in Classes :
        c = class \/ (\E cell \in got : /\ cell.field \in DOMAIN Embedded
                                        /\ Embedded[cell.field] = c)
            => \A f \in DOMAIN Labels[c] : Labels[c][f] = Required => Has(got, c, f)

(* value() of a pair that was cut after its name returns the default: the  *)
(* column gets a 0 or an empty string that nobody sent.                    *)
Invented(got) ==
    {c \in {"KV_UINT64", "KV_STRING"} : Has(got, c, "name") /\ ~Has(got, c, "value")}
=============================================================================
