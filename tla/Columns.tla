------------------------------- MODULE Columns -------------------------------
(***************************************************************************)
(* The columns of the history tables that SNMPDataDB fills: the names that *)
(* MagicMap.h expects in a message, per kind of data, and the columns that *)
(* DataBaseContainer::getTableSchema names, in its order (less those that  *)
(* SNMPDataDB fills itself at both ends: server_id, times, speeds...). The *)
(* hp tables are left out: they have no schema, so nothing gets into them. *)
(***************************************************************************)
EXTENDS SequencesExt

(* SNMPDataDB filters these names after the status row is written.         *)
PERFORM_STATUS == {"sysdescr", "cpuDescr", "cpuNum"}
IF_STATUS == {"ifDescr", "ifType", "ifMtu", "ifPhysAddress", "ifAdminStatus",
    "ifOperStatus", "ifLastChange"}
DISK_STATUS == {"diskIODevice"}
STORAGE_STATUS == {"hrStorageDescr"}

(* MagicMap.h (PERFORM_KEY_ is SF_KEY_ there, which is a word of TLA+).    *)
PERFORM_KEY_INT == {"uptime", "memTotalSwap", "memAvailSwap", "memTotalReal",
    "memAvailReal", "memTotalFree", "memBuffer", "memCached", "dskPercent",
    "cpu_load", "hrMemorySize"}
PERFORM_KEY_STRING == {"cpuDescr", "sysdescr"}
DISK_KEY_INT == {"disk_io_read", "disk_io_write", "disk_io_rtimes",
    "disk_io_wtimes"}
DISK_KEY_STRING == {"diskIODevice"}
STORAGE_KEY_INT == {"hrStorageIndex", "hrStorageAllocationUnits",
    "hrStorageSize", "hrStorageUsed", "hrStorageAllocationFailures"}
STORAGE_KEY_STRING == {"hrStorageDescr"}
NETWORK_KEY_INT == {"ifIndex", "ifSpeed", "ifAdminStatus", "ifOperStatus",
    "ifLastChange", "ifInOctets", "ifInUcastPkts", "ifInNUcastPkts",
    "ifInDiscards", "ifInErrors", "ifInUnknownProtos", "ifOutOctets",
    "ifOutUcastPkts", "ifOutNUcastPkts", "ifOutDiscards", "ifOutErrors",
    "ifOutQLen"}
NETWORK_KEY_STRING == {"ifDescr", "ifPhysAddress"}
IR_RAID_INT == {"adapterID", "rebuildRate", "reconstructionRate", "alarmState",
    "patrolReadRate", "bgiRate", "ccRate", "hostInterfacePortCnt",
    "devInterfacePortCnt", "nvramSize", "memorySize", "flashSize",
    "vdPresentCount", "slotCount", "pdCount", "pdPresentCount",
    "pdDiskPresentCount", "pdDiskPredFailureCount", "pdDiskFailedCount",
    "vdDegradedCount", "vdOfflineCount", "dedicatedHotSpares",
    "revertibleHotSpares", "vdNumber"}
IR_RAID_STRING == {"sasAddr", "productName", "firmwareVersion",
    "driverVersion", "devInterfacePortAddr"}
IR_PD_INT == {"mediaErrCount", "otherErrCount", "predFailCount", "pdState",
    "linkSpeed", "rawSize", "slotNumber", "pdAdpID", "diskType", "phyPos",
    "mediatype"}
IR_PD_STRING == {"pdSasAddr", "pdOperationProgress", "vendorID", "productID",
    "pdFwversion", "pdSerialNumber", "connectedAdapterPort"}
IR_VD_INT == {"size", "state", "vdDiskCachePolicy", "prl", "sRL", "stripeSize",
    "numDrives", "currentCachePolicy", "vdAdpID"}
IR_VD_STRING == {"operationProgress", "pdList"}
N_RAID_INT == {"adapterID-APT", "rebuildRate", "reconstructionRate",
    "alarmState", "patrolReadRate", "bgiRate", "vdPresentCount",
    "vdDegradedCount", "vdOfflineCount", "pdPresentCount",
    "pdDiskPresentCount", "pdDiskPredFailureCount", "pdDiskFailedCount",
    "ccRate", "copyBackState", "hostInterface", "devInterfacePortCnt",
    "bbuNumber", "nextLearnTime", "absStateOfCharge", "batteryReplacement",
    "pdNumber", "memorySize", "vdNumbers"}
N_RAID_STRING == {"adapterVendorID", "devID", "subVendorID", "subDevID",
    "devInterface", "serialNo", "firmwareVersion", "driverVersion",
    "hardwarePresent", "bbuState", "productName"}
N_PD_STRING == {"connectedAdapterPort", "sasAddr", "operationProgress",
    "pdVendorID", "pdProductID", "pdFwversion", "pdSerialNumber"}
N_PD_INT == {"pdIndex", "physDevID", "mediaErrCount", "otherErrCount",
    "predFailCount", "pdState", "disabledForRemoval", "linkSpeed", "rawSize",
    "slotNumber", "adpID-PDT", "diskType", "mediatype"}
N_VD_INT == {"virtualDevID", "size", "state", "diskCachePolicy", "bgiState",
    "prl", "sRL", "stripeSize", "numDrives", "adapterID-VDT"}
N_VD_STRING == {"currentCachePolicy", "pdList"}

(* getTableSchema.                                                         *)
ir_controller == <<"adapterID", "alarmState", "bgiRate", "ccRate",
    "dedicatedHotSpares", "devInterfacePortCnt", "flashSize",
    "hostInterfacePortCnt", "memorySize", "nvramSize", "patrolReadRate",
    "pdCount", "pdDiskFailedCount", "pdDiskPredFailureCount",
    "pdDiskPresentCount", "pdPresentCount", "rebuildRate",
    "reconstructionRate", "revertibleHotSpares", "slotCount",
    "vdDegradedCount", "vdNumber", "vdOfflineCount", "vdPresentCount",
    "devInterfacePortAddr", "driverVersion", "firmwareVersion", "productName",
    "sasAddr">>
ir_pd == <<"diskType", "linkSpeed", "mediatype", "mediaErrCount",
    "otherErrCount", "pdAdpID", "pdState", "phyPos", "predFailCount",
    "rawSize", "slotNumber", "connectedAdapterPort", "pdFwversion",
    "pdOperationProgress", "pdSasAddr", "pdSerialNumber", "productID",
    "vendorID">>
ir_vd == <<"currentCachePolicy", "numDrives", "prl", "sRL", "size", "state",
    "stripeSize", "vdAdpID", "vdDiskCachePolicy", "operationProgress",
    "pdList">>
no_ir_controller == <<"absStateOfCharge", "adapterID-APT", "alarmState",
    "batteryReplacement", "bbuNumber", "bgiRate", "ccRate", "copyBackState",
    "devInterfacePortCnt", "hostInterface", "memorySize", "nextLearnTime",
    "patrolReadRate", "pdDiskFailedCount", "pdDiskPredFailureCount",
    "pdDiskPresentCount", "pdNumber", "pdPresentCount", "rebuildRate",
    "reconstructionRate", "vdDegradedCount", "vdNumbers", "vdOfflineCount",
    "vdPresentCount", "adapterVendorID", "bbuState", "devID", "devInterface",
    "driverVersion", "firmwareVersion", "hardwarePresent", "productName",
    "serialNo", "subDevID", "subVendorID">>
no_ir_pd == <<"adpID-PDT", "disabledForRemoval", "diskType", "linkSpeed",
    "mediaErrCount", "mediatype", "otherErrCount", "pdIndex", "pdState",
    "physDevID", "predFailCount", "rawSize", "slotNumber",
    "connectedAdapterPort", "operationProgress", "pdFwversion", "pdProductID",
    "pdSerialNumber", "pdVendorID", "sasAddr">>
no_ir_vd == <<"adapterID-VDT", "bgiState", "diskCachePolicy", "numDrives",
    "prl", "sRL", "size", "state", "stripeSize", "virtualDevID",
    "currentCachePolicy", "pdList">>
server_perform == <<"cpu_load", "dskPercent", "hrMemorySize", "memAvailReal",
    "memAvailSwap", "memBuffer", "memCached", "memTotalFree", "memTotalReal",
    "memTotalSwap", "uptime">>
disk_io == <<"disk_io_read", "disk_io_rtimes", "disk_io_write",
    "disk_io_wtimes">>
network_io == <<"ifInDiscards", "ifInErrors", "ifInNUcastPkts", "ifInOctets",
    "ifInUcastPkts", "ifInUnknownProtos", "ifIndex", "ifOutDiscards",
    "ifOutErrors", "ifOutNUcastPkts", "ifOutOctets", "ifOutQLen",
    "ifOutUcastPkts", "ifSpeed">>
hrStorage == <<"hrStorageAllocationFailures", "hrStorageAllocationUnits",
    "hrStorageIndex", "hrStorageSize", "hrStorageUsed">>

(* A name that no table knows, as a newer collector may send it.           *)
Foreign == "ifHCInOctets"

(* All names in the order of std::map<string, ...>, that of their bytes.   *)
Names == <<"absStateOfCharge", "adapterID", "adapterID-APT", "adapterID-VDT",
    "adapterVendorID", "adpID-PDT", "alarmState", "batteryReplacement",
    "bbuNumber", "bbuState", "bgiRate", "bgiState", "ccRate",
    "connectedAdapterPort", "copyBackState", "cpuDescr", "cpuNum", "cpu_load",
    "currentCachePolicy", "dedicatedHotSpares", "devID", "devInterface",
    "devInterfacePortAddr", "devInterfacePortCnt", "disabledForRemoval",
    "diskCachePolicy", "diskIODevice", "diskType", "disk_io_read",
    "disk_io_rtimes", "disk_io_write", "disk_io_wtimes", "driverVersion",
    "dskPercent", "firmwareVersion", "flashSize", "hardwarePresent",
    "hostInterface", "hostInterfacePortCnt", "hrMemorySize",
    "hrStorageAllocationFailures", "hrStorageAllocationUnits",
    "hrStorageDescr", "hrStorageIndex", "hrStorageSize", "hrStorageUsed",
    "ifAdminStatus", "ifDescr", "ifHCInOctets", "ifInDiscards", "ifInErrors",
    "ifInNUcastPkts", "ifInOctets", "ifInUcastPkts", "ifInUnknownProtos",
    "ifIndex", "ifLastChange", "ifMtu", "ifOperStatus", "ifOutDiscards",
    "ifOutErrors", "ifOutNUcastPkts", "ifOutOctets", "ifOutQLen",
    "ifOutUcastPkts", "ifPhysAddress", "ifSpeed", "ifType", "linkSpeed",
    "mediaErrCount", "mediatype", "memAvailReal", "memAvailSwap", "memBuffer",
    "memCached", "memTotalFree", "memTotalReal", "memTotalSwap", "memorySize",
    "nextLearnTime", "numDrives", "nvramSize", "operationProgress",
    "otherErrCount", "patrolReadRate", "pdAdpID", "pdCount",
    "pdDiskFailedCount", "pdDiskPredFailureCount", "pdDiskPresentCount",
    "pdFwversion", "pdIndex", "pdList", "pdNumber", "pdOperationProgress",
    "pdPresentCount", "pdProductID", "pdSasAddr", "pdSerialNumber", "pdState",
    "pdVendorID", "phyPos", "physDevID", "predFailCount", "prl", "productID",
    "productName", "rawSize", "rebuildRate", "reconstructionRate",
    "revertibleHotSpares", "sRL", "sasAddr", "serialNo", "size", "slotCount",
    "slotNumber", "state", "stripeSize", "subDevID", "subVendorID", "sysdescr",
    "uptime", "vdAdpID", "vdDegradedCount", "vdDiskCachePolicy", "vdNumber",
    "vdNumbers", "vdOfflineCount", "vdPresentCount", "vendorID",
    "virtualDevID">>

(* The number of a name in that order, by which a map has its keys sorted. *)
Place == [name \in Range(Names) |-> CHOOSE i \in DOMAIN Names : Names[i] = name]
-----------------------------------------------------------------------------
(* needs: without these names SNMPDataDB leaves the data alone.            *)
Table(ints, strings, filter, needs, columns) ==
    [ints |-> ints, strings |-> strings, filter |-> filter, needs |-> needs,
     columns |-> columns]

Tables ==
    [server_perform |-> Table(PERFORM_KEY_INT, PERFORM_KEY_STRING, PERFORM_STATUS, {}, server_perform),
     network_io |-> Table(NETWORK_KEY_INT, NETWORK_KEY_STRING, IF_STATUS, {"ifIndex"}, network_io),
     disk_io |-> Table(DISK_KEY_INT, DISK_KEY_STRING, DISK_STATUS, {}, disk_io),
     hrStorage |-> Table(STORAGE_KEY_INT, STORAGE_KEY_STRING, STORAGE_STATUS,
                         {"hrStorageDescr"}, hrStorage),
     ir_controller |-> Table(IR_RAID_INT, IR_RAID_STRING, {}, {"adapterID"}, ir_controller),
     ir_pd |-> Table(IR_PD_INT, IR_PD_STRING, {},
                     {"pdAdpID", "slotNumber", "pdSerialNumber"}, ir_pd),
     ir_vd |-> Table(IR_VD_INT, IR_VD_STRING, {}, {"vdAdpID", "pdList"}, ir_vd),
     no_ir_controller |-> Table(N_RAID_INT, N_RAID_STRING, {}, {"adapterID-APT"},
                                no_ir_controller),
     no_ir_pd |-> Table(N_PD_INT, N_PD_STRING, {},
                        {"adpID-PDT", "slotNumber", "pdSerialNumber"}, no_ir_pd),
     no_ir_vd |-> Table(N_VD_INT, N_VD_STRING, {}, {"adapterID-VDT", "pdList"}, no_ir_vd)]
=============================================================================
