-------------------------------- MODULE FruMap --------------------------------
(***************************************************************************)
(* MagicMap::buildMap for the FRU data of a server (src/bin/MagicMap.cc).  *)
(* The entries are taken from the last to the first, and the column of the *)
(* one before is kept for an entry whose name is none of the four.         *)
(***************************************************************************)
EXTENDS Naturals, SequencesExt

CONSTANTS OtherNames,   \* FRU names without a column that a server may send
          MaxEntries    \* bound: entries of a message

VARIABLES names,        \* of the entries of a message
          fru_size,     \* entries not yet taken
          key,
          string_map

fruVars == <<names, fru_size, key, string_map>>

(* The FRU names that have a column.                                       *)
Column == [ProductName |-> "product_name", ProductManufacturer |-> "manufacturer",
           ProductSerial |-> "product_serial", BoardSerial |-> "board_serial"]

ASSUME FruMapAssumption ==
    MaxEntries \in Nat /\ OtherNames \cap DOMAIN Column = {}

(* Entries of different names.                                             *)
FruLists == {list \in SeqOf(DOMAIN Column \cup OtherNames, MaxEntries) : IsInjective(list)}

FruStart(list) ==
    /\ names = list
    /\ fru_size = Len(list) /\ key = "" /\ string_map = [column \in {} |-> ""]

FruInit == \E list \in FruLists : FruStart(list)

(* An operator whose name ends in _M is a fault of the operator below it,  *)
(* seeded to show that a property can tell the two apart; no behaviour     *)
(* uses it.                                                                *)
Forward_M == names[Len(names) - fru_size + 1]

Entry == names[fru_size]

(* One turn of the loop. The value of an entry is told from others by its  *)
(* name.                                                                   *)
TakeEntry ==
    /\ fru_size > 0 /\ fru_size' = fru_size - 1
    /\ key' = IF Entry \in DOMAIN Column THEN Column[Entry] ELSE key
    /\ string_map' = [column \in DOMAIN string_map \cup {key'} |->
                         IF column = key' THEN Entry ELSE string_map[column]]
    /\ UNCHANGED names

FruSpec == FruInit /\ [][TakeEntry]_fruVars
-----------------------------------------------------------------------------
Taken == {i \in DOMAIN names : i > fru_size}

(* The four columns get their values, unless an entry of another name comes*)
(* right before one of the four in the message: its value is taken for the *)
(* other's. A statement names a column without name, and fails, just when  *)
(* the last entry is of another name.                                      *)
FruUnderItsName ==
    /\ \A i \in Taken :
          names[i] \in DOMAIN Column =>
              /\ Column[names[i]] \in DOMAIN string_map
              /\ string_map[Column[names[i]]] = names[i]
                    <=> (i - 1 \in Taken => names[i - 1] \in DOMAIN Column)
    /\ "" \in DOMAIN string_map <=> Taken # {} /\ Last(names) \in OtherNames
-----------------------------------------------------------------------------
(* Why: key is the column of the last entry taken that has one.            *)
KeyKept ==
    \/ key = "" /\ \A i \in Taken : names[i] \in OtherNames
    \/ \E i \in Taken : /\ names[i] \in DOMAIN Column /\ key = Column[names[i]]
                        /\ \A j \in Taken : j < i => names[j] \in OtherNames

FruInv ==
    /\ names \in FruLists /\ fru_size \in 0..Len(names)
    /\ KeyKept /\ FruUnderItsName
=============================================================================
