------------------------------ MODULE SsdReport ------------------------------
(***************************************************************************)
(* How SSDData::insert (src/bin/SSDData.cc) reads the attribute tables that*)
(* smartctl printed for the disks of a server: as one stream of words, in  *)
(* which a table begins after the word "Thresholds:" and has ten words per *)
(* row, the raw value being the rest of the line. Rows of attributes that  *)
(* smartctl does not know are dropped. What becomes of a row that is stored*)
(* is the subject of modules BatchBuffer and StatusTable.                  *)
(***************************************************************************)
EXTENDS Naturals, SequencesExt

CONSTANT Reports     \* what smartctl may print, each a sequence of lines of words

VARIABLES report,
          at_line, at_place,  \* of the next word
          cur,          \* the word before
          ssd,
          insert_flag,  \* inside a table
          row_data,     \* the first insert_index of it
          unsupported,  \* insert has returned false
          rows          \* history only: what was stored

ssdVars ==
    <<report, at_line, at_place, cur, ssd, insert_flag, row_data, unsupported, rows>>

(* A word remembers the place it was printed at (history only).            *)
Word(text, l, p) == [text |-> text, line |-> l, place |-> p]

Columns10 == <<"ID", "ATTRIBUTE_NAME", "FLAG", "VALUE", "WORST", "THRESH", "TYPE",
               "UPDATED", "WHEN_FAILED", "RAW_VALUE">>

(* The lines of a report: the name of a disk, then what smartctl prints for*)
(* it. An attribute has nine words and a raw value of one to ten.          *)
Plain(text) == text \notin {"smartctl", "Thresholds:", "ID", "Unknown_Attribute"}
IsDiskName(words) == Len(words) = 1 /\ Plain(words[1])
IsOpening(words) ==
    Len(words) > 1 /\ words[1] = "smartctl" /\ \A p \in 2..Len(words) : Plain(words[p])
IsTitle(words) ==
    /\ Len(words) > 1 /\ words[Len(words)] = "Thresholds:"
    /\ \A p \in 1..(Len(words) - 1) : Plain(words[p])
IsHeader(words) == words = Columns10
IsAttribute(words) ==
    /\ Len(words) \in 10..19
    /\ \A p \in 1..Len(words) : Plain(words[p]) \/ (p = 2 /\ words[2] = "Unknown_Attribute")

MayFollow(words, next) ==
    \/ IsDiskName(words) /\ IsOpening(next)
    \/ IsOpening(words) /\ IsTitle(next)
    \/ IsTitle(words) /\ IsHeader(next)
    \/ /\ IsHeader(words) \/ IsAttribute(words)
       /\ IsAttribute(next) \/ IsDiskName(next)

IsReport(r) ==
    /\ r \in Seq(Range(r)) /\ \A l \in DOMAIN r : r[l] \in Seq(Range(r[l]))
    /\ r # <<>> => IsDiskName(r[1])
    /\ \A l \in 1..(Len(r) - 1) : MayFollow(r[l], r[l + 1])

ASSUME SsdAssumption == \A r \in Reports : IsReport(r)

SsdStart(r) ==
    /\ report = r /\ at_line = 1 /\ at_place = 1
    /\ cur = "" /\ ssd = "" /\ insert_flag = FALSE /\ row_data = <<>>
    /\ unsupported = FALSE /\ rows = <<>>

SsdInit == \E r \in Reports : SsdStart(r)
-----------------------------------------------------------------------------
NextLine == at_line' = at_line + 1 /\ at_place' = 1

NextWord ==
    IF at_place < Len(report[at_line])
    THEN at_place' = at_place + 1 /\ UNCHANGED at_line ELSE NextLine

NextText == report[at_line][at_place]

(* An operator whose name ends in _M is a fault of the operator below it,  *)
(* seeded to show that a property can tell the two apart; no behaviour     *)
(* uses it.                                                                *)
SameDisk_M == UNCHANGED ssd /\ insert_flag' = FALSE /\ row_data' = <<>>

(* The word before "smartctl" is the name of the disk.                     *)
NewDisk == ssd' = cur /\ insert_flag' = FALSE /\ row_data' = <<>>

OpenDisk ==
    /\ NextText = "smartctl"
    /\ NewDisk /\ NextWord
    /\ UNCHANGED <<unsupported, rows>>

Extended == IF insert_flag THEN Append(row_data, Word(NextText, at_line, at_place)) ELSE row_data

(* A word that completes no row.                                           *)
PassWord ==
    /\ NextText # "smartctl" /\ Len(Extended) < 10
    /\ insert_flag' = (insert_flag \/ NextText = "Thresholds:")
    /\ row_data' = IF NextText = "Thresholds:" THEN <<>> ELSE Extended
    /\ NextWord
    /\ UNCHANGED <<ssd, unsupported, rows>>

(* Ten words: the header, an unknown attribute, or a row to store; only    *)
(* the last leaves the rest of the line unread.                            *)
EndRow ==
    /\ NextText # "smartctl" /\ insert_flag /\ Len(Extended) = 10
    /\ row_data' = <<>>
    /\ \/ /\ Extended[1].text = "ID"
          /\ unsupported' = \E i \in 1..10 : Extended[i].text # Columns10[i]
          /\ NextWord /\ UNCHANGED rows
       \/ /\ Extended[1].text # "ID" /\ Extended[2].text = "Unknown_Attribute"
          /\ NextWord /\ UNCHANGED <<unsupported, rows>>
       \/ /\ Extended[1].text # "ID" /\ Extended[2].text # "Unknown_Attribute"
          /\ rows' = Append(rows, [ssd |-> ssd, words |-> Extended])
          /\ NextLine /\ UNCHANGED unsupported
    /\ UNCHANGED <<ssd, insert_flag>>

(* One turn of the loop over the words.                                    *)
ReadWord ==
    /\ at_line <= Len(report) /\ ~unsupported
    /\ OpenDisk \/ PassWord \/ EndRow
    /\ cur' = NextText
    /\ UNCHANGED report

SsdSpec == SsdInit /\ [][ReadWord]_ssdVars
-----------------------------------------------------------------------------
(* A row has the words of one line of the report, each in its column.      *)
IsLine(row, l) ==
    \A i \in 1..10 : row.words[i].line = l /\ row.words[i].place = i

IsKnown(words) == IsAttribute(words) /\ words[2] # "Unknown_Attribute"

(* The line before left words of its raw value unread.                     *)
AfterUnknown(r, l) == l > 1 /\ Len(r[l - 1]) > 10 /\ r[l - 1][2] = "Unknown_Attribute"

(* The disk a line is about.                                               *)
Heads(r, l) == {h \in 1..l : Len(r[h]) = 1 /\ \A k \in (h + 1)..l : Len(r[k]) > 1}
DiskOf(r, l) == r[CHOOSE h \in Heads(r, l) : TRUE][1]

(* Every known attribute read is stored for its disk, word by word, and    *)
(* nothing else is; except that an unknown attribute whose raw value has   *)
(* several words spoils the line after it, and that one only. The reading  *)
(* is never given up.                                                      *)
SsdRowsRight ==
    /\ ~unsupported
    /\ \A l \in 1..(at_line - 1) :
          IsKnown(report[l]) /\ ~AfterUnknown(report, l) =>
              \E i \in 1..Len(rows) : IsLine(rows[i], l) /\ rows[i].ssd = DiskOf(report, l)
    /\ \A i \in 1..Len(rows) :
          LET l == rows[i].words[10].line IN
          (IsKnown(report[l]) /\ IsLine(rows[i], l)) \/ AfterUnknown(report, l)
-----------------------------------------------------------------------------
(* Why: in a table the row has as many words as the line, but for what is  *)
(* left over of an unknown attribute.                                      *)
Outside == ~insert_flag /\ ssd = DiskOf(report, at_line)

InStep ==
    /\ Len(row_data) = at_place - 1 /\ Len(row_data) < 10
    /\ \A i \in 1..Len(row_data) : row_data[i] = Word(report[at_line][i], at_line, i)

PlainRow == \A i \in 1..Len(row_data) : i <= 2 => Plain(row_data[i].text)

InRest ==
    /\ at_place > 10 /\ report[at_line][2] = "Unknown_Attribute"
    /\ Len(row_data) = at_place - 11 /\ PlainRow

Spoiled ==
    at_place <= Len(row_data) /\ Len(row_data) < 10 /\ AfterUnknown(report, at_line) /\ PlainRow

ReadingRight ==
    LET words == report[at_line] IN
    /\ at_place \in 1..Len(words)
    /\ IsDiskName(words) /\ insert_flag => row_data = <<>> \/ Spoiled
    /\ IsOpening(words) => IF at_place = 1 THEN cur = report[at_line - 1][1] ELSE Outside
    /\ IsTitle(words) => Outside
    /\ IsHeader(words) \/ IsAttribute(words) =>
          /\ insert_flag /\ ssd = DiskOf(report, at_line)
          /\ InStep \/ (IsAttribute(words) /\ (InRest \/ Spoiled))

SsdInv ==
    /\ report \in Reports /\ at_line \in 1..(Len(report) + 1)
    /\ row_data \in Seq(Range(row_data)) /\ rows \in Seq(Range(rows))
    /\ insert_flag \in BOOLEAN
    /\ at_line <= Len(report) => ReadingRight
    /\ SsdRowsRight
=============================================================================
