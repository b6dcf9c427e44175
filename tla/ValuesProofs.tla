----------------------------- MODULE ValuesProofs -----------------------------
(***************************************************************************)
(* Proofs about the values that are read and stored: the entries of FRU    *)
(* data, the parameters of a file, the reports about SSDs, the rows of     *)
(* messages, and the speeds of interfaces and disks.                       *)
(***************************************************************************)
EXTENDS FruMap, Config, SsdReport, ValueMap, Speed, FiniteSetTheorems, TLAPS

(***************************************************************************)
(* The entries of FRU data (module FruMap): any names, any number of them. *)
(***************************************************************************)

(* Entries of a message have different names, four of them a column each.  *)
LEMMA ListTypes ==
    ASSUME NEW list \in FruLists
    PROVE  /\ Len(list) \in Nat /\ DOMAIN list = 1..Len(list)
           /\ \A i \in 1..Len(list) : list[i] \in DOMAIN Column \/ list[i] \in OtherNames
           /\ \A i, j \in 1..Len(list) : list[i] = list[j] => i = j
<1>1. PICK m \in 0..MaxEntries : list \in [1..m -> DOMAIN Column \cup OtherNames]
  BY DEF FruLists, SeqOf
<1>2. m \in Nat /\ DOMAIN list = 1..m
  BY <1>1, FruMapAssumption
<1>3. Len(list) = m
  BY <1>1, <1>2
<1>4. IsInjective(list)
  BY DEF FruLists
<1>5. QED
  BY <1>1, <1>2, <1>3, <1>4 DEF IsInjective

LEMMA ColumnsDiffer ==
    /\ \A x, y \in DOMAIN Column : Column[x] = Column[y] => x = y
    /\ \A x \in DOMAIN Column : Column[x] # ""
    /\ \A x \in OtherNames : x \notin DOMAIN Column
<1>1. \A x \in OtherNames : x \notin DOMAIN Column
  BY FruMapAssumption
<1>2. \A x, y \in DOMAIN Column : Column[x] = Column[y] => x = y
  BY DEF Column
<1>3. ASSUME NEW x \in DOMAIN Column PROVE Column[x] # ""
  <2>1. Column[x] \in {"product_name", "manufacturer", "product_serial", "board_serial"}
    BY DEF Column
  <2>2. "product_name" # "" /\ "manufacturer" # "" /\ "product_serial" # "" /\ "board_serial" # ""
    OBVIOUS
  <2>3. QED
    BY <2>1, <2>2
<1>4. QED
  BY <1>1, <1>2, <1>3

LEMMA FruInitInv == FruInit => FruInv
<1> SUFFICES ASSUME FruInit PROVE FruInv
  OBVIOUS
<1>1. PICK list \in FruLists : FruStart(list)
  BY DEF FruInit
<1>2. names \in FruLists /\ fru_size = Len(names) /\ Len(names) \in Nat /\ DOMAIN names = 1..Len(names)
  BY <1>1, ListTypes DEF FruStart
<1>3. Taken = {}
  BY <1>2 DEF Taken
<1>4. KeyKept /\ FruUnderItsName
  BY <1>1, <1>3 DEF KeyKept, FruUnderItsName, FruStart
<1>5. QED
  BY <1>2, <1>4 DEF FruInv

(* The entry taken is the one before all those taken so far.               *)
LEMMA TakenGrows ==
    ASSUME FruInv, TakeEntry
    PROVE  /\ names' = names /\ fru_size \in 1..Len(names) /\ Len(names) \in Nat
           /\ Taken = (fru_size + 1)..Len(names)
           /\ Taken' = Taken \cup {fru_size}
           /\ \A i \in Taken : i > fru_size
           /\ fru_size - 1 \notin Taken'
           /\ \A i \in Taken' : names[i] \in DOMAIN Column \/ names[i] \in OtherNames
           /\ \A i, j \in Taken' : names[i] = names[j] => i = j
<1>1. names' = names /\ fru_size > 0 /\ fru_size' = fru_size - 1
  BY DEF TakeEntry
<1>2. names \in FruLists /\ fru_size \in 0..Len(names)
  BY DEF FruInv
<1>3. /\ Len(names) \in Nat /\ DOMAIN names = 1..Len(names)
      /\ \A i \in 1..Len(names) : names[i] \in DOMAIN Column \/ names[i] \in OtherNames
      /\ \A i, j \in 1..Len(names) : names[i] = names[j] => i = j
  BY <1>2, ListTypes
<1>4. Taken = (fru_size + 1)..Len(names)
  BY <1>2, <1>3 DEF Taken
<1>5. Taken' = Taken \cup {fru_size}
  BY <1>1, <1>2, <1>3 DEF Taken
<1>6. QED
  BY <1>1, <1>2, <1>3, <1>4, <1>5

LEMMA TakeEntryInv ==
    ASSUME FruInv, TakeEntry
    PROVE  FruInv'
<1>1. /\ names' = names /\ fru_size \in 1..Len(names) /\ Len(names) \in Nat
      /\ Taken = (fru_size + 1)..Len(names)
      /\ Taken' = Taken \cup {fru_size}
      /\ \A i \in Taken : i > fru_size
      /\ fru_size - 1 \notin Taken'
      /\ \A i \in Taken' : names[i] \in DOMAIN Column \/ names[i] \in OtherNames
      /\ \A i, j \in Taken' : names[i] = names[j] => i = j
  BY TakenGrows
<1>2. /\ fru_size' = fru_size - 1
      /\ key' = IF Entry \in DOMAIN Column THEN Column[Entry] ELSE key
      /\ string_map' = [column \in DOMAIN string_map \cup {key'} |->
                           IF column = key' THEN Entry ELSE string_map[column]]
      /\ Entry = names[fru_size]
  BY DEF TakeEntry, Entry
<1>3. KeyKept /\ FruUnderItsName
  BY DEF FruInv
<1> DEFINE Right(i) == string_map[Column[names[i]]] = names[i]
           Alone(i) == i - 1 \in Taken => names[i - 1] \in DOMAIN Column
<1>4. \A i \in Taken : names[i] \in DOMAIN Column =>
          Column[names[i]] \in DOMAIN string_map /\ (Right(i) <=> Alone(i))
  BY <1>3 DEF FruUnderItsName
<1>5. DOMAIN string_map' = DOMAIN string_map \cup {key'}
      /\ string_map'[key'] = Entry
      /\ \A column \in DOMAIN string_map : column # key' => string_map'[column] = string_map[column]
  BY <1>2
<1>6. Last(names) = names[Len(names)] /\ Last(names)' = Last(names)
      /\ Len(names) \in Taken'
  BY <1>1 DEF Last
<1>7. CASE Entry \in DOMAIN Column
  <2>1. key' = Column[Entry] /\ key' # ""
    BY <1>2, <1>7, ColumnsDiffer
  <2>2. KeyKept'
    <3>1. \A j \in Taken' : ~(j < fru_size)
      BY <1>1
    <3>2. QED
      BY <1>1, <1>2, <1>7, <2>1, <3>1 DEF KeyKept
  <2>3. ASSUME NEW i \in Taken', names[i] \in DOMAIN Column
        PROVE  /\ Column[names[i]] \in DOMAIN string_map'
               /\ string_map'[Column[names[i]]] = names[i]
                     <=> (i - 1 \in Taken' => names[i - 1] \in DOMAIN Column)
    <3>1. CASE i = fru_size
      BY <1>1, <1>2, <1>5, <2>1, <3>1
    <3>2. CASE i # fru_size
      <4>1. i \in Taken /\ Column[names[i]] # key'
        BY <1>1, <1>2, <1>7, <2>1, <2>3, <3>2, ColumnsDiffer
      <4>2. Column[names[i]] \in DOMAIN string_map /\ (Right(i) <=> Alone(i))
        BY <1>4, <2>3, <4>1
      <4>3. string_map'[Column[names[i]]] = string_map[Column[names[i]]]
        BY <1>5, <4>1, <4>2
      <4>4. Alone(i) <=> (i - 1 \in Taken' => names[i - 1] \in DOMAIN Column)
        BY <1>1, <1>2, <1>7
      <4>5. QED
        BY <1>5, <4>2, <4>3, <4>4
    <3>3. QED
      BY <3>1, <3>2
  <2>4. "" \in DOMAIN string_map' <=> Taken' # {} /\ Last(names) \in OtherNames
    <3>1. "" \in DOMAIN string_map' <=> "" \in DOMAIN string_map
      BY <1>5, <2>1
    <3>2. Taken = {} => Last(names) \notin OtherNames
      BY <1>1, <1>2, <1>6, <1>7, ColumnsDiffer
    <3>3. QED
      BY <1>1, <1>3, <3>1, <3>2 DEF FruUnderItsName
  <2>5. FruUnderItsName'
    BY <1>1, <1>6, <2>3, <2>4 DEF FruUnderItsName
  <2>6. QED
    BY <1>1, <1>2, <2>2, <2>5 DEF FruInv
<1>8. CASE Entry \notin DOMAIN Column
  <2>1. key' = key /\ Entry \in OtherNames
    BY <1>1, <1>2, <1>8
  <2>2. KeyKept'
    <3>1. CASE key = "" /\ \A i \in Taken : names[i] \in OtherNames
      BY <1>1, <1>2, <2>1, <3>1 DEF KeyKept
    <3>2. CASE \E i \in Taken : /\ names[i] \in DOMAIN Column /\ key = Column[names[i]]
                                /\ \A j \in Taken : j < i => names[j] \in OtherNames
      BY <1>1, <1>2, <2>1, <3>2 DEF KeyKept
    <3>3. QED
      BY <1>3, <3>1, <3>2 DEF KeyKept
  <2>3. ASSUME NEW i \in Taken', names[i] \in DOMAIN Column
        PROVE  /\ Column[names[i]] \in DOMAIN string_map'
               /\ string_map'[Column[names[i]]] = names[i]
                     <=> (i - 1 \in Taken' => names[i - 1] \in DOMAIN Column)
    <3>1. i \in Taken /\ i # fru_size
      BY <1>1, <1>2, <1>8, <2>3
    <3>2. Column[names[i]] \in DOMAIN string_map /\ (Right(i) <=> Alone(i))
      BY <1>4, <2>3, <3>1
    <3>3. CASE Column[names[i]] = key
      <4>1. \A j \in Taken : j < i => names[j] \in OtherNames
        <5>1. PICK k \in Taken : /\ names[k] \in DOMAIN Column /\ key = Column[names[k]]
                                 /\ \A j \in Taken : j < k => names[j] \in OtherNames
          BY <1>3, <2>3, <3>3, ColumnsDiffer DEF KeyKept
        <5>2. names[k] = names[i] /\ k \in Taken'
          <6>1. k \in Taken'
            BY <1>1
          <6>2. Column[names[k]] = Column[names[i]]
            BY <3>3, <5>1
          <6>3. QED
            BY <2>3, <5>1, <6>1, <6>2, ColumnsDiffer
        <5>3. k = i
          BY <1>1, <5>2
        <5>4. QED
          BY <5>1, <5>3
      <4>2. i - 1 \in Taken' /\ names[i - 1] \in OtherNames
        BY <1>1, <1>2, <2>1, <3>1, <4>1
      <4>3. names[i - 1] \notin DOMAIN Column
        BY <4>2, ColumnsDiffer
      <4>4. string_map'[Column[names[i]]] = Entry /\ Entry # names[i]
        BY <1>5, <1>8, <2>1, <2>3, <3>3
      <4>5. QED
        BY <1>5, <3>2, <4>2, <4>3, <4>4
    <3>4. CASE Column[names[i]] # key
      <4>1. string_map'[Column[names[i]]] = string_map[Column[names[i]]]
        BY <1>5, <2>1, <3>2, <3>4
      <4>2. i - 1 \in Taken' <=> i - 1 \in Taken
        <5>1. SUFFICES i - 1 # fru_size \/ i - 1 \in Taken
          BY <1>1
        <5>2. names[i] \notin OtherNames
          BY <2>3, ColumnsDiffer
        <5>3. PICK k \in Taken : /\ key = Column[names[k]]
                                 /\ \A j \in Taken : j < k => names[j] \in OtherNames
          BY <1>3, <3>1, <5>2 DEF KeyKept
        <5>4. k # i /\ ~(i < k)
          BY <3>1, <3>4, <5>2, <5>3
        <5>5. QED
          BY <1>1, <3>1, <5>4
      <4>3. QED
        BY <1>5, <3>2, <4>1, <4>2
    <3>5. QED
      BY <3>3, <3>4
  <2>4. "" \in DOMAIN string_map' <=> Taken' # {} /\ Last(names) \in OtherNames
    <3>1. CASE key = ""
      <4>1. \A i \in Taken : names[i] \in OtherNames
        BY <1>3, <3>1, ColumnsDiffer DEF KeyKept
      <4>2. Last(names) \in OtherNames
        BY <1>1, <1>2, <1>6, <2>1, <4>1
      <4>3. QED
        BY <1>1, <1>5, <2>1, <3>1, <4>2
    <3>2. CASE key # ""
      <4>1. Taken # {}
        BY <1>3, <3>2 DEF KeyKept
      <4>2. "" \in DOMAIN string_map' <=> "" \in DOMAIN string_map
        BY <1>5, <2>1, <3>2
      <4>3. QED
        BY <1>1, <1>3, <4>1, <4>2 DEF FruUnderItsName
    <3>3. QED
      BY <3>1, <3>2
  <2>5. FruUnderItsName'
    BY <1>1, <1>6, <2>3, <2>4 DEF FruUnderItsName
  <2>6. QED
    BY <1>1, <1>2, <2>2, <2>5 DEF FruInv
<1>9. QED
  BY <1>7, <1>8

(* A value gets under the column of another name only from an entry right  *)
(* before one of the four, however many entries a message has.             *)
THEOREM FruColumns == FruSpec => []FruUnderItsName
<1>1. FruInv /\ [TakeEntry]_fruVars => FruInv'
  <2>1. ASSUME FruInv, UNCHANGED fruVars PROVE FruInv'
    BY <2>1 DEF FruInv, KeyKept, FruUnderItsName, Taken, fruVars
  <2>2. QED
    BY <2>1, TakeEntryInv
<1>2. FruInv => FruUnderItsName
  BY DEF FruInv
<1>3. QED
  BY FruInitInv, <1>1, <1>2, PTL DEF FruSpec
-----------------------------------------------------------------------------
(***************************************************************************)
(* The parameters of datapool.conf (module Config): any table, any widths of*)
(* the numbers, any files.                                                 *)
(***************************************************************************)

LEMMA Widths ==
    /\ Kibibyte \in Nat \ {0} /\ Size64 \in Nat \ {0} /\ SizeInt \in Nat \ {0}
    /\ SizeInt <= Size64
    /\ "" \notin DOMAIN Parameters
    /\ \A parameter \in DOMAIN Parameters : Parameters[parameter].int =>
          /\ Parameters[parameter].min \in Nat
          /\ Parameters[parameter].max \in Nat \ {0}
          /\ Parameters[parameter].max < SizeInt
<1>1. Kibibyte \in Nat \ {0} /\ Size64 \in Nat \ {0} /\ SizeInt \in 1..Size64
  BY ConfigAssumption
<1>2. SizeInt \in Nat \ {0} /\ SizeInt <= Size64
  BY <1>1
<1>3. "" \notin DOMAIN Parameters
  BY ConfigAssumption
<1>4. ASSUME NEW parameter \in DOMAIN Parameters, Parameters[parameter].int
      PROVE  /\ Parameters[parameter].min \in Nat
             /\ Parameters[parameter].max \in Nat \ {0}
             /\ Parameters[parameter].max < SizeInt
  <2>1. /\ Parameters[parameter].min \in Nat
        /\ Parameters[parameter].max \in 1..(SizeInt - 1)
    BY <1>4, ConfigAssumption
  <2>2. QED
    BY <1>2, <2>1
<1>5. QED
  BY <1>1, <1>2, <1>3, <1>4

LEMMA ProductGrows ==
    ASSUME NEW a \in Nat, NEW b \in Nat \ {0}
    PROVE  a * b \in Nat /\ a * b >= a
<1>1. PICK c \in Nat : b = c + 1
  <2>1. b - 1 \in Nat /\ b = (b - 1) + 1
    OBVIOUS
  <2>2. QED
    BY <2>1
<1>2. a * b = a * c + a /\ a * c \in Nat
  BY <1>1
<1>3. QED
  BY <1>2

LEMMA FactorsCount == \A u \in DOMAIN Factor : Factor[u] \in Nat \ {0}
<1> DEFINE square == Kibibyte * Kibibyte
           cube == Kibibyte * Kibibyte * Kibibyte
           fourth == Kibibyte * Kibibyte * Kibibyte * Kibibyte
<1>1. Factor = [none |-> 1, K |-> Kibibyte, M |-> square, G |-> cube, T |-> fourth]
  BY DEF Factor
<1>2. Kibibyte \in Nat \ {0}
  BY Widths
<1>3. square \in Nat \ {0}
  BY <1>2, ProductGrows
<1>4. cube \in Nat \ {0}
  <2>1. cube = square * Kibibyte
    OBVIOUS
  <2> HIDE DEF square, cube
  <2>2. QED
    BY <1>2, <1>3, <2>1, ProductGrows
<1>5. fourth \in Nat \ {0}
  <2>1. fourth = cube * Kibibyte
    OBVIOUS
  <2> HIDE DEF cube, fourth
  <2>2. QED
    BY <1>2, <1>4, <2>1, ProductGrows
<1> HIDE DEF square, cube, fourth
<1>6. QED
  BY <1>1, <1>2, <1>3, <1>4, <1>5

(* A number and its unit make a number; a file's text is that or nothing.  *)
LEMMA LineTypes ==
    ASSUME NEW f \in Files, NEW l \in DOMAIN f, f[l].text # Garbage
    PROVE  f[l].text.digits \in Nat /\ f[l].text \in Numbers /\ Meant(f[l]) \in Nat
<1>1. f[l].text \in Numbers
  BY ConfigAssumption
<1>2. f[l].text.digits \in Nat /\ Factor[f[l].text.unit] \in Nat \ {0}
  BY <1>1, FactorsCount DEF Numbers
<1>3. QED
  BY <1>1, <1>2, ProductGrows DEF Meant

LEMMA Remainder ==
    ASSUME NEW a \in Nat, NEW m \in Nat, a < m
    PROVE  a % m = a
OBVIOUS

(* A line that is accepted gives its parameter a number in range, and, if  *)
(* nothing overflows, the one it says; and then it is accepted just when   *)
(* it is right.                                                            *)
LEMMA LineMeaning ==
    ASSUME NEW f \in Files, NEW l \in DOMAIN f
    PROVE  /\ ~Overflows(f[l]) => (Fails(f[l]) <=> ~Valid(f[l]))
           /\ Fails(f[l]) => ~Valid(f[l])
           /\ ~Overflows(f[l]) /\ ~Fails(f[l]) =>
                 Assigned(f[l]) = IF IsInt(f[l]) THEN Meant(f[l]) ELSE f[l].text
           /\ ~Fails(f[l]) /\ IsInt(f[l]) => InRange(Assigned(f[l]), f[l].name)
<1> DEFINE line == f[l]
           p == Parameters[line.name]
<1>1. CASE ~IsInt(line)
  BY <1>1 DEF Fails, Valid, Assigned, Overflows
<1>2. CASE IsInt(line) /\ line.text = Garbage
  <2>1. line.text.digits = -1
    BY <1>2 DEF Garbage, Text
  <2>2. ~IsUint64(line.text)
    BY <2>1 DEF IsUint64
  <2>3. QED
    BY <1>2, <2>2 DEF Fails, Valid
<1>3. CASE IsInt(line) /\ line.text # Garbage
  <2>1. line.text.digits \in Nat /\ line.text \in Numbers /\ Meant(line) \in Nat
    BY <1>3, LineTypes
  <2>2. /\ p.min \in Nat /\ p.max \in Nat \ {0} /\ p.max < SizeInt
        /\ SizeInt \in Nat /\ Size64 \in Nat \ {0} /\ SizeInt <= Size64
    BY <1>3, Widths DEF IsInt
  <2>3. line # NoEquals
    <3>1. NoEquals.text = Garbage
      BY DEF NoEquals, Line
    <3>2. QED
      BY <1>3, <3>1
  <2> DEFINE meant == Meant(line)
             value == Converted(line.text)
             digits == line.text.digits
             int == IsUint64(line.text)
  <2>4. value = meant % Size64
    BY DEF Converted, Meant
  <2>5. Fails(line) <=> ~(int /\ InRange(value, line.name))
    BY <1>3, <2>3 DEF Fails
  <2>6. Valid(line) <=> InRange(meant, line.name)
    BY <1>3 DEF Valid
  <2>7. Overflows(line) <=> int /\ meant >= Size64
    BY <1>3 DEF Overflows
  <2>8. int <=> digits \in 0..(Size64 - 1)
    BY DEF IsUint64
  <2>9. ~int => meant >= Size64
    <3>1. Factor[line.text.unit] \in Nat \ {0}
      BY <2>1, FactorsCount DEF Numbers
    <3>2. digits <= meant
      BY <2>1, <3>1, ProductGrows DEF Meant
    <3>3. QED
      BY <2>1, <2>2, <2>8, <3>2
  <2>10. \A v \in Nat : InRange(v, line.name) => v <= p.max
    BY <2>2 DEF InRange
  <2>11. Assigned(line) = value % SizeInt
    BY <1>3 DEF Assigned
  <2> HIDE DEF meant, value, digits, int
  <2>12. value \in Nat /\ (meant < Size64 => value = meant)
    BY <2>1, <2>2, <2>4 DEF meant
  <2>13. ~Fails(line) => Assigned(line) = value
    <3>1. SUFFICES ASSUME ~Fails(line) PROVE value % SizeInt = value
      BY <2>11
    <3>2. value < SizeInt
      BY <2>2, <2>5, <2>10, <2>12, <3>1
    <3>3. QED
      BY <2>2, <2>12, <3>2, Remainder
  <2>14. meant >= Size64 => ~Valid(line)
    BY <2>1, <2>2, <2>6, <2>10 DEF meant
  <2>15. ASSUME ~Overflows(line)
         PROVE  (Fails(line) <=> ~Valid(line)) /\ (~Fails(line) => value = meant)
    BY <2>1, <2>2, <2>5, <2>6, <2>7, <2>9, <2>12, <2>14, <2>15 DEF meant
  <2>16. Fails(line) => ~Valid(line)
    BY <2>7, <2>14, <2>15
  <2>17. QED
    BY <1>3, <2>5, <2>13, <2>15, <2>16 DEF meant
<1>4. QED
  BY <1>1, <1>2, <1>3

LEMMA FileTypes ==
    ASSUME NEW f \in Files
    PROVE  Len(f) \in Nat /\ DOMAIN f = 1..Len(f)
<1>1. f \in Seq(Range(f))
  BY ConfigAssumption
<1>2. QED
  BY <1>1

LEMMA ConfigInitInv == ConfigInit => ConfigInv
<1> SUFFICES ASSUME ConfigInit PROVE ConfigInv
  OBVIOUS
<1>1. PICK f \in Files : ConfigStart(f)
  BY DEF ConfigInit
<1>2. /\ file \in Files /\ lineno = 1 /\ ~failed /\ settings = Defaults
      /\ Len(file) \in Nat /\ LinesRead = {}
  BY <1>1, FileTypes DEF ConfigStart, LinesRead
<1>3. \A parameter : Told(parameter) = Defaults[parameter]
  BY <1>2 DEF Told, Naming, Obeyed
<1>4. \A parameter \in DOMAIN Parameters : Bounded(parameter)
  BY <1>2 DEF Bounded
<1>5. SettingsAsTold
  BY <1>2, <1>3 DEF SettingsAsTold
<1>6. QED
  BY <1>2, <1>4, <1>5 DEF ConfigInv

(* What a line that was accepted assigns stays within its parameter's      *)
(* range.                                                                  *)
LEMMA ParseLineBounded ==
    ASSUME ConfigInv, ParseLine, NEW parameter \in DOMAIN Parameters
    PROVE  Bounded(parameter)'
<1>1. /\ file \in Files /\ lineno \in DOMAIN file /\ Bounded(parameter)
  <2>1. file \in Files /\ lineno \in 1..(Len(file) + 1) /\ lineno <= Len(file)
        /\ Bounded(parameter)
    BY DEF ConfigInv, ParseLine
  <2>2. QED
    BY <2>1, FileTypes
<1>2. CASE UNCHANGED settings
  BY <1>1, <1>2 DEF Bounded
<1>3. CASE /\ ~Fails(file[lineno])
           /\ settings' = [p \in DOMAIN Parameters |->
                              IF p = file[lineno].name THEN Assigned(file[lineno])
                              ELSE settings[p]]
  <2>1. CASE parameter = file[lineno].name /\ Parameters[parameter].int
    <3>1. InRange(Assigned(file[lineno]), parameter)
      BY <1>1, <1>3, <2>1, LineMeaning DEF IsInt
    <3>2. settings'[parameter] = Assigned(file[lineno])
      BY <1>3, <2>1
    <3>3. InRange(settings[parameter], parameter)'
      BY <3>1, <3>2 DEF InRange
    <3>4. QED
      BY <3>3 DEF Bounded
  <2>2. CASE ~Parameters[parameter].int
    BY <2>2 DEF Bounded
  <2>3. CASE parameter # file[lineno].name
    <3>1. settings'[parameter] = settings[parameter]
      BY <1>3, <2>3
    <3>2. QED
      BY <1>1, <3>1 DEF Bounded, InRange
  <2>4. QED
    BY <2>1, <2>2, <2>3
<1>4. QED
  BY <1>2, <1>3 DEF ParseLine

(* As long as nothing overflows, what is told is what is assigned.         *)
LEMMA ParseLineTold ==
    ASSUME ConfigInv, ParseLine, \A l \in LinesRead' : ~Overflows(file[l]),
           NEW parameter \in DOMAIN Parameters
    PROVE  settings'[parameter] = Told(parameter)'
<1> DEFINE line == file[lineno]
<1>1. /\ file \in Files /\ lineno \in Nat \ {0} /\ lineno \in DOMAIN file
      /\ file' = file /\ lineno' = lineno + 1
  <2>1. file \in Files /\ lineno \in 1..(Len(file) + 1) /\ lineno <= Len(file)
        /\ file' = file /\ lineno' = lineno + 1
    BY DEF ConfigInv, ParseLine
  <2>2. Len(file) \in Nat /\ DOMAIN file = 1..Len(file)
    BY <2>1, FileTypes
  <2>3. QED
    BY <2>1, <2>2
<1>2. /\ LinesRead = 1..(lineno - 1) /\ LinesRead' = 1..lineno
      /\ \A l \in LinesRead' : l \in DOMAIN file
  <2>1. LinesRead' = 1..lineno
    BY <1>1 DEF LinesRead
  <2>2. Len(file) \in Nat /\ DOMAIN file = 1..Len(file)
    BY <1>1, FileTypes
  <2>3. QED
    BY <1>1, <2>1, <2>2 DEF LinesRead
<1>3. \A l \in LinesRead' : ~Fails(file[l]) <=> Valid(file[l])
  BY <1>1, <1>2, LineMeaning
<1>4. \A l \in LinesRead : Valid(file[l])
  <2>1. ~failed /\ \A l \in LinesRead : ~Fails(file[l])
    BY DEF ConfigInv, ParseLine
  <2>2. QED
    BY <1>1, <1>2, <1>3, <2>1
<1>5. settings[parameter] = Told(parameter)
  <2>1. \A l \in LinesRead : ~Overflows(file[l])
    BY <1>1, <1>2
  <2>2. QED
    BY <2>1 DEF ConfigInv, SettingsAsTold
<1>6. Obeyed = LinesRead
  BY <1>1, <1>2, <1>4 DEF Obeyed
<1>7. CASE Fails(line)
  <2>1. Obeyed' = Obeyed
    <3>1. ~Valid(line)
      BY <1>1, <1>2, <1>3, <1>7
    <3>2. Obeyed' = {l \in 1..lineno : \A k \in 1..l : Valid(file[k])}
      BY <1>1, <1>2 DEF Obeyed
    <3>3. QED
      BY <1>1, <1>2, <1>4, <1>6, <3>1, <3>2
  <2>2. Naming(parameter)' = Naming(parameter)
    BY <1>1, <2>1 DEF Naming
  <2>3. Told(parameter)' = Told(parameter)
    BY <1>1, <2>2 DEF Told
  <2>4. UNCHANGED settings
    BY <1>7 DEF ParseLine
  <2>5. QED
    BY <1>5, <2>3, <2>4
<1>8. CASE ~Fails(line)
  <2>1. settings' = [p \in DOMAIN Parameters |->
                       IF p = line.name THEN Assigned(line) ELSE settings[p]]
    BY <1>8 DEF ParseLine
  <2>2. Obeyed' = Obeyed \cup {lineno}
    <3>1. Valid(line)
      BY <1>1, <1>2, <1>3, <1>8
    <3>2. Obeyed' = {l \in 1..lineno : \A k \in 1..l : Valid(file[k])}
      BY <1>1, <1>2 DEF Obeyed
    <3>3. QED
      BY <1>1, <1>2, <1>4, <1>6, <3>1, <3>2
  <2>3. CASE line.name = parameter
    <3>1. Naming(parameter)' = Naming(parameter) \cup {lineno}
      BY <1>1, <2>2, <2>3 DEF Naming
    <3>2. \A k \in Naming(parameter)' : k <= lineno /\ k \in Nat
      BY <1>1, <1>2, <1>6, <3>1 DEF Naming
    <3>3. LastOf(Naming(parameter)') = lineno
      BY <1>1, <3>1, <3>2 DEF LastOf
    <3>4. Told(parameter)' = IF Parameters[parameter].int THEN Meant(line) ELSE line.text
      <4>1. Told(parameter)' = IF Naming(parameter)' = {} THEN Defaults[parameter]
                               ELSE IF Parameters[parameter].int
                                    THEN Meant(file[LastOf(Naming(parameter)')])
                                    ELSE file[LastOf(Naming(parameter)')].text
        BY <1>1 DEF Told
      <4>2. QED
        BY <3>1, <3>3, <4>1
    <3>5. Assigned(line) = IF IsInt(line) THEN Meant(line) ELSE line.text
      BY <1>1, <1>2, <1>8, LineMeaning
    <3>6. QED
      BY <2>1, <2>3, <3>4, <3>5 DEF IsInt
  <2>4. CASE line.name # parameter
    <3>1. Naming(parameter)' = Naming(parameter)
      BY <1>1, <2>2, <2>4 DEF Naming
    <3>2. Told(parameter)' = Told(parameter)
      BY <1>1, <3>1 DEF Told
    <3>3. QED
      BY <1>5, <2>1, <2>4, <3>2
  <2>5. QED
    BY <2>3, <2>4
<1>9. QED
  BY <1>7, <1>8

LEMMA ParseLineInv ==
    ASSUME ConfigInv, ParseLine
    PROVE  ConfigInv'
<1>1. /\ file \in Files /\ lineno \in Nat \ {0} /\ lineno <= Len(file)
      /\ Len(file) \in Nat /\ file' = file /\ lineno' = lineno + 1
      /\ ~failed /\ \A l \in LinesRead : ~Fails(file[l])
  <2>1. file \in Files /\ lineno \in 1..(Len(file) + 1) /\ lineno <= Len(file)
        /\ file' = file /\ lineno' = lineno + 1
        /\ ~failed /\ \A l \in LinesRead : ~Fails(file[l])
    BY DEF ConfigInv, ParseLine
  <2>2. QED
    BY <2>1, FileTypes
<1>2. LinesRead' = LinesRead \cup {lineno}
  BY <1>1 DEF LinesRead
<1>3. \A l \in LinesRead' : Fails(file[l]) => failed' /\ l = lineno
  BY <1>1, <1>2 DEF ParseLine
<1>4. \A parameter \in DOMAIN Parameters : Bounded(parameter)'
  BY ParseLineBounded
<1>5. failed' => ~Valid(file[lineno])
  <2>1. lineno \in DOMAIN file
    BY <1>1, FileTypes
  <2>2. QED
    BY <1>1, <2>1, LineMeaning DEF ParseLine
<1>6. SettingsAsTold'
  <2>1. CASE \A l \in LinesRead' : ~Overflows(file[l])
    BY <1>1, <1>5, <2>1, ParseLineTold DEF SettingsAsTold
  <2>2. CASE \E l \in LinesRead' : Overflows(file[l])
    BY <1>1, <1>4, <1>5, <2>2 DEF SettingsAsTold
  <2>3. QED
    BY <2>1, <2>2
<1>7. QED
  BY <1>1, <1>3, <1>4, <1>6 DEF ConfigInv

(* Every parameter ends with what the file says of it, whatever the widths,*)
(* the table and the file.                                                 *)
THEOREM ConfigAsTold == ConfigSpec => []SettingsAsTold
<1>1. ConfigInv /\ [ParseLine]_configVars => ConfigInv'
  <2>1. ASSUME ConfigInv, UNCHANGED configVars PROVE ConfigInv'
    <3>1. file' = file /\ lineno' = lineno /\ failed' = failed /\ settings' = settings
      BY <2>1 DEF configVars
    <3>2. LinesRead' = LinesRead /\ \A parameter : Bounded(parameter)' <=> Bounded(parameter)
      BY <3>1 DEF LinesRead, Bounded
    <3>3. SettingsAsTold'
      <4>1. SettingsAsTold
        BY <2>1 DEF ConfigInv
      <4>2. \A parameter : Told(parameter)' = Told(parameter)
        BY <3>1 DEF LinesRead, Told, Naming, Obeyed
      <4>3. CASE \A l \in LinesRead : ~Overflows(file[l])
        BY <3>1, <3>2, <4>1, <4>2, <4>3 DEF SettingsAsTold
      <4>4. CASE \E l \in LinesRead : Overflows(file[l])
        <5>1. \A parameter \in DOMAIN Parameters : Bounded(parameter)'
          BY <2>1, <3>2 DEF ConfigInv
        <5>2. QED
          BY <3>1, <3>2, <4>1, <4>4, <5>1 DEF SettingsAsTold
      <4>5. QED
        BY <4>3, <4>4
    <3>4. QED
      BY <2>1, <3>1, <3>2, <3>3 DEF ConfigInv
  <2>2. QED
    BY <2>1, ParseLineInv
<1>2. ConfigInv => SettingsAsTold
  BY DEF ConfigInv
<1>3. QED
  BY ConfigInitInv, <1>1, <1>2, PTL DEF ConfigSpec
-----------------------------------------------------------------------------
(***************************************************************************)
(* The reports about SSDs (module SsdReport): any number of disks, in any  *)
(* state.                                                                  *)
(***************************************************************************)

LEMMA ReportTypes ==
    ASSUME NEW r \in Reports
    PROVE  /\ Len(r) \in Nat /\ DOMAIN r = 1..Len(r)
           /\ \A l \in 1..Len(r) : Len(r[l]) \in Nat /\ DOMAIN r[l] = 1..Len(r[l])
           /\ \A l \in 1..(Len(r) - 1) : MayFollow(r[l], r[l + 1])
           /\ Len(r) > 0 => IsDiskName(r[1])
<1>1. IsReport(r)
  BY SsdAssumption
<1>2. r \in Seq(Range(r)) /\ \A l \in DOMAIN r : r[l] \in Seq(Range(r[l]))
  BY <1>1 DEF IsReport
<1>3. Len(r) \in Nat /\ DOMAIN r = 1..Len(r)
  BY <1>2
<1>4. \A l \in 1..Len(r) : Len(r[l]) \in Nat /\ DOMAIN r[l] = 1..Len(r[l])
  BY <1>2, <1>3
<1>5. Len(r) > 0 => r # <<>>
  OBVIOUS
<1>6. QED
  BY <1>1, <1>3, <1>4, <1>5 DEF IsReport

(* The words that are not plain are different, and a header is ten words.  *)
LEMMA Marked ==
    /\ ~Plain("smartctl") /\ ~Plain("Thresholds:") /\ ~Plain("ID") /\ ~Plain("Unknown_Attribute")
    /\ "smartctl" # "Thresholds:" /\ "smartctl" # "Unknown_Attribute"
    /\ "Thresholds:" # "Unknown_Attribute" /\ "ID" # "Unknown_Attribute"
    /\ "smartctl" # "ID" /\ "Thresholds:" # "ID"
BY DEF Plain

LEMMA HeaderWords ==
    ASSUME NEW words, IsHeader(words)
    PROVE  /\ Len(words) = 10 /\ words[1] = "ID"
           /\ \A p \in 1..10 : words[p] # "smartctl" /\ words[p] # "Thresholds:"
           /\ \A p \in 1..10 : words[p] = Columns10[p]
<1>1. Len(Columns10) = 10 /\ Columns10[1] = "ID"
  BY DEF Columns10
<1>2. \A p \in 1..10 : Columns10[p] # "smartctl" /\ Columns10[p] # "Thresholds:"
  BY DEF Columns10
<1>3. QED
  BY <1>1, <1>2 DEF IsHeader

(* A line is of one kind.                                                  *)
LEMMA KindsDiffer ==
    ASSUME NEW words, Len(words) \in Nat
    PROVE  /\ IsDiskName(words) => ~IsOpening(words) /\ ~IsTitle(words) /\ ~IsHeader(words)
                                   /\ ~IsAttribute(words)
           /\ IsOpening(words) => ~IsTitle(words) /\ ~IsHeader(words) /\ ~IsAttribute(words)
           /\ IsTitle(words) => ~IsHeader(words) /\ ~IsAttribute(words)
           /\ IsHeader(words) => ~IsAttribute(words)
<1>1. IsDiskName(words) => Len(words) = 1 /\ words[1] # "smartctl"
  BY Marked DEF IsDiskName
<1>2. IsOpening(words) => Len(words) > 1 /\ words[1] = "smartctl"
                          /\ \A p \in 2..Len(words) : Plain(words[p])
  BY DEF IsOpening
<1>3. IsTitle(words) => Len(words) > 1 /\ words[Len(words)] = "Thresholds:"
  BY DEF IsTitle
<1>4. IsAttribute(words) => /\ Len(words) \in 10..19
                            /\ \A p \in 1..Len(words) :
                                  Plain(words[p]) \/ (p = 2 /\ words[2] = "Unknown_Attribute")
  BY DEF IsAttribute
<1>5. IsHeader(words) => Len(words) = 10 /\ words[1] = "ID" /\ words[10] # "Thresholds:"
  BY HeaderWords
<1>6. IsOpening(words) => ~IsTitle(words) /\ ~IsHeader(words) /\ ~IsAttribute(words)
  BY <1>2, <1>3, <1>4, <1>5, Marked
<1>7. IsTitle(words) => ~IsHeader(words) /\ ~IsAttribute(words)
  <2>1. IsTitle(words) => ~IsHeader(words)
    BY <1>3, <1>5
  <2>2. \A k \in 10..19 : k \in 1..k /\ k # 2
    OBVIOUS
  <2>3. IsAttribute(words) => Plain(words[Len(words)])
    BY <1>4, <2>2
  <2>4. QED
    BY <1>3, <2>1, <2>3, Marked
<1>8. IsHeader(words) => ~IsAttribute(words)
  BY <1>4, <1>5, Marked
<1>9. ASSUME IsDiskName(words)
      PROVE  ~IsOpening(words) /\ ~IsTitle(words) /\ ~IsHeader(words) /\ ~IsAttribute(words)
  <2>1. Len(words) = 1
    BY <1>1, <1>9
  <2>2. QED
    BY <1>2, <1>3, <1>4, <1>5, <2>1
<1>10. QED
  BY <1>6, <1>7, <1>8, <1>9

LEMMA Appended ==
    ASSUME NEW s, s \in Seq(Range(s)), NEW x
    PROVE  /\ Append(s, x) \in Seq(Range(Append(s, x)))
           /\ Len(s) \in Nat /\ Len(Append(s, x)) = Len(s) + 1
           /\ \A i \in 1..Len(s) : Append(s, x)[i] = s[i]
           /\ Append(s, x)[Len(s) + 1] = x
<1>1. s \in Seq(Range(s) \cup {x})
  BY DEF Range
<1>2. /\ Append(s, x) \in Seq(Range(s) \cup {x})
      /\ Len(s) \in Nat /\ Len(Append(s, x)) = Len(s) + 1
      /\ \A i \in 1..Len(s) : Append(s, x)[i] = s[i]
      /\ Append(s, x)[Len(s) + 1] = x
  BY <1>1
<1>3. QED
  BY <1>2 DEF Range
-----------------------------------------------------------------------------
(* Where the reading is.                                                   *)
LEMMA Here ==
    ASSUME SsdInv, at_line <= Len(report)
    PROVE  /\ report \in Reports /\ Len(report) \in Nat /\ at_line \in 1..Len(report)
           /\ Len(report[at_line]) \in Nat /\ at_place \in 1..Len(report[at_line])
           /\ Len(row_data) \in Nat /\ Len(rows) \in Nat
           /\ ReadingRight /\ SsdRowsRight
           /\ at_line < Len(report) => MayFollow(report[at_line], report[at_line + 1])
           /\ at_line > 1 => MayFollow(report[at_line - 1], report[at_line])
           /\ at_line = 1 => IsDiskName(report[1])
<1>1. report \in Reports /\ at_line \in 1..(Len(report) + 1) /\ ReadingRight /\ SsdRowsRight
      /\ row_data \in Seq(Range(row_data)) /\ rows \in Seq(Range(rows))
  BY DEF SsdInv
<1>2. Len(report) \in Nat /\ at_line \in 1..Len(report)
  BY <1>1, ReportTypes
<1>3. Len(report[at_line]) \in Nat /\ at_place \in 1..Len(report[at_line])
  BY <1>1, <1>2, ReportTypes DEF ReadingRight
<1>4. at_line < Len(report) => MayFollow(report[at_line], report[at_line + 1])
  BY <1>1, <1>2, ReportTypes
<1>5. at_line > 1 => MayFollow(report[at_line - 1], report[at_line])
  <2>1. at_line > 1 => at_line - 1 \in 1..(Len(report) - 1) /\ (at_line - 1) + 1 = at_line
    BY <1>2
  <2>2. QED
    BY <1>1, <2>1, ReportTypes
<1>6. at_line = 1 => IsDiskName(report[1])
  BY <1>1, <1>2, ReportTypes
<1>7. QED
  BY <1>1, <1>2, <1>3, <1>4, <1>5, <1>6

LEMMA SomeKind ==
    ASSUME SsdInv, at_line <= Len(report)
    PROVE  LET words == report[at_line]
           IN  IsDiskName(words) \/ IsOpening(words) \/ IsTitle(words) \/ IsHeader(words)
                  \/ IsAttribute(words)
<1>1. at_line = 1 \/ at_line > 1
  BY Here
<1>2. QED
  BY <1>1, Here DEF MayFollow

LEMMA LongLines ==
    ASSUME NEW words, Len(words) \in Nat,
           IsOpening(words) \/ IsTitle(words) \/ IsHeader(words) \/ IsAttribute(words)
    PROVE  Len(words) > 1
<1>1. IsHeader(words) => Len(words) = 10
  BY HeaderWords
<1>2. QED
  BY <1>1 DEF IsOpening, IsTitle, IsAttribute

(* Whose data a line is.                                                   *)
LEMMA NineWords == \A k, m : k \in Nat /\ m = k + 1 /\ m = 10 => k = 9
OBVIOUS

LEMMA AttributeLength ==
    \A k \in 10..19 : /\ \A p \in Nat : p < 10 => p < k
                      /\ k # 10 => 10 < k /\ 11 \in 1..k
                      /\ k \in Nat /\ 1 \in 1..k
OBVIOUS

LEMMA MoreThanOne == \A k \in Nat : k > 1 => k # 1
OBVIOUS

LEMMA DiskStays ==
    ASSUME NEW r, NEW l \in Nat, l >= 1, Len(r[l + 1]) \in Nat, Len(r[l + 1]) > 1
    PROVE  DiskOf(r, l + 1) = DiskOf(r, l)
<1>1. Heads(r, l + 1) = Heads(r, l)
  <2>1. \A h \in 1..(l + 1) : h = l + 1 \/ h \in 1..l
    OBVIOUS
  <2>2. ~(Len(r[l + 1]) = 1)
    BY MoreThanOne
  <2>3. l + 1 \notin Heads(r, l + 1)
    BY <2>2 DEF Heads
  <2>4. \A h \in 1..l : (\A k \in (h + 1)..(l + 1) : Len(r[k]) > 1)
                         <=> (\A k \in (h + 1)..l : Len(r[k]) > 1)
    OBVIOUS
  <2>5. QED
    BY <2>1, <2>3, <2>4 DEF Heads
<1>2. QED
  BY <1>1 DEF DiskOf

LEMMA DiskBegins ==
    ASSUME NEW r, NEW l \in Nat, l >= 1, Len(r[l]) = 1,
           Len(r[l + 1]) \in Nat, Len(r[l + 1]) > 1
    PROVE  DiskOf(r, l + 1) = r[l][1]
<1>1. Heads(r, l + 1) = {l}
  <2>1. l \in Heads(r, l + 1)
    BY DEF Heads
  <2>2. ASSUME NEW h \in Heads(r, l + 1) PROVE h = l
    <3>1. h \in 1..(l + 1) /\ Len(r[h]) = 1
          /\ \A k \in (h + 1)..(l + 1) : Len(r[k]) > 1
      BY DEF Heads
    <3>2. h # l + 1
      BY <3>1, MoreThanOne
    <3>3. h < l => l \in (h + 1)..(l + 1)
      BY <3>1
    <3>4. ~(1 > 1)
      OBVIOUS
    <3>5. ~(h < l)
      BY <3>1, <3>3, <3>4
    <3>6. QED
      BY <3>1, <3>2, <3>5
  <2>3. QED
    BY <2>1, <2>2
<1>2. QED
  BY <1>1 DEF DiskOf
-----------------------------------------------------------------------------
(* Where the reading goes.                                                 *)
LEMMA Onward ==
    ASSUME SsdInv, at_line <= Len(report), report' = report, NextWord \/ NextLine
    PROVE  /\ at_line' \in 1..(Len(report) + 1)
           /\ \/ at_line' = at_line /\ at_place' = at_place + 1
                 /\ at_place < Len(report[at_line]) /\ ~NextLine
              \/ at_line' = at_line + 1 /\ at_place' = 1
                 /\ (NextWord => at_place = Len(report[at_line]))
           /\ at_line' <= Len(report) =>
                 /\ Len(report'[at_line']) \in Nat /\ at_place' \in 1..Len(report'[at_line'])
<1>1. /\ report \in Reports /\ Len(report) \in Nat /\ at_line \in 1..Len(report)
      /\ Len(report[at_line]) \in Nat /\ at_place \in 1..Len(report[at_line])
  BY Here
<1>2. \/ at_line' = at_line /\ at_place' = at_place + 1
         /\ at_place < Len(report[at_line]) /\ ~NextLine
      \/ at_line' = at_line + 1 /\ at_place' = 1
         /\ (NextWord => at_place = Len(report[at_line]))
  BY <1>1 DEF NextWord, NextLine
<1>3. at_line' \in 1..(Len(report) + 1)
  BY <1>1, <1>2
<1>4. ASSUME at_line' = at_line + 1, at_place' = 1, at_line' <= Len(report)
      PROVE  Len(report[at_line + 1]) \in Nat /\ 1 \in 1..Len(report[at_line + 1])
  <2>1. Len(report[at_line + 1]) \in Nat /\ MayFollow(report[at_line], report[at_line + 1])
    BY <1>1, <1>4, Here, ReportTypes
  <2>2. \/ Len(report[at_line + 1]) = 1
        \/ Len(report[at_line + 1]) > 1
    BY <2>1, LongLines DEF MayFollow, IsDiskName
  <2>3. QED
    BY <2>1, <2>2
<1>5. QED
  BY <1>1, <1>2, <1>3, <1>4

LEMMA RightThere ==
    ASSUME Len(report'[at_line']) \in Nat, at_place' \in 1..Len(report'[at_line']),
           \/ IsDiskName(report'[at_line']) /\ (insert_flag' => row_data' = <<>> \/ Spoiled')
           \/ /\ IsOpening(report'[at_line'])
              /\ IF at_place' = 1 THEN cur' = report'[at_line' - 1][1] ELSE Outside'
           \/ IsTitle(report'[at_line']) /\ Outside'
           \/ /\ IsHeader(report'[at_line'])
              /\ insert_flag' /\ ssd' = DiskOf(report, at_line)' /\ InStep'
           \/ /\ IsAttribute(report'[at_line'])
              /\ insert_flag' /\ ssd' = DiskOf(report, at_line)' /\ (InStep' \/ InRest' \/ Spoiled')
    PROVE  ReadingRight'
BY KindsDiffer DEF ReadingRight

-----------------------------------------------------------------------------
(* The rows when nothing is stored, and when a row is.                     *)
LEMMA NotStored ==
    ASSUME SsdInv, at_line <= Len(report), UNCHANGED <<report, rows>>, ~unsupported',
           \/ at_line' = at_line
           \/ at_line' = at_line + 1 /\ (IsKnown(report[at_line]) => AfterUnknown(report, at_line))
    PROVE  SsdRowsRight'
<1>1. SsdRowsRight /\ at_line \in Nat
  BY Here
<1>2. \A l \in 1..(at_line' - 1) :
         IsKnown(report[l]) /\ ~AfterUnknown(report, l) =>
            \E i \in 1..Len(rows) : IsLine(rows[i], l) /\ rows[i].ssd = DiskOf(report, l)
  <2>1. \A l \in 1..(at_line' - 1) : l \in 1..(at_line - 1) \/ (l = at_line /\ at_line' # at_line)
    BY <1>1
  <2>2. QED
    BY <1>1, <2>1 DEF SsdRowsRight
<1>3. QED
  BY <1>1, <1>2 DEF SsdRowsRight, IsLine

LEMMA Stored ==
    ASSUME SsdInv, at_line <= Len(report), report' = report, ~unsupported',
           at_line' = at_line + 1,
           NEW new, rows' = Append(rows, new), new.words[10].line = at_line,
           \/ IsKnown(report[at_line]) /\ IsLine(new, at_line) /\ new.ssd = DiskOf(report, at_line)
           \/ AfterUnknown(report, at_line)
    PROVE  SsdRowsRight'
<1>1. SsdRowsRight /\ at_line \in Nat /\ rows \in Seq(Range(rows))
  BY Here DEF SsdInv
<1>2. /\ Len(rows) \in Nat /\ Len(rows') = Len(rows) + 1
      /\ \A i \in 1..Len(rows) : rows'[i] = rows[i]
      /\ rows'[Len(rows) + 1] = new
  BY <1>1, Appended
<1>3. ASSUME NEW l \in 1..(at_line' - 1), IsKnown(report[l]), ~AfterUnknown(report, l)
      PROVE  \E i \in 1..Len(rows') : IsLine(rows'[i], l) /\ rows'[i].ssd = DiskOf(report, l)
  <2>1. CASE l = at_line
    BY <1>2, <1>3, <2>1
  <2>2. CASE l # at_line
    <3>1. l \in 1..(at_line - 1)
      BY <1>1, <2>2
    <3>2. PICK i \in 1..Len(rows) : IsLine(rows[i], l) /\ rows[i].ssd = DiskOf(report, l)
      BY <1>1, <1>3, <3>1 DEF SsdRowsRight
    <3>3. i \in 1..Len(rows') /\ rows'[i] = rows[i]
      BY <1>2
    <3>4. QED
      BY <3>2, <3>3
  <2>3. QED
    BY <2>1, <2>2
<1>4. ASSUME NEW i \in 1..Len(rows')
      PROVE  LET l == rows'[i].words[10].line
             IN  (IsKnown(report[l]) /\ IsLine(rows'[i], l)) \/ AfterUnknown(report, l)
  <2>1. CASE i = Len(rows) + 1
    BY <1>2, <2>1
  <2>2. CASE i # Len(rows) + 1
    <3>1. i \in 1..Len(rows) /\ rows'[i] = rows[i]
      BY <1>2, <2>2
    <3>2. QED
      BY <1>1, <3>1 DEF SsdRowsRight
  <2>3. QED
    BY <2>1, <2>2
<1>5. QED
  BY <1>3, <1>4 DEF SsdRowsRight, IsLine
-----------------------------------------------------------------------------
(* The line that follows another.                                          *)
LEMMA NextKind ==
    ASSUME SsdInv, at_line <= Len(report), at_line + 1 <= Len(report)
    PROVE  LET words == report[at_line]
               next == report[at_line + 1]
           IN  /\ Len(words) \in Nat /\ Len(next) \in Nat
               /\ IsDiskName(words) => IsOpening(next)
               /\ IsOpening(words) => IsTitle(next)
               /\ IsTitle(words) => IsHeader(next)
               /\ IsHeader(words) \/ IsAttribute(words) => IsAttribute(next) \/ IsDiskName(next)
<1>1. /\ Len(report[at_line]) \in Nat /\ Len(report[at_line + 1]) \in Nat
      /\ MayFollow(report[at_line], report[at_line + 1])
  BY Here, ReportTypes
<1>2. QED
  BY <1>1, KindsDiffer DEF MayFollow

LEMMA SameDiskOnNextLine ==
    ASSUME SsdInv, at_line <= Len(report), at_line + 1 <= Len(report),
           \/ IsTitle(report[at_line + 1]) \/ IsHeader(report[at_line + 1])
           \/ IsAttribute(report[at_line + 1])
    PROVE  DiskOf(report, at_line + 1) = DiskOf(report, at_line)
<1>1. Len(report[at_line + 1]) \in Nat /\ Len(report[at_line + 1]) > 1
  BY NextKind, LongLines
<1>2. at_line \in Nat /\ at_line >= 1
  BY Here
<1>3. QED
  BY <1>1, <1>2, DiskStays

LEMMA TableGoesOn ==
    ASSUME SsdInv, at_line <= Len(report), report' = report, NextLine,
           IsHeader(report[at_line]) \/ IsAttribute(report[at_line]),
           insert_flag', ssd' = DiskOf(report, at_line), row_data' = <<>> \/ Spoiled',
           at_line' <= Len(report)
    PROVE  ReadingRight'
<1>1. at_line' = at_line + 1 /\ at_place' = 1
  BY DEF NextLine
<1>2. Len(report'[at_line']) \in Nat /\ at_place' \in 1..Len(report'[at_line'])
  BY Onward
<1>3. IsAttribute(report'[at_line']) \/ IsDiskName(report'[at_line'])
  BY <1>1, NextKind
<1>4. IsAttribute(report'[at_line']) => ssd' = DiskOf(report, at_line)'
  BY <1>1, SameDiskOnNextLine
<1>5. row_data' = <<>> => InStep'
  BY <1>1 DEF InStep
<1>6. QED
  BY <1>2, <1>3, <1>4, <1>5, RightThere
-----------------------------------------------------------------------------
(* What every turn of the loop does.                                       *)
LEMMA Longer ==
    ASSUME SsdInv, insert_flag
    PROVE  /\ Len(row_data) \in Nat /\ Len(Extended) = Len(row_data) + 1
           /\ \A i \in 1..Len(row_data) : Extended[i] = row_data[i]
           /\ Extended[Len(row_data) + 1] = Word(NextText, at_line, at_place)
<1>1. row_data \in Seq(Range(row_data)) /\ Extended = Append(row_data, Word(NextText, at_line, at_place))
  BY DEF SsdInv, Extended
<1>2. QED
  BY <1>1, Appended

LEMMA Turn ==
    ASSUME SsdInv, ReadWord
    PROVE  /\ at_line <= Len(report) /\ ~unsupported /\ report' = report /\ cur' = NextText
           /\ OpenDisk \/ PassWord \/ EndRow
           /\ NextWord \/ NextLine
           /\ at_line \in Nat /\ Len(report) \in Nat
           /\ Len(report[at_line]) \in Nat /\ at_place \in 1..Len(report[at_line])
           /\ NextText = report[at_line][at_place]
<1>1. /\ at_line <= Len(report) /\ ~unsupported /\ report' = report /\ cur' = NextText
      /\ OpenDisk \/ PassWord \/ EndRow
  BY DEF ReadWord
<1>2. NextWord \/ NextLine
  BY <1>1 DEF OpenDisk, PassWord, EndRow
<1>3. QED
  BY <1>1, <1>2, Here DEF NextText
-----------------------------------------------------------------------------
(* A step on each kind of line.                                            *)
LEMMA OnDiskName ==
    ASSUME SsdInv, ReadWord, IsDiskName(report[at_line])
    PROVE  (at_line' <= Len(report) => ReadingRight') /\ SsdRowsRight'
<1> DEFINE words == report[at_line]
<1>1. Len(words) = 1 /\ Plain(words[1]) /\ at_place = 1 /\ NextText = words[1]
  BY Turn DEF IsDiskName
<1>2. ~OpenDisk
  BY <1>1, Marked DEF OpenDisk
<1>3. NextLine /\ at_line' = at_line + 1 /\ at_place' = 1
  <2>1. NextLine
    BY <1>1, Turn DEF NextWord
  <2>2. QED
    BY <2>1 DEF NextLine
<1>4. at_line' <= Len(report) => ReadingRight'
  <2>1. SUFFICES ASSUME at_line' <= Len(report) PROVE ReadingRight'
    OBVIOUS
  <2>2. Len(report'[at_line']) \in Nat /\ at_place' \in 1..Len(report'[at_line'])
    BY <1>3, <2>1, Turn, Onward
  <2>3. IsOpening(report'[at_line'])
    BY <1>3, <2>1, Turn, NextKind
  <2>4. at_line' - 1 = at_line
    BY <1>3, Turn
  <2>5. cur' = report'[at_line' - 1][1]
    BY <1>1, <2>4, Turn
  <2>6. QED
    BY <1>3, <2>2, <2>3, <2>5, RightThere
<1>5. SsdRowsRight'
  <2>1. ~IsKnown(words)
    BY Turn, KindsDiffer DEF IsKnown
  <2>2. CASE PassWord
    BY <1>3, <2>1, <2>2, Turn, NotStored DEF PassWord
  <2>3. CASE EndRow
    <3>1. insert_flag /\ Len(Extended) = 10
      BY <2>3 DEF EndRow
    <3>2. Len(row_data) = 9
      BY <3>1, Longer, NineWords
    <3>3. Spoiled
      <4>1. row_data = <<>> \/ Spoiled
        BY <3>1, Turn, Here DEF ReadingRight
      <4>2. QED
        BY <3>2, <4>1
    <3>4. Extended[1] = row_data[1] /\ Extended[10] = Word(NextText, at_line, at_place)
      BY <3>1, <3>2, Longer
    <3>5. Extended[1].text # "ID"
      <4>1. Plain(row_data[1].text)
        BY <3>2, <3>3 DEF Spoiled, PlainRow
      <4>2. QED
        BY <3>4, <4>1, Marked
    <3>6. CASE UNCHANGED <<unsupported, rows>>
      BY <1>3, <2>1, <3>6, Turn, NotStored
    <3>7. CASE rows' = Append(rows, [ssd |-> ssd, words |-> Extended]) /\ UNCHANGED unsupported
      <4>1. [ssd |-> ssd, words |-> Extended].words[10].line = at_line
        BY <3>4 DEF Word
      <4>2. QED
        BY <1>3, <3>3, <3>7, <4>1, Turn, Stored DEF Spoiled
    <3>8. QED
      BY <2>3, <3>5, <3>6, <3>7 DEF EndRow
  <2>4. QED
    BY <1>2, <2>2, <2>3, Turn
<1>6. QED
  BY <1>4, <1>5

LEMMA OnOpening ==
    ASSUME SsdInv, ReadWord, IsOpening(report[at_line])
    PROVE  (at_line' <= Len(report) => ReadingRight') /\ SsdRowsRight'
<1> DEFINE words == report[at_line]
<1>1. Len(words) > 1 /\ words[1] = "smartctl" /\ \A p \in 2..Len(words) : Plain(words[p])
  BY DEF IsOpening
<1>2. ~IsDiskName(words) /\ ~IsAttribute(words)
  BY Turn, KindsDiffer
<1>3. /\ ~insert_flag' /\ ssd' = DiskOf(report, at_line)
      /\ UNCHANGED <<unsupported, rows>> /\ NextWord
  <2>1. CASE at_place = 1
    <3>1. OpenDisk /\ ssd' = cur /\ ~insert_flag' /\ NextWord /\ UNCHANGED <<unsupported, rows>>
      BY <1>1, <2>1, Turn DEF OpenDisk, PassWord, EndRow, NewDisk
    <3>2. at_line - 1 \in Nat /\ at_line - 1 >= 1 /\ (at_line - 1) + 1 = at_line
      BY <1>2, Turn, Here
    <3>3. IsDiskName(report[at_line - 1])
      <4>1. MayFollow(report[at_line - 1], words)
        BY <3>2, Turn, Here
      <4>2. QED
        BY <4>1, Turn, KindsDiffer DEF MayFollow
    <3>4. DiskOf(report, at_line) = report[at_line - 1][1]
      BY <1>1, <3>2, <3>3, Turn, DiskBegins DEF IsDiskName
    <3>5. cur = report[at_line - 1][1]
      BY <2>1, Turn, Here DEF ReadingRight
    <3>6. QED
      BY <3>1, <3>4, <3>5
  <2>2. CASE at_place # 1
    <3>1. Outside
      BY <2>2, Turn, Here DEF ReadingRight
    <3>2. Plain(NextText)
      BY <1>1, <2>2, Turn
    <3>3. PassWord
      BY <3>1, <3>2, Turn, Marked DEF OpenDisk, EndRow, Outside
    <3>4. QED
      BY <3>1, <3>2, <3>3, Marked DEF PassWord, Outside
  <2>3. QED
    BY <2>1, <2>2
<1>4. at_line' <= Len(report) => ReadingRight'
  <2>1. SUFFICES ASSUME at_line' <= Len(report) PROVE ReadingRight'
    OBVIOUS
  <2>2. Len(report'[at_line']) \in Nat /\ at_place' \in 1..Len(report'[at_line'])
    BY <2>1, Turn, Onward
  <2>3. CASE at_line' = at_line /\ at_place' = at_place + 1
    <3>1. Outside' /\ at_place' # 1
      BY <1>3, <2>3, Turn DEF Outside
    <3>2. QED
      BY <2>2, <2>3, <3>1, Turn, RightThere
  <2>4. CASE at_line' = at_line + 1
    <3>1. IsTitle(report'[at_line'])
      BY <2>1, <2>4, Turn, NextKind
    <3>2. Outside'
      BY <1>3, <2>1, <2>4, <3>1, Turn, SameDiskOnNextLine DEF Outside
    <3>3. QED
      BY <2>2, <3>1, <3>2, RightThere
  <2>5. QED
    BY <2>3, <2>4, Turn, Onward
<1>5. SsdRowsRight'
  BY <1>2, <1>3, Turn, Onward, NotStored DEF IsKnown
<1>6. QED
  BY <1>4, <1>5

LEMMA OnTitle ==
    ASSUME SsdInv, ReadWord, IsTitle(report[at_line])
    PROVE  (at_line' <= Len(report) => ReadingRight') /\ SsdRowsRight'
<1> DEFINE words == report[at_line]
<1>1. /\ Len(words) > 1 /\ words[Len(words)] = "Thresholds:"
      /\ \A p \in 1..(Len(words) - 1) : Plain(words[p])
  BY DEF IsTitle
<1>2. ~IsAttribute(words) /\ Outside
  BY Turn, Here, KindsDiffer DEF ReadingRight
<1>3. NextText = IF at_place = Len(words) THEN "Thresholds:" ELSE words[at_place]
  BY <1>1, Turn
<1>4. at_place # Len(words) => Plain(NextText)
  BY <1>1, Turn
<1>5. PassWord
  BY <1>2, <1>3, <1>4, Turn, Marked DEF OpenDisk, EndRow, Outside
<1>6. /\ UNCHANGED <<ssd, unsupported, rows>> /\ NextWord
      /\ at_place # Len(words) => ~insert_flag'
      /\ at_place = Len(words) => insert_flag' /\ row_data' = <<>>
  BY <1>2, <1>3, <1>4, <1>5, Marked DEF PassWord, Outside
<1>7. at_line' <= Len(report) => ReadingRight'
  <2>1. SUFFICES ASSUME at_line' <= Len(report) PROVE ReadingRight'
    OBVIOUS
  <2>2. Len(report'[at_line']) \in Nat /\ at_place' \in 1..Len(report'[at_line'])
    BY <2>1, Turn, Onward
  <2>3. CASE at_line' = at_line /\ at_place < Len(words)
    <3>1. Outside'
      BY <1>2, <1>6, <2>3, Turn DEF Outside
    <3>2. QED
      BY <2>2, <2>3, <3>1, Turn, RightThere
  <2>4. CASE at_line' = at_line + 1 /\ at_place' = 1 /\ at_place = Len(words)
    <3>1. IsHeader(report'[at_line'])
      BY <2>1, <2>4, Turn, NextKind
    <3>2. ssd' = DiskOf(report, at_line)'
      BY <1>2, <1>6, <2>1, <2>4, <3>1, Turn, SameDiskOnNextLine DEF Outside
    <3>3. InStep'
      BY <1>6, <2>4 DEF InStep
    <3>4. QED
      BY <1>6, <2>2, <2>4, <3>1, <3>2, <3>3, RightThere
  <2>5. QED
    BY <1>6, <2>3, <2>4, Turn, Onward
<1>8. SsdRowsRight'
  BY <1>2, <1>6, Turn, Onward, NotStored DEF IsKnown
<1>9. QED
  BY <1>7, <1>8

LEMMA OnHeader ==
    ASSUME SsdInv, ReadWord, IsHeader(report[at_line])
    PROVE  (at_line' <= Len(report) => ReadingRight') /\ SsdRowsRight'
<1> DEFINE words == report[at_line]
           text == Word(NextText, at_line, at_place)
<1>1. /\ Len(words) = 10 /\ words[1] = "ID"
      /\ \A p \in 1..10 : words[p] # "smartctl" /\ words[p] # "Thresholds:"
      /\ \A p \in 1..10 : words[p] = Columns10[p]
  BY HeaderWords
<1>2. ~IsAttribute(words) /\ insert_flag /\ ssd = DiskOf(report, at_line) /\ InStep
  BY Turn, Here, KindsDiffer DEF ReadingRight
<1>3. NextText # "smartctl" /\ NextText # "Thresholds:" /\ at_place \in 1..10
  BY <1>1, Turn
<1>4. /\ Len(row_data) = at_place - 1 /\ Len(Extended) = at_place
      /\ \A i \in 1..(at_place - 1) : Extended[i] = Word(words[i], at_line, i)
      /\ Extended[at_place] = Word(words[at_place], at_line, at_place)
  <2>1. Len(row_data) = at_place - 1
    BY <1>2 DEF InStep
  <2>2. (at_place - 1) + 1 = at_place
    BY <1>3
  <2>3. Len(Extended) = at_place
    BY <1>2, <2>1, <2>2, Longer
  <2>4. \A i \in 1..(at_place - 1) : Extended[i] = Word(words[i], at_line, i)
    BY <1>2, <2>1, Longer DEF InStep
  <2>5. Extended[at_place] = text
    BY <1>2, <2>1, <2>2, Longer
  <2>6. QED
    BY <2>1, <2>3, <2>4, <2>5, Turn
<1>5. CASE PassWord
  <2>1. /\ insert_flag' /\ row_data' = Extended /\ at_place < 10
        /\ UNCHANGED <<ssd, unsupported, rows>> /\ NextWord
    BY <1>2, <1>3, <1>4, <1>5 DEF PassWord
  <2>2. at_line' = at_line /\ at_place' = at_place + 1
    BY <1>1, <2>1, Turn DEF NextWord
  <2>3. InStep'
    <3>1. (at_place + 1) - 1 = at_place
      BY <1>3
    <3>2. Len(row_data') = at_place' - 1 /\ Len(row_data') < 10
      BY <1>4, <2>1, <2>2, <3>1
    <3>3. \A i \in 1..at_place : i \in 1..(at_place - 1) \/ i = at_place
      BY <1>3
    <3>4. \A i \in 1..at_place : Extended[i] = Word(words[i], at_line, i)
      BY <1>4, <3>3
    <3>5. QED
      BY <1>4, <2>1, <2>2, <3>2, <3>4, Turn DEF InStep
  <2>4. ReadingRight'
    <3>1. at_place' \in 1..Len(report'[at_line']) /\ Len(report'[at_line']) \in Nat
      BY <2>1, <2>2, Turn, Onward
    <3>2. QED
      BY <1>2, <2>1, <2>2, <2>3, <3>1, Turn, RightThere
  <2>5. SsdRowsRight'
    BY <2>1, <2>2, Turn, NotStored
  <2>6. QED
    BY <2>4, <2>5
<1>6. CASE EndRow
  <2>1. at_place = 10
    BY <1>4, <1>6 DEF EndRow
  <2>2. \A i \in 1..10 : Extended[i].text = Columns10[i]
    <3>1. \A i \in 1..10 : i \in 1..(10 - 1) \/ i = 10
      OBVIOUS
    <3>2. \A i \in 1..10 : Extended[i] = Word(words[i], at_line, i)
      BY <1>4, <2>1, <3>1
    <3>3. QED
      BY <1>1, <3>2 DEF Word
  <2>3. Extended[1].text = "ID"
    BY <1>1, <2>2
  <2>4. row_data' = <<>> /\ ~unsupported' /\ NextWord /\ UNCHANGED <<ssd, insert_flag, rows>>
    BY <1>6, <2>2, <2>3 DEF EndRow
  <2>5. NextLine /\ at_line' = at_line + 1
    BY <1>1, <2>1, <2>4 DEF NextWord, NextLine
  <2>6. at_line' <= Len(report) => ReadingRight'
    BY <1>2, <2>4, <2>5, Turn, TableGoesOn
  <2>7. SsdRowsRight'
    BY <1>2, <2>4, <2>5, Turn, NotStored DEF IsKnown
  <2>8. QED
    BY <2>6, <2>7
<1>7. QED
  BY <1>3, <1>5, <1>6, Turn DEF OpenDisk
-----------------------------------------------------------------------------
(* On the line of an attribute.                                            *)
LEMMA AttributeWord ==
    ASSUME SsdInv, ReadWord, IsAttribute(report[at_line])
    PROVE  LET words == report[at_line]
           IN  /\ Len(words) \in 10..19 /\ Plain(words[1])
               /\ Plain(NextText) \/ at_place = 2
               /\ NextText # "smartctl" /\ NextText # "Thresholds:"
               /\ PassWord \/ EndRow
               /\ insert_flag /\ ssd = DiskOf(report, at_line)
               /\ InStep \/ InRest \/ Spoiled
<1> DEFINE words == report[at_line]
<1>1. /\ Len(words) \in 10..19
      /\ \A p \in 1..Len(words) : Plain(words[p]) \/ (p = 2 /\ words[2] = "Unknown_Attribute")
  BY DEF IsAttribute
<1>2. Plain(words[1])
  <2>1. 1 \in 1..Len(words)
    BY <1>1, AttributeLength
  <2>2. 1 # 2
    OBVIOUS
  <2>3. QED
    BY <1>1, <2>1, <2>2
<1>3. Plain(NextText) \/ (at_place = 2 /\ NextText = "Unknown_Attribute")
  BY <1>1, Turn
<1>4. NextText # "smartctl" /\ NextText # "Thresholds:"
  BY <1>3, Marked
<1>5. PassWord \/ EndRow
  BY <1>4, Turn DEF OpenDisk
<1>6. insert_flag /\ ssd = DiskOf(report, at_line) /\ (InStep \/ InRest \/ Spoiled)
  BY Turn, Here, KindsDiffer DEF ReadingRight
<1>7. QED
  BY <1>1, <1>2, <1>3, <1>4, <1>5, <1>6

LEMMA NoRowOnAttribute ==
    ASSUME SsdInv, ReadWord, IsAttribute(report[at_line]), PassWord
    PROVE  /\ insert_flag' /\ row_data' = Extended /\ Len(Extended) < 10
           /\ UNCHANGED <<ssd, unsupported, rows>> /\ NextWord
BY AttributeWord DEF PassWord

LEMMA InStepOnAttribute ==
    ASSUME SsdInv, ReadWord, IsAttribute(report[at_line]), InStep
    PROVE  (at_line' <= Len(report) => ReadingRight') /\ SsdRowsRight'
<1> DEFINE words == report[at_line]
<1>1. Len(words) \in 10..19 /\ insert_flag /\ ssd = DiskOf(report, at_line)
  BY AttributeWord
<1>2. /\ Len(row_data) = at_place - 1 /\ Len(Extended) = at_place
      /\ \A i \in 1..at_place : Extended[i] = Word(words[i], at_line, i)
  <2>1. Len(row_data) = at_place - 1
    BY DEF InStep
  <2>2. (at_place - 1) + 1 = at_place
    BY Turn
  <2>3. Len(Extended) = at_place
    BY <1>1, <2>1, <2>2, Longer
  <2>4. \A i \in 1..(at_place - 1) : Extended[i] = Word(words[i], at_line, i)
    BY <1>1, <2>1, Longer DEF InStep
  <2>5. Extended[at_place] = Word(words[at_place], at_line, at_place)
    BY <1>1, <2>1, <2>2, Longer, Turn
  <2>6. \A i \in 1..at_place : i \in 1..(at_place - 1) \/ i = at_place
    BY Turn
  <2>7. QED
    BY <2>1, <2>3, <2>4, <2>5, <2>6
<1>3. CASE PassWord
  <2>1. /\ insert_flag' /\ row_data' = Extended /\ at_place < 10
        /\ UNCHANGED <<ssd, unsupported, rows>> /\ NextWord
    BY <1>2, <1>3, NoRowOnAttribute
  <2>2. at_line' = at_line /\ at_place' = at_place + 1
    <3>1. at_place \in Nat
      BY Turn
    <3>2. at_place < Len(words)
      BY <1>1, <2>1, <3>1, AttributeLength
    <3>3. QED
      BY <2>1, <3>2 DEF NextWord
  <2>3. InStep'
    <3>1. (at_place + 1) - 1 = at_place
      BY Turn
    <3>2. Len(row_data') = at_place' - 1 /\ Len(row_data') < 10
      BY <1>2, <2>1, <2>2, <3>1
    <3>3. QED
      BY <1>2, <2>1, <2>2, <3>2, Turn DEF InStep
  <2>4. ReadingRight'
    <3>1. at_place' \in 1..Len(report'[at_line']) /\ Len(report'[at_line']) \in Nat
      BY <2>1, <2>2, Turn, Onward
    <3>2. QED
      BY <1>1, <2>1, <2>2, <2>3, <3>1, Turn, RightThere
  <2>5. SsdRowsRight'
    BY <2>1, <2>2, Turn, NotStored
  <2>6. QED
    BY <2>4, <2>5
<1>4. CASE EndRow
  <2>1. at_place = 10
    BY <1>2, <1>4 DEF EndRow
  <2>2. Extended[1].text = words[1] /\ Extended[2].text = words[2]
    BY <1>2, <2>1 DEF Word
  <2>3. Extended[1].text # "ID"
    BY <2>2, AttributeWord, Marked
  <2>4. row_data' = <<>> /\ UNCHANGED <<ssd, insert_flag, unsupported>>
    BY <1>4, <2>3 DEF EndRow
  <2>5. CASE words[2] = "Unknown_Attribute"
    <3>1. NextWord /\ UNCHANGED rows
      BY <1>4, <2>2, <2>3, <2>5 DEF EndRow
    <3>2. SsdRowsRight'
      BY <2>4, <2>5, <3>1, Turn, Onward, NotStored DEF IsKnown
    <3>3. CASE Len(words) = 10
      <4>1. NextLine
        BY <2>1, <3>1, <3>3 DEF NextWord
      <4>2. QED
        BY <1>1, <2>4, <3>2, <4>1, Turn, TableGoesOn
    <3>4. CASE Len(words) # 10
      <4>1. at_line' = at_line /\ at_place' = 11
        <5>1. 10 < Len(words)
          BY <1>1, <3>4, AttributeLength
        <5>2. QED
          BY <2>1, <3>1, <5>1 DEF NextWord
      <4>2. InRest'
        BY <2>4, <2>5, <4>1, Turn DEF InRest, PlainRow
      <4>3. at_place' \in 1..Len(report'[at_line']) /\ Len(report'[at_line']) \in Nat
        BY <1>1, <3>4, <4>1, Turn, AttributeLength
      <4>4. QED
        BY <1>1, <2>4, <3>2, <4>1, <4>2, <4>3, Turn, RightThere
    <3>5. QED
      BY <3>3, <3>4
  <2>6. CASE words[2] # "Unknown_Attribute"
    <3>1. NextLine /\ rows' = Append(rows, [ssd |-> ssd, words |-> Extended])
      BY <1>4, <2>2, <2>3, <2>6 DEF EndRow
    <3>2. at_line' <= Len(report) => ReadingRight'
      BY <1>1, <2>4, <3>1, Turn, TableGoesOn
    <3>3. IsKnown(words)
      BY <2>6 DEF IsKnown
    <3>4. \A i \in 1..10 : Extended[i].line = at_line /\ Extended[i].place = i
      BY <1>2, <2>1 DEF Word
    <3>5. IsLine([ssd |-> ssd, words |-> Extended], at_line)
      BY <3>4 DEF IsLine
    <3>6. [ssd |-> ssd, words |-> Extended].words[10].line = at_line
      BY <3>4
    <3>7. SsdRowsRight'
      BY <1>1, <2>4, <3>1, <3>3, <3>5, <3>6, Turn, Stored DEF NextLine
    <3>8. QED
      BY <3>2, <3>7
  <2>7. QED
    BY <2>5, <2>6
<1>5. QED
  BY <1>3, <1>4, AttributeWord

LEMMA InRestOnAttribute ==
    ASSUME SsdInv, ReadWord, IsAttribute(report[at_line]), InRest
    PROVE  (at_line' <= Len(report) => ReadingRight') /\ SsdRowsRight'
<1> DEFINE words == report[at_line]
           text == Word(NextText, at_line, at_place)
<1>1. Len(words) \in 10..19 /\ insert_flag /\ ssd = DiskOf(report, at_line) /\ Plain(NextText)
  BY AttributeWord DEF InRest
<1>2. /\ Len(row_data) = at_place - 11 /\ Len(Extended) = at_place - 10
      /\ \A i \in 1..Len(row_data) : Extended[i] = row_data[i]
      /\ Extended[at_place - 10] = text
  <2>1. Len(row_data) = at_place - 11 /\ (at_place - 11) + 1 = at_place - 10
    BY Turn DEF InRest
  <2>2. QED
    BY <1>1, <2>1, Longer
<1>3. at_place > 10 /\ at_place - 10 < 10 /\ at_place \in Nat
  <2>1. \A k \in 10..19 : \A p \in 1..k : p - 10 < 10 /\ p \in Nat
    OBVIOUS
  <2>2. QED
    BY <1>1, <2>1, Turn DEF InRest
<1>4. PassWord
  <2>1. at_place - 10 # 10
    BY <1>3
  <2>2. QED
    BY <1>2, <2>1, AttributeWord DEF EndRow
<1>5. insert_flag' /\ row_data' = Extended /\ UNCHANGED <<ssd, unsupported, rows>> /\ NextWord
  BY <1>4, NoRowOnAttribute
<1>6. PlainRow'
  <2>1. ASSUME NEW i \in 1..(at_place - 10), i <= 2 PROVE Plain(Extended[i].text)
    <3>1. CASE i = at_place - 10
      BY <1>1, <1>2, <3>1 DEF Word
    <3>2. CASE i # at_place - 10
      <4>1. i \in 1..Len(row_data)
        BY <1>2, <1>3, <3>2
      <4>2. QED
        BY <1>2, <2>1, <4>1 DEF InRest, PlainRow
    <3>3. QED
      BY <3>1, <3>2
  <2>2. QED
    BY <1>2, <1>5, <2>1 DEF PlainRow
<1>7. words[2] = "Unknown_Attribute"
  BY DEF InRest
<1>8. SsdRowsRight'
  BY <1>5, <1>7, Turn, Onward, NotStored DEF IsKnown
<1>9. CASE at_line' = at_line /\ at_place' = at_place + 1
  <2>1. at_place' - 11 = at_place - 10 /\ at_place' > 10
    BY <1>3, <1>9
  <2>2. InRest'
    BY <1>2, <1>5, <1>6, <1>7, <1>9, <2>1, Turn DEF InRest
  <2>3. at_line' <= Len(report)
    BY <1>9, Turn
  <2>4. QED
    BY <1>1, <1>5, <1>8, <1>9, <2>2, <2>3, Turn, Onward, RightThere
<1>10. CASE at_line' = at_line + 1 /\ at_place' = 1 /\ at_place = Len(words)
  <2>1. AfterUnknown(report, at_line + 1)
    <3>1. at_line + 1 > 1 /\ (at_line + 1) - 1 = at_line /\ Len(words) > 10
      BY <1>3, <1>10, Turn, Here
    <3>2. QED
      BY <1>7, <3>1 DEF AfterUnknown
  <2>2. at_place' <= Len(row_data') /\ Len(row_data') < 10
    BY <1>2, <1>3, <1>5, <1>10
  <2>3. Spoiled'
    BY <1>6, <1>10, <2>1, <2>2, Turn DEF Spoiled
  <2>4. NextLine
    BY <1>10 DEF NextLine
  <2>5. QED
    BY <1>1, <1>5, <1>8, <2>3, <2>4, Turn, TableGoesOn
<1>11. QED
  BY <1>5, <1>9, <1>10, Turn, Onward

LEMMA SpoiledOnAttribute ==
    ASSUME SsdInv, ReadWord, IsAttribute(report[at_line]), Spoiled
    PROVE  (at_line' <= Len(report) => ReadingRight') /\ SsdRowsRight'
<1> DEFINE words == report[at_line]
           text == Word(NextText, at_line, at_place)
<1>1. Len(words) \in 10..19 /\ insert_flag /\ ssd = DiskOf(report, at_line)
  BY AttributeWord
<1>2. /\ Len(row_data) \in Nat /\ Len(row_data) > 0 /\ Len(Extended) = Len(row_data) + 1
      /\ \A i \in 1..Len(row_data) : Extended[i] = row_data[i]
      /\ Extended[Len(row_data) + 1] = text
      /\ at_place \in Nat /\ at_place <= Len(row_data) /\ Len(row_data) < 10
      /\ AfterUnknown(report, at_line) /\ PlainRow
  BY <1>1, Longer, Turn DEF Spoiled
<1>3. CASE PassWord
  <2>1. /\ insert_flag' /\ row_data' = Extended /\ Len(Extended) < 10
        /\ UNCHANGED <<ssd, unsupported, rows>> /\ NextWord
    BY <1>3, NoRowOnAttribute
  <2>2. at_line' = at_line /\ at_place' = at_place + 1
    <3>1. at_place < 10
      BY <1>2, <2>1
    <3>2. at_place < Len(words)
      BY <1>1, <1>2, <3>1, AttributeLength
    <3>3. QED
      BY <2>1, <3>2 DEF NextWord
  <2>3. PlainRow'
    <3>1. ASSUME NEW i \in 1..(Len(row_data) + 1), i <= 2 PROVE Plain(Extended[i].text)
      <4>1. CASE i = Len(row_data) + 1
        <5>1. at_place = 1
          BY <1>2, <3>1, <4>1, Turn
        <5>2. Plain(NextText)
          BY <5>1, AttributeWord
        <5>3. QED
          BY <1>2, <4>1, <5>2 DEF Word
      <4>2. CASE i # Len(row_data) + 1
        <5>1. i \in 1..Len(row_data)
          BY <1>2, <4>2
        <5>2. QED
          BY <1>2, <3>1, <5>1 DEF PlainRow
      <4>3. QED
        BY <4>1, <4>2
    <3>2. QED
      BY <1>2, <2>1, <3>1 DEF PlainRow
  <2>4. at_place' <= Len(row_data') /\ Len(row_data') < 10
    BY <1>2, <2>1, <2>2
  <2>5. Spoiled'
    BY <1>2, <2>2, <2>3, <2>4, Turn DEF Spoiled
  <2>6. at_line' <= Len(report)
    BY <2>2, Turn
  <2>7. ReadingRight'
    BY <1>1, <2>1, <2>2, <2>5, <2>6, Turn, Onward, RightThere
  <2>8. SsdRowsRight'
    BY <2>1, <2>2, Turn, NotStored
  <2>9. QED
    BY <2>7, <2>8
<1>4. CASE EndRow
  <2>1. Len(row_data) = 9
    BY <1>2, <1>4, NineWords DEF EndRow
  <2>2. Plain(Extended[1].text) /\ Plain(Extended[2].text) /\ Extended[10] = text
    <3>1. 1 \in 1..9 /\ 2 \in 1..9 /\ 9 + 1 = 10 /\ 1 <= 2 /\ 2 <= 2
      OBVIOUS
    <3>2. Plain(row_data[1].text) /\ Plain(row_data[2].text)
      BY <1>2, <2>1, <3>1 DEF PlainRow
    <3>3. QED
      BY <1>2, <2>1, <3>1, <3>2
  <2>3. /\ NextLine /\ rows' = Append(rows, [ssd |-> ssd, words |-> Extended])
        /\ UNCHANGED <<ssd, insert_flag, unsupported>> /\ row_data' = <<>>
    BY <1>4, <2>2, Marked DEF EndRow
  <2>4. at_line' <= Len(report) => ReadingRight'
    BY <1>1, <2>3, Turn, TableGoesOn
  <2>5. [ssd |-> ssd, words |-> Extended].words[10].line = at_line
    BY <2>2 DEF Word
  <2>6. SsdRowsRight'
    BY <1>2, <2>3, <2>5, Turn, Stored DEF NextLine
  <2>7. QED
    BY <2>4, <2>6
<1>5. QED
  BY <1>3, <1>4, AttributeWord
-----------------------------------------------------------------------------
LEMMA SsdInitInv == SsdInit => SsdInv
<1> SUFFICES ASSUME NEW r \in Reports, SsdStart(r)
             PROVE  SsdInv
  BY DEF SsdInit
<1>1. /\ report = r /\ at_line = 1 /\ at_place = 1 /\ insert_flag = FALSE
      /\ row_data = <<>> /\ unsupported = FALSE /\ rows = <<>>
  BY DEF SsdStart
<1>2. Len(r) \in Nat /\ (Len(r) > 0 => IsDiskName(r[1]))
  BY ReportTypes
<1>3. row_data \in Seq(Range(row_data)) /\ rows \in Seq(Range(rows))
  BY <1>1
<1>4. at_line <= Len(report) => ReadingRight
  <2>1. SUFFICES ASSUME 1 <= Len(r) PROVE ReadingRight
    BY <1>1
  <2>2. IsDiskName(r[1]) /\ Len(r[1]) = 1
    BY <1>2, <2>1 DEF IsDiskName
  <2>3. ~IsOpening(r[1]) /\ ~IsTitle(r[1]) /\ ~IsHeader(r[1]) /\ ~IsAttribute(r[1])
    BY <2>2, KindsDiffer
  <2>4. QED
    BY <1>1, <2>2, <2>3 DEF ReadingRight
<1>5. SsdRowsRight
  BY <1>1 DEF SsdRowsRight
<1>6. report \in Reports /\ at_line \in 1..(Len(report) + 1)
  BY <1>1, <1>2
<1>7. QED
  BY <1>1, <1>3, <1>4, <1>5, <1>6 DEF SsdInv

(* The sequences stay sequences.                                           *)
LEMMA ReadWordTypes ==
    ASSUME SsdInv, ReadWord
    PROVE  /\ row_data' \in Seq(Range(row_data')) /\ rows' \in Seq(Range(rows'))
           /\ insert_flag' \in BOOLEAN
<1>1. row_data \in Seq(Range(row_data)) /\ rows \in Seq(Range(rows)) /\ insert_flag \in BOOLEAN
  BY DEF SsdInv
<1>2. <<>> \in Seq(Range(<<>>))
  OBVIOUS
<1>3. Extended \in Seq(Range(Extended))
  BY <1>1, Appended DEF Extended
<1>4. row_data' = <<>> \/ row_data' = Extended
  BY Turn DEF OpenDisk, NewDisk, PassWord, EndRow
<1>5. rows' = rows \/ rows' = Append(rows, [ssd |-> ssd, words |-> Extended])
  BY Turn DEF OpenDisk, PassWord, EndRow
<1>6. insert_flag' \in BOOLEAN
  BY <1>1, Turn DEF OpenDisk, NewDisk, PassWord, EndRow
<1>7. Append(rows, [ssd |-> ssd, words |-> Extended])
         \in Seq(Range(Append(rows, [ssd |-> ssd, words |-> Extended])))
  BY <1>1, Appended
<1>8. QED
  BY <1>1, <1>2, <1>3, <1>4, <1>5, <1>6, <1>7

LEMMA ReadWordInv == SsdInv /\ [ReadWord]_ssdVars => SsdInv'
<1> SUFFICES ASSUME SsdInv, [ReadWord]_ssdVars PROVE SsdInv'
  OBVIOUS
<1>1. CASE ReadWord
  <2>1. (at_line' <= Len(report) => ReadingRight') /\ SsdRowsRight'
    <3>1. IsAttribute(report[at_line]) =>
             (at_line' <= Len(report) => ReadingRight') /\ SsdRowsRight'
      BY <1>1, AttributeWord, InStepOnAttribute, InRestOnAttribute, SpoiledOnAttribute
    <3>2. QED
      BY <1>1, <3>1, Turn, SomeKind, OnDiskName, OnOpening, OnTitle, OnHeader
  <2>2. report' = report /\ report \in Reports /\ at_line' \in 1..(Len(report) + 1)
    BY <1>1, Turn, Onward DEF SsdInv
  <2>3. QED
    BY <1>1, <2>1, <2>2, ReadWordTypes DEF SsdInv
<1>2. CASE UNCHANGED ssdVars
  <2>1. UNCHANGED <<report, at_line, at_place, cur, ssd, insert_flag, row_data, unsupported, rows>>
    BY <1>2 DEF ssdVars
  <2>2. ReadingRight' = ReadingRight
    BY <2>1 DEF ReadingRight, Outside, InStep, InRest, Spoiled, PlainRow
  <2>3. SsdRowsRight' = SsdRowsRight
    BY <2>1 DEF SsdRowsRight, IsLine
  <2>4. QED
    BY <2>1, <2>2, <2>3 DEF SsdInv
<1>3. QED
  BY <1>1, <1>2

(* Whatever the disks of a server report, and however long their raw       *)
(* values: every known attribute SSDData::insert has read is stored for    *)
(* its own disk with every word in its own column, unless the line before  *)
(* left words of an unknown attribute unread; nothing else is stored and   *)
(* the reading is never given up.                                          *)
THEOREM SsdRowsKept == SsdSpec => []SsdRowsRight
<1>1. SsdInv => SsdRowsRight
  BY DEF SsdInv
<1>2. QED
  BY SsdInitInv, ReadWordInv, <1>1, PTL DEF SsdSpec
-----------------------------------------------------------------------------
(***************************************************************************)
(* The rows of messages (module ValueMap): any number of messages. How a gap*)
(* in the times of the speeds below comes about: what the rows of interfaces*)
(* and disks keep from the messages before.                                *)
(***************************************************************************)

(* Name by name: no number of a table is also one of its strings.          *)
LEMMA TablesDistinguish == \A t \in DOMAIN Tables : Distinguishes(t)
<1>1. Distinguishes("server_perform")
  BY DEF Distinguishes, Tables, Table, Foreign, PERFORM_KEY_INT, PERFORM_KEY_STRING
<1>2. Distinguishes("network_io")
  BY DEF Distinguishes, Tables, Table, Foreign, NETWORK_KEY_INT, NETWORK_KEY_STRING
<1>3. Distinguishes("disk_io")
  BY DEF Distinguishes, Tables, Table, Foreign, DISK_KEY_INT, DISK_KEY_STRING
<1>4. Distinguishes("hrStorage")
  BY DEF Distinguishes, Tables, Table, Foreign, STORAGE_KEY_INT, STORAGE_KEY_STRING
<1>5. Distinguishes("ir_controller")
  <2>1. /\ Tables["ir_controller"].ints = IR_RAID_INT
        /\ Tables["ir_controller"].strings = IR_RAID_STRING
    BY DEF Tables, Table
  <2>2. Foreign \notin IR_RAID_INT \cup IR_RAID_STRING /\ "" \notin IR_RAID_INT
    BY DEF Foreign, IR_RAID_INT, IR_RAID_STRING
  <2>3. \A x \in IR_RAID_INT : x \notin IR_RAID_STRING
    BY DEF IR_RAID_INT, IR_RAID_STRING
  <2>4. QED
    BY <2>1, <2>2, <2>3 DEF Distinguishes
<1>6. Distinguishes("ir_pd")
  BY DEF Distinguishes, Tables, Table, Foreign, IR_PD_INT, IR_PD_STRING
<1>7. Distinguishes("ir_vd")
  BY DEF Distinguishes, Tables, Table, Foreign, IR_VD_INT, IR_VD_STRING
<1>8. Distinguishes("no_ir_controller")
  <2>1. /\ Tables["no_ir_controller"].ints = N_RAID_INT
        /\ Tables["no_ir_controller"].strings = N_RAID_STRING
    BY DEF Tables, Table
  <2>2. Foreign \notin N_RAID_INT \cup N_RAID_STRING /\ "" \notin N_RAID_INT
    BY DEF Foreign, N_RAID_INT, N_RAID_STRING
  <2>3. \A x \in N_RAID_INT : x \notin N_RAID_STRING
    BY DEF N_RAID_INT, N_RAID_STRING
  <2>4. QED
    BY <2>1, <2>2, <2>3 DEF Distinguishes
<1>9. Distinguishes("no_ir_pd")
  BY DEF Distinguishes, Tables, Table, Foreign, N_PD_INT, N_PD_STRING
<1>10. Distinguishes("no_ir_vd")
  BY DEF Distinguishes, Tables, Table, Foreign, N_VD_INT, N_VD_STRING
<1>11. QED
  BY <1>1, <1>2, <1>3, <1>4, <1>5, <1>6, <1>7, <1>8, <1>9, <1>10 DEF Tables

(* What a message has for a number is told apart from nothing.             *)
LEMMA NumbersSent ==
    ASSUME GivenKept, NEW m \in Messages, NEW x \in Kind.ints \cap DOMAIN m
    PROVE  m[x].at = n + 1 /\ m[x] # NULL /\ m[x] # Empty
<1>1. Distinguishes(table)
  BY TablesDistinguish DEF GivenKept
<1>2. m[x] = Value(x)
  <2>1. CASE \E sent \in NameSets : m = [y \in sent |-> Value(y)]
    BY <2>1
  <2>2. CASE \E s \in Kind.strings, v \in {NULL, Empty} :
               m = [y \in Known |-> IF y = s THEN v ELSE Value(y)]
    BY <2>2, <1>1 DEF Distinguishes, Kind
  <2>3. QED
    BY <2>1, <2>2 DEF Messages
<1>3. x # ""
  BY <1>1 DEF Distinguishes, Kind
<1>4. QED
  <2>1. m[x].of = x /\ m[x].at = n + 1
    BY <1>2 DEF Value
  <2>2. NULL.of = "" /\ Empty.of = ""
    BY DEF NULL, Empty
  <2>3. QED
    BY <2>1, <2>2, <1>3

(* Storing a message keeps, of every number, the last value that was sent. *)
LEMMA MessageRemembered ==
    ASSUME GivenKept, NEW m \in Messages, StoreValues(m)
    PROVE  GivenKept'
<1> DEFINE map == Built(m)
<1>1. Distinguishes(table)
  BY TablesDistinguish DEF GivenKept
<1>2. Kind' = Kind /\ StatusColumns' = StatusColumns /\ table' = table
  BY DEF StoreValues, Kind, StatusColumns, Known
<1>3. n' = n + 1 /\ n \in Nat /\ given \in [Kind.ints -> Nat]
  BY DEF StoreValues, GivenKept
<1>4. given' \in [Kind.ints -> Nat]
  BY <1>3 DEF StoreValues
<1>5. Kind.ints \subseteq StatusColumns /\ Kind.ints \cap Kind.strings = {}
  BY <1>1 DEF StatusColumns, Known, Distinguishes, Kind
<1>6. DOMAIN map = Known \cup DOMAIN m /\ Kind.ints \subseteq DOMAIN map
  BY DEF Built, Known
<1>7. Foreign \in DOMAIN map <=> Foreign \in DOMAIN m
  BY <1>1, <1>6 DEF Distinguishes, Kind, Known
<1>8. \A x \in Kind.ints : map[x] = IF x \in DOMAIN m THEN m[x] ELSE NULL
  BY DEF Built, Known
<1>9. \A x \in Kind.ints \cap DOMAIN m :
        map[x].at = n' /\ map[x] # NULL /\ map[x] # Empty /\ x \in Present(map)
  BY <1>3, <1>6, <1>8, NumbersSent DEF Present
<1>10. \A x \in Kind.ints :
        given'[x] = IF Storable(map) /\ Foreign \notin DOMAIN m /\ x \in DOMAIN m
                    THEN n' ELSE given[x]
  BY <1>3 DEF StoreValues
<1>11. CASE status' = status /\ \A x \in Kind.ints : given'[x] = given[x]
  BY <1>11, <1>2, <1>3, <1>4 DEF GivenKept, RemembersNumbers
<1>12. CASE ~Storable(map) \/ Foreign \in DOMAIN m
  <2>1. status' = status
    BY <1>12, <1>7 DEF StoreValues, Status
  <2>2. QED
    BY <2>1, <1>10, <1>11, <1>12
<1>13. ASSUME Storable(map), Foreign \notin DOMAIN m PROVE GivenKept'
  <2>1. status' = Status(map)
    BY <1>13 DEF StoreValues
  <2>2. CASE \/ Present(map) = {}
             \/ status # NoRow /\ \A x \in Present(map) : map[x] = Empty
    <3>1. status' = status
      BY <2>1, <2>2 DEF Status
    <3>2. Kind.ints \cap DOMAIN m = {}
      BY <2>2, <1>9
    <3>3. QED
      BY <3>1, <3>2, <1>10, <1>11
  <2>3. ASSUME Present(map) # {}, status = NoRow PROVE GivenKept'
    <3>1. status' = Inserted(map)
      BY <2>1, <2>3, <1>7, <1>13 DEF Status
    <3>2. DOMAIN status' = StatusColumns
      BY <3>1 DEF Inserted
    <3>3. \A x \in Kind.ints : status'[x] = map[x]
      BY <3>1, <1>5, <1>6 DEF Inserted
    <3>4. \A x \in Kind.ints : status'[x].at = given'[x]
      <4>1. NULL.at = 0 /\ \A x \in Kind.ints : given[x] = 0
        BY <2>3 DEF GivenKept, NULL
      <4>2. QED
        BY <4>1, <3>3, <1>8, <1>9, <1>10, <1>13
    <3>5. status' # NoRow \/ Kind.ints = {}
      BY <3>2, <1>5 DEF NoRow
    <3>6. QED
      BY <3>2, <3>4, <3>5, <1>2, <1>3, <1>4 DEF GivenKept, RemembersNumbers
  <2>4. ASSUME status # NoRow, ~(\A x \in Present(map) : map[x] = Empty)
        PROVE GivenKept'
    <3>1. status' = Updated(map)
      BY <2>1, <2>4, <1>7, <1>13 DEF Status
    <3>2. DOMAIN status' = StatusColumns
      BY <3>1 DEF Updated
    <3>3. \A x \in Kind.ints :
            status'[x] = IF map[x] = NULL \/ map[x] = Empty THEN status[x] ELSE map[x]
      BY <3>1, <1>5, <1>6 DEF Updated
    <3>4. \A x \in Kind.ints : status[x].at = given[x]
      BY <2>4 DEF GivenKept, RemembersNumbers
    <3>5. \A x \in Kind.ints : status'[x].at = given'[x]
      BY <3>3, <3>4, <1>8, <1>9, <1>10, <1>13
    <3>6. status' # NoRow \/ Kind.ints = {}
      BY <3>2, <1>5 DEF NoRow
    <3>7. QED
      BY <3>2, <3>5, <3>6, <1>2, <1>3, <1>4 DEF GivenKept, RemembersNumbers
  <2>5. QED
    BY <2>2, <2>3, <2>4
<1>14. QED
  BY <1>12, <1>13

(* The row of a status table, in whatever order names come and go, has of  *)
(* each number the last value that a message stored had: never NULL again, *)
(* and never a value older than the last (MagicMap.cc:271).                *)
THEOREM RowRemembers == ValuesSpec => []RemembersNumbers
<1>1. ValuesInit => GivenKept
  BY DEF ValuesInit, GivenKept, RemembersNumbers
<1>2. GivenKept /\ [ValuesNext]_valueVars => GivenKept'
  <2>1. ASSUME GivenKept, UNCHANGED valueVars PROVE GivenKept'
    BY <2>1 DEF GivenKept, RemembersNumbers, valueVars, Kind, StatusColumns, Known
  <2>2. QED
    BY <2>1, MessageRemembered DEF ValuesNext
<1>3. GivenKept => RemembersNumbers
  BY DEF GivenKept
<1>4. QED
  BY <1>1, <1>2, <1>3, PTL DEF ValuesSpec
-----------------------------------------------------------------------------
(***************************************************************************)
(* Where the values of a row stand (module ValueMap): any number of        *)
(* messages, any threshold. The order of the maps is compared with the     *)
(* columns of all ten tables, name by name.                                *)
(***************************************************************************)

(* Each name has one place among all names, its number.                    *)
LEMMA NameCount == Len(Names) = 132 /\ DOMAIN Names = 1..132
BY DEF Names

LEMMA NamesDiffer == \A i, j \in 1..132 : Names[i] = Names[j] => i = j
BY DEF Names

LEMMA NamePlaces == \A i \in 1..132 : Place[Names[i]] = i
<1>1. SUFFICES ASSUME NEW i \in 1..132 PROVE Place[Names[i]] = i
  OBVIOUS
<1>2. Names[i] \in Range(Names)
  BY NameCount DEF Range
<1>3. Place[Names[i]] = CHOOSE j \in DOMAIN Names : Names[j] = Names[i]
  BY <1>2 DEF Place
<1>4. Place[Names[i]] = CHOOSE j \in 1..132 : Names[j] = Names[i]
  BY <1>3, NameCount
<1>5. \A j \in 1..132 : Names[j] = Names[i] => j = i
  BY NamesDiffer
<1>6. QED
  BY <1>4, <1>5

(* c lists the k names of S; their places are P, each after the one before.*)
Listed(S, k, c, P) ==
    /\ k \in Nat
    /\ \A i \in 1..k : c[i] \in S /\ P[i] \in 1..132 /\ c[i] = Names[P[i]]
    /\ \A i, j \in 1..k : i < j => P[i] < P[j]
    /\ \A x \in S : \E i \in 1..k : x = c[i]

(* So they are the names of S from the first to the last.                  *)
LEMMA SortedIs ==
    ASSUME NEW S, NEW k, NEW c, NEW P, Listed(S, k, c, P)
    PROVE  /\ Sorted(S) = [i \in 1..k |-> c[i]]
           /\ IsFiniteSet(S) /\ Cardinality(S) = k
<1> USE DEF Listed
<1>1. ASSUME NEW i \in 1..k PROVE Place[c[i]] = P[i] /\ P[i] \in Nat
  <2>1. P[i] \in 1..132 /\ c[i] = Names[P[i]]
    OBVIOUS
  <2>2. Place[Names[P[i]]] = P[i]
    BY <2>1, NamePlaces
  <2>3. P[i] \in Nat
    BY <2>1
  <2>4. QED
    BY <2>1, <2>2, <2>3
<1>2. \A i, j \in 1..k : P[j] <= P[i] <=> j <= i
  <2>1. SUFFICES ASSUME NEW i \in 1..k, NEW j \in 1..k PROVE P[j] <= P[i] <=> j <= i
    OBVIOUS
  <2>2. P[i] \in Nat /\ P[j] \in Nat
    BY <1>1
  <2>3. (i < j => P[i] < P[j]) /\ (j < i => P[j] < P[i])
    OBVIOUS
  <2>4. QED
    BY <2>2, <2>3
<1>3. \A i, j \in 1..k : c[i] = c[j] => i = j
  <2>1. \A i, j \in 1..k : P[i] = P[j] => i = j
    BY <1>1, <1>2
  <2>2. QED
    BY <1>1, <2>1
<1>4. ASSUME NEW i \in 0..k
      PROVE  /\ IsFiniteSet({c[j] : j \in 1..i})
             /\ Cardinality({c[j] : j \in 1..i}) = i
  <2> DEFINE f == [j \in 1..i |-> c[j]]
             T == {c[j] : j \in 1..i}
  <2>1. f \in Bijection(1..i, T)
    <3>1. f \in [1..i -> T] /\ \A t \in T : \E j \in 1..i : f[j] = t
      OBVIOUS
    <3>2. \A j, m \in 1..i : f[j] = f[m] => j = m
      BY <1>3
    <3>3. QED
      BY <3>1, <3>2 DEF Bijection, Injection, Surjection, IsInjective
  <2>2. i \in Nat
    OBVIOUS
  <2>3. ExistsBijection(1..i, T)
    BY <2>1 DEF ExistsBijection
  <2>4. QED
    BY <2>2, <2>3, FS_CountingElements, FS_NatBijection
<1>5. S = {c[j] : j \in 1..k}
  OBVIOUS
<1>6. IsFiniteSet(S) /\ Cardinality(S) = k
  <2>1. k \in 0..k
    OBVIOUS
  <2>2. QED
    BY <1>4, <1>5, <2>1
<1>7. ASSUME NEW i \in 1..k
      PROVE  Cardinality({y \in S : Place[y] <= Place[c[i]]}) = i
  <2>1. {y \in S : Place[y] <= Place[c[i]]} = {c[j] : j \in 1..i}
    <3>1. \A j \in 1..i : j \in 1..k /\ j <= i
      OBVIOUS
    <3>2. \A j \in 1..k : j <= i => j \in 1..i
      OBVIOUS
    <3>3. \A j \in 1..k : Place[c[j]] <= Place[c[i]] <=> j <= i
      BY <1>1, <1>2
    <3>4. \A y \in S : Place[y] <= Place[c[i]] <=> \E j \in 1..i : y = c[j]
      BY <3>1, <3>2, <3>3
    <3>5. \A j \in 1..i : c[j] \in S
      BY <3>1
    <3>6. QED
      BY <3>4, <3>5
  <2>2. i \in 0..k
    OBVIOUS
  <2>3. QED
    BY <1>4, <2>1, <2>2
<1> DEFINE at == [x \in S |-> Cardinality({y \in S : Place[y] <= Place[x]})]
<1>8. \A i \in 1..k : at[c[i]] = i
  BY <1>7
<1>9. \A i \in 1..k : (CHOOSE x \in S : at[x] = i) = c[i]
  <2> HIDE DEF at
  <2>1. \A x \in S, i \in 1..k : at[x] = i => x = c[i]
    BY <1>8
  <2>2. QED
    BY <1>8, <2>1
<1>10. Sorted(S) = [i \in 1..k |-> CHOOSE x \in S : at[x] = i]
  BY <1>6 DEF Sorted
<1> HIDE DEF at
<1>11. QED
  BY <1>6, <1>9, <1>10

(* c has the names of A, k of them, and then, from h to n, those of B, each *)
(* in order.                                                               *)
Laid(A, B, c, k, h, e, P) ==
    /\ Len(c) = e /\ c = [i \in 1..e |-> c[i]] /\ k \in 0..e /\ h = k + 1
    /\ \A i \in 1..e : P[i] \in 1..132 /\ c[i] = Names[P[i]]
    /\ \A i, j \in 1..k : i < j => P[i] < P[j]
    /\ \A i, j \in h..e : i < j => P[i] < P[j]
    /\ \A i \in 1..k : c[i] \in A
    /\ \A i \in h..e : c[i] \in B
    /\ \A x \in A : \E i \in 1..k : x = c[i]
    /\ \A x \in B : \E i \in h..e : x = c[i]

(* The columns of a table are the order of the maps, if they are laid out  *)
(* so.                                                                     *)
LEMMA OrderIs ==
    ASSUME NEW A, NEW B, NEW c, NEW k, NEW h, NEW e \in Nat, NEW P,
           Laid(A, B, c, k, h, e, P)
    PROVE  /\ Sorted(A) \o Sorted(B) = c
           /\ IsFiniteSet(A) /\ IsFiniteSet(B)
<1> DEFINE l == e - k
           d == [i \in 1..l |-> c[k+i]]
           Q == [i \in 1..l |-> P[k+i]]
<1> USE DEF Laid
<1>1. l \in Nat /\ k \in Nat /\ \A i \in 1..l : (k+i) \in h..e /\ k+i \in 1..e
  OBVIOUS
<1>2. Sorted(A) = [i \in 1..k |-> c[i]] /\ IsFiniteSet(A) /\ Cardinality(A) = k
  <2>1. \A i \in 1..k : i \in 1..e
    OBVIOUS
  <2>2. \A i \in 1..k : c[i] \in A /\ P[i] \in 1..132 /\ c[i] = Names[P[i]]
    BY <2>1
  <2>3. \A x \in A : \E i \in 1..k : x = c[i]
    OBVIOUS
  <2>4. k \in Nat
    BY <1>1
  <2>5. Listed(A, k, c, P)
    BY <2>2, <2>3, <2>4 DEF Listed
  <2>6. QED
    BY <2>5, SortedIs
<1>3. \A i \in 1..l : d[i] \in B /\ Q[i] \in 1..132 /\ d[i] = Names[Q[i]]
  BY <1>1
<1>4. \A i, j \in 1..l : i < j => Q[i] < Q[j]
  <2>1. SUFFICES ASSUME NEW i \in 1..l, NEW j \in 1..l, i < j PROVE Q[i] < Q[j]
    OBVIOUS
  <2>2. k+i < k+j
    BY <2>1, <1>1
  <2>3. QED
    BY <1>1, <2>2
<1>5. \A x \in B : \E i \in 1..l : x = d[i]
  <2>1. \A j \in h..e : j - k \in 1..l /\ k + (j - k) = j
    BY <1>1
  <2>2. \A j \in h..e : c[j] = d[j - k]
    BY <2>1
  <2>3. \A x \in B : \E j \in h..e : x = c[j]
    OBVIOUS
  <2> HIDE DEF d, l, Laid
  <2>4. QED
    BY <2>1, <2>2, <2>3
<1>6. Sorted(B) = [i \in 1..l |-> d[i]] /\ IsFiniteSet(B)
  <2> HIDE DEF d, Q, l
  <2>1. Listed(B, l, d, Q)
    BY <1>1, <1>3, <1>4, <1>5 DEF Listed
  <2>2. QED
    BY <2>1, SortedIs
<1>7. c \in Seq({c[i] : i \in 1..e}) /\ Len(c) = e /\ e = k + l
  OBVIOUS
<1>8. [i \in 1..k |-> c[i]] \o [i \in 1..l |-> c[k+i]] = c
  <2> HIDE DEF Laid
  <2> QED
    BY <1>1, <1>7
<1>9. QED
  BY <1>2, <1>6, <1>8

(* The names of a row.                                                     *)
RowNames(t) == (Tables[t].ints \cup Tables[t].strings) \ Tables[t].filter
(* What is written for a table is the order of its maps. The numbers P in  *)
(* the proofs are the places of its names among all names.                 *)
Fits(t) ==
    \E k, h, P : \E e \in Nat :
        Laid(RowNames(t) \ Tables[t].strings, RowNames(t) \cap Tables[t].strings,
             Written(t), k, h, e, P)

LEMMA ServerPerformLaid == Fits("server_perform")
<1> DEFINE c == Written("server_perform")
           P == <<18, 34, 40, 72, 73, 74, 75, 76, 77, 78, 123>>
           A == RowNames("server_perform") \ PERFORM_KEY_STRING
           B == RowNames("server_perform") \cap PERFORM_KEY_STRING
<1>1. Tables["server_perform"] = Table(PERFORM_KEY_INT, PERFORM_KEY_STRING, PERFORM_STATUS, Tables["server_perform"].needs, server_perform)
  BY DEF Tables, Table
<1>2. c = server_perform
  BY <1>1 DEF Written, Table
<1>3. /\ A = ((PERFORM_KEY_INT \cup PERFORM_KEY_STRING) \ PERFORM_STATUS) \ PERFORM_KEY_STRING
      /\ B = ((PERFORM_KEY_INT \cup PERFORM_KEY_STRING) \ PERFORM_STATUS) \cap PERFORM_KEY_STRING
      /\ Tables["server_perform"].strings = PERFORM_KEY_STRING
  BY <1>1 DEF RowNames, Table
<1> HIDE DEF A, B, c
<1>4. Len(c) = 11 /\ c = [i \in 1..11 |-> c[i]]
  BY <1>2 DEF server_perform
<1>5. \A i \in 1..11 : P[i] \in 1..132 /\ c[i] = Names[P[i]]
  BY <1>2 DEF server_perform, Names
<1>6. /\ \A i, j \in 1..11 : i < j => P[i] < P[j]
      /\ \A i, j \in 12..11 : i < j => P[i] < P[j]
  OBVIOUS
<1>7. /\ \A i \in 1..11 : c[i] \in A
      /\ \A i \in 12..11 : c[i] \in B
  BY <1>2, <1>3 DEF server_perform, PERFORM_KEY_INT, PERFORM_KEY_STRING, PERFORM_STATUS
<1>8. \A x \in A : \E i \in 1..11 : x = c[i]
  BY <1>2, <1>3 DEF server_perform, PERFORM_KEY_INT, PERFORM_KEY_STRING, PERFORM_STATUS
<1>9. \A x \in B : \E i \in 12..11 : x = c[i]
  BY <1>2, <1>3 DEF server_perform, PERFORM_KEY_INT, PERFORM_KEY_STRING, PERFORM_STATUS
<1> HIDE DEF P
<1>10. 12 = 11 + 1 /\ 11 \in 0..11
  OBVIOUS
<1>11. Laid(A, B, c, 11, 12, 11, P)
  BY <1>4, <1>5, <1>6, <1>7, <1>8, <1>9, <1>10 DEF Laid
<1>12. QED
  BY <1>3, <1>11 DEF Fits, A, B, c

LEMMA NetworkIoLaid == Fits("network_io")
<1> DEFINE c == Written("network_io")
           P == <<50, 51, 52, 53, 54, 55, 56, 60, 61, 62, 63, 64, 65, 67>>
           A == RowNames("network_io") \ NETWORK_KEY_STRING
           B == RowNames("network_io") \cap NETWORK_KEY_STRING
<1>1. Tables["network_io"] = Table(NETWORK_KEY_INT, NETWORK_KEY_STRING, IF_STATUS, Tables["network_io"].needs, network_io)
  BY DEF Tables, Table
<1>2. c = network_io
  BY <1>1 DEF Written, Table
<1>3. /\ A = ((NETWORK_KEY_INT \cup NETWORK_KEY_STRING) \ IF_STATUS) \ NETWORK_KEY_STRING
      /\ B = ((NETWORK_KEY_INT \cup NETWORK_KEY_STRING) \ IF_STATUS) \cap NETWORK_KEY_STRING
      /\ Tables["network_io"].strings = NETWORK_KEY_STRING
  BY <1>1 DEF RowNames, Table
<1> HIDE DEF A, B, c
<1>4. Len(c) = 14 /\ c = [i \in 1..14 |-> c[i]]
  BY <1>2 DEF network_io
<1>5. \A i \in 1..14 : P[i] \in 1..132 /\ c[i] = Names[P[i]]
  BY <1>2 DEF network_io, Names
<1>6. /\ \A i, j \in 1..14 : i < j => P[i] < P[j]
      /\ \A i, j \in 15..14 : i < j => P[i] < P[j]
  OBVIOUS
<1>7. /\ \A i \in 1..14 : c[i] \in A
      /\ \A i \in 15..14 : c[i] \in B
  BY <1>2, <1>3 DEF network_io, NETWORK_KEY_INT, NETWORK_KEY_STRING, IF_STATUS
<1>8. \A x \in A : \E i \in 1..14 : x = c[i]
  BY <1>2, <1>3 DEF network_io, NETWORK_KEY_INT, NETWORK_KEY_STRING, IF_STATUS
<1>9. \A x \in B : \E i \in 15..14 : x = c[i]
  BY <1>2, <1>3 DEF network_io, NETWORK_KEY_INT, NETWORK_KEY_STRING, IF_STATUS
<1> HIDE DEF P
<1>10. 15 = 14 + 1 /\ 14 \in 0..14
  OBVIOUS
<1>11. Laid(A, B, c, 14, 15, 14, P)
  BY <1>4, <1>5, <1>6, <1>7, <1>8, <1>9, <1>10 DEF Laid
<1>12. QED
  BY <1>3, <1>11 DEF Fits, A, B, c

LEMMA DiskIoLaid == Fits("disk_io")
<1> DEFINE c == Written("disk_io")
           P == <<29, 30, 31, 32>>
           A == RowNames("disk_io") \ DISK_KEY_STRING
           B == RowNames("disk_io") \cap DISK_KEY_STRING
<1>1. Tables["disk_io"] = Table(DISK_KEY_INT, DISK_KEY_STRING, DISK_STATUS, Tables["disk_io"].needs, disk_io)
  BY DEF Tables, Table
<1>2. c = disk_io
  BY <1>1 DEF Written, Table
<1>3. /\ A = ((DISK_KEY_INT \cup DISK_KEY_STRING) \ DISK_STATUS) \ DISK_KEY_STRING
      /\ B = ((DISK_KEY_INT \cup DISK_KEY_STRING) \ DISK_STATUS) \cap DISK_KEY_STRING
      /\ Tables["disk_io"].strings = DISK_KEY_STRING
  BY <1>1 DEF RowNames, Table
<1> HIDE DEF A, B, c
<1>4. Len(c) = 4 /\ c = [i \in 1..4 |-> c[i]]
  BY <1>2 DEF disk_io
<1>5. \A i \in 1..4 : P[i] \in 1..132 /\ c[i] = Names[P[i]]
  BY <1>2 DEF disk_io, Names
<1>6. /\ \A i, j \in 1..4 : i < j => P[i] < P[j]
      /\ \A i, j \in 5..4 : i < j => P[i] < P[j]
  OBVIOUS
<1>7. /\ \A i \in 1..4 : c[i] \in A
      /\ \A i \in 5..4 : c[i] \in B
  BY <1>2, <1>3 DEF disk_io, DISK_KEY_INT, DISK_KEY_STRING, DISK_STATUS
<1>8. \A x \in A : \E i \in 1..4 : x = c[i]
  BY <1>2, <1>3 DEF disk_io, DISK_KEY_INT, DISK_KEY_STRING, DISK_STATUS
<1>9. \A x \in B : \E i \in 5..4 : x = c[i]
  BY <1>2, <1>3 DEF disk_io, DISK_KEY_INT, DISK_KEY_STRING, DISK_STATUS
<1> HIDE DEF P
<1>10. 5 = 4 + 1 /\ 4 \in 0..4
  OBVIOUS
<1>11. Laid(A, B, c, 4, 5, 4, P)
  BY <1>4, <1>5, <1>6, <1>7, <1>8, <1>9, <1>10 DEF Laid
<1>12. QED
  BY <1>3, <1>11 DEF Fits, A, B, c

LEMMA HrstorageLaid == Fits("hrStorage")
<1> DEFINE c == Written("hrStorage")
           P == <<41, 42, 44, 45, 46>>
           A == RowNames("hrStorage") \ STORAGE_KEY_STRING
           B == RowNames("hrStorage") \cap STORAGE_KEY_STRING
<1>1. Tables["hrStorage"] = Table(STORAGE_KEY_INT, STORAGE_KEY_STRING, STORAGE_STATUS, Tables["hrStorage"].needs, hrStorage)
  BY DEF Tables, Table
<1>2. c = hrStorage
  BY <1>1 DEF Written, Table
<1>3. /\ A = ((STORAGE_KEY_INT \cup STORAGE_KEY_STRING) \ STORAGE_STATUS) \ STORAGE_KEY_STRING
      /\ B = ((STORAGE_KEY_INT \cup STORAGE_KEY_STRING) \ STORAGE_STATUS) \cap STORAGE_KEY_STRING
      /\ Tables["hrStorage"].strings = STORAGE_KEY_STRING
  BY <1>1 DEF RowNames, Table
<1> HIDE DEF A, B, c
<1>4. Len(c) = 5 /\ c = [i \in 1..5 |-> c[i]]
  BY <1>2 DEF hrStorage
<1>5. \A i \in 1..5 : P[i] \in 1..132 /\ c[i] = Names[P[i]]
  BY <1>2 DEF hrStorage, Names
<1>6. /\ \A i, j \in 1..5 : i < j => P[i] < P[j]
      /\ \A i, j \in 6..5 : i < j => P[i] < P[j]
  OBVIOUS
<1>7. /\ \A i \in 1..5 : c[i] \in A
      /\ \A i \in 6..5 : c[i] \in B
  BY <1>2, <1>3 DEF hrStorage, STORAGE_KEY_INT, STORAGE_KEY_STRING, STORAGE_STATUS
<1>8. \A x \in A : \E i \in 1..5 : x = c[i]
  BY <1>2, <1>3 DEF hrStorage, STORAGE_KEY_INT, STORAGE_KEY_STRING, STORAGE_STATUS
<1>9. \A x \in B : \E i \in 6..5 : x = c[i]
  BY <1>2, <1>3 DEF hrStorage, STORAGE_KEY_INT, STORAGE_KEY_STRING, STORAGE_STATUS
<1> HIDE DEF P
<1>10. 6 = 5 + 1 /\ 5 \in 0..5
  OBVIOUS
<1>11. Laid(A, B, c, 5, 6, 5, P)
  BY <1>4, <1>5, <1>6, <1>7, <1>8, <1>9, <1>10 DEF Laid
<1>12. QED
  BY <1>3, <1>11 DEF Fits, A, B, c

LEMMA IrControllerLaid == Fits("ir_controller")
<1> DEFINE c == Written("ir_controller")
           P == <<2, 7, 11, 13, 20, 24, 36, 39, 79, 82, 85, 87, 88, 89, 90,
                 96, 109, 110, 111, 116, 125, 127, 129, 130, 23, 33, 35,
                 107, 113>>
           A == RowNames("ir_controller") \ IR_RAID_STRING
           B == RowNames("ir_controller") \cap IR_RAID_STRING
<1>1. Tables["ir_controller"] = Table(IR_RAID_INT, IR_RAID_STRING, {}, Tables["ir_controller"].needs, ir_controller)
  BY DEF Tables, Table
<1>2. c = ir_controller
  BY <1>1 DEF Written, Table
<1>3. /\ A = ((IR_RAID_INT \cup IR_RAID_STRING) \ {}) \ IR_RAID_STRING
      /\ B = ((IR_RAID_INT \cup IR_RAID_STRING) \ {}) \cap IR_RAID_STRING
      /\ Tables["ir_controller"].strings = IR_RAID_STRING
  BY <1>1 DEF RowNames, Table
<1> HIDE DEF A, B, c
<1>4. Len(c) = 29 /\ c = [i \in 1..29 |-> c[i]]
  BY <1>2 DEF ir_controller
<1>5. \A i \in 1..29 : P[i] \in 1..132 /\ c[i] = Names[P[i]]
  BY <1>2 DEF ir_controller, Names
<1>6. /\ \A i, j \in 1..24 : i < j => P[i] < P[j]
      /\ \A i, j \in 25..29 : i < j => P[i] < P[j]
  OBVIOUS
<1>7. /\ \A i \in 1..24 : c[i] \in A
      /\ \A i \in 25..29 : c[i] \in B
  BY <1>2, <1>3 DEF ir_controller, IR_RAID_INT, IR_RAID_STRING
<1>8. \A x \in A : \E i \in 1..24 : x = c[i]
  BY <1>2, <1>3 DEF ir_controller, IR_RAID_INT, IR_RAID_STRING
<1>9. \A x \in B : \E i \in 25..29 : x = c[i]
  BY <1>2, <1>3 DEF ir_controller, IR_RAID_INT, IR_RAID_STRING
<1> HIDE DEF P
<1>10. 25 = 24 + 1 /\ 24 \in 0..29
  OBVIOUS
<1>11. Laid(A, B, c, 24, 25, 29, P)
  BY <1>4, <1>5, <1>6, <1>7, <1>8, <1>9, <1>10 DEF Laid
<1>12. QED
  BY <1>3, <1>11 DEF Fits, A, B, c

LEMMA IrPdLaid == Fits("ir_pd")
<1> DEFINE c == Written("ir_pd")
           P == <<28, 69, 70, 71, 84, 86, 100, 102, 104, 108, 117, 14, 91,
                 95, 98, 99, 106, 131>>
           A == RowNames("ir_pd") \ IR_PD_STRING
           B == RowNames("ir_pd") \cap IR_PD_STRING
<1>1. Tables["ir_pd"] = Table(IR_PD_INT, IR_PD_STRING, {}, Tables["ir_pd"].needs, ir_pd)
  BY DEF Tables, Table
<1>2. c = <<"diskType", "linkSpeed", "mediaErrCount", "mediatype",
            "otherErrCount", "pdAdpID", "pdState", "phyPos",
            "predFailCount", "rawSize", "slotNumber",
            "connectedAdapterPort", "pdFwversion",
            "pdOperationProgress", "pdSasAddr", "pdSerialNumber",
            "productID", "vendorID">>
  BY <1>1 DEF Written, ir_pd, Table
<1>3. /\ A = ((IR_PD_INT \cup IR_PD_STRING) \ {}) \ IR_PD_STRING
      /\ B = ((IR_PD_INT \cup IR_PD_STRING) \ {}) \cap IR_PD_STRING
      /\ Tables["ir_pd"].strings = IR_PD_STRING
  BY <1>1 DEF RowNames, Table
<1> HIDE DEF A, B, c
<1>4. Len(c) = 18 /\ c = [i \in 1..18 |-> c[i]]
  BY <1>2 DEF ir_pd
<1>5. \A i \in 1..18 : P[i] \in 1..132 /\ c[i] = Names[P[i]]
  BY <1>2 DEF ir_pd, Names
<1>6. /\ \A i, j \in 1..11 : i < j => P[i] < P[j]
      /\ \A i, j \in 12..18 : i < j => P[i] < P[j]
  OBVIOUS
<1>7. /\ \A i \in 1..11 : c[i] \in A
      /\ \A i \in 12..18 : c[i] \in B
  BY <1>2, <1>3 DEF ir_pd, IR_PD_INT, IR_PD_STRING
<1>8. \A x \in A : \E i \in 1..11 : x = c[i]
  BY <1>2, <1>3 DEF ir_pd, IR_PD_INT, IR_PD_STRING
<1>9. \A x \in B : \E i \in 12..18 : x = c[i]
  BY <1>2, <1>3 DEF ir_pd, IR_PD_INT, IR_PD_STRING
<1> HIDE DEF P
<1>10. 12 = 11 + 1 /\ 11 \in 0..18
  OBVIOUS
<1>11. Laid(A, B, c, 11, 12, 18, P)
  BY <1>4, <1>5, <1>6, <1>7, <1>8, <1>9, <1>10 DEF Laid
<1>12. QED
  BY <1>3, <1>11 DEF Fits, A, B, c

LEMMA IrVdLaid == Fits("ir_vd")
<1> DEFINE c == Written("ir_vd")
           P == <<19, 81, 105, 112, 115, 118, 119, 124, 126, 83, 93>>
           A == RowNames("ir_vd") \ IR_VD_STRING
           B == RowNames("ir_vd") \cap IR_VD_STRING
<1>1. Tables["ir_vd"] = Table(IR_VD_INT, IR_VD_STRING, {}, Tables["ir_vd"].needs, ir_vd)
  BY DEF Tables, Table
<1>2. c = ir_vd
  BY <1>1 DEF Written, Table
<1>3. /\ A = ((IR_VD_INT \cup IR_VD_STRING) \ {}) \ IR_VD_STRING
      /\ B = ((IR_VD_INT \cup IR_VD_STRING) \ {}) \cap IR_VD_STRING
      /\ Tables["ir_vd"].strings = IR_VD_STRING
  BY <1>1 DEF RowNames, Table
<1> HIDE DEF A, B, c
<1>4. Len(c) = 11 /\ c = [i \in 1..11 |-> c[i]]
  BY <1>2 DEF ir_vd
<1>5. \A i \in 1..11 : P[i] \in 1..132 /\ c[i] = Names[P[i]]
  BY <1>2 DEF ir_vd, Names
<1>6. /\ \A i, j \in 1..9 : i < j => P[i] < P[j]
      /\ \A i, j \in 10..11 : i < j => P[i] < P[j]
  OBVIOUS
<1>7. /\ \A i \in 1..9 : c[i] \in A
      /\ \A i \in 10..11 : c[i] \in B
  BY <1>2, <1>3 DEF ir_vd, IR_VD_INT, IR_VD_STRING
<1>8. \A x \in A : \E i \in 1..9 : x = c[i]
  BY <1>2, <1>3 DEF ir_vd, IR_VD_INT, IR_VD_STRING
<1>9. \A x \in B : \E i \in 10..11 : x = c[i]
  BY <1>2, <1>3 DEF ir_vd, IR_VD_INT, IR_VD_STRING
<1> HIDE DEF P
<1>10. 10 = 9 + 1 /\ 9 \in 0..11
  OBVIOUS
<1>11. Laid(A, B, c, 9, 10, 11, P)
  BY <1>4, <1>5, <1>6, <1>7, <1>8, <1>9, <1>10 DEF Laid
<1>12. QED
  BY <1>3, <1>11 DEF Fits, A, B, c

LEMMA NoIrControllerLaid == Fits("no_ir_controller")
<1> DEFINE c == Written("no_ir_controller")
           P == <<1, 3, 7, 8, 9, 11, 13, 15, 24, 38, 79, 80, 85, 88, 89, 90,
                 94, 96, 109, 110, 125, 128, 129, 130, 5, 10, 21, 22, 33,
                 35, 37, 107, 114, 120, 121>>
           A == RowNames("no_ir_controller") \ N_RAID_STRING
           B == RowNames("no_ir_controller") \cap N_RAID_STRING
<1>1. Tables["no_ir_controller"] = Table(N_RAID_INT, N_RAID_STRING, {}, Tables["no_ir_controller"].needs, no_ir_controller)
  BY DEF Tables, Table
<1>2. c = no_ir_controller
  BY <1>1 DEF Written, Table
<1>3. /\ A = ((N_RAID_INT \cup N_RAID_STRING) \ {}) \ N_RAID_STRING
      /\ B = ((N_RAID_INT \cup N_RAID_STRING) \ {}) \cap N_RAID_STRING
      /\ Tables["no_ir_controller"].strings = N_RAID_STRING
  BY <1>1 DEF RowNames, Table
<1> HIDE DEF A, B, c
<1>4. Len(c) = 35 /\ c = [i \in 1..35 |-> c[i]]
  BY <1>2 DEF no_ir_controller
<1>5. \A i \in 1..35 : P[i] \in 1..132 /\ c[i] = Names[P[i]]
  BY <1>2 DEF no_ir_controller, Names
<1>6. /\ \A i, j \in 1..24 : i < j => P[i] < P[j]
      /\ \A i, j \in 25..35 : i < j => P[i] < P[j]
  OBVIOUS
<1>7. /\ \A i \in 1..24 : c[i] \in A
      /\ \A i \in 25..35 : c[i] \in B
  BY <1>2, <1>3 DEF no_ir_controller, N_RAID_INT, N_RAID_STRING
<1>8. \A x \in A : \E i \in 1..24 : x = c[i]
  BY <1>2, <1>3 DEF no_ir_controller, N_RAID_INT, N_RAID_STRING
<1>9. \A x \in B : \E i \in 25..35 : x = c[i]
  BY <1>2, <1>3 DEF no_ir_controller, N_RAID_INT, N_RAID_STRING
<1> HIDE DEF P
<1>10. 25 = 24 + 1 /\ 24 \in 0..35
  OBVIOUS
<1>11. Laid(A, B, c, 24, 25, 35, P)
  BY <1>4, <1>5, <1>6, <1>7, <1>8, <1>9, <1>10 DEF Laid
<1>12. QED
  BY <1>3, <1>11 DEF Fits, A, B, c

LEMMA NoIrPdLaid == Fits("no_ir_pd")
<1> DEFINE c == Written("no_ir_pd")
           P == <<6, 25, 28, 69, 70, 71, 84, 92, 100, 103, 104, 108, 117,
                 14, 83, 91, 97, 99, 101, 113>>
           A == RowNames("no_ir_pd") \ N_PD_STRING
           B == RowNames("no_ir_pd") \cap N_PD_STRING
<1>1. Tables["no_ir_pd"] = Table(N_PD_INT, N_PD_STRING, {}, Tables["no_ir_pd"].needs, no_ir_pd)
  BY DEF Tables, Table
<1>2. c = no_ir_pd
  BY <1>1 DEF Written, Table
<1>3. /\ A = ((N_PD_INT \cup N_PD_STRING) \ {}) \ N_PD_STRING
      /\ B = ((N_PD_INT \cup N_PD_STRING) \ {}) \cap N_PD_STRING
      /\ Tables["no_ir_pd"].strings = N_PD_STRING
  BY <1>1 DEF RowNames, Table
<1> HIDE DEF A, B, c
<1>4. Len(c) = 20 /\ c = [i \in 1..20 |-> c[i]]
  BY <1>2 DEF no_ir_pd
<1>5. \A i \in 1..20 : P[i] \in 1..132 /\ c[i] = Names[P[i]]
  BY <1>2 DEF no_ir_pd, Names
<1>6. /\ \A i, j \in 1..13 : i < j => P[i] < P[j]
      /\ \A i, j \in 14..20 : i < j => P[i] < P[j]
  OBVIOUS
<1>7. /\ \A i \in 1..13 : c[i] \in A
      /\ \A i \in 14..20 : c[i] \in B
  BY <1>2, <1>3 DEF no_ir_pd, N_PD_INT, N_PD_STRING
<1>8. \A x \in A : \E i \in 1..13 : x = c[i]
  BY <1>2, <1>3 DEF no_ir_pd, N_PD_INT, N_PD_STRING
<1>9. \A x \in B : \E i \in 14..20 : x = c[i]
  BY <1>2, <1>3 DEF no_ir_pd, N_PD_INT, N_PD_STRING
<1> HIDE DEF P
<1>10. 14 = 13 + 1 /\ 13 \in 0..20
  OBVIOUS
<1>11. Laid(A, B, c, 13, 14, 20, P)
  BY <1>4, <1>5, <1>6, <1>7, <1>8, <1>9, <1>10 DEF Laid
<1>12. QED
  BY <1>3, <1>11 DEF Fits, A, B, c

LEMMA NoIrVdLaid == Fits("no_ir_vd")
<1> DEFINE c == Written("no_ir_vd")
           P == <<4, 12, 26, 81, 105, 112, 115, 118, 119, 132, 19, 93>>
           A == RowNames("no_ir_vd") \ N_VD_STRING
           B == RowNames("no_ir_vd") \cap N_VD_STRING
<1>1. Tables["no_ir_vd"] = Table(N_VD_INT, N_VD_STRING, {}, Tables["no_ir_vd"].needs, no_ir_vd)
  BY DEF Tables, Table
<1>2. c = no_ir_vd
  BY <1>1 DEF Written, Table
<1>3. /\ A = ((N_VD_INT \cup N_VD_STRING) \ {}) \ N_VD_STRING
      /\ B = ((N_VD_INT \cup N_VD_STRING) \ {}) \cap N_VD_STRING
      /\ Tables["no_ir_vd"].strings = N_VD_STRING
  BY <1>1 DEF RowNames, Table
<1> HIDE DEF A, B, c
<1>4. Len(c) = 12 /\ c = [i \in 1..12 |-> c[i]]
  BY <1>2 DEF no_ir_vd
<1>5. \A i \in 1..12 : P[i] \in 1..132 /\ c[i] = Names[P[i]]
  BY <1>2 DEF no_ir_vd, Names
<1>6. /\ \A i, j \in 1..10 : i < j => P[i] < P[j]
      /\ \A i, j \in 11..12 : i < j => P[i] < P[j]
  OBVIOUS
<1>7. /\ \A i \in 1..10 : c[i] \in A
      /\ \A i \in 11..12 : c[i] \in B
  BY <1>2, <1>3 DEF no_ir_vd, N_VD_INT, N_VD_STRING
<1>8. \A x \in A : \E i \in 1..10 : x = c[i]
  BY <1>2, <1>3 DEF no_ir_vd, N_VD_INT, N_VD_STRING
<1>9. \A x \in B : \E i \in 11..12 : x = c[i]
  BY <1>2, <1>3 DEF no_ir_vd, N_VD_INT, N_VD_STRING
<1> HIDE DEF P
<1>10. 11 = 10 + 1 /\ 10 \in 0..12
  OBVIOUS
<1>11. Laid(A, B, c, 10, 11, 12, P)
  BY <1>4, <1>5, <1>6, <1>7, <1>8, <1>9, <1>10 DEF Laid
<1>12. QED
  BY <1>3, <1>11 DEF Fits, A, B, c

(* No table knows the foreign name, nor does a filter.                     *)
LEMMA ForeignIsForeign ==
    \A t \in DOMAIN Tables :
        Foreign \notin Tables[t].ints \cup Tables[t].strings \cup Tables[t].filter
BY DEF Tables, Table, Foreign, PERFORM_STATUS, IF_STATUS, DISK_STATUS, STORAGE_STATUS,
   PERFORM_KEY_INT, PERFORM_KEY_STRING, DISK_KEY_INT, DISK_KEY_STRING,
   STORAGE_KEY_INT, STORAGE_KEY_STRING, NETWORK_KEY_INT, NETWORK_KEY_STRING,
   IR_RAID_INT, IR_RAID_STRING, IR_PD_INT, IR_PD_STRING, IR_VD_INT, IR_VD_STRING,
   N_RAID_INT, N_RAID_STRING, N_PD_INT, N_PD_STRING, N_VD_INT, N_VD_STRING

LEMMA AllFit == \A t \in DOMAIN Tables : Fits(t)
<1>1. DOMAIN Tables = {"server_perform", "network_io", "disk_io", "hrStorage",
                       "ir_controller", "ir_pd", "ir_vd", "no_ir_controller",
                       "no_ir_pd", "no_ir_vd"}
  BY DEF Tables
<1>2. QED
  BY <1>1, ServerPerformLaid, NetworkIoLaid, DiskIoLaid, HrstorageLaid, IrControllerLaid,
     IrPdLaid, IrVdLaid, NoIrControllerLaid, NoIrPdLaid, NoIrVdLaid

(* What stands in the rows of ir_pd is its columns, two of them exchanged. *)
LEMMA Exchanged ==
    \A t \in DOMAIN Tables :
        /\ Len(Tables[t].columns) = Len(Written(t)) /\ Len(Written(t)) \in Nat
        /\ DOMAIN Tables[t].columns = 1..Len(Written(t))
        /\ \A j \in DOMAIN Tables[t].columns :
              Written(t)[j] # Tables[t].columns[j] =>
                  t = "ir_pd" /\ Tables[t].columns[j] \in {"mediatype", "mediaErrCount"}
<1>1. ASSUME NEW t \in DOMAIN Tables, t # "ir_pd"
      PROVE  /\ Len(Tables[t].columns) \in Nat /\ Written(t) = Tables[t].columns
             /\ DOMAIN Tables[t].columns = 1..Len(Tables[t].columns)
  <2>1. Written(t) = Tables[t].columns
    BY <1>1 DEF Written
  <2>2. PICK e \in Nat : Len(Written(t)) = e /\ Written(t) = [i \in 1..e |-> Written(t)[i]]
    BY AllFit DEF Fits, Laid
  <2>3. QED
    BY <2>1, <2>2
<1>2. Tables["ir_pd"].columns = ir_pd
  BY DEF Tables, Table
<1>3. /\ Len(ir_pd) = 18 /\ DOMAIN ir_pd = 1..18
      /\ ir_pd[3] = "mediatype" /\ ir_pd[4] = "mediaErrCount"
  BY DEF ir_pd
<1>4. Len([ir_pd EXCEPT ![3] = "mediaErrCount", ![4] = "mediatype"]) = 18
  BY DEF ir_pd
<1>5. \A j \in 1..18 : Written("ir_pd")[j] # ir_pd[j] => j \in {3, 4}
  BY <1>3 DEF Written
<1>6. Len(Written("ir_pd")) = 18
  BY <1>4 DEF Written
<1>7. SUFFICES ASSUME NEW t \in DOMAIN Tables
      PROVE  /\ Len(Tables[t].columns) = Len(Written(t)) /\ Len(Written(t)) \in Nat
             /\ DOMAIN Tables[t].columns = 1..Len(Written(t))
             /\ \A j \in DOMAIN Tables[t].columns :
                   Written(t)[j] # Tables[t].columns[j] =>
                       t = "ir_pd" /\ Tables[t].columns[j] \in {"mediatype", "mediaErrCount"}
  OBVIOUS
<1>8. CASE t = "ir_pd"
  <2>1. Tables[t].columns = ir_pd /\ Len(Written(t)) = 18
    BY <1>2, <1>6, <1>8
  <2>2. \A j \in 1..18 : Written(t)[j] # ir_pd[j] => j \in {3, 4}
    BY <1>5, <1>8
  <2>3. \A j \in 1..18 : Written(t)[j] # ir_pd[j] => ir_pd[j] \in {"mediatype", "mediaErrCount"}
    BY <1>3, <2>2
  <2>4. Len(ir_pd) = Len(Written(t)) /\ DOMAIN ir_pd = 1..Len(Written(t))
        /\ Len(Written(t)) \in Nat
    BY <1>3, <2>1
  <2>5. \A j \in DOMAIN ir_pd : Written(t)[j] # ir_pd[j] =>
            ir_pd[j] \in {"mediatype", "mediaErrCount"}
    BY <1>3, <2>3
  <2>6. QED
    BY <1>8, <2>1, <2>4, <2>5
<1>9. CASE t # "ir_pd"
  BY <1>1, <1>9
<1>10. QED
  BY <1>8, <1>9

(* What is written are names of the row.                                   *)
LEMMA Placed ==
    \A t \in DOMAIN Tables : \A j \in 1..Len(Written(t)) : Written(t)[j] \in RowNames(t)
<1>1. SUFFICES ASSUME NEW t \in DOMAIN Tables, NEW j \in 1..Len(Written(t))
               PROVE  Written(t)[j] \in RowNames(t)
  OBVIOUS
<1> DEFINE A == RowNames(t) \ Tables[t].strings
           B == RowNames(t) \cap Tables[t].strings
<1>2. PICK k, h, P : \E e \in Nat : Laid(A, B, Written(t), k, h, e, P)
  BY AllFit DEF Fits
<1>3. PICK e \in Nat : Laid(A, B, Written(t), k, h, e, P)
  BY <1>2
<1>4. j \in 1..k \/ j \in h..e
  BY <1>1, <1>3 DEF Laid
<1>5. Written(t)[j] \in A \/ Written(t)[j] \in B
  BY <1>3, <1>4 DEF Laid
<1>6. QED
  BY <1>5

(* How long lists of names are.                                            *)
LEMMA SortedLength ==
    ASSUME NEW S, IsFiniteSet(S)
    PROVE  /\ Sorted(S) \in Seq({Sorted(S)[i] : i \in 1..Cardinality(S)})
           /\ Len(Sorted(S)) = Cardinality(S) /\ Cardinality(S) \in Nat
<1>1. Cardinality(S) \in Nat
  BY FS_CardinalityType
<1>2. \E f : Sorted(S) = [i \in 1..Cardinality(S) |-> f[i]]
  <2> DEFINE at == [x \in S |-> Cardinality({y \in S : Place[y] <= Place[x]})]
             f == [i \in 1..Cardinality(S) |-> CHOOSE x \in S : at[x] = i]
  <2>1. Sorted(S) = f
    BY DEF Sorted
  <2> HIDE DEF at
  <2>2. f = [i \in 1..Cardinality(S) |-> f[i]]
    OBVIOUS
  <2> HIDE DEF f
  <2>3. QED
    BY <2>1, <2>2
<1>3. QED
  BY <1>1, <1>2

LEMMA TwoLengths ==
    ASSUME NEW S, NEW T, IsFiniteSet(S), IsFiniteSet(T)
    PROVE  /\ Len(Sorted(S) \o Sorted(T)) = Cardinality(S) + Cardinality(T)
           /\ Cardinality(S) \in Nat /\ Cardinality(T) \in Nat
           /\ DOMAIN (Sorted(S) \o Sorted(T)) = 1..Len(Sorted(S) \o Sorted(T))
<1>1. PICK X : Sorted(S) \in Seq(X)
  BY SortedLength
<1>2. PICK Y : Sorted(T) \in Seq(Y)
  BY SortedLength
<1>3. Sorted(S) \in Seq(X \cup Y) /\ Sorted(T) \in Seq(X \cup Y)
  BY <1>1, <1>2
<1>4. Len(Sorted(S)) = Cardinality(S) /\ Cardinality(S) \in Nat
      /\ Len(Sorted(T)) = Cardinality(T) /\ Cardinality(T) \in Nat
  BY SortedLength
<1>5. /\ Len(Sorted(S) \o Sorted(T)) = Len(Sorted(S)) + Len(Sorted(T))
      /\ DOMAIN (Sorted(S) \o Sorted(T)) = 1..Len(Sorted(S) \o Sorted(T))
  BY <1>3
<1>6. QED
  BY <1>4, <1>5

(* The names of a row in the order of the maps are those written; with the *)
(* foreign name there is one more.                                         *)
LEMMA RowOrder ==
    ASSUME NEW t \in DOMAIN Tables, table = t
    PROVE  /\ Order(RowNames(t)) = Written(t)
           /\ Len(Order(RowNames(t) \cup {Foreign})) = Len(Written(t)) + 1
           /\ DOMAIN Order(RowNames(t) \cup {Foreign}) = 1..(Len(Written(t)) + 1)
           /\ DOMAIN Written(t) = 1..Len(Written(t))
<1> DEFINE A == RowNames(t) \ Tables[t].strings
           B == RowNames(t) \cap Tables[t].strings
           F == A \cup {Foreign}
<1>1. PICK k, h, P : \E e \in Nat : Laid(A, B, Written(t), k, h, e, P)
  BY AllFit DEF Fits
<1>2. PICK e \in Nat : Laid(A, B, Written(t), k, h, e, P)
  BY <1>1
<1>3. /\ Sorted(A) \o Sorted(B) = Written(t)
      /\ IsFiniteSet(A) /\ IsFiniteSet(B)
  BY <1>2, OrderIs
<1>5. Foreign \notin RowNames(t) /\ Foreign \notin Tables[t].strings
  BY ForeignIsForeign DEF RowNames
<1>6. /\ Order(RowNames(t)) = Sorted(A) \o Sorted(B)
      /\ Order(RowNames(t) \cup {Foreign}) = Sorted(F) \o Sorted(B)
  <2>1. /\ (RowNames(t) \cup {Foreign}) \ Tables[t].strings = F
        /\ (RowNames(t) \cup {Foreign}) \cap Tables[t].strings = B
    BY <1>5
  <2>2. QED
    BY <2>1 DEF Order, Kind
<1>7. IsFiniteSet(F) /\ Cardinality(F) = Cardinality(A) + 1
  BY <1>3, <1>5, FS_AddElement
<1> HIDE DEF A, B, F
<1>8. /\ Len(Sorted(A) \o Sorted(B)) = Cardinality(A) + Cardinality(B)
      /\ Len(Sorted(F) \o Sorted(B)) = Cardinality(F) + Cardinality(B)
      /\ Cardinality(A) \in Nat /\ Cardinality(B) \in Nat
      /\ DOMAIN (Sorted(A) \o Sorted(B)) = 1..Len(Sorted(A) \o Sorted(B))
      /\ DOMAIN (Sorted(F) \o Sorted(B)) = 1..Len(Sorted(F) \o Sorted(B))
  BY <1>3, <1>7, TwoLengths
<1>9. QED
  BY <1>3, <1>6, <1>7, <1>8

(* What is left of a message for its row: the names of the row, each with  *)
(* nothing or what was sent for it, and the foreign name if it was sent.   *)
LEMMA FilteredNames ==
    ASSUME NEW t \in DOMAIN Tables, table = t, NEW m \in Messages
    PROVE  LET map == Filtered(Built(m)) IN
           /\ DOMAIN map = IF Foreign \in DOMAIN map
                           THEN RowNames(t) \cup {Foreign} ELSE RowNames(t)
           /\ \A x \in DOMAIN map : map[x] \in {NULL, Empty} \/ map[x].of = x
<1> DEFINE K == Tables[t].ints \cup Tables[t].strings
           map == Filtered(Built(m))
<1>1. Kind = Tables[t] /\ Known = K
  BY DEF Kind, Known
<1>2. PICK N : /\ DOMAIN m = N
               /\ N \subseteq K \/ N = K \cup Tables[t].filter \/ N = K \cup {Foreign}
               /\ \A x \in N : m[x] \in {NULL, Empty} \/ m[x].of = x
  <2>1. CASE m \in {[x \in sent |-> Value(x)] : sent \in NameSets}
    <3>1. PICK N \in NameSets : m = [x \in N |-> Value(x)]
      BY <2>1
    <3>2. \A x : Value(x).of = x
      BY DEF Value
    <3>3. N \subseteq K \/ N = K \cup Tables[t].filter \/ N = K \cup {Foreign}
      BY <1>1 DEF NameSets
    <3>4. QED
      BY <3>1, <3>2, <3>3
  <2>2. ASSUME NEW s, NEW v \in {NULL, Empty},
               m = [x \in Known |-> IF x = s THEN v ELSE Value(x)]
        PROVE  DOMAIN m = K /\ \A x \in K : m[x] \in {NULL, Empty} \/ m[x].of = x
    <3>1. \A x : Value(x).of = x
      BY DEF Value
    <3>2. QED
      BY <1>1, <2>2, <3>1
  <2>3. QED
    BY <2>1, <2>2 DEF Messages
<1>3. /\ DOMAIN map = (K \cup N) \ Tables[t].filter
      /\ \A x \in DOMAIN map : map[x] = IF x \in N THEN m[x] ELSE NULL
  BY <1>1, <1>2 DEF Filtered, Built
<1>4. Foreign \notin K \cup Tables[t].filter
  BY ForeignIsForeign
<1> HIDE DEF map
<1>5. DOMAIN map = IF Foreign \in DOMAIN map
                   THEN RowNames(t) \cup {Foreign} ELSE RowNames(t)
  BY <1>2, <1>3, <1>4 DEF RowNames
<1>6. \A x \in DOMAIN map : map[x] \in {NULL, Empty} \/ map[x].of = x
  BY <1>2, <1>3
<1>7. QED
  BY <1>5, <1>6 DEF map

(* The row of a message.                                                   *)
LEMMA PushedRow ==
    ASSUME table \in DOMAIN Tables, NEW m \in Messages
    PROVE  LET map == Filtered(Built(m)) IN
           RightRow([values |-> Row(map), foreign |-> Foreign \in DOMAIN map])
<1> DEFINE map == Filtered(Built(m))
           order == Order(DOMAIN map)
           new == [values |-> Row(map), foreign |-> Foreign \in DOMAIN map]
<1>1. /\ Kind = Tables[table]
      /\ Len(Kind.columns) = Len(Written(table)) /\ Len(Written(table)) \in Nat
      /\ DOMAIN Kind.columns = 1..Len(Written(table))
  BY Exchanged DEF Kind
<1>2. Row(map) = [i \in DOMAIN order |-> map[order[i]]]
  BY DEF Row
<1> HIDE DEF order
<1>3. CASE Foreign \in DOMAIN map
  <2>1. DOMAIN map = RowNames(table) \cup {Foreign}
    BY <1>3, FilteredNames
  <2>2. Len(order) = Len(Written(table)) + 1 /\ DOMAIN order = 1..(Len(Written(table)) + 1)
    BY <2>1, RowOrder DEF order
  <2>3. Len(Row(map)) = Len(Written(table)) + 1
    BY <1>1, <1>2, <2>2
  <2>4. QED
    BY <1>1, <1>3, <2>3 DEF RightRow
<1>4. CASE Foreign \notin DOMAIN map
  <2>1. /\ DOMAIN map = RowNames(table)
        /\ \A x \in DOMAIN map : map[x] \in {NULL, Empty} \/ map[x].of = x
    BY <1>4, FilteredNames
  <2>2. order = Written(table) /\ DOMAIN order = 1..Len(Written(table))
    BY <2>1, RowOrder DEF order
  <2>3. Len(Row(map)) = Len(Written(table))
    BY <1>1, <1>2, <2>2
  <2>4. \A j \in 1..Len(Written(table)) : Written(table)[j] \in DOMAIN map
    BY <2>1, RowOrder, Placed
  <2>5. \A j \in 1..Len(Written(table)) :
            Row(map)[j] \in {NULL, Empty} \/ Row(map)[j].of = Written(table)[j]
    BY <1>2, <2>1, <2>2, <2>4
  <2>6. QED
    BY <1>1, <1>4, <2>3, <2>5 DEF RightRow
<1>5. QED
  BY <1>3, <1>4

(* RowsKept is inductive.                                                  *)
LEMMA RowsInit == ValuesInit => RowsKept
<1> SUFFICES ASSUME ValuesInit PROVE RowsKept
  OBVIOUS
<1>1. table \in DOMAIN Tables /\ batch = <<>> /\ flushed = <<>>
  BY DEF ValuesInit
<1>2. Range(<<>>) = {} /\ <<>> \in Seq(Range(<<>>))
  BY DEF Range
<1>3. QED
  BY <1>1, <1>2 DEF RowsKept

(* A row at the end of right rows.                                         *)
LEMMA OneMoreRow ==
    ASSUME NEW sent, NEW new, sent \in Seq(Range(sent))
    PROVE  /\ Append(sent, new) \in Seq(Range(Append(sent, new)))
           /\ Range(Append(sent, new)) = Range(sent) \cup {new}
<1> DEFINE more == Append(sent, new)
<1>1. /\ Len(sent) \in Nat /\ DOMAIN sent = 1..Len(sent)
      /\ more \in Seq(Range(sent) \cup {new})
      /\ Len(more) = Len(sent) + 1 /\ DOMAIN more = 1..(Len(sent) + 1)
      /\ more[Len(sent) + 1] = new
      /\ \A i \in 1..Len(sent) : more[i] = sent[i]
  OBVIOUS
<1> HIDE DEF more
<1>2. \A x : (\E i \in 1..(Len(sent) + 1) : more[i] = x) <=> x = new \/ \E i \in 1..Len(sent) : sent[i] = x
  <2>1. \A i \in 1..(Len(sent) + 1) : i \in 1..Len(sent) \/ i = Len(sent) + 1
    BY <1>1
  <2>2. \A i \in 1..Len(sent) : i \in 1..(Len(sent) + 1)
    BY <1>1
  <2>3. Len(sent) + 1 \in 1..(Len(sent) + 1)
    BY <1>1
  <2>4. QED
    BY <1>1, <2>1, <2>2, <2>3
<1>3. Range(more) = Range(sent) \cup {new}
  <2>1. \A x : x \in Range(more) <=> \E i \in 1..(Len(sent) + 1) : more[i] = x
    BY <1>1 DEF Range
  <2>2. \A x : x \in Range(sent) <=> \E i \in 1..Len(sent) : sent[i] = x
    BY <1>1 DEF Range
  <2>3. QED
    BY <1>2, <2>1, <2>2
<1>4. QED
  BY <1>1, <1>3 DEF more

LEMMA RowsStep == RowsKept /\ [ValuesNext]_valueVars => RowsKept'
<1> SUFFICES ASSUME RowsKept, [ValuesNext]_valueVars PROVE RowsKept'
  OBVIOUS
<1>1. CASE UNCHANGED valueVars
  BY <1>1 DEF RowsKept, RightRow, Kind, valueVars, NULL, Empty
<1>2. CASE ValuesNext
  <2>1. PICK m \in Messages : StoreValues(m)
    BY <1>2 DEF ValuesNext
  <2> DEFINE map == Filtered(Built(m))
             new == [values |-> Row(map), foreign |-> Foreign \in DOMAIN map]
             full == Append(batch, new)
  <2>2. table \in DOMAIN Tables /\ table' = table
    BY <2>1 DEF RowsKept, StoreValues
  <2>3. RightRow(new)
    BY <2>2, PushedRow
  <2>4. batch \in Seq(Range(batch)) /\ flushed \in Seq(Range(flushed))
    BY DEF RowsKept
  <2>5. Range(<<>>) = {} /\ <<>> \in Seq(Range(<<>>))
    BY DEF Range
  <2>6. full \in Seq(Range(full)) /\ Range(full) = Range(batch) \cup {new}
    BY <2>4, OneMoreRow
  <2>7. \/ UNCHANGED <<batch, flushed>>
        \/ batch' = full /\ UNCHANGED flushed
        \/ batch' = <<>> /\ flushed' = full
    BY <2>1 DEF StoreValues, Push
  <2> HIDE DEF full, new
  <2>8. \A sent \in {batch', flushed'} :
            sent \in Seq(Range(sent)) /\ \A r \in Range(sent) : RightRow(r)
    BY <2>3, <2>4, <2>5, <2>6, <2>7 DEF RowsKept
  <2>9. \A r : RightRow(r) => RightRow(r)'
    BY <2>2 DEF RightRow, Kind, NULL, Empty
  <2>10. QED
    BY <2>2, <2>8, <2>9 DEF RowsKept
<1>3. QED
  BY <1>1, <1>2

LEMMA RowsAlways == ValuesSpec => []RowsKept
BY RowsInit, RowsStep, PTL DEF ValuesSpec

(* The rows of the batch sent last, by their numbers.                      *)
LEMMA FlushedRows ==
    ASSUME RowsKept
    PROVE  /\ table \in DOMAIN Tables /\ Kind = Tables[table]
           /\ \A i \in DOMAIN flushed : RightRow(flushed[i])
BY DEF RowsKept, Range, Kind

(* A batch is refused for a foreign name in one of its rows, and for        *)
(* nothing else: names that are missing leave their places (MagicMap.cc:198).*)
THEOREM ForeignNameRefused == ValuesSpec => []RefusedForForeignName
<1>1. ASSUME RowsKept PROVE RefusedForForeignName
  <2>1. Len(Kind.columns) \in Nat
    BY <1>1, FlushedRows, Exchanged
  <2>2. ASSUME NEW i \in DOMAIN flushed
        PROVE  Len(flushed[i].values) # Len(Kind.columns) <=> flushed[i].foreign
    BY <1>1, <2>1, FlushedRows DEF RightRow
  <2>3. QED
    BY <2>2 DEF RefusedForForeignName, Refused
<1>2. QED
  BY <1>1, RowsAlways, PTL

(* In every table but ir_pd each value gets under its own name, and there  *)
(* only mediatype and mediaErrCount do not (DataBaseContainer.cc:221).     *)
THEOREM IrPdAlone == ValuesSpec => []OnlyIrPdMisplaced
<1>1. ASSUME RowsKept, ~Refused,
             NEW j \in DOMAIN Kind.columns, Misplaced(Kind.columns[j])
      PROVE  table = "ir_pd" /\ Kind.columns[j] \in {"mediatype", "mediaErrCount"}
  <2>1. PICK i \in DOMAIN flushed, m \in DOMAIN Kind.columns :
             /\ Kind.columns[m] = Kind.columns[j]
             /\ flushed[i].values[m] \notin {NULL, Empty}
             /\ flushed[i].values[m].of # Kind.columns[j]
    BY <1>1 DEF Misplaced
  <2>2. RightRow(flushed[i]) /\ Len(flushed[i].values) = Len(Kind.columns)
    BY <1>1, FlushedRows DEF Refused
  <2>3. Len(Kind.columns) \in Nat
    BY <1>1, FlushedRows, Exchanged
  <2>4. flushed[i].values[m].of = Written(table)[m]
    BY <2>1, <2>2, <2>3 DEF RightRow
  <2>5. QED
    BY <1>1, <2>1, <2>4, FlushedRows, Exchanged
<1>2. ASSUME RowsKept PROVE OnlyIrPdMisplaced
  BY <1>1, <1>2 DEF OnlyIrPdMisplaced
<1>3. QED
  BY <1>2, RowsAlways, PTL
-----------------------------------------------------------------------------
(***************************************************************************)
(* Speeds (module Speed): any pool of workers, any width of the counter, any*)
(* traffic and any number of samples, stored in any order.                 *)
(***************************************************************************)

USE SpeedAssumption

(* Neither a time nor a counter ever reaches the width of the arithmetic,  *)
(* so a difference is the true one if it is not negative.                  *)
LEMMA TrueDifference ==
    ASSUME NEW a \in Nat, NEW b \in Nat, b <= a, a < ArithSize
    PROVE  Minus(a, b) = a - b
BY DEF Minus

(* A speed of which the octets are at most the traffic does not overstate. *)
LEMMA FairShare ==
    ASSUME NEW o \in Nat, NEW d \in Nat, NEW q \in Nat, o <= q
    PROVE  o * d <= d * q
<1>1. PICK r \in Nat : q = o + r
  <2>1. q - o \in Nat /\ q = o + (q - o)
    OBVIOUS
  <2>2. QED
    BY <2>1
<1>2. d * q = o * d + d * r /\ d * r \in Nat /\ o * d \in Nat
  BY <1>1
<1>3. QED
  BY <1>2

LEMMA CountTypes ==
    /\ NoCount \notin 0..(CounterSize - 1)
    /\ None \notin Sample
    /\ \A s \in Sample : s.count # NoCount => s.count \in 0..(CounterSize - 1)
BY DEF NoCount, None, Sample
-----------------------------------------------------------------------------
(* What out_speed is, by its guards.                                       *)
LEMMA OutMeaning ==
    ASSUME NEW s \in Sample, NEW p \in Sample \cup {None},
           s.time < ArithSize, p.time < ArithSize
    PROVE  \/ OutSpeed(s, p) = Zero
           \/ /\ s.count # NoCount /\ p.count # NoCount
              /\ s.time > p.time /\ s.count > p.count
              /\ OutSpeed(s, p) = [octets |-> s.count - p.count, seconds |-> s.time - p.time]
<1>1. CASE ~(Comparable(s, p) /\ s.time > p.time /\ s.count > p.count)
  BY <1>1 DEF OutSpeed
<1>2. CASE Comparable(s, p) /\ s.time > p.time /\ s.count > p.count
  <2>1. s.count # NoCount /\ p.count # NoCount /\ p \in Sample
    BY <1>2 DEF Comparable, None
  <2>2. s.count \in 0..(CounterSize - 1) /\ p.count \in 0..(CounterSize - 1)
    BY <2>1, CountTypes
  <2>3. Minus(s.count, p.count) = s.count - p.count
    BY <1>2, <2>2, TrueDifference
  <2>4. Minus(s.time, p.time) = s.time - p.time
    BY <1>2, <2>1, TrueDifference DEF Sample
  <2>5. QED
    BY <1>2, <2>1, <2>3, <2>4 DEF OutSpeed, Over
<1>3. QED
  BY <1>1, <1>2

(* in_speed is the same when both the counter and the time have grown.     *)
LEMMA InMeaning ==
    ASSUME NEW s \in Sample, NEW p \in Sample \cup {None},
           s.time < ArithSize, p.time < ArithSize
    PROVE  \/ InSpeed(s, p) = Zero
           \/ s.count # NoCount /\ p.count # NoCount
              /\ (s.count < p.count \/ s.time < p.time)
           \/ /\ s.count # NoCount /\ p.count # NoCount
              /\ s.time > p.time /\ s.count > p.count
              /\ InSpeed(s, p) = [octets |-> s.count - p.count, seconds |-> s.time - p.time]
<1>1. CASE ~Comparable(s, p)
  BY <1>1 DEF InSpeed
<1>2. CASE Comparable(s, p) /\ s.count >= p.count /\ s.time >= p.time
  <2>1. s.count # NoCount /\ p.count # NoCount /\ p \in Sample
    BY <1>2 DEF Comparable, None
  <2>2. s.count \in 0..(CounterSize - 1) /\ p.count \in 0..(CounterSize - 1)
    BY <2>1, CountTypes
  <2>3. Minus(s.count, p.count) = s.count - p.count
    BY <1>2, <2>2, TrueDifference
  <2>4. Minus(s.time, p.time) = s.time - p.time /\ s.time \in Nat /\ p.time \in Nat
    BY <1>2, <2>1, TrueDifference DEF Sample
  <2>5. CASE s.time > p.time /\ s.count > p.count
    BY <2>1, <2>3, <2>4, <2>5 DEF InSpeed, Over
  <2>6. CASE s.time = p.time \/ s.count = p.count
    <3>1. ~(Minus(s.time, p.time) > 0 /\ Minus(s.count, p.count) > 0)
      BY <2>2, <2>3, <2>4, <2>6
    <3>2. QED
      BY <3>1 DEF InSpeed
  <2>7. QED
    BY <1>2, <2>2, <2>4, <2>5, <2>6
<1>3. CASE Comparable(s, p) /\ ~(s.count >= p.count /\ s.time >= p.time)
  <2>1. s.count # NoCount /\ p.count # NoCount /\ p \in Sample
    BY <1>3 DEF Comparable, None
  <2>2. s.count \in Nat /\ p.count \in Nat /\ s.time \in Nat /\ p.time \in Nat
    BY <2>1, CountTypes DEF Sample
  <2>3. QED
    BY <1>3, <2>1, <2>2
<1>4. QED
  BY <1>1, <1>2, <1>3
-----------------------------------------------------------------------------
(* At first there is no sample.                                            *)
LEMMA InitInv == Init => IInv
<1> SUFFICES ASSUME Init PROVE IInv
  OBVIOUS
<1>1. TypeOK
  BY DEF Init, TypeOK
<1>2. Fresh \subseteq {None} /\ Samples = {}
  BY DEF Init, Fresh, Samples
<1>3. FreshAsMeasured /\ SamplesOfThePast
  BY <1>2 DEF FreshAsMeasured, SamplesOfThePast, None
<1>4. SpeedsKept
  <2>1. speeds.old = None /\ speeds.in = Zero /\ speeds.disk = Zero /\ None.count = NoCount
    BY DEF Init, None
  <2>2. QED
    BY <2>1 DEF SpeedsKept, OutOverstatedOnlyAfterGap, InOverstatedOnlyBackwards,
                DiskOverstatedOnlyFirst
<1>5. QED
  BY <1>1, <1>3, <1>4 DEF IInv

(* What every sample is.                                                   *)
LEMMA SampleTypes ==
    ASSUME TypeOK, NEW s \in Samples
    PROVE  /\ s \in Sample /\ s.time \in Nat /\ s.measured \in Nat /\ s.total \in Nat
           /\ s.count # NoCount => s.count \in 0..(CounterSize - 1)
<1>1. s \in Sample
  BY DEF TypeOK, Samples, Fresh
<1>2. QED
  BY <1>1, CountTypes DEF Sample

(* While the server stands still, samples whose readings were there before *)
(* are still readings of the past.                                         *)
LEMMA SameReadings ==
    ASSUME SamplesOfThePast, UNCHANGED server,
           \A s \in Samples' : /\ s.time <= clock
                               /\ \E r \in Samples : /\ s.measured = r.measured
                                                     /\ s.total = r.total /\ s.count = r.count
    PROVE  SamplesOfThePast'
<1>1. ASSUME NEW s \in Samples' PROVE Past(s)'
  <2>1. PICK r \in Samples : s.measured = r.measured /\ s.total = r.total /\ s.count = r.count
    OBVIOUS
  <2>2. Past(r)
    BY DEF SamplesOfThePast
  <2>3. QED
    BY <2>1, <2>2 DEF Past, server
<1>2. ASSUME NEW s \in Samples', NEW t \in Samples' PROVE InOrder(s, t)'
  <2>1. PICK r \in Samples : s.measured = r.measured /\ s.total = r.total /\ s.count = r.count
    OBVIOUS
  <2>2. PICK q \in Samples : t.measured = q.measured /\ t.total = q.total /\ t.count = q.count
    OBVIOUS
  <2>3. InOrder(r, q)
    BY DEF SamplesOfThePast
  <2>4. QED
    BY <2>1, <2>2, <2>3 DEF InOrder
<1>3. QED
  BY <1>1, <1>2 DEF SamplesOfThePast

(* The stored speeds only change when a sample is stored.                  *)
LEMMA SpeedsStay ==
    ASSUME SpeedsKept, UNCHANGED speeds
    PROVE  SpeedsKept'
BY DEF SpeedsKept, OutOverstatedOnlyAfterGap, InOverstatedOnlyBackwards,
       DiskOverstatedOnlyFirst, Overstated, Gap
-----------------------------------------------------------------------------
(* After a tick every reading is of the past, and the counter has grown by *)
(* at most the traffic of the tick.                                        *)
LEMMA TickStep ==
    ASSUME IInv, NEW u \in 0..MaxBurst, Tick(u)
    PROVE  IInv'
<1> USE DEF IInv
<1>1. /\ clock \in Nat /\ clock' = clock + 1 /\ clock < MaxClock
      /\ count \in Nat /\ count' = (count + u) % CounterSize
      /\ total \in Nat /\ u \in Nat /\ total' = total + u
      /\ UNCHANGED <<collected, wire, row, hand, prev, result, speeds>>
  BY DEF Tick, TypeOK
<1>2. count' \in 0..(CounterSize - 1) /\ count' <= count + u
  BY <1>1
<1>3. TypeOK'
  BY <1>1, <1>2 DEF TypeOK
<1>4. Fresh' = Fresh /\ Samples' = Samples
  BY <1>1 DEF Fresh, Samples
<1>5. FreshAsMeasured'
  BY <1>4 DEF FreshAsMeasured
<1>6. ASSUME NEW s \in Samples PROVE Past(s)'
  <2>1. Past(s)
    BY DEF SamplesOfThePast
  <2>2. QED
    BY <1>1, <1>2, <2>1, SampleTypes DEF Past
<1>7. SamplesOfThePast'
  BY <1>4, <1>6 DEF SamplesOfThePast, InOrder
<1>8. QED
  BY <1>1, <1>3, <1>5, <1>7, SpeedsStay

(* A reboot lowers the counter.                                            *)
LEMMA RebootStep ==
    ASSUME IInv, Reboot
    PROVE  IInv'
<1> USE DEF IInv
<1>1. /\ count' = 0 /\ count \in Nat
      /\ UNCHANGED <<clock, total, collected, wire, row, hand, prev, result, speeds>>
  BY DEF Reboot, TypeOK
<1>2. TypeOK'
  BY <1>1 DEF TypeOK
<1>3. Fresh' = Fresh /\ Samples' = Samples
  BY <1>1 DEF Fresh, Samples
<1>4. FreshAsMeasured'
  BY <1>3 DEF FreshAsMeasured
<1>5. ASSUME NEW s \in Samples PROVE Past(s)'
  <2>1. Past(s)
    BY DEF SamplesOfThePast
  <2>2. QED
    BY <1>1, <2>1, SampleTypes DEF Past, TypeOK
<1>6. SamplesOfThePast'
  BY <1>3, <1>5 DEF SamplesOfThePast, InOrder
<1>7. QED
  BY <1>1, <1>2, <1>4, <1>6, SpeedsStay

(* A new sample is at the end of the order: all others are of the past.    *)
LEMMA CollectStep ==
    ASSUME IInv, Collect
    PROVE  IInv'
<1> USE DEF IInv
<1>1. PICK c \in {count, NoCount} : wire' = wire \cup {Now(c)}
  BY DEF Collect
<1>2. /\ collected' \in Nat
      /\ UNCHANGED <<clock, count, total, row, hand, prev, result, speeds>>
  BY DEF Collect, TypeOK
<1> DEFINE new == Now(c)
<1>3. /\ new \in Sample
      /\ new.time = clock /\ new.measured = clock /\ new.total = total /\ new.count = c
  BY DEF Now, Sample, TypeOK
<1> HIDE DEF new
<1>4. TypeOK'
  BY <1>1, <1>2, <1>3 DEF TypeOK, new
<1>5. Fresh' = Fresh \cup {new} /\ Samples' \subseteq Samples \cup {new}
  BY <1>1, <1>2 DEF Fresh, Samples, new
<1>6. FreshAsMeasured'
  BY <1>3, <1>5 DEF FreshAsMeasured
<1>7. ASSUME NEW s \in Samples' PROVE Past(s)'
  <2>1. CASE s = new
    BY <1>2, <1>3, <2>1 DEF Past, TypeOK
  <2>2. CASE s \in Samples
    BY <1>2, <2>2 DEF SamplesOfThePast, Past
  <2>3. QED
    BY <1>5, <2>1, <2>2
<1>8. ASSUME NEW s \in Samples', NEW t \in Samples' PROVE InOrder(s, t)'
  <2>1. CASE s \in Samples /\ t \in Samples
    BY <2>1 DEF SamplesOfThePast, InOrder
  <2>2. CASE s = new
    <3>1. t.measured <= clock /\ t.measured \in Nat
      BY <1>2, <1>4, <1>7 DEF Past, TypeOK, Samples, Fresh, Sample
    <3>2. QED
      BY <1>3, <2>2, <3>1 DEF InOrder, TypeOK
  <2>3. CASE s \in Samples /\ t = new
    <3>1. Past(s)
      BY <2>3 DEF SamplesOfThePast
    <3>2. QED
      BY <1>1, <1>3, <2>3, <3>1 DEF InOrder, Past
  <2>4. QED
    BY <1>5, <2>1, <2>2, <2>3
<1>9. SamplesOfThePast'
  BY <1>7, <1>8 DEF SamplesOfThePast
<1>10. QED
  BY <1>2, <1>4, <1>6, <1>9, SpeedsStay

(* A worker moves a sample from the wire and perhaps copies the row.       *)
LEMMA LookStep ==
    ASSUME IInv, NEW w \in Workers, Look(w)
    PROVE  IInv'
<1> USE DEF IInv
<1>1. PICK s \in wire : hand' = [hand EXCEPT ![w] = s] /\ wire' = wire \ {s}
  BY DEF Look
<1>2. PICK r \in BOOLEAN : /\ result' = [result EXCEPT ![w] = r]
                           /\ prev' = [prev EXCEPT ![w] = IF r THEN row ELSE None]
  BY DEF Look
<1>3. UNCHANGED <<server, row, speeds>>
  BY DEF Look
<1>4. TypeOK'
  BY <1>1, <1>2, <1>3 DEF TypeOK, server
<1>5. \A v \in Workers : /\ hand'[v] \in {hand[v], s}
                         /\ prev'[v] \in {prev[v], row, None}
  BY <1>1, <1>2 DEF TypeOK
<1>6. Fresh' \subseteq Fresh
  BY <1>1, <1>5 DEF Fresh
<1>7. Samples' \subseteq Samples
  BY <1>3, <1>5, <1>6 DEF Samples
<1>8. FreshAsMeasured'
  BY <1>6 DEF FreshAsMeasured
<1>9. SamplesOfThePast'
  BY <1>3, <1>7 DEF SamplesOfThePast, Past, InOrder, server
<1>10. QED
  BY <1>3, <1>4, <1>8, <1>9, SpeedsStay
-----------------------------------------------------------------------------
(* What a worker holds when it computes the speeds.                        *)
LEMMA Held ==
    ASSUME IInv, NEW w \in Workers, hand[w] # None
    PROVE  /\ hand[w] \in Samples /\ hand[w] \in Sample
           /\ hand[w].time = hand[w].measured /\ hand[w].time < ArithSize
           /\ prev[w] \in Sample \cup {None} /\ prev[w].time < ArithSize
           /\ prev[w] # None => prev[w] \in Samples
<1> USE DEF IInv
<1>1. hand[w] \in Samples /\ hand[w].time = hand[w].measured
  BY DEF Samples, Fresh, FreshAsMeasured
<1>2. prev[w] # None => prev[w] \in Samples
  BY DEF Samples
<1>3. \A s \in Samples : s.time < ArithSize
  BY SampleTypes DEF SamplesOfThePast, Past, TypeOK
<1>4. None.time < ArithSize
  BY DEF None
<1>5. QED
  BY <1>1, <1>2, <1>3, <1>4, SampleTypes DEF TypeOK

(* The counter of a sample, minus that of an older row without a gap, is at*)
(* most the traffic between them.                                          *)
LEMMA NotOverstated ==
    ASSUME IInv, NEW s \in Samples, NEW p \in Samples,
           s.time = s.measured, p.time = p.measured,
           s.count # NoCount, p.count # NoCount, s.time > p.time, s.count > p.count
    PROVE  (s.count - p.count) * Distance(s.time, p.measured)
               <= (s.time - p.time) * Distance(s.total, p.total)
<1>1. /\ s.count \in Nat /\ p.count \in Nat /\ s.time \in Nat /\ p.time \in Nat
      /\ s.total \in Nat /\ p.total \in Nat
  BY SampleTypes DEF IInv
<1>2. InOrder(p, s)
  BY DEF IInv, SamplesOfThePast
<1>3. p.total <= s.total /\ s.count - p.count <= s.total - p.total
  BY <1>1, <1>2 DEF InOrder
<1>4. /\ Distance(s.time, p.measured) = s.time - p.time
      /\ Distance(s.total, p.total) = s.total - p.total
  BY <1>1, <1>3 DEF Distance
<1>5. /\ s.count - p.count \in Nat /\ s.time - p.time \in Nat /\ s.total - p.total \in Nat
  BY <1>1, <1>3
<1>6. QED
  BY <1>3, <1>4, <1>5, FairShare

(* The zero of a guard that fails overstates nothing.                      *)
LEMMA ZeroIsNone ==
    ASSUME NEW a \in Nat, NEW b \in Nat, NEW c \in Nat, NEW d \in Nat
    PROVE  ~(Zero.octets * Distance(a, b) > Zero.seconds * Distance(c, d))
<1>1. Distance(a, b) \in Nat /\ Distance(c, d) \in Nat
  BY DEF Distance
<1>2. Zero.octets * Distance(a, b) = 0 /\ Zero.seconds * Distance(c, d) = Distance(c, d)
  BY <1>1 DEF Zero
<1>3. QED
  BY <1>1, <1>2

LEMMA StoreSpeeds ==
    ASSUME IInv, NEW w \in Workers, Store(w)
    PROVE  SpeedsKept'
<1> DEFINE s == hand[w]
           p == prev[w]
<1>1. /\ speeds'.cur = s /\ speeds'.old = p
      /\ speeds'.in = InSpeed(s, p) /\ speeds'.out = OutSpeed(s, p)
      /\ speeds'.disk = DiskSpeed(s, p, result[w])
      /\ s # None
  BY DEF Store
<1>2. /\ s \in Samples /\ s \in Sample /\ s.time = s.measured /\ s.time < ArithSize
      /\ p \in Sample \cup {None} /\ p.time < ArithSize
      /\ p # None => p \in Samples
  BY <1>1, Held
<1> HIDE DEF s, p
<1>3. p.count # NoCount => p # None
  BY DEF None
<1>4. ASSUME p # None, p.time = p.measured, NEW x,
             \/ x = Zero
             \/ /\ s.count # NoCount /\ p.count # NoCount
                /\ s.time > p.time /\ s.count > p.count
                /\ x = [octets |-> s.count - p.count, seconds |-> s.time - p.time]
      PROVE  ~(x.octets * Distance(s.time, p.measured) > x.seconds * Distance(s.total, p.total))
  <2>1. /\ s.time \in Nat /\ p.measured \in Nat /\ s.total \in Nat /\ p.total \in Nat
        /\ p \in Samples
    BY <1>2, <1>4, SampleTypes DEF IInv
  <2>2. CASE x = Zero
    BY <2>1, <2>2, ZeroIsNone
  <2>3. CASE x # Zero
    <3>1. s.count # NoCount /\ p.count # NoCount /\ s.time > p.time /\ s.count > p.count
      BY <1>4, <2>3
    <3>2. x.octets = s.count - p.count /\ x.seconds = s.time - p.time
      BY <1>4, <2>3
    <3>3. x.octets * Distance(s.time, p.measured) <= x.seconds * Distance(s.total, p.total)
      BY <1>2, <1>4, <2>1, <3>1, <3>2, NotOverstated
    <3>4. /\ s.count \in Nat /\ p.count \in Nat /\ s.time \in Nat /\ p.time \in Nat
      BY <1>2, <2>1, <3>1, SampleTypes DEF IInv
    <3>5. x.octets \in Int /\ x.seconds \in Int
      BY <3>2, <3>4
    <3>6. /\ Distance(s.time, p.measured) \in Int /\ Distance(s.total, p.total) \in Int
      BY <2>1 DEF Distance
    <3>7. QED
      BY <3>3, <3>5, <3>6
  <2>4. QED
    BY <2>2, <2>3
<1>5. OutOverstatedOnlyAfterGap'
  BY <1>1, <1>2, <1>4, OutMeaning DEF OutOverstatedOnlyAfterGap, Overstated, Gap
<1>6. InOverstatedOnlyBackwards'
  <2>1. p = None => InSpeed(s, p) = Zero
    BY <1>3 DEF InSpeed, Comparable
  <2>2. QED
    BY <1>1, <1>2, <1>4, <2>1, InMeaning DEF InOverstatedOnlyBackwards, Overstated, Gap
<1>7. DiskOverstatedOnlyFirst'
  <2>1. CASE p.count # NoCount
    <3>1. DiskSpeed(s, p, result[w]) \in {Zero, OutSpeed(s, p)}
      BY <2>1 DEF DiskSpeed, FromZero
    <3>2. QED
      BY <1>1, <1>2, <1>3, <1>4, <2>1, <3>1, OutMeaning
         DEF DiskOverstatedOnlyFirst, Overstated, Gap
  <2>2. CASE p.count = NoCount
    <3> DEFINE q == [p EXCEPT !.count = 0]
    <3>1. DiskSpeed(s, p, result[w]) \in {Zero, OutSpeed(s, q)}
      BY <2>2 DEF DiskSpeed, FromZero
    <3>2. q.count = 0 /\ q.time = p.time /\ p.time \in Nat
      BY <1>2 DEF Sample, None
    <3> HIDE DEF q
    <3>3. CASE ~(s.count # NoCount /\ s.time > q.time /\ s.count > q.count)
      <4>1. OutSpeed(s, q) = Zero
        BY <3>3 DEF OutSpeed, Comparable
      <4>2. QED
        BY <1>1, <2>2, <3>1, <4>1 DEF DiskOverstatedOnlyFirst
    <3>4. CASE s.count # NoCount /\ s.time > q.time /\ s.count > q.count
      <4>1. s.count \in 0..(CounterSize - 1) /\ s.time \in Nat
        BY <1>2, <3>4, CountTypes DEF Sample
      <4>2. Minus(s.count, q.count) = s.count /\ Minus(s.time, q.time) = s.time - p.time
        BY <1>2, <3>2, <3>4, <4>1, TrueDifference
      <4>3. OutSpeed(s, q) \in {Zero, [octets |-> s.count, seconds |-> s.time - p.time]}
        BY <4>2 DEF OutSpeed, Over
      <4>4. QED
        BY <1>1, <2>2, <3>1, <4>3 DEF DiskOverstatedOnlyFirst
    <3>5. QED
      BY <3>3, <3>4
  <2>3. QED
    BY <2>1, <2>2
<1>8. QED
  BY <1>5, <1>6, <1>7 DEF SpeedsKept

(* A sample without the counter gives the row its time, not its reading.   *)
LEMMA StoreStep ==
    ASSUME IInv, NEW w \in Workers, Store(w)
    PROVE  IInv'
<1> USE DEF IInv
<1>1. /\ hand[w] # None /\ row' = Merged(hand[w])
      /\ hand' = [hand EXCEPT ![w] = None] /\ prev' = [prev EXCEPT ![w] = None]
      /\ result' = [result EXCEPT ![w] = FALSE]
      /\ UNCHANGED <<server, wire>>
  BY DEF Store
<1>2. \/ row' = hand[w]
      \/ row # None /\ row' = [row EXCEPT !.time = hand[w].time]
  BY <1>1 DEF Merged
<1>3. hand[w] \in Samples /\ hand[w] \in Sample /\ hand[w].time \in Nat /\ hand[w].time <= clock
  BY <1>1, Held, SampleTypes DEF SamplesOfThePast, Past
<1>4. row # None => row \in Samples /\ row \in Sample
  BY DEF Samples, TypeOK
<1>5. /\ row' \in Sample /\ row'.time <= clock
      /\ \E r \in Samples : /\ row'.measured = r.measured
                            /\ row'.total = r.total /\ row'.count = r.count
  <2>1. CASE row' = hand[w]
    BY <1>3, <2>1
  <2>2. CASE row # None /\ row' = [row EXCEPT !.time = hand[w].time]
    <3>1. /\ row' \in Sample /\ row'.time = hand[w].time
          /\ row'.measured = row.measured /\ row'.total = row.total /\ row'.count = row.count
      BY <1>3, <1>4, <2>2 DEF Sample
    <3>2. QED
      BY <1>3, <1>4, <2>2, <3>1
  <2>3. QED
    BY <1>2, <2>1, <2>2
<1>6. TypeOK'
  BY <1>1, <1>5 DEF TypeOK, server
<1>7. \A v \in Workers : hand'[v] \in {hand[v], None} /\ prev'[v] \in {prev[v], None}
  BY <1>1 DEF TypeOK
<1>8. Fresh' \subseteq Fresh \cup {None}
  BY <1>1, <1>7 DEF Fresh
<1>9. FreshAsMeasured'
  BY <1>8 DEF FreshAsMeasured, None
<1>10. Samples' \subseteq Samples \cup {row'}
  BY <1>7, <1>8 DEF Samples
<1>11. SamplesOfThePast'
  <2>1. \A s \in Samples : s.time <= clock
    BY DEF SamplesOfThePast, Past
  <2>2. QED
    BY <1>1, <1>5, <1>10, <2>1, SameReadings
<1>12. QED
  BY <1>6, <1>9, <1>11, StoreSpeeds
-----------------------------------------------------------------------------
LEMMA NextInv == IInv /\ [Next]_vars => IInv'
<1> SUFFICES ASSUME IInv, [Next]_vars PROVE IInv'
  OBVIOUS
<1>1. CASE UNCHANGED vars
  <2>1. TypeOK'
    BY <1>1 DEF IInv, TypeOK, vars, server
  <2>2. Fresh' = Fresh /\ Samples' = Samples
    BY <1>1 DEF Fresh, Samples, vars
  <2>3. FreshAsMeasured' /\ SamplesOfThePast'
    BY <1>1, <2>2 DEF IInv, FreshAsMeasured, SamplesOfThePast, Past, InOrder, vars, server
  <2>4. QED
    BY <1>1, <2>1, <2>3, SpeedsStay DEF IInv, vars
<1>2. QED
  BY <1>1, TickStep, RebootStep, CollectStep, LookStep, StoreStep DEF Next

(* The inductive invariant of the samples and the speeds.                  *)
THEOREM Invariance == Spec => []IInv
BY InitInv, NextInv, PTL DEF Spec

(* Every variable keeps its type, and no time reaches the width of the     *)
(* arithmetic.                                                             *)
THEOREM TypeCorrect == Spec => []TypeOK
<1>1. IInv => TypeOK
  BY DEF IInv
<1>2. QED
  BY Invariance, <1>1, PTL

(* out_speed, compared before it is subtracted, says more than the traffic *)
(* only after a sample that lacked the counter.                            *)
THEOREM OutSpeedIsFair == Spec => []OutOverstatedOnlyAfterGap
<1>1. IInv => OutOverstatedOnlyAfterGap
  BY DEF IInv, SpeedsKept
<1>2. QED
  BY Invariance, <1>1, PTL

(* in_speed, subtracted in unsigned arithmetic before it is compared, also *)
(* when counter or time went backwards.                                    *)
THEOREM InSpeedIsFair == Spec => []InOverstatedOnlyBackwards
<1>1. IInv => InOverstatedOnlyBackwards
  BY DEF IInv, SpeedsKept
<1>2. QED
  BY Invariance, <1>1, PTL

(* The speeds of a disk, also when its row has no counter.                 *)
THEOREM DiskSpeedIsFair == Spec => []DiskOverstatedOnlyFirst
<1>1. IInv => DiskOverstatedOnlyFirst
  BY DEF IInv, SpeedsKept
<1>2. QED
  BY Invariance, <1>1, PTL
=============================================================================
