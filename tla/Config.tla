-------------------------------- MODULE Config --------------------------------
(***************************************************************************)
(* Reading datapool.conf (src/bin/config.c, with the table of parameters of*)
(* datapool_main.cc). main goes on whatever parse_cfg_file returns, so what*)
(* matters is which parameters have a value afterwards, and which.         *)
(*                                                                         *)
(* Not modelled: a line longer than the buffer, a file that cannot be      *)
(* opened (it is closed all the same), and the table's missing end mark.   *)
(***************************************************************************)
EXTENDS Integers, SequencesExt

CONSTANTS Kibibyte,     \* SLAVE_KIBIBYTE
          Size64,       \* uint64_t counts modulo this
          SizeInt,      \* one more than the greatest int
          Parameters,   \* the table: whether an int, and its minimum and maximum
          Files

VARIABLES file,         \* datapool.conf, a sequence of lines
          lineno,       \* of the line to be read
          failed,       \* parse_cfg_file has returned -1
          settings      \* the variables of the table

configVars == <<file, lineno, failed, settings>>

(* SLAVE_KIBIBYTE and so on.                                               *)
Factor == [none |-> 1, K |-> Kibibyte, M |-> Kibibyte * Kibibyte,
           G |-> Kibibyte * Kibibyte * Kibibyte,
           T |-> Kibibyte * Kibibyte * Kibibyte * Kibibyte]

(* The text after "=": digits and a unit. A string parameter takes any.    *)
Text(digits, unit) == [digits |-> digits, unit |-> unit]
Garbage == Text(-1, "none")     \* no number, or nothing
Numbers == [digits : Nat, unit : DOMAIN Factor]

(* A line without "=", and one that is passed over.                        *)
Line(name, text) == [name |-> name, text |-> text]
NoEquals == Line("", Garbage)
Comment == Line("#", Garbage)

(* Every int of the table has a maximum, and as minimum 0 is none.         *)
ASSUME ConfigAssumption ==
    /\ Kibibyte \in Nat \ {0} /\ Size64 \in Nat \ {0} /\ SizeInt \in 1..Size64
    /\ DOMAIN Parameters \cap {"", "#"} = {}
    /\ \A parameter \in DOMAIN Parameters :
          LET p == Parameters[parameter]
          IN  /\ p.int \in BOOLEAN
              /\ p.int => p.min \in Nat /\ p.max \in 1..(SizeInt - 1)
    /\ \A f \in Files : /\ f \in Seq(Range(f))
                        /\ \A l \in DOMAIN f : f[l].text \in {Garbage} \cup Numbers
-----------------------------------------------------------------------------
(* The globals of main: 0, and NULL.                                       *)
Unset == Text(0, "none")
Defaults == [parameter \in DOMAIN Parameters |-> IF Parameters[parameter].int THEN 0 ELSE Unset]

ConfigStart(f) ==
    file = f /\ lineno = 1 /\ failed = FALSE /\ settings = Defaults

ConfigInit == \E f \in Files : ConfigStart(f)

(* is_uint64_n.                                                            *)
IsUint64(text) == text.digits \in 0..(Size64 - 1)

(* str2uint64.                                                             *)
Converted(text) == (text.digits * Factor[text.unit]) % Size64

InRange(value, parameter) ==
    LET p == Parameters[parameter] IN
    /\ p.min # 0 => value >= p.min
    /\ p.max # 0 => value <= p.max

IsInt(line) == line.name \in DOMAIN Parameters /\ Parameters[line.name].int

(* An operator whose name ends in _M is a fault of the operator below it,  *)
(* seeded to show that a property can tell the two apart; no behaviour     *)
(* uses it.                                                                *)
DigitsOnly_M(line) ==
    \/ line = NoEquals
    \/ IsInt(line) /\ ~(IsUint64(line.text) /\ InRange(line.text.digits, line.name))

(* The line ends the reading.                                              *)
Fails(line) ==
    \/ line = NoEquals
    \/ IsInt(line) /\ ~(IsUint64(line.text) /\ InRange(Converted(line.text), line.name))

(* The conversion to int keeps the low bits.                               *)
Assigned(line) ==
    IF IsInt(line) THEN Converted(line.text) % SizeInt ELSE line.text

(* One turn of the loop of parse_cfg_file. An unknown name is passed over; *)
(* mandatory is not looked at.                                             *)
ParseLine ==
    /\ ~failed /\ lineno <= Len(file)
    /\ lineno' = lineno + 1
    /\ LET line == file[lineno] IN
       \/ Fails(line) /\ failed' = TRUE /\ UNCHANGED settings
       \/ /\ ~Fails(line)
          /\ settings' = [parameter \in DOMAIN Parameters |->
                             IF parameter = line.name THEN Assigned(line)
                             ELSE settings[parameter]]
          /\ UNCHANGED failed
    /\ UNCHANGED file

ConfigSpec == ConfigInit /\ [][ParseLine]_configVars
-----------------------------------------------------------------------------
(* What a line says, in exact arithmetic.                                  *)
Meant(line) == line.text.digits * Factor[line.text.unit]

(* The unit makes a number that does not fit in 64 bits of one that does.  *)
Overflows(line) == IsInt(line) /\ IsUint64(line.text) /\ Meant(line) >= Size64

Valid(line) ==
    IF IsInt(line) THEN line.text # Garbage /\ InRange(Meant(line), line.name)
    ELSE line # NoEquals

LinesRead == 1..(lineno - 1)

(* The lines before the first that is wrong.                               *)
Obeyed == {l \in LinesRead : \A k \in 1..l : Valid(file[k])}

Naming(parameter) == {l \in Obeyed : file[l].name = parameter}

LastOf(lines) == CHOOSE l \in lines : \A k \in lines : k <= l

(* The last of them that names the parameter decides.                      *)
Told(parameter) ==
    LET naming == Naming(parameter)
        line   == file[LastOf(naming)]
    IN  IF naming = {} THEN Defaults[parameter]
        ELSE IF Parameters[parameter].int THEN Meant(line) ELSE line.text

Bounded(parameter) ==
    \/ settings[parameter] = Defaults[parameter]
    \/ ~Parameters[parameter].int
    \/ InRange(settings[parameter], parameter)

(* Every parameter has the number that the last line for it says, among the*)
(* lines before the first wrong one, or none; the rest of the file is not  *)
(* read, but only then. A product that does not fit in 64 bits may be taken*)
(* for another number, but for none that is out of range, nor is one cut   *)
(* down to an int. (A parameter without a line has 0, which may be below   *)
(* its minimum.)                                                           *)
SettingsAsTold ==
    /\ failed => ~Valid(file[lineno - 1])
    /\ \A parameter \in DOMAIN Parameters :
          \/ /\ \A l \in LinesRead : ~Overflows(file[l])
             /\ settings[parameter] = Told(parameter)
          \/ (\E l \in LinesRead : Overflows(file[l])) /\ Bounded(parameter)
-----------------------------------------------------------------------------
(* Why: the reading has not passed a line that fails, and nothing assigned *)
(* is out of range.                                                        *)
ConfigInv ==
    /\ file \in Files /\ lineno \in 1..(Len(file) + 1)
    /\ \A l \in LinesRead : Fails(file[l]) => failed /\ l = lineno - 1
    /\ \A parameter \in DOMAIN Parameters : Bounded(parameter)
    /\ SettingsAsTold
=============================================================================
