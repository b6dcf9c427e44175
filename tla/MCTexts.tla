------------------------------- MODULE MCTexts -------------------------------
(* A TLC instance of ValueMap, SsdReport, FruMap and Config. A behaviour   *)
(* either stores messages or reads one text: a report, the FRU entries of  *)
(* a message or a file.                                                    *)
EXTENDS ValueMap, SsdReport, FruMap, Config

(* Reports of no disk, of one, or of two with few attributes.              *)
Attribute(known, raw) ==
    [i \in 1..(9 + raw) |-> IF i = 2 /\ ~known THEN "Unknown_Attribute" ELSE "word"]

Disk(name, attributes) ==
    <<<<name>>, <<"smartctl", "word", "word">>, <<"word", "Thresholds:">>, Columns10>>
        \o [i \in DOMAIN attributes |-> Attribute(attributes[i].known, attributes[i].raw)]

Attributes == [known : BOOLEAN, raw : 1..3]

MCReports ==
    {<<>>} \cup {Disk("sda", a) : a \in SeqOf(Attributes, 3)}
        \cup {Disk("sda", a) \o Disk("sdb", b) : a \in SeqOf(Attributes, 2),
                                                 b \in SeqOf(Attributes, 1)}

(* One string, one parameter like MAX_EVENTS and one like the thresholds.  *)
MCParameters ==
    [LOG_FILE   |-> [int |-> FALSE, min |-> 0, max |-> 0],
     MAX_EVENTS |-> [int |-> TRUE,  min |-> 2, max |-> 6],
     SSD_THRESH |-> [int |-> TRUE,  min |-> 0, max |-> 6]]

(* Files of up to two lines.                                               *)
Lines == {NoEquals, Comment, Line("SSD_THRSH", Text(5, "none")), Line("LOG_FILE", Garbage)}
             \cup {Line(name, Text(digits, unit)) :
                       name \in {"MAX_EVENTS", "SSD_THRESH"},
                       digits \in {0, 1, 3, 5, 7, 17, 70}, unit \in DOMAIN Factor}
             \cup {Line("SSD_THRESH", Garbage)}
MCFiles == SeqOf(Lines, 2)

textVars == <<ssdVars, fruVars, configVars>>

NoText == report = <<>> /\ names = <<>> /\ file = <<>>

TextInit ==
    /\ ValuesInit
    /\ \/ SsdStart(<<>>) /\ FruStart(<<>>) /\ ConfigStart(<<>>)
       \/ /\ table = "disk_io"
          /\ \/ SsdInit /\ FruStart(<<>>) /\ ConfigStart(<<>>)
             \/ SsdStart(<<>>) /\ FruInit /\ ConfigStart(<<>>)
             \/ SsdStart(<<>>) /\ FruStart(<<>>) /\ ConfigInit

TextNext ==
    \/ NoText /\ ValuesNext /\ UNCHANGED textVars
    \/ ReadWord /\ UNCHANGED <<valueVars, fruVars, configVars>>
    \/ TakeEntry /\ UNCHANGED <<valueVars, ssdVars, configVars>>
    \/ ParseLine /\ UNCHANGED <<valueVars, ssdVars, fruVars>>

TextSpec == TextInit /\ [][TextNext]_<<valueVars, textVars>>
=============================================================================
