------------------------------ MODULE LineEdit ------------------------------
(***************************************************************************)
(* What the user of the command shell is promised: the keys typed are      *)
(* acted on one at a time and in order, each on the line being edited, the *)
(* end of the line has exactly that line executed, and the arrows walk     *)
(* through the last lines executed. They also walk back to the line being  *)
(* edited, but it may come back with what an older and longer line left    *)
(* behind it.                                                              *)
(***************************************************************************)
EXTENDS Integers, Sequences

CONSTANTS
  Keys, Text,   \* the keys, and those that are printing characters
  MaxLen,       \* the size of a line buffer
  HistLines     \* the number of history buffers

VARIABLES
  typed,      \* the keys typed and not yet acted on
  line,       \* the line being edited
  past, pos,  \* the lines executed, the last one first; the one recalled, or 0
  saved,      \* the line that was being edited when recalling began
  esc,        \* -1, or the number of keys after ESC
  welcomed,   \* the terminal has been greeted
  did         \* <<>>, or the line the last key had executed

editVars == <<line, past, pos, saved, did>>
vars == <<typed, esc, welcomed, editVars>>

Arrow == [A |-> "PRIOR", B |-> "NEXT"]

\* What a key stands for within an escape sequence, and outside.
Meaning(k) ==
  CASE esc = -1 /\ k \in {"EOL", "BS", "CLEAR", "ESC"} -> k
    [] esc = -1 /\ k = "DEL"                             -> "BS"
    [] esc = 0 /\ k = "[" -> "CSI"
    [] esc = 1 /\ k \in DOMAIN Arrow -> Arrow[k]
    [] OTHER -> IF k \in Text \cup {"PRIOR", "NEXT", "REINIT"} THEN k ELSE "BEL"

Init ==
  /\ typed = <<>> /\ line = <<>> /\ past = <<>> /\ pos = 0 /\ saved = <<>>
  /\ esc = -1 /\ welcomed = FALSE /\ did = <<>>

Type ==
  /\ \E k \in Keys : typed' = Append(typed, k)
  /\ UNCHANGED <<esc, welcomed, editVars>>

\* The first key greets the terminal, ^R greets it again: what has been typed
\* behind it is thrown away, the line is kept.
Greet ==
  /\ typed # <<>> /\ (welcomed => Meaning(Head(typed)) = "REINIT")
  /\ typed' = <<>> /\ welcomed' = TRUE /\ did' = <<>>
  /\ esc' = IF welcomed THEN -1 ELSE esc
  /\ UNCHANGED <<line, past, pos, saved>>

\* The next key, acted on.
Key(m) ==
  /\ welcomed /\ typed # <<>> /\ m = Meaning(Head(typed))
  /\ typed' = Tail(typed) /\ UNCHANGED welcomed
  /\ esc' = CASE m = "ESC" -> 0 [] m = "CSI" -> 1 [] OTHER -> -1

Insert(m) ==
  /\ Key(m) /\ m \in Text
  /\ line' = IF Len(line) < MaxLen - 1 THEN Append(line, m) ELSE line
  /\ did' = <<>> /\ UNCHANGED <<past, pos, saved>>

Erase ==
  /\ Key("BS")
  /\ line' = SubSeq(line, 1, Len(line) - 1)
  /\ did' = <<>> /\ UNCHANGED <<past, pos, saved>>

Clear ==
  /\ Key("CLEAR")
  /\ line' = <<>> /\ did' = <<>> /\ UNCHANGED <<past, pos, saved>>

\* The line is saved when recalling begins, "the in-process line from the shell"
\* says cmd.c:265.  It is only promised that what is saved begins with the line,
\* and that nothing is saved of none: the buffer is copied up to a NUL that may
\* stand behind more (shell.c:278).
Saved(s) ==
  /\ Len(s) < MaxLen /\ SubSeq(s, 1, Len(line)) = line
  /\ line = <<>> => s = <<>>
RecallPrior ==
  /\ Key("PRIOR") /\ did' = <<>> /\ UNCHANGED past
  /\ IF pos = 0 THEN Saved(saved') ELSE UNCHANGED saved
  /\ IF pos < Len(past) THEN pos' = pos + 1 /\ line' = past[pos + 1]
                        ELSE UNCHANGED <<pos, line>>

RecallNext ==
  /\ Key("NEXT") /\ did' = <<>> /\ UNCHANGED <<past, saved>>
  /\ IF pos = 0 THEN UNCHANGED <<pos, line>>
     ELSE pos' = pos - 1 /\ line' = IF pos = 1 THEN saved ELSE past[pos - 1]

\* An empty line leaves the walk through the history where it is.
Enter ==
  /\ Key("EOL") /\ did' = <<line>> /\ line' = <<>>
  /\ IF line = <<>> THEN UNCHANGED <<past, pos, saved>>
     ELSE /\ past' = IF past # <<>> /\ Head(past) = line THEN past
                     ELSE SubSeq(<<line>> \o past, 1,
                                 IF Len(past) + 1 < HistLines THEN Len(past) + 1
                                                              ELSE HistLines - 1)
          /\ pos' = 0 /\ saved' = <<>>

\* The beginning of an escape sequence, or a key that means nothing there.  ESC
\* keeps the line, whatever shell.h:66-67 says: "is used to erase the line if a
\* handler is not registered", and none is.
Ignore ==
  /\ \E m \in {"ESC", "CSI", "BEL"} : Key(m)
  /\ did' = <<>> /\ UNCHANGED <<line, past, pos, saved>>

Next ==
  \/ Type \/ Greet \/ \E m \in Text : Insert(m)
  \/ Erase \/ Clear \/ RecallPrior \/ RecallNext \/ Enter \/ Ignore

Spec == Init /\ [][Next]_vars

=============================================================================
