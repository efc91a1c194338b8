------------------------------- MODULE Shell -------------------------------
(***************************************************************************)
(* The command shell (src-rp/lib/shell/src: shell.c, term/term.c,          *)
(* cmd/cmd.c, and the two hooks of src-rp/app/app.c): the input ring that  *)
(* an interrupt of core 0 fills, the one-shot notification, the message    *)
(* that wakes core 1, the line editor with its escape sequences, the       *)
(* command history, and the greeting of the terminal.                      *)
(*                                                                         *)
(* `ring' is what lies between _input_buf_out and _input_buf_in.  `stack'  *)
(* holds the calls of _getline_continue that are not finished, each inside *)
(* the callback of a line or inside _host_welcome.  What the terminal      *)
(* shows is left out, and with it shell_prompt_again.                      *)
(***************************************************************************)
EXTENDS Integers, Sequences, FiniteSets

CONSTANTS
  Keys, Text,   \* the keys of the user, and those that are printing characters
  RingSize,     \* TERM_INPUT_BUF_SIZE
  MaxLen,       \* SHELL_GETLINE_MAX_LEN
  HistLines,    \* CMD_HIST_LINES
  MaxKeys,      \* bound: keys typed
  MaxPosted     \* bound: messages of the interrupt not handled yet

ASSUME ShellAssumption ==
  /\ Text \subseteq Keys /\ "EOL" \in Keys
  /\ Text \cap {"EOL", "BS", "DEL", "CLEAR", "ESC", "PRIOR", "NEXT", "REINIT"} = {}
  /\ Text \cap {"NUL", "CSI"} = {}
  /\ RingSize \in Nat \ {0, 1}
  /\ MaxLen \in Nat \ {0} /\ HistLines \in Nat \ {0}
  /\ MaxKeys \in Nat /\ MaxPosted \in Nat \ {0}

VARIABLES
  ring, isr,   \* _input_buf; the interrupt: [at, cleared]
  keys,        \* the number of keys typed
  hook,        \* _term_notify_on_input is set
  posted,      \* MSG_TERM_CHAR_RCVD waiting for core 1
  handler,     \* _input_available_handler is set
  at, stack,   \* core 1: what it does; inside what _getline_continue runs
  esc,         \* _esc_collecting
  buf, idx,    \* _getline_buf, _getline_index
  hist, cmd_ndx, hist_ndx,   \* _cmdhist, _cmd_ndx, _cmdhist_ndx
  tmp,         \* _cmd_line_tmp
  welcomed,    \* _host_welcomed
  did          \* history: <<>>, or the line the last key had executed

termVars == <<ring, isr, keys, hook, posted>>
lineVars == <<buf, idx>>
histVars == <<hist, cmd_ndx, hist_ndx, tmp>>
shellVars == <<handler, at, stack, esc, welcomed, did>>
vars == <<termVars, lineVars, histVars, shellVars>>

NUL == "NUL"
Lines == UNION {[1..n -> Text] : n \in 0..MaxLen - 1}
Max0(n) == IF n < 0 THEN 0 ELSE n

\* The C string in an array, and strcpy into one.
String(b) ==
  LET n == CHOOSE n \in 0..MaxLen :
             /\ n = MaxLen \/ b[n] = NUL
             /\ \A i \in 0..n - 1 : b[i] # NUL
  IN [i \in 1..n |-> b[i - 1]]
Strcpy(b, s) ==
  [i \in 0..MaxLen - 1 |-> IF i < Len(s) THEN s[i + 1]
                           ELSE IF i = Len(s) THEN NUL ELSE b[i]]

\* The input of the line being edited.
Input == [i \in 1..idx |-> buf[i - 1]]

\* The kinds of calls that have not returned.
Pending == {stack[i] : i \in 1..Len(stack)}

Init ==
  /\ ring = <<>> /\ isr = [at |-> "idle", cleared |-> FALSE]
  /\ keys = 0 /\ hook = TRUE /\ posted = 0 /\ handler = TRUE
  /\ at = "getc" /\ stack = <<>> /\ esc = -1
  /\ buf = [i \in 0..MaxLen - 1 |-> NUL] /\ idx = 0
  /\ hist = [i \in 0..HistLines - 1 |-> <<>>] /\ cmd_ndx = 0 /\ hist_ndx = 0
  /\ tmp = <<>> /\ welcomed = FALSE /\ did = <<>>

-----------------------------------------------------------------------------
(* The interrupt of core 0.                                                *)

\* The user types no line ahead: she waits until the line before has been
\* executed and the shell has looked for more.
Patient ==
  /\ at # "exec" /\ "eol" \notin Pending
  /\ \A i \in 1..Len(ring) : ring[i] # "EOL"

\* There is room for the next character, or it is thrown away.
Read ==
  /\ isr.at = "more" \/ (isr.at = "idle" /\ posted < MaxPosted)
  /\ Patient
  /\ keys < MaxKeys /\ keys' = keys + 1
  /\ isr' = [at |-> IF Len(ring) = RingSize - 1 THEN "more" ELSE "store",
             cleared |-> FALSE]
  /\ UNCHANGED <<ring, hook, posted, lineVars, histVars, shellVars>>

\* The index it writes was read before: if the ring was cleared in between,
\* keys handled long ago are back.
Store ==
  /\ isr.at = "store"
  /\ \E k \in Keys :
     \E old \in IF isr.cleared
                THEN UNION {[1..n -> Keys] : n \in 0..RingSize - 2}
                ELSE {ring} :
       ring' = Append(old, k)
  /\ isr' = [at |-> "more", cleared |-> FALSE]
  /\ UNCHANGED <<keys, hook, posted, lineVars, histVars, shellVars>>

\* No character left: the notification is one-shot.
ReadAll ==
  /\ isr.at = "more"
  /\ IF hook /\ ring # <<>>
       THEN hook' = FALSE /\ isr' = [isr EXCEPT !.at = "notify"]
       ELSE isr' = [isr EXCEPT !.at = "idle"] /\ UNCHANGED hook
  /\ UNCHANGED <<ring, keys, posted, lineVars, histVars, shellVars>>

\* _input_ready_hook: post the message, hook in again.
Notify_NoRehook ==
  /\ isr.at = "notify"
  /\ posted' = posted + 1 /\ isr' = [isr EXCEPT !.at = "idle"]
  /\ UNCHANGED <<ring, keys, hook, lineVars, histVars, shellVars>>

Notify ==
  /\ isr.at = "notify"
  /\ posted' = posted + 1 /\ hook' = TRUE /\ isr' = [isr EXCEPT !.at = "idle"]
  /\ UNCHANGED <<ring, keys, lineVars, histVars, shellVars>>

-----------------------------------------------------------------------------
(* Core 1.                                                                 *)

\* _handle_term_char_rdy, shell_do_input_char_ready.
CharReady ==
  /\ at = "idle" /\ posted > 0
  /\ posted' = posted - 1 /\ at' = IF handler THEN "getc" ELSE "idle"
  /\ UNCHANGED <<ring, isr, keys, hook, lineVars, histVars,
                 handler, stack, esc, welcomed, did>>

\* term_getc finds nothing; then the hook is set and _getline_continue returns,
\* into _host_welcome, or through the callback behind the end of a line.
NoMore ==
  /\ at = "getc" /\ ring = <<>> /\ at' = "hook"
  /\ UNCHANGED <<termVars, lineVars, histVars,
                 handler, stack, esc, welcomed, did>>

Return ==
  /\ at = "hook" /\ hook' = TRUE
  /\ IF stack = <<>>
       THEN at' = "idle" /\ UNCHANGED <<stack, buf, idx>>
       ELSE /\ at' = "getc" /\ stack' = Tail(stack)
            /\ IF Head(stack) = "eol"
                 THEN idx' = 0 /\ buf' = [buf EXCEPT ![0] = NUL]
                 ELSE UNCHANGED <<buf, idx>>
  /\ UNCHANGED <<ring, isr, keys, posted, histVars,
                 handler, esc, welcomed, did>>

\* shell_getline, from the callback of a line or from _host_welcome: the call
\* of _getline_continue inside that of `call'.
GetLine(call) ==
  /\ handler' = TRUE /\ at' = "getc" /\ stack' = <<call>> \o stack

Execute ==
  /\ at = "exec" /\ GetLine("eol")
  /\ UNCHANGED <<termVars, lineVars, histVars, esc, welcomed, did>>

-----------------------------------------------------------------------------
(* The greeting of the terminal: term_init reads its answers, and throws   *)
(* away what is there until, 50 ms after the last time, nothing is.        *)

Discard ==
  /\ at = "reset" /\ ring # <<>>
  /\ \/ ring' = Tail(ring) /\ UNCHANGED isr
     \/ ring' = <<>> /\ isr' = [isr EXCEPT !.cleared = (isr.at = "store")]
  /\ UNCHANGED <<keys, hook, posted, lineVars, histVars, shellVars>>

Welcome ==
  /\ at = "reset" /\ ring = <<>> /\ ~isr.cleared
  /\ welcomed' = TRUE /\ GetLine("welcome")
  /\ UNCHANGED <<termVars, lineVars, histVars, esc, did>>

-----------------------------------------------------------------------------
(* A key: _getline_continue, _process_char, the handlers of cmd.c.         *)

\* shell_getline_replace.
Replace(s) ==
  /\ buf' = Strcpy(buf, s) /\ idx' = Len(s)

Prior(n) == (n - 1) % HistLines

RecallPrior ==
  LET p == Prior(hist_ndx)
  IN /\ tmp' = IF hist_ndx = cmd_ndx THEN String(buf) ELSE tmp
     /\ IF p # cmd_ndx /\ hist[p] # <<>>
          THEN hist_ndx' = p /\ Replace(hist[p])
          ELSE UNCHANGED <<hist_ndx, lineVars>>
     /\ UNCHANGED <<hist, cmd_ndx, at>>

RecallNext ==
  LET n == (hist_ndx + 1) % HistLines
  IN /\ IF hist_ndx = cmd_ndx THEN UNCHANGED <<hist_ndx, lineVars>>
        ELSE hist_ndx' = n /\ Replace(IF n = cmd_ndx THEN tmp ELSE hist[n])
     /\ UNCHANGED <<hist, cmd_ndx, tmp, at>>

Insert_NoRoom(k) ==
  /\ IF idx < MaxLen
       THEN /\ buf' = [buf EXCEPT ![idx] = k] /\ idx' = idx + 1
       ELSE UNCHANGED lineVars
  /\ UNCHANGED <<histVars, at>>

Insert(k) ==
  /\ IF idx < MaxLen - 1
       THEN /\ buf' = [buf EXCEPT ![idx] = k] /\ idx' = idx + 1
       ELSE UNCHANGED lineVars
  /\ UNCHANGED <<histVars, at>>

\* A character that _process_char does not want goes to the handler registered
\* for it; without one the bell rings.  For DEL, 127, the handler is looked for
\* behind the end of a table of 32: what lies there is NULL, or it is called and
\* core 1 is lost.
Printable(k) ==
  CASE k \in Text    -> Insert(k)
    [] k = "PRIOR"   -> RecallPrior
    [] k = "NEXT"    -> RecallNext
    [] k = "REINIT"  -> at' = "reset" /\ UNCHANGED <<lineVars, histVars>>
    [] k = "DEL"     -> at' \in {at, "fault"} /\ UNCHANGED <<lineVars, histVars>>
    [] OTHER         -> UNCHANGED <<at, lineVars, histVars>>

Backspace_AtStart ==
  /\ idx' = idx - 1 /\ buf' = [buf EXCEPT ![Max0(idx - 1)] = NUL]
  /\ UNCHANGED <<histVars, at>>

Backspace ==
  /\ LET n == Max0(idx - 1)
     IN /\ idx' = n /\ buf' = [buf EXCEPT ![n] = NUL]
  /\ UNCHANGED <<histVars, at>>

Erase ==
  /\ buf' = [i \in DOMAIN buf |-> IF i <= idx THEN NUL ELSE buf[i]]
  /\ idx' = 0
  /\ UNCHANGED <<histVars, at>>

EndLine_StillRecalled ==
  LET b == [buf EXCEPT ![idx] = NUL]
      line == String(b)
      new == line # hist[Prior(cmd_ndx)]
  IN /\ buf' = b /\ at' = "exec" /\ UNCHANGED idx
     /\ IF line = <<>> THEN UNCHANGED histVars
        ELSE /\ hist' = IF new THEN [hist EXCEPT ![cmd_ndx] = line] ELSE hist
             /\ cmd_ndx' = IF new THEN (cmd_ndx + 1) % HistLines ELSE cmd_ndx
             /\ UNCHANGED <<hist_ndx, tmp>>

\* The end of a line, and _process_line: the handler is taken away until the
\* line has been executed; the index stays until the callback has returned.
EndLine ==
  LET b == [buf EXCEPT ![idx] = NUL]
      line == String(b)
      new == line # hist[Prior(cmd_ndx)]
      n == IF new THEN (cmd_ndx + 1) % HistLines ELSE cmd_ndx
  IN /\ buf' = b /\ at' = "exec" /\ UNCHANGED idx
     /\ IF line = <<>> THEN UNCHANGED histVars
        ELSE /\ hist' = IF new THEN [hist EXCEPT ![cmd_ndx] = line] ELSE hist
             /\ cmd_ndx' = n /\ hist_ndx' = n /\ tmp' = <<>>

InSequence(k) ==
  CASE esc = 0 /\ k = "[" -> esc' = 1 /\ UNCHANGED <<at, lineVars, histVars>>
    [] esc = 1 /\ k = "A" -> esc' = -1 /\ RecallPrior
    [] esc = 1 /\ k = "B" -> esc' = -1 /\ RecallNext
    [] OTHER              -> esc' = -1 /\ Printable(k)

Plain(k) ==
  /\ esc' = IF k = "ESC" THEN 0 ELSE esc
  /\ CASE k = "EOL"   -> EndLine
       [] k \in {"BS", "DEL"} -> Backspace
       [] k = "CLEAR" -> Erase
       [] k = "ESC"   -> UNCHANGED <<at, lineVars, histVars>>
       [] OTHER       -> Printable(k)

Key ==
  /\ at = "getc" /\ ring # <<>> /\ ring' = Tail(ring)
  /\ LET k == Head(ring)
     IN IF ~welcomed
          THEN /\ at' = "reset" /\ did' = <<>>
               /\ UNCHANGED <<esc, lineVars, histVars>>
          ELSE /\ IF esc >= 0 THEN InSequence(k) ELSE Plain(k)
               /\ did' = IF at' = "exec" THEN <<String(buf')>> ELSE <<>>
  /\ handler' = (at' # "exec" /\ handler)
  /\ UNCHANGED <<isr, keys, hook, posted, stack, welcomed>>

-----------------------------------------------------------------------------
Interrupt == Read \/ Store \/ ReadAll \/ Notify
Core1 == CharReady \/ NoMore \/ Return \/ Execute \/ Discard \/ Welcome \/ Key
Next == Interrupt \/ Core1

Spec == Init /\ [][Next]_vars

\* Both cores go on; the characters at hand are read faster than they come.
FairSpec ==
  /\ Spec
  /\ WF_vars(Store) /\ SF_vars(ReadAll) /\ WF_vars(Notify) /\ WF_vars(Core1)

-----------------------------------------------------------------------------
(* What holds of the shell, and what its header says of it.                *)

\* Every variable holds a value of its kind.
TypeOK ==
  /\ ring \in Seq(Keys) /\ Len(ring) < RingSize
  /\ isr \in [at : {"idle", "store", "more", "notify"}, cleared : BOOLEAN]
  /\ keys \in 0..MaxKeys /\ hook \in BOOLEAN /\ posted \in 0..MaxPosted
  /\ handler \in BOOLEAN
  /\ at \in {"getc", "hook", "idle", "exec", "reset", "fault"}
  /\ stack \in Seq({"eol", "welcome"}) /\ esc \in -1..1
  /\ buf \in [0..MaxLen - 1 -> Text \cup {NUL}] /\ idx \in 0..MaxLen - 1
  /\ hist \in [0..HistLines - 1 -> Lines]
  /\ cmd_ndx \in 0..HistLines - 1 /\ hist_ndx \in 0..HistLines - 1
  /\ tmp \in Lines /\ welcomed \in BOOLEAN
  /\ did \in {<<>>} \cup {<<l>> : l \in Lines}

\* The line buffer always ends in a NUL, whatever was inserted, erased, recalled
\* and left behind: strcpy into a history buffer stays within it.
BufferTerminated == buf[MaxLen - 1] = NUL

\* The history buffers that hold the lines before _cmd_ndx.
Past ==
  LET back(i) == hist[(cmd_ndx - i) % HistLines]
      n == CHOOSE n \in 0..HistLines - 1 :
             /\ n = HistLines - 1 \/ back(n + 1) = <<>>
             /\ \A i \in 1..n : back(i) # <<>>
  IN [i \in 1..n |-> back(i)]

Editor ==
  INSTANCE LineEdit WITH
    typed <- IF at = "reset" THEN <<>> ELSE ring,
    line <- IF at = "exec" \/ "eol" \in Pending THEN <<>> ELSE Input,
    past <- Past, pos <- (cmd_ndx - hist_ndx) % HistLines, saved <- tmp,
    welcomed <- welcomed \/ at = "reset"

\* The shell edits, recalls and executes what the line editor of LineEdit does,
\* with a buffer whose end moves, indexes that wrap and a history of arrays: no
\* line that is executed or recalled from the history has anything in it that
\* was not in the line.  Not so the line being edited when it is walked back to:
\* see Saved of LineEdit.  It is a property of a patient user (Patient).
ImplementsLineEdit == Editor!Spec

\* Characters that wait in the ring are read in the end: the notification is
\* one-shot, and is taken and set on two cores, but no wake-up is lost.  Only DEL
\* behind ESC may have lost the core that reads.
InputServed == ring # <<>> ~> at \in {"getc", "fault"}

=============================================================================
