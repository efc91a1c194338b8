---------------------------- MODULE CmtDeadline ----------------------------
(***************************************************************************)
(* What cmt.h promises of a scheduled message, said without any list: a    *)
(* message scheduled with a delay of ms milliseconds is posted to the core *)
(* it is meant for when exactly ms ticks of the recurring interrupt have   *)
(* passed, once, unless it is cancelled first.                             *)
(*                                                                         *)
(* Time is relative: left[s] is the number of ticks the message held in    *)
(* pool entry s still has to wait.  A tick is not allowed while a message  *)
(* is due, so nothing can be late; nothing can be early because only a     *)
(* message that is due is posted.                                          *)
(*                                                                         *)
(* CmtSched, the delta list of cmt.c, is shown to implement this module.   *)
(***************************************************************************)
EXTENDS Integers

CONSTANTS
  Entries,   \* the entries of the pool of scheduled messages
  Messages,  \* the messages (an id and a handler)
  Delays,    \* the delays callers ask for, in milliseconds
  NoMessage  \* what a free entry holds

Cores == {0, 1}

VARIABLES
  held,    \* entry -> the <<message, core>> waiting in it, or NoMessage
  left,    \* entry -> ticks until its message is due
  posted   \* the <<message, core>> the latest step handed to a core's queue

dvars == <<held, left, posted>>

Pending == {s \in Entries : held[s] # NoMessage}

Init ==
  /\ held = [s \in Entries |-> NoMessage]
  /\ left = [s \in Entries |-> 0]
  /\ posted = NoMessage

Schedule(s, m, core, ms) ==
  /\ s \notin Pending
  /\ held' = [held EXCEPT ![s] = <<m, core>>]
  /\ left' = [left EXCEPT ![s] = ms]
  /\ posted' = NoMessage

Cancel(s) ==
  /\ s \in Pending
  /\ held' = [held EXCEPT ![s] = NoMessage]
  /\ left' = [left EXCEPT ![s] = 0]
  /\ posted' = NoMessage

Tick ==
  /\ \A s \in Pending : left[s] > 0
  /\ left' = [s \in Entries |-> IF s \in Pending THEN left[s] - 1 ELSE 0]
  /\ posted' = NoMessage
  /\ UNCHANGED held

Post(s) ==
  /\ s \in Pending
  /\ left[s] = 0
  /\ posted' = held[s]
  /\ held' = [held EXCEPT ![s] = NoMessage]
  /\ UNCHANGED left

\* The caller has looked at the outcome; nothing was handed to a queue since.
Quiet ==
  /\ posted' = NoMessage
  /\ UNCHANGED <<held, left>>

Next ==
  \/ \E s \in Entries, m \in Messages, core \in Cores, ms \in Delays :
       Schedule(s, m, core, ms)
  \/ \E s \in Entries : Cancel(s) \/ Post(s)
  \/ Tick
  \/ Quiet

Spec == Init /\ [][Next]_dvars
=============================================================================
