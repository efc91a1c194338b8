---------------------------- MODULE CmtSchedList ----------------------------
(***************************************************************************)
(* The scheduled-message list of cmt.c as it lies in memory: entries linked*)
(* through `next' from `cmt_smd_ll', the free list of cmt_heap.c linked    *)
(* through the same field, sm_mutex, and three parties that work on them:  *)
(* the program of core 0, the program of core 1 (each only if it is one of *)
(* Callers) and the 1 ms interrupt, which runs on core 0.                  *)
(*                                                                         *)
(* A step makes one access to memory that another party may write, in the  *)
(* order of the C statements, so the parties interleave as they do on the  *)
(* chip.  The pool operations are single steps: smllent_mutex is held      *)
(* across each.  A list operation runs with the interrupts of ITS core off *)
(* and sm_mutex taken; the interrupt takes no mutex, so nothing but the    *)
(* interrupt mask of core 0 keeps it out.                                  *)
(*                                                                         *)
(* With callers on core 0 alone the list implements CmtDeadline.           *)
(***************************************************************************)
EXTENDS Chains, Integers, Sequences, FiniteSets

CONSTANTS
  Entries,    \* smdllent_pool
  FirstFree,  \* the chain of the pool as cmt_heap_modinit leaves it: a sequence
  Messages, Delays, NoMessage,
  Callers,    \* the cores whose program schedules messages
  Cancellers, \* those of them whose program also cancels messages
  Null        \* the NULL pointer

HeadCell == "cmt_smd_ll"    \* the cell the first entry hangs from

ASSUME ListAssumption ==
  /\ Callers \subseteq {0, 1} /\ Cancellers \subseteq Callers
  /\ Null \notin Entries /\ HeadCell \notin Entries /\ Entries # {}
  /\ Delays \subseteq Nat
  /\ \A m \in Messages, c \in {0, 1} : <<m, c>> # NoMessage
  /\ FirstFree \in Seq(Entries)
  /\ {FirstFree[i] : i \in DOMAIN FirstFree} = Entries
  /\ Len(FirstFree) = Cardinality(Entries)

Cores == {0, 1}
NoCore == 2
Pointers == Entries \cup {Null}
Targets == Messages \X Cores

VARIABLES
  head,      \* cmt_smd_ll
  free,      \* smdllent_free
  next,      \* entry -> next
  remaining, \* entry -> schmsg_data.remaining
  data,      \* entry -> <<schmsg_data.msg, schmsg_data.corenum>>
  sm_mutex,  \* the core that holds it, or NoCore
  pc,        \* caller -> the statement its list operation has reached, or "idle"
  loc,       \* caller -> the locals of that operation
  ipc,       \* the statement the interrupt has reached, or "idle"
  nxt,       \* the local `next' of the interrupt, and the head it decrements
  posted,    \* the message the latest step posted, or NoMessage
  left       \* history: entry -> ticks until its message is to be posted

tasks == <<sm_mutex, pc, loc>>
isr == <<ipc, nxt>>
vars == <<head, free, next, remaining, data, tasks, isr, posted, left>>

NoLocals == [op |-> "none", target |-> NoMessage, ms |-> 0,
             cell |-> HeadCell, entry |-> Null, new |-> Null, time |-> 0]

Init ==
  /\ head = Null
  /\ free = FirstFree[1]
  /\ next = [e \in Entries |->
               LET i == CHOOSE j \in DOMAIN FirstFree : FirstFree[j] = e
               IN  IF i < Len(FirstFree) THEN FirstFree[i + 1] ELSE Null]
  /\ remaining = [e \in Entries |-> 0]
  /\ data = [e \in Entries |-> NoMessage]
  /\ sm_mutex = NoCore
  /\ pc = [c \in Callers |-> "idle"]
  /\ loc = [c \in Callers |-> NoLocals]
  /\ ipc = "idle"
  /\ nxt = Null
  /\ posted = NoMessage
  /\ left = [e \in Entries |-> 0]

\* The pointer in a cell (*pnext), and the store to it.
At(cell) == IF cell = HeadCell THEN head ELSE next[cell]

Store(cell, e) ==
  IF cell = HeadCell THEN head' = e /\ UNCHANGED next
                 ELSE next' = [next EXCEPT ![cell] = e] /\ UNCHANGED head

\* cmt_return_smdllent
FreeListed(e) == [next EXCEPT ![e] = free]

Chain(p) == ChainFrom(next, Null, p, Cardinality(Entries))
Ends(p) == EndsFrom(next, Null, p, Cardinality(Entries))

\* What waits: the entries of the list.  Between the post of the head and the
\* store of the new head the list begins behind it.
Waiting ==
  Chain(CASE ipc = "next" -> next[head]
          [] ipc \in {"free", "advance"} -> nxt
          [] OTHER -> head)

Goto(c, label) == pc' = [pc EXCEPT ![c] = label]

\* The operation of core c goes on to another statement; only its locals change.
Locally(c, label, l) ==
  /\ Goto(c, label)
  /\ loc' = [loc EXCEPT ![c] = l]
  /\ UNCHANGED <<head, free, next, remaining, data, sm_mutex, isr, left>>
  /\ posted' = NoMessage

-----------------------------------------------------------------------------
(* The operations of the callers *)

\* The interrupts of core c go off (core 0's only outside the interrupt).
Begin(c, op, target, ms) ==
  /\ pc[c] = "idle"
  /\ c = 0 => ipc = "idle"
  /\ Locally(c, "lock", [NoLocals EXCEPT !.op = op, !.target = target, !.ms = ms])

Lock(c) ==
  /\ pc[c] = "lock"
  /\ sm_mutex = NoCore
  /\ sm_mutex' = c
  /\ Goto(c, IF loc[c].op = "schedule" THEN "alloc" ELSE "load")
  /\ posted' = NoMessage
  /\ UNCHANGED <<head, free, next, remaining, data, loc, isr, left>>

\* cmt_alloc_smdllent and the filling in of the new entry, which nobody else can
\* reach yet.  An empty pool is a board_panic with sm_mutex held.
Alloc(c) ==
  /\ pc[c] = "alloc"
  /\ IF free = Null
       THEN Goto(c, "panic") /\ UNCHANGED <<free, next, remaining, data, loc, left>>
       ELSE /\ free' = next[free]
            /\ next' = [next EXCEPT ![free] = Null]
            /\ data' = [data EXCEPT ![free] = loc[c].target]
            /\ remaining' = [remaining EXCEPT ![free] = loc[c].ms]
            /\ left' = [left EXCEPT ![free] = loc[c].ms]
            /\ loc' = [loc EXCEPT ![c].new = free]
            /\ Goto(c, "load")
  /\ posted' = NoMessage
  /\ UNCHANGED <<head, sm_mutex, isr>>

\* entry = *pnext, and the loop condition.
Load(c) ==
  /\ pc[c] = "load"
  /\ LET e == At(loc[c].cell)
     IN  Locally(c, IF e # Null THEN "compare"
                    ELSE IF loc[c].op = "schedule" THEN "link" ELSE "unlock",
                 [loc[c] EXCEPT !.entry = e])

\* The time of the entry is read once, and compared.
CompareTime(c) ==
  /\ pc[c] = "compare" /\ loc[c].op = "schedule"
  /\ LET t == remaining[loc[c].entry]
     IN  Locally(c, IF remaining[loc[c].new] <= t THEN "charge" ELSE "pass",
                 [loc[c] EXCEPT !.time = t])

ChangeRemaining(c, e, t, label) ==
  /\ remaining' = [remaining EXCEPT ![e] = t]
  /\ Goto(c, label)
  /\ posted' = NoMessage
  /\ UNCHANGED <<head, free, next, data, sm_mutex, isr, left>>

Charge(c) ==
  /\ pc[c] = "charge"
  /\ ChangeRemaining(c, loc[c].entry, loc[c].time - remaining[loc[c].new], "link")
  /\ UNCHANGED loc

Pass(c) ==
  /\ pc[c] = "pass"
  /\ ChangeRemaining(c, loc[c].new, remaining[loc[c].new] - loc[c].time, "load")
  /\ loc' = [loc EXCEPT ![c].cell = loc[c].entry]

\* new_entry->next = *pnext
Link(c) ==
  /\ pc[c] = "link"
  /\ next' = [next EXCEPT ![loc[c].new] = At(loc[c].cell)]
  /\ Goto(c, "hook")
  /\ posted' = NoMessage
  /\ UNCHANGED <<head, free, remaining, data, sm_mutex, loc, isr, left>>

\* *pnext = new_entry
Hook(c) ==
  /\ pc[c] = "hook"
  /\ Store(loc[c].cell, loc[c].new)
  /\ Goto(c, "unlock")
  /\ posted' = NoMessage
  /\ UNCHANGED <<free, remaining, data, sm_mutex, loc, isr, left>>

\* The entry's data is copied, and compared with what is to be cancelled.
CompareMessage(c) ==
  /\ pc[c] = "compare" /\ loc[c].op = "cancel"
  /\ LET e == loc[c].entry
     IN  IF data[e] = loc[c].target
           THEN Locally(c, "give", [loc[c] EXCEPT !.time = remaining[e]])
           ELSE Locally(c, "load", [loc[c] EXCEPT !.cell = e])

\* entry->next->schmsg_data.remaining += retval
Inherited_Lost(c, n) == remaining[n]
Inherited(c, n) == remaining[n] + loc[c].time

Give(c) ==
  /\ pc[c] = "give"
  /\ LET n == next[loc[c].entry]
     IN  IF n = Null THEN Locally(c, "unhook", loc[c])
                     ELSE /\ ChangeRemaining(c, n, Inherited(c, n), "unhook")
                          /\ UNCHANGED loc

\* *pnext = entry->next
Unhook(c) ==
  /\ pc[c] = "unhook"
  /\ Store(loc[c].cell, next[loc[c].entry])
  /\ Goto(c, "return")
  /\ posted' = NoMessage
  /\ UNCHANGED <<free, remaining, data, sm_mutex, loc, isr, left>>

Return(c) ==
  /\ pc[c] = "return"
  /\ next' = FreeListed(loc[c].entry)
  /\ free' = loc[c].entry
  /\ Goto(c, "unlock")
  /\ posted' = NoMessage
  /\ UNCHANGED <<head, remaining, data, sm_mutex, loc, isr, left>>

\* mutex_exit, and the interrupts of core c are back on.
Released_Kept == sm_mutex
Released == NoCore

Unlock(c) ==
  /\ pc[c] = "unlock"
  /\ sm_mutex' = Released
  /\ Goto(c, "idle")
  /\ loc' = [loc EXCEPT ![c] = NoLocals]
  /\ posted' = NoMessage
  /\ UNCHANGED <<head, free, next, remaining, data, isr, left>>

-----------------------------------------------------------------------------
(* The interrupt: the statements of _on_recurring_interrupt *)

InterruptsOn == 0 \in Callers => pc[0] = "idle"

\* One millisecond less for every message that waits.
Passed ==
  LET w == Waiting
  IN  left' = [e \in Entries |-> IF e \in w THEN left[e] - 1 ELSE 0]

\* The interrupt is taken and looks at the head.
TickHead ==
  /\ ipc = "idle"
  /\ InterruptsOn
  /\ IF head = Null THEN Passed /\ UNCHANGED isr
                    ELSE ipc' = "decrement" /\ nxt' = head /\ UNCHANGED left
  /\ posted' = NoMessage
  /\ UNCHANGED <<head, free, next, remaining, data, tasks>>

TickDecrement ==
  /\ ipc = "decrement"
  /\ remaining' = [remaining EXCEPT ![nxt] = @ - 1]
  /\ ipc' = IF remaining'[nxt] <= 0 THEN "test" ELSE "idle"
  /\ nxt' = Null
  /\ Passed
  /\ posted' = NoMessage
  /\ UNCHANGED <<head, free, next, data, tasks>>

\* The head has timed out: post it.
TickPost ==
  /\ ipc = "test"
  /\ head # Null /\ remaining[head] <= 0
  /\ posted' = data[head]
  /\ ipc' = "next"
  /\ UNCHANGED <<head, free, next, remaining, data, tasks, nxt, left>>

TickDone ==
  /\ ipc = "test"
  /\ head # Null => remaining[head] > 0
  /\ ipc' = "idle"
  /\ posted' = NoMessage
  /\ UNCHANGED <<head, free, next, remaining, data, tasks, nxt, left>>

\* next = cmt_smd_ll->next.  Through NULL, which only another core can have put
\* there since the test, the read finds anything.
TickNext ==
  /\ ipc = "next"
  /\ nxt' \in IF head = Null THEN Pointers ELSE {next[head]}
  /\ ipc' = "free"
  /\ posted' = NoMessage
  /\ UNCHANGED <<head, free, next, remaining, data, tasks, left>>

\* cmt_return_smdllent panics when it is given NULL.
TickFree ==
  /\ ipc = "free"
  /\ IF head = Null
       THEN ipc' = "panic" /\ UNCHANGED <<next, free>>
       ELSE ipc' = "advance" /\ next' = FreeListed(head) /\ free' = head
  /\ posted' = NoMessage
  /\ UNCHANGED <<head, remaining, data, tasks, nxt, left>>

\* cmt_smd_ll = next
Advanced_TooEarly == next[head]
Advanced == nxt

TickAdvance ==
  /\ ipc = "advance"
  /\ head' = Advanced
  /\ ipc' = "test"
  /\ nxt' = Null
  /\ posted' = NoMessage
  /\ UNCHANGED <<free, next, remaining, data, tasks, left>>

-----------------------------------------------------------------------------

Next ==
  \/ \E c \in Callers :
       \/ \E m \in Targets, ms \in Delays : Begin(c, "schedule", m, ms)
       \/ c \in Cancellers /\ \E m \in Targets : Begin(c, "cancel", m, 0)
       \/ Lock(c) \/ Alloc(c) \/ Load(c) \/ CompareTime(c) \/ Charge(c)
       \/ Pass(c) \/ Link(c) \/ Hook(c)
       \/ CompareMessage(c) \/ Give(c) \/ Unhook(c) \/ Return(c)
       \/ Unlock(c)
  \/ TickHead \/ TickDecrement \/ TickPost \/ TickDone
  \/ TickNext \/ TickFree \/ TickAdvance

Spec == Init /\ [][Next]_vars

-----------------------------------------------------------------------------
(* Properties *)

TypeOK ==
  /\ head \in Pointers /\ free \in Pointers
  /\ next \in [Entries -> Pointers]
  /\ remaining \in [Entries -> Int]
  /\ data \in [Entries -> Targets \cup {NoMessage}]
  /\ sm_mutex \in Callers \cup {NoCore}
  /\ ipc \in {"idle", "decrement", "test", "next", "free", "advance", "panic"}
  /\ nxt \in Pointers
  /\ \A c \in Callers :
       /\ pc[c] \in {"idle", "lock", "alloc", "load", "compare", "charge", "pass",
                     "link", "hook", "give", "unhook", "return", "unlock", "panic"}
       /\ pc[c] \notin {"idle", "lock"} <=> sm_mutex = c
       /\ pc[c] \in {"compare", "charge", "pass", "give", "unhook", "return"}
            => loc[c].entry \in Entries

\* Whenever no operation and no interrupt is under way, the list and the free
\* list both end and share out the pool between them: no entry is lost, none is
\* linked twice, no freed entry is still reachable.  And the interrupt does not
\* lose the entry it is posting.
ListIntact ==
  /\ ipc # "panic"
  /\ sm_mutex = NoCore /\ ipc = "idle"
       => /\ Ends(head) /\ Ends(free)
          /\ Chain(head) \cap Chain(free) = {}
          /\ Chain(head) \cup Chain(free) = Entries

Deadline == INSTANCE CmtDeadline WITH
  held <- LET w == Waiting
          IN  [e \in Entries |-> IF e \in w THEN data[e] ELSE NoMessage],
  left <- LET w == Waiting IN [e \in Entries |-> IF e \in w THEN left[e] ELSE 0]

\* The linked list, with its shared `next' field and deltas that are changed
\* before the pointers are, keeps the promise of cmt.h.
ImplementsDeadline == Deadline!Spec
=============================================================================
