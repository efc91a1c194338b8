------------------------------ MODULE CmtSched ------------------------------
(***************************************************************************)
(* The scheduled messages of the Cooperative Multi-Tasking kernel          *)
(* (src-rp/cmt/cmt.c with the entry pool of src-rp/cmt/cmt_heap.c).        *)
(*                                                                         *)
(* Messages wait in a delta list: `cmt_smd_ll' is ordered by time, and the *)
(* `remaining' of an entry counts from the entry in front of it.  The 1 ms *)
(* recurring interrupt decrements the head only and posts what reaches 0.  *)
(* The loops of the code are loops of this module: each iteration of the   *)
(* walk in _schedule_core_msg_in_ms, of the search in                      *)
(* scheduled_msg_cancel3 and of the expiry in _on_recurring_interrupt is a *)
(* step, and `pc' says which loop is running.                              *)
(*                                                                         *)
(* The caller is code of core 0, where the interrupt runs: the             *)
(* save_and_disable_interrupts of the list operations keeps a tick from    *)
(* arriving inside one, so a tick needs pc = "idle".  Calls from core 1,   *)
(* which that does not protect, are the subject of CmtSchedList.           *)
(*                                                                         *)
(* The housekeeping half of the interrupt (cmt.c:98-112) touches none of   *)
(* this state and is modelled in CmtLoop, as are the queues the messages   *)
(* are posted to.                                                          *)
(***************************************************************************)
EXTENDS Integers, Sequences, FiniteSets

CONSTANTS
  Entries,   \* smdllent_pool
  Messages,  \* the messages (an id and a handler)
  Delays,    \* the delays callers ask for, in milliseconds
  NoMessage  \* what a free entry holds

ASSUME SchedAssumption ==
  /\ IsFiniteSet(Entries)
  /\ Delays \subseteq Nat
  /\ \A m \in Messages, c \in {0, 1} : <<m, c>> # NoMessage

Cores == {0, 1}

VARIABLES
  smd_ll,     \* cmt_smd_ll: the linked list, as the sequence of its entries
  free,       \* smdllent_free: the entries that are not in use
  held,       \* entry -> schmsg_data.msg and .corenum, or NoMessage
  remaining,  \* entry -> schmsg_data.remaining
  pc,         \* the loop that is running, or "idle", or "panic"
  pos,        \* the place in the list the running loop has reached
  arg,        \* what the running operation works on: an entry or a message
  posted,     \* the message the latest step posted to its core, or NoMessage
  retval,     \* what the latest scheduled_msg_cancel3 returned
  left        \* history: entry -> ticks until its message is to be posted

vars == <<smd_ll, free, held, remaining, pc, pos, arg, posted, retval,
          left>>

Range0(f) == {f[i] : i \in DOMAIN f}

Targets == {<<m, c>> : m \in Messages, c \in Cores}

\* The list with entry e linked in front of the entry at place p.
Linked(p, e) ==
  [i \in 1..Len(smd_ll) + 1 |->
     IF i < p THEN smd_ll[i] ELSE IF i = p THEN e ELSE smd_ll[i - 1]]

\* The list with the entry at place p unlinked.
Unlinked(p) ==
  [i \in 1..Len(smd_ll) - 1 |-> IF i < p THEN smd_ll[i] ELSE smd_ll[i + 1]]

\* The test of cmt.c:80 and 84: an entry with no time left has timed out.
TimedOut_Late(r) == r < 0
TimedOut(r) == r <= 0

\* The decrement of cmt.c:80.
Decremented(r) == r - 1

\* `remaining' once the entry at place p is given up by a cancel: what is behind
\* it counts from what was in front of it (cmt.c:315-317).
Inherited_Lost(p) == remaining
Inherited(p) ==
  IF p < Len(smd_ll)
    THEN [remaining EXCEPT ![smd_ll[p + 1]] = @ + remaining[smd_ll[p]]]
    ELSE remaining

\* cmt_return_smdllent
Returned_Leaked(e) == free
Returned_WrongPointer(e) == free \cup {arg}
Returned(e) == free \cup {e}

Init ==
  /\ smd_ll = <<>>
  /\ free = Entries
  /\ held = [e \in Entries |-> NoMessage]
  /\ remaining = [e \in Entries |-> 0]
  /\ pc = "idle"
  /\ pos = 1
  /\ arg = NoMessage
  /\ posted = NoMessage
  /\ retval = 0
  /\ left = [e \in Entries |-> 0]

-----------------------------------------------------------------------------
(* _schedule_core_msg_in_ms *)

\* An entry is taken from the pool and given the whole delay.
ScheduleBegin(m, core, ms) ==
  /\ pc = "idle"
  /\ \E e \in free :
       /\ free' = free \ {e}
       /\ held' = [held EXCEPT ![e] = <<m, core>>]
       /\ remaining' = [remaining EXCEPT ![e] = ms]
       /\ left' = [left EXCEPT ![e] = ms]
       /\ arg' = e
  /\ pc' = "insert"
  /\ pos' = 1
  /\ posted' = NoMessage
  /\ UNCHANGED <<smd_ll, retval>>

\* cmt_alloc_smdllent finds the pool empty: board_panic, and nothing runs again.
SchedulePanic ==
  /\ pc = "idle"
  /\ free = {}
  /\ pc' = "panic"
  /\ posted' = NoMessage
  /\ UNCHANGED <<smd_ll, free, held, remaining, pos, arg, retval, left>>

\* The new entry is later than the one at pos: it counts from that one on.
ScheduleWalk ==
  /\ pc = "insert"
  /\ pos <= Len(smd_ll)
  /\ remaining[arg] > remaining[smd_ll[pos]]
  /\ remaining' = [remaining EXCEPT ![arg] = @ - remaining[smd_ll[pos]]]
  /\ pos' = pos + 1
  /\ UNCHANGED <<smd_ll, free, held, pc, arg, posted, retval, left>>

\* It is not later than the one at pos, or the list has ended: it goes here.
ScheduleLink ==
  /\ pc = "insert"
  /\ pos <= Len(smd_ll) => remaining[arg] <= remaining[smd_ll[pos]]
  /\ remaining' =
       IF pos <= Len(smd_ll)
         THEN [remaining EXCEPT ![smd_ll[pos]] = @ - remaining[arg]]
         ELSE remaining
  /\ smd_ll' = Linked(pos, arg)
  /\ pc' = "idle"
  /\ arg' = NoMessage
  /\ pos' = 1
  /\ UNCHANGED <<free, held, posted, retval, left>>

-----------------------------------------------------------------------------
(* scheduled_msg_cancel3 *)

CancelBegin(m, core) ==
  /\ pc = "idle"
  /\ pc' = "cancel"
  /\ arg' = <<m, core>>
  /\ pos' = 1
  /\ retval' = 0
  /\ posted' = NoMessage
  /\ UNCHANGED <<smd_ll, free, held, remaining, left>>

CancelWalk ==
  /\ pc = "cancel"
  /\ pos <= Len(smd_ll)
  /\ held[smd_ll[pos]] # arg
  /\ pos' = pos + 1
  /\ UNCHANGED <<smd_ll, free, held, remaining, pc, arg, posted, retval, left>>

\* The first match: its time is given to the entry behind it, it is unlinked
\* and goes back to the pool.
CancelUnlink ==
  /\ pc = "cancel"
  /\ pos <= Len(smd_ll)
  /\ LET e == smd_ll[pos]
     IN  /\ held[e] = arg
         /\ retval' = remaining[e]
         /\ remaining' = Inherited(pos)
         /\ free' = Returned(e)
         /\ held' = [held EXCEPT ![e] = NoMessage]
         /\ left' = [left EXCEPT ![e] = 0]
  /\ smd_ll' = Unlinked(pos)
  /\ pc' = "idle"
  /\ arg' = NoMessage
  /\ pos' = 1
  /\ UNCHANGED posted

CancelMiss_NeverReturns ==
  /\ pc = "cancel"
  /\ pos > Len(smd_ll)
  /\ UNCHANGED vars

CancelMiss ==
  /\ pc = "cancel"
  /\ pos > Len(smd_ll)
  /\ pc' = "idle"
  /\ arg' = NoMessage
  /\ pos' = 1
  /\ UNCHANGED <<smd_ll, free, held, remaining, posted, retval, left>>

-----------------------------------------------------------------------------
(* _on_recurring_interrupt, the scheduled messages *)

\* The head alone is decremented; it may have timed out.
TickBegin ==
  /\ pc = "idle"
  /\ IF smd_ll = <<>>
       THEN UNCHANGED <<remaining, pc>>
       ELSE /\ remaining' = [remaining EXCEPT ![smd_ll[1]] = Decremented(@)]
            /\ pc' = IF TimedOut(remaining'[smd_ll[1]]) THEN "expire" ELSE "idle"
  /\ left' = [e \in Entries |-> IF e \in free THEN 0 ELSE left[e] - 1]
  /\ posted' = NoMessage
  /\ UNCHANGED <<smd_ll, free, held, pos, arg, retval>>

\* The head has timed out: post it to its core, free it, look at the next.
TickPost ==
  /\ pc = "expire"
  /\ smd_ll # <<>>
  /\ TimedOut(remaining[smd_ll[1]])
  /\ posted' = held[smd_ll[1]]
  /\ free' = Returned(smd_ll[1])
  /\ held' = [held EXCEPT ![smd_ll[1]] = NoMessage]
  /\ smd_ll' = Unlinked(1)
  /\ UNCHANGED <<remaining, pc, pos, arg, retval, left>>

TickEnd ==
  /\ pc = "expire"
  /\ smd_ll # <<>> => ~TimedOut(remaining[smd_ll[1]])
  /\ pc' = "idle"
  /\ posted' = NoMessage
  /\ UNCHANGED <<smd_ll, free, held, remaining, pos, arg, retval, left>>

-----------------------------------------------------------------------------

\* The steps of an operation that has begun, and of the interrupt.
Continue ==
  \/ ScheduleWalk \/ ScheduleLink
  \/ CancelWalk \/ CancelUnlink \/ CancelMiss
  \/ TickPost \/ TickEnd

Next ==
  \/ \E m \in Messages, core \in Cores :
       \/ \E ms \in Delays : ScheduleBegin(m, core, ms)
       \/ CancelBegin(m, core)
  \/ SchedulePanic
  \/ TickBegin
  \/ Continue

Spec == Init /\ [][Next]_vars

\* A begun operation runs to its end.  The interrupt is only held off while an
\* operation runs with interrupts disabled and is taken when that ends, so a
\* tick that is possible again and again happens.
FairSpec == Spec /\ WF_vars(Continue) /\ SF_vars(TickBegin)

-----------------------------------------------------------------------------
(* Properties *)

TypeOK ==
  /\ smd_ll \in Seq(Entries)
  /\ free \subseteq Entries
  /\ held \in [Entries -> Targets \cup {NoMessage}]
  /\ remaining \in [Entries -> Int]
  /\ pc \in {"idle", "insert", "cancel", "expire", "panic"}
  /\ pos \in Nat \ {0}
  /\ pc \in {"insert", "cancel"} => pos <= Len(smd_ll) + 1
  /\ pc = "insert" => arg \in Entries
  /\ pc = "cancel" => arg \in Targets
  /\ posted \in Targets \cup {NoMessage}
  /\ retval \in Int
  /\ left \in [Entries -> Int]

\* The ticks from now to the entry in front of place p (cmt.c: `remaining'
\* counts from there).
Before(p) == IF p = 1 THEN 0 ELSE left[smd_ll[p - 1]]

\* Every pool entry is in exactly one place: in the list once, being inserted,
\* or free (cmt_heap.c hands an entry out once and gets it back once).
PoolConserved ==
  /\ \A i, j \in 1..Len(smd_ll) : smd_ll[i] = smd_ll[j] => i = j
  /\ free \cap Range0(smd_ll) = {}
  /\ pc = "insert" => arg \notin free \cup Range0(smd_ll)
  /\ Entries = free \cup Range0(smd_ll)
                 \cup (IF pc = "insert" THEN {arg} ELSE {})

\* However entries were inserted, cancelled and ticked, the delta of every entry
\* is what separates its message's time from that of the entry in front of it:
\* the delta list keeps every deadline.
DeltasKeepDeadlines ==
  \A i \in 1..Len(smd_ll) : remaining[smd_ll[i]] = left[smd_ll[i]] - Before(i)

\* Outside the expiry loop nothing that is due is still waiting, and nothing is
\* ever overdue: each message is posted on its tick, neither early nor late.
PostedOnItsTick ==
  \A i \in 1..Len(smd_ll) :
    /\ left[smd_ll[i]] >= 0
    /\ pc # "expire" => left[smd_ll[i]] > 0

\* Every scheduled message is posted or cancelled in the end (unless the pool
\* ran out, which halts the board).
EventuallyLeaves ==
  \A e \in Entries :
    e \in Range0(smd_ll) ~> (e \notin Range0(smd_ll) \/ pc = "panic")

\* The messages of the list are posted as CmtDeadline says.  An entry that is
\* being inserted is not visible there yet; it is when it is linked.
Deadline == INSTANCE CmtDeadline WITH
  held <- [e \in Entries |-> IF e \in Range0(smd_ll) THEN held[e] ELSE NoMessage],
  left <- [e \in Entries |-> IF e \in Range0(smd_ll) THEN left[e] ELSE 0]

ImplementsDeadline == Deadline!Spec
=============================================================================
