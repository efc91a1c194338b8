------------------------------ MODULE CmtLoop ------------------------------
(***************************************************************************)
(* The two message loops of the kernel (message_loop of cmt.c), the queues *)
(* they read (multicore.c), the housekeeping half of the 1 ms interrupt,   *)
(* runon_core0 over the inter-core FIFOs, and the start-up that chains the *)
(* two loops together (hwrt.c, app.c).                                     *)
(*                                                                         *)
(* A message is one of a few kinds, named for what its handlers do to this *)
(* state: START (MSG_LOOP_STARTED with its start function), HK             *)
(* (MSG_PERIODIC_RT with its housekeeping handler), APPS                   *)
(* (MSG_APPS_STARTED) and WORK, any other: its handlers may post any       *)
(* number of messages to either core and, on core 1, may call runon_core0. *)
(*                                                                         *)
(* The interrupt runs on core 0 and suspends it; core 1 runs on meanwhile. *)
(* A post that finds the queue full halts the core that posts, after the   *)
(* report has drained the queue, unless _no_qadd_panic is set (debug mode),*)
(* when the message is dropped.                                            *)
(***************************************************************************)
EXTENDS Integers, Sequences

CONSTANTS
  QueueSize,     \* CORE0_QUEUE_NP_ENTRIES_MAX, CORE1_QUEUE_NP_ENTRIES_MAX
  HousekeepTicks \* the ticks between housekeeping messages (16)

ASSUME LoopAssumption ==
  /\ QueueSize \in Nat \ {0}
  /\ HousekeepTicks \in Nat \ {0}

Cores == {0, 1}
Kinds == {"START", "HK", "APPS", "WORK"}

VARIABLES
  queue,          \* core -> _core0_queue, _core1_queue
  fifo,           \* core -> the hardware FIFO it reads: pointers to messages
  no_qadd_panic,  \* _no_qadd_panic
  pending,        \* core -> _housekeep0_msg_pending, _housekeep1_msg_pending
  housekeep_rt,   \* _housekeep_rt
  ipc,            \* where the interrupt is, or "idle"
  loop,           \* core -> where its program is
  msg,            \* core -> the message its loop handles
  answered,       \* core -> a runon handler wrote its result in that core's message
  apps_started    \* _apps_started

vars == <<queue, fifo, no_qadd_panic, pending, housekeep_rt, ipc, loop, msg,
          answered, apps_started>>

Init ==
  /\ queue = [c \in Cores |-> <<>>]
  /\ fifo = [c \in Cores |-> <<>>]
  /\ no_qadd_panic \in BOOLEAN
  /\ pending = [c \in Cores |-> FALSE]
  /\ housekeep_rt = 0
  /\ ipc = "idle"
  /\ loop = [c \in Cores |-> IF c = 0 THEN "boot" ELSE "off"]
  /\ msg = [c \in Cores |-> "WORK"]
  /\ answered = [c \in Cores |-> FALSE]
  /\ apps_started = FALSE

Halted(c) == loop[c] = "halt"

\* The program of core c can take a step: it is not suspended by the interrupt.
Runs(c) == c = 0 => ipc = "idle"

\* A post by code of core `by' to core `to', where that code goes on to `label':
\* post_to_core0 and post_to_core1.
PostThen(by, to, m, label) ==
  IF Len(queue[to]) < QueueSize
    THEN /\ queue' = [queue EXCEPT ![to] = Append(@, m)]
         /\ loop' = [loop EXCEPT ![by] = label]
    ELSE IF no_qadd_panic
           THEN /\ loop' = [loop EXCEPT ![by] = label]
                /\ UNCHANGED queue
           ELSE /\ loop' = [loop EXCEPT ![by] = "halt"]
                /\ queue' = [queue EXCEPT ![to] = <<>>]

\* post_to_core0_nowait
PostNoWait(to, m) ==
  queue' = IF Len(queue[to]) < QueueSize
             THEN [queue EXCEPT ![to] = Append(@, m)] ELSE queue

Goto(c, label) == loop' = [loop EXCEPT ![c] = label]

\* The top of the loop: core 0 looks at the FIFO first.
Top_Swapped(c) == IF c = 1 THEN "fifo" ELSE "queue"
Top(c) == IF c = 0 THEN "fifo" ELSE "queue"

-----------------------------------------------------------------------------
(* Interrupts *)

\* _on_recurring_interrupt, once the scheduled messages are done with.
Tick ==
  /\ ipc = "idle" /\ ~Halted(0)
  /\ housekeep_rt' = (housekeep_rt + 1) % HousekeepTicks
  /\ ipc' = IF housekeep_rt' = 0 THEN "hk0" ELSE "idle"
  /\ UNCHANGED <<queue, fifo, no_qadd_panic, pending, loop, msg, answered,
                 apps_started>>

After(c) == IF c = 0 THEN "hk1" ELSE "idle"

\* if (!_housekeepN_msg_pending)
HousekeepDue_Always(c) == TRUE
HousekeepDue(c) == ~pending[c]

HousekeepTest(c) ==
  /\ ipc = (IF c = 0 THEN "hk0" ELSE "hk1") /\ ~Halted(0)
  /\ IF HousekeepDue(c)
       THEN /\ pending' = [pending EXCEPT ![c] = TRUE]
            /\ ipc' = IF c = 0 THEN "post0" ELSE "post1"
       ELSE ipc' = After(c) /\ UNCHANGED pending
  /\ UNCHANGED <<queue, fifo, no_qadd_panic, housekeep_rt, loop, msg, answered,
                 apps_started>>

HousekeepPost(c) ==
  /\ ipc = (IF c = 0 THEN "post0" ELSE "post1") /\ ~Halted(0)
  /\ PostThen(0, c, "HK", loop[0])
  /\ ipc' = After(c)
  /\ UNCHANGED <<fifo, no_qadd_panic, pending, housekeep_rt, msg, answered,
                 apps_started>>

\* Scheduled messages that time out, bus events, terminal input: interrupts of
\* either core post messages to either.
InterruptPost(by, to) ==
  /\ loop[by] \notin {"off", "halt"}
  /\ Runs(by)
  /\ PostThen(by, to, "WORK", loop[by])
  /\ UNCHANGED <<fifo, no_qadd_panic, pending, housekeep_rt, ipc, msg, answered,
                 apps_started>>

-----------------------------------------------------------------------------
(* message_loop *)

\* The loop starts with a message to itself that runs its start function.
EnterLoop(c) ==
  /\ loop[c] = "boot" /\ Runs(c)
  /\ PostThen(c, c, "START", Top(c))
  /\ UNCHANGED <<fifo, no_qadd_panic, pending, housekeep_rt, ipc, msg, answered,
                 apps_started>>

\* Core 0: is there something of core 1 to run?
PollFifo ==
  /\ loop[0] = "fifo" /\ Runs(0)
  /\ IF fifo[0] # <<>>
       THEN fifo' = [fifo EXCEPT ![0] = Tail(@)] /\ Goto(0, "running")
       ELSE Goto(0, "queue") /\ UNCHANGED fifo
  /\ UNCHANGED <<queue, no_qadd_panic, pending, housekeep_rt, ipc, msg, answered,
                 apps_started>>

\* c1msg->hdlr(&msg): the message the handler is given is the one of core 0's
\* loop.  When it has run, the pointer goes back.
HandlerArgument == 0

PointerBack_Kept == fifo[1]
PointerBack == Append(fifo[1], "c1msg")

RunDone ==
  /\ loop[0] = "running" /\ Runs(0)
  /\ answered' = [answered EXCEPT ![HandlerArgument] = TRUE]
  /\ fifo' = [fifo EXCEPT ![1] = PointerBack]
  /\ Goto(0, "queue")
  /\ UNCHANGED <<queue, no_qadd_panic, pending, housekeep_rt, ipc, msg,
                 apps_started>>

\* The message is removed from the queue.
Removed_Peeked(c) == queue[c]
Removed(c) == Tail(queue[c])

\* The handler the message names.
Dispatched_NoStart(m) == IF m = "HK" THEN "clear" ELSE "body"
Dispatched(m) == CASE m = "HK" -> "clear" [] m = "START" -> "start" [] OTHER -> "body"

\* get_msg_function and the dispatch.
Get(c) ==
  /\ loop[c] = "queue" /\ Runs(c)
  /\ IF queue[c] # <<>>
       THEN /\ msg' = [msg EXCEPT ![c] = Head(queue[c])]
            /\ queue' = [queue EXCEPT ![c] = Removed(c)]
            /\ answered' = [answered EXCEPT ![c] = FALSE]
            /\ Goto(c, Dispatched(Head(queue[c])))
       ELSE /\ Goto(c, Top(c))
            /\ UNCHANGED <<msg, queue, answered>>
  /\ UNCHANGED <<fifo, no_qadd_panic, pending, housekeep_rt, ipc, apps_started>>

\* _housekeep0_msg_hdlr, _housekeep1_msg_hdlr; then the registered handlers.
Cleared_Forgotten(c) == pending
Cleared(c) == [pending EXCEPT ![c] = FALSE]

HousekeepClear(c) ==
  /\ loop[c] = "clear" /\ Runs(c)
  /\ pending' = Cleared(c)
  /\ Goto(c, "body")
  /\ UNCHANGED <<queue, fifo, no_qadd_panic, housekeep_rt, ipc, msg, answered,
                 apps_started>>

\* _hwrt_started: start core 1, tell it, and post a test to ourselves.
HwrtStart ==
  /\ loop[0] = "start" /\ Runs(0)
  /\ loop' = [loop EXCEPT ![0] = "tell", ![1] = "boot"]
  /\ UNCHANGED <<queue, fifo, no_qadd_panic, pending, housekeep_rt, ipc, msg,
                 answered, apps_started>>

HwrtTell ==
  /\ loop[0] = "tell" /\ Runs(0)
  /\ PostThen(0, 1, "WORK", "test")
  /\ UNCHANGED <<fifo, no_qadd_panic, pending, housekeep_rt, ipc, msg, answered,
                 apps_started>>

HwrtTest ==
  /\ loop[0] = "test" /\ Runs(0)
  /\ PostNoWait(0, "WORK")
  /\ Goto(0, "fifo")
  /\ UNCHANGED <<fifo, no_qadd_panic, pending, housekeep_rt, ipc, msg, answered,
                 apps_started>>

\* _core1_started and start_app: the applications tell the runtime.
AppsStart ==
  /\ loop[1] = "start"
  /\ PostThen(1, 0, "APPS", "queue")
  /\ UNCHANGED <<fifo, no_qadd_panic, pending, housekeep_rt, ipc, msg, answered,
                 apps_started>>

\* A handler, or a handler core 0 runs for core 1, posts a message.
HandlerPost(c, to) ==
  /\ loop[c] \in {"body", "running"} /\ Runs(c)
  /\ PostThen(c, to, "WORK", loop[c])
  /\ UNCHANGED <<fifo, no_qadd_panic, pending, housekeep_rt, ipc, msg, answered,
                 apps_started>>

\* The last handler of the message returns.
HandlerEnd(c) ==
  /\ loop[c] \in {"body", "returned"} /\ Runs(c)
  /\ apps_started' = (apps_started \/ (c = 0 /\ msg[c] = "APPS"))
  /\ Goto(c, Top(c))
  /\ UNCHANGED <<queue, fifo, no_qadd_panic, pending, housekeep_rt, ipc, msg,
                 answered>>

-----------------------------------------------------------------------------
(* runon_core0 *)

FifoDepth == 4   \* of the RP2350

\* The checks: a panic if the way out is full or an answer lies in the way in.
MayRunon == Len(fifo[0]) < FifoDepth /\ fifo[1] = <<>>

Runon ==
  /\ loop[1] = "body" /\ msg[1] = "WORK"
  /\ IF MayRunon
       THEN /\ fifo' = [fifo EXCEPT ![0] = Append(@, "c1msg")]
            /\ answered' = [answered EXCEPT ![1] = FALSE]
            /\ Goto(1, "blocked")
       ELSE Goto(1, "halt") /\ UNCHANGED <<fifo, answered>>
  /\ UNCHANGED <<queue, no_qadd_panic, pending, housekeep_rt, ipc, msg,
                 apps_started>>

\* Core 1 is held until its pointer comes back.
RunonReturn ==
  /\ loop[1] = "blocked"
  /\ fifo[1] # <<>>
  /\ fifo' = [fifo EXCEPT ![1] = Tail(@)]
  /\ Goto(1, "returned")
  /\ UNCHANGED <<queue, no_qadd_panic, pending, housekeep_rt, ipc, msg, answered,
                 apps_started>>

-----------------------------------------------------------------------------

Interrupt == Tick \/ \E c \in Cores : HousekeepTest(c) \/ HousekeepPost(c)

\* What the program of a core does by itself, handlers' choices aside.
Loop(c) == EnterLoop(c) \/ Get(c) \/ HousekeepClear(c) \/ HandlerEnd(c)

Program0 == Loop(0) \/ PollFifo \/ RunDone \/ HwrtStart \/ HwrtTell \/ HwrtTest
Program1 == Loop(1) \/ AppsStart \/ RunonReturn

Next ==
  \/ Interrupt
  \/ Program0
  \/ Program1
  \/ \E by, to \in Cores : InterruptPost(by, to) \/ HandlerPost(by, to)
  \/ Runon

Spec == Init /\ [][Next]_vars

\* The timer ticks for ever.  A core that is not halted executes its program:
\* the interrupt suspends core 0 only for a moment, and handlers return.
FairSpec ==
  /\ Spec
  /\ WF_vars(Interrupt)
  /\ SF_vars(Program0) /\ SF_vars(Program1)

-----------------------------------------------------------------------------
(* Properties *)

TypeOK ==
  /\ queue \in [Cores -> Seq(Kinds)]
  /\ \A c \in Cores : Len(queue[c]) <= QueueSize
  /\ fifo \in [Cores -> Seq({"c1msg"})]
  /\ no_qadd_panic \in BOOLEAN
  /\ pending \in [Cores -> BOOLEAN]
  /\ housekeep_rt \in 0..HousekeepTicks - 1
  /\ ipc \in {"idle", "hk0", "post0", "hk1", "post1"}
  /\ loop \in [Cores -> {"off", "boot", "fifo", "running", "queue", "clear",
                         "start", "tell", "test", "body", "blocked", "returned",
                         "halt"}]
  /\ loop[0] \notin {"off", "blocked", "returned"}
  /\ loop[1] \notin {"fifo", "running", "tell", "test"}
  /\ msg \in [Cores -> Kinds]
  /\ answered \in [Cores -> BOOLEAN]
  /\ apps_started \in BOOLEAN

AnyHalt == \E c \in Cores : Halted(c)

\* The housekeeping messages of core c that are on their way to its handler.
Places(q, kind) == {i \in 1..Len(q) : q[i] = kind}
InQueue(c) == Places(queue[c], "HK")
InQueueOf(c, kind) == Places(queue[c], kind) # {}
Posting(c) == ipc = (IF c = 0 THEN "post0" ELSE "post1")
InHand(c) == loop[c] = "clear"

\* However slow a core is, its queue never holds more than one housekeeping
\* message, and only while the flag is set: a blocked core's queue does not fill
\* with them.
OneHousekeeping ==
  \A c \in Cores :
    /\ \A i, j \in InQueue(c) : i = j
    /\ InQueue(c) # {} => pending[c] /\ ~Posting(c) /\ ~InHand(c)
    /\ Posting(c) \/ InHand(c) => pending[c]
    /\ ~(Posting(c) /\ InHand(c))

\* The flag is never set for nothing: a housekeeping message is on its way that
\* will clear it.  (Otherwise housekeeping would stop for ever.)
PendingIsOnItsWay ==
  ~no_qadd_panic /\ ~AnyHalt
    => \A c \in Cores : pending[c] => InQueue(c) # {} \/ Posting(c) \/ InHand(c)

\* While core 1 waits in runon_core0 its pointer is in exactly one place: on the
\* way to core 0, in the handler there, or on the way back.  Otherwise there is
\* none, so the next call finds both FIFOs empty and passes its checks.
RunonHandshake ==
  ~AnyHalt =>
    Len(fifo[0]) + Len(fifo[1]) + (IF loop[0] = "running" THEN 1 ELSE 0)
      = (IF loop[1] = "blocked" THEN 1 ELSE 0)

\* core1_main and _core1_started are not run a second time (hwrt.c:130, 148
\* panic if they are): core 0's start function runs once.
CoreOneStartsOnce == loop[0] = "start" => loop[1] = "off"

\* runon_core0 returns, whatever is queued and whichever interrupts come.
RunonReturns == loop[1] = "blocked" ~> (loop[1] # "blocked" \/ AnyHalt)

\* Housekeeping messages go on being posted and handled on both cores
\* (cmt.c:72: `posts a MSG_PERIODIC_RT message every 16ms').
HousekeepingGoesOn ==
  <>AnyHalt \/ \A c \in Cores : []<>pending[c] /\ []<>~pending[c]

\* The same, for what the firmware does outside debug mode.
HousekeepingGoesOnUnlessDebug == no_qadd_panic \/ HousekeepingGoesOn

\* The start-up chain completes: core 0's start function launches core 1, core
\* 1's start function sends the applications' word back, and it arrives.  In
\* debug mode each of the three messages may be dropped at a full queue, and
\* nothing sends it again; but one that is in its queue has its effect, in both
\* modes.
StartupCompletes ==
  /\ InQueueOf(0, "START") ~> (loop[1] # "off" \/ AnyHalt)
  /\ InQueueOf(1, "START") ~> (loop[1] = "start" \/ AnyHalt)
  /\ InQueueOf(0, "APPS") ~> (apps_started \/ AnyHalt)
  /\ ~no_qadd_panic ~> (apps_started \/ AnyHalt)

\* multicore.h: `Run a message handler w/msg on Core-0 from Core-1': when
\* runon_core0 returns, the caller finds what the handler wrote in its message.
RunonGivesAnswer == loop[1] = "returned" => answered[1]
=============================================================================
