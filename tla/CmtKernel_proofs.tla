-------------------------- MODULE CmtKernel_proofs --------------------------
(***************************************************************************)
(* Proofs about the kernel apart from its timer list: the two message      *)
(* loops (CmtLoop) for queues of every size and every housekeeping period, *)
(* and the registry of handlers (CmtHandlers) for any pool, messages and   *)
(* handlers, while both cores work on its lists without a lock.            *)
(*                                                                         *)
(* The inductive invariant of the loops adds to the safety properties that *)
(* the start message of core 0 exists once, before core 1 runs: without it *)
(* a second start could put a blocked core 1 back to its beginning.        *)
(*                                                                         *)
(* That of the registry gives every entry a holder (a message, the pool,   *)
(* or the core that registers it) and a rank: how many entries of its list *)
(* are behind it.  A registration puts its entry in front, so no rank      *)
(* changes under a walk of the other core, and what a walk has yet to      *)
(* visit are the entries of its list below the rank it has come to.        *)
(***************************************************************************)
EXTENDS CmtLoop, CmtHandlers, Chains_proofs

(* The message loops *)

\* There is one START for core 0, and core 1 is off until it is handled.
StartsOnce ==
  LET starts == Places(queue[0], "START")
  IN  /\ \A i, j \in starts : i = j
      /\ loop[0] \in {"boot", "start"} => starts = {} /\ loop[1] = "off"
      /\ starts # {} => loop[1] = "off"

LInv ==
  /\ TypeOK
  /\ OneHousekeeping
  /\ PendingIsOnItsWay
  /\ RunonHandshake
  /\ StartsOnce

-----------------------------------------------------------------------------
(* Where a kind of message is in a queue. *)

\* A message posted to a queue is behind all that were there.
LEMMA PlacesAppend ==
  ASSUME NEW q \in Seq(Kinds), NEW m \in Kinds, NEW k \in Kinds
  PROVE  /\ m = k => Places(Append(q, m), k) = Places(q, k) \cup {Len(q) + 1}
         /\ m # k => Places(Append(q, m), k) = Places(q, k)
         /\ Len(q) + 1 \notin Places(q, k)
<1>1. /\ Len(Append(q, m)) = Len(q) + 1 /\ Len(q) \in Nat
      /\ \A i \in 1..Len(q) + 1 :
           Append(q, m)[i] = IF i <= Len(q) THEN q[i] ELSE m
  OBVIOUS
<1>2. \A i : i \in Places(Append(q, m), k)
               <=> i \in Places(q, k) \/ (m = k /\ i = Len(q) + 1)
  BY <1>1 DEF Places
<1>3. Len(q) + 1 \notin Places(q, k)
  BY <1>1 DEF Places
<1> QED BY <1>2, <1>3

\* Taking the head moves everything up by one.
LEMMA PlacesTail ==
  ASSUME NEW q \in Seq(Kinds), q # <<>>, NEW k \in Kinds
  PROVE  /\ Tail(q) \in Seq(Kinds) /\ Len(Tail(q)) = Len(q) - 1
         /\ Head(q) \in Kinds
         /\ \A i \in Places(Tail(q), k) : i \in Int /\ i > 0 /\ i + 1 \in Places(q, k)
         /\ Head(q) # k => \A i \in Places(q, k) : i - 1 \in Places(Tail(q), k)
         /\ Head(q) = k => 1 \in Places(q, k)
<1>1. /\ Tail(q) \in Seq(Kinds) /\ Len(Tail(q)) = Len(q) - 1 /\ Len(q) \in Nat
      /\ Len(q) > 0 /\ Head(q) = q[1] /\ q[1] \in Kinds
      /\ \A i \in 1..Len(q) - 1 : Tail(q)[i] = q[i + 1]
  OBVIOUS
<1>2. \A i \in Places(Tail(q), k) : i \in Int /\ i > 0 /\ i + 1 \in Places(q, k)
  BY <1>1 DEF Places
<1>3. ASSUME Head(q) # k, NEW i \in Places(q, k) PROVE i - 1 \in Places(Tail(q), k)
  <2>1. i \in 1..Len(q) /\ q[i] = k BY DEF Places
  <2>2. i # 1 BY <2>1, <1>1, <1>3
  <2>3. i - 1 \in 1..Len(q) - 1 /\ (i - 1) + 1 = i BY <2>1, <2>2, <1>1
  <2> QED BY <2>1, <2>3, <1>1 DEF Places
<1>4. Head(q) = k => 1 \in Places(q, k)
  BY <1>1 DEF Places
<1> QED BY <1>1, <1>2, <1>3, <1>4

\* At most one message of a kind: if the head is it, none is left behind.
LEMMA PlacesTailOnce ==
  ASSUME NEW q \in Seq(Kinds), q # <<>>, NEW k \in Kinds,
         \A i, j \in Places(q, k) : i = j
  PROVE  /\ \A i, j \in Places(Tail(q), k) : i = j
         /\ Head(q) = k => Places(Tail(q), k) = {}
         /\ Places(q, k) = {} => Places(Tail(q), k) = {} /\ Head(q) # k
         /\ Places(q, k) # {} /\ Head(q) # k => Places(Tail(q), k) # {}
<1>1. /\ \A i \in Places(Tail(q), k) : i \in Int /\ i > 0 /\ i + 1 \in Places(q, k)
      /\ Head(q) # k => \A i \in Places(q, k) : i - 1 \in Places(Tail(q), k)
      /\ Head(q) = k => 1 \in Places(q, k)
  BY PlacesTail
<1>2. ASSUME NEW i \in Places(Tail(q), k), NEW j \in Places(Tail(q), k) PROVE i = j
  <2>1. i + 1 = j + 1 /\ i \in Int /\ j \in Int BY <1>1
  <2> QED BY <2>1
<1>3. ASSUME Head(q) = k, NEW i \in Places(Tail(q), k) PROVE FALSE
  <2>1. i + 1 = 1 /\ i \in Int /\ i > 0 BY <1>1, <1>3
  <2> QED BY <2>1
<1> QED BY <1>1, <1>2, <1>3

-----------------------------------------------------------------------------
(* What posts, and steps that do not post, leave alone. *)

Labels == {"off", "boot", "fifo", "running", "queue", "clear", "start", "tell",
           "test", "body", "blocked", "returned", "halt"}

\* A post appends the message, or drops it, or halts the core that posts.
LEMMA PostFacts ==
  ASSUME TypeOK, NEW by \in Cores, NEW to \in Cores, NEW m \in Kinds,
         NEW label \in Labels, PostThen(by, to, m, label)
  PROVE  /\ queue' \in [Cores -> Seq(Kinds)]
         /\ \A c \in Cores : Len(queue'[c]) <= QueueSize
         /\ \A c \in Cores : c # to => queue'[c] = queue[c]
         /\ loop' \in [Cores -> Labels]
         /\ \A c \in Cores : c # by => loop'[c] = loop[c]
         /\ \/ queue'[to] = Append(queue[to], m) /\ loop'[by] = label
            \/ queue'[to] = queue[to] /\ loop'[by] = label /\ no_qadd_panic
            \/ queue'[to] = <<>> /\ loop'[by] = "halt"
<1>1. /\ queue \in [Cores -> Seq(Kinds)] /\ loop \in [Cores -> Labels]
      /\ \A c \in Cores : Len(queue[c]) <= QueueSize
  BY DEF TypeOK, Labels
<1>2. QueueSize \in Nat
  BY LoopAssumption
<1>3. CASE Len(queue[to]) < QueueSize
  <2>1. /\ queue' = [queue EXCEPT ![to] = Append(@, m)]
        /\ loop' = [loop EXCEPT ![by] = label]
    BY <1>3 DEF PostThen
  <2>2. Append(queue[to], m) \in Seq(Kinds)
        /\ Len(Append(queue[to], m)) <= QueueSize
    BY <1>1, <1>2, <1>3
  <2> QED BY <2>1, <2>2, <1>1
<1>4. CASE ~(Len(queue[to]) < QueueSize) /\ no_qadd_panic
  <2>1. queue' = queue /\ loop' = [loop EXCEPT ![by] = label]
    BY <1>4 DEF PostThen
  <2> QED BY <2>1, <1>1, <1>4
<1>5. CASE ~(Len(queue[to]) < QueueSize) /\ ~no_qadd_panic
  <2>1. queue' = [queue EXCEPT ![to] = <<>>] /\ loop' = [loop EXCEPT ![by] = "halt"]
    BY <1>5 DEF PostThen
  <2>2. <<>> \in Seq(Kinds) /\ Len(<<>>) <= QueueSize
    BY <1>2
  <2>3. "halt" \in Labels BY DEF Labels
  <2> QED BY <2>1, <2>2, <2>3, <1>1
<1> QED BY <1>3, <1>4, <1>5

\* A halted core stays halted when another one moves.
LEMMA HaltStays ==
  ASSUME NEW by \in Cores, ~Halted(by),
         \A c \in Cores : c # by => loop'[c] = loop[c], AnyHalt
  PROVE  AnyHalt'
  BY DEF AnyHalt, Halted

\* A step that neither moves messages nor begins or ends the housekeeping handler.
LEMMA KeepsHousekeeping ==
  ASSUME LInv, UNCHANGED <<queue, pending, ipc, no_qadd_panic>>, AnyHalt => AnyHalt',
         \A c \in Cores : loop'[c] = "clear" <=> loop[c] = "clear"
  PROVE  OneHousekeeping' /\ PendingIsOnItsWay'
<1>1. \A c \in Cores : /\ InQueue(c)' = InQueue(c)
                       /\ Posting(c)' = Posting(c)
                       /\ InHand(c)' = InHand(c)
  BY DEF InQueue, Places, Posting, InHand
<1>2. OneHousekeeping /\ PendingIsOnItsWay
  BY DEF LInv
<1>3. OneHousekeeping'
  BY <1>1, <1>2 DEF OneHousekeeping
<1>4. PendingIsOnItsWay'
  BY <1>1, <1>2 DEF PendingIsOnItsWay
<1> QED BY <1>3, <1>4

\* A step that leaves the FIFOs alone and does not begin or end a runon.
LEMMA KeepsHandshake ==
  ASSUME LInv, UNCHANGED fifo, AnyHalt => AnyHalt',
         AnyHalt' \/ (loop'[0] = "running" <=> loop[0] = "running"),
         AnyHalt' \/ (loop'[1] = "blocked" <=> loop[1] = "blocked")
  PROVE  RunonHandshake'
  BY DEF LInv, RunonHandshake

\* A step that does not move a start message nor begin or end a start.
LEMMA KeepsStarts ==
  ASSUME LInv, Places(queue'[0], "START") \subseteq Places(queue[0], "START"),
         loop'[0] \in {"boot", "start"} => loop[0] = loop'[0],
         loop[1] = "off" => loop'[1] = "off"
  PROVE  StartsOnce'
  BY DEF LInv, StartsOnce

\* A post of anything but a start or housekeeping message disturbs nothing.
LEMMA PostKeeps ==
  ASSUME LInv, NEW by \in Cores, NEW to \in Cores, NEW m \in {"WORK", "APPS"},
         NEW label \in Labels, PostThen(by, to, m, label),
         UNCHANGED <<fifo, pending, ipc, no_qadd_panic>>,
         loop[by] \notin {"off", "halt"},
         label = "clear" <=> loop[by] = "clear",
         label = "running" <=> loop[by] = "running",
         label = "blocked" <=> loop[by] = "blocked",
         label \in {"boot", "start"} => loop[by] = label
  PROVE  OneHousekeeping' /\ PendingIsOnItsWay' /\ RunonHandshake' /\ StartsOnce'
<1>0. TypeOK /\ OneHousekeeping /\ PendingIsOnItsWay /\ m \in Kinds
  BY DEF LInv, Kinds
<1>1. /\ \A c \in Cores : c # to => queue'[c] = queue[c]
      /\ \A c \in Cores : c # by => loop'[c] = loop[c]
      /\ \/ queue'[to] = Append(queue[to], m) /\ loop'[by] = label
         \/ queue'[to] = queue[to] /\ loop'[by] = label /\ no_qadd_panic
         \/ queue'[to] = <<>> /\ loop'[by] = "halt"
  BY <1>0, PostFacts
<1>2. AnyHalt => AnyHalt'
  BY <1>1, HaltStays DEF Halted
<1>3. loop'[by] = "halt" => AnyHalt'
  BY DEF AnyHalt, Halted
<1>4. \A c \in Cores, k \in {"HK", "START"} :
        \/ Places(queue'[c], k) = Places(queue[c], k)
        \/ Places(queue'[c], k) = {} /\ AnyHalt'
  <2> SUFFICES ASSUME NEW c \in Cores, NEW k \in {"HK", "START"}
               PROVE \/ Places(queue'[c], k) = Places(queue[c], k)
                     \/ Places(queue'[c], k) = {} /\ AnyHalt'
    OBVIOUS
  <2>1. queue[c] \in Seq(Kinds) /\ k \in Kinds /\ m # k
    BY <1>0 DEF TypeOK, Kinds
  <2>2. Places(Append(queue[c], m), k) = Places(queue[c], k)
    BY <2>1, <1>0, PlacesAppend
  <2>3. Places(<<>>, k) = {}
    BY DEF Places
  <2> QED BY <2>2, <2>3, <1>1, <1>3
<1>5. \A c \in Cores : /\ InQueue(c)' = InQueue(c) \/ (InQueue(c)' = {} /\ AnyHalt')
                       /\ Posting(c)' = Posting(c)
                       /\ InHand(c)' => InHand(c)
                       /\ InHand(c) => InHand(c)' \/ AnyHalt'
  BY <1>1, <1>3, <1>4 DEF InQueue, Posting, InHand
<1>6. OneHousekeeping'
  BY <1>0, <1>5 DEF OneHousekeeping
<1>7. PendingIsOnItsWay'
  BY <1>0, <1>2, <1>5 DEF PendingIsOnItsWay
<1>8. RunonHandshake'
  <2>1. AnyHalt' \/ (loop'[0] = "running" <=> loop[0] = "running")
    BY <1>1, <1>3 DEF Cores
  <2>2. AnyHalt' \/ (loop'[1] = "blocked" <=> loop[1] = "blocked")
    BY <1>1, <1>3 DEF Cores
  <2> QED BY <2>1, <2>2, <1>2, KeepsHandshake
<1>9. StartsOnce'
  <2>1. Places(queue'[0], "START") \subseteq Places(queue[0], "START")
    BY <1>4 DEF Cores
  <2>2. loop'[0] \in {"boot", "start"} => loop[0] = loop'[0]
    BY <1>1 DEF Cores
  <2>3. loop[1] = "off" => loop'[1] = "off"
    BY <1>1 DEF Cores
  <2> QED BY <2>1, <2>2, <2>3, KeepsStarts
<1> QED BY <1>6, <1>7, <1>8, <1>9

-----------------------------------------------------------------------------
(* One lemma per action: the invariant survives it. *)

\* The initial state satisfies the invariant.
LEMMA InitLInv == Init => LInv
<1> SUFFICES ASSUME Init PROVE LInv
  OBVIOUS
<1>1. \A c \in Cores : queue[c] = <<>> /\ fifo[c] = <<>> /\ pending[c] = FALSE
      /\ loop[c] # "clear"
  BY DEF Init
<1>2. \A c \in Cores : \A k : Places(queue[c], k) = {}
  BY <1>1 DEF Places
<1>3. TypeOK
  <2>1. queue \in [Cores -> Seq(Kinds)] /\ fifo \in [Cores -> Seq({"c1msg"})]
    BY DEF Init
  <2>2. \A c \in Cores : Len(queue[c]) <= QueueSize
    BY <1>1, LoopAssumption
  <2>3. housekeep_rt \in 0..HousekeepTicks - 1
    BY LoopAssumption DEF Init
  <2> QED BY <2>1, <2>2, <2>3 DEF Init, TypeOK, Kinds, Cores
<1>4. OneHousekeeping
  BY <1>1, <1>2 DEF Init, OneHousekeeping, InQueue, Posting, InHand
<1>5. PendingIsOnItsWay
  BY <1>1 DEF PendingIsOnItsWay
<1>6. RunonHandshake
  BY <1>1 DEF Init, RunonHandshake, Cores
<1>7. StartsOnce
  BY <1>2 DEF Init, StartsOnce, Cores
<1> QED BY <1>3, <1>4, <1>5, <1>6, <1>7 DEF LInv

\* A tick only counts.
LEMMA TickLInv == ASSUME LInv, Tick PROVE LInv'
<1>1. /\ ipc = "idle" /\ ipc' \in {"idle", "hk0"}
      /\ housekeep_rt' = (housekeep_rt + 1) % HousekeepTicks
      /\ UNCHANGED <<queue, fifo, no_qadd_panic, pending, loop, msg, answered,
                     apps_started>>
  BY DEF Tick
<1>2. housekeep_rt' \in 0..HousekeepTicks - 1
  BY <1>1, LoopAssumption DEF LInv, TypeOK
<1>3. TypeOK'
  BY <1>1, <1>2 DEF LInv, TypeOK
<1>4. \A c \in Cores : /\ InQueue(c)' = InQueue(c) /\ InHand(c)' = InHand(c)
                       /\ ~Posting(c) /\ ~Posting(c)'
  BY <1>1 DEF InQueue, Places, InHand, Posting, Cores
<1>5. OneHousekeeping'
  BY <1>1, <1>4 DEF LInv, OneHousekeeping
<1>6. PendingIsOnItsWay'
  BY <1>1, <1>4 DEF LInv, PendingIsOnItsWay, AnyHalt, Halted
<1>7. RunonHandshake' /\ StartsOnce'
  <2>1. AnyHalt' = AnyHalt BY <1>1 DEF AnyHalt, Halted
  <2>2. RunonHandshake' BY <2>1, <1>1, KeepsHandshake
  <2>3. StartsOnce' BY <1>1, KeepsStarts
  <2> QED BY <2>2, <2>3
<1> QED BY <1>3, <1>5, <1>6, <1>7 DEF LInv

\* The flag is set only when no housekeeping message is on its way.
LEMMA HousekeepTestLInv ==
  ASSUME LInv, NEW c \in Cores, HousekeepTest(c) PROVE LInv'
<1>1. /\ ipc = (IF c = 0 THEN "hk0" ELSE "hk1")
      /\ UNCHANGED <<queue, fifo, no_qadd_panic, housekeep_rt, loop, msg, answered,
                     apps_started>>
  BY DEF HousekeepTest
<1>2. CASE ~pending[c]
  <2>1. /\ pending' = [pending EXCEPT ![c] = TRUE]
        /\ ipc' = IF c = 0 THEN "post0" ELSE "post1"
    BY <1>2 DEF HousekeepTest, HousekeepDue
  <2>2. TypeOK'
    <3>1. pending' \in [Cores -> BOOLEAN] BY <2>1 DEF LInv, TypeOK
    <3>2. ipc' \in {"idle", "hk0", "post0", "hk1", "post1"} BY <2>1
    <3> QED BY <3>1, <3>2, <1>1 DEF LInv, TypeOK
  <2>3. \A d \in Cores : /\ InQueue(d)' = InQueue(d) /\ InHand(d)' = InHand(d)
                         /\ ~Posting(d) /\ (Posting(d)' <=> d = c)
    BY <1>1, <2>1 DEF InQueue, Places, InHand, Posting, Cores
  <2>4. \A d \in Cores : pending'[d] = (IF d = c THEN TRUE ELSE pending[d])
    BY <2>1 DEF LInv, TypeOK
  <2>5. OneHousekeeping'
    BY <1>2, <2>3, <2>4 DEF LInv, OneHousekeeping
  <2>6. PendingIsOnItsWay'
    BY <1>1, <2>3, <2>4 DEF LInv, PendingIsOnItsWay, AnyHalt, Halted
  <2>7. RunonHandshake' /\ StartsOnce'
    BY <1>1 DEF LInv, RunonHandshake, StartsOnce, Places, AnyHalt, Halted
  <2> QED BY <2>2, <2>5, <2>6, <2>7 DEF LInv
<1>3. CASE pending[c]
  <2>1. UNCHANGED pending /\ ipc' = IF c = 0 THEN "hk1" ELSE "idle"
    BY <1>3 DEF HousekeepTest, HousekeepDue, After
  <2>2. TypeOK'
    <3>1. ipc' \in {"idle", "hk0", "post0", "hk1", "post1"} BY <2>1
    <3> QED BY <3>1, <2>1, <1>1 DEF LInv, TypeOK
  <2>3. \A d \in Cores : /\ InQueue(d)' = InQueue(d) /\ InHand(d)' = InHand(d)
                         /\ ~Posting(d) /\ ~Posting(d)'
    BY <1>1, <2>1 DEF InQueue, Places, InHand, Posting, Cores
  <2>4. OneHousekeeping'
    BY <2>1, <2>3 DEF LInv, OneHousekeeping
  <2>5. PendingIsOnItsWay'
    BY <1>1, <2>1, <2>3 DEF LInv, PendingIsOnItsWay, AnyHalt, Halted
  <2>6. RunonHandshake' /\ StartsOnce'
    BY <1>1 DEF LInv, RunonHandshake, StartsOnce, Places, AnyHalt, Halted
  <2> QED BY <2>2, <2>4, <2>5, <2>6 DEF LInv
<1> QED BY <1>2, <1>3

\* The housekeeping message joins a queue that holds none.
LEMMA HousekeepPostLInv ==
  ASSUME LInv, NEW c \in Cores, HousekeepPost(c) PROVE LInv'
<1>0. TypeOK /\ OneHousekeeping /\ PendingIsOnItsWay /\ 0 \in Cores
      /\ "HK" \in Kinds /\ "START" \in Kinds
  BY DEF LInv, Cores, Kinds
<1>1. /\ Posting(c) /\ ~Halted(0)
      /\ PostThen(0, c, "HK", loop[0])
      /\ ipc' = IF c = 0 THEN "hk1" ELSE "idle"
      /\ UNCHANGED <<fifo, no_qadd_panic, pending, housekeep_rt, msg, answered,
                     apps_started>>
  BY DEF HousekeepPost, Posting, After
<1>2. loop[0] \in Labels
  BY <1>0 DEF TypeOK, Labels
<1>3. /\ queue' \in [Cores -> Seq(Kinds)]
      /\ \A d \in Cores : Len(queue'[d]) <= QueueSize
      /\ \A d \in Cores : d # c => queue'[d] = queue[d]
      /\ loop' \in [Cores -> Labels]
      /\ \A d \in Cores : d # 0 => loop'[d] = loop[d]
      /\ \/ queue'[c] = Append(queue[c], "HK") /\ loop'[0] = loop[0]
         \/ queue'[c] = queue[c] /\ loop'[0] = loop[0] /\ no_qadd_panic
         \/ queue'[c] = <<>> /\ loop'[0] = "halt"
  BY <1>0, <1>1, <1>2, PostFacts
<1>4. AnyHalt => AnyHalt'
  BY <1>0, <1>1, <1>3, HaltStays
<1>5. loop'[0] = "halt" => AnyHalt'
  BY <1>0 DEF AnyHalt, Halted
<1>6. loop'[1] = loop[1] /\ (loop'[0] = loop[0] \/ loop'[0] = "halt")
  BY <1>3 DEF Cores
<1>a. TypeOK'
  <2>1. ipc' \in {"idle", "hk0", "post0", "hk1", "post1"}
    BY <1>1
  <2>2. loop'[0] \notin {"off", "blocked", "returned"}
        /\ loop'[1] \notin {"fifo", "running", "tell", "test"}
    BY <1>0, <1>6 DEF TypeOK
  <2> QED BY <2>1, <2>2, <1>0, <1>1, <1>3 DEF TypeOK, Labels
<1>7. \A d \in Cores : /\ ~Posting(d)'
                       /\ Posting(d) => d = c
                       /\ InHand(d)' => InHand(d)
                       /\ InHand(d) => InHand(d)' \/ AnyHalt'
  BY <1>1, <1>5, <1>6 DEF Posting, InHand, Cores
<1>8. \A d \in Cores : d # c => InQueue(d)' = InQueue(d)
  BY <1>3 DEF InQueue
<1>9. InQueue(c) = {} /\ ~InHand(c) /\ pending[c]
  BY <1>0, <1>1 DEF OneHousekeeping
<1>10. /\ \A i, j \in InQueue(c)' : i = j
       /\ InQueue(c)' = {} => no_qadd_panic \/ AnyHalt'
  <2>1. queue[c] \in Seq(Kinds)
    BY <1>0 DEF TypeOK
  <2>2. Places(Append(queue[c], "HK"), "HK") = {Len(queue[c]) + 1}
    BY <2>1, <1>0, <1>9, PlacesAppend DEF InQueue
  <2>3. Places(<<>>, "HK") = {}
    BY DEF Places
  <2>4. Places(queue[c], "HK") = {}
    BY <1>9 DEF InQueue
  <2>5. \/ Places(queue'[c], "HK") = {Len(queue[c]) + 1}
        \/ Places(queue'[c], "HK") = {} /\ (no_qadd_panic \/ AnyHalt')
    BY <2>2, <2>3, <2>4, <1>3, <1>5
  <2>6. /\ \A i, j \in Places(queue'[c], "HK") : i = j
        /\ Places(queue'[c], "HK") = {} => no_qadd_panic \/ AnyHalt'
    <3>1. CASE Places(queue'[c], "HK") = {Len(queue[c]) + 1} BY <3>1
    <3>2. CASE Places(queue'[c], "HK") = {} /\ (no_qadd_panic \/ AnyHalt') BY <3>2
    <3> QED BY <2>5, <3>1, <3>2
  <2> QED BY <2>6 DEF InQueue
<1>b. OneHousekeeping'
  BY <1>0, <1>1, <1>7, <1>8, <1>9, <1>10 DEF OneHousekeeping
<1>c. PendingIsOnItsWay'
  BY <1>0, <1>1, <1>4, <1>7, <1>8, <1>9, <1>10 DEF PendingIsOnItsWay
<1>d. RunonHandshake'
  BY <1>1, <1>4, <1>5, <1>6, KeepsHandshake
<1>e. StartsOnce'
  <2>1. queue[0] \in Seq(Kinds)
    BY <1>0 DEF TypeOK
  <2>2. Places(Append(queue[0], "HK"), "START") = Places(queue[0], "START")
    BY <2>1, <1>0, PlacesAppend
  <2>3. Places(<<>>, "START") = {}
    BY DEF Places
  <2>4. Places(queue'[0], "START") \subseteq Places(queue[0], "START")
    BY <2>2, <2>3, <1>0, <1>3
  <2> QED BY <2>4, <1>6, KeepsStarts
<1> QED BY <1>a, <1>b, <1>c, <1>d, <1>e DEF LInv

\* Interrupts and handlers post; where the core is does not change.
LEMMA OtherPostLInv ==
  ASSUME LInv, NEW by \in Cores, NEW to \in Cores,
         InterruptPost(by, to) \/ HandlerPost(by, to)
  PROVE  LInv'
<1>1. /\ loop[by] \notin {"off", "halt"}
      /\ PostThen(by, to, "WORK", loop[by])
      /\ UNCHANGED <<fifo, no_qadd_panic, pending, housekeep_rt, ipc, msg, answered,
                     apps_started>>
  BY DEF InterruptPost, HandlerPost
<1>2. loop[by] \in Labels /\ TypeOK /\ "WORK" \in Kinds
  BY DEF LInv, TypeOK, Labels, Kinds
<1>3. OneHousekeeping' /\ PendingIsOnItsWay' /\ RunonHandshake' /\ StartsOnce'
  BY <1>1, <1>2, PostKeeps
<1>4. /\ queue' \in [Cores -> Seq(Kinds)]
      /\ \A c \in Cores : Len(queue'[c]) <= QueueSize
      /\ loop' \in [Cores -> Labels]
      /\ \A c \in Cores : c # by => loop'[c] = loop[c]
      /\ loop'[by] \in {loop[by], "halt"}
  BY <1>1, <1>2, PostFacts
<1>5. TypeOK'
  <2>1. loop'[0] \notin {"off", "blocked", "returned"}
        /\ loop'[1] \notin {"fifo", "running", "tell", "test"}
    BY <1>2, <1>4 DEF TypeOK, Cores
  <2> QED BY <2>1, <1>1, <1>2, <1>4 DEF TypeOK, Labels
<1> QED BY <1>3, <1>5 DEF LInv

\* Core 0 tells core 1, and core 1's applications tell core 0.
LEMMA TellLInv == ASSUME LInv, HwrtTell \/ AppsStart PROVE LInv'
<1>1. PICK by \in Cores, to \in Cores, m \in {"WORK", "APPS"}, label \in {"test", "queue"} :
        /\ loop[by] = (IF by = 0 THEN "tell" ELSE "start")
        /\ label = (IF by = 0 THEN "test" ELSE "queue")
        /\ PostThen(by, to, m, label)
        /\ UNCHANGED <<fifo, no_qadd_panic, pending, housekeep_rt, ipc, msg, answered,
                       apps_started>>
  BY DEF HwrtTell, AppsStart, Cores
<1>2. label \in Labels /\ TypeOK /\ m \in Kinds
  BY DEF LInv, Labels, Kinds
<1>3. OneHousekeeping' /\ PendingIsOnItsWay' /\ RunonHandshake' /\ StartsOnce'
  BY <1>1, <1>2, PostKeeps
<1>4. /\ queue' \in [Cores -> Seq(Kinds)]
      /\ \A c \in Cores : Len(queue'[c]) <= QueueSize
      /\ loop' \in [Cores -> Labels]
      /\ \A c \in Cores : c # by => loop'[c] = loop[c]
      /\ loop'[by] \in {label, "halt"}
  BY <1>1, <1>2, PostFacts
<1>5. TypeOK'
  <2>1. loop'[0] \notin {"off", "blocked", "returned"}
        /\ loop'[1] \notin {"fifo", "running", "tell", "test"}
    BY <1>1, <1>2, <1>4 DEF TypeOK, Cores
  <2> QED BY <2>1, <1>1, <1>2, <1>4 DEF TypeOK, Labels
<1> QED BY <1>3, <1>5 DEF LInv

\* A loop is entered once: its start message is the first of its kind.
LEMMA EnterLoopLInv == ASSUME LInv, NEW c \in Cores, EnterLoop(c) PROVE LInv'
<1>0. TypeOK /\ OneHousekeeping /\ PendingIsOnItsWay /\ StartsOnce
      /\ "HK" \in Kinds /\ "START" \in Kinds
  BY DEF LInv, Kinds
<1>1. /\ loop[c] = "boot"
      /\ PostThen(c, c, "START", Top(c))
      /\ UNCHANGED <<fifo, no_qadd_panic, pending, housekeep_rt, ipc, msg, answered,
                     apps_started>>
  BY DEF EnterLoop
<1>2. Top(c) = (IF c = 0 THEN "fifo" ELSE "queue") /\ Top(c) \in Labels
  BY DEF Top, Labels
<1>3. /\ queue' \in [Cores -> Seq(Kinds)]
      /\ \A d \in Cores : Len(queue'[d]) <= QueueSize
      /\ \A d \in Cores : d # c => queue'[d] = queue[d]
      /\ loop' \in [Cores -> Labels]
      /\ \A d \in Cores : d # c => loop'[d] = loop[d]
      /\ \/ queue'[c] = Append(queue[c], "START") /\ loop'[c] = Top(c)
         \/ queue'[c] = queue[c] /\ loop'[c] = Top(c) /\ no_qadd_panic
         \/ queue'[c] = <<>> /\ loop'[c] = "halt"
  BY <1>0, <1>1, <1>2, PostFacts
<1>4. AnyHalt => AnyHalt'
  BY <1>1, <1>3, HaltStays DEF Halted
<1>5. loop'[c] = "halt" => AnyHalt'
  BY DEF AnyHalt, Halted
<1>6. queue[c] \in Seq(Kinds) /\ queue[0] \in Seq(Kinds)
  BY <1>0 DEF TypeOK, Cores
<1>a. TypeOK'
  <2>1. loop'[0] \notin {"off", "blocked", "returned"}
        /\ loop'[1] \notin {"fifo", "running", "tell", "test"}
    BY <1>0, <1>2, <1>3 DEF TypeOK, Cores
  <2> QED BY <2>1, <1>0, <1>1, <1>3 DEF TypeOK, Labels
<1>7. \A d \in Cores : \/ InQueue(d)' = InQueue(d)
                       \/ InQueue(d)' = {} /\ AnyHalt'
  <2>1. Places(Append(queue[c], "START"), "HK") = Places(queue[c], "HK")
    BY <1>0, <1>6, PlacesAppend
  <2>2. Places(<<>>, "HK") = {}
    BY DEF Places
  <2> QED BY <2>1, <2>2, <1>3, <1>5 DEF InQueue
<1>8. \A d \in Cores : /\ Posting(d)' = Posting(d)
                       /\ InHand(d)' <=> InHand(d)
  BY <1>1, <1>2, <1>3 DEF Posting, InHand
<1>b. OneHousekeeping'
  BY <1>0, <1>1, <1>7, <1>8 DEF OneHousekeeping
<1>c. PendingIsOnItsWay'
  BY <1>0, <1>1, <1>4, <1>7, <1>8 DEF PendingIsOnItsWay
<1>d. RunonHandshake'
  <2>1. loop'[0] = "running" <=> loop[0] = "running"
    BY <1>1, <1>2, <1>3 DEF Cores
  <2>2. loop'[1] = "blocked" <=> loop[1] = "blocked"
    BY <1>1, <1>2, <1>3 DEF Cores
  <2> QED BY <2>1, <2>2, <1>1, <1>4, KeepsHandshake
<1>e. StartsOnce'
  <2>1. CASE c = 0
    <3>1. Places(queue[0], "START") = {} /\ loop[1] = "off" /\ loop'[1] = "off"
      BY <2>1, <1>0, <1>1, <1>3 DEF StartsOnce, Cores
    <3>2. Places(Append(queue[0], "START"), "START") = {Len(queue[0]) + 1}
      BY <3>1, <1>0, <1>6, PlacesAppend
    <3>3. Places(<<>>, "START") = {}
      BY DEF Places
    <3>4. \A i, j \in Places(queue'[0], "START") : i = j
      <4>1. \/ Places(queue'[0], "START") = {Len(queue[0]) + 1}
            \/ Places(queue'[0], "START") = {}
        BY <3>1, <3>2, <3>3, <2>1, <1>3
      <4>2. CASE Places(queue'[0], "START") = {Len(queue[0]) + 1} BY <4>2
      <4>3. CASE Places(queue'[0], "START") = {} BY <4>3
      <4> QED BY <4>1, <4>2, <4>3
    <3>5. loop'[0] \notin {"boot", "start"}
      BY <2>1, <1>2, <1>3
    <3> QED BY <3>1, <3>4, <3>5 DEF StartsOnce
  <2>2. CASE c # 0
    <3>1. c = 1 /\ loop[1] = "boot" BY <2>2, <1>1 DEF Cores
    <3>2. queue'[0] = queue[0] /\ loop'[0] = loop[0] BY <2>2, <1>3 DEF Cores
    <3> QED BY <3>1, <3>2, <1>0 DEF StartsOnce
  <2> QED BY <2>1, <2>2
<1> QED BY <1>a, <1>b, <1>c, <1>d, <1>e DEF LInv

\* Core 0 takes the pointer out of the FIFO and runs it, or goes on.
LEMMA PollFifoLInv == ASSUME LInv, PollFifo PROVE LInv'
<1>1. /\ loop[0] = "fifo"
      /\ UNCHANGED <<queue, no_qadd_panic, pending, housekeep_rt, ipc, msg, answered,
                     apps_started>>
      /\ \/ fifo[0] # <<>> /\ fifo' = [fifo EXCEPT ![0] = Tail(@)]
            /\ loop' = [loop EXCEPT ![0] = "running"]
         \/ fifo[0] = <<>> /\ loop' = [loop EXCEPT ![0] = "queue"] /\ UNCHANGED fifo
  BY DEF PollFifo, Goto
<1>2. loop' \in [Cores -> Labels] /\ loop'[0] \in {"running", "queue"} /\ loop'[1] = loop[1]
      /\ 0 \in Cores /\ 1 \in Cores
  BY <1>1 DEF LInv, TypeOK, Labels, Cores
<1>3. AnyHalt' = AnyHalt
  BY <1>1, <1>2 DEF AnyHalt, Halted, Cores
<1>4. fifo \in [Cores -> Seq({"c1msg"})] /\ fifo[0] \in Seq({"c1msg"})
      /\ fifo[1] \in Seq({"c1msg"})
  BY <1>2 DEF LInv, TypeOK
<1>a. TypeOK'
  <2>1. fifo' \in [Cores -> Seq({"c1msg"})]
    <3>1. fifo[0] # <<>> => Tail(fifo[0]) \in Seq({"c1msg"}) BY <1>4
    <3> QED BY <3>1, <1>1, <1>4
  <2> QED BY <2>1, <1>1, <1>2 DEF LInv, TypeOK, Labels
<1>b. OneHousekeeping' /\ PendingIsOnItsWay'
  <2>1. \A c \in Cores : loop'[c] = "clear" <=> loop[c] = "clear"
    BY <1>1, <1>2 DEF Cores
  <2> QED BY <2>1, <1>1, <1>3, KeepsHousekeeping
<1>d. RunonHandshake'
  <2>1. CASE fifo[0] # <<>>
    <3>1. /\ Len(fifo'[0]) = Len(fifo[0]) - 1 /\ fifo'[1] = fifo[1]
          /\ loop'[0] = "running"
      BY <2>1, <1>1, <1>2, <1>4 DEF LInv, TypeOK
    <3>2. Len(fifo[0]) \in Nat /\ Len(fifo[1]) \in Nat BY <1>4
    <3>3. CASE AnyHalt BY <3>3, <1>3 DEF RunonHandshake
    <3>4. CASE ~AnyHalt
      <4> DEFINE b == IF loop[1] = "blocked" THEN 1 ELSE 0
      <4> DEFINE x == Len(fifo[0])
      <4> DEFINE y == Len(fifo[1])
      <4>1. x + y + 0 = b /\ x \in Nat /\ y \in Nat
        BY <3>2, <3>4, <1>1 DEF LInv, RunonHandshake
      <4>2. b' = b
        BY <1>2
      <4> HIDE DEF b, x, y
      <4>3. (x - 1) + y + 1 = b
        BY <4>1
      <4> QED BY <4>2, <4>3, <3>1, <1>2 DEF RunonHandshake, b, x, y
    <3> QED BY <3>3, <3>4
  <2>2. CASE fifo[0] = <<>>
    BY <2>2, <1>1, <1>2, <1>3, KeepsHandshake
  <2> QED BY <2>1, <2>2
<1>e. StartsOnce'
  BY <1>1, <1>2, KeepsStarts
<1> QED BY <1>a, <1>b, <1>d, <1>e DEF LInv

\* The pointer goes back to core 1.
LEMMA RunDoneLInv == ASSUME LInv, RunDone PROVE LInv'
<1>1. /\ loop[0] = "running" /\ loop' = [loop EXCEPT ![0] = "queue"]
      /\ fifo' = [fifo EXCEPT ![1] = Append(fifo[1], "c1msg")]
      /\ answered' = [answered EXCEPT ![0] = TRUE]
      /\ UNCHANGED <<queue, no_qadd_panic, pending, housekeep_rt, ipc, msg,
                     apps_started>>
  BY DEF RunDone, Goto, PointerBack, HandlerArgument
<1>2. loop' \in [Cores -> Labels] /\ loop'[0] = "queue" /\ loop'[1] = loop[1]
      /\ 0 \in Cores /\ 1 \in Cores
  BY <1>1 DEF LInv, TypeOK, Labels, Cores
<1>3. AnyHalt' = AnyHalt
  BY <1>1, <1>2 DEF AnyHalt, Halted, Cores
<1>4. fifo \in [Cores -> Seq({"c1msg"})] /\ fifo[0] \in Seq({"c1msg"})
      /\ fifo[1] \in Seq({"c1msg"})
  BY <1>2 DEF LInv, TypeOK
<1>a. TypeOK'
  <2>1. fifo' \in [Cores -> Seq({"c1msg"})]
    <3>1. Append(fifo[1], "c1msg") \in Seq({"c1msg"}) BY <1>4
    <3> QED BY <3>1, <1>1, <1>4
  <2>2. answered' \in [Cores -> BOOLEAN]
    BY <1>1 DEF LInv, TypeOK
  <2> QED BY <2>1, <2>2, <1>1, <1>2 DEF LInv, TypeOK, Labels
<1>b. OneHousekeeping' /\ PendingIsOnItsWay'
  <2>1. \A c \in Cores : loop'[c] = "clear" <=> loop[c] = "clear"
    BY <1>1, <1>2 DEF Cores
  <2> QED BY <2>1, <1>1, <1>3, KeepsHousekeeping
<1>d. RunonHandshake'
  <2>1. Len(fifo'[1]) = Len(fifo[1]) + 1 /\ fifo'[0] = fifo[0]
    BY <1>1, <1>2, <1>4
  <2>2. Len(fifo[0]) \in Nat /\ Len(fifo[1]) \in Nat BY <1>4
  <2>3. CASE AnyHalt BY <2>3, <1>3 DEF RunonHandshake
  <2>4. CASE ~AnyHalt
    <3> DEFINE b == IF loop[1] = "blocked" THEN 1 ELSE 0
    <3> DEFINE x == Len(fifo[0])
    <3> DEFINE y == Len(fifo[1])
    <3>1. x + y + 1 = b /\ x \in Nat /\ y \in Nat
      BY <2>2, <2>4, <1>1 DEF LInv, RunonHandshake
    <3>2. b' = b
      BY <1>2
    <3> HIDE DEF b, x, y
    <3>3. x + (y + 1) + 0 = b
      BY <3>1
    <3> QED BY <3>2, <3>3, <2>1, <1>2 DEF RunonHandshake, b, x, y
  <2> QED BY <2>3, <2>4
<1>e. StartsOnce'
  BY <1>1, <1>2, KeepsStarts
<1> QED BY <1>a, <1>b, <1>d, <1>e DEF LInv

\* A message leaves the queue for its handler.
LEMMA GetLInv == ASSUME LInv, NEW c \in Cores, Get(c) PROVE LInv'
<1>0. TypeOK /\ OneHousekeeping /\ PendingIsOnItsWay /\ StartsOnce
      /\ "HK" \in Kinds /\ "START" \in Kinds /\ 0 \in Cores /\ 1 \in Cores
  BY DEF LInv, Kinds, Cores
<1>1. /\ loop[c] = "queue"
      /\ UNCHANGED <<fifo, no_qadd_panic, pending, housekeep_rt, ipc, apps_started>>
  BY DEF Get
<1>2. CASE queue[c] # <<>>
  <2> DEFINE m == Head(queue[c])
  <2>1. /\ msg' = [msg EXCEPT ![c] = m]
        /\ queue' = [queue EXCEPT ![c] = Tail(queue[c])]
        /\ answered' = [answered EXCEPT ![c] = FALSE]
        /\ loop' = [loop EXCEPT ![c] = IF m = "HK" THEN "clear"
                                       ELSE IF m = "START" THEN "start" ELSE "body"]
    BY <1>2 DEF Get, Removed, Goto, Dispatched
  <2>2. queue[c] \in Seq(Kinds) /\ queue \in [Cores -> Seq(Kinds)]
    BY <1>0 DEF TypeOK
  <2>3. /\ Tail(queue[c]) \in Seq(Kinds) /\ Len(Tail(queue[c])) = Len(queue[c]) - 1
        /\ m \in Kinds
    BY <2>2, <1>0, <1>2, PlacesTail
  <2>4. /\ \A d \in Cores : queue'[d] = IF d = c THEN Tail(queue[c]) ELSE queue[d]
        /\ queue' \in [Cores -> Seq(Kinds)]
    BY <2>1, <2>2, <2>3
  <2>5. /\ loop' \in [Cores -> Labels]
        /\ \A d \in Cores : d # c => loop'[d] = loop[d]
        /\ loop'[c] = IF m = "HK" THEN "clear" ELSE IF m = "START" THEN "start" ELSE "body"
    BY <2>1, <1>0 DEF TypeOK, Labels
  <2> HIDE DEF m
  <2>6. AnyHalt' = AnyHalt
    BY <2>5, <1>1 DEF AnyHalt, Halted
  <2>a. TypeOK'
    <3>1. \A d \in Cores : Len(queue'[d]) <= QueueSize
      BY <2>2, <2>3, <2>4, <1>0, LoopAssumption DEF TypeOK
    <3>2. loop'[0] \notin {"off", "blocked", "returned"}
          /\ loop'[1] \notin {"fifo", "running", "tell", "test"}
      BY <2>5, <1>0 DEF TypeOK
    <3>3. msg' \in [Cores -> Kinds] /\ answered' \in [Cores -> BOOLEAN]
      BY <2>1, <2>3, <1>0 DEF TypeOK
    <3> QED BY <3>1, <3>2, <3>3, <2>4, <2>5, <1>0, <1>1 DEF TypeOK, Labels
  <2>7. /\ \A i, j \in Places(Tail(queue[c]), "HK") : i = j
        /\ m = "HK" => Places(Tail(queue[c]), "HK") = {}
        /\ Places(queue[c], "HK") = {} => Places(Tail(queue[c]), "HK") = {} /\ m # "HK"
        /\ Places(queue[c], "HK") # {} /\ m # "HK" => Places(Tail(queue[c]), "HK") # {}
    <3>1. \A i, j \in Places(queue[c], "HK") : i = j
      BY <1>0 DEF OneHousekeeping, InQueue
    <3> QED BY <3>1, <2>2, <1>0, <1>2, PlacesTailOnce DEF m
  <2>8. /\ \A d \in Cores : Posting(d)' = Posting(d)
        /\ \A d \in Cores : d # c => /\ InQueue(d)' = InQueue(d)
                                     /\ InHand(d)' = InHand(d)
        /\ InQueue(c)' = Places(Tail(queue[c]), "HK")
        /\ InQueue(c) = Places(queue[c], "HK")
        /\ ~InHand(c) /\ (InHand(c)' <=> m = "HK")
    BY <2>4, <2>5, <1>1 DEF Posting, InQueue, InHand
  <2>b. OneHousekeeping'
    <3> SUFFICES ASSUME NEW d \in Cores
                 PROVE  /\ \A i, j \in InQueue(d)' : i = j
                        /\ InQueue(d)' # {} => pending[d] /\ ~Posting(d)' /\ ~InHand(d)'
                        /\ Posting(d)' \/ InHand(d)' => pending[d]
                        /\ ~(Posting(d)' /\ InHand(d)')
      BY <1>1 DEF OneHousekeeping
    <3>1. CASE d # c BY <3>1, <2>8, <1>0 DEF OneHousekeeping
    <3>2. CASE d = c
      <4>1. /\ InQueue(c) # {} => pending[c] /\ ~Posting(c)
            /\ Posting(c) => pending[c]
        BY <1>0 DEF OneHousekeeping
      <4>2. InQueue(c)' # {} => InQueue(c) # {} /\ m # "HK"
        BY <2>7, <2>8
      <4>3. m = "HK" => InQueue(c) # {}
        BY <2>7, <2>8
      <4>4. \A i, j \in InQueue(c)' : i = j
        BY <2>7, <2>8
      <4> QED BY <4>1, <4>2, <4>3, <4>4, <3>2, <2>8
    <3> QED BY <3>1, <3>2
  <2>c. PendingIsOnItsWay'
    <3>1. \A d \in Cores : InQueue(d) # {} \/ Posting(d) \/ InHand(d)
            => InQueue(d)' # {} \/ Posting(d)' \/ InHand(d)'
      BY <2>7, <2>8
    <3> QED BY <3>1, <2>6, <1>0, <1>1 DEF PendingIsOnItsWay
  <2>d. RunonHandshake'
    BY <2>5, <2>6, <1>0, <1>1, KeepsHandshake
  <2>e. StartsOnce'
    <3>1. CASE c = 0
      <4>1. \A i, j \in Places(queue[0], "START") : i = j
        BY <1>0 DEF StartsOnce
      <4>2. /\ \A i, j \in Places(Tail(queue[0]), "START") : i = j
            /\ m = "START" => Places(Tail(queue[0]), "START") = {}
            /\ Places(queue[0], "START") = {}
                 => Places(Tail(queue[0]), "START") = {} /\ m # "START"
        BY <4>1, <3>1, <2>2, <1>0, <1>2, PlacesTailOnce DEF m
      <4>3. queue'[0] = Tail(queue[0]) /\ loop'[1] = loop[1]
            /\ (loop'[0] \in {"boot", "start"} => m = "START")
        BY <3>1, <2>4, <2>5, <1>0
      <4> QED BY <4>2, <4>3, <1>0 DEF StartsOnce
    <3>2. CASE c = 1
      <4>1. queue'[0] = queue[0] /\ loop'[0] = loop[0] /\ loop[1] = "queue"
        BY <3>2, <2>4, <2>5, <1>0, <1>1
      <4> QED BY <4>1, KeepsStarts
    <3> QED BY <3>1, <3>2 DEF Cores
  <2> QED BY <2>a, <2>b, <2>c, <2>d, <2>e DEF LInv
<1>3. CASE queue[c] = <<>>
  <2>1. loop' = [loop EXCEPT ![c] = Top(c)] /\ UNCHANGED <<msg, queue, answered>>
    BY <1>3 DEF Get, Goto
  <2>2. /\ loop' \in [Cores -> Labels] /\ \A d \in Cores : d # c => loop'[d] = loop[d]
        /\ loop'[c] = IF c = 0 THEN "fifo" ELSE "queue"
    BY <2>1, <1>0 DEF TypeOK, Labels, Top
  <2>3. AnyHalt' = AnyHalt
    BY <2>2, <1>1 DEF AnyHalt, Halted
  <2>a. TypeOK'
    <3>1. loop'[0] \notin {"off", "blocked", "returned"}
          /\ loop'[1] \notin {"fifo", "running", "tell", "test"}
      BY <2>2, <1>0 DEF TypeOK
    <3> QED BY <3>1, <2>1, <2>2, <1>0, <1>1 DEF TypeOK, Labels
  <2>b. OneHousekeeping' /\ PendingIsOnItsWay'
    BY <2>1, <2>2, <2>3, <1>1, KeepsHousekeeping
  <2>d. RunonHandshake'
    BY <2>2, <2>3, <1>0, <1>1, KeepsHandshake
  <2>e. StartsOnce'
    BY <2>1, <2>2, <1>0, <1>1, KeepsStarts
  <2> QED BY <2>a, <2>b, <2>d, <2>e DEF LInv
<1> QED BY <1>2, <1>3

\* The housekeeping handler clears the flag when its message is off the queue.
LEMMA HousekeepClearLInv ==
  ASSUME LInv, NEW c \in Cores, HousekeepClear(c) PROVE LInv'
<1>0. TypeOK /\ OneHousekeeping /\ PendingIsOnItsWay /\ 0 \in Cores /\ 1 \in Cores
  BY DEF LInv, Cores
<1>1. /\ loop[c] = "clear" /\ loop' = [loop EXCEPT ![c] = "body"]
      /\ pending' = [pending EXCEPT ![c] = FALSE]
      /\ UNCHANGED <<queue, fifo, no_qadd_panic, housekeep_rt, ipc, msg, answered,
                     apps_started>>
  BY DEF HousekeepClear, Cleared, Goto
<1>2. /\ loop' \in [Cores -> Labels] /\ \A d \in Cores : d # c => loop'[d] = loop[d]
      /\ loop'[c] = "body"
  BY <1>0, <1>1 DEF TypeOK, Labels
<1>3. AnyHalt' = AnyHalt
  BY <1>1, <1>2 DEF AnyHalt, Halted
<1>4. /\ \A d \in Cores : pending'[d] = (IF d = c THEN FALSE ELSE pending[d])
      /\ pending' \in [Cores -> BOOLEAN]
  BY <1>0, <1>1 DEF TypeOK
<1>a. TypeOK'
  <2>1. loop'[0] \notin {"off", "blocked", "returned"}
        /\ loop'[1] \notin {"fifo", "running", "tell", "test"}
    BY <1>0, <1>2 DEF TypeOK
  <2> QED BY <2>1, <1>0, <1>1, <1>2, <1>4 DEF TypeOK, Labels
<1>5. /\ \A d \in Cores : Posting(d)' = Posting(d) /\ InQueue(d)' = InQueue(d)
      /\ \A d \in Cores : d # c => InHand(d)' = InHand(d)
      /\ InHand(c) /\ ~InHand(c)'
  BY <1>1, <1>2 DEF Posting, InQueue, Places, InHand
<1>b. OneHousekeeping'
  <2> SUFFICES ASSUME NEW d \in Cores
               PROVE  /\ \A i, j \in InQueue(d)' : i = j
                      /\ InQueue(d)' # {} => pending'[d] /\ ~Posting(d)' /\ ~InHand(d)'
                      /\ Posting(d)' \/ InHand(d)' => pending'[d]
                      /\ ~(Posting(d)' /\ InHand(d)')
    BY DEF OneHousekeeping
  <2>1. /\ \A i, j \in InQueue(d) : i = j
        /\ InQueue(d) # {} => pending[d] /\ ~Posting(d) /\ ~InHand(d)
        /\ Posting(d) \/ InHand(d) => pending[d]
        /\ ~(Posting(d) /\ InHand(d))
    BY <1>0 DEF OneHousekeeping
  <2>2. Posting(d)' = Posting(d) /\ InQueue(d)' = InQueue(d)
    BY <1>5
  <2>3. CASE d = c
    <3>1. InQueue(c) = {} /\ ~Posting(c)
      BY <2>1, <2>3, <1>5
    <3> QED BY <3>1, <2>2, <2>3, <1>5
  <2>4. CASE d # c
    BY <2>1, <2>2, <2>4, <1>4, <1>5
  <2> QED BY <2>3, <2>4
<1>c. PendingIsOnItsWay'
  BY <1>0, <1>1, <1>3, <1>4, <1>5 DEF PendingIsOnItsWay
<1>d. RunonHandshake'
  BY <1>0, <1>1, <1>2, <1>3, KeepsHandshake
<1>e. StartsOnce'
  BY <1>0, <1>1, <1>2, KeepsStarts
<1> QED BY <1>a, <1>b, <1>c, <1>d, <1>e DEF LInv

\* Core 0 starts core 1, which was off until now.
LEMMA HwrtStartLInv == ASSUME LInv, HwrtStart PROVE LInv'
<1>0. TypeOK /\ StartsOnce /\ 0 \in Cores /\ 1 \in Cores
  BY DEF LInv, Cores
<1>1. /\ loop[0] = "start" /\ loop' = [loop EXCEPT ![0] = "tell", ![1] = "boot"]
      /\ UNCHANGED <<queue, fifo, no_qadd_panic, pending, housekeep_rt, ipc, msg,
                     answered, apps_started>>
  BY DEF HwrtStart
<1>2. loop[1] = "off" /\ Places(queue[0], "START") = {}
  BY <1>0, <1>1 DEF StartsOnce
<1>3. loop' \in [Cores -> Labels] /\ loop'[0] = "tell" /\ loop'[1] = "boot"
  <2>1. loop \in [Cores -> Labels] BY <1>0 DEF TypeOK, Labels
  <2>2. "tell" \in Labels /\ "boot" \in Labels BY DEF Labels
  <2> QED BY <2>1, <2>2, <1>0, <1>1
<1>4. AnyHalt => AnyHalt'
  BY <1>1, <1>2 DEF AnyHalt, Halted, Cores
<1>a. TypeOK'
  BY <1>0, <1>1, <1>3 DEF TypeOK, Labels
<1>b. OneHousekeeping' /\ PendingIsOnItsWay'
  <2>1. \A c \in Cores : loop'[c] = "clear" <=> loop[c] = "clear"
    BY <1>1, <1>2, <1>3 DEF Cores
  <2> QED BY <2>1, <1>1, <1>4, KeepsHousekeeping
<1>d. RunonHandshake'
  BY <1>1, <1>2, <1>3, <1>4, KeepsHandshake
<1>e. StartsOnce'
  BY <1>1, <1>2, <1>3 DEF StartsOnce
<1> QED BY <1>a, <1>b, <1>d, <1>e DEF LInv

\* Core 0 posts the test message to itself, if there is room.
LEMMA HwrtTestLInv == ASSUME LInv, HwrtTest PROVE LInv'
<1>0. TypeOK /\ OneHousekeeping /\ PendingIsOnItsWay /\ 0 \in Cores /\ 1 \in Cores
      /\ "WORK" \in Kinds /\ "HK" \in Kinds /\ "START" \in Kinds
  BY DEF LInv, Cores, Kinds
<1>1. /\ loop[0] = "test" /\ loop' = [loop EXCEPT ![0] = "fifo"]
      /\ queue' = IF Len(queue[0]) < QueueSize
                    THEN [queue EXCEPT ![0] = Append(@, "WORK")] ELSE queue
      /\ UNCHANGED <<fifo, no_qadd_panic, pending, housekeep_rt, ipc, msg, answered,
                     apps_started>>
  BY DEF HwrtTest, PostNoWait, Goto
<1>2. queue \in [Cores -> Seq(Kinds)] /\ queue[0] \in Seq(Kinds)
  BY <1>0 DEF TypeOK
<1>3. loop' \in [Cores -> Labels] /\ loop'[0] = "fifo" /\ loop'[1] = loop[1]
  BY <1>0, <1>1 DEF TypeOK, Labels
<1>4. AnyHalt' = AnyHalt
  BY <1>1, <1>3 DEF AnyHalt, Halted, Cores
<1>5. Append(queue[0], "WORK") \in Seq(Kinds)
      /\ Len(Append(queue[0], "WORK")) = Len(queue[0]) + 1 /\ Len(queue[0]) \in Nat
  BY <1>0, <1>2
<1>6. /\ queue' \in [Cores -> Seq(Kinds)]
      /\ \A c \in Cores : Len(queue'[c]) <= QueueSize
  <2>1. CASE Len(queue[0]) < QueueSize
    <3>1. queue' = [queue EXCEPT ![0] = Append(queue[0], "WORK")]
      BY <2>1, <1>1
    <3>2. queue' \in [Cores -> Seq(Kinds)]
      BY <3>1, <1>2, <1>5
    <3>3. \A c \in Cores : Len(queue'[c]) <= QueueSize
      BY <3>1, <2>1, <1>0, <1>2, <1>5, LoopAssumption DEF TypeOK
    <3> QED BY <3>2, <3>3
  <2>2. CASE ~(Len(queue[0]) < QueueSize)
    BY <2>2, <1>0, <1>1 DEF TypeOK
  <2> QED BY <2>1, <2>2
<1>7. \A c \in Cores, k \in {"HK", "START"} : Places(queue'[c], k) = Places(queue[c], k)
  <2>1. \A k \in {"HK", "START"} :
          Places(Append(queue[0], "WORK"), k) = Places(queue[0], k)
    BY <1>0, <1>2, PlacesAppend
  <2>2. queue'[0] = queue[0] \/ queue'[0] = Append(queue[0], "WORK")
    BY <1>0, <1>1, <1>2
  <2>3. queue'[1] = queue[1]
    BY <1>0, <1>1, <1>2
  <2> QED BY <2>1, <2>2, <2>3 DEF Cores
<1>8. \A c \in Cores : /\ InQueue(c)' = InQueue(c)
                       /\ Posting(c)' = Posting(c)
                       /\ InHand(c)' = InHand(c)
  BY <1>1, <1>3, <1>7 DEF InQueue, Posting, InHand, Cores
<1>a. TypeOK'
  BY <1>0, <1>1, <1>3, <1>6 DEF TypeOK, Labels
<1>b. OneHousekeeping'
  BY <1>0, <1>1, <1>8 DEF OneHousekeeping
<1>c. PendingIsOnItsWay'
  BY <1>0, <1>1, <1>4, <1>8 DEF PendingIsOnItsWay
<1>d. RunonHandshake'
  BY <1>1, <1>3, <1>4, KeepsHandshake
<1>e. StartsOnce'
  BY <1>0, <1>1, <1>3, <1>7, KeepsStarts
<1> QED BY <1>a, <1>b, <1>c, <1>d, <1>e DEF LInv

\* A message is done with: back to the top of the loop.
LEMMA HandlerEndLInv == ASSUME LInv, NEW c \in Cores, HandlerEnd(c) PROVE LInv'
<1>0. TypeOK /\ 0 \in Cores /\ 1 \in Cores
  BY DEF LInv, Cores
<1>1. /\ loop[c] \in {"body", "returned"} /\ loop' = [loop EXCEPT ![c] = Top(c)]
      /\ apps_started' = (apps_started \/ (c = 0 /\ msg[c] = "APPS"))
      /\ UNCHANGED <<queue, fifo, no_qadd_panic, pending, housekeep_rt, ipc, msg,
                     answered>>
  BY DEF HandlerEnd, Goto
<1>2. /\ loop' \in [Cores -> Labels] /\ \A d \in Cores : d # c => loop'[d] = loop[d]
      /\ loop'[c] = IF c = 0 THEN "fifo" ELSE "queue"
  BY <1>0, <1>1 DEF TypeOK, Labels, Top
<1>3. AnyHalt' = AnyHalt
  BY <1>1, <1>2 DEF AnyHalt, Halted
<1>4. apps_started' \in BOOLEAN
  BY <1>1
<1>a. TypeOK'
  <2>1. loop'[0] \notin {"off", "blocked", "returned"}
        /\ loop'[1] \notin {"fifo", "running", "tell", "test"}
    BY <1>0, <1>2 DEF TypeOK
  <2> QED BY <2>1, <1>0, <1>1, <1>2, <1>4 DEF TypeOK, Labels
<1>b. OneHousekeeping' /\ PendingIsOnItsWay'
  <2>1. \A d \in Cores : loop'[d] = "clear" <=> loop[d] = "clear"
    BY <1>1, <1>2
  <2> QED BY <2>1, <1>1, <1>3, KeepsHousekeeping
<1>d. RunonHandshake'
  BY <1>0, <1>1, <1>2, <1>3, KeepsHandshake
<1>e. StartsOnce'
  BY <1>0, <1>1, <1>2, KeepsStarts
<1> QED BY <1>a, <1>b, <1>d, <1>e DEF LInv

\* Core 1 hands its pointer over, or halts.
LEMMA RunonLInv == ASSUME LInv, Runon PROVE LInv'
<1>0. TypeOK /\ RunonHandshake /\ 0 \in Cores /\ 1 \in Cores
  BY DEF LInv, Cores
<1>1. /\ loop[1] = "body"
      /\ UNCHANGED <<queue, no_qadd_panic, pending, housekeep_rt, ipc, msg,
                     apps_started>>
      /\ \/ /\ fifo' = [fifo EXCEPT ![0] = Append(@, "c1msg")]
            /\ answered' = [answered EXCEPT ![1] = FALSE]
            /\ loop' = [loop EXCEPT ![1] = "blocked"]
         \/ loop' = [loop EXCEPT ![1] = "halt"] /\ UNCHANGED <<fifo, answered>>
  BY DEF Runon, MayRunon, Goto
<1>2. loop' \in [Cores -> Labels] /\ loop'[1] \in {"blocked", "halt"} /\ loop'[0] = loop[0]
  <2>1. loop \in [Cores -> Labels] BY <1>0 DEF TypeOK, Labels
  <2>2. PICK l \in {"blocked", "halt"} : loop' = [loop EXCEPT ![1] = l] BY <1>1
  <2>3. l \in Labels BY DEF Labels
  <2> QED BY <2>1, <2>2, <2>3, <1>0
<1>3. AnyHalt => AnyHalt'
  BY <1>1, <1>2 DEF AnyHalt, Halted, Cores
<1>4. fifo \in [Cores -> Seq({"c1msg"})] /\ fifo[0] \in Seq({"c1msg"})
      /\ fifo[1] \in Seq({"c1msg"})
  BY <1>0 DEF TypeOK
<1>a. TypeOK'
  <2>1. fifo' \in [Cores -> Seq({"c1msg"})]
    <3>1. Append(fifo[0], "c1msg") \in Seq({"c1msg"}) BY <1>4
    <3> QED BY <3>1, <1>1, <1>4
  <2>2. answered' \in [Cores -> BOOLEAN]
    BY <1>0, <1>1 DEF TypeOK
  <2> QED BY <2>1, <2>2, <1>0, <1>1, <1>2 DEF TypeOK, Labels
<1>b. OneHousekeeping' /\ PendingIsOnItsWay'
  <2>1. \A d \in Cores : loop'[d] = "clear" <=> loop[d] = "clear"
    BY <1>1, <1>2 DEF Cores
  <2> QED BY <2>1, <1>1, <1>3, KeepsHousekeeping
<1>d. RunonHandshake'
  <2>1. CASE AnyHalt' BY <2>1 DEF RunonHandshake
  <2>2. CASE ~AnyHalt'
    <3>1. loop'[1] = "blocked" /\ ~AnyHalt
      BY <2>2, <1>2, <1>3 DEF AnyHalt, Halted, Cores
    <3>2. fifo' = [fifo EXCEPT ![0] = Append(fifo[0], "c1msg")]
      BY <3>1, <1>0, <1>1 DEF TypeOK
    <3>3. fifo'[0] = Append(fifo[0], "c1msg") /\ fifo'[1] = fifo[1]
      BY <3>2, <1>0, <1>4
    <3>5. Len(fifo[0]) = 0 /\ Len(fifo[1]) = 0 /\ loop[0] # "running"
      <4>1. Len(fifo[0]) + Len(fifo[1]) + (IF loop[0] = "running" THEN 1 ELSE 0) = 0
        BY <3>1, <1>0, <1>1 DEF RunonHandshake
      <4>2. Len(fifo[0]) \in Nat /\ Len(fifo[1]) \in Nat BY <1>4
      <4>3. ASSUME NEW a \in Nat, NEW b \in Nat, NEW p,
                   a + b + (IF p THEN 1 ELSE 0) = 0
            PROVE  a = 0 /\ b = 0 /\ ~p
        BY <4>3
      <4> QED BY <4>1, <4>2, <4>3
    <3>4. Len(fifo'[0]) = 1 /\ Len(fifo'[1]) = 0
      BY <3>3, <3>5, <1>4
    <3> QED BY <3>1, <3>4, <3>5, <1>2 DEF RunonHandshake
  <2> QED BY <2>1, <2>2
<1>e. StartsOnce'
  BY <1>1, <1>2, KeepsStarts
<1> QED BY <1>a, <1>b, <1>d, <1>e DEF LInv

\* Core 1 has its pointer back.
LEMMA RunonReturnLInv == ASSUME LInv, RunonReturn PROVE LInv'
<1>0. TypeOK /\ RunonHandshake /\ 0 \in Cores /\ 1 \in Cores
  BY DEF LInv, Cores
<1>1. /\ loop[1] = "blocked" /\ fifo[1] # <<>>
      /\ fifo' = [fifo EXCEPT ![1] = Tail(@)]
      /\ loop' = [loop EXCEPT ![1] = "returned"]
      /\ UNCHANGED <<queue, no_qadd_panic, pending, housekeep_rt, ipc, msg, answered,
                     apps_started>>
  BY DEF RunonReturn, Goto
<1>2. loop' \in [Cores -> Labels] /\ loop'[1] = "returned" /\ loop'[0] = loop[0]
  BY <1>0, <1>1 DEF TypeOK, Labels
<1>3. AnyHalt' = AnyHalt
  BY <1>1, <1>2 DEF AnyHalt, Halted, Cores
<1>4. fifo \in [Cores -> Seq({"c1msg"})] /\ fifo[0] \in Seq({"c1msg"})
      /\ fifo[1] \in Seq({"c1msg"})
  BY <1>0 DEF TypeOK
<1>5. Tail(fifo[1]) \in Seq({"c1msg"}) /\ Len(Tail(fifo[1])) = Len(fifo[1]) - 1
      /\ Len(fifo[1]) \in Nat /\ Len(fifo[0]) \in Nat
  BY <1>1, <1>4
<1>a. TypeOK'
  <2>1. fifo' \in [Cores -> Seq({"c1msg"})]
    BY <1>1, <1>4, <1>5
  <2> QED BY <2>1, <1>0, <1>1, <1>2 DEF TypeOK, Labels
<1>b. OneHousekeeping' /\ PendingIsOnItsWay'
  <2>1. \A d \in Cores : loop'[d] = "clear" <=> loop[d] = "clear"
    BY <1>1, <1>2 DEF Cores
  <2> QED BY <2>1, <1>1, <1>3, KeepsHousekeeping
<1>d. RunonHandshake'
  <2>1. CASE AnyHalt BY <2>1, <1>3 DEF RunonHandshake
  <2>2. CASE ~AnyHalt
    <3> DEFINE r == IF loop[0] = "running" THEN 1 ELSE 0
    <3> DEFINE x == Len(fifo[0])
    <3> DEFINE y == Len(fifo[1])
    <3>1. x + y + r = 1 /\ r \in Nat /\ x \in Nat /\ y \in Nat
      BY <2>2, <1>0, <1>1, <1>5 DEF RunonHandshake
    <3>2. Len(fifo'[1]) = Len(fifo[1]) - 1 /\ fifo'[0] = fifo[0]
      BY <1>0, <1>1, <1>4, <1>5
    <3>3. r' = r
      BY <1>2
    <3> HIDE DEF r, x, y
    <3>4. x + (y - 1) + r = 0
      BY <3>1
    <3> QED BY <3>2, <3>3, <3>4, <1>2 DEF RunonHandshake, r, x, y
  <2> QED BY <2>1, <2>2
<1>e. StartsOnce'
  BY <1>1, <1>2, KeepsStarts
<1> QED BY <1>a, <1>b, <1>d, <1>e DEF LInv

\* A step that changes nothing.
LEMMA StutterLInv == ASSUME LInv, UNCHANGED vars PROVE LInv'
<1>1. UNCHANGED <<queue, fifo, no_qadd_panic, pending, housekeep_rt, ipc, loop, msg,
                  answered, apps_started>>
  BY DEF vars
<1>2. AnyHalt' = AnyHalt
  BY <1>1 DEF AnyHalt, Halted
<1>3. OneHousekeeping' /\ PendingIsOnItsWay'
  BY <1>1, <1>2, KeepsHousekeeping
<1>4. RunonHandshake'
  BY <1>1, <1>2, KeepsHandshake
<1>5. StartsOnce'
  BY <1>1, KeepsStarts
<1>6. TypeOK'
  BY <1>1 DEF LInv, TypeOK
<1> QED BY <1>3, <1>4, <1>5, <1>6 DEF LInv

-----------------------------------------------------------------------------
(* The theorems. *)

\* The invariant holds in every reachable state.
THEOREM LoopInvariant == Spec => []LInv
<1>1. Init => LInv
  BY InitLInv
<1>2. LInv /\ [Next]_vars => LInv'
  <2> SUFFICES ASSUME LInv, [Next]_vars PROVE LInv'
    OBVIOUS
  <2>0. 0 \in Cores /\ 1 \in Cores
    BY DEF Cores
  <2>1. CASE Interrupt
    BY <2>1, TickLInv, HousekeepTestLInv, HousekeepPostLInv DEF Interrupt
  <2>2. ASSUME NEW c \in Cores, Loop(c) PROVE LInv'
    BY <2>2, EnterLoopLInv, GetLInv, HousekeepClearLInv, HandlerEndLInv DEF Loop
  <2>3. CASE Program0
    BY <2>0, <2>2, <2>3, PollFifoLInv, RunDoneLInv, HwrtStartLInv, TellLInv,
       HwrtTestLInv DEF Program0
  <2>4. CASE Program1
    BY <2>0, <2>2, <2>4, TellLInv, RunonReturnLInv DEF Program1
  <2>5. CASE \E by, to \in Cores : InterruptPost(by, to) \/ HandlerPost(by, to)
    BY <2>5, OtherPostLInv
  <2>6. CASE Runon
    BY <2>6, RunonLInv
  <2>7. CASE UNCHANGED vars
    BY <2>7, StutterLInv
  <2> QED BY <2>1, <2>3, <2>4, <2>5, <2>6, <2>7 DEF Next
<1> QED BY <1>1, <1>2, PTL DEF Spec

\* Queues stay within their size and hold messages; the cores stay in their own
\* parts of the program.
THEOREM LoopTypeOK == Spec => []TypeOK
<1>1. LInv => TypeOK
  BY DEF LInv
<1> QED BY <1>1, LoopInvariant, PTL

\* A queue holds one housekeeping message at most, however slow its core.
THEOREM LoopOneHousekeeping == Spec => []OneHousekeeping
<1>1. LInv => OneHousekeeping
  BY DEF LInv
<1> QED BY <1>1, LoopInvariant, PTL

\* While the flag is set a message that clears it is on its way.
THEOREM LoopPendingIsOnItsWay == Spec => []PendingIsOnItsWay
<1>1. LInv => PendingIsOnItsWay
  BY DEF LInv
<1> QED BY <1>1, LoopInvariant, PTL

\* The pointer of a runon is in one place while core 1 waits and nowhere else.
THEOREM LoopRunonHandshake == Spec => []RunonHandshake
<1>1. LInv => RunonHandshake
  BY DEF LInv
<1> QED BY <1>1, LoopInvariant, PTL

\* Core 1 is started once.
THEOREM LoopCoreOneStartsOnce == Spec => []CoreOneStartsOnce
<1>1. LInv => CoreOneStartsOnce
  BY DEF LInv, StartsOnce, CoreOneStartsOnce
<1> QED BY <1>1, LoopInvariant, PTL

-----------------------------------------------------------------------------
(* The pool is finite, and the constants the type invariant starts from. *)

LEMMA PoolFinite == IsFiniteSet(Entries) /\ Cardinality(Entries) \in Nat
<1>1. IsFiniteSet(Entries)
  BY HandlersAssumption, SeqOnce
<1> QED BY <1>1, FS_CardinalityType

LEMMA SomeId == (CHOOSE i \in Ids : TRUE) \in Ids
BY HandlersAssumption

\* A search finds an entry or nothing, whatever the links are.
LEMMA FirstMatchType ==
  ASSUME next \in [Entries -> Pointers], hdlrs \in [Ids -> Pointers], NEW i \in Ids,
         NEW h, NEW k
  PROVE  FirstMatch(i, h, k) \in Pointers
<1> DEFINE n == Cardinality(Entries)
           step == Steps(hdlrs[i])
           matching == {m \in 0..n : step[m] # Null /\ Matches(step[m], h, k)}
           least == CHOOSE m \in matching : \A o \in matching : m <= o
<1>1. n \in Nat BY PoolFinite
<1>2. \A m \in 0..n : step[m] \in Pointers
  <2>1. hdlrs[i] \in Entries \cup {Null} /\ next \in [Entries -> Entries \cup {Null}]
    BY DEF Pointers
  <2> QED BY <1>1, <2>1, StepsType DEF Steps, Pointers
<1>3. DOMAIN step = 0..n
  <2>1. Way(next, Null, hdlrs[i], n, step) BY <1>1, StepsWay DEF Steps
  <2> HIDE DEF step
  <2> QED BY <2>1 DEF Way
<1>4. matching # {} => least \in 0..n
  <2> SUFFICES ASSUME matching # {} PROVE least \in 0..n
    OBVIOUS
  <2>1. matching \in SUBSET Nat BY <1>1
  <2>2. \E m \in matching : \A o \in matching : m <= o
    <3> HIDE DEF matching
    <3> QED BY <2>1, LeastNat
  <2>3. least \in matching
    <3> HIDE DEF matching
    <3> QED BY <2>2
  <2> QED BY <2>3
<1>5. FirstMatch(i, h, k) = IF matching = {} THEN Null ELSE step[least]
  <2> DEFINE M == {m \in DOMAIN step : step[m] # Null /\ Matches(step[m], h, k)}
  <2>1. FirstMatch(i, h, k) = IF M = {} THEN Null
                              ELSE step[CHOOSE m \in M : \A o \in M : m <= o]
    BY DEF FirstMatch
  <2>2. M = matching
    BY <1>3
  <2> HIDE DEF M, matching, step
  <2> QED BY <2>1, <2>2
<1> HIDE DEF matching, step, least, n
<1> QED BY <1>2, <1>4, <1>5 DEF Pointers

-----------------------------------------------------------------------------
(* Types *)

LEMMA RegistryTypeInit == RegistryInit => RegistryTypeOK
<1> SUFFICES ASSUME RegistryInit PROVE RegistryTypeOK
  OBVIOUS
<1>1. /\ FirstFree \in Seq(Entries) /\ Len(FirstFree) \in Nat
      /\ DOMAIN FirstFree = 1..Len(FirstFree)
      /\ {FirstFree[i] : i \in DOMAIN FirstFree} = Entries
      /\ Entries # {} /\ Handlers # {} /\ Ids # {}
  BY HandlersAssumption
<1>2. \A i \in 1..Len(FirstFree) : FirstFree[i] \in Entries
  BY <1>1
<1>3. 1 \in 1..Len(FirstFree)
  BY <1>1
<1>4. free \in Pointers
  BY <1>2, <1>3 DEF RegistryInit, Pointers
<1>5. next \in [Entries -> Pointers]
  <2> DEFINE at(e) == CHOOSE j \in DOMAIN FirstFree : FirstFree[j] = e
             link(e) == IF at(e) < Len(FirstFree) THEN FirstFree[at(e) + 1] ELSE Null
  <2>1. \A e \in Entries : at(e) \in 1..Len(FirstFree)
    <3> TAKE e \in Entries
    <3>1. \E j \in DOMAIN FirstFree : FirstFree[j] = e BY <1>1
    <3> QED BY <1>1, <3>1
  <2>2. next = [e \in Entries |-> link(e)]
    BY DEF RegistryInit
  <2> HIDE DEF at
  <2>3. \A e \in Entries : at(e) < Len(FirstFree) => at(e) + 1 \in 1..Len(FirstFree)
    <3> SUFFICES ASSUME NEW m \in 1..Len(FirstFree), m < Len(FirstFree)
                 PROVE  m + 1 \in 1..Len(FirstFree)
      BY <2>1
    <3>1. Len(FirstFree) \in Nat BY <1>1
    <3> QED BY <3>1
  <2>4. \A e \in Entries : link(e) \in Pointers
    BY <1>2, <2>3 DEF Pointers
  <2> HIDE DEF link
  <2> QED BY <2>2, <2>4
<1>6. /\ hdlrs \in [Ids -> Pointers]
      /\ handler \in [Entries -> Handlers]
      /\ corenum \in [Entries -> Corenums]
      /\ mode \in [Corenums -> {"off", "start", "loop"}]
      /\ asked \in [Entries -> Corenums \cup {Both}]
      /\ due \in [Corenums -> SUBSET Entries]
  BY <1>1 DEF RegistryInit, Pointers, Corenums
<1>7. /\ adding \in [Corenums -> [pc : {"none", "link", "publish", "panic"}, id : Ids,
                               ent : Pointers]]
      /\ \A c \in Corenums : adding[c].pc \notin Unused => adding[c].ent \in Entries
  BY SomeId DEF RegistryInit, NotAdding, Unused, Pointers
<1>8. /\ walk \in [Corenums -> [pc : {"none", "visit", "called", "advance"}, id : Ids,
                             ent : Pointers]]
      /\ \A c \in Corenums : walk[c].pc \in {"called", "advance"} => walk[c].ent \in Entries
  BY SomeId DEF RegistryInit, NotWalking, Pointers
<1> QED BY <1>4, <1>5, <1>6, <1>7, <1>8 DEF RegistryTypeOK

LEMMA RegistryTypeStep == RegistryTypeOK /\ [RegistryNext]_registryVars => RegistryTypeOK'
<1> SUFFICES ASSUME RegistryTypeOK, [RegistryNext]_registryVars PROVE RegistryTypeOK'
  OBVIOUS
<1> USE DEF RegistryTypeOK
<1>1. ASSUME NEW c \in Corenums, NEW i \in Ids, NEW h \in Handlers, NEW k \in Askable,
             Alloc(c, i, h, k)
      PROVE  RegistryTypeOK'
  <2>1. k \in Corenums \cup {Both} /\ StoredCore(k) \in Corenums
    BY HandlersAssumption DEF Corenums, Both, StoredCore
  <2>4. UNCHANGED <<hdlrs, mode, walk, due>>
    BY <1>1 DEF Alloc
  <2>2. CASE free = Null
    <3>1. /\ adding' = [adding EXCEPT ![c].pc = "panic"]
          /\ UNCHANGED <<free, next, handler, corenum, asked>>
      BY <1>1, <2>2 DEF Alloc, AfterEmpty
    <3> QED BY <2>4, <3>1 DEF Unused
  <2>3. CASE free # Null
    <3>1. free \in Entries BY <2>3 DEF Pointers
    <3>2. /\ adding' = [adding EXCEPT ![c] = [pc |-> "link", id |-> i, ent |-> free]]
          /\ free' = next[free]
          /\ next' = [next EXCEPT ![free] = Null]
          /\ handler' = [handler EXCEPT ![free] = h]
          /\ corenum' = [corenum EXCEPT ![free] = StoredCore(k)]
          /\ asked' = [asked EXCEPT ![free] = k]
      BY <1>1, <2>3 DEF Alloc
    <3>3. /\ adding' \in [Corenums -> [pc : {"none", "link", "publish", "panic"}, id : Ids,
                                   ent : Pointers]]
          /\ \A d \in Corenums : adding'[d].pc \notin Unused => adding'[d].ent \in Entries
      BY <3>1, <3>2 DEF Unused, Pointers
    <3>4. /\ free' \in Pointers /\ next' \in [Entries -> Pointers]
          /\ handler' \in [Entries -> Handlers] /\ corenum' \in [Entries -> Corenums]
          /\ asked' \in [Entries -> Corenums \cup {Both}]
      BY <2>1, <3>1, <3>2 DEF Pointers
    <3> QED BY <2>4, <3>3, <3>4
  <2> QED BY <2>2, <2>3
<1>2. ASSUME NEW c \in Corenums, NEW i \in Ids, NEW h \in Handlers, NEW k \in Corenums,
             Remove(c, i, h, k)
      PROVE  RegistryTypeOK'
  <2> DEFINE e == FirstMatch(i, h, k)
  <2>1. e \in Pointers BY FirstMatchType
  <2> HIDE DEF e
  <2>2. e \in Entries BY <1>2, <2>1 DEF Remove, Pointers, e
  <2> QED BY <1>2, <2>2 DEF Remove, HeadWithout, Freed, Pointers, e
<1>3. ASSUME NEW c \in Corenums, Link(c)
      PROVE  RegistryTypeOK'
  <2>1. adding[c].ent \in Entries /\ adding[c].id \in Ids BY <1>3 DEF Link, Unused
  <2> QED BY <1>3, <2>1 DEF Link, Unused
<1>4. ASSUME NEW c \in Corenums, Publish(c)
      PROVE  RegistryTypeOK'
  <2>1. adding[c].ent \in Entries /\ adding[c].id \in Ids BY <1>4 DEF Publish, Unused
  <2>2. NotAdding \in [pc : {"none", "link", "publish", "panic"}, id : Ids, ent : Pointers]
        /\ NotAdding.pc = "none"
    BY SomeId DEF NotAdding, Pointers
  <2> HIDE DEF NotAdding
  <2> QED BY <1>4, <2>1, <2>2 DEF Publish, Unused, Pointers
<1>5. ASSUME NEW c \in Corenums, EndStart(c)
      PROVE  RegistryTypeOK'
  BY <1>5 DEF EndStart, Unused
<1>6. ASSUME NEW c \in Corenums, NEW i \in Ids, Dispatch(c, i)
      PROVE  RegistryTypeOK'
  <2>1. MeantFor(c, i) \subseteq Entries
    <3>1. Registered(i) \subseteq Entries
      <4>1. \A m \in 0..Cardinality(Entries) : Steps(hdlrs[i])[m] \in Entries \cup {Null}
        BY PoolFinite, StepsType DEF Steps, Pointers
      <4> QED BY <4>1 DEF Registered, Chain, ChainFrom, Steps
    <3> QED BY <3>1 DEF MeantFor
  <2> QED BY <1>6, <2>1 DEF Dispatch, Unused
<1>7. ASSUME NEW c \in Corenums, Visit(c)
      PROVE  RegistryTypeOK'
  <2>1. walk[c].ent \in Entries BY <1>7 DEF Visit, Pointers
  <2> QED BY <1>7, <2>1 DEF Visit, Unused
<1>8. ASSUME NEW c \in Corenums, Return(c)
      PROVE  RegistryTypeOK'
  <2>1. NotWalking \in [pc : {"none", "visit", "called", "advance"}, id : Ids, ent : Pointers]
        /\ NotWalking.pc = "none"
    BY SomeId DEF NotWalking, Pointers
  <2> HIDE DEF NotWalking
  <2>2. walk[c].ent \in Entries BY <1>8 DEF Return
  <2>3. CASE walk' = [walk EXCEPT ![c].pc = "advance"] /\ UNCHANGED due
    BY <1>8, <2>2, <2>3 DEF Return, Unused
  <2>4. CASE walk' = [walk EXCEPT ![c] = NotWalking] /\ due' = [due EXCEPT ![c] = {}]
    BY <1>8, <2>1, <2>4 DEF Return, Unused
  <2> QED BY <1>8, <2>3, <2>4 DEF Return
<1>9. ASSUME NEW c \in Corenums, Advance(c)
      PROVE  RegistryTypeOK'
  <2>1. next[walk[c].ent] \in Pointers BY <1>9 DEF Advance
  <2> QED BY <1>9, <2>1 DEF Advance, Advanced, Unused
<1>10. ASSUME NEW c \in Corenums, EndWalk(c)
       PROVE  RegistryTypeOK'
  <2>1. NotWalking \in [pc : {"none", "visit", "called", "advance"}, id : Ids, ent : Pointers]
        /\ NotWalking.pc = "none"
    BY SomeId DEF NotWalking, Pointers
  <2> HIDE DEF NotWalking
  <2> QED BY <1>10, <2>1 DEF EndWalk, Unused
<1>11. CASE UNCHANGED registryVars
  BY <1>11 DEF registryVars, Unused
<1> HIDE DEF RegistryTypeOK
<1> QED BY <1>1, <1>2, <1>3, <1>4, <1>5, <1>6, <1>7, <1>8, <1>9, <1>10, <1>11
        DEF RegistryNext, Add, Walk

\* Every pointer the lists, the registrations and the walks hold is an entry of
\* the pool or NULL, and what is about to be linked, called or advanced from is
\* an entry (cmt_check_mhllent in cmt.c finds nothing wrong).
THEOREM RegistryTyped == RegistrySpec => []RegistryTypeOK
<1>1. RegistryInit => RegistryTypeOK BY RegistryTypeInit
<1>2. RegistryTypeOK /\ [RegistryNext]_registryVars => RegistryTypeOK' BY RegistryTypeStep
<1> QED BY <1>1, <1>2, PTL DEF RegistrySpec

-----------------------------------------------------------------------------
(* The invariant *)

Owner(i) == <<"id", i>>
Hand(c) == <<"core", c>>
Pool == <<"free", 0>>
Holders == {Owner(i) : i \in Ids} \cup {Hand(c) : c \in Corenums} \cup {Pool}

\* The entries x holds, when holder says who holds each.
Holding(holder, x) == {e \in Entries : holder[e] = x}

\* What each holds is the list that hangs from its pointer, in the order of rank.
Lists(holder, rank) ==
  /\ \A i \in Ids : Ranked(next, Null, hdlrs[i], Holding(holder, Owner(i)), rank)
  /\ Ranked(next, Null, free, Holding(holder, Pool), rank)
  /\ \A c \in Corenums : Holding(holder, Hand(c)) = BeingAdded(c)

\* The walk of core c has yet to visit an entry of this rank.
Ahead(c, n, rank) ==
  /\ walk[c].ent # Null
  /\ IF walk[c].pc = "visit" THEN n <= rank[walk[c].ent] ELSE n < rank[walk[c].ent]

\* A walk is in the list of its message, and owes a call to the handlers for its
\* core it has yet to visit.
Walks(holder, rank) ==
  \A c \in Corenums : walk[c].pc # "none" =>
    /\ walk[c].ent \in Holding(holder, Owner(walk[c].id)) \cup {Null}
    /\ Askable \subseteq Corenums =>
         due[c] = {e \in Holding(holder, Owner(walk[c].id)) :
                     asked[e] = c /\ Ahead(c, rank[e], rank)}

\* Who may be doing what: the cores start one after the other, and dispatch only
\* when they have started.
Control ==
  /\ mode[0] \in {"start", "loop"}
  /\ mode[0] = "start" <=> mode[1] = "off"
  /\ \A c \in Corenums : adding[c].pc # "none" => mode[c] = "start"
  /\ \A c \in Corenums : walk[c].pc # "none" => mode[c] = "loop"
  /\ \A c \in Corenums : adding[c].pc = "publish" =>
                         next[adding[c].ent] = hdlrs[adding[c].id]
  /\ \A e \in Entries : corenum[e] = StoredCore(asked[e])
  /\ Askable \subseteq Corenums => \A e \in Entries : asked[e] \in Corenums

Shape == \E holder \in [Entries -> Holders], rank \in [Entries -> Nat] :
           Lists(holder, rank) /\ Walks(holder, rank)

RegistryInv == RegistryTypeOK /\ Control /\ Shape

LEMMA HoldersDiffer ==
  /\ \A i \in Ids : Owner(i) # Pool /\ Owner(i) \in Holders
  /\ \A c \in Corenums : Hand(c) # Pool /\ Hand(c) \in Holders
  /\ Pool \in Holders
  /\ \A i \in Ids, c \in Corenums : Owner(i) # Hand(c)
  /\ \A i, j \in Ids : Owner(i) = Owner(j) => i = j
  /\ \A c, d \in Corenums : Hand(c) = Hand(d) => c = d
BY DEF Owner, Hand, Pool, Holders

-----------------------------------------------------------------------------
(* The first state *)

LEMMA ShapeInit == RegistryInit => Control /\ Shape
<1> SUFFICES ASSUME RegistryInit PROVE Control /\ Shape
  OBVIOUS
<1>1. Control
  BY DEF RegistryInit, Control, NotAdding, NotWalking, Corenums, StoredCore
<1>2. PICK rank \in [Entries -> Nat] : Ranked(next, Null, FirstFree[1], Entries, rank)
  <2>1. \A e \in Entries : next[e] = LET i == CHOOSE j \in DOMAIN FirstFree : FirstFree[j] = e
                                      IN  IF i < Len(FirstFree) THEN FirstFree[i + 1] ELSE Null
    BY DEF RegistryInit
  <2> QED BY <2>1, HandlersAssumption, SeqRanked
<1> DEFINE holder == [e \in Entries |-> Pool]
<1>3. /\ holder \in [Entries -> Holders]
      /\ Holding(holder, Pool) = Entries
      /\ \A x \in Holders : x # Pool => Holding(holder, x) = {}
  BY HoldersDiffer DEF Holding
<1> HIDE DEF holder
<1>4. \A i \in Ids : Ranked(next, Null, hdlrs[i], Holding(holder, Owner(i)), rank)
  <2>1. \A i \in Ids : hdlrs[i] = Null /\ Holding(holder, Owner(i)) = {}
    BY <1>3, HoldersDiffer DEF RegistryInit
  <2> QED BY <2>1 DEF Ranked
<1>5. Ranked(next, Null, free, Holding(holder, Pool), rank)
  BY <1>2, <1>3 DEF RegistryInit
<1>6. \A c \in Corenums : Holding(holder, Hand(c)) = BeingAdded(c)
  BY <1>3, HoldersDiffer DEF RegistryInit, BeingAdded, Unused, NotAdding
<1>7. Walks(holder, rank)
  BY DEF RegistryInit, Walks, NotWalking
<1> QED BY <1>1, <1>2, <1>3, <1>4, <1>5, <1>6, <1>7 DEF Shape, Lists

-----------------------------------------------------------------------------
(* What the cores may be doing, step by step *)

LEMMA ControlStep == RegistryTypeOK /\ Control /\ [RegistryNext]_registryVars => Control'
<1> SUFFICES ASSUME RegistryTypeOK, Control, [RegistryNext]_registryVars PROVE Control'
  OBVIOUS
<1> USE DEF Control
<1>0. \A c, d \in Corenums : mode[c] = "start" /\ mode[d] = "start" => c = d
  BY DEF Corenums
<1>1. ASSUME NEW c \in Corenums, NEW i \in Ids, NEW h \in Handlers, NEW k \in Askable,
             Alloc(c, i, h, k)
      PROVE  Control'
  <2>1. /\ mode[c] = "start" /\ adding[c].pc = "none" /\ UNCHANGED <<hdlrs, mode, walk>>
        /\ \A d \in Corenums : d # c => adding[d].pc = "none"
    BY <1>0, <1>1 DEF Alloc, Starting
  <2>2. CASE free = Null
    <3>1. adding' = [adding EXCEPT ![c].pc = "panic"] /\ UNCHANGED <<next, corenum, asked>>
      BY <1>1, <2>2 DEF Alloc, AfterEmpty
    <3>2. \A d \in Corenums : /\ adding'[d].pc \in {"none", "panic"}
                              /\ d # c => adding'[d].pc = "none"
      BY <2>1, <3>1 DEF RegistryTypeOK
    <3> QED BY <2>1, <3>1, <3>2
  <2>3. CASE free # Null
    <3>1. free \in Entries BY <2>3 DEF RegistryTypeOK, Pointers
    <3>2. /\ adding' = [adding EXCEPT ![c] = [pc |-> "link", id |-> i, ent |-> free]]
          /\ corenum' = [corenum EXCEPT ![free] = StoredCore(k)]
          /\ asked' = [asked EXCEPT ![free] = k]
      BY <1>1, <2>3 DEF Alloc
    <3>3. \A d \in Corenums : /\ adding'[d].pc \in {"none", "link"}
                              /\ d # c => adding'[d].pc = "none"
      BY <2>1, <3>2 DEF RegistryTypeOK
    <3>4. \A e \in Entries : corenum'[e] = StoredCore(asked'[e])
      BY <3>1, <3>2 DEF RegistryTypeOK
    <3>5. Askable \subseteq Corenums => \A e \in Entries : asked'[e] \in Corenums
      BY <3>1, <3>2 DEF RegistryTypeOK
    <3>6. mode'[c] = "start"
      BY <2>1
    <3>7. ASSUME NEW d \in Corenums
          PROVE  adding'[d].pc # "publish" /\ (adding'[d].pc # "none" => mode'[d] = "start")
      <4>1. adding'[d].pc \in {"none", "link"} /\ (d # c => adding'[d].pc = "none")
        BY <3>3
      <4> QED BY <3>6, <4>1
    <3>8. /\ mode'[0] \in {"start", "loop"} /\ (mode'[0] = "start" <=> mode'[1] = "off")
          /\ \A d \in Corenums : walk'[d].pc # "none" => mode'[d] = "loop"
      BY <2>1
    <3> QED BY <3>4, <3>5, <3>6, <3>7, <3>8
  <2> QED BY <2>2, <2>3
<1>2. ASSUME NEW c \in Corenums, NEW i \in Ids, NEW h \in Handlers, NEW k \in Corenums,
             Remove(c, i, h, k)
      PROVE  Control'
  <2>1. \A d \in Corenums : adding[d].pc = "none"
    BY <1>0, <1>2 DEF Remove, Starting
  <2> QED BY <1>2, <2>1 DEF Remove
<1>3. ASSUME NEW c \in Corenums, Link(c)
      PROVE  Control'
  <2>1. /\ \A d \in Corenums : d # c => adding[d].pc = "none"
        /\ adding[c].ent \in Entries /\ mode[c] = "start"
    BY <1>0, <1>3 DEF Link, RegistryTypeOK, Unused
  <2>2. /\ next' = [next EXCEPT ![adding[c].ent] = hdlrs[adding[c].id]]
        /\ adding' = [adding EXCEPT ![c].pc = "publish"]
        /\ UNCHANGED <<hdlrs, mode, walk, corenum, asked>>
    BY <1>3 DEF Link
  <2>3. /\ adding'[c].ent = adding[c].ent /\ adding'[c].id = adding[c].id
        /\ \A d \in Corenums : d # c => adding'[d].pc = "none"
    BY <2>1, <2>2 DEF RegistryTypeOK
  <2>4. next'[adding[c].ent] = hdlrs[adding[c].id]
    BY <2>1, <2>2 DEF RegistryTypeOK
  <2> QED BY <2>1, <2>2, <2>3, <2>4
<1>4. ASSUME NEW c \in Corenums, Publish(c)
      PROVE  Control'
  <2>1. \A d \in Corenums : d # c => adding[d].pc = "none"
    BY <1>0, <1>4 DEF Publish
  <2>2. \A d \in Corenums : adding'[d].pc = "none"
    BY <1>4, <2>1 DEF Publish, NotAdding, RegistryTypeOK
  <2> QED BY <1>4, <2>2 DEF Publish
<1>5. ASSUME NEW c \in Corenums, EndStart(c)
      PROVE  Control'
  <2>1. \A d \in Corenums : adding[d].pc = "none"
    BY <1>0, <1>5 DEF EndStart, Starting
  <2>2. CASE c = 0
    <3>1. mode' = [d \in Corenums |-> IF d = 0 THEN "loop" ELSE "start"]
      BY <1>5, <2>2 DEF EndStart
    <3>2. walk[1].pc = "none" BY <1>5, <2>2 DEF EndStart, Starting, Corenums
    <3> QED BY <1>5, <2>1, <3>1, <3>2 DEF EndStart, Corenums
  <2>3. CASE c = 1
    <3>1. mode' = [mode EXCEPT ![1] = "loop"] /\ mode[1] = "start" /\ mode[0] = "loop"
      BY <1>5, <2>3 DEF EndStart, Starting
    <3>2. mode'[0] = "loop" /\ mode'[1] = "loop"
      BY <3>1 DEF RegistryTypeOK, Corenums
    <3> QED BY <1>5, <2>1, <3>2 DEF EndStart, Corenums
  <2> QED BY <2>2, <2>3 DEF Corenums
<1>6. ASSUME NEW c \in Corenums, NEW i \in Ids, Dispatch(c, i)
      PROVE  Control'
  BY <1>6 DEF Dispatch, RegistryTypeOK
<1>7. ASSUME NEW c \in Corenums, Visit(c)
      PROVE  Control'
  BY <1>7 DEF Visit, RegistryTypeOK
<1>8. ASSUME NEW c \in Corenums, Return(c)
      PROVE  Control'
  <2>1. \A d \in Corenums : walk'[d].pc # "none" => walk[d].pc # "none"
    BY <1>8 DEF Return, NotWalking, RegistryTypeOK
  <2> QED BY <1>8, <2>1 DEF Return
<1>9. ASSUME NEW c \in Corenums, Advance(c)
      PROVE  Control'
  BY <1>9 DEF Advance, RegistryTypeOK
<1>10. ASSUME NEW c \in Corenums, EndWalk(c)
       PROVE  Control'
  <2>1. \A d \in Corenums : walk'[d].pc # "none" => walk[d].pc # "none"
    BY <1>10 DEF EndWalk, NotWalking, RegistryTypeOK
  <2> QED BY <1>10, <2>1 DEF EndWalk
<1>11. CASE UNCHANGED registryVars
  BY <1>11 DEF registryVars
<1> HIDE DEF Control
<1> QED BY <1>1, <1>2, <1>3, <1>4, <1>5, <1>6, <1>7, <1>8, <1>9, <1>10, <1>11
        DEF RegistryNext, Add, Walk

-----------------------------------------------------------------------------
(* The lists and the walks, action by action *)

\* Registered(i) and Chain(free) are what the owner and the pool hold.
LEMMA ListsHold ==
  ASSUME NEW holder \in [Entries -> Holders], NEW rank \in [Entries -> Nat],
         Lists(holder, rank)
  PROVE  /\ \A i \in Ids : Registered(i) = Holding(holder, Owner(i)) /\ Ends(hdlrs[i])
         /\ Chain(free) = Holding(holder, Pool) /\ Ends(free)
<1>1. IsFiniteSet(Entries) BY PoolFinite
<1>2. \A x : Holding(holder, x) \subseteq Entries BY DEF Holding
<1>3. \A i \in Ids : Registered(i) = Holding(holder, Owner(i)) /\ Ends(hdlrs[i])
  <2> TAKE i \in Ids
  <2>1. Ranked(next, Null, hdlrs[i], Holding(holder, Owner(i)), rank) BY DEF Lists
  <2> QED BY <1>1, <1>2, <2>1, RankedChain DEF Registered, Chain, Ends
<1>4. Chain(free) = Holding(holder, Pool) /\ Ends(free)
  <2>1. Ranked(next, Null, free, Holding(holder, Pool), rank) BY DEF Lists
  <2> QED BY <1>1, <1>2, <2>1, RankedChain DEF Chain, Ends
<1> QED BY <1>3, <1>4

\* The same of the state a step leads to.
LEMMA ListsHoldNext ==
  ASSUME NEW holder \in [Entries -> Holders], NEW rank \in [Entries -> Nat],
         Lists(holder, rank)'
  PROVE  \A i \in Ids : Registered(i)' = Holding(holder, Owner(i))
<1>1. IsFiniteSet(Entries) BY PoolFinite
<1>2. \A x : Holding(holder, x) \subseteq Entries BY DEF Holding
<1> SUFFICES ASSUME NEW i \in Ids
             PROVE  Registered(i)' = Holding(holder, Owner(i))
  OBVIOUS
<1>3. Ranked(next', Null, hdlrs'[i], Holding(holder, Owner(i)), rank) BY DEF Lists
<1> QED BY <1>1, <1>2, <1>3, RankedChain DEF Registered, Chain

LEMMA AllocShape ==
  ASSUME RegistryTypeOK, Control, Shape, NEW c \in Corenums, NEW i \in Ids, NEW h \in Handlers,
         NEW k \in Askable, Alloc(c, i, h, k)
  PROVE  Shape' /\ \A j \in Ids : Registered(j)' = Registered(j)
<1>1. PICK holder \in [Entries -> Holders], rank \in [Entries -> Nat] :
        Lists(holder, rank) /\ Walks(holder, rank)
  BY DEF Shape
<1>2. adding[c].pc = "none" /\ UNCHANGED <<hdlrs, walk, due>> BY DEF Alloc, Starting
<1>3. CASE free = Null
  <2>1. /\ adding' = [adding EXCEPT ![c].pc = "panic"]
        /\ UNCHANGED <<free, next, asked>>
    BY <1>3 DEF Alloc, AfterEmpty
  <2>2. \A d \in Corenums : BeingAdded(d)' = BeingAdded(d)
    BY <1>2, <2>1 DEF BeingAdded, Unused, RegistryTypeOK
  <2>3. Lists(holder, rank)' BY <1>1, <1>2, <2>1, <2>2 DEF Lists
  <2>4. Walks(holder, rank)' BY <1>1, <1>2, <2>1 DEF Walks, Ahead
  <2>5. \A j \in Ids : Registered(j)' = Registered(j)
    BY <1>2, <2>1 DEF Registered, Chain
  <2> QED BY <2>3, <2>4, <2>5 DEF Shape
<1>4. CASE free # Null
  <2>1. /\ adding' = [adding EXCEPT ![c] = [pc |-> "link", id |-> i, ent |-> free]]
        /\ free' = next[free]
        /\ next' = [next EXCEPT ![free] = Null]
        /\ asked' = [asked EXCEPT ![free] = k]
    BY <1>4 DEF Alloc
  <2>2. free \in Entries /\ free \in Holding(holder, Pool)
    BY <1>1, <1>4 DEF Lists, Ranked, Holding
  <2>3. PICK h2 : h2 = [holder EXCEPT ![free] = Hand(c)]
    OBVIOUS
  <2>4. h2 \in [Entries -> Holders]
    BY <2>3, HoldersDiffer
  <2>5. /\ Holding(h2, Pool) = Holding(holder, Pool) \ {free}
        /\ Holding(h2, Hand(c)) = Holding(holder, Hand(c)) \cup {free}
        /\ \A x \in Holders : x # Pool /\ x # Hand(c) => Holding(h2, x) = Holding(holder, x)
        /\ \A x \in Holders : x # Pool => free \notin Holding(holder, x)
    BY <2>2, <2>3, HoldersDiffer DEF Holding
  <2>6. \A e \in Entries : e # free => next'[e] = next[e] /\ asked'[e] = asked[e]
    BY <2>1, <2>2 DEF RegistryTypeOK
  <2>7. \A x : Holding(holder, x) \subseteq Entries
    BY DEF Holding
  <2>8. \A j \in Ids : Ranked(next, Null, hdlrs[j], Holding(holder, Owner(j)), rank)'
    <3> TAKE j \in Ids
    <3>1. Ranked(next, Null, hdlrs[j], Holding(holder, Owner(j)), rank) BY <1>1 DEF Lists
    <3>2. \A e \in Holding(holder, Owner(j)) : next'[e] = next[e]
      BY <2>5, <2>6, <2>7, HoldersDiffer
    <3>3. Ranked(next', Null, hdlrs[j], Holding(holder, Owner(j)), rank)
      BY <3>1, <3>2, RankedFrame
    <3> QED BY <1>2, <3>3
  <2>9. Ranked(next', Null, free', Holding(h2, Pool), rank)
    <3>1. Ranked(next, Null, free, Holding(holder, Pool), rank) BY <1>1 DEF Lists
    <3>2. \A e \in Holding(holder, Pool) \ {free} : next'[e] = next[e]
      BY <2>6, <2>7
    <3>3. Ranked(next', Null, next[free], Holding(holder, Pool) \ {free}, rank)
      <4> HIDE DEF Holding
      <4> QED BY <1>4, <3>1, <3>2, RankedPop
    <3> QED BY <2>1, <2>5, <3>3
  <2>10. \A d \in Corenums : Holding(h2, Hand(d)) = BeingAdded(d)'
    <3> TAKE d \in Corenums
    <3>1. Holding(holder, Hand(d)) = BeingAdded(d) BY <1>1 DEF Lists
    <3>2. CASE d = c
      <4>1. BeingAdded(d) = {} BY <1>2, <3>2 DEF BeingAdded, Unused
      <4>2. BeingAdded(d)' = {free} BY <2>1, <3>2 DEF BeingAdded, Unused, RegistryTypeOK
      <4> QED BY <2>5, <3>1, <3>2, <4>1, <4>2
    <3>3. CASE d # c
      <4>1. BeingAdded(d)' = BeingAdded(d) BY <2>1, <3>3 DEF BeingAdded, RegistryTypeOK
      <4> QED BY <2>5, <3>1, <3>3, <4>1, HoldersDiffer
    <3> QED BY <3>2, <3>3
  <2>11. \A j \in Ids : Holding(h2, Owner(j)) = Holding(holder, Owner(j))
    BY <2>5, HoldersDiffer
  <2>12. Lists(h2, rank)'
    BY <2>8, <2>9, <2>10, <2>11 DEF Lists
  <2>13. Walks(h2, rank)'
    <3> SUFFICES ASSUME NEW d \in Corenums, walk[d].pc # "none"
                 PROVE  /\ walk[d].ent \in Holding(h2, Owner(walk[d].id)) \cup {Null}
                        /\ Askable \subseteq Corenums =>
                             due[d] = {e \in Holding(h2, Owner(walk[d].id)) :
                                         asked'[e] = d /\ Ahead(d, rank[e], rank)'}
      BY <1>2 DEF Walks
    <3>1. walk[d].id \in Ids BY DEF RegistryTypeOK
    <3>2. Holding(h2, Owner(walk[d].id)) = Holding(holder, Owner(walk[d].id)) BY <2>11, <3>1
    <3>3. \A e \in Holding(holder, Owner(walk[d].id)) : asked'[e] = asked[e]
      BY <2>5, <2>6, <2>7, <3>1, HoldersDiffer
    <3>4. \A e : Ahead(d, rank[e], rank)' = Ahead(d, rank[e], rank) BY <1>2 DEF Ahead
    <3> HIDE DEF Ahead
    <3> QED BY <1>1, <3>2, <3>3, <3>4 DEF Walks
  <2>14. \A j \in Ids : Registered(j)' = Registered(j)
    BY <1>1, <2>4, <2>11, <2>12, ListsHold, ListsHoldNext
  <2> QED BY <2>4, <2>12, <2>13, <2>14 DEF Shape
<1> QED BY <1>3, <1>4

LEMMA LinkShape ==
  ASSUME RegistryTypeOK, Control, Shape, NEW c \in Corenums, Link(c)
  PROVE  Shape' /\ \A j \in Ids : Registered(j)' = Registered(j)
<1>1. PICK holder \in [Entries -> Holders], rank \in [Entries -> Nat] :
        Lists(holder, rank) /\ Walks(holder, rank)
  BY DEF Shape
<1> DEFINE ent == adding[c].ent
<1>2. /\ adding[c].pc = "link" /\ ent \in Entries
      /\ next' = [next EXCEPT ![ent] = hdlrs[adding[c].id]]
      /\ adding' = [adding EXCEPT ![c].pc = "publish"]
      /\ UNCHANGED <<hdlrs, free, walk, asked, due>>
  BY DEF Link, RegistryTypeOK, Unused
<1>3. ent \in Holding(holder, Hand(c))
  BY <1>1, <1>2 DEF Lists, BeingAdded, Unused
<1>4. \A x \in Holders : x # Hand(c) => ent \notin Holding(holder, x)
  BY <1>3 DEF Holding
<1>5. \A e \in Entries : e # ent => next'[e] = next[e]
  BY <1>2 DEF RegistryTypeOK
<1>6. \A x : Holding(holder, x) \subseteq Entries
  BY DEF Holding
<1>7. \A d \in Corenums : BeingAdded(d)' = BeingAdded(d)
  BY <1>2 DEF BeingAdded, Unused, RegistryTypeOK
<1> HIDE DEF ent
<1>8. \A j \in Ids : Ranked(next', Null, hdlrs[j], Holding(holder, Owner(j)), rank)
  <2> TAKE j \in Ids
  <2>1. Ranked(next, Null, hdlrs[j], Holding(holder, Owner(j)), rank) BY <1>1 DEF Lists
  <2>2. \A e \in Holding(holder, Owner(j)) : next'[e] = next[e]
    BY <1>4, <1>5, <1>6, HoldersDiffer
  <2> QED BY <2>1, <2>2, RankedFrame
<1>9. Ranked(next', Null, free, Holding(holder, Pool), rank)
  <2>1. Ranked(next, Null, free, Holding(holder, Pool), rank) BY <1>1 DEF Lists
  <2>2. \A e \in Holding(holder, Pool) : next'[e] = next[e]
    BY <1>4, <1>5, <1>6, HoldersDiffer
  <2> QED BY <2>1, <2>2, RankedFrame
<1>10. Lists(holder, rank)'
  BY <1>1, <1>2, <1>7, <1>8, <1>9 DEF Lists
<1>11. Walks(holder, rank)'
  BY <1>1, <1>2 DEF Walks, Ahead
<1>12. \A j \in Ids : Registered(j)' = Registered(j)
  BY <1>1, <1>10, ListsHold, ListsHoldNext
<1> QED BY <1>10, <1>11, <1>12 DEF Shape

\* The entry goes in front of the list, with every other entry behind it: a walk
\* that is in the list already does not meet it, and the others keep their ranks.
LEMMA PublishShape ==
  ASSUME RegistryTypeOK, Control, Shape, NEW c \in Corenums, Publish(c)
  PROVE  Shape' /\ \A j \in Ids : Registered(j) \subseteq Registered(j)'
<1>1. PICK holder \in [Entries -> Holders], rank \in [Entries -> Nat] :
        Lists(holder, rank) /\ Walks(holder, rank)
  BY DEF Shape
<1> DEFINE ent == adding[c].ent
           id == adding[c].id
           S == Holding(holder, Owner(id))
           behind == IF hdlrs[id] = Null THEN 0 ELSE rank[hdlrs[id]] + 1
<1>2. /\ adding[c].pc = "publish" /\ ent \in Entries /\ id \in Ids
      /\ hdlrs' = [hdlrs EXCEPT ![id] = ent]
      /\ adding' = [adding EXCEPT ![c] = NotAdding]
      /\ UNCHANGED <<free, next, walk, asked, due>>
      /\ next[ent] = hdlrs[id]
  BY DEF Publish, RegistryTypeOK, Unused, Control
<1>3. ent \in Holding(holder, Hand(c))
  BY <1>1, <1>2 DEF Lists, BeingAdded, Unused
<1>4. \A x \in Holders : x # Hand(c) => ent \notin Holding(holder, x)
  BY <1>3 DEF Holding
<1>5. Ranked(next, Null, hdlrs[id], S, rank)
  BY <1>1, <1>2 DEF Lists
<1>6. \A x : Holding(holder, x) \subseteq Entries
  BY DEF Holding
<1>7. behind \in Nat /\ \A e \in S : rank[e] < behind
  <2>1. /\ hdlrs[id] = Null => S = {}
        /\ hdlrs[id] # Null => hdlrs[id] \in S /\ \A e \in S : rank[e] <= rank[hdlrs[id]]
        /\ \A e \in S : rank[e] \in Nat
    BY <1>5 DEF Ranked
  <2> HIDE DEF S
  <2> QED BY <2>1
<1> HIDE DEF behind
<1>8. PICK h2 : h2 = [holder EXCEPT ![ent] = Owner(id)]
  OBVIOUS
<1>9. PICK r2 : r2 = [rank EXCEPT ![ent] = behind]
  OBVIOUS
<1>10. h2 \in [Entries -> Holders] /\ r2 \in [Entries -> Nat]
  BY <1>2, <1>7, <1>8, <1>9, HoldersDiffer
<1>11. /\ Holding(h2, Owner(id)) = S \cup {ent}
       /\ Holding(h2, Hand(c)) = Holding(holder, Hand(c)) \ {ent}
       /\ \A x \in Holders : x # Owner(id) /\ x # Hand(c) => Holding(h2, x) = Holding(holder, x)
  BY <1>2, <1>3, <1>8, HoldersDiffer DEF Holding
<1>12. r2[ent] = behind /\ \A e \in Entries : e # ent => r2[e] = rank[e]
  BY <1>2, <1>9
<1>13. ent \notin S
  BY <1>2, <1>4, HoldersDiffer
<1>14. Ranked(next, Null, ent, S \cup {ent}, r2)
  <2>1. ent # Null BY <1>2, HandlersAssumption
  <2>2. \A e \in S : r2[e] = rank[e] BY <1>6, <1>12, <1>13
  <2>3. r2[ent] = IF hdlrs[id] = Null THEN 0 ELSE rank[hdlrs[id]] + 1
    BY <1>12 DEF behind
  <2> HIDE DEF S, ent, id
  <2> QED BY <1>2, <1>5, <1>13, <2>1, <2>2, <2>3, RankedPush
<1>15. \A j \in Ids : Ranked(next', Null, hdlrs'[j], Holding(h2, Owner(j)), r2)
  <2> TAKE j \in Ids
  <2>1. CASE j = id
    <3>1. hdlrs'[j] = ent BY <1>2, <2>1 DEF RegistryTypeOK
    <3> QED BY <1>2, <1>11, <1>14, <2>1, <3>1
  <2>2. CASE j # id
    <3>1. hdlrs'[j] = hdlrs[j] /\ next' = next BY <1>2, <2>2
    <3>2. Holding(h2, Owner(j)) = Holding(holder, Owner(j))
      BY <1>2, <1>11, <2>2, HoldersDiffer
    <3>3. Ranked(next, Null, hdlrs[j], Holding(holder, Owner(j)), rank) BY <1>1 DEF Lists
    <3>4. \A e \in Holding(holder, Owner(j)) : r2[e] = rank[e]
      BY <1>4, <1>6, <1>12, HoldersDiffer
    <3>5. Ranked(next, Null, hdlrs[j], Holding(holder, Owner(j)), r2)
      BY <3>3, <3>4, RankedFrame
    <3> QED BY <3>1, <3>2, <3>5
  <2> QED BY <2>1, <2>2
<1>16. Ranked(next', Null, free', Holding(h2, Pool), r2)
  <2>1. Ranked(next, Null, free, Holding(holder, Pool), rank) BY <1>1 DEF Lists
  <2>2. \A e \in Holding(holder, Pool) : r2[e] = rank[e]
    BY <1>4, <1>6, <1>12, HoldersDiffer
  <2>3. Ranked(next, Null, free, Holding(holder, Pool), r2) BY <2>1, <2>2, RankedFrame
  <2>4. Holding(h2, Pool) = Holding(holder, Pool) BY <1>2, <1>11, HoldersDiffer
  <2> QED BY <1>2, <2>3, <2>4
<1>17. \A d \in Corenums : Holding(h2, Hand(d)) = BeingAdded(d)'
  <2> TAKE d \in Corenums
  <2>1. Holding(holder, Hand(d)) = BeingAdded(d) BY <1>1 DEF Lists
  <2>2. CASE d = c
    <3>1. BeingAdded(d) = {ent} BY <1>2, <2>2 DEF BeingAdded, Unused
    <3>2. BeingAdded(d)' = {} BY <1>2, <2>2 DEF BeingAdded, Unused, RegistryTypeOK, NotAdding
    <3> QED BY <1>11, <2>1, <2>2, <3>1, <3>2
  <2>3. CASE d # c
    <3>1. BeingAdded(d)' = BeingAdded(d) BY <1>2, <2>3 DEF BeingAdded, RegistryTypeOK
    <3> QED BY <1>2, <1>11, <2>1, <2>3, <3>1, HoldersDiffer
  <2> QED BY <2>2, <2>3
<1>18. Lists(h2, r2)'
  BY <1>15, <1>16, <1>17 DEF Lists
<1>19. Walks(h2, r2)'
  <2> SUFFICES ASSUME NEW d \in Corenums, walk[d].pc # "none"
               PROVE  /\ walk[d].ent \in Holding(h2, Owner(walk[d].id)) \cup {Null}
                      /\ Askable \subseteq Corenums =>
                           due[d] = {e \in Holding(h2, Owner(walk[d].id)) :
                                       asked[e] = d /\ Ahead(d, r2[e], r2)}
    BY <1>2 DEF Walks, Ahead
  <2> DEFINE at == walk[d].ent
             L == Holding(holder, Owner(walk[d].id))
             L2 == Holding(h2, Owner(walk[d].id))
  <2>1. /\ walk[d].id \in Ids
        /\ at \in L \cup {Null}
        /\ Askable \subseteq Corenums =>
             due[d] = {e \in L : asked[e] = d /\ Ahead(d, rank[e], rank)}
    BY <1>1 DEF Walks, RegistryTypeOK
  <2>2. L2 = L \/ (walk[d].id = id /\ L = S /\ L2 = L \cup {ent})
    BY <1>2, <1>11, <2>1, HoldersDiffer
  <2>3. ent \notin L /\ L \subseteq Entries
    BY <1>4, <1>6, <2>1, HoldersDiffer
  <2>4. \A e \in L : r2[e] = rank[e]
    BY <1>12, <2>3
  <2>5. \A e \in L : Ahead(d, r2[e], r2) = Ahead(d, rank[e], rank)
    BY <2>1, <2>4 DEF Ahead
  <2>6. L = S => ~Ahead(d, r2[ent], r2)
    <3> SUFFICES ASSUME L = S, at # Null PROVE ~(r2[ent] <= r2[at]) /\ ~(r2[ent] < r2[at])
      BY DEF Ahead
    <3>1. at \in S BY <2>1
    <3>2. r2[at] = rank[at] /\ rank[at] < behind /\ rank[at] \in Nat
      BY <1>7, <2>3, <2>4, <3>1
    <3> QED BY <1>7, <1>12, <3>2
  <2> HIDE DEF Ahead, L, L2, S, at, ent, id
  <2> QED BY <2>1, <2>2, <2>3, <2>5, <2>6 DEF L2, L, at
<1>20. \A j \in Ids : Registered(j) \subseteq Registered(j)'
  <2> TAKE j \in Ids
  <2>1. Registered(j) = Holding(holder, Owner(j)) BY <1>1, ListsHold
  <2>2. Registered(j)' = Holding(h2, Owner(j)) BY <1>10, <1>18, ListsHoldNext
  <2>3. Holding(holder, Owner(j)) \subseteq Holding(h2, Owner(j))
    BY <1>2, <1>11, HoldersDiffer
  <2> QED BY <2>1, <2>2, <2>3
<1> QED BY <1>10, <1>18, <1>19, <1>20 DEF Shape

\* The first entry goes from its list to the pool, when nothing walks and no
\* registration is under way.
LEMMA RemoveShape ==
  ASSUME FirstOnly, RegistryTypeOK, Control, Shape, NEW c \in Corenums, NEW i \in Ids,
         NEW h \in Handlers, NEW k \in Corenums, Remove(c, i, h, k)
  PROVE  Shape' /\ \A j \in Ids : Registered(j) \ Registered(j)' \subseteq {hdlrs[i]}
<1>1. PICK holder \in [Entries -> Holders], rank \in [Entries -> Nat] :
        Lists(holder, rank) /\ Walks(holder, rank)
  BY DEF Shape
<1> DEFINE ent == hdlrs[i]
           S == Holding(holder, Owner(i))
           F == Holding(holder, Pool)
           behind == IF free = Null THEN 0 ELSE rank[free] + 1
<1>2. /\ ent # Null /\ ent \in Entries
      /\ hdlrs' = [hdlrs EXCEPT ![i] = next[ent]]
      /\ next' = [next EXCEPT ![ent] = free]
      /\ free' = ent
      /\ UNCHANGED <<mode, adding, walk>>
      /\ mode[0] = "start"
  BY DEF Remove, HeadWithout, Freed, RegistryTypeOK, Pointers, Starting
<1>3. \A d \in Corenums : walk[d].pc = "none"
  BY <1>2 DEF Control, Corenums
<1>4. Ranked(next, Null, ent, S, rank) /\ Ranked(next, Null, free, F, rank)
  BY <1>1 DEF Lists
<1>5. ent \in S
  BY <1>2, <1>4 DEF Ranked
<1>6. \A x \in Holders : x # Owner(i) => ent \notin Holding(holder, x)
  BY <1>5 DEF Holding
<1>7. \A x : Holding(holder, x) \subseteq Entries
  BY DEF Holding
<1>8. behind \in Nat
  BY <1>4 DEF Ranked
<1> HIDE DEF behind
<1>9. PICK h2 : h2 = [holder EXCEPT ![ent] = Pool]
  OBVIOUS
<1>10. PICK r2 : r2 = [rank EXCEPT ![ent] = behind]
  OBVIOUS
<1>11. h2 \in [Entries -> Holders] /\ r2 \in [Entries -> Nat]
  BY <1>2, <1>8, <1>9, <1>10, HoldersDiffer
<1>12. /\ Holding(h2, Owner(i)) = S \ {ent}
       /\ Holding(h2, Pool) = F \cup {ent}
       /\ \A x \in Holders : x # Owner(i) /\ x # Pool => Holding(h2, x) = Holding(holder, x)
  BY <1>2, <1>5, <1>9, HoldersDiffer DEF Holding
<1>13. /\ r2[ent] = behind /\ next'[ent] = free
       /\ \A e \in Entries : e # ent => r2[e] = rank[e] /\ next'[e] = next[e]
  BY <1>2, <1>10 DEF RegistryTypeOK
<1>14. Ranked(next', Null, ent, F \cup {ent}, r2)
  <2>1. ent \notin F BY <1>6, HoldersDiffer
  <2>2. \A e \in F : next'[e] = next[e] /\ r2[e] = rank[e] BY <1>7, <1>13, <2>1
  <2>3. r2[ent] = IF free = Null THEN 0 ELSE rank[free] + 1 BY <1>13 DEF behind
  <2>4. ent # Null /\ Ranked(next, Null, free, F, rank) /\ next'[ent] = free
    BY <1>2, <1>4, <1>13
  <2> HIDE DEF S, F, ent
  <2> QED BY <2>1, <2>2, <2>3, <2>4, RankedPush
<1>15. Ranked(next', Null, next[ent], S \ {ent}, r2)
  <2>1. \A e \in S \ {ent} : next'[e] = next[e] /\ r2[e] = rank[e] BY <1>7, <1>13
  <2>2. ent # Null /\ Ranked(next, Null, ent, S, rank) BY <1>2, <1>4
  <2> HIDE DEF S, F, ent
  <2> QED BY <2>1, <2>2, RankedPop
<1>16. \A j \in Ids : Ranked(next', Null, hdlrs'[j], Holding(h2, Owner(j)), r2)
  <2> TAKE j \in Ids
  <2>1. CASE j = i
    <3>1. hdlrs'[j] = next[ent] BY <1>2, <2>1 DEF RegistryTypeOK
    <3> QED BY <1>12, <1>15, <2>1, <3>1
  <2>2. CASE j # i
    <3>1. hdlrs'[j] = hdlrs[j] BY <1>2, <2>2 DEF RegistryTypeOK
    <3>2. Holding(h2, Owner(j)) = Holding(holder, Owner(j)) /\ ent \notin Holding(holder, Owner(j))
      BY <1>6, <1>12, <2>2, HoldersDiffer
    <3>3. Ranked(next, Null, hdlrs[j], Holding(holder, Owner(j)), rank) BY <1>1 DEF Lists
    <3>4. \A e \in Holding(holder, Owner(j)) : next'[e] = next[e] /\ r2[e] = rank[e]
      BY <1>7, <1>13, <3>2
    <3>5. Ranked(next', Null, hdlrs[j], Holding(holder, Owner(j)), r2)
      BY <3>3, <3>4, RankedFrame
    <3> QED BY <3>1, <3>2, <3>5
  <2> QED BY <2>1, <2>2
<1>17. \A d \in Corenums : Holding(h2, Hand(d)) = BeingAdded(d)'
  <2> TAKE d \in Corenums
  <2>1. Holding(holder, Hand(d)) = BeingAdded(d) BY <1>1 DEF Lists
  <2>2. BeingAdded(d)' = BeingAdded(d) BY <1>2 DEF BeingAdded
  <2> QED BY <1>12, <2>1, <2>2, HoldersDiffer
<1>18. Lists(h2, r2)'
  BY <1>2, <1>12, <1>14, <1>16, <1>17 DEF Lists
<1>19. Walks(h2, r2)'
  BY <1>2, <1>3 DEF Walks
<1>20. \A j \in Ids : Registered(j) \ Registered(j)' \subseteq {ent}
  <2> TAKE j \in Ids
  <2>1. Registered(j) = Holding(holder, Owner(j)) BY <1>1, ListsHold
  <2>2. Registered(j)' = Holding(h2, Owner(j)) BY <1>11, <1>18, ListsHoldNext
  <2>3. Holding(holder, Owner(j)) \ Holding(h2, Owner(j)) \subseteq {ent}
    BY <1>12, HoldersDiffer
  <2> QED BY <2>1, <2>2, <2>3
<1> QED BY <1>11, <1>18, <1>19, <1>20 DEF Shape

\* The lists stay as they are when no link, no head and no hand changes.
LEMMA ListsFrame ==
  ASSUME NEW holder, NEW rank, Lists(holder, rank), UNCHANGED <<hdlrs, free, next, adding>>
  PROVE  Lists(holder, rank)'
BY DEF Lists, BeingAdded

\* One step of the walk of a core: what the other core's walk owes is untouched, so
\* it is enough to look at its own.
LEMMA WalkShape ==
  ASSUME RegistryTypeOK, NEW holder \in [Entries -> Holders], NEW rank \in [Entries -> Nat],
         Lists(holder, rank), Walks(holder, rank), NEW c \in Corenums,
         UNCHANGED <<hdlrs, free, next, adding, asked>>,
         \A d \in Corenums \ {c} : walk'[d] = walk[d] /\ due'[d] = due[d],
         walk'[c].pc # "none" =>
           /\ walk'[c].ent \in Holding(holder, Owner(walk'[c].id)) \cup {Null}
           /\ Askable \subseteq Corenums =>
                due'[c] = {e \in Holding(holder, Owner(walk'[c].id)) :
                             asked[e] = c /\ Ahead(c, rank[e], rank)'}
  PROVE  Shape'
<1>1. Lists(holder, rank)' BY ListsFrame
<1>2. Walks(holder, rank)'
  <2> SUFFICES ASSUME NEW d \in Corenums, walk'[d].pc # "none"
               PROVE  /\ walk'[d].ent \in Holding(holder, Owner(walk'[d].id)) \cup {Null}
                      /\ Askable \subseteq Corenums =>
                           due'[d] = {e \in Holding(holder, Owner(walk'[d].id)) :
                                        asked'[e] = d /\ Ahead(d, rank[e], rank)'}
    BY DEF Walks
  <2>1. CASE d = c BY <2>1
  <2>2. CASE d # c
    <3>1. walk'[d] = walk[d] /\ due'[d] = due[d] /\ asked' = asked BY <2>2
    <3>2. \A e : Ahead(d, rank[e], rank)' = Ahead(d, rank[e], rank) BY <3>1 DEF Ahead
    <3> HIDE DEF Ahead
    <3> QED BY <3>1, <3>2 DEF Walks
  <2> QED BY <2>1, <2>2
<1> QED BY <1>1, <1>2 DEF Shape

LEMMA DispatchShape ==
  ASSUME RegistryTypeOK, Control, Shape, NEW c \in Corenums, NEW i \in Ids, Dispatch(c, i)
  PROVE  Shape'
<1>1. PICK holder \in [Entries -> Holders], rank \in [Entries -> Nat] :
        Lists(holder, rank) /\ Walks(holder, rank)
  BY DEF Shape
<1>2. /\ walk' = [walk EXCEPT ![c] = [pc |-> "visit", id |-> i, ent |-> hdlrs[i]]]
      /\ due' = [due EXCEPT ![c] = MeantFor(c, i)]
      /\ UNCHANGED <<hdlrs, free, next, adding, asked>>
  BY DEF Dispatch
<1> DEFINE S == Holding(holder, Owner(i))
<1>4. Registered(i) = S BY <1>1, ListsHold
<1>5. S \subseteq Entries BY DEF Holding
<1>6. /\ hdlrs[i] = Null => S = {}
      /\ hdlrs[i] # Null => hdlrs[i] \in S /\ \A e \in S : rank[e] <= rank[hdlrs[i]]
  BY <1>1 DEF Lists, Ranked
<1>7. walk'[c] = [pc |-> "visit", id |-> i, ent |-> hdlrs[i]] /\ due'[c] = MeantFor(c, i)
  BY <1>2 DEF RegistryTypeOK
<1>8. \A e \in S : Ahead(c, rank[e], rank)'
  BY <1>6, <1>7 DEF Ahead
<1>9. Askable \subseteq Corenums => MeantFor(c, i) = {e \in S : asked[e] = c}
  BY <1>4, <1>5 DEF MeantFor, Control, Corenums, Both
<1>10. hdlrs[i] \in S \cup {Null} BY <1>6
<1> HIDE DEF Ahead, S
<1>11. Holding(holder, Owner(walk'[c].id)) = S BY <1>7 DEF S
<1>12. \A d \in Corenums \ {c} : walk'[d] = walk[d] /\ due'[d] = due[d]
  BY <1>2 DEF RegistryTypeOK
<1> QED BY <1>1, <1>2, <1>7, <1>8, <1>9, <1>10, <1>11, <1>12, WalkShape

LEMMA VisitShape ==
  ASSUME RegistryTypeOK, Control, Shape, NEW c \in Corenums, Visit(c)
  PROVE  Shape'
<1>1. PICK holder \in [Entries -> Holders], rank \in [Entries -> Nat] :
        Lists(holder, rank) /\ Walks(holder, rank)
  BY DEF Shape
<1> DEFINE at == walk[c].ent
           S == Holding(holder, Owner(walk[c].id))
<1>2. /\ walk[c].pc = "visit" /\ at # Null /\ walk[c].id \in Ids
      /\ walk' = [walk EXCEPT ![c].pc = IF Serves(c, at) THEN "called" ELSE "advance"]
      /\ due' = [due EXCEPT ![c] = IF Serves(c, at) THEN @ \ {at} ELSE @]
      /\ UNCHANGED <<hdlrs, free, next, adding, asked>>
  BY DEF Visit, RegistryTypeOK
<1>3. /\ at \in S
      /\ Askable \subseteq Corenums =>
           due[c] = {e \in S : asked[e] = c /\ rank[e] <= rank[at]}
  BY <1>1, <1>2 DEF Walks, Ahead
<1>4. Ranked(next, Null, hdlrs[walk[c].id], S, rank)
  BY <1>1, <1>2 DEF Lists
<1>5. /\ walk'[c].pc \in {"called", "advance"} /\ walk'[c].id = walk[c].id
      /\ walk'[c].ent = at
      /\ due'[c] = IF Serves(c, at) THEN due[c] \ {at} ELSE due[c]
      /\ \A d \in Corenums \ {c} : walk'[d] = walk[d] /\ due'[d] = due[d]
  BY <1>2 DEF RegistryTypeOK
<1>6. at \in Entries /\ S \subseteq Entries
  BY <1>3 DEF Holding
<1>7. Askable \subseteq Corenums /\ asked[at] = c => Serves(c, at)
  BY <1>6 DEF Serves, Control, StoredCore, Corenums
<1>8. \A e \in S : rank[e] <= rank[at] <=> rank[e] < rank[at] \/ e = at
  <2>1. \A e, f \in S : rank[e] = rank[f] => e = f BY <1>4 DEF Ranked
  <2>2. \A e \in S : rank[e] \in Nat BY <1>6
  <2> HIDE DEF S, at
  <2> QED BY <1>3, <2>1, <2>2
<1>9. \A e \in S : Ahead(c, rank[e], rank)' <=> rank[e] < rank[at]
  BY <1>2, <1>5 DEF Ahead
<1>10. Askable \subseteq Corenums =>
         due'[c] = {e \in S : asked[e] = c /\ Ahead(c, rank[e], rank)'}
  <2> SUFFICES ASSUME Askable \subseteq Corenums
               PROVE  due'[c] = {e \in S : asked[e] = c /\ rank[e] < rank[at]}
    BY <1>9
  <2>1. ~(rank[at] < rank[at]) BY <1>6
  <2> HIDE DEF S, at
  <2>2. {e \in S : asked[e] = c /\ rank[e] <= rank[at]} \ {at}
          = {e \in S : asked[e] = c /\ rank[e] < rank[at]}
    BY <1>8, <2>1
  <2>3. CASE Serves(c, at) BY <1>3, <1>5, <2>2, <2>3
  <2>4. CASE ~Serves(c, at)
    <3>1. at \notin due[c] BY <1>3, <1>7, <2>4
    <3> QED BY <1>3, <1>5, <2>2, <2>4, <3>1
  <2> QED BY <2>3, <2>4
<1>11. S = Holding(holder, Owner(walk'[c].id)) BY <1>5
<1> HIDE DEF Ahead, S, at
<1> QED BY <1>1, <1>2, <1>3, <1>5, <1>10, <1>11, WalkShape

LEMMA ReturnShape ==
  ASSUME RegistryTypeOK, Control, Shape, NEW c \in Corenums, Return(c)
  PROVE  Shape'
<1>1. PICK holder \in [Entries -> Holders], rank \in [Entries -> Nat] :
        Lists(holder, rank) /\ Walks(holder, rank)
  BY DEF Shape
<1>2. /\ walk[c].pc = "called" /\ UNCHANGED <<hdlrs, free, next, adding, asked>>
      /\ \A d \in Corenums \ {c} : walk'[d] = walk[d] /\ due'[d] = due[d]
  BY DEF Return, RegistryTypeOK
<1>3. CASE walk' = [walk EXCEPT ![c].pc = "advance"] /\ UNCHANGED due
  <2>1. /\ walk'[c].pc = "advance" /\ walk'[c].id = walk[c].id
        /\ walk'[c].ent = walk[c].ent /\ due'[c] = due[c]
    BY <1>3 DEF RegistryTypeOK
  <2>2. \A n : Ahead(c, n, rank)' = Ahead(c, n, rank) BY <1>2, <2>1 DEF Ahead
  <2>3. /\ walk[c].ent \in Holding(holder, Owner(walk[c].id)) \cup {Null}
        /\ Askable \subseteq Corenums =>
             due[c] = {e \in Holding(holder, Owner(walk[c].id)) :
                         asked[e] = c /\ Ahead(c, rank[e], rank)}
    BY <1>1, <1>2 DEF Walks
  <2> HIDE DEF Ahead
  <2> QED BY <1>1, <1>2, <2>1, <2>2, <2>3, WalkShape
<1>4. CASE walk' = [walk EXCEPT ![c] = NotWalking]
  <2>1. walk'[c].pc = "none" BY <1>4 DEF RegistryTypeOK, NotWalking
  <2> QED BY <1>1, <1>2, <2>1, WalkShape
<1> QED BY <1>3, <1>4 DEF Return

LEMMA AdvanceShape ==
  ASSUME RegistryTypeOK, Control, Shape, NEW c \in Corenums, Advance(c)
  PROVE  Shape'
<1>1. PICK holder \in [Entries -> Holders], rank \in [Entries -> Nat] :
        Lists(holder, rank) /\ Walks(holder, rank)
  BY DEF Shape
<1> DEFINE at == walk[c].ent
           S == Holding(holder, Owner(walk[c].id))
<1>2. /\ walk[c].pc = "advance" /\ at \in Entries /\ walk[c].id \in Ids
      /\ walk' = [walk EXCEPT ![c].pc = "visit", ![c].ent = next[at]]
      /\ UNCHANGED <<hdlrs, free, next, adding, asked, due>>
  BY DEF Advance, Advanced, RegistryTypeOK
<1>3. /\ at \in S
      /\ Askable \subseteq Corenums =>
           due[c] = {e \in S : asked[e] = c /\ rank[e] < rank[at]}
  BY <1>1, <1>2, HandlersAssumption DEF Walks, Ahead
<1>4. Ranked(next, Null, hdlrs[walk[c].id], S, rank)
  BY <1>1, <1>2 DEF Lists
<1>5. /\ walk'[c].pc = "visit" /\ walk'[c].id = walk[c].id
      /\ walk'[c].ent = next[at] /\ due'[c] = due[c]
      /\ \A d \in Corenums \ {c} : walk'[d] = walk[d] /\ due'[d] = due[d]
  BY <1>2 DEF RegistryTypeOK
<1>6. S \subseteq Entries
  BY DEF Holding
<1>7. \A e \in S : Ahead(c, rank[e], rank)' <=> next[at] # Null /\ rank[e] <= rank[next[at]]
  BY <1>2, <1>5 DEF Ahead
<1>8. /\ next[at] \in S \cup {Null}
      /\ \A e \in S : rank[e] < rank[at] <=> next[at] # Null /\ rank[e] <= rank[next[at]]
  <2>1. Null \notin S /\ \A e \in S : rank[e] \in Nat BY <1>4 DEF Ranked
  <2>2. CASE rank[at] = 0
    <3>1. next[at] = Null BY <1>3, <1>4, <2>2 DEF Ranked
    <3> QED BY <2>1, <2>2, <3>1
  <2>3. CASE rank[at] > 0
    <3>1. next[at] \in S /\ rank[next[at]] = rank[at] - 1 BY <1>3, <1>4, <2>3 DEF Ranked
    <3>2. next[at] # Null BY <2>1, <3>1
    <3>3. rank[at] \in Nat BY <1>3, <2>1
    <3> HIDE DEF S, at
    <3> QED BY <2>1, <3>1, <3>2, <3>3
  <2> QED BY <1>3, <2>1, <2>2, <2>3
<1>9. Askable \subseteq Corenums =>
        due'[c] = {e \in S : asked[e] = c /\ Ahead(c, rank[e], rank)'}
  <2>1. \A e \in S : Ahead(c, rank[e], rank)' <=> rank[e] < rank[at] BY <1>7, <1>8
  <2>2. due'[c] = due[c] BY <1>5
  <2> HIDE DEF S, at, Ahead
  <2> QED BY <1>3, <2>1, <2>2
<1>10. S = Holding(holder, Owner(walk'[c].id)) BY <1>5
<1>11. /\ Lists(holder, rank) /\ Walks(holder, rank)
       /\ UNCHANGED <<hdlrs, free, next, adding, asked>>
       /\ \A d \in Corenums \ {c} : walk'[d] = walk[d] /\ due'[d] = due[d]
  BY <1>1, <1>2, <1>5
<1>12. walk'[c].ent \in Holding(holder, Owner(walk'[c].id)) \cup {Null}
  BY <1>5, <1>8, <1>10
<1>13. Askable \subseteq Corenums =>
         due'[c] = {e \in Holding(holder, Owner(walk'[c].id)) :
                      asked[e] = c /\ Ahead(c, rank[e], rank)'}
  <2> HIDE DEF S, Ahead
  <2> QED BY <1>9, <1>10
<1> HIDE DEF Ahead, S, at
<1> QED BY <1>11, <1>12, <1>13, WalkShape

LEMMA EndWalkShape ==
  ASSUME RegistryTypeOK, Control, Shape, NEW c \in Corenums, EndWalk(c)
  PROVE  Shape'
<1>1. PICK holder \in [Entries -> Holders], rank \in [Entries -> Nat] :
        Lists(holder, rank) /\ Walks(holder, rank)
  BY DEF Shape
<1>2. /\ UNCHANGED <<hdlrs, free, next, adding, asked>> /\ walk'[c].pc = "none"
      /\ \A d \in Corenums \ {c} : walk'[d] = walk[d] /\ due'[d] = due[d]
  BY DEF EndWalk, RegistryTypeOK, NotWalking
<1> QED BY <1>1, <1>2, WalkShape

\* EndStart changes no list and no walk.
LEMMA QuietShape ==
  ASSUME Shape, UNCHANGED <<hdlrs, free, next, adding, walk, asked, due>>
  PROVE  Shape'
BY DEF Shape, Lists, BeingAdded, Walks, Ahead

-----------------------------------------------------------------------------
(* The invariant, and what follows from it *)

LEMMA RegistryInvStep == FirstOnly /\ RegistryInv /\ [RegistryNext]_registryVars => RegistryInv'
<1> SUFFICES ASSUME FirstOnly, RegistryTypeOK, Control, Shape, [RegistryNext]_registryVars
             PROVE  Shape'
  BY RegistryTypeStep, ControlStep DEF RegistryInv
<1>1. ASSUME NEW c \in Corenums, NEW i \in Ids, NEW h \in Handlers, NEW k \in Askable,
             Alloc(c, i, h, k)
      PROVE  Shape'
  BY <1>1, AllocShape
<1>2. ASSUME NEW c \in Corenums, NEW i \in Ids, NEW h \in Handlers, NEW k \in Corenums,
             Remove(c, i, h, k)
      PROVE  Shape'
  BY <1>2, RemoveShape
<1>3. ASSUME NEW c \in Corenums, Add(c)
      PROVE  Shape'
  BY <1>3, LinkShape, PublishShape DEF Add
<1>4. ASSUME NEW c \in Corenums, EndStart(c)
      PROVE  Shape'
  BY <1>4, QuietShape DEF EndStart
<1>5. ASSUME NEW c \in Corenums, NEW i \in Ids, Dispatch(c, i)
      PROVE  Shape'
  BY <1>5, DispatchShape
<1>6. ASSUME NEW c \in Corenums, Walk(c)
      PROVE  Shape'
  BY <1>6, VisitShape, ReturnShape, AdvanceShape, EndWalkShape DEF Walk
<1>7. CASE UNCHANGED registryVars
  BY <1>7, QuietShape DEF registryVars
<1> QED BY <1>1, <1>2, <1>3, <1>4, <1>5, <1>6, <1>7 DEF RegistryNext

\* What the invariant rests on: with removals of the newest handler only, in every
\* reachable state.
THEOREM RegistryInvariant ==
  ASSUME FirstOnly
  PROVE  RegistrySpec => []RegistryInv
<1>1. RegistryInit => RegistryInv BY RegistryTypeInit, ShapeInit DEF RegistryInv
<1>2. RegistryInv /\ [RegistryNext]_registryVars => RegistryInv' BY RegistryInvStep
<1> QED BY <1>1, <1>2, PTL DEF RegistrySpec

\* However many entries the pool has: the lists of the messages and the free list
\* of cmt_heap.c end and share out the pool, with what the registering core has in
\* its hand (cmt_msg_hdlr_add and message_loop take no lock on the lists).
THEOREM RegistryStaysIntact ==
  ASSUME FirstOnly
  PROVE  RegistrySpec => []RegistryIntact
<1>1. RegistryInv => RegistryIntact
  <2> SUFFICES ASSUME RegistryInv PROVE RegistryIntact
    OBVIOUS
  <2>1. PICK holder \in [Entries -> Holders], rank \in [Entries -> Nat] : Lists(holder, rank)
    BY DEF RegistryInv, Shape
  <2> DEFINE holders == {<<"id", i>> : i \in Ids} \cup {<<"core", c>> : c \in Corenums}
                        \cup {<<"free", 0>>}
             Held(x) == CASE x[1] = "id" -> Registered(x[2])
                          [] x[1] = "core" -> BeingAdded(x[2])
                          [] OTHER -> Chain(free)
  <2>2. holders = Holders BY DEF Holders, Owner, Hand, Pool
  <2>3. \A x \in holders : Held(x) = Holding(holder, x)
    <3>1. \A i \in Ids : Held(Owner(i)) = Holding(holder, Owner(i))
      <4> TAKE i \in Ids
      <4>1. Held(Owner(i)) = Registered(i) BY DEF Owner
      <4> QED BY <2>1, <4>1, ListsHold
    <3>2. \A c \in Corenums : Held(Hand(c)) = Holding(holder, Hand(c))
      <4> TAKE c \in Corenums
      <4>1. Held(Hand(c)) = BeingAdded(c) BY DEF Hand
      <4> QED BY <2>1, <4>1 DEF Lists
    <3>3. Held(Pool) = Holding(holder, Pool)
      <4>1. Held(Pool) = Chain(free) BY DEF Pool
      <4> QED BY <2>1, <4>1, ListsHold
    <3> HIDE DEF Held, holders
    <3> QED BY <2>2, <3>1, <3>2, <3>3 DEF Holders
  <2>4. \A e \in Entries : \E x \in holders :
          e \in Held(x) /\ \A y \in holders \ {x} : e \notin Held(y)
    <3> HIDE DEF Held, holders
    <3> TAKE e \in Entries
    <3>1. holder[e] \in holders BY <2>2
    <3>2. \A y \in holders : e \in Held(y) <=> y = holder[e] BY <2>3 DEF Holding
    <3> QED BY <3>1, <3>2
  <2>5. (\A i \in Ids : Ends(hdlrs[i])) /\ Ends(free) BY <2>1, ListsHold
  <2> QED BY <2>4, <2>5 DEF RegistryIntact
<1>2. RegistrySpec => []RegistryInv BY RegistryInvariant
<1> QED BY <1>1, <1>2, PTL

\* When every handler is registered for one core (the callers in the firmware all
\* do so), each dispatch calls each handler of its message and core once and no
\* other, whatever the other core registers meanwhile.
THEOREM EachHandlerOnce ==
  ASSUME FirstOnly, Askable \subseteq Corenums
  PROVE  RegistrySpec => []HandlersCalledOnce
<1>1. RegistryInv => HandlersCalledOnce
  <2> SUFFICES ASSUME RegistryInv, NEW c \in Corenums, walk[c].pc = "visit"
               PROVE  /\ walk[c].ent = Null => due[c] = {}
                      /\ walk[c].ent # Null /\ Serves(c, walk[c].ent) => walk[c].ent \in due[c]
    BY DEF HandlersCalledOnce
  <2>1. PICK holder \in [Entries -> Holders], rank \in [Entries -> Nat] : Walks(holder, rank)
    BY DEF RegistryInv, Shape
  <2>2. /\ walk[c].ent \in Holding(holder, Owner(walk[c].id)) \cup {Null}
        /\ due[c] = {e \in Holding(holder, Owner(walk[c].id)) :
                       asked[e] = c /\ Ahead(c, rank[e], rank)}
    BY <2>1 DEF Walks
  <2>3. walk[c].ent = Null => due[c] = {}
    BY <2>2 DEF Ahead
  <2>4. walk[c].ent # Null /\ Serves(c, walk[c].ent) => walk[c].ent \in due[c]
    <3> SUFFICES ASSUME walk[c].ent # Null, Serves(c, walk[c].ent) PROVE walk[c].ent \in due[c]
      OBVIOUS
    <3>1. walk[c].ent \in Entries /\ rank[walk[c].ent] \in Nat BY <2>2 DEF Holding
    <3>2. Ahead(c, rank[walk[c].ent], rank) BY <3>1 DEF Ahead
    <3>3. asked[walk[c].ent] = c
      BY <3>1 DEF RegistryInv, Control, StoredCore, Serves, Corenums, Both
    <3> QED BY <2>2, <3>2, <3>3
  <2> QED BY <2>3, <2>4
<1>2. RegistrySpec => []RegistryInv BY RegistryInvariant
<1> QED BY <1>1, <1>2, PTL
=============================================================================
