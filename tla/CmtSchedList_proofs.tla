------------------------ MODULE CmtSchedList_proofs ------------------------
(***************************************************************************)
(* Proofs about CmtSchedList: the scheduled messages as cmt.c links them in*)
(* memory.  The types hold whoever calls.  With callers on core 0 alone,   *)
(* where the interrupt runs, the list and the pool stay whole whatever the *)
(* statements interleave with, and the linked list keeps the promise of    *)
(* CmtDeadline.                                                            *)
(***************************************************************************)
EXTENDS CmtSchedList, Chains_proofs

-----------------------------------------------------------------------------
(* Types, whichever cores schedule messages *)

LEMMA PoolFinite == IsFiniteSet(Entries) /\ Cardinality(Entries) \in Nat
<1>1. IsFiniteSet(Entries)
  BY ListAssumption, SeqOnce
<1> QED BY <1>1, FS_CardinalityType

Labels == {"idle", "lock", "alloc", "load", "compare", "charge", "pass", "link",
           "hook", "give", "unhook", "return", "unlock", "panic"}
Locals == [op : {"none", "schedule", "cancel"}, target : Targets \cup {NoMessage},
           ms : Nat, cell : Entries \cup {HeadCell}, entry : Pointers, new : Pointers,
           time : Int]

\* Where an operation is tells which it is, and which of its locals it has set.
Consistent(c) ==
  /\ pc[c] \in {"alloc", "charge", "pass", "link", "hook"} => loc[c].op = "schedule"
  /\ pc[c] \in {"give", "unhook", "return"} => loc[c].op = "cancel"
  /\ pc[c] \notin {"idle", "unlock", "panic"} =>
       loc[c].op \in {"schedule", "cancel"} /\ loc[c].target \in Targets
  /\ pc[c] \notin {"idle", "unlock", "panic"} /\ loc[c].op = "schedule" => loc[c].ms \in Delays
  /\ pc[c] \in {"load", "compare", "charge", "pass", "link", "hook"} /\ loc[c].op = "schedule"
       => loc[c].new \in Entries
  /\ pc[c] \in {"compare", "charge", "pass", "give", "unhook", "return"}
       => loc[c].entry \in Entries

TInv ==
  /\ TypeOK
  /\ left \in [Entries -> Int]
  /\ pc \in [Callers -> Labels]
  /\ loc \in [Callers -> Locals]
  /\ \A c \in Callers : Consistent(c)
  /\ ipc = "decrement" => nxt \in Entries

LEMMA CallerIsCore == \A c \in Callers : c \in {0, 1} /\ c # NoCore
BY ListAssumption DEF NoCore

LEMMA TInvInit == Init => TInv
<1> SUFFICES ASSUME Init PROVE TInv
  OBVIOUS
<1>1. /\ FirstFree \in Seq(Entries) /\ Len(FirstFree) \in Nat
      /\ DOMAIN FirstFree = 1..Len(FirstFree)
      /\ {FirstFree[i] : i \in DOMAIN FirstFree} = Entries
      /\ Entries # {}
  BY ListAssumption
<1>2. \A i \in 1..Len(FirstFree) : FirstFree[i] \in Entries
  BY <1>1
<1>3. 1 \in 1..Len(FirstFree)
  BY <1>1
<1>4. free \in Pointers
  BY <1>2, <1>3 DEF Init, Pointers
<1>5. next \in [Entries -> Pointers]
  <2> DEFINE at(e) == CHOOSE j \in DOMAIN FirstFree : FirstFree[j] = e
             link(e) == IF at(e) < Len(FirstFree) THEN FirstFree[at(e) + 1] ELSE Null
  <2>1. \A e \in Entries : at(e) \in 1..Len(FirstFree)
    <3> TAKE e \in Entries
    <3>1. \E j \in DOMAIN FirstFree : FirstFree[j] = e BY <1>1
    <3> QED BY <1>1, <3>1
  <2>2. next = [e \in Entries |-> link(e)]
    BY DEF Init
  <2> HIDE DEF at
  <2>3. \A e \in Entries : at(e) < Len(FirstFree) => at(e) + 1 \in 1..Len(FirstFree)
    <3> SUFFICES ASSUME NEW m \in 1..Len(FirstFree), m < Len(FirstFree)
                 PROVE  m + 1 \in 1..Len(FirstFree)
      BY <2>1
    <3>1. Len(FirstFree) \in Nat BY <1>1
    <3> QED BY <3>1
  <2>4. \A e \in Entries : link(e) \in Pointers
    BY <1>2, <2>3 DEF Pointers
  <2> HIDE DEF link
  <2> QED BY <2>2, <2>4
<1>6. \A c \in Callers : c # NoCore
  BY CallerIsCore
<1>7. NoLocals \in Locals
  BY DEF NoLocals, Locals, Pointers
<1> HIDE DEF NoLocals
<1>8. TypeOK
  BY <1>4, <1>5, <1>6 DEF Init, TypeOK, Pointers
<1>9. /\ left \in [Entries -> Int] /\ pc \in [Callers -> Labels]
      /\ loc \in [Callers -> Locals] /\ ipc = "idle"
      /\ \A c \in Callers : Consistent(c)
  BY <1>7 DEF Init, Labels, Consistent
<1> QED BY <1>8, <1>9 DEF TInv

\* A step of the operation of core c, which keeps its types if it leaves its own
\* part consistent: the mutex is held between "lock" and "idle", and not by two.
LEMMA TaskTypes ==
  ASSUME TInv, NEW c \in Callers, NEW label \in Labels, NEW l \in Locals,
         pc' = [pc EXCEPT ![c] = label], loc' = [loc EXCEPT ![c] = l],
         head' \in Pointers, free' \in Pointers, next' \in [Entries -> Pointers],
         remaining' \in [Entries -> Int], left' \in [Entries -> Int],
         data' \in [Entries -> Targets \cup {NoMessage}],
         UNCHANGED isr,
         sm_mutex' = IF label \in {"idle", "lock"}
                       THEN IF sm_mutex = c THEN NoCore ELSE sm_mutex
                       ELSE c,
         label \notin {"idle", "lock"} => sm_mutex \in {NoCore, c},
         /\ label \in {"alloc", "charge", "pass", "link", "hook"} => l.op = "schedule"
         /\ label \in {"give", "unhook", "return"} => l.op = "cancel"
         /\ label \notin {"idle", "unlock", "panic"} =>
              l.op \in {"schedule", "cancel"} /\ l.target \in Targets
         /\ label \notin {"idle", "unlock", "panic"} /\ l.op = "schedule" => l.ms \in Delays
         /\ label \in {"load", "compare", "charge", "pass", "link", "hook"} /\ l.op = "schedule"
              => l.new \in Entries
         /\ label \in {"compare", "charge", "pass", "give", "unhook", "return"}
              => l.entry \in Entries
  PROVE  TInv'
<1>1. /\ pc' \in [Callers -> Labels] /\ loc' \in [Callers -> Locals]
      /\ pc'[c] = label /\ loc'[c] = l
      /\ \A d \in Callers : d # c => pc'[d] = pc[d] /\ loc'[d] = loc[d]
  BY DEF TInv
<1>2. \A d \in Callers : Consistent(d)'
  <2> TAKE d \in Callers
  <2>1. CASE d = c
    <3> HIDE DEF Labels, Locals
    <3> QED BY <1>1, <2>1 DEF Consistent
  <2>2. CASE d # c BY <1>1, <2>2 DEF Consistent, TInv
  <2> QED BY <2>1, <2>2
<1>3. c # NoCore /\ sm_mutex \in Callers \cup {NoCore}
  BY CallerIsCore DEF TInv, TypeOK
<1>4. \A d \in Callers : pc'[d] \notin {"idle", "lock"} <=> sm_mutex' = d
  <2> TAKE d \in Callers
  <2>1. d # NoCore BY CallerIsCore
  <2>2. pc[d] \notin {"idle", "lock"} <=> sm_mutex = d BY DEF TInv, TypeOK
  <2>3. CASE d = c BY <1>1, <1>3, <2>1, <2>3
  <2>4. CASE d # c BY <1>1, <1>3, <2>1, <2>2, <2>4
  <2> QED BY <2>3, <2>4
<1>5. /\ sm_mutex' \in Callers \cup {NoCore}
      /\ ipc' = ipc /\ nxt' = nxt
  BY <1>3 DEF isr
<1>6. TypeOK'
  BY <1>1, <1>2, <1>4, <1>5 DEF TInv, TypeOK, Labels, Consistent
<1> QED BY <1>1, <1>2, <1>5, <1>6 DEF TInv

\* A step of the interrupt, which leaves the operations where they are.
LEMMA IsrTypes ==
  ASSUME TInv, UNCHANGED tasks,
         head' \in Pointers, free' \in Pointers, next' \in [Entries -> Pointers],
         remaining' \in [Entries -> Int], left' \in [Entries -> Int],
         UNCHANGED data, nxt' \in Pointers,
         ipc' \in {"idle", "decrement", "test", "next", "free", "advance", "panic"},
         ipc' = "decrement" => nxt' \in Entries
  PROVE  TInv'
BY DEF TInv, TypeOK, tasks, Consistent

\* The operations step by step.
LEMMA TaskStepTypes ==
  ASSUME TInv, NEW c \in Callers,
         \/ \E m \in Targets, ms \in Delays : Begin(c, "schedule", m, ms)
         \/ \E m \in Targets : Begin(c, "cancel", m, 0)
         \/ Lock(c) \/ Alloc(c) \/ Load(c) \/ CompareTime(c) \/ Charge(c)
         \/ Pass(c) \/ Link(c) \/ Hook(c)
         \/ CompareMessage(c) \/ Give(c) \/ Unhook(c) \/ Return(c)
         \/ Unlock(c)
  PROVE  TInv'
<1> DEFINE L == loc[c]
<1>1. /\ head \in Pointers /\ free \in Pointers /\ next \in [Entries -> Pointers]
      /\ remaining \in [Entries -> Int] /\ left \in [Entries -> Int]
      /\ data \in [Entries -> Targets \cup {NoMessage}]
      /\ L \in Locals /\ pc[c] \in Labels
      /\ loc = [loc EXCEPT ![c] = L]
      /\ sm_mutex \in Callers \cup {NoCore}
      /\ pc[c] \notin {"idle", "lock"} <=> sm_mutex = c
      /\ c # NoCore
  BY CallerIsCore DEF TInv, TypeOK
<1>2. Consistent(c) BY DEF TInv
<1>3. /\ L.op \in {"none", "schedule", "cancel"} /\ L.target \in Targets \cup {NoMessage}
      /\ L.ms \in Nat /\ L.cell \in Entries \cup {HeadCell} /\ L.entry \in Pointers
      /\ L.new \in Pointers /\ L.time \in Int
  BY <1>1 DEF Locals
<1>4. At(L.cell) \in Pointers
  BY <1>1, <1>3 DEF At
<1>5. ASSUME NEW l \in Locals, NEW label \in Labels \ {"idle", "lock"}, Locally(c, label, l),
             pc[c] \notin {"idle", "lock"},
             /\ label \in {"alloc", "charge", "pass", "link", "hook"} => l.op = "schedule"
             /\ label \in {"give", "unhook", "return"} => l.op = "cancel"
             /\ label \notin {"idle", "unlock", "panic"} =>
                  l.op \in {"schedule", "cancel"} /\ l.target \in Targets
             /\ label \notin {"idle", "unlock", "panic"} /\ l.op = "schedule" => l.ms \in Delays
             /\ label \in {"load", "compare", "charge", "pass", "link", "hook"} /\ l.op = "schedule"
                  => l.new \in Entries
             /\ label \in {"compare", "charge", "pass", "give", "unhook", "return"}
                  => l.entry \in Entries
      PROVE  TInv'
  BY <1>1, <1>5, TaskTypes DEF Locally, Goto
<1>6. ASSUME NEW m \in Targets, NEW ms \in Delays, Begin(c, "schedule", m, ms)
      PROVE  TInv'
  <2> DEFINE l == [NoLocals EXCEPT !.op = "schedule", !.target = m, !.ms = ms]
  <2>4. ms \in Nat BY ListAssumption
  <2>5. NoLocals \in Locals BY DEF NoLocals, Locals, Pointers
  <2>1. l \in Locals /\ l.op = "schedule" /\ l.target = m /\ l.ms = ms
    <3> HIDE DEF NoLocals
    <3> QED BY <2>4, <2>5 DEF Locals
  <2>2. Locally(c, "lock", l) /\ pc[c] = "idle" BY <1>6 DEF Begin
  <2> HIDE DEF l
  <2>3. "lock" \in Labels BY DEF Labels
  <2> QED BY <1>1, <2>1, <2>2, <2>3, TaskTypes DEF Locally, Goto
<1>7. ASSUME NEW m \in Targets, Begin(c, "cancel", m, 0)
      PROVE  TInv'
  <2> DEFINE l == [NoLocals EXCEPT !.op = "cancel", !.target = m, !.ms = 0]
  <2>5. NoLocals \in Locals BY DEF NoLocals, Locals, Pointers
  <2>1. l \in Locals /\ l.op = "cancel" /\ l.target = m
    <3> HIDE DEF NoLocals
    <3> QED BY <2>5 DEF Locals
  <2>2. Locally(c, "lock", l) /\ pc[c] = "idle" BY <1>7 DEF Begin
  <2> HIDE DEF l
  <2>3. "lock" \in Labels BY DEF Labels
  <2> QED BY <1>1, <2>1, <2>2, <2>3, TaskTypes DEF Locally, Goto
<1>8. CASE Lock(c)
  <2> DEFINE label == IF L.op = "schedule" THEN "alloc" ELSE "load"
  <2>1. /\ pc[c] = "lock" /\ sm_mutex = NoCore /\ sm_mutex' = c
        /\ pc' = [pc EXCEPT ![c] = label] /\ loc' = [loc EXCEPT ![c] = L]
        /\ UNCHANGED <<head, free, next, remaining, data, isr, left>>
    BY <1>1, <1>8 DEF Lock, Goto
  <2>2. label \in Labels \ {"idle", "lock"} BY DEF Labels
  <2> QED BY <1>1, <1>2, <2>1, <2>2, TaskTypes DEF Consistent
<1>9. CASE Alloc(c)
  <2>1. /\ pc[c] = "alloc" /\ sm_mutex' = sm_mutex /\ UNCHANGED <<head, isr>>
    BY <1>9 DEF Alloc
  <2>2. CASE free = Null
    <3>1. /\ pc' = [pc EXCEPT ![c] = "panic"] /\ loc' = [loc EXCEPT ![c] = L]
          /\ UNCHANGED <<free, next, remaining, data, left>>
      BY <1>1, <1>9, <2>2 DEF Alloc, Goto
    <3>2. "panic" \in Labels BY DEF Labels
    <3> QED BY <1>1, <2>1, <3>1, <3>2, TaskTypes
  <2>3. CASE free # Null
    <3> DEFINE l == [L EXCEPT !.new = free]
    <3>1. /\ free \in Entries /\ free' = next[free]
          /\ next' = [next EXCEPT ![free] = Null]
          /\ data' = [data EXCEPT ![free] = L.target]
          /\ remaining' = [remaining EXCEPT ![free] = L.ms]
          /\ left' = [left EXCEPT ![free] = L.ms]
          /\ loc' = [loc EXCEPT ![c].new = free]
          /\ pc' = [pc EXCEPT ![c] = "load"]
      BY <1>1, <1>9, <2>3 DEF Alloc, Goto, Pointers
    <3>2. loc' = [loc EXCEPT ![c] = l]
      BY <3>1
    <3>3. /\ l \in Locals /\ l.new = free /\ l.op = L.op /\ l.target = L.target
          /\ l.ms = L.ms /\ l.entry = L.entry
      BY <1>1, <3>1 DEF Locals, Pointers
    <3>4. "load" \in Labels BY DEF Labels
    <3>5. /\ free' \in Pointers /\ next' \in [Entries -> Pointers]
          /\ remaining' \in [Entries -> Int] /\ left' \in [Entries -> Int]
          /\ data' \in [Entries -> Targets \cup {NoMessage}]
      BY <1>1, <1>3, <3>1 DEF Pointers
    <3>6. L.op = "schedule" /\ L.target \in Targets /\ L.ms \in Delays
      BY <1>2, <2>1 DEF Consistent
    <3>7. pc' = [pc EXCEPT ![c] = "load"] BY <3>1
    <3>8. sm_mutex' = c /\ sm_mutex = c /\ head' \in Pointers /\ UNCHANGED isr
      BY <1>1, <2>1
    <3>9. free \in Entries BY <3>1
    <3> HIDE DEF l, L
    <3> QED BY <3>9, <3>2, <3>3, <3>4, <3>5, <3>6, <3>7, <3>8, TaskTypes
  <2> QED BY <2>2, <2>3
<1>10. CASE Load(c)
  <2> DEFINE e == At(L.cell)
             label == IF e # Null THEN "compare"
                      ELSE IF L.op = "schedule" THEN "link" ELSE "unlock"
             l == [L EXCEPT !.entry = e]
  <2>1. pc[c] = "load" /\ Locally(c, label, l) BY <1>10 DEF Load
  <2>2. label \in Labels \ {"idle", "lock"} BY DEF Labels
  <2>3. /\ l \in Locals /\ l.entry = e /\ l.op = L.op /\ l.target = L.target
        /\ l.ms = L.ms /\ l.new = L.new
    BY <1>1, <1>4 DEF Locals
  <2>4. e # Null => e \in Entries BY <1>4 DEF Pointers
  <2>5. /\ label = "compare" => e # Null
        /\ label = "link" => L.op = "schedule"
        /\ label \in {"compare", "link", "unlock"}
    OBVIOUS
  <2>6. /\ L.op \in {"schedule", "cancel"} /\ L.target \in Targets
        /\ L.op = "schedule" => L.ms \in Delays /\ L.new \in Entries
    BY <1>2, <2>1 DEF Consistent
  <2> HIDE DEF l, L, label, e
  <2> QED BY <1>5, <2>1, <2>2, <2>3, <2>4, <2>5, <2>6
<1>11. CASE CompareTime(c)
  <2> DEFINE t == remaining[L.entry]
             label == IF remaining[L.new] <= t THEN "charge" ELSE "pass"
             l == [L EXCEPT !.time = t]
  <2>1. pc[c] = "compare" /\ L.op = "schedule" /\ Locally(c, label, l)
    BY <1>11 DEF CompareTime
  <2>2. label \in Labels \ {"idle", "lock"} /\ label \in {"charge", "pass"} BY DEF Labels
  <2>3. /\ L.entry \in Entries /\ L.target \in Targets /\ L.ms \in Delays /\ L.new \in Entries
    BY <1>2, <2>1 DEF Consistent
  <2>4. /\ l \in Locals /\ l.entry = L.entry /\ l.op = L.op /\ l.target = L.target
        /\ l.ms = L.ms /\ l.new = L.new
    BY <1>1, <2>3 DEF Locals
  <2> HIDE DEF l, L, label
  <2> QED BY <1>5, <2>1, <2>2, <2>3, <2>4
<1>12. CASE Charge(c)
  <2>1. /\ pc[c] = "charge" /\ pc' = [pc EXCEPT ![c] = "link"] /\ loc' = [loc EXCEPT ![c] = L]
        /\ remaining' = [remaining EXCEPT ![L.entry] = L.time - remaining[L.new]]
        /\ UNCHANGED <<head, free, next, data, sm_mutex, isr, left>>
    BY <1>1, <1>12 DEF Charge, ChangeRemaining, Goto
  <2>2. /\ L.op = "schedule" /\ L.target \in Targets /\ L.ms \in Delays
        /\ L.new \in Entries /\ L.entry \in Entries
    BY <1>2, <2>1 DEF Consistent
  <2>3. remaining' \in [Entries -> Int] BY <1>1, <1>3, <2>1, <2>2
  <2>4. "link" \in Labels BY DEF Labels
  <2> HIDE DEF L
  <2> QED BY <1>1, <2>1, <2>2, <2>3, <2>4, TaskTypes
<1>13. CASE Pass(c)
  <2> DEFINE l == [L EXCEPT !.cell = L.entry]
  <2>1. /\ pc[c] = "pass" /\ pc' = [pc EXCEPT ![c] = "load"]
        /\ loc' = [loc EXCEPT ![c].cell = loc[c].entry]
        /\ remaining' = [remaining EXCEPT ![L.new] = remaining[L.new] - L.time]
        /\ UNCHANGED <<head, free, next, data, sm_mutex, isr, left>>
    BY <1>13 DEF Pass, ChangeRemaining, Goto
  <2>2. /\ L.op = "schedule" /\ L.target \in Targets /\ L.ms \in Delays
        /\ L.new \in Entries /\ L.entry \in Entries
    BY <1>2, <2>1 DEF Consistent
  <2>3. remaining' \in [Entries -> Int] BY <1>1, <1>3, <2>1, <2>2
  <2>4. "load" \in Labels BY DEF Labels
  <2>5. loc' = [loc EXCEPT ![c] = l] BY <2>1
  <2>6. /\ l \in Locals /\ l.entry = L.entry /\ l.op = L.op /\ l.target = L.target
        /\ l.ms = L.ms /\ l.new = L.new
    BY <1>1, <2>2 DEF Locals
  <2>7. /\ sm_mutex' = c /\ sm_mutex = c /\ UNCHANGED isr
        /\ head' \in Pointers /\ free' \in Pointers /\ next' \in [Entries -> Pointers]
        /\ left' \in [Entries -> Int] /\ data' \in [Entries -> Targets \cup {NoMessage}]
    BY <1>1, <2>1
  <2>8. pc' = [pc EXCEPT ![c] = "load"] BY <2>1
  <2> HIDE DEF l, L
  <2> QED BY <2>2, <2>3, <2>4, <2>5, <2>6, <2>7, <2>8, TaskTypes
<1>14. CASE Link(c)
  <2>1. /\ pc[c] = "link" /\ pc' = [pc EXCEPT ![c] = "hook"] /\ loc' = [loc EXCEPT ![c] = L]
        /\ next' = [next EXCEPT ![L.new] = At(L.cell)]
        /\ UNCHANGED <<head, free, remaining, data, sm_mutex, isr, left>>
    BY <1>1, <1>14 DEF Link, Goto
  <2>2. /\ L.op = "schedule" /\ L.target \in Targets /\ L.ms \in Delays /\ L.new \in Entries
    BY <1>2, <2>1 DEF Consistent
  <2>3. next' \in [Entries -> Pointers] BY <1>1, <1>4, <2>1, <2>2
  <2>4. "hook" \in Labels BY DEF Labels
  <2> HIDE DEF L
  <2> QED BY <1>1, <2>1, <2>2, <2>3, <2>4, TaskTypes
<1>15. CASE Hook(c)
  <2>1. /\ pc[c] = "hook" /\ pc' = [pc EXCEPT ![c] = "unlock"] /\ loc' = [loc EXCEPT ![c] = L]
        /\ Store(L.cell, L.new)
        /\ UNCHANGED <<free, remaining, data, sm_mutex, isr, left>>
    BY <1>1, <1>15 DEF Hook, Goto
  <2>2. head' \in Pointers /\ next' \in [Entries -> Pointers]
    BY <1>1, <1>3, <2>1 DEF Store
  <2>3. "unlock" \in Labels BY DEF Labels
  <2> HIDE DEF L
  <2> QED BY <1>1, <2>1, <2>2, <2>3, TaskTypes
<1>16. CASE CompareMessage(c)
  <2>1. /\ pc[c] = "compare" /\ L.op = "cancel"
        /\ \/ Locally(c, "give", [L EXCEPT !.time = remaining[L.entry]])
           \/ Locally(c, "load", [L EXCEPT !.cell = L.entry])
    BY <1>16 DEF CompareMessage
  <2>2. L.entry \in Entries /\ L.target \in Targets
    BY <1>2, <2>1 DEF Consistent
  <2>3. /\ "give" \in Labels \ {"idle", "lock"} /\ "load" \in Labels \ {"idle", "lock"}
    BY DEF Labels
  <2>4. ASSUME NEW l, l = [L EXCEPT !.time = remaining[L.entry]]
        PROVE  /\ l \in Locals /\ l.entry = L.entry /\ l.op = L.op /\ l.target = L.target
    BY <1>1, <2>2, <2>4 DEF Locals
  <2>5. ASSUME NEW l, l = [L EXCEPT !.cell = L.entry]
        PROVE  /\ l \in Locals /\ l.entry = L.entry /\ l.op = L.op /\ l.target = L.target
    BY <1>1, <2>2, <2>5 DEF Locals
  <2>6. CASE Locally(c, "give", [L EXCEPT !.time = remaining[L.entry]])
    <3>1. PICK l : l = [L EXCEPT !.time = remaining[L.entry]] OBVIOUS
    <3> HIDE DEF L
    <3> QED BY <1>5, <2>1, <2>2, <2>3, <2>4, <2>6, <3>1
  <2>7. CASE Locally(c, "load", [L EXCEPT !.cell = L.entry])
    <3>1. PICK l : l = [L EXCEPT !.cell = L.entry] OBVIOUS
    <3> HIDE DEF L
    <3> QED BY <1>5, <2>1, <2>2, <2>3, <2>5, <2>7, <3>1
  <2> QED BY <2>1, <2>6, <2>7
<1>17. CASE Give(c)
  <2> DEFINE n == next[L.entry]
  <2>1. /\ pc[c] = "give"
        /\ \/ n = Null /\ Locally(c, "unhook", L)
           \/ /\ n # Null /\ ChangeRemaining(c, n, Inherited(c, n), "unhook")
              /\ UNCHANGED loc
    BY <1>17 DEF Give
  <2>2. L.entry \in Entries /\ L.target \in Targets /\ L.op = "cancel"
    BY <1>2, <2>1 DEF Consistent
  <2>3. "unhook" \in Labels \ {"idle", "lock"}
    BY DEF Labels
  <2>4. CASE n = Null /\ Locally(c, "unhook", L)
    <3> HIDE DEF L
    <3> QED BY <1>1, <1>5, <2>1, <2>2, <2>3, <2>4
  <2>5. CASE n # Null /\ ChangeRemaining(c, n, Inherited(c, n), "unhook") /\ UNCHANGED loc
    <3>1. n \in Entries BY <1>1, <2>2, <2>5 DEF Pointers
    <3>2. remaining' = [remaining EXCEPT ![n] = remaining[n] + L.time]
      BY <2>5 DEF ChangeRemaining, Inherited
    <3>3. remaining' \in [Entries -> Int] BY <1>1, <1>3, <3>1, <3>2
    <3>4. /\ pc' = [pc EXCEPT ![c] = "unhook"] /\ loc' = [loc EXCEPT ![c] = L]
          /\ UNCHANGED <<head, free, next, data, sm_mutex, isr, left>>
      BY <1>1, <2>5 DEF ChangeRemaining, Goto
    <3> HIDE DEF L
    <3> QED BY <1>1, <2>1, <2>2, <2>3, <3>3, <3>4, TaskTypes
  <2> QED BY <2>1, <2>4, <2>5
<1>18. CASE Unhook(c)
  <2>1. /\ pc[c] = "unhook" /\ pc' = [pc EXCEPT ![c] = "return"] /\ loc' = [loc EXCEPT ![c] = L]
        /\ Store(L.cell, next[L.entry])
        /\ UNCHANGED <<free, remaining, data, sm_mutex, isr, left>>
    BY <1>1, <1>18 DEF Unhook, Goto
  <2>2. L.op = "cancel" /\ L.target \in Targets /\ L.entry \in Entries
    BY <1>2, <2>1 DEF Consistent
  <2>3. head' \in Pointers /\ next' \in [Entries -> Pointers]
    BY <1>1, <1>3, <2>1, <2>2 DEF Store
  <2>4. "return" \in Labels BY DEF Labels
  <2> HIDE DEF L
  <2> QED BY <1>1, <2>1, <2>2, <2>3, <2>4, TaskTypes
<1>19. CASE Return(c)
  <2>1. /\ pc[c] = "return" /\ pc' = [pc EXCEPT ![c] = "unlock"] /\ loc' = [loc EXCEPT ![c] = L]
        /\ next' = [next EXCEPT ![L.entry] = free] /\ free' = L.entry
        /\ UNCHANGED <<head, remaining, data, sm_mutex, isr, left>>
    BY <1>1, <1>19 DEF Return, Goto, FreeListed
  <2>2. L.entry \in Entries
    BY <1>2, <2>1 DEF Consistent
  <2>3. free' \in Pointers /\ next' \in [Entries -> Pointers]
    BY <1>1, <1>3, <2>1, <2>2
  <2>4. "unlock" \in Labels BY DEF Labels
  <2> HIDE DEF L
  <2> QED BY <1>1, <2>1, <2>2, <2>3, <2>4, TaskTypes
<1>20. CASE Unlock(c)
  <2>1. /\ pc[c] = "unlock" /\ sm_mutex' = NoCore /\ pc' = [pc EXCEPT ![c] = "idle"]
        /\ loc' = [loc EXCEPT ![c] = NoLocals]
        /\ UNCHANGED <<head, free, next, remaining, data, isr, left>>
    BY <1>20 DEF Unlock, Goto, Released
  <2>2. NoLocals \in Locals BY DEF NoLocals, Locals, Pointers
  <2>3. "idle" \in Labels BY DEF Labels
  <2> HIDE DEF L, NoLocals
  <2> QED BY <1>1, <2>1, <2>2, <2>3, TaskTypes
<1> QED BY <1>6, <1>7, <1>8, <1>9, <1>10, <1>11, <1>12, <1>13, <1>14, <1>15, <1>16,
           <1>17, <1>18, <1>19, <1>20

\* The interrupt, statement by statement.
LEMMA IsrStepTypes ==
  ASSUME TInv, TickHead \/ TickDecrement \/ TickPost \/ TickDone
               \/ TickNext \/ TickFree \/ TickAdvance
  PROVE  TInv'
<1>1. /\ head \in Pointers /\ free \in Pointers /\ next \in [Entries -> Pointers]
      /\ remaining \in [Entries -> Int] /\ left \in [Entries -> Int]
      /\ nxt \in Pointers
      /\ ipc = "decrement" => nxt \in Entries
      /\ head # Null => head \in Entries
      /\ ipc \in {"idle", "decrement", "test", "next", "free", "advance", "panic"}
  BY DEF TInv, TypeOK, Pointers
<1>2. Passed => left' \in [Entries -> Int]
  <2> SUFFICES ASSUME NEW w, left' = [e \in Entries |-> IF e \in w THEN left[e] - 1 ELSE 0]
               PROVE  left' \in [Entries -> Int]
    BY DEF Passed
  <2> QED BY <1>1
<1>3. CASE TickHead
  BY <1>1, <1>2, <1>3, IsrTypes DEF TickHead, isr
<1>4. CASE TickDecrement
  <2>1. remaining' \in [Entries -> Int]
    <3>1. nxt \in Entries /\ remaining' = [remaining EXCEPT ![nxt] = @ - 1]
      BY <1>1, <1>4 DEF TickDecrement
    <3> QED BY <1>1, <3>1
  <2>2. /\ ipc' \in {"test", "idle"} /\ nxt' \in Pointers /\ UNCHANGED tasks
        /\ left' \in [Entries -> Int] /\ UNCHANGED <<head, free, next, data>>
    BY <1>2, <1>4 DEF TickDecrement, Pointers
  <2> QED BY <1>1, <2>1, <2>2, IsrTypes
<1>5. CASE TickPost
  BY <1>1, <1>5, IsrTypes DEF TickPost
<1>6. CASE TickDone
  BY <1>1, <1>6, IsrTypes DEF TickDone
<1>7. CASE TickNext
  <2>1. nxt' \in Pointers
    BY <1>1, <1>7 DEF TickNext
  <2> QED BY <1>1, <1>7, <2>1, IsrTypes DEF TickNext
<1>8. CASE TickFree
  <2>1. free' \in Pointers /\ next' \in [Entries -> Pointers] /\ ipc' \in {"panic", "advance"}
    BY <1>1, <1>8 DEF TickFree, FreeListed
  <2> QED BY <1>1, <1>8, <2>1, IsrTypes DEF TickFree
<1>9. CASE TickAdvance
  <2>1. nxt' \in Pointers BY <1>9 DEF TickAdvance, Pointers
  <2> QED BY <1>1, <1>9, <2>1, IsrTypes DEF TickAdvance, Advanced
<1> QED BY <1>3, <1>4, <1>5, <1>6, <1>7, <1>8, <1>9

LEMMA TInvStep == TInv /\ [Next]_vars => TInv'
<1> SUFFICES ASSUME TInv, [Next]_vars PROVE TInv'
  OBVIOUS
<1>1. CASE UNCHANGED vars
  BY <1>1 DEF vars, tasks, isr, TInv, TypeOK, Consistent
<1> QED BY <1>1, TaskStepTypes, IsrStepTypes DEF Next

\* Whichever cores schedule and cancel, and however their statements interleave with
\* the interrupt: every pointer is an entry or NULL, and an operation is inside the
\* list exactly while its core holds sm_mutex.
THEOREM ListTyped == Spec => []TypeOK
<1>1. Init => TInv BY TInvInit
<1>2. TInv /\ [Next]_vars => TInv' BY TInvStep
<1>3. TInv => TypeOK BY DEF TInv
<1> QED BY <1>1, <1>2, <1>3, PTL DEF Spec

-----------------------------------------------------------------------------
(* The invariant, with callers on core 0 alone *)

\* Where the list hangs from: between the free and the store of the new head, the
\* head is an entry of the pool and the list begins behind it.
First == IF ipc = "advance" THEN nxt ELSE head

\* The cell an operation has come to holds this pointer.
Here == At(loc[0].cell)

\* The entry that is neither in the list nor in the pool.
Hand ==
  IF loc[0].op = "schedule" /\ pc[0] \in {"load", "compare", "charge", "pass", "link", "hook"}
    THEN {loc[0].new}
    ELSE IF pc[0] = "return" THEN {loc[0].entry} ELSE {}

\* The list holds S and the pool F, in the order of rank, and the rest is in hand.
Lists(S, F, rank) ==
  /\ Ranked(next, Null, First, S, rank)
  /\ Ranked(next, Null, free, F, rank)
  /\ S \cup F \cup Hand = Entries
  /\ S \cap F = {} /\ S \cap Hand = {} /\ F \cap Hand = {}

\* From when the entry behind a cell counts its `remaining': from the time of the
\* entry the cell is in, or from now; while an entry is linked in or out, from the
\* time of the entry that is coming, or of the one in front of the one that goes.
Base(cell) == IF cell = HeadCell THEN 0 ELSE left[cell]
From(cell) ==
  IF pc[0] \in {"link", "hook"} /\ cell = loc[0].cell THEN left[loc[0].new]
  ELSE IF pc[0] = "unhook" /\ cell = loc[0].entry THEN Base(loc[0].cell)
  ELSE Base(cell)

\* The deltas add up to the true times, and the list is in their order.
Counted(S, rank) ==
  /\ \A e \in S : left[e] \in Nat /\ remaining[e] \in Nat /\ data[e] \in Targets
  /\ ipc \in {"idle", "decrement"} => \A e \in S : left[e] > 0
  /\ First # Null => left[First] = From(HeadCell) + remaining[First]
  /\ \A e \in S : next[e] # Null => left[next[e]] = From(e) + remaining[next[e]]
  /\ \A e, f \in S : rank[e] <= rank[f] => left[f] <= left[e]

\* The interrupt has the entry it posts in front of it, and knows what is behind.
Ticking ==
  /\ ipc # "idle" => pc[0] = "idle"
  /\ ipc # "panic"
  /\ ipc = "decrement" => nxt = head /\ head # Null
  /\ ipc \in {"next", "free"} => head # Null /\ left[head] = 0
  /\ ipc = "free" => nxt = next[head]
  /\ ipc = "advance" => head = free /\ head # Null

Searching == {"load", "compare", "charge", "pass", "link", "hook", "give", "unhook"}

\* An operation is at a cell of the list, and a new entry has the time left that
\* is asked for, its delta counting from that cell.
Working(S) ==
  /\ pc[0] \in {"lock", "alloc"} => loc[0].cell = HeadCell
  /\ pc[0] \in Searching => loc[0].cell \in S \cup {HeadCell}
  /\ pc[0] \in Searching \ {"load"} => loc[0].entry = Here
  /\ pc[0] = "hook" => next[loc[0].new] = loc[0].entry
  /\ pc[0] \in Searching /\ loc[0].op = "schedule" =>
       LET new == loc[0].new
       IN  /\ left[new] = loc[0].ms /\ data[new] = loc[0].target
           /\ remaining[new] \in Nat \ {0}
           /\ left[new] = Base(loc[0].cell) + remaining[new]
  /\ pc[0] \in {"charge", "pass", "give"} => loc[0].time = remaining[loc[0].entry]
  /\ pc[0] = "charge" => remaining[loc[0].new] <= loc[0].time
  /\ pc[0] = "pass" => remaining[loc[0].new] > loc[0].time

Whole(S, F, rank) ==
  /\ Lists(S, F, rank)
  /\ Counted(S, rank)
  /\ Ticking
  /\ Working(S)

IInv == TInv /\ \E S \in SUBSET Entries, F \in SUBSET Entries, rank \in [Entries -> Nat] :
                  Whole(S, F, rank)

LEMMA WholeInit ==
  ASSUME Callers = {0}, Init
  PROVE  IInv
<1>1. PICK rank \in [Entries -> Nat] : Ranked(next, Null, FirstFree[1], Entries, rank)
  <2>1. \A e \in Entries : next[e] = LET i == CHOOSE j \in DOMAIN FirstFree : FirstFree[j] = e
                                      IN  IF i < Len(FirstFree) THEN FirstFree[i + 1] ELSE Null
    BY DEF Init
  <2> QED BY <2>1, ListAssumption, SeqRanked
<1>2. pc[0] = "idle" /\ ipc = "idle" /\ head = Null /\ free = FirstFree[1]
  BY DEF Init
<1>3. Lists({}, Entries, rank)
  BY <1>1, <1>2 DEF Lists, Hand, First, Ranked
<1>4. Counted({}, rank)
  BY <1>2 DEF Counted, First
<1>5. Ticking /\ Working({})
  BY <1>2 DEF Ticking, Working, Searching
<1> QED BY <1>1, <1>3, <1>4, <1>5, TInvInit DEF IInv, Whole

-----------------------------------------------------------------------------
(* What follows in one state *)

\* Every pointer of the list is NULL or leads to an entry of the list that is nearer
\* to the end; the head is in front of all.
LEMMA ListLinks ==
  ASSUME NEW S \in SUBSET Entries, NEW F \in SUBSET Entries, NEW rank \in [Entries -> Nat],
         Lists(S, F, rank)
  PROVE  /\ First = Null => S = {}
         /\ First # Null => First \in S /\ \A e \in S : rank[e] <= rank[First]
         /\ \A e \in S : next[e] # Null => /\ next[e] \in S /\ rank[next[e]] = rank[e] - 1
                                           /\ rank[e] > 0 /\ next[e] # First
         /\ Null \notin S /\ Null \notin F
<1>1. /\ First = Null => S = {}
      /\ First # Null => First \in S /\ \A e \in S : rank[e] <= rank[First]
      /\ \A e \in S : rank[e] = 0 => next[e] = Null
      /\ \A e \in S : rank[e] > 0 => next[e] \in S /\ rank[next[e]] = rank[e] - 1
      /\ Null \notin S /\ Null \notin F
  BY DEF Lists, Ranked
<1>2. ASSUME NEW e \in S, next[e] # Null
      PROVE  /\ next[e] \in S /\ rank[next[e]] = rank[e] - 1
             /\ rank[e] > 0 /\ next[e] # First
  <2>1. rank[e] \in Nat OBVIOUS
  <2>2. rank[e] # 0 BY <1>1, <1>2
  <2>3. rank[e] > 0 BY <2>1, <2>2
  <2>4. next[e] \in S /\ rank[next[e]] = rank[e] - 1 BY <1>1, <2>3
  <2>5. First \in S /\ rank[e] <= rank[First] BY <1>1
  <2>6. rank[First] \in Nat BY <2>5
  <2> QED BY <2>1, <2>3, <2>4, <2>5, <2>6
<1> QED BY <1>1, <1>2

LEMMA ListSets ==
  ASSUME NEW S \in SUBSET Entries, NEW F \in SUBSET Entries, NEW rank \in [Entries -> Nat],
         Lists(S, F, rank)
  PROVE  /\ Chain(First) = S /\ Ends(First)
         /\ Chain(free) = F /\ Ends(free)
<1>1. IsFiniteSet(Entries) BY PoolFinite
<1>2. Ranked(next, Null, First, S, rank) /\ Ranked(next, Null, free, F, rank)
  BY DEF Lists
<1> QED BY <1>1, <1>2, RankedChain DEF Chain, Ends

\* An operation sees the entry behind its cell.
LEMMA HereIn ==
  ASSUME NEW S \in SUBSET Entries, NEW F \in SUBSET Entries, NEW rank \in [Entries -> Nat],
         Whole(S, F, rank), pc[0] \in Searching
  PROVE  /\ ipc = "idle" /\ First = head
         /\ loc[0].cell \in S => loc[0].cell # HeadCell /\ Here = next[loc[0].cell]
         /\ loc[0].cell = HeadCell => Here = head
         /\ Here \in S \cup {Null}
         /\ Here # Null => left[Here] = From(loc[0].cell) + remaining[Here]
<1>1. ipc = "idle" /\ First = head BY DEF Whole, Ticking, Searching, First
<1>2. loc[0].cell \in S => loc[0].cell # HeadCell
  BY ListAssumption
<1>3. loc[0].cell \in S \cup {HeadCell} BY DEF Whole, Working
<1>4. /\ loc[0].cell \in S => Here = next[loc[0].cell]
      /\ loc[0].cell = HeadCell => Here = head
  BY <1>2 DEF Here, At
<1>5. Lists(S, F, rank) BY DEF Whole
<1>6. Here \in S \cup {Null}
  <2>1. /\ First # Null => First \in S
        /\ \A e \in S : next[e] # Null => next[e] \in S
    BY <1>5, ListLinks
  <2> QED BY <1>1, <1>3, <1>4, <2>1
<1>7. Here # Null => left[Here] = From(loc[0].cell) + remaining[Here]
  BY <1>1, <1>3, <1>4 DEF Whole, Counted
<1> QED BY <1>1, <1>2, <1>4, <1>6, <1>7

-----------------------------------------------------------------------------
(* The statements of an operation that change none of the cells *)

LEMMA OneCaller ==
  ASSUME Callers = {0}, TInv
  PROVE  /\ pc \in [{0} -> Labels] /\ loc \in [{0} -> Locals] /\ Consistent(0)
         /\ head \in Pointers /\ free \in Pointers /\ next \in [Entries -> Pointers]
         /\ remaining \in [Entries -> Int] /\ left \in [Entries -> Int]
         /\ data \in [Entries -> Targets \cup {NoMessage}]
         /\ \A l, label : pc' = [pc EXCEPT ![0] = label] => pc'[0] = label
         /\ \A l : loc' = [loc EXCEPT ![0] = l] => loc'[0] = l
         /\ sm_mutex = 0 <=> pc[0] \notin {"idle", "lock"}
<1>1. /\ pc \in [{0} -> Labels] /\ loc \in [{0} -> Locals] /\ Consistent(0)
      /\ head \in Pointers /\ free \in Pointers /\ next \in [Entries -> Pointers]
      /\ remaining \in [Entries -> Int] /\ left \in [Entries -> Int]
      /\ data \in [Entries -> Targets \cup {NoMessage}]
      /\ sm_mutex = 0 <=> pc[0] \notin {"idle", "lock"}
  BY DEF TInv, TypeOK
<1> QED BY <1>1

\* It leaves the lists as they are, and the times.
LEMMA TaskFrame ==
  ASSUME NEW S \in SUBSET Entries, NEW F \in SUBSET Entries, NEW rank \in [Entries -> Nat],
         Whole(S, F, rank),
         UNCHANGED <<head, free, next, remaining, left, data, isr>>,
         Hand' = Hand,
         First # Null => From(HeadCell)' = From(HeadCell),
         \A e \in S : next[e] # Null => From(e)' = From(e),
         ipc # "idle" => pc'[0] = "idle",
         Working(S)'
  PROVE  Whole(S, F, rank)'
<1>1. Lists(S, F, rank) /\ Counted(S, rank) /\ Ticking BY DEF Whole
<1>2. ipc' = ipc /\ nxt' = nxt /\ First' = First BY DEF isr, First
<1>3. Lists(S, F, rank)' BY <1>1, <1>2 DEF Lists
<1>4. Counted(S, rank)' BY <1>1, <1>2 DEF Counted
<1>5. Ticking' BY <1>1, <1>2 DEF Ticking
<1> QED BY <1>3, <1>4, <1>5 DEF Whole

\* An operation that is not linking or unlinking is not in anyone's way.
LEMMA FromBase ==
  ASSUME pc[0] \notin {"link", "hook", "unhook"}
  PROVE  \A x : From(x) = Base(x)
BY DEF From

LEMMA BeginLockKeep ==
  ASSUME Callers = {0}, TInv,
         NEW S \in SUBSET Entries, NEW F \in SUBSET Entries, NEW rank \in [Entries -> Nat],
         Whole(S, F, rank),
         \/ \E op \in {"schedule", "cancel"} : \E m, ms : Begin(0, op, m, ms)
         \/ Lock(0) \/ (Alloc(0) /\ free = Null) \/ Unlock(0)
  PROVE  Whole(S, F, rank)'
<1>1. /\ UNCHANGED <<head, free, next, remaining, left, data, isr>>
      /\ pc[0] \in {"idle", "lock", "alloc", "unlock"}
      /\ \/ pc[0] = "idle" /\ pc'[0] = "lock" /\ loc'[0].cell = HeadCell /\ ipc = "idle"
         \/ pc[0] = "lock" /\ pc'[0] \in {"alloc", "load"} /\ loc' = loc
            /\ (pc'[0] = "load" => loc[0].op = "cancel")
         \/ pc[0] = "alloc" /\ pc'[0] = "panic"
         \/ pc[0] = "unlock" /\ pc'[0] = "idle"
  <2>1. CASE \E op \in {"schedule", "cancel"} : \E m, ms : Begin(0, op, m, ms)
    <3>1. PICK op, m, ms : Begin(0, op, m, ms) BY <2>1
    <3>2. loc' = [loc EXCEPT ![0] = [NoLocals EXCEPT !.op = op, !.target = m, !.ms = ms]]
          /\ pc' = [pc EXCEPT ![0] = "lock"]
          /\ UNCHANGED <<head, free, next, remaining, left, data, isr>>
          /\ pc[0] = "idle" /\ ipc = "idle"
      BY <3>1 DEF Begin, Locally, Goto
    <3>3. loc'[0] = [NoLocals EXCEPT !.op = op, !.target = m, !.ms = ms] /\ pc'[0] = "lock"
      BY <3>2, OneCaller
    <3>4. loc'[0].cell = HeadCell BY <3>3 DEF NoLocals
    <3> QED BY <3>2, <3>3, <3>4
  <2>2. CASE Lock(0)
    <3>1. Consistent(0) BY OneCaller
    <3>2. pc[0] = "lock" /\ loc' = loc
          /\ pc' = [pc EXCEPT ![0] = IF loc[0].op = "schedule" THEN "alloc" ELSE "load"]
          /\ UNCHANGED <<head, free, next, remaining, left, data, isr>>
      BY <2>2 DEF Lock, Goto
    <3>3. pc'[0] = IF loc[0].op = "schedule" THEN "alloc" ELSE "load" BY <3>2, OneCaller
    <3> QED BY <3>1, <3>2, <3>3 DEF Consistent
  <2>3. CASE Alloc(0) /\ free = Null
    BY <2>3, OneCaller DEF Alloc, Goto
  <2>4. CASE Unlock(0)
    BY <2>4, OneCaller DEF Unlock, Goto
  <2> QED BY <2>1, <2>2, <2>3, <2>4
<1>2. Hand = {} BY <1>1 DEF Hand
<1>3. Hand' = {} BY <1>1 DEF Hand
<1>4. pc[0] \notin {"link", "hook", "unhook"} /\ pc'[0] \notin {"link", "hook", "unhook"}
  BY <1>1
<1>5. \A x : From(x)' = From(x)
  BY <1>1, <1>4 DEF From, Base
<1>6. ipc # "idle" => pc'[0] = "idle"
  BY <1>1 DEF Whole, Ticking
<1>7. Working(S)'
  BY <1>1 DEF Whole, Working, Searching
<1> QED BY <1>1, <1>2, <1>3, <1>5, <1>6, <1>7, TaskFrame

\* The search: an operation looks at one entry after the other.
LEMMA SearchKeep ==
  ASSUME Callers = {0}, TInv, 0 \notin Delays,
         NEW S \in SUBSET Entries, NEW F \in SUBSET Entries, NEW rank \in [Entries -> Nat],
         Whole(S, F, rank),
         \/ Load(0) \/ CompareTime(0) \/ CompareMessage(0)
         \/ (Give(0) /\ next[loc[0].entry] = Null)
  PROVE  Whole(S, F, rank)'
<1> DEFINE L == loc[0]
<1>1. /\ pc \in [{0} -> Labels] /\ L \in Locals /\ Consistent(0)
      /\ remaining \in [Entries -> Int]
  BY OneCaller
<1>2. pc[0] \in Searching /\ L.op \in {"schedule", "cancel"}
  BY <1>1 DEF Load, CompareTime, CompareMessage, Give, Searching, Consistent
<1>3. /\ ipc = "idle" /\ First = head
      /\ L.cell \in S => L.cell # HeadCell /\ Here = next[L.cell]
      /\ L.cell = HeadCell => Here = head
      /\ Here \in S \cup {Null}
      /\ Here # Null => left[Here] = From(L.cell) + remaining[Here]
      /\ L.cell \in S \cup {HeadCell}
  BY <1>2, HereIn DEF Whole, Working
<1>4. Working(S) BY DEF Whole
<1>5. CASE Load(0)
  <2>1. /\ pc[0] = "load"
        /\ loc' = [loc EXCEPT ![0] = [L EXCEPT !.entry = Here]]
        /\ pc' = [pc EXCEPT ![0] = IF Here # Null THEN "compare"
                                   ELSE IF L.op = "schedule" THEN "link" ELSE "unlock"]
        /\ UNCHANGED <<head, free, next, remaining, left, data, isr>>
    BY <1>5 DEF Load, Locally, Goto, Here
  <2>2. /\ loc'[0] = [L EXCEPT !.entry = Here]
        /\ pc'[0] = IF Here # Null THEN "compare"
                    ELSE IF L.op = "schedule" THEN "link" ELSE "unlock"
    BY <2>1, OneCaller
  <2>3. /\ loc'[0].op = L.op /\ loc'[0].cell = L.cell /\ loc'[0].entry = Here
        /\ loc'[0].new = L.new /\ loc'[0].ms = L.ms /\ loc'[0].target = L.target
    BY <1>1, <2>2 DEF Locals
  <2>4. Here' = Here BY <2>1, <2>3 DEF Here, At
  <2>5. Hand' = Hand BY <1>2, <2>1, <2>2, <2>3 DEF Hand
  <2>6. First # Null => From(HeadCell)' = From(HeadCell)
    BY <1>3, <2>1, <2>2, <2>3 DEF From, Base
  <2>7. \A e \in S : next[e] # Null => From(e)' = From(e)
    BY <1>3, <2>1, <2>2, <2>3 DEF From, Base
  <2>8. Working(S)'
    <3> HIDE DEF L
    <3> QED BY <1>2, <1>3, <1>4, <2>1, <2>2, <2>3, <2>4 DEF Working, Searching, Base, L
  <2> QED BY <1>3, <2>1, <2>5, <2>6, <2>7, <2>8, TaskFrame
<1>6. CASE CompareTime(0)
  <2>1. /\ pc[0] = "compare" /\ L.op = "schedule"
        /\ loc' = [loc EXCEPT ![0] = [L EXCEPT !.time = remaining[L.entry]]]
        /\ pc' = [pc EXCEPT ![0] = IF remaining[L.new] <= remaining[L.entry]
                                     THEN "charge" ELSE "pass"]
        /\ UNCHANGED <<head, free, next, remaining, left, data, isr>>
    BY <1>6 DEF CompareTime, Locally, Goto
  <2>2. /\ loc'[0] = [L EXCEPT !.time = remaining[L.entry]]
        /\ pc'[0] = IF remaining[L.new] <= remaining[L.entry] THEN "charge" ELSE "pass"
    BY <2>1, OneCaller
  <2>3. /\ loc'[0].op = L.op /\ loc'[0].cell = L.cell /\ loc'[0].entry = L.entry
        /\ loc'[0].new = L.new /\ loc'[0].ms = L.ms /\ loc'[0].target = L.target
        /\ loc'[0].time = remaining[L.entry]
    BY <1>1, <2>2 DEF Locals
  <2>4. Here' = Here BY <2>1, <2>3 DEF Here, At
  <2>5. Hand' = Hand BY <2>1, <2>2, <2>3 DEF Hand
  <2>6. \A x : From(x)' = From(x)
    BY <2>1, <2>2 DEF From, Base
  <2>7. L.new \in Entries /\ L.entry \in Entries BY <1>1, <2>1 DEF Consistent
  <2>8. remaining[L.new] <= remaining[L.entry] \/ remaining[L.new] > remaining[L.entry]
    BY <1>1, <2>7
  <2>9. Working(S)'
    <3> HIDE DEF L
    <3> QED BY <1>2, <1>3, <1>4, <2>1, <2>2, <2>3, <2>4, <2>8 DEF Working, Searching, Base, L
  <2> QED BY <1>3, <2>1, <2>5, <2>6, <2>9, TaskFrame
<1>7. CASE CompareMessage(0)
  <2>1. /\ pc[0] = "compare" /\ L.op = "cancel" /\ L.entry \in Entries
    BY <1>1, <1>7 DEF CompareMessage, Consistent
  <2>2. L.entry = Here /\ L.entry \in S
    BY <1>3, <1>4, <2>1, ListAssumption DEF Working, Searching
  <2>3. PICK l, label :
          /\ \/ label = "give" /\ l = [L EXCEPT !.time = remaining[L.entry]]
             \/ label = "load" /\ l = [L EXCEPT !.cell = L.entry]
          /\ loc' = [loc EXCEPT ![0] = l] /\ pc' = [pc EXCEPT ![0] = label]
          /\ UNCHANGED <<head, free, next, remaining, left, data, isr>>
    BY <1>7 DEF CompareMessage, Locally, Goto
  <2>4. loc'[0] = l /\ pc'[0] = label BY <2>3, OneCaller
  <2>5. /\ loc'[0].op = "cancel"
        /\ label = "give" => /\ loc'[0].cell = L.cell /\ loc'[0].entry = L.entry
                             /\ loc'[0].time = remaining[L.entry]
        /\ label = "load" => loc'[0].cell = L.entry
    BY <1>1, <2>1, <2>3, <2>4 DEF Locals
  <2>6. label = "give" => Here' = Here BY <2>3, <2>5 DEF Here, At
  <2>7. Hand' = Hand BY <2>1, <2>3, <2>4, <2>5 DEF Hand
  <2>8. \A x : From(x)' = From(x)
    BY <2>1, <2>3, <2>4 DEF From, Base
  <2>9. Working(S)'
    <3> HIDE DEF L
    <3> QED BY <1>2, <1>3, <1>4, <2>2, <2>3, <2>4, <2>5, <2>6 DEF Working, Searching
  <2> QED BY <1>3, <2>3, <2>7, <2>8, <2>9, TaskFrame
<1>8. CASE Give(0) /\ next[L.entry] = Null
  <2>1. /\ pc[0] = "give" /\ L.op = "cancel" /\ L.entry \in Entries
        /\ loc' = [loc EXCEPT ![0] = L] /\ pc' = [pc EXCEPT ![0] = "unhook"]
        /\ UNCHANGED <<head, free, next, remaining, left, data, isr>>
    BY <1>1, <1>8 DEF Give, Consistent, Locally, Goto
  <2>2. loc'[0] = L /\ pc'[0] = "unhook" BY <2>1, OneCaller
  <2>3. Here' = Here /\ Hand' = Hand BY <2>1, <2>2 DEF Here, At, Hand
  <2>4. L.entry # HeadCell BY <2>1, ListAssumption
  <2>5. From(HeadCell)' = From(HeadCell) BY <2>1, <2>2, <2>4 DEF From, Base
  <2>6. \A e \in S : next[e] # Null => From(e)' = From(e)
    BY <1>8, <2>1, <2>2 DEF From, Base
  <2>7. Working(S)'
    <3> HIDE DEF L
    <3> QED BY <1>2, <1>3, <1>4, <2>1, <2>2, <2>3 DEF Working, Searching, L
  <2> QED BY <1>3, <2>1, <2>3, <2>5, <2>6, <2>7, TaskFrame
<1> QED BY <1>5, <1>6, <1>7, <1>8

\* The steps that change the delta of one entry.
LEMMA TimesFrame ==
  ASSUME NEW S \in SUBSET Entries, NEW F \in SUBSET Entries, NEW rank \in [Entries -> Nat],
         Whole(S, F, rank),
         UNCHANGED <<head, free, next, left, data, isr>>,
         Hand' = Hand,
         \A e \in S : remaining'[e] \in Nat,
         First # Null => left[First] = From(HeadCell)' + remaining'[First],
         \A e \in S : next[e] # Null => left[next[e]] = From(e)' + remaining'[next[e]],
         ipc # "idle" => pc'[0] = "idle",
         Working(S)'
  PROVE  Whole(S, F, rank)'
<1>1. Lists(S, F, rank) /\ Counted(S, rank) /\ Ticking BY DEF Whole
<1>2. ipc' = ipc /\ nxt' = nxt /\ First' = First BY DEF isr, First
<1>3. Lists(S, F, rank)' BY <1>1, <1>2 DEF Lists
<1>4. Counted(S, rank)' BY <1>1, <1>2 DEF Counted
<1>5. Ticking' BY <1>1, <1>2 DEF Ticking
<1> QED BY <1>3, <1>4, <1>5 DEF Whole

\* The next entry of the list waits longer by as much as its delta says, whichever
\* cell leads to it.
LEMMA Behind ==
  ASSUME NEW S \in SUBSET Entries, NEW F \in SUBSET Entries, NEW rank \in [Entries -> Nat],
         Whole(S, F, rank), pc[0] \in Searching, Here # Null
  PROVE  /\ \A e \in S : e # loc[0].cell => next[e] # Here
         /\ loc[0].cell # HeadCell => First # Here
         /\ Here \in S /\ left[Here] \in Nat /\ remaining[Here] \in Nat
<1>1. Lists(S, F, rank) BY DEF Whole
<1>2. /\ ipc = "idle" /\ First = head
      /\ loc[0].cell \in S => Here = next[loc[0].cell]
      /\ loc[0].cell = HeadCell => Here = head
      /\ Here \in S
      /\ loc[0].cell \in S \cup {HeadCell}
  BY HereIn DEF Whole, Working
<1>3. /\ \A e \in S : next[e] # Null => /\ next[e] \in S /\ rank[next[e]] = rank[e] - 1
                                        /\ rank[e] > 0 /\ next[e] # First
      /\ \A e, f \in S : rank[e] = rank[f] => e = f
  BY <1>1, ListLinks DEF Lists, Ranked
<1>4. ASSUME NEW e \in S, e # loc[0].cell PROVE next[e] # Here
  <2> SUFFICES ASSUME next[e] = Here PROVE FALSE OBVIOUS
  <2>1. rank[Here] = rank[e] - 1 /\ Here # First BY <1>3
  <2>2. loc[0].cell \in S BY <1>2, <2>1
  <2>3. rank[Here] = rank[loc[0].cell] - 1 BY <1>2, <1>3, <2>2
  <2>4. rank[e] \in Nat /\ rank[loc[0].cell] \in Nat BY <2>2
  <2>5. rank[e] = rank[loc[0].cell] BY <2>1, <2>3, <2>4
  <2> QED BY <1>3, <1>4, <2>2, <2>5
<1>5. loc[0].cell # HeadCell => First # Here
  BY <1>2, <1>3
<1>6. left[Here] \in Nat /\ remaining[Here] \in Nat
  BY <1>2 DEF Whole, Counted
<1> QED BY <1>2, <1>4, <1>5, <1>6

\* The entry behind the new one counts from the new one on.
LEMMA ChargeKeep ==
  ASSUME Callers = {0}, TInv,
         NEW S \in SUBSET Entries, NEW F \in SUBSET Entries, NEW rank \in [Entries -> Nat],
         Whole(S, F, rank), Charge(0)
  PROVE  Whole(S, F, rank)'
<1> DEFINE L == loc[0]
<1>1. /\ pc[0] = "charge" /\ pc \in [{0} -> Labels] /\ L.op = "schedule"
      /\ L.entry \in Entries /\ L.new \in Entries
      /\ remaining \in [Entries -> Int] /\ loc' = loc
      /\ remaining' = [remaining EXCEPT ![L.entry] = L.time - remaining[L.new]]
      /\ pc' = [pc EXCEPT ![0] = "link"]
      /\ UNCHANGED <<head, free, next, left, data, isr>>
  BY OneCaller DEF Charge, Consistent, ChangeRemaining, Goto
<1>2. pc'[0] = "link" BY <1>1, OneCaller
<1>3. pc[0] \in Searching BY <1>1 DEF Searching
<1>4. /\ ipc = "idle" /\ First = head
      /\ L.cell \in S => L.cell # HeadCell /\ Here = next[L.cell]
      /\ L.cell = HeadCell => Here = head
      /\ Here # Null => left[Here] = From(L.cell) + remaining[Here]
      /\ L.cell \in S \cup {HeadCell}
  BY <1>3, HereIn DEF Whole, Working
<1>5. /\ L.entry = Here /\ L.time = remaining[Here] /\ remaining[L.new] <= L.time
      /\ left[L.new] = Base(L.cell) + remaining[L.new]
      /\ remaining[L.new] \in Nat \ {0} /\ left[L.new] = L.ms /\ data[L.new] = L.target
  BY <1>1, <1>3 DEF Whole, Working, Searching
<1>6. Here # Null BY <1>1, <1>5, ListAssumption
<1>7. /\ \A e \in S : e # L.cell => next[e] # Here
      /\ L.cell # HeadCell => First # Here
      /\ Here \in S /\ left[Here] \in Nat /\ remaining[Here] \in Nat
  BY <1>3, <1>6, Behind
<1>8. Hand = {L.new} /\ Hand' = {L.new} BY <1>1, <1>2 DEF Hand
<1>9. L.new \notin S BY <1>8 DEF Whole, Lists
<1>10. /\ remaining'[Here] = remaining[Here] - remaining[L.new]
       /\ \A e \in Entries : e # Here => remaining'[e] = remaining[e]
  BY <1>1, <1>5
<1>11. From(L.cell) = Base(L.cell) /\ \A x : From(x) = Base(x) BY <1>1 DEF From
<1>12. /\ From(L.cell)' = left[L.new]
       /\ \A x : x # L.cell => From(x)' = From(x)
  BY <1>1, <1>2 DEF From, Base
<1>13. Base(L.cell) \in Int
  BY <1>4, OneCaller DEF Base
<1>14. left[Here] = From(L.cell)' + remaining'[Here]
  BY <1>4, <1>5, <1>6, <1>7, <1>10, <1>11, <1>12, <1>13
<1>15. \A e \in S : remaining[e] \in Nat BY DEF Whole, Counted
<1>16. \A e \in S : remaining'[e] \in Nat
  BY <1>5, <1>7, <1>10, <1>15
<1>17. Lists(S, F, rank) /\ Counted(S, rank) BY DEF Whole
<1>18. /\ First # Null => First \in S
       /\ \A e \in S : next[e] # Null => next[e] \in S
  BY <1>17, ListLinks
<1>19. First # Null => left[First] = From(HeadCell)' + remaining'[First]
  <2>1. CASE L.cell = HeadCell BY <1>1, <1>4, <1>12, <1>14, <2>1
  <2>2. CASE L.cell # HeadCell
    BY <1>7, <1>10, <1>12, <1>17, <1>18, <2>2 DEF Counted
  <2> QED BY <2>1, <2>2
<1>20. \A e \in S : next[e] # Null => left[next[e]] = From(e)' + remaining'[next[e]]
  <2> TAKE e \in S
  <2>1. CASE L.cell = e BY <1>1, <1>4, <1>14, <2>1
  <2>2. CASE L.cell # e
    BY <1>7, <1>10, <1>12, <1>17, <1>18, <2>2 DEF Counted
  <2> QED BY <2>1, <2>2
<1>21. Working(S)'
  <2>1. Here' = Here /\ Base(L.cell)' = Base(L.cell) BY <1>1 DEF Here, At, Base
  <2>2. remaining'[L.new] = remaining[L.new] BY <1>1, <1>7, <1>9, <1>10
  <2> QED BY <1>1, <1>2, <1>4, <1>5, <2>1, <2>2 DEF Working, Searching
<1> QED BY <1>1, <1>4, <1>8, <1>16, <1>19, <1>20, <1>21, TimesFrame

\* What is left of the delay counts from the entry that was passed.
LEMMA PassKeep ==
  ASSUME Callers = {0}, TInv,
         NEW S \in SUBSET Entries, NEW F \in SUBSET Entries, NEW rank \in [Entries -> Nat],
         Whole(S, F, rank), Pass(0)
  PROVE  Whole(S, F, rank)'
<1> DEFINE L == loc[0]
<1>1. /\ pc[0] = "pass" /\ pc \in [{0} -> Labels] /\ L \in Locals /\ L.op = "schedule"
      /\ L.entry \in Entries /\ L.new \in Entries
      /\ remaining \in [Entries -> Int]
      /\ loc' = [loc EXCEPT ![0].cell = L.entry]
      /\ remaining' = [remaining EXCEPT ![L.new] = remaining[L.new] - L.time]
      /\ pc' = [pc EXCEPT ![0] = "load"]
      /\ UNCHANGED <<head, free, next, left, data, isr>>
  BY OneCaller DEF Pass, Consistent, ChangeRemaining, Goto
<1>2. pc'[0] = "load" BY <1>1, OneCaller
<1>3. /\ loc'[0].op = L.op /\ loc'[0].cell = L.entry /\ loc'[0].new = L.new
      /\ loc'[0].ms = L.ms /\ loc'[0].target = L.target
  <2>1. loc \in [{0} -> Locals] BY OneCaller
  <2>2. loc'[0] = [L EXCEPT !.cell = L.entry] BY <1>1, <2>1
  <2> HIDE DEF L
  <2> QED BY <1>1, <2>2 DEF Locals
<1>4. pc[0] \in Searching BY <1>1 DEF Searching
<1>5. /\ ipc = "idle"
      /\ Here # Null => left[Here] = From(L.cell) + remaining[Here]
      /\ L.cell \in S \cup {HeadCell}
  BY <1>4, HereIn DEF Whole, Working
<1>6. /\ L.entry = Here /\ L.time = remaining[Here] /\ remaining[L.new] > L.time
      /\ left[L.new] = Base(L.cell) + remaining[L.new]
      /\ remaining[L.new] \in Nat \ {0} /\ left[L.new] = L.ms /\ data[L.new] = L.target
  BY <1>1, <1>4 DEF Whole, Working, Searching
<1>7. Here # Null BY <1>1, <1>6, ListAssumption
<1>8. Here \in S /\ left[Here] \in Nat /\ remaining[Here] \in Nat
  BY <1>4, <1>7, Behind
<1>9. Hand = {L.new} /\ Hand' = {L.new} BY <1>1, <1>2, <1>3 DEF Hand
<1>10. L.new \notin S BY <1>9 DEF Whole, Lists
<1>11. /\ remaining'[L.new] = remaining[L.new] - remaining[Here]
       /\ \A e \in S : remaining'[e] = remaining[e]
  BY <1>1, <1>6, <1>10
<1>12. /\ \A x : From(x) = Base(x)
       /\ \A x : From(x)' = Base(x)
  BY <1>1, <1>2 DEF From, Base
<1>13. Base(L.cell) \in Int
  BY <1>5, OneCaller DEF Base
<1>14. Lists(S, F, rank) /\ Counted(S, rank) BY DEF Whole
<1>15. /\ First # Null => First \in S
       /\ \A e \in S : next[e] # Null => next[e] \in S
  BY <1>14, ListLinks
<1>16. /\ First # Null => left[First] = From(HeadCell)' + remaining'[First]
       /\ \A e \in S : next[e] # Null => left[next[e]] = From(e)' + remaining'[next[e]]
       /\ \A e \in S : remaining'[e] \in Nat
  BY <1>11, <1>12, <1>14, <1>15 DEF Counted
<1>17. Working(S)'
  <2>1. Here # HeadCell BY <1>1, <1>6, ListAssumption
  <2>2. Base(loc[0].cell)' = left[Here] BY <1>1, <1>3, <1>6, <2>1 DEF Base
  <2>3. left[Here] = Base(L.cell) + remaining[Here] BY <1>5, <1>7, <1>12
  <2>4. remaining'[L.new] \in Nat \ {0} /\ left[L.new] = left[Here] + remaining'[L.new]
    BY <1>6, <1>8, <1>11, <1>13, <2>3
  <2> HIDE DEF L
  <2> QED BY <1>1, <1>2, <1>3, <1>6, <1>8, <2>2, <2>4 DEF Working, Searching
<1> QED BY <1>1, <1>5, <1>9, <1>16, <1>17, TimesFrame

\* The entry behind the one that is cancelled counts from the one in front of it.
LEMMA GiveKeep ==
  ASSUME Callers = {0}, TInv,
         NEW S \in SUBSET Entries, NEW F \in SUBSET Entries, NEW rank \in [Entries -> Nat],
         Whole(S, F, rank), Give(0), next[loc[0].entry] # Null
  PROVE  Whole(S, F, rank)'
<1> DEFINE L == loc[0]
           e0 == L.entry
           n == next[e0]
<1>1. /\ pc[0] = "give" /\ pc \in [{0} -> Labels] /\ L.op = "cancel"
      /\ e0 \in Entries /\ remaining \in [Entries -> Int] /\ loc' = loc
      /\ remaining' = [remaining EXCEPT ![n] = remaining[n] + L.time]
      /\ pc' = [pc EXCEPT ![0] = "unhook"]
      /\ UNCHANGED <<head, free, next, left, data, isr>>
  BY OneCaller DEF Give, Consistent, ChangeRemaining, Goto, Inherited
<1>2. pc'[0] = "unhook" BY <1>1, OneCaller
<1>3. pc[0] \in Searching BY <1>1 DEF Searching
<1>4. /\ ipc = "idle"
      /\ Here # Null => left[Here] = From(L.cell) + remaining[Here]
      /\ L.cell \in S \cup {HeadCell}
  BY <1>3, HereIn DEF Whole, Working
<1>5. e0 = Here /\ L.time = remaining[e0]
  BY <1>1, <1>3 DEF Whole, Working, Searching
<1>6. Here # Null BY <1>1, <1>5, ListAssumption
<1>7. e0 \in S /\ left[e0] \in Nat /\ remaining[e0] \in Nat
  BY <1>3, <1>5, <1>6, Behind
<1>8. Lists(S, F, rank) /\ Counted(S, rank) BY DEF Whole
<1>9. /\ First # Null => First \in S
      /\ \A e \in S : next[e] # Null => /\ next[e] \in S /\ rank[next[e]] = rank[e] - 1
                                        /\ next[e] # First
      /\ \A e, f \in S : rank[e] = rank[f] => e = f
  BY <1>8, ListLinks DEF Lists, Ranked
<1>10. n \in S /\ n # First BY <1>7, <1>9
<1>11. \A e \in S : e # e0 => next[e] # n
  <2> SUFFICES ASSUME NEW e \in S, e # e0, next[e] = n PROVE FALSE OBVIOUS
  <2>1. rank[n] = rank[e] - 1 /\ rank[n] = rank[e0] - 1 BY <1>7, <1>9, <1>10
  <2>2. rank[e] \in Nat /\ rank[e0] \in Nat BY <1>7
  <2>3. rank[e] = rank[e0] BY <2>1, <2>2
  <2> QED BY <1>7, <1>9, <2>3
<1>12. Hand = {} /\ Hand' = {} BY <1>1, <1>2 DEF Hand
<1>13. /\ remaining'[n] = remaining[n] + remaining[e0]
       /\ \A e \in S : e # n => remaining'[e] = remaining[e]
  BY <1>1, <1>5, <1>10
<1>14. /\ \A x : From(x) = Base(x)
       /\ From(e0)' = Base(L.cell)
       /\ \A x : x # e0 => From(x)' = From(x)
  BY <1>1, <1>2 DEF From, Base
<1>15. Base(L.cell) \in Int
  BY <1>4, OneCaller DEF Base
<1>16. Base(e0) = left[e0] BY <1>7, ListAssumption DEF Base
<1>17. left[n] = left[e0] + remaining[n] /\ left[e0] = Base(L.cell) + remaining[e0]
       /\ remaining[n] \in Nat
  BY <1>4, <1>5, <1>6, <1>7, <1>8, <1>10, <1>14, <1>16 DEF Counted
<1>18. left[n] = From(e0)' + remaining'[n]
  BY <1>7, <1>13, <1>14, <1>15, <1>17
<1>19. \A e \in S : remaining[e] \in Nat BY <1>8 DEF Counted
<1>20. \A e \in S : remaining'[e] \in Nat
  BY <1>7, <1>13, <1>17, <1>19
<1>21. First # Null => left[First] = From(HeadCell)' + remaining'[First]
  <2>1. e0 # HeadCell BY <1>7, ListAssumption
  <2> QED BY <1>8, <1>9, <1>10, <1>13, <1>14, <2>1 DEF Counted
<1>22. \A e \in S : next[e] # Null => left[next[e]] = From(e)' + remaining'[next[e]]
  <2> TAKE e \in S
  <2>1. CASE e = e0 BY <1>1, <1>18, <2>1
  <2>2. CASE e # e0
    BY <1>8, <1>9, <1>11, <1>13, <1>14, <2>2 DEF Counted
  <2> QED BY <2>1, <2>2
<1>23. Working(S)'
  <2>1. Here' = Here BY <1>1 DEF Here, At
  <2> QED BY <1>1, <1>2, <1>4, <1>5, <2>1 DEF Working, Searching
<1> QED BY <1>1, <1>4, <1>12, <1>20, <1>21, <1>22, <1>23, TimesFrame

-----------------------------------------------------------------------------
(* The steps that move an entry *)

LEMMA AllocKeep ==
  ASSUME Callers = {0}, TInv, 0 \notin Delays,
         NEW S \in SUBSET Entries, NEW F \in SUBSET Entries, NEW rank \in [Entries -> Nat],
         Whole(S, F, rank), Alloc(0), free # Null,
         NEW F2, F2 = F \ {free}
  PROVE  Whole(S, F2, rank)'
<1> DEFINE L == loc[0]
<1>1. /\ pc[0] = "alloc" /\ L \in Locals /\ L.op = "schedule"
      /\ L.target \in Targets /\ L.ms \in Delays /\ free \in Entries
      /\ next \in [Entries -> Pointers] /\ left \in [Entries -> Int]
      /\ remaining \in [Entries -> Int] /\ data \in [Entries -> Targets \cup {NoMessage}]
      /\ loc' = [loc EXCEPT ![0].new = free]
      /\ pc' = [pc EXCEPT ![0] = "load"]
      /\ free' = next[free] /\ next' = [next EXCEPT ![free] = Null]
      /\ data' = [data EXCEPT ![free] = L.target]
      /\ remaining' = [remaining EXCEPT ![free] = L.ms]
      /\ left' = [left EXCEPT ![free] = L.ms]
      /\ UNCHANGED <<head, isr>>
  BY OneCaller DEF Alloc, Consistent, Goto, Pointers
<1>2. pc'[0] = "load" BY <1>1, OneCaller
<1>3. /\ loc'[0].op = L.op /\ loc'[0].cell = L.cell /\ loc'[0].new = free
      /\ loc'[0].ms = L.ms /\ loc'[0].target = L.target
  <2>1. loc \in [{0} -> Locals] BY OneCaller
  <2>2. loc'[0] = [L EXCEPT !.new = free] BY <1>1, <2>1
  <2> HIDE DEF L
  <2> QED BY <1>1, <2>2 DEF Locals
<1>4. L.cell = HeadCell /\ ipc = "idle" BY <1>1 DEF Whole, Working, Ticking
<1>5. Hand = {} /\ Hand' = {free} BY <1>1, <1>2, <1>3 DEF Hand
<1>6. Lists(S, F, rank) /\ Counted(S, rank) BY DEF Whole
<1>7. free \in F /\ free \notin S
  BY <1>6 DEF Lists, Ranked
<1>8. ipc' = ipc /\ First' = First BY <1>1 DEF First, isr
<1>9. Lists(S, F2, rank)'
  <2>1. Ranked(next', Null, First, S, rank)
    <3>1. \A e \in S : next'[e] = next[e] /\ rank[e] = rank[e] BY <1>1, <1>7
    <3>2. Ranked(next, Null, First, S, rank) BY <1>6 DEF Lists
    <3> QED BY <3>1, <3>2, RankedFrame
  <2>2. Ranked(next', Null, free', F2, rank)
    <3>1. \A e \in F \ {free} : next'[e] = next[e] /\ rank[e] = rank[e] BY <1>1
    <3>2. Ranked(next, Null, free, F, rank) BY <1>6 DEF Lists
    <3>3. Ranked(next', Null, next[free], F \ {free}, rank) BY <3>1, <3>2, RankedPop
    <3> QED BY <1>1, <3>3
  <2> QED BY <1>5, <1>6, <1>7, <1>8, <2>1, <2>2 DEF Lists
<1>10. \A e \in S : left'[e] = left[e] /\ remaining'[e] = remaining[e] /\ data'[e] = data[e]
                    /\ next'[e] = next[e]
  BY <1>1, <1>7
<1>11. \A e \in S : From(e) = left[e] /\ From(e)' = left[e]
  BY <1>1, <1>2, <1>10, ListAssumption DEF From, Base
<1>12. From(HeadCell) = 0 /\ From(HeadCell)' = 0
  BY <1>1, <1>2 DEF From, Base
<1>13. Counted(S, rank)'
  <2>1. /\ First # Null => First \in S
        /\ \A e \in S : next[e] # Null => next[e] \in S
    BY <1>6, ListLinks
  <2> QED BY <1>6, <1>8, <1>10, <1>11, <1>12, <2>1 DEF Counted
<1>14. Ticking' BY <1>1, <1>4, <1>8 DEF Ticking
<1>15. Working(S)'
  <2>1. left'[free] = L.ms /\ remaining'[free] = L.ms /\ data'[free] = L.target
    BY <1>1
  <2>2. L.ms \in Nat \ {0} BY <1>1, ListAssumption
  <2> HIDE DEF L
  <2> QED BY <1>1, <1>2, <1>3, <1>4, <2>1, <2>2 DEF Working, Searching, Base
<1> QED BY <1>9, <1>13, <1>14, <1>15 DEF Whole

LEMMA LinkKeep ==
  ASSUME Callers = {0}, TInv,
         NEW S \in SUBSET Entries, NEW F \in SUBSET Entries, NEW rank \in [Entries -> Nat],
         Whole(S, F, rank), Link(0)
  PROVE  Whole(S, F, rank)'
<1> DEFINE L == loc[0]
<1>1. /\ pc[0] = "link" /\ L.op = "schedule" /\ L.new \in Entries
      /\ next \in [Entries -> Pointers] /\ loc' = loc
      /\ pc' = [pc EXCEPT ![0] = "hook"]
      /\ next' = [next EXCEPT ![L.new] = Here]
      /\ UNCHANGED <<head, free, remaining, left, data, isr>>
  BY OneCaller DEF Link, Consistent, Goto, Here
<1>2. pc'[0] = "hook" BY <1>1, OneCaller
<1>3. pc[0] \in Searching BY <1>1 DEF Searching
<1>4. Hand = {L.new} /\ Hand' = {L.new} BY <1>1, <1>2 DEF Hand
<1>5. Lists(S, F, rank) /\ Counted(S, rank) /\ Working(S) /\ Ticking BY DEF Whole
<1>6. L.new \notin S /\ L.new \notin F BY <1>4, <1>5 DEF Lists
<1>7. ipc = "idle" /\ L.cell \in S \cup {HeadCell} /\ L.entry = Here
  BY <1>1, <1>3, <1>5, HereIn DEF Working, Searching
<1>8. ipc' = ipc /\ nxt' = nxt /\ First' = First BY <1>1 DEF First, isr
<1>9. \A e \in S \cup F : next'[e] = next[e] /\ rank[e] = rank[e]
  BY <1>1, <1>6
<1>10. Lists(S, F, rank)'
  <2>1. Ranked(next, Null, First, S, rank) /\ Ranked(next, Null, free, F, rank)
    BY <1>5 DEF Lists
  <2>2. Ranked(next', Null, First, S, rank) BY <1>9, <2>1, RankedFrame
  <2>3. Ranked(next', Null, free, F, rank) BY <1>9, <2>1, RankedFrame
  <2> QED BY <1>1, <1>4, <1>5, <1>8, <2>2, <2>3 DEF Lists
<1>11. \A x : From(x)' = From(x) BY <1>1, <1>2 DEF From, Base
<1>12. Counted(S, rank)'
  BY <1>1, <1>5, <1>8, <1>9, <1>11 DEF Counted
<1>13. Ticking' BY <1>1, <1>2, <1>7, <1>8 DEF Ticking
<1>14. Working(S)'
  <2>1. L.cell = HeadCell \/ (L.cell \in S /\ L.cell # HeadCell) BY <1>7, ListAssumption
  <2>2. Here' = Here BY <1>1, <1>9, <2>1 DEF Here, At
  <2>3. next'[L.new] = L.entry BY <1>1, <1>7
  <2>4. Base(L.cell)' = Base(L.cell) BY <1>1 DEF Base
  <2> QED BY <1>1, <1>2, <1>3, <1>5, <1>7, <2>2, <2>3, <2>4 DEF Working, Searching
<1> QED BY <1>10, <1>12, <1>13, <1>14 DEF Whole

LEMMA ReturnKeep ==
  ASSUME Callers = {0}, TInv,
         NEW S \in SUBSET Entries, NEW F \in SUBSET Entries, NEW rank \in [Entries -> Nat],
         Whole(S, F, rank), Return(0),
         NEW F2, F2 = F \cup {loc[0].entry},
         NEW rank2 \in [Entries -> Nat],
         rank2[loc[0].entry] = IF free = Null THEN 0 ELSE rank[free] + 1,
         \A e \in Entries \ {loc[0].entry} : rank2[e] = rank[e]
  PROVE  Whole(S, F2, rank2)'
<1> DEFINE e0 == loc[0].entry
<1>1. /\ pc[0] = "return" /\ e0 \in Entries /\ loc[0].op = "cancel"
      /\ next \in [Entries -> Pointers] /\ loc' = loc
      /\ pc' = [pc EXCEPT ![0] = "unlock"]
      /\ next' = [next EXCEPT ![e0] = free] /\ free' = e0
      /\ UNCHANGED <<head, remaining, left, data, isr>>
  BY OneCaller DEF Return, Consistent, Goto, FreeListed
<1>2. pc'[0] = "unlock" BY <1>1, OneCaller
<1>3. Hand = {e0} /\ Hand' = {} BY <1>1, <1>2 DEF Hand
<1>4. Lists(S, F, rank) /\ Counted(S, rank) /\ Ticking BY DEF Whole
<1>5. e0 \notin S /\ e0 \notin F /\ e0 # Null BY <1>1, <1>3, <1>4, ListAssumption DEF Lists
<1>6. ipc = "idle" BY <1>1, <1>4 DEF Ticking
<1>7. ipc' = ipc /\ nxt' = nxt /\ First' = First BY <1>1 DEF First, isr
<1>8. \A e \in S \cup F : next'[e] = next[e] /\ rank2[e] = rank[e]
  BY <1>1, <1>5
<1>9. Lists(S, F2, rank2)'
  <2>1. Ranked(next, Null, First, S, rank) /\ Ranked(next, Null, free, F, rank)
    BY <1>4 DEF Lists
  <2>2. Ranked(next', Null, First, S, rank2)
    <3>1. \A e \in S : next'[e] = next[e] /\ rank2[e] = rank[e] BY <1>8
    <3> HIDE DEF e0
    <3> QED BY <2>1, <3>1, RankedFrame
  <2>3. Ranked(next', Null, e0, F2, rank2)
    <3>1. next'[e0] = free BY <1>1
    <3>2. rank2[e0] = IF free = Null THEN 0 ELSE rank[free] + 1 BY <1>1
    <3>3. \A e \in F : next'[e] = next[e] /\ rank2[e] = rank[e] BY <1>8
    <3>4. e0 # Null /\ e0 \notin F BY <1>5
    <3>5. F2 = F \cup {e0} OBVIOUS
    <3> HIDE DEF e0
    <3>6. Ranked(next', Null, e0, F \cup {e0}, rank2)
      BY <2>1, <3>1, <3>2, <3>3, <3>4, RankedPush
    <3> QED BY <3>5, <3>6
  <2> QED BY <1>1, <1>3, <1>4, <1>5, <1>7, <2>2, <2>3 DEF Lists
<1>10. \A x : From(x)' = From(x) BY <1>1, <1>2 DEF From, Base
<1>11. Counted(S, rank2)'
  BY <1>1, <1>4, <1>7, <1>8, <1>10 DEF Counted
<1>12. Ticking' BY <1>1, <1>2, <1>6, <1>7 DEF Ticking
<1>13. Working(S)' BY <1>2 DEF Working, Searching
<1> QED BY <1>9, <1>11, <1>12, <1>13 DEF Whole

\* The rank of a new entry behind the cell that an operation has come to.
Inserted(S, rank, x, cell) ==
  [e \in Entries |->
     IF cell = HeadCell
       THEN IF e # x THEN rank[e] ELSE IF head = Null THEN 0 ELSE rank[head] + 1
       ELSE IF e = x THEN rank[cell]
            ELSE IF e \in S /\ rank[cell] <= rank[e] THEN rank[e] + 1 ELSE rank[e]]

\* The pointers of the list when a new entry has been hooked in.
LEMMA HookLists ==
  ASSUME Callers = {0}, TInv,
         NEW S \in SUBSET Entries, NEW F \in SUBSET Entries, NEW rank \in [Entries -> Nat],
         Whole(S, F, rank), Hook(0),
         NEW S2, S2 = S \cup {loc[0].new},
         NEW rank2, rank2 = Inserted(S, rank, loc[0].new, loc[0].cell)
  PROVE  rank2 \in [Entries -> Nat] /\ Lists(S2, F, rank2)'
<1> DEFINE L == loc[0]
<1>1. /\ pc[0] = "hook" /\ L.op = "schedule" /\ L.new \in Entries
      /\ next \in [Entries -> Pointers] /\ head \in Pointers
      /\ pc' = [pc EXCEPT ![0] = "unlock"] /\ Store(L.cell, L.new)
      /\ UNCHANGED <<free, isr>>
  BY OneCaller DEF Hook, Consistent, Goto
<1>2. pc'[0] = "unlock" BY <1>1, OneCaller
<1>3. pc[0] \in Searching BY <1>1 DEF Searching
<1>4. Hand = {L.new} /\ Hand' = {} BY <1>1, <1>2 DEF Hand
<1>5. Lists(S, F, rank) /\ Working(S) BY DEF Whole
<1>6. L.new \notin S /\ L.new \notin F /\ L.new # Null
  BY <1>1, <1>4, <1>5, ListAssumption DEF Lists
<1>7. /\ ipc = "idle" /\ First = head /\ L.cell \in S \cup {HeadCell}
      /\ L.cell \in S => L.cell # HeadCell /\ Here = next[L.cell]
      /\ L.cell = HeadCell => Here = head
      /\ next[L.new] = Here
  BY <1>1, <1>3, <1>5, HereIn DEF Working, Searching
<1>8. First' = head' BY <1>1, <1>7 DEF First, isr
<1>9. Ranked(next, Null, head, S, rank) /\ Ranked(next, Null, free, F, rank)
  BY <1>5, <1>7 DEF Lists
<1>10. /\ S \cap F = {} /\ S \cup F \cup {L.new} = Entries
       /\ head # Null => head \in S
  BY <1>4, <1>5, <1>9 DEF Lists, Ranked
<1>11. rank2 \in [Entries -> Nat]
  <2>1. head # Null => rank[head] \in Nat BY <1>10
  <2>2. L.cell # HeadCell => rank[L.cell] \in Nat BY <1>7
  <2>3. \A e \in Entries : rank2[e] \in Nat
    BY <2>1, <2>2 DEF Inserted
  <2> QED BY <2>3 DEF Inserted
<1>12. \A e \in F : next'[e] = next[e] /\ rank2[e] = rank[e]
  <2> TAKE e \in F
  <2>1. e # L.new /\ e # L.cell /\ e \notin S /\ e \in Entries
    BY <1>6, <1>7, <1>10, ListAssumption
  <2>2. next'[e] = next[e] BY <1>1, <2>1 DEF Store
  <2> QED BY <2>1, <2>2 DEF Inserted
<1>13. Ranked(next', Null, free, F, rank2)
  BY <1>9, <1>12, RankedFrame
<1>14. Ranked(next', Null, head', S2, rank2)
  <2>1. CASE L.cell = HeadCell
    <3>1. head' = L.new /\ next' = next BY <1>1, <2>1 DEF Store
    <3>2. rank2[L.new] = IF head = Null THEN 0 ELSE rank[head] + 1
      BY <1>1, <2>1 DEF Inserted
    <3>3. \A e \in S : next'[e] = next[e] /\ rank2[e] = rank[e]
      BY <1>6, <2>1, <3>1 DEF Inserted
    <3>4. next'[L.new] = head BY <1>7, <2>1, <3>1
    <3> DEFINE x == L.new
    <3>5. x \notin S /\ x # Null BY <1>6
    <3>6. S2 = S \cup {x} OBVIOUS
    <3> HIDE DEF x
    <3>7. Ranked(next', Null, x, S \cup {x}, rank2)
      BY <1>9, <3>2, <3>3, <3>4, <3>5, RankedPush DEF x
    <3> QED BY <3>1, <3>6, <3>7 DEF x
  <2>2. CASE L.cell \in S
    <3> DEFINE x == L.new
               q == L.cell
    <3>1. q # HeadCell BY <1>7, <2>2
    <3>2. head' = head /\ next' = [next EXCEPT ![q] = x] BY <1>1, <3>1 DEF Store
    <3>3. x # q BY <1>6, <2>2
    <3>4. next'[q] = x /\ next'[x] = next[q] /\ \A e \in S \ {q} : next'[e] = next[e]
      BY <1>1, <1>7, <2>2, <3>2, <3>3
    <3>5. /\ rank2[x] = rank[q]
          /\ \A e \in S : rank2[e] = IF rank[q] <= rank[e] THEN rank[e] + 1 ELSE rank[e]
      BY <1>1, <1>6, <3>1 DEF Inserted
    <3>6. x \notin S /\ x # Null /\ S2 = S \cup {x} BY <1>6
    <3>7. q \in S BY <2>2
    <3> HIDE DEF x, q
    <3>8. Ranked(next', Null, head, S \cup {x}, rank2)
      BY <1>9, <3>4, <3>5, <3>6, <3>7, RankedInsert
    <3> QED BY <3>2, <3>6, <3>8
  <2> QED BY <1>7, <2>1, <2>2
<1>15. S2 \cup F = Entries /\ S2 \cap F = {} BY <1>6, <1>10
<1> QED BY <1>1, <1>4, <1>8, <1>11, <1>13, <1>14, <1>15 DEF Lists

LEMMA HookKeep ==
  ASSUME Callers = {0}, TInv,
         NEW S \in SUBSET Entries, NEW F \in SUBSET Entries, NEW rank \in [Entries -> Nat],
         Whole(S, F, rank), Hook(0),
         NEW S2, S2 = S \cup {loc[0].new},
         NEW rank2, rank2 = Inserted(S, rank, loc[0].new, loc[0].cell)
  PROVE  rank2 \in [Entries -> Nat] /\ Whole(S2, F, rank2)'
<1> DEFINE L == loc[0]
           new == L.new
<1>1. /\ pc[0] = "hook" /\ L.op = "schedule" /\ new \in Entries /\ L.target \in Targets
      /\ next \in [Entries -> Pointers] /\ loc' = loc
      /\ pc' = [pc EXCEPT ![0] = "unlock"] /\ Store(L.cell, new)
      /\ UNCHANGED <<free, isr, remaining, left, data>>
  BY OneCaller DEF Hook, Consistent, Goto
<1>2. pc'[0] = "unlock" BY <1>1, OneCaller
<1>3. pc[0] \in Searching BY <1>1 DEF Searching
<1>4. rank2 \in [Entries -> Nat] /\ Lists(S2, F, rank2)' BY HookLists
<1>5. Lists(S, F, rank) /\ Counted(S, rank) /\ Working(S) BY DEF Whole
<1>6. new \notin S /\ new # HeadCell
  <2>1. Hand = {new} BY <1>1 DEF Hand
  <2> QED BY <1>1, <1>5, <2>1, ListAssumption DEF Lists
<1>7. /\ ipc = "idle" /\ First = head /\ L.cell \in S \cup {HeadCell}
      /\ L.cell \in S => L.cell # HeadCell /\ Here = next[L.cell]
      /\ L.cell = HeadCell => Here = head
      /\ next[new] = Here /\ Here \in S \cup {Null}
      /\ Here # Null => left[Here] = From(L.cell) + remaining[Here]
  BY <1>1, <1>3, <1>5, HereIn DEF Working, Searching
<1>8. /\ left[new] = Base(L.cell) + remaining[new] /\ left[new] = L.ms /\ data[new] = L.target
      /\ remaining[new] \in Nat \ {0}
  BY <1>1, <1>3, <1>5 DEF Working, Searching
<1>9. L.ms \in Delays /\ Delays \subseteq Nat
  BY <1>1, OneCaller, ListAssumption DEF Consistent
<1>10. First' = head' /\ ipc' = "idle" /\ nxt' = nxt BY <1>1, <1>7 DEF First, isr
<1>11. /\ \A e \in S : left[e] \in Nat /\ remaining[e] \in Nat /\ data[e] \in Targets
                       /\ left[e] > 0
       /\ \A e, f \in S : rank[e] <= rank[f] => left[f] <= left[e]
  BY <1>5, <1>7 DEF Counted
<1>12. From(L.cell) = left[new] /\ \A x : x # L.cell => From(x) = Base(x)
  BY <1>1 DEF From
<1>13. \A x : From(x)' = Base(x) BY <1>1, <1>2 DEF From, Base
<1>14. Base(L.cell) \in Nat /\ Base(HeadCell) = 0 /\ \A e \in S \cup {new} : Base(e) = left[e]
  BY <1>6, <1>7, <1>11, ListAssumption DEF Base
<1>15. left[new] \in Nat /\ left[new] > 0 /\ left[new] > Base(L.cell)
  BY <1>8, <1>9, <1>14
<1>16. Here # Null => left[Here] = left[new] + remaining[Here] /\ left[Here] >= left[new]
  BY <1>7, <1>11, <1>12, <1>15
<1>17. /\ First # Null => First \in S /\ \A e \in S : rank[e] <= rank[First]
       /\ \A e \in S : next[e] # Null => /\ next[e] \in S /\ rank[next[e]] = rank[e] - 1
       /\ \A e \in S : rank[e] \in Nat
       /\ \A e \in S : rank[e] > 0 => next[e] # Null
       /\ Null \notin S
  BY <1>5, ListLinks DEF Lists, Ranked
<1>18. /\ head' # Null => left[head'] = Base(HeadCell) + remaining[head']
       /\ \A e \in S2 : next'[e] # Null => left[next'[e]] = Base(e) + remaining[next'[e]]
  <2>1. CASE L.cell = HeadCell
    <3>1. head' = new /\ next' = next BY <1>1, <2>1 DEF Store
    <3>2. left[head'] = Base(HeadCell) + remaining[head'] BY <1>8, <2>1, <3>1
    <3>3. ASSUME NEW e \in S, next[e] # Null
          PROVE  left[next[e]] = Base(e) + remaining[next[e]]
      <4>1. e # L.cell BY <2>1, ListAssumption
      <4> QED BY <1>5, <1>12, <3>3, <4>1 DEF Counted
    <3>4. next[new] # Null => left[next[new]] = Base(new) + remaining[next[new]]
      BY <1>7, <1>14, <1>16
    <3> QED BY <3>1, <3>2, <3>3, <3>4
  <2>2. CASE L.cell \in S
    <3>1. L.cell # HeadCell BY <1>7, <2>2
    <3>2. head' = head /\ next' = [next EXCEPT ![L.cell] = new] BY <1>1, <3>1 DEF Store
    <3>3. head' # Null => left[head'] = Base(HeadCell) + remaining[head']
      BY <1>5, <1>7, <1>12, <3>1, <3>2 DEF Counted
    <3>4. ASSUME NEW e \in S, e # L.cell, next'[e] # Null
          PROVE  left[next'[e]] = Base(e) + remaining[next'[e]]
      <4>1. next'[e] = next[e] BY <1>1, <3>2, <3>4
      <4> QED BY <1>5, <1>12, <3>4, <4>1 DEF Counted
    <3>5. next'[L.cell] = new BY <1>1, <2>2, <3>2
    <3>6. next'[new] = Here BY <1>1, <1>6, <1>7, <2>2, <3>2
    <3>7. next'[new] # Null => left[next'[new]] = Base(new) + remaining[next'[new]]
      BY <1>14, <1>16, <3>6
    <3>8. left[next'[L.cell]] = Base(L.cell) + remaining[next'[L.cell]]
      BY <1>8, <3>5
    <3> QED BY <3>3, <3>4, <3>7, <3>8
  <2> QED BY <1>7, <2>1, <2>2
<1>19. \A e, f \in S2 : rank2[e] <= rank2[f] => left[f] <= left[e]
  <2> DEFINE q == L.cell
  <2>1. \A e \in S2 : left[e] \in Nat BY <1>11, <1>15
  <2>2. CASE q = HeadCell
    <3>1. /\ rank2[new] = IF head = Null THEN 0 ELSE rank[head] + 1
          /\ \A e \in S : rank2[e] = rank[e]
      BY <1>1, <1>6, <2>2 DEF Inserted
    <3>2. ASSUME NEW e \in S PROVE rank2[e] < rank2[new] /\ left[new] <= left[e]
      <4>1. head # Null /\ head \in S /\ rank[e] <= rank[head]
        BY <1>7, <1>17, ListLinks, <1>5
      <4>2. rank[e] \in Nat /\ rank[head] \in Nat BY <4>1
      <4>3. left[head] <= left[e] /\ left[head] >= left[new]
        BY <1>7, <1>11, <1>16, <2>2, <4>1
      <4>4. left[head] \in Nat /\ left[e] \in Nat BY <1>11, <4>1
      <4> QED BY <1>15, <3>1, <4>1, <4>2, <4>3, <4>4
    <3>3. ASSUME NEW e \in S, NEW f \in S, rank2[e] <= rank2[f] PROVE left[f] <= left[e]
      BY <1>11, <3>1, <3>3
    <3>4. rank2[new] \in Nat /\ \A e \in S : rank2[e] \in Nat BY <1>1, <1>4
    <3> TAKE e, f \in S2
    <3>5. CASE e \in S /\ f \in S BY <3>3, <3>5
    <3>6. CASE e \in S /\ f = new BY <3>2, <3>6
    <3>7. CASE e = new /\ f \in S
      <4>1. rank2[f] < rank2[new] BY <3>2, <3>7
      <4> QED BY <3>4, <3>7, <4>1
    <3>8. CASE e = new /\ f = new BY <1>15, <3>8
    <3> QED BY <3>5, <3>6, <3>7, <3>8
  <2>3. CASE q \in S
    <3>1. q # HeadCell BY <1>7, <2>3
    <3>2. /\ rank2[new] = rank[q]
          /\ \A e \in S : rank2[e] = IF rank[q] <= rank[e] THEN rank[e] + 1 ELSE rank[e]
      BY <1>1, <1>6, <3>1 DEF Inserted
    <3>3. rank[q] \in Nat /\ \A e \in S : rank[e] \in Nat BY <1>17, <2>3
    <3>4. left[q] < left[new] BY <1>14, <1>15, <2>3
    <3>5. ASSUME NEW e \in S, rank2[e] <= rank[q] PROVE left[new] <= left[e]
      <4>1. rank[e] < rank[q] /\ rank[q] > 0 BY <3>2, <3>3, <3>5
      <4>2. Here # Null /\ Here \in S /\ rank[Here] = rank[q] - 1
        BY <1>7, <1>17, <2>3, <4>1
      <4>3. rank[e] <= rank[Here] BY <3>3, <4>1, <4>2
      <4>4. left[Here] <= left[e] /\ left[Here] >= left[new] BY <1>11, <1>16, <4>2, <4>3
      <4>5. left[Here] \in Nat /\ left[e] \in Nat BY <1>11, <4>2
      <4> QED BY <1>15, <4>4, <4>5
    <3>6. ASSUME NEW f \in S, rank[q] <= rank2[f] PROVE left[f] <= left[new]
      <4>1. rank[q] <= rank[f] BY <3>2, <3>3, <3>6
      <4>2. left[f] <= left[q] BY <1>11, <2>3, <4>1
      <4>3. left[f] \in Nat /\ left[q] \in Nat BY <1>11, <2>3
      <4> QED BY <1>15, <3>4, <4>2, <4>3
    <3>7. ASSUME NEW e \in S, NEW f \in S, rank2[e] <= rank2[f] PROVE left[f] <= left[e]
      <4>1. rank[e] <= rank[f] BY <3>2, <3>3, <3>7
      <4> QED BY <1>11, <4>1
    <3> TAKE e, f \in S2
    <3>8. CASE e \in S /\ f \in S BY <3>7, <3>8
    <3>9. CASE e \in S /\ f = new BY <3>2, <3>5, <3>9
    <3>10. CASE e = new /\ f \in S BY <3>2, <3>6, <3>10
    <3>11. CASE e = new /\ f = new BY <1>15, <3>11
    <3> QED BY <3>8, <3>9, <3>10, <3>11
  <2> QED BY <1>7, <2>2, <2>3
<1>20. \A e \in S2 : left[e] \in Nat /\ remaining[e] \in Nat /\ data[e] \in Targets /\ left[e] > 0
  BY <1>1, <1>8, <1>11, <1>15
<1>21. Counted(S2, rank2)'
  BY <1>1, <1>10, <1>13, <1>18, <1>19, <1>20 DEF Counted
<1>22. Ticking' /\ Working(S2)'
  BY <1>2, <1>10 DEF Ticking, Working, Searching
<1> QED BY <1>4, <1>21, <1>22 DEF Whole

\* The rank of what stays when the entry behind a cell goes.
Removed(S, rank, cell) ==
  [e \in Entries |->
     IF cell # HeadCell /\ e \in S /\ rank[cell] <= rank[e] /\ rank[e] > 0
       THEN rank[e] - 1 ELSE rank[e]]

LEMMA UnhookLists ==
  ASSUME Callers = {0}, TInv,
         NEW S \in SUBSET Entries, NEW F \in SUBSET Entries, NEW rank \in [Entries -> Nat],
         Whole(S, F, rank), Unhook(0),
         NEW S2, S2 = S \ {loc[0].entry},
         NEW rank2, rank2 = Removed(S, rank, loc[0].cell)
  PROVE  rank2 \in [Entries -> Nat] /\ Lists(S2, F, rank2)'
<1> DEFINE L == loc[0]
           x == L.entry
<1>1. /\ pc[0] = "unhook" /\ L.op = "cancel" /\ x \in Entries
      /\ next \in [Entries -> Pointers] /\ head \in Pointers /\ loc' = loc
      /\ pc' = [pc EXCEPT ![0] = "return"] /\ Store(L.cell, next[x])
      /\ UNCHANGED <<free, isr>>
  BY OneCaller DEF Unhook, Consistent, Goto
<1>2. pc'[0] = "return" BY <1>1, OneCaller
<1>3. pc[0] \in Searching BY <1>1 DEF Searching
<1>4. Hand = {} /\ Hand' = {x} BY <1>1, <1>2 DEF Hand
<1>5. Lists(S, F, rank) /\ Working(S) BY DEF Whole
<1>6. /\ ipc = "idle" /\ First = head /\ L.cell \in S \cup {HeadCell}
      /\ L.cell \in S => L.cell # HeadCell /\ Here = next[L.cell]
      /\ L.cell = HeadCell => Here = head
      /\ x = Here
  BY <1>1, <1>3, <1>5, HereIn DEF Working, Searching
<1>7. x # Null /\ x \in S
  BY <1>1, <1>3, <1>6, ListAssumption, HereIn
<1>8. First' = head' BY <1>1, <1>6 DEF First, isr
<1>9. Ranked(next, Null, head, S, rank) /\ Ranked(next, Null, free, F, rank)
  BY <1>5, <1>6 DEF Lists
<1>10. S \cap F = {} /\ S \cup F = Entries
  BY <1>4, <1>5 DEF Lists
<1>11. rank2 \in [Entries -> Nat]
  <2>1. \A e \in Entries : rank2[e] \in Nat
    BY DEF Removed
  <2> QED BY <2>1 DEF Removed
<1>12. \A e \in F : next'[e] = next[e] /\ rank2[e] = rank[e]
  <2> TAKE e \in F
  <2>1. e # L.cell /\ e \notin S /\ e \in Entries BY <1>6, <1>10, ListAssumption
  <2>2. next'[e] = next[e] BY <1>1, <2>1 DEF Store
  <2> QED BY <2>1, <2>2 DEF Removed
<1>13. Ranked(next', Null, free, F, rank2)
  BY <1>9, <1>12, RankedFrame
<1>14. Ranked(next', Null, head', S2, rank2)
  <2>1. CASE L.cell = HeadCell
    <3>1. x = head /\ head' = next[head] /\ next' = next BY <1>1, <1>6, <2>1 DEF Store
    <3>2. \A e \in S \ {head} : next'[e] = next[e] /\ rank2[e] = rank[e]
      BY <2>1, <3>1 DEF Removed
    <3>3. head # Null /\ S2 = S \ {head} BY <1>7, <3>1
    <3>4. Ranked(next, Null, head, S, rank) BY <1>9
    <3> HIDE DEF x
    <3>5. Ranked(next', Null, next[head], S \ {head}, rank2)
      <4>1. head # Null BY <3>3
      <4>2. /\ \A e \in S \ {head} : next'[e] = next[e]
            /\ \A e \in S \ {head} : rank2[e] = rank[e]
        BY <3>2
      <4> QED BY ONLY <3>4, <4>1, <4>2, RankedPop
    <3> QED BY <3>1, <3>3, <3>5
  <2>2. CASE L.cell \in S
    <3> DEFINE q == L.cell
    <3>1. q # HeadCell /\ x = next[q] BY <1>6, <2>2
    <3>2. head' = head /\ next' = [next EXCEPT ![q] = next[x]] BY <1>1, <3>1 DEF Store
    <3>3. next'[q] = next[x] /\ \A e \in S \ {q, x} : next'[e] = next[e]
      BY <1>1, <2>2, <3>2
    <3>4. rank[x] = rank[q] - 1 /\ rank[q] > 0
      <4>1. \A e \in S : next[e] # Null => rank[next[e]] = rank[e] - 1 /\ rank[e] > 0
        BY <1>5, ListLinks
      <4> QED BY <1>7, <2>2, <3>1, <4>1
    <3>5. \A e \in S : rank2[e] = IF rank[q] <= rank[e] THEN rank[e] - 1 ELSE rank[e]
      <4>1. rank[q] \in Nat /\ \A e \in S : rank[e] \in Nat BY <2>2
      <4> QED BY <3>1, <3>4, <4>1 DEF Removed
    <3>6. q \in S /\ x # Null /\ S2 = S \ {x} BY <1>7, <2>2
    <3> HIDE DEF x, q
    <3>7. Ranked(next', Null, head, S \ {x}, rank2)
      BY <1>9, <3>1, <3>3, <3>5, <3>6, RankedRemove
    <3> QED BY <3>2, <3>6, <3>7
  <2> QED BY <1>6, <2>1, <2>2
<1>15. S2 \cup F \cup {x} = Entries /\ S2 \cap F = {} /\ S2 \cap {x} = {} /\ F \cap {x} = {}
  BY <1>7, <1>10
<1> QED BY <1>1, <1>4, <1>8, <1>11, <1>13, <1>14, <1>15 DEF Lists

LEMMA UnhookKeep ==
  ASSUME Callers = {0}, TInv,
         NEW S \in SUBSET Entries, NEW F \in SUBSET Entries, NEW rank \in [Entries -> Nat],
         Whole(S, F, rank), Unhook(0),
         NEW S2, S2 = S \ {loc[0].entry},
         NEW rank2, rank2 = Removed(S, rank, loc[0].cell)
  PROVE  rank2 \in [Entries -> Nat] /\ Whole(S2, F, rank2)'
<1> DEFINE L == loc[0]
           x == L.entry
<1>1. /\ pc[0] = "unhook" /\ L.op = "cancel" /\ x \in Entries
      /\ next \in [Entries -> Pointers] /\ loc' = loc
      /\ pc' = [pc EXCEPT ![0] = "return"] /\ Store(L.cell, next[x])
      /\ UNCHANGED <<free, isr, remaining, left, data>>
  BY OneCaller DEF Unhook, Consistent, Goto
<1>2. pc'[0] = "return" BY <1>1, OneCaller
<1>3. pc[0] \in Searching BY <1>1 DEF Searching
<1>4. rank2 \in [Entries -> Nat] /\ Lists(S2, F, rank2)' BY UnhookLists
<1>5. Lists(S, F, rank) /\ Counted(S, rank) /\ Working(S) BY DEF Whole
<1>6. /\ ipc = "idle" /\ First = head /\ L.cell \in S \cup {HeadCell}
      /\ L.cell \in S => L.cell # HeadCell /\ Here = next[L.cell]
      /\ L.cell = HeadCell => Here = head
      /\ x = Here
  BY <1>1, <1>3, <1>5, HereIn DEF Working, Searching
<1>7. x # Null /\ x \in S /\ x # HeadCell
  BY <1>1, <1>3, <1>6, ListAssumption, HereIn
<1>8. First' = head' /\ ipc' = "idle" /\ nxt' = nxt BY <1>1, <1>6 DEF First, isr
<1>9. /\ \A e \in S : left[e] \in Nat /\ remaining[e] \in Nat /\ data[e] \in Targets
                      /\ left[e] > 0
      /\ \A e, f \in S : rank[e] <= rank[f] => left[f] <= left[e]
  BY <1>5, <1>6 DEF Counted
<1>10. From(x) = Base(L.cell) /\ \A y : y # x => From(y) = Base(y)
  BY <1>1 DEF From
<1>11. \A y : From(y)' = Base(y) BY <1>1, <1>2 DEF From, Base
<1>12. next[x] # Null => left[next[x]] = Base(L.cell) + remaining[next[x]]
  BY <1>5, <1>7, <1>10 DEF Counted
<1>13. /\ head' # Null => left[head'] = Base(HeadCell) + remaining[head']
       /\ \A e \in S2 : next'[e] # Null => left[next'[e]] = Base(e) + remaining[next'[e]]
  <2>1. CASE L.cell = HeadCell
    <3>1. head' = next[x] /\ next' = next BY <1>1, <2>1 DEF Store
    <3>2. ASSUME NEW e \in S2, next[e] # Null
          PROVE  left[next[e]] = Base(e) + remaining[next[e]]
      BY <1>5, <1>10, <3>2 DEF Counted
    <3> QED BY <1>12, <2>1, <3>1, <3>2
  <2>2. CASE L.cell \in S
    <3>1. L.cell # HeadCell BY <1>6, <2>2
    <3>2. head' = head /\ next' = [next EXCEPT ![L.cell] = next[x]] BY <1>1, <3>1 DEF Store
    <3>3. head' # Null => left[head'] = Base(HeadCell) + remaining[head']
      BY <1>5, <1>6, <1>7, <1>10, <3>2 DEF Counted
    <3>4. ASSUME NEW e \in S2, next'[e] # Null
          PROVE  left[next'[e]] = Base(e) + remaining[next'[e]]
      <4>1. CASE e = L.cell
        <5>1. next'[e] = next[x] BY <1>1, <2>2, <3>2, <4>1
        <5> QED BY <1>12, <3>4, <4>1, <5>1
      <4>2. CASE e # L.cell
        <5>1. next'[e] = next[e] /\ e \in S /\ e # x BY <1>1, <3>2, <4>2
        <5> QED BY <1>5, <1>10, <3>4, <5>1 DEF Counted
      <4> QED BY <4>1, <4>2
    <3> QED BY <3>3, <3>4
  <2> QED BY <1>6, <2>1, <2>2
<1>17. \A e \in S : next[e] # Null => rank[next[e]] = rank[e] - 1 /\ rank[e] > 0
  BY <1>5, ListLinks
<1>14. \A e, f \in S2 : rank2[e] <= rank2[f] => left[f] <= left[e]
  <2> DEFINE q == L.cell
  <2>1. \A e \in S : rank[e] \in Nat /\ e \in Entries OBVIOUS
  <2> SUFFICES ASSUME NEW e \in S2, NEW f \in S2, rank2[e] <= rank2[f]
               PROVE  rank[e] <= rank[f]
    BY <1>9
  <2>2. CASE q = HeadCell
    <3>1. rank2[e] = rank[e] /\ rank2[f] = rank[f] BY <2>1, <2>2 DEF Removed
    <3> QED BY <3>1
  <2>3. CASE q \in S
    <3>1. q # HeadCell /\ x = next[q] BY <1>6, <2>3
    <3>2. rank[x] = rank[q] - 1 /\ rank[q] > 0
      BY <1>7, <1>17, <2>3, <3>1
    <3>3. rank[q] \in Nat /\ rank[e] \in Nat /\ rank[f] \in Nat BY <2>1, <2>3
    <3>4. /\ rank2[e] = IF rank[q] <= rank[e] THEN rank[e] - 1 ELSE rank[e]
          /\ rank2[f] = IF rank[q] <= rank[f] THEN rank[f] - 1 ELSE rank[f]
      BY <2>1, <3>1, <3>2, <3>3 DEF Removed
    <3>5. rank[f] # rank[x]
      BY <1>5, <1>7 DEF Lists, Ranked
    <3> HIDE DEF q, x
    <3> QED BY <3>2, <3>3, <3>4, <3>5
  <2> QED BY <1>6, <2>2, <2>3
<1>15. Counted(S2, rank2)'
  BY <1>1, <1>8, <1>9, <1>11, <1>13, <1>14 DEF Counted
<1>16. Ticking' /\ Working(S2)'
  BY <1>2, <1>8 DEF Ticking, Working, Searching
<1> QED BY <1>4, <1>15, <1>16 DEF Whole

-----------------------------------------------------------------------------
(* The interrupt *)

\* It finds no operation under way, and leaves none.
LEMMA NoOperation ==
  ASSUME pc[0] = "idle", UNCHANGED tasks
  PROVE  /\ Hand = {} /\ Hand' = {}
         /\ \A x : From(x) = Base(x) /\ From(x)' = Base(x)'
         /\ \A S : Working(S)'
         /\ pc'[0] = "idle"
BY DEF tasks, Hand, From, Working, Searching

\* What waits is the list; while its head is posted and freed, what is behind it.
LEMMA WaitingIs ==
  ASSUME NEW S \in SUBSET Entries, NEW F \in SUBSET Entries, NEW rank \in [Entries -> Nat],
         Whole(S, F, rank)
  PROVE  Waiting = IF ipc \in {"next", "free"} THEN S \ {head} ELSE S
<1>1. Lists(S, F, rank) /\ Ticking BY DEF Whole
<1>2. Chain(First) = S BY <1>1, ListSets
<1>3. CASE ipc \in {"next", "free"}
  <2>1. First = head /\ head # Null BY <1>1, <1>3 DEF First, Ticking
  <2>2. Ranked(next, Null, head, S, rank) BY <1>1, <2>1 DEF Lists
  <2>3. \A e \in S \ {head} : next[e] = next[e] /\ rank[e] = rank[e] OBVIOUS
  <2>4. Ranked(next, Null, next[head], S \ {head}, rank)
    BY <2>1, <2>2, <2>3, RankedPop
  <2>5. IsFiniteSet(Entries) /\ S \ {head} \subseteq Entries BY PoolFinite
  <2>6. Chain(next[head]) = S \ {head} BY <2>4, <2>5, RankedChain DEF Chain
  <2>7. Waiting = Chain(next[head])
    <3>1. ipc = "free" => nxt = next[head] BY <1>1 DEF Ticking
    <3> HIDE DEF Chain
    <3> QED BY <1>3, <3>1 DEF Waiting
  <2> QED BY <1>3, <2>6, <2>7
<1>4. CASE ipc \notin {"next", "free"}
  <2>1. Waiting = Chain(First)
    BY <1>4 DEF Waiting, First
  <2> QED BY <1>2, <1>4, <2>1
<1> QED BY <1>3, <1>4

LEMMA WaitingAll ==
  \A A \in SUBSET Entries, B \in SUBSET Entries, r \in [Entries -> Nat] :
    Whole(A, B, r) => Waiting = IF ipc \in {"next", "free"} THEN A \ {head} ELSE A
BY WaitingIs

\* The steps that move no entry.
LEMMA TickKeep ==
  ASSUME Callers = {0}, TInv,
         NEW S \in SUBSET Entries, NEW F \in SUBSET Entries, NEW rank \in [Entries -> Nat],
         Whole(S, F, rank),
         TickHead \/ TickDecrement \/ TickPost \/ TickDone \/ TickNext
  PROVE  Whole(S, F, rank)'
<1>1. Lists(S, F, rank) /\ Counted(S, rank) /\ Ticking BY DEF Whole
<1>2. pc[0] = "idle" /\ UNCHANGED <<tasks, head, free, next, data>>
  BY <1>1 DEF TickHead, TickDecrement, TickPost, TickDone, TickNext, InterruptsOn, Ticking
<1>3. /\ Hand = {} /\ Hand' = {}
      /\ \A x : From(x) = Base(x) /\ From(x)' = Base(x)'
      /\ Working(S)'
      /\ pc'[0] = "idle"
  BY <1>2, NoOperation
<1>4. ipc # "advance" /\ ipc' # "advance"
  BY DEF TickHead, TickDecrement, TickPost, TickDone, TickNext, isr
<1>5. First = head /\ First' = head BY <1>2, <1>4 DEF First
<1>6. Lists(S, F, rank)' BY <1>1, <1>2, <1>3, <1>5 DEF Lists
<1>7. /\ head = Null => S = {}
      /\ head # Null => head \in S /\ \A e \in S : rank[e] <= rank[head]
      /\ \A e \in S : next[e] # Null => next[e] \in S /\ next[e] # head
  BY <1>1, <1>5, ListLinks
<1>8. /\ \A e \in S : left[e] \in Nat /\ remaining[e] \in Nat /\ data[e] \in Targets
                      /\ Base(e) = left[e]
      /\ Base(HeadCell) = 0
      /\ ipc \in {"idle", "decrement"} => \A e \in S : left[e] > 0
      /\ head # Null => left[head] = remaining[head]
      /\ \A e \in S : next[e] # Null => left[next[e]] = left[e] + remaining[next[e]]
      /\ \A e, f \in S : rank[e] <= rank[f] => left[f] <= left[e]
  <2>1. \A e \in S : e # HeadCell BY ListAssumption
  <2>2. (\A e \in S : Base(e) = left[e]) /\ Base(HeadCell) = 0 BY <2>1 DEF Base
  <2>3. head # Null => left[head] = 0 + remaining[head] /\ remaining[head] \in Nat
    BY <1>1, <1>3, <1>5, <1>7, <2>2 DEF Counted
  <2> QED BY <1>1, <1>3, <2>2, <2>3 DEF Counted
\* What is to be shown when the times change.
<1>9. SUFFICES /\ Ticking'
               /\ \A e \in S : left'[e] \in Nat /\ remaining'[e] \in Nat
               /\ ipc' \in {"idle", "decrement"} => \A e \in S : left'[e] > 0
               /\ head # Null => left'[head] = remaining'[head]
               /\ \A e \in S : next[e] # Null => left'[next[e]] = left'[e] + remaining'[next[e]]
               /\ \A e, f \in S : rank[e] <= rank[f] => left'[f] <= left'[e]
  <2>1. \A e \in S : e # HeadCell BY ListAssumption
  <2>2. (\A e \in S : Base(e)' = left'[e]) /\ Base(HeadCell)' = 0 BY <2>1 DEF Base
  <2>3. head # Null => left'[head] = 0 + remaining'[head] BY <1>7, <1>9
  <2>4. Counted(S, rank)' BY <1>2, <1>3, <1>5, <1>8, <1>9, <2>2, <2>3 DEF Counted
  <2> QED BY <1>3, <1>6, <1>9, <2>4 DEF Whole
<1>10. CASE TickHead
  <2>1. CASE head = Null
    <3>1. S = {} /\ UNCHANGED isr BY <1>7, <1>10, <2>1 DEF TickHead
    <3> QED BY <1>1, <1>3, <2>1, <3>1 DEF Ticking, isr
  <2>2. CASE head # Null
    BY <1>2, <1>3, <1>8, <1>10, <2>2 DEF TickHead, Ticking
  <2> QED BY <2>1, <2>2
<1>11. CASE TickDecrement
  <2>1. ipc = "decrement" /\ nxt = head /\ head # Null /\ head \in S
    BY <1>1, <1>7, <1>11 DEF TickDecrement, Ticking
  <2>2. Waiting = S BY <2>1, WaitingIs
  <2>3. left' = [e \in Entries |-> IF e \in S THEN left[e] - 1 ELSE 0]
    BY <1>11, <2>2 DEF TickDecrement, Passed
  <2>4. \A e \in S : left'[e] = left[e] - 1 /\ left[e] > 0 /\ left[e] \in Nat
    BY <1>8, <2>1, <2>3
  <2>5. /\ remaining'[head] = remaining[head] - 1
        /\ \A e \in S : e # head => remaining'[e] = remaining[e]
    <3>1. remaining \in [Entries -> Int] BY DEF TInv, TypeOK
    <3>2. remaining' = [remaining EXCEPT ![head] = remaining[head] - 1]
      BY <1>11, <2>1 DEF TickDecrement
    <3> QED BY <2>1, <3>1, <3>2
  <2>6. left'[head] = remaining'[head] /\ remaining'[head] \in Nat
    BY <1>8, <2>1, <2>4, <2>5
  <2>7. \A e \in S : left'[e] \in Nat /\ remaining'[e] \in Nat
    BY <1>8, <2>4, <2>5, <2>6
  <2>8. \A e \in S : next[e] # Null => left'[next[e]] = left'[e] + remaining'[next[e]]
    BY <1>7, <1>8, <2>4, <2>5
  <2>9. \A e, f \in S : rank[e] <= rank[f] => left'[f] <= left'[e]
    BY <1>8, <2>4
  <2>10. /\ ipc' = IF remaining'[head] <= 0 THEN "test" ELSE "idle"
         /\ nxt' = Null
    BY <1>11, <2>1 DEF TickDecrement
  <2>11. ipc' = "idle" => \A e \in S : left'[e] > 0
    <3> SUFFICES ASSUME ipc' = "idle", NEW e \in S PROVE left'[e] > 0 OBVIOUS
    <3>1. left'[head] > 0 BY <2>6, <2>10
    <3>2. left'[head] <= left'[e] BY <1>7, <2>1, <2>9
    <3> QED BY <2>1, <2>7, <3>1, <3>2
  <2>12. Ticking' BY <1>3, <2>10 DEF Ticking
  <2>13. ipc' # "decrement" BY <2>10
  <2> QED BY <2>6, <2>7, <2>8, <2>9, <2>11, <2>12, <2>13
<1>12. CASE TickPost
  <2>1. left[head] = 0 /\ head # Null
    BY <1>7, <1>8, <1>12 DEF TickPost
  <2>2. ipc' = "next" /\ UNCHANGED <<remaining, left, nxt>> BY <1>12 DEF TickPost
  <2>3. Ticking' BY <1>2, <1>3, <2>1, <2>2 DEF Ticking
  <2> QED BY <1>8, <2>2, <2>3
<1>13. CASE TickDone
  <2>1. ipc' = "idle" /\ UNCHANGED <<remaining, left, nxt>> BY <1>13 DEF TickDone
  <2>2. ASSUME NEW e \in S PROVE left[e] > 0
    <3>1. head # Null /\ head \in S BY <1>7
    <3>2. left[head] > 0 /\ left[head] <= left[e] BY <1>7, <1>8, <1>13, <3>1 DEF TickDone
    <3> QED BY <1>8, <3>1, <3>2
  <2>3. Ticking' BY <1>3, <2>1 DEF Ticking
  <2> QED BY <1>8, <2>1, <2>2, <2>3
<1>14. CASE TickNext
  <2>1. ipc = "next" /\ ipc' = "free" /\ UNCHANGED <<remaining, left>> BY <1>14 DEF TickNext
  <2>2. head # Null /\ left[head] = 0 BY <1>1, <2>1 DEF Ticking
  <2>3. nxt' = next[head] BY <1>14, <2>2 DEF TickNext
  <2>4. Ticking' BY <1>2, <1>3, <2>1, <2>2, <2>3 DEF Ticking
  <2> QED BY <1>8, <2>1, <2>4
<1> QED BY <1>10, <1>11, <1>12, <1>13, <1>14

\* The head goes back to the pool; the list begins behind it.
LEMMA TickFreeKeep ==
  ASSUME Callers = {0}, TInv,
         NEW S \in SUBSET Entries, NEW F \in SUBSET Entries, NEW rank \in [Entries -> Nat],
         Whole(S, F, rank), TickFree,
         NEW S2, S2 = S \ {head}, NEW F2, F2 = F \cup {head},
         NEW rank2 \in [Entries -> Nat],
         rank2[head] = IF free = Null THEN 0 ELSE rank[free] + 1,
         \A e \in Entries \ {head} : rank2[e] = rank[e]
  PROVE  Whole(S2, F2, rank2)'
<1>1. Lists(S, F, rank) /\ Counted(S, rank) /\ Ticking BY DEF Whole
<1>2. /\ ipc = "free" /\ head # Null /\ left[head] = 0 /\ nxt = next[head] /\ pc[0] = "idle"
  BY <1>1 DEF TickFree, Ticking
<1>3. /\ next \in [Entries -> Pointers]
      /\ ipc' = "advance" /\ next' = [next EXCEPT ![head] = free] /\ free' = head
      /\ UNCHANGED <<head, remaining, data, tasks, nxt, left>>
  BY <1>2, OneCaller DEF TickFree, FreeListed
<1>4. /\ Hand = {} /\ Hand' = {}
      /\ \A x : From(x) = Base(x) /\ From(x)' = Base(x)'
      /\ Working(S2)'
      /\ pc'[0] = "idle"
  BY <1>2, <1>3, NoOperation
<1>5. First = head /\ First' = next[head] BY <1>2, <1>3 DEF First
<1>6. head \in S /\ head \notin F /\ head \in Entries
  BY <1>1, <1>2, <1>5, ListLinks DEF Lists
<1>7. \A x : Base(x)' = Base(x) BY <1>3 DEF Base
<1>8. Base(HeadCell) = 0 /\ Base(head) = 0 /\ \A e \in S : Base(e) = left[e]
  BY <1>2, <1>6, ListAssumption DEF Base
<1>9. Lists(S2, F2, rank2)'
  <2>1. Ranked(next, Null, head, S, rank) /\ Ranked(next, Null, free, F, rank)
    BY <1>1, <1>5 DEF Lists
  <2>2. Ranked(next', Null, next[head], S2, rank2)
    <3>1. \A e \in S \ {head} : next'[e] = next[e] /\ rank2[e] = rank[e] BY <1>3
    <3> QED BY <1>2, <2>1, <3>1, RankedPop
  <2>3. Ranked(next', Null, head, F2, rank2)
    <3>1. \A e \in F : next'[e] = next[e] /\ rank2[e] = rank[e] BY <1>3, <1>6
    <3>2. next'[head] = free BY <1>3, <1>6
    <3> QED BY <1>2, <1>6, <2>1, <3>1, <3>2, RankedPush
  <2> QED BY <1>1, <1>3, <1>4, <1>5, <1>6, <2>2, <2>3 DEF Lists
<1>10. \A e \in S2 : next'[e] = next[e] /\ rank2[e] = rank[e] /\ e \in S BY <1>3
<1>11. First' # Null => left'[First'] = From(HeadCell)' + remaining'[First']
  BY <1>1, <1>3, <1>4, <1>5, <1>6, <1>7, <1>8 DEF Counted
<1>12. Counted(S2, rank2)'
  <2>1. \A e \in S2 : next'[e] # Null => left'[next'[e]] = From(e)' + remaining'[next'[e]]
    BY <1>1, <1>3, <1>4, <1>7, <1>10 DEF Counted
  <2>2. \A e, f \in S2 : rank2[e] <= rank2[f] => left'[f] <= left'[e]
    BY <1>1, <1>3, <1>10 DEF Counted
  <2>3. \A e \in S2 : left'[e] \in Nat /\ remaining'[e] \in Nat /\ data'[e] \in Targets
    BY <1>1, <1>3 DEF Counted
  <2> QED BY <1>3, <1>11, <2>1, <2>2, <2>3 DEF Counted
<1>13. Ticking' BY <1>2, <1>3, <1>4 DEF Ticking
<1> QED BY <1>4, <1>6, <1>9, <1>12, <1>13 DEF Whole

LEMMA TickAdvanceKeep ==
  ASSUME Callers = {0}, TInv,
         NEW S \in SUBSET Entries, NEW F \in SUBSET Entries, NEW rank \in [Entries -> Nat],
         Whole(S, F, rank), TickAdvance
  PROVE  Whole(S, F, rank)'
<1>1. Lists(S, F, rank) /\ Counted(S, rank) /\ Ticking BY DEF Whole
<1>2. /\ ipc = "advance" /\ pc[0] = "idle" /\ ipc' = "test" /\ head' = nxt
      /\ UNCHANGED <<free, next, remaining, data, tasks, left>>
  BY <1>1 DEF TickAdvance, Ticking, Advanced
<1>3. /\ Hand = {} /\ Hand' = {}
      /\ \A x : From(x) = Base(x) /\ From(x)' = Base(x)'
      /\ Working(S)'
      /\ pc'[0] = "idle"
  BY <1>2, NoOperation
<1>4. First' = First BY <1>2 DEF First
<1>5. \A x : Base(x)' = Base(x) BY <1>2 DEF Base
<1>6. Lists(S, F, rank)' BY <1>1, <1>2, <1>3, <1>4 DEF Lists
<1>7. Counted(S, rank)' BY <1>1, <1>2, <1>3, <1>4, <1>5 DEF Counted
<1>8. Ticking' BY <1>2, <1>3 DEF Ticking
<1> QED BY <1>3, <1>6, <1>7, <1>8 DEF Whole

-----------------------------------------------------------------------------
(* Every step *)

\* What waits of a list that holds S.
Waits(S) == IF ipc \in {"next", "free"} THEN S \ {head} ELSE S

Same(W) == \A e \in W : data'[e] = data[e] /\ left'[e] = left[e]

\* What a step does to the messages that wait, W before it and W2 after it: nothing,
\* one more, one less, one posted at its time, or a millisecond for all of them.
Outcome(W, W2) ==
  \/ W2 = W /\ Same(W) /\ posted' = NoMessage
  \/ \E x \in Entries \ W : /\ W2 = W \cup {x} /\ Same(W)
                            /\ data'[x] \in Targets /\ left'[x] \in Delays
                            /\ posted' = NoMessage
  \/ \E x \in W : W2 = W \ {x} /\ Same(W2) /\ posted' = NoMessage
  \/ \E x \in W : W2 = W \ {x} /\ Same(W2) /\ left[x] = 0 /\ posted' = data[x]
  \/ /\ W2 = W /\ posted' = NoMessage
     /\ \A e \in W : data'[e] = data[e] /\ left[e] > 0 /\ left'[e] = left[e] - 1

LEMMA TaskStep ==
  ASSUME Callers = {0}, TInv, 0 \notin Delays,
         NEW S \in SUBSET Entries, NEW F \in SUBSET Entries, NEW rank \in [Entries -> Nat],
         Whole(S, F, rank), NEW c \in Callers,
         \/ \E m \in Targets, ms \in Delays : Begin(c, "schedule", m, ms)
         \/ c \in Cancellers /\ \E m \in Targets : Begin(c, "cancel", m, 0)
         \/ Lock(c) \/ Alloc(c) \/ Load(c) \/ CompareTime(c) \/ Charge(c)
         \/ Pass(c) \/ Link(c) \/ Hook(c)
         \/ CompareMessage(c) \/ Give(c) \/ Unhook(c) \/ Return(c)
         \/ Unlock(c)
  PROVE  \E S2 \in SUBSET Entries, F2 \in SUBSET Entries, rank2 \in [Entries -> Nat] :
            Whole(S2, F2, rank2)' /\ Outcome(Waits(S), Waits(S2)')
<1>1. c = 0 OBVIOUS
<1>2. /\ Lists(S, F, rank) /\ Counted(S, rank) /\ Ticking /\ Working(S) /\ Consistent(0)
      /\ left \in [Entries -> Int] /\ data \in [Entries -> Targets \cup {NoMessage}]
      /\ free # Null => free \in F /\ free \in Entries /\ free \notin S
  <2>1. free # Null => free \in F BY DEF Whole, Lists, Ranked
  <2>2. free # Null => free \notin S BY <2>1 DEF Whole, Lists
  <2> QED BY <2>1, <2>2, OneCaller DEF Whole
\* No operation is under way in the interrupt.
<1>3. /\ ipc = "idle" /\ UNCHANGED isr /\ posted' = NoMessage
  BY <1>1, <1>2 DEF Begin, Lock, Alloc, Load, CompareTime, Charge, Pass, Link, Hook,
                    CompareMessage, Give, Unhook, Return, Unlock, Locally, ChangeRemaining,
                    Ticking
<1>4. \A T : Waits(T) = T /\ Waits(T)' = T BY <1>3 DEF Waits, isr
<1>5. CASE \/ \E m \in Targets, ms \in Delays : Begin(0, "schedule", m, ms)
           \/ \E m \in Targets : Begin(0, "cancel", m, 0)
           \/ Lock(0) \/ (Alloc(0) /\ free = Null) \/ Unlock(0)
  <2>1. Whole(S, F, rank)' BY <1>5, BeginLockKeep
  <2>2. Same(S)
    BY <1>5 DEF Same, Begin, Lock, Alloc, Unlock, Locally
  <2> QED BY <1>3, <1>4, <2>1, <2>2 DEF Outcome
<1>6. CASE \/ Load(0) \/ CompareTime(0) \/ CompareMessage(0)
           \/ (Give(0) /\ next[loc[0].entry] = Null)
  <2>1. Whole(S, F, rank)' BY <1>6, SearchKeep
  <2>2. Same(S)
    BY <1>6 DEF Same, Load, CompareTime, CompareMessage, Give, Locally
  <2> QED BY <1>3, <1>4, <2>1, <2>2 DEF Outcome
<1>7. CASE Charge(0) \/ Pass(0) \/ (Give(0) /\ next[loc[0].entry] # Null) \/ Link(0)
  <2>1. Whole(S, F, rank)' BY <1>7, ChargeKeep, PassKeep, GiveKeep, LinkKeep
  <2>2. Same(S)
    BY <1>7 DEF Same, Charge, Pass, Give, Link, ChangeRemaining
  <2> QED BY <1>3, <1>4, <2>1, <2>2 DEF Outcome
<1>8. CASE Alloc(0) /\ free # Null
  <2>1. PICK F2 : F2 = F \ {free} OBVIOUS
  <2>2. Whole(S, F2, rank)' BY <1>8, <2>1, AllocKeep
  <2>3. Same(S) BY <1>2, <1>8 DEF Same, Alloc
  <2>4. F2 \in SUBSET Entries BY <2>1
  <2> QED BY <1>3, <1>4, <2>2, <2>3, <2>4 DEF Outcome
<1>9. CASE Hook(0)
  <2>1. PICK x, S2, rank2 : /\ x = loc[0].new /\ S2 = S \cup {x}
                            /\ rank2 = Inserted(S, rank, loc[0].new, loc[0].cell)
    OBVIOUS
  <2>2. rank2 \in [Entries -> Nat] /\ Whole(S2, F, rank2)' BY <1>9, <2>1, HookKeep
  <2>3. /\ pc[0] = "hook" /\ loc[0].op = "schedule" /\ x \in Entries
        /\ loc[0].ms \in Delays /\ loc[0].target \in Targets
        /\ UNCHANGED <<data, left>>
    BY <1>2, <1>9, <2>1 DEF Hook, Consistent
  <2>4. left[x] = loc[0].ms /\ data[x] = loc[0].target
    BY <1>2, <2>1, <2>3 DEF Working, Searching
  <2>5. Hand = {x} BY <2>1, <2>3 DEF Hand
  <2>6. x \in Entries \ S BY <1>2, <2>3, <2>5 DEF Lists
  <2>7. Same(S) /\ data'[x] \in Targets /\ left'[x] \in Delays BY <2>3, <2>4 DEF Same
  <2>8. Outcome(Waits(S), Waits(S2)') BY <1>3, <1>4, <2>1, <2>6, <2>7 DEF Outcome
  <2>9. S2 \in SUBSET Entries BY <2>1, <2>6
  <2> QED BY <2>2, <2>8, <2>9
<1>10. CASE Unhook(0)
  <2>1. PICK x, S2, rank2 : /\ x = loc[0].entry /\ S2 = S \ {x}
                            /\ rank2 = Removed(S, rank, loc[0].cell)
    OBVIOUS
  <2>2. rank2 \in [Entries -> Nat] /\ Whole(S2, F, rank2)' BY <1>10, <2>1, UnhookKeep
  <2>3. pc[0] = "unhook" /\ x \in Entries /\ UNCHANGED <<data, left>>
    BY <1>2, <1>10, <2>1 DEF Unhook, Consistent
  <2>4. pc[0] \in Searching BY <2>3 DEF Searching
  <2>5. x = Here /\ Here \in S \cup {Null}
    BY <1>2, <2>1, <2>3, <2>4, HereIn DEF Working, Searching
  <2>6. x \in S BY <2>3, <2>5, ListAssumption
  <2>7. Same(S2) BY <2>3 DEF Same
  <2>8. Outcome(Waits(S), Waits(S2)') BY <1>3, <1>4, <2>1, <2>6, <2>7 DEF Outcome
  <2>9. S2 \in SUBSET Entries BY <2>1
  <2> QED BY <2>2, <2>8, <2>9
<1>11. CASE Return(0)
  <2>1. PICK x, F2, rank2 :
          /\ x = loc[0].entry /\ F2 = F \cup {x}
          /\ rank2 = [rank EXCEPT ![x] = IF free = Null THEN 0 ELSE rank[free] + 1]
    OBVIOUS
  <2>2. x \in Entries /\ UNCHANGED <<data, left>>
    BY <1>2, <1>11, <2>1 DEF Return, Consistent
  <2>3. (IF free = Null THEN 0 ELSE rank[free] + 1) \in Nat BY <1>2
  <2>4. /\ rank2 \in [Entries -> Nat]
        /\ rank2[x] = IF free = Null THEN 0 ELSE rank[free] + 1
        /\ \A e \in Entries \ {x} : rank2[e] = rank[e]
    BY <2>1, <2>2, <2>3
  <2>5. Whole(S, F2, rank2)' BY <1>11, <2>1, <2>4, ReturnKeep
  <2>6. F2 \in SUBSET Entries /\ Same(S) BY <2>1, <2>2 DEF Same
  <2>7. Outcome(Waits(S), Waits(S)') BY <1>3, <1>4, <2>6 DEF Outcome
  <2> QED BY <2>4, <2>5, <2>6, <2>7
<1> QED BY <1>1, <1>5, <1>6, <1>7, <1>8, <1>9, <1>10, <1>11

LEMMA IsrStep ==
  ASSUME Callers = {0}, TInv,
         NEW S \in SUBSET Entries, NEW F \in SUBSET Entries, NEW rank \in [Entries -> Nat],
         Whole(S, F, rank),
         TickHead \/ TickDecrement \/ TickPost \/ TickDone
           \/ TickNext \/ TickFree \/ TickAdvance
  PROVE  \E S2 \in SUBSET Entries, F2 \in SUBSET Entries, rank2 \in [Entries -> Nat] :
            Whole(S2, F2, rank2)' /\ Outcome(Waits(S), Waits(S2)')
<1>1. Lists(S, F, rank) /\ Counted(S, rank) /\ Ticking BY DEF Whole
<1>2. CASE TickHead
  <2>1. Whole(S, F, rank)' BY <1>2, TickKeep
  <2>2. Waits(S) = S /\ Waits(S)' = S /\ posted' = NoMessage /\ data' = data
    BY <1>2 DEF Waits, TickHead, isr
  <2>3. Same(S)
    <3>1. CASE head = Null
      <4>1. First = head BY <1>2 DEF First, TickHead
      <4>2. S = {} BY <1>1, <3>1, <4>1, ListLinks
      <4> QED BY <4>2 DEF Same
    <3>2. CASE head # Null BY <1>2, <3>2 DEF Same, TickHead
    <3> QED BY <3>1, <3>2
  <2> QED BY <2>1, <2>2, <2>3 DEF Outcome
<1>3. CASE TickDecrement
  <2>1. Whole(S, F, rank)' BY <1>3, TickKeep
  <2>2. Waits(S) = S /\ Waits(S)' = S /\ posted' = NoMessage /\ data' = data /\ ipc = "decrement"
    BY <1>3 DEF Waits, TickDecrement
  <2>3. Waiting = S BY <2>2, WaitingIs
  <2>4. left' = [e \in Entries |-> IF e \in S THEN left[e] - 1 ELSE 0]
    BY <1>3, <2>3 DEF TickDecrement, Passed
  <2>5. \A e \in S : left[e] > 0 BY <1>1, <2>2 DEF Counted
  <2> QED BY <2>1, <2>2, <2>4, <2>5 DEF Outcome
<1>4. CASE TickPost
  <2>1. Whole(S, F, rank)' BY <1>4, TickKeep
  <2>2. /\ ipc = "test" /\ ipc' = "next" /\ head # Null
        /\ posted' = data[head] /\ UNCHANGED <<data, left, head>>
    BY <1>4 DEF TickPost
  <2>3. First = head BY <2>2 DEF First
  <2>4. head \in S BY <1>1, <2>2, <2>3, ListLinks
  <2>5. left[head] = 0 BY <2>1, <2>2 DEF Whole, Ticking
  <2>6. PICK x : x = head OBVIOUS
  <2>7. Waits(S) = S /\ Waits(S)' = S \ {x} /\ Same(S) BY <2>2, <2>6 DEF Waits, Same
  <2>8. Same(S \ {x}) BY <2>7 DEF Same
  <2>9. Outcome(S, S \ {x}) BY <2>2, <2>4, <2>5, <2>6, <2>8 DEF Outcome
  <2> QED BY <2>1, <2>7, <2>9
<1>5. CASE TickDone
  <2>1. Whole(S, F, rank)' BY <1>5, TickKeep
  <2>2. Waits(S) = S /\ Waits(S)' = S /\ posted' = NoMessage /\ UNCHANGED <<data, left>>
    BY <1>5 DEF Waits, TickDone
  <2> QED BY <2>1, <2>2 DEF Outcome, Same
<1>6. CASE TickNext
  <2>1. Whole(S, F, rank)' BY <1>6, TickKeep
  <2>2. Waits(S)' = Waits(S) /\ posted' = NoMessage /\ UNCHANGED <<data, left>>
    BY <1>6 DEF Waits, TickNext
  <2> QED BY <2>1, <2>2 DEF Outcome, Same
<1>7. CASE TickFree
  <2>1. PICK x, S2, F2, rank2 :
          /\ x = head /\ S2 = S \ {x} /\ F2 = F \cup {x}
          /\ rank2 = [rank EXCEPT ![x] = IF free = Null THEN 0 ELSE rank[free] + 1]
    OBVIOUS
  <2>2. ipc = "free" /\ head # Null BY <1>1, <1>7 DEF TickFree, Ticking
  <2>3. x \in Entries /\ x \in S
    <3>1. First = head BY <2>2 DEF First
    <3> QED BY <1>1, <2>1, <2>2, <3>1, ListLinks
  <2>4. (IF free = Null THEN 0 ELSE rank[free] + 1) \in Nat
    <3>1. free # Null => free \in Entries BY <1>1 DEF Lists, Ranked
    <3> QED BY <3>1
  <2>5. /\ rank2 \in [Entries -> Nat]
        /\ rank2[x] = IF free = Null THEN 0 ELSE rank[free] + 1
        /\ \A e \in Entries \ {x} : rank2[e] = rank[e]
    BY <2>1, <2>3, <2>4
  <2>6. Whole(S2, F2, rank2)' BY <1>7, <2>1, <2>5, TickFreeKeep
  <2>10. S2 \in SUBSET Entries /\ F2 \in SUBSET Entries BY <2>1, <2>3
  <2>7. ipc' = "advance" /\ posted' = NoMessage /\ UNCHANGED <<data, left>>
    BY <1>7, <2>2 DEF TickFree
  <2>8. Waits(S) = S2 /\ Waits(S2)' = S2 BY <2>1, <2>2, <2>7 DEF Waits
  <2>9. Outcome(Waits(S), Waits(S2)') BY <2>7, <2>8 DEF Outcome, Same
  <2> QED BY <2>5, <2>6, <2>9, <2>10
<1>8. CASE TickAdvance
  <2>1. Whole(S, F, rank)' BY <1>8, TickAdvanceKeep
  <2>2. Waits(S) = S /\ Waits(S)' = S /\ posted' = NoMessage /\ UNCHANGED <<data, left>>
    BY <1>8 DEF Waits, TickAdvance
  <2> QED BY <2>1, <2>2 DEF Outcome, Same
<1> QED BY <1>2, <1>3, <1>4, <1>5, <1>6, <1>7, <1>8

LEMMA WholeStep ==
  ASSUME Callers = {0}, TInv, 0 \notin Delays, Next,
         NEW S \in SUBSET Entries, NEW F \in SUBSET Entries, NEW rank \in [Entries -> Nat],
         Whole(S, F, rank)
  PROVE  \E S2 \in SUBSET Entries, F2 \in SUBSET Entries, rank2 \in [Entries -> Nat] :
            Whole(S2, F2, rank2)' /\ Outcome(Waits(S), Waits(S2)')
<1>1. CASE \E c \in Callers :
             \/ \E m \in Targets, ms \in Delays : Begin(c, "schedule", m, ms)
             \/ c \in Cancellers /\ \E m \in Targets : Begin(c, "cancel", m, 0)
             \/ Lock(c) \/ Alloc(c) \/ Load(c) \/ CompareTime(c) \/ Charge(c)
             \/ Pass(c) \/ Link(c) \/ Hook(c)
             \/ CompareMessage(c) \/ Give(c) \/ Unhook(c) \/ Return(c)
             \/ Unlock(c)
  BY <1>1, TaskStep
<1>2. CASE TickHead \/ TickDecrement \/ TickPost \/ TickDone
             \/ TickNext \/ TickFree \/ TickAdvance
  BY <1>2, IsrStep
<1> QED BY <1>1, <1>2 DEF Next

LEMMA WholeStutter ==
  ASSUME UNCHANGED vars,
         NEW S \in SUBSET Entries, NEW F \in SUBSET Entries, NEW rank \in [Entries -> Nat],
         Whole(S, F, rank)
  PROVE  Whole(S, F, rank)'
<1>1. UNCHANGED <<head, free, next, remaining, data, sm_mutex, pc, loc, ipc, nxt, left>>
  BY DEF vars, tasks, isr
<1>2. First' = First /\ Hand' = Hand /\ Here' = Here BY <1>1 DEF First, Hand, Here, At
<1>3. \A x : From(x)' = From(x) /\ Base(x)' = Base(x) BY <1>1 DEF From, Base
<1>4. Lists(S, F, rank)' BY <1>1, <1>2 DEF Whole, Lists
<1>5. Counted(S, rank)' BY <1>1, <1>2, <1>3 DEF Whole, Counted
<1>6. Ticking' BY <1>1 DEF Whole, Ticking
<1>7. Working(S)' BY <1>1, <1>2, <1>3 DEF Whole, Working
<1> QED BY <1>4, <1>5, <1>6, <1>7 DEF Whole

LEMMA IInvStep ==
  ASSUME Callers = {0}, 0 \notin Delays, IInv, [Next]_vars
  PROVE  IInv'
<1>1. TInv' BY TInvStep DEF IInv
<1>2. TInv BY DEF IInv
<1>3. PICK S \in SUBSET Entries, F \in SUBSET Entries, rank \in [Entries -> Nat] :
         Whole(S, F, rank)
  BY DEF IInv
<1>4. CASE Next BY <1>1, <1>2, <1>3, <1>4, WholeStep DEF IInv
<1>5. CASE UNCHANGED vars BY <1>1, <1>3, <1>5, WholeStutter DEF IInv
<1> QED BY <1>4, <1>5

LEMMA IInvAlways ==
  ASSUME Callers = {0}, 0 \notin Delays
  PROVE  Spec => []IInv
<1>1. Init => IInv BY WholeInit
<1>2. IInv /\ [Next]_vars => IInv' BY IInvStep
<1> QED BY <1>1, <1>2, PTL DEF Spec

LEMMA WholeIntact ==
  ASSUME Callers = {0}, IInv
  PROVE  ListIntact
<1>1. PICK S \in SUBSET Entries, F \in SUBSET Entries, rank \in [Entries -> Nat] :
         Whole(S, F, rank)
  BY DEF IInv
<1>2. ipc # "panic" BY <1>1 DEF Whole, Ticking
<1>3. ASSUME sm_mutex = NoCore, ipc = "idle"
      PROVE  /\ Ends(head) /\ Ends(free)
             /\ Chain(head) \cap Chain(free) = {}
             /\ Chain(head) \cup Chain(free) = Entries
  <2>1. pc[0] \in {"idle", "lock"}
    <3>1. sm_mutex # 0 BY <1>3 DEF NoCore
    <3> QED BY <3>1, OneCaller DEF IInv
  <2>2. Hand = {} /\ First = head BY <1>3, <2>1 DEF Hand, First
  <2>3. Lists(S, F, rank) BY <1>1 DEF Whole
  <2>4. Chain(head) = S /\ Ends(head) /\ Chain(free) = F /\ Ends(free)
    BY <2>2, <2>3, ListSets
  <2>5. S \cup F = Entries /\ S \cap F = {} BY <2>2, <2>3 DEF Lists
  <2> HIDE DEF Chain, Ends
  <2> QED BY <2>4, <2>5
<1> QED BY <1>2, <1>3 DEF ListIntact

\* With callers on the core of the interrupt alone, no interleaving of their statements
\* with it loses an entry of the pool, links one twice or leaves a freed one reachable.
THEOREM ListStaysIntact ==
  ASSUME Callers = {0}, 0 \notin Delays
  PROVE  Spec => []ListIntact
<1>1. Spec => []IInv BY IInvAlways
<1>2. IInv => ListIntact BY WholeIntact
<1> QED BY <1>1, <1>2, PTL

-----------------------------------------------------------------------------
(* The list implements CmtDeadline *)

Held == [e \in Entries |-> IF e \in Waiting THEN data[e] ELSE NoMessage]
Left == [e \in Entries |-> IF e \in Waiting THEN left[e] ELSE 0]

LEMMA DeadlineInit ==
  ASSUME Callers = {0}, Init
  PROVE  Deadline!Init
<1>1. PICK S \in SUBSET Entries, F \in SUBSET Entries, rank \in [Entries -> Nat] :
         Whole(S, F, rank)
  BY WholeInit DEF IInv
<1>2. ipc = "idle" /\ head = Null /\ posted = NoMessage BY DEF Init
<1>3. First = Null BY <1>2 DEF First
<1>4. S = {} BY <1>1, <1>3, ListLinks DEF Whole
<1>5. Waiting = {} BY <1>1, <1>2, <1>4, WaitingIs
<1> HIDE DEF Waiting
<1> QED BY <1>2, <1>5 DEF Deadline!Init

LEMMA DeadlineStep ==
  ASSUME Callers = {0}, 0 \notin Delays, IInv, Next
  PROVE  Deadline!Next
<1>1. PICK S \in SUBSET Entries, F \in SUBSET Entries, rank \in [Entries -> Nat] :
         Whole(S, F, rank)
  BY DEF IInv
<1>2. PICK S2 \in SUBSET Entries, F2 \in SUBSET Entries, rank2 \in [Entries -> Nat] :
         Whole(S2, F2, rank2)' /\ Outcome(Waits(S), Waits(S2)')
  BY <1>1, WholeStep DEF IInv
<1>3. PICK W, W2 : W = Waits(S) /\ W2 = Waits(S2)' OBVIOUS
<1>4. Outcome(W, W2) BY <1>2, <1>3
<1>5. W \subseteq Entries /\ W2 \subseteq Entries BY <1>3 DEF Waits
<1>6. Waiting = W BY <1>1, <1>3, WaitingIs DEF Waits
<1>7. Waiting' = W2
  <2>1. (\A A \in SUBSET Entries, B \in SUBSET Entries, r \in [Entries -> Nat] :
            Whole(A, B, r) => Waiting = IF ipc \in {"next", "free"} THEN A \ {head} ELSE A)'
    BY WaitingAll, PTL
  <2> HIDE DEF Waiting
  <2> QED BY <1>2, <1>3, <2>1 DEF Waits
<1>8. \A e \in W : data[e] \in Targets /\ left[e] \in Nat
  BY <1>1, <1>3 DEF Waits, Whole, Counted
<1>9. \A t \in Targets : t # NoMessage
  BY ListAssumption DEF Targets, Cores
<1> DEFINE held == [e \in Entries |-> IF e \in W THEN data[e] ELSE NoMessage]
           held2 == [e \in Entries |-> IF e \in W2 THEN data'[e] ELSE NoMessage]
           wait == [e \in Entries |-> IF e \in W THEN left[e] ELSE 0]
           wait2 == [e \in Entries |-> IF e \in W2 THEN left'[e] ELSE 0]
<1>10. /\ Held = held /\ Held' = held2 /\ Left = wait /\ Left' = wait2
  BY <1>6, <1>7 DEF Held, Left
<1> HIDE DEF Waiting
<1>11. Deadline!Pending = W
  <2>1. \A e \in Entries : Held[e] # NoMessage <=> e \in W BY <1>8, <1>9, <1>10
  <2>2. Deadline!Pending = {e \in Entries : Held[e] # NoMessage} BY DEF Deadline!Pending, Held
  <2> QED BY <1>5, <2>1, <2>2
<1>12. CASE W2 = W /\ Same(W) /\ posted' = NoMessage
  <2>1. held2 = held /\ wait2 = wait BY <1>5, <1>12 DEF Same
  <2>2. Held' = Held /\ Left' = Left BY <1>10, <2>1
  <2>3. Deadline!Quiet BY <1>12, <2>2 DEF Deadline!Quiet, Held, Left
  <2> QED BY <2>3 DEF Deadline!Next
<1>13. CASE \E x \in Entries \ W : /\ W2 = W \cup {x} /\ Same(W)
                                   /\ data'[x] \in Targets /\ left'[x] \in Delays
                                   /\ posted' = NoMessage
  <2>1. PICK x \in Entries \ W : /\ W2 = W \cup {x} /\ Same(W)
                                 /\ data'[x] \in Targets /\ left'[x] \in Delays
                                 /\ posted' = NoMessage
    BY <1>13
  <2>2. PICK m \in Messages, core \in Cores, ms \in Delays : data'[x] = <<m, core>> /\ left'[x] = ms
    BY <2>1 DEF Targets
  <2>3. /\ held2 = [held EXCEPT ![x] = <<m, core>>]
        /\ wait2 = [wait EXCEPT ![x] = ms]
    BY <1>5, <2>1, <2>2 DEF Same
  <2>4. Held' = [Held EXCEPT ![x] = <<m, core>>] /\ Left' = [Left EXCEPT ![x] = ms]
    BY <1>10, <2>3
  <2>5. Deadline!Schedule(x, m, core, ms)
    BY <1>11, <2>1, <2>4 DEF Deadline!Schedule, Held, Left
  <2> QED BY <2>2, <2>5 DEF Deadline!Next, Cores, Deadline!Cores
<1>14. CASE \E x \in W : W2 = W \ {x} /\ Same(W2) /\ posted' = NoMessage
  <2>1. PICK x \in W : W2 = W \ {x} /\ Same(W2) /\ posted' = NoMessage BY <1>14
  <2>2. /\ held2 = [held EXCEPT ![x] = NoMessage]
        /\ wait2 = [wait EXCEPT ![x] = 0]
    BY <1>5, <2>1 DEF Same
  <2>3. Held' = [Held EXCEPT ![x] = NoMessage] /\ Left' = [Left EXCEPT ![x] = 0]
    BY <1>10, <2>2
  <2>4. Deadline!Cancel(x)
    BY <1>11, <2>1, <2>3 DEF Deadline!Cancel, Held, Left
  <2> QED BY <1>5, <2>4 DEF Deadline!Next
<1>15. CASE \E x \in W : W2 = W \ {x} /\ Same(W2) /\ left[x] = 0 /\ posted' = data[x]
  <2>1. PICK x \in W : W2 = W \ {x} /\ Same(W2) /\ left[x] = 0 /\ posted' = data[x] BY <1>15
  <2>2. /\ held2 = [held EXCEPT ![x] = NoMessage] /\ wait2 = wait
        /\ held[x] = data[x] /\ wait[x] = 0
    BY <1>5, <2>1 DEF Same
  <2>3. /\ Held' = [Held EXCEPT ![x] = NoMessage] /\ Left' = Left
        /\ Held[x] = data[x] /\ Left[x] = 0
    BY <1>10, <2>2
  <2>4. Deadline!Post(x)
    BY <1>11, <2>1, <2>3 DEF Deadline!Post, Held, Left
  <2> QED BY <1>5, <2>4 DEF Deadline!Next
<1>16. CASE /\ W2 = W /\ posted' = NoMessage
            /\ \A e \in W : data'[e] = data[e] /\ left[e] > 0 /\ left'[e] = left[e] - 1
  <2>1. /\ held2 = held
        /\ wait2 = [e \in Entries |-> IF e \in W THEN wait[e] - 1 ELSE 0]
        /\ \A e \in W : wait[e] > 0
    BY <1>5, <1>16
  <2>2. /\ Held' = Held
        /\ Left' = [e \in Entries |-> IF e \in W THEN Left[e] - 1 ELSE 0]
        /\ \A e \in W : Left[e] > 0
    BY <1>10, <2>1
  <2>3. Deadline!Tick
    BY <1>11, <1>16, <2>2 DEF Deadline!Tick, Held, Left
  <2> QED BY <2>3 DEF Deadline!Next
<1> QED BY <1>4, <1>12, <1>13, <1>14, <1>15, <1>16 DEF Outcome

LEMMA DeadlineStutter == UNCHANGED vars => UNCHANGED Deadline!dvars
BY DEF vars, tasks, isr, Deadline!dvars, Waiting, Chain

\* The list in memory, whose deltas change before its pointers do, and statement by
\* statement against the interrupt: a message is posted exactly when its delay has
\* passed, once, unless it is cancelled first.
THEOREM ListImplementsDeadline ==
  ASSUME Callers = {0}, 0 \notin Delays
  PROVE  Spec => ImplementsDeadline
<1>1. Spec => []IInv BY IInvAlways
<1>2. Init => Deadline!Init BY DeadlineInit
<1>3. IInv /\ [Next]_vars => [Deadline!Next]_(Deadline!dvars)
  BY DeadlineStep, DeadlineStutter
<1> QED BY <1>1, <1>2, <1>3, PTL DEF Spec, ImplementsDeadline, Deadline!Spec
=============================================================================
