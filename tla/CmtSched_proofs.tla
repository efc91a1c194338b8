-------------------------- MODULE CmtSched_proofs --------------------------
(***************************************************************************)
(* Proofs about CmtSched for every pool, every set of messages and every   *)
(* set of positive delays.  The inductive invariant adds to the properties *)
(* of CmtSched what makes them survive the loops: the deltas are not       *)
(* negative, the head's is positive outside the expiry loop, the list is   *)
(* ordered by the true time left, and an entry on its way through the list *)
(* has already given up exactly the time in front of the place it is at.   *)
(*                                                                         *)
(* The last part shows that CmtSched implements CmtDeadline: each step of  *)
(* the delta list is a step of the abstract specification, in which a      *)
(* message just waits its time, or changes nothing there.                  *)
(***************************************************************************)
EXTENDS CmtSched, TLAPS

\* The deltas: none is negative, and the head still has to wait.
DeltasWait ==
  /\ \A i \in 1..Len(smd_ll) : remaining[smd_ll[i]] >= 0
  /\ pc # "expire" /\ smd_ll # <<>> => remaining[smd_ll[1]] > 0

\* The list is ordered by the true time left.
Ordered ==
  \A i, j \in 1..Len(smd_ll) : i <= j => left[smd_ll[i]] <= left[smd_ll[j]]

\* The entry being inserted has been charged for everything in front of pos.
ChargedSoFar ==
  pc = "insert" => /\ remaining[arg] = left[arg] - Before(pos)
                   /\ remaining[arg] > 0

IInv ==
  /\ TypeOK
  /\ PoolConserved
  /\ DeltasKeepDeadlines
  /\ DeltasWait
  /\ Ordered
  /\ ChargedSoFar

-----------------------------------------------------------------------------
(* What linking and unlinking do to a list. *)

\* Linking e at place p gives a list one longer that holds e and what was there.
LEMMA LinkedFacts ==
  ASSUME smd_ll \in Seq(Entries), NEW e \in Entries,
         NEW p \in 1..Len(smd_ll) + 1
  PROVE  /\ Linked(p, e) \in Seq(Entries)
         /\ Len(Linked(p, e)) = Len(smd_ll) + 1
         /\ \A i \in 1..Len(smd_ll) + 1 :
              Linked(p, e)[i] = IF i < p THEN smd_ll[i]
                                ELSE IF i = p THEN e ELSE smd_ll[i - 1]
         /\ Range0(Linked(p, e)) = Range0(smd_ll) \cup {e}
<1>1. /\ Linked(p, e) \in Seq(Entries)
      /\ Len(Linked(p, e)) = Len(smd_ll) + 1
      /\ \A i \in 1..Len(smd_ll) + 1 :
           Linked(p, e)[i] = IF i < p THEN smd_ll[i]
                             ELSE IF i = p THEN e ELSE smd_ll[i - 1]
  BY DEF Linked
<1>2. Range0(Linked(p, e)) \subseteq Range0(smd_ll) \cup {e}
  BY <1>1 DEF Range0
<1>3. ASSUME NEW x \in Range0(smd_ll) \cup {e}
      PROVE  x \in Range0(Linked(p, e))
  <2>1. CASE x = e
    BY <2>1, <1>1 DEF Range0
  <2>2. CASE x # e
    <3>1. PICK i \in 1..Len(smd_ll) : x = smd_ll[i]
      BY <2>2 DEF Range0
    <3>2. CASE i < p
      BY <3>1, <3>2, <1>1 DEF Range0
    <3>3. CASE i >= p
      <4>1. i + 1 \in 1..Len(smd_ll) + 1 /\ Linked(p, e)[i + 1] = x
        BY <3>1, <3>3, <1>1
      <4>2. QED BY <4>1, <1>1 DEF Range0
    <3>4. QED BY <3>2, <3>3
  <2>3. QED BY <2>1, <2>2
<1>4. QED BY <1>1, <1>2, <1>3

\* Unlinking the entry at place p gives a list one shorter of all the others.
LEMMA UnlinkedFacts ==
  ASSUME smd_ll \in Seq(Entries), NEW p \in 1..Len(smd_ll),
         \A i, j \in 1..Len(smd_ll) : smd_ll[i] = smd_ll[j] => i = j
  PROVE  /\ Unlinked(p) \in Seq(Entries)
         /\ Len(Unlinked(p)) = Len(smd_ll) - 1
         /\ \A i \in 1..Len(smd_ll) - 1 :
              Unlinked(p)[i] = IF i < p THEN smd_ll[i] ELSE smd_ll[i + 1]
         /\ Range0(Unlinked(p)) = Range0(smd_ll) \ {smd_ll[p]}
<1>1. /\ Unlinked(p) \in Seq(Entries)
      /\ Len(Unlinked(p)) = Len(smd_ll) - 1
      /\ \A i \in 1..Len(smd_ll) - 1 :
           Unlinked(p)[i] = IF i < p THEN smd_ll[i] ELSE smd_ll[i + 1]
  BY DEF Unlinked
<1>2. Range0(Unlinked(p)) \subseteq Range0(smd_ll) \ {smd_ll[p]}
  BY <1>1 DEF Range0
<1>3. ASSUME NEW x \in Range0(smd_ll) \ {smd_ll[p]}
      PROVE  x \in Range0(Unlinked(p))
  <2>1. PICK i \in 1..Len(smd_ll) : x = smd_ll[i]
    BY DEF Range0
  <2>2. CASE i < p
    BY <2>1, <2>2, <1>1 DEF Range0
  <2>3. CASE i > p
    <3>1. i - 1 \in 1..Len(smd_ll) - 1 /\ Unlinked(p)[i - 1] = x
      BY <2>1, <2>3, <1>1
    <3>2. QED BY <3>1, <1>1 DEF Range0
  <2>4. QED BY <2>1, <2>2, <2>3
<1>4. QED BY <1>1, <1>2, <1>3

-----------------------------------------------------------------------------
(* One lemma per action: the invariant survives it. *)

\* The parts of the invariant that hold while nothing is under way.
LEMMA InitIInv == Init => IInv
  BY DEF Init, IInv, TypeOK, PoolConserved, DeltasKeepDeadlines, DeltasWait,
         Ordered, ChargedSoFar, Range0

\* Taking an entry from the pool disturbs nothing that is in the list.
LEMMA ScheduleBeginIInv ==
  ASSUME IInv, 0 \notin Delays, NEW m \in Messages, NEW core \in Cores,
         NEW ms \in Delays, ScheduleBegin(m, core, ms)
  PROVE  IInv'
<1> USE SchedAssumption
<1>1. PICK e \in free :
        /\ free' = free \ {e}
        /\ held' = [held EXCEPT ![e] = <<m, core>>]
        /\ remaining' = [remaining EXCEPT ![e] = ms]
        /\ left' = [left EXCEPT ![e] = ms]
        /\ arg' = e
  BY DEF ScheduleBegin
<1>2. e \in Entries /\ ms \in Nat /\ ms > 0 /\ <<m, core>> \in Targets
  BY DEF IInv, TypeOK, Targets
<1>3. \A i \in 1..Len(smd_ll) : smd_ll[i] # e /\ smd_ll[i] \in Entries
  BY <1>1 DEF IInv, TypeOK, PoolConserved, Range0
<1>4. UNCHANGED <<smd_ll, retval>> /\ pc' = "insert" /\ pos' = 1
      /\ posted' = NoMessage /\ pc = "idle"
  BY DEF ScheduleBegin
<1>5. \A i \in 1..Len(smd_ll) : /\ remaining'[smd_ll[i]] = remaining[smd_ll[i]]
                               /\ left'[smd_ll[i]] = left[smd_ll[i]]
  BY <1>1, <1>3 DEF IInv, TypeOK
<1>6. remaining'[e] = ms /\ left'[e] = ms
  BY <1>1, <1>2 DEF IInv, TypeOK
<1>a. TypeOK'
  BY <1>1, <1>2, <1>4 DEF IInv, TypeOK
<1>b. PoolConserved'
  BY <1>1, <1>3, <1>4 DEF IInv, PoolConserved, Range0
<1>c. DeltasKeepDeadlines'
  <2>1. \A i \in 1..Len(smd_ll) : Before(i)' = Before(i)
    BY <1>4, <1>5 DEF IInv, TypeOK, Before
  <2>2. QED BY <2>1, <1>4, <1>5 DEF IInv, DeltasKeepDeadlines
<1>d. DeltasWait'
  <2>1. smd_ll # <<>> => 1 \in 1..Len(smd_ll)
    BY DEF IInv, TypeOK
  <2>2. QED BY <2>1, <1>4, <1>5 DEF IInv, DeltasWait
<1>e. Ordered'
  BY <1>4, <1>5 DEF IInv, TypeOK, Ordered
<1>f. ChargedSoFar'
  BY <1>1, <1>2, <1>4, <1>6 DEF ChargedSoFar, Before
<1> QED BY <1>a, <1>b, <1>c, <1>d, <1>e, <1>f DEF IInv

\* A panic stops the clock: nothing changes any more.
LEMMA SchedulePanicIInv == ASSUME IInv, SchedulePanic PROVE IInv'
  BY DEF SchedulePanic, IInv, TypeOK, PoolConserved, DeltasKeepDeadlines,
         DeltasWait, Ordered, ChargedSoFar, Range0, Before

\* Walking past an entry charges the new one for that entry's delta.
LEMMA ScheduleWalkIInv == ASSUME IInv, ScheduleWalk PROVE IInv'
<1>1. /\ pc = "insert" /\ pos \in 1..Len(smd_ll) /\ arg \in Entries
      /\ smd_ll[pos] \in Entries
  BY DEF ScheduleWalk, IInv, TypeOK
<1>2. \A i \in 1..Len(smd_ll) : smd_ll[i] # arg /\ smd_ll[i] \in Entries
  BY <1>1 DEF IInv, TypeOK, PoolConserved, Range0
<1>3. /\ remaining' = [remaining EXCEPT ![arg] = @ - remaining[smd_ll[pos]]]
      /\ remaining[arg] > remaining[smd_ll[pos]]
      /\ pos' = pos + 1
      /\ UNCHANGED <<smd_ll, free, held, pc, arg, posted, retval, left>>
  BY DEF ScheduleWalk
<1>4. \A i \in 1..Len(smd_ll) : remaining'[smd_ll[i]] = remaining[smd_ll[i]]
  BY <1>2, <1>3 DEF IInv, TypeOK
<1>a. TypeOK'
  BY <1>1, <1>3 DEF IInv, TypeOK
<1>b. PoolConserved'
  BY <1>3 DEF IInv, PoolConserved, Range0
<1>c. DeltasKeepDeadlines'
  BY <1>3, <1>4 DEF IInv, DeltasKeepDeadlines, Before
<1>d. DeltasWait'
  <2>1. smd_ll' = smd_ll /\ pc' = pc BY <1>3
  <2>2. smd_ll # <<>> => 1 \in 1..Len(smd_ll) BY DEF IInv, TypeOK
  <2> QED BY <2>1, <2>2, <1>4 DEF IInv, DeltasWait
<1>e. Ordered'
  BY <1>3 DEF IInv, Ordered
<1>f. ChargedSoFar'
  <2>1. remaining[smd_ll[pos]] = left[smd_ll[pos]] - Before(pos)
    BY <1>1 DEF IInv, DeltasKeepDeadlines
  <2>2. remaining[arg] = left[arg] - Before(pos)
    BY <1>1 DEF IInv, ChargedSoFar
  <2>3. Before(pos) \in Int /\ left[smd_ll[pos]] \in Int /\ left[arg] \in Int
    BY <1>1 DEF Before, IInv, TypeOK
  <2>4. Before(pos)' = left[smd_ll[pos]]
    BY <1>1, <1>3 DEF Before
  <2>5. remaining'[arg] = remaining[arg] - remaining[smd_ll[pos]]
    BY <1>1, <1>3 DEF IInv, TypeOK
  <2>6. remaining[arg] \in Int /\ remaining[smd_ll[pos]] \in Int
    BY <1>1 DEF IInv, TypeOK
  <2>7. remaining'[arg] = left[arg] - left[smd_ll[pos]] /\ remaining'[arg] > 0
    BY <2>1, <2>2, <2>3, <2>5, <2>6, <1>3
  <2>8. QED BY <2>4, <2>7, <1>3 DEF ChargedSoFar
<1> QED BY <1>a, <1>b, <1>c, <1>d, <1>e, <1>f DEF IInv

\* Linking an entry splits the delta of the entry behind it in two.
LEMMA ScheduleLinkIInv == ASSUME IInv, ScheduleLink PROVE IInv'
<1> DEFINE n == Len(smd_ll)
<1>1. /\ pc = "insert" /\ pos \in 1..n + 1 /\ arg \in Entries
      /\ n \in Nat /\ smd_ll \in Seq(Entries)
  BY DEF ScheduleLink, IInv, TypeOK
<1>2. \A i \in 1..n : smd_ll[i] # arg /\ smd_ll[i] \in Entries
  BY <1>1 DEF IInv, TypeOK, PoolConserved, Range0
<1>3. /\ smd_ll' = Linked(pos, arg) /\ pc' = "idle" /\ arg' = NoMessage /\ pos' = 1
      /\ remaining' = IF pos <= n
                        THEN [remaining EXCEPT ![smd_ll[pos]] = @ - remaining[arg]]
                        ELSE remaining
      /\ UNCHANGED <<free, held, posted, retval, left>>
  BY DEF ScheduleLink
<1>4. /\ smd_ll' \in Seq(Entries) /\ Len(smd_ll') = n + 1
      /\ Range0(smd_ll') = Range0(smd_ll) \cup {arg}
      /\ \A i \in 1..n + 1 : smd_ll'[i] = IF i < pos THEN smd_ll[i]
                               ELSE IF i = pos THEN arg ELSE smd_ll[i - 1]
  <2>1. smd_ll' = Linked(pos, arg) BY <1>3
  <2>2. smd_ll \in Seq(Entries) /\ arg \in Entries /\ pos \in 1..Len(smd_ll) + 1
    BY <1>1
  <2>3. /\ Linked(pos, arg) \in Seq(Entries)
        /\ Len(Linked(pos, arg)) = n + 1
        /\ Range0(Linked(pos, arg)) = Range0(smd_ll) \cup {arg}
        /\ \A i \in 1..n + 1 :
             Linked(pos, arg)[i] = IF i < pos THEN smd_ll[i]
                                   ELSE IF i = pos THEN arg ELSE smd_ll[i - 1]
    BY <2>2, LinkedFacts
  <2> QED BY <2>1, <2>3
<1>5. \A i \in 1..n + 1 : /\ i < pos => smd_ll'[i] = smd_ll[i] /\ i \in 1..n
                          /\ i = pos => smd_ll'[i] = arg
                          /\ i > pos => smd_ll'[i] = smd_ll[i - 1] /\ i - 1 \in 1..n
  BY <1>1, <1>4
<1>6. \A e \in Entries : remaining[e] \in Int /\ left[e] \in Int
  BY DEF IInv, TypeOK
<1>7. \A i, j \in 1..n : i <= j => left[smd_ll[i]] <= left[smd_ll[j]]
  BY DEF IInv, Ordered
<1>8. \A i \in 1..n : /\ remaining[smd_ll[i]] >= 0
                      /\ remaining[smd_ll[i]] = left[smd_ll[i]] - Before(i)
  BY DEF IInv, DeltasWait, DeltasKeepDeadlines
<1>9. /\ remaining[arg] = left[arg] - Before(pos) /\ remaining[arg] > 0
      /\ pos <= n => remaining[arg] <= remaining[smd_ll[pos]]
  BY <1>1 DEF IInv, ChargedSoFar, ScheduleLink
\* Only the entry behind the new one has changed its delta.
<1>10. /\ remaining'[arg] = remaining[arg]
       /\ \A i \in 1..n : i # pos => remaining'[smd_ll[i]] = remaining[smd_ll[i]]
       /\ pos <= n => remaining'[smd_ll[pos]] = remaining[smd_ll[pos]] - remaining[arg]
  <2>1. \A i, j \in 1..n : smd_ll[i] = smd_ll[j] => i = j
    BY DEF IInv, PoolConserved
  <2> QED BY <2>1, <1>1, <1>2, <1>3 DEF IInv, TypeOK
<1>11. \A p \in 1..n + 1 : Before(p) = IF p = 1 THEN 0 ELSE left[smd_ll[p - 1]]
  BY DEF Before
<1>12. \A p \in 1..n + 1 : Before(p) \in Int
  BY <1>1, <1>2, <1>6, <1>11
<1> HIDE DEF n
\* The new entry falls between its neighbours.
<1>13. pos > 1 => pos - 1 \in 1..n /\ left[smd_ll[pos - 1]] < left[arg]
  BY <1>1, <1>2, <1>6, <1>9, <1>11
<1>14. pos <= n => left[arg] <= left[smd_ll[pos]]
  BY <1>1, <1>2, <1>6, <1>8, <1>9, <1>12
<1>15. \A i \in 1..n : i < pos => left[smd_ll[i]] <= left[arg]
  <2> SUFFICES ASSUME NEW i \in 1..n, i < pos PROVE left[smd_ll[i]] <= left[arg]
    OBVIOUS
  <2>1. i <= pos - 1 /\ pos > 1 BY <1>1
  <2>2. left[smd_ll[i]] <= left[smd_ll[pos - 1]] BY <2>1, <1>7, <1>13
  <2> QED BY <2>1, <2>2, <1>1, <1>2, <1>6, <1>13
<1>16. \A i \in 1..n : i >= pos => left[arg] <= left[smd_ll[i]]
  <2> SUFFICES ASSUME NEW i \in 1..n, i >= pos PROVE left[arg] <= left[smd_ll[i]]
    OBVIOUS
  <2>1. pos \in 1..n BY <1>1
  <2>2. left[smd_ll[pos]] <= left[smd_ll[i]] BY <2>1, <1>7
  <2> QED BY <2>1, <2>2, <1>1, <1>2, <1>6, <1>14
<1>a. TypeOK'
  <2>1. remaining' \in [Entries -> Int]
    BY <1>1, <1>2, <1>3, <1>6 DEF IInv, TypeOK
  <2>2. pos' <= Len(smd_ll') + 1 /\ pos' \in Nat \ {0}
    BY <1>1, <1>3, <1>4
  <2> QED BY <2>1, <2>2, <1>3, <1>4 DEF IInv, TypeOK
<1>b. PoolConserved'
  <2>1. ASSUME NEW i \in 1..n + 1, NEW j \in 1..n + 1, smd_ll'[i] = smd_ll'[j]
        PROVE  i = j
    <3>1. \A k, m \in 1..n : smd_ll[k] = smd_ll[m] => k = m
      BY DEF IInv, PoolConserved, n
    <3>2. CASE i = pos \/ j = pos
      BY <3>2, <2>1, <1>1, <1>2, <1>5
    <3>3. CASE i # pos /\ j # pos
      <4>1. PICK k \in 1..n : smd_ll'[i] = smd_ll[k] /\ k = IF i < pos THEN i ELSE i - 1
        BY <3>3, <1>1, <1>5
      <4>2. PICK m \in 1..n : smd_ll'[j] = smd_ll[m] /\ m = IF j < pos THEN j ELSE j - 1
        BY <3>3, <1>1, <1>5
      <4>3. k = m BY <4>1, <4>2, <2>1, <3>1
      <4> QED BY <4>1, <4>2, <4>3, <3>3, <1>1
    <3> QED BY <3>2, <3>3
  <2>2. arg \notin free \cup Range0(smd_ll) /\ Entries = free \cup Range0(smd_ll) \cup {arg}
        /\ free \cap Range0(smd_ll) = {}
    BY <1>1 DEF IInv, PoolConserved
  <2>3. pc' # "insert" BY <1>3
  <2> QED BY <2>1, <2>2, <2>3, <1>3, <1>4 DEF PoolConserved
<1>c. DeltasKeepDeadlines'
  <2> SUFFICES ASSUME NEW i \in 1..n + 1
               PROVE  remaining'[smd_ll'[i]] = left[smd_ll'[i]]
                        - (IF i = 1 THEN 0 ELSE left[smd_ll'[i - 1]])
    BY <1>3, <1>4 DEF DeltasKeepDeadlines, Before
  <2>1. CASE i < pos
    <3>1. smd_ll'[i] = smd_ll[i] /\ i \in 1..n BY <2>1, <1>5
    <3>2. i # 1 => smd_ll'[i - 1] = smd_ll[i - 1] BY <2>1, <1>1, <1>5
    <3>3. remaining'[smd_ll[i]] = left[smd_ll[i]] - Before(i)
      BY <3>1, <2>1, <1>1, <1>8, <1>10
    <3> QED BY <3>1, <3>2, <3>3, <1>11
  <2>2. CASE i = pos
    <3>1. smd_ll'[i] = arg BY <2>2, <1>5
    <3>2. i # 1 => smd_ll'[i - 1] = smd_ll[i - 1] BY <2>2, <1>1, <1>5
    <3> QED BY <3>1, <3>2, <2>2, <1>9, <1>10, <1>11
  <2>3. CASE i = pos + 1
    <3>1. smd_ll'[i] = smd_ll[pos] /\ smd_ll'[i - 1] = arg /\ pos \in 1..n
      BY <2>3, <1>1, <1>5
    <3>2. remaining'[smd_ll[pos]] = remaining[smd_ll[pos]] - remaining[arg]
      BY <3>1, <1>1, <1>10
    <3>3. remaining[smd_ll[pos]] = left[smd_ll[pos]] - Before(pos)
      BY <3>1, <1>8
    <3>4. remaining[arg] = left[arg] - Before(pos) /\ Before(pos) \in Int
          /\ left[arg] \in Int /\ left[smd_ll[pos]] \in Int
      BY <3>1, <1>1, <1>2, <1>6, <1>9, <1>12
    <3>5. remaining'[smd_ll[pos]] = left[smd_ll[pos]] - left[arg]
      BY <3>2, <3>3, <3>4
    <3> QED BY <3>1, <3>5, <2>3, <1>1
  <2>4. CASE i > pos + 1
    <3>1. i - 1 > pos /\ i - 1 \in 1..n + 1 /\ i # 1 BY <2>4, <1>1
    <3>2. smd_ll'[i] = smd_ll[i - 1] /\ i - 1 \in 1..n BY <2>4, <1>1, <1>5
    <3>3. smd_ll'[i - 1] = smd_ll[(i - 1) - 1] BY <3>1, <1>5
    <3>4. remaining'[smd_ll[i - 1]] = remaining[smd_ll[i - 1]]
      BY <3>1, <3>2, <1>1, <1>10
    <3>6. remaining[smd_ll[i - 1]] = left[smd_ll[i - 1]] - Before(i - 1)
      BY <3>2, <1>8
    <3>5. Before(i - 1) = left[smd_ll[(i - 1) - 1]]
      BY <3>1, <1>1, <1>11
    <3> QED BY <3>1, <3>2, <3>3, <3>4, <3>5, <3>6
  <2> QED BY <2>1, <2>2, <2>3, <2>4, <1>1
<1>d. DeltasWait'
  <2>1. ASSUME NEW i \in 1..n + 1 PROVE remaining'[smd_ll'[i]] >= 0
    <3>1. CASE i < pos BY <3>1, <1>1, <1>5, <1>8, <1>10
    <3>2. CASE i = pos
      <4>1. smd_ll'[i] = arg BY <3>2, <1>5
      <4> QED BY <4>1, <1>1, <1>6, <1>9, <1>10
    <3>3. CASE i = pos + 1
      <4>1. smd_ll'[i] = smd_ll[pos] /\ pos \in 1..n BY <3>3, <1>1, <1>5
      <4> QED BY <4>1, <1>1, <1>2, <1>6, <1>9, <1>10
    <3>4. CASE i > pos + 1
      <4>1. smd_ll'[i] = smd_ll[i - 1] /\ i - 1 \in 1..n /\ i - 1 # pos
        BY <3>4, <1>1, <1>5
      <4> QED BY <4>1, <1>8, <1>10
    <3> QED BY <3>1, <3>2, <3>3, <3>4, <1>1
  <2>2. pos = 1 => smd_ll'[1] = arg
    BY <1>1, <1>5
  <2>3. pos > 1 => smd_ll'[1] = smd_ll[1] /\ 1 \in 1..n /\ 1 # pos
    BY <1>1, <1>5
  <2>4. pos > 1 => remaining[smd_ll[1]] > 0
    BY <2>3, <1>1 DEF IInv, DeltasWait, n
  <2>5. remaining'[smd_ll'[1]] > 0
    BY <2>2, <2>3, <2>4, <1>1, <1>9, <1>10
  <2> QED BY <2>1, <2>5, <1>4 DEF DeltasWait
<1>e. Ordered'
  <2> SUFFICES ASSUME NEW i \in 1..n + 1, NEW j \in 1..n + 1, i <= j
               PROVE  left[smd_ll'[i]] <= left[smd_ll'[j]]
    BY <1>3, <1>4 DEF Ordered
  <2>1. CASE j < pos
    BY <2>1, <1>1, <1>5, <1>7
  <2>2. CASE i > pos
    <3>1. /\ smd_ll'[i] = smd_ll[i - 1] /\ i - 1 \in 1..n
          /\ smd_ll'[j] = smd_ll[j - 1] /\ j - 1 \in 1..n
          /\ i - 1 <= j - 1
      BY <2>2, <1>1, <1>5
    <3> QED BY <3>1, <1>7
  <2>3. CASE i <= pos /\ j >= pos
    <3>1. left[smd_ll'[i]] <= left[arg] /\ smd_ll'[i] \in Entries
      BY <2>3, <1>1, <1>2, <1>5, <1>6, <1>15
    <3>2. j > pos => smd_ll'[j] = smd_ll[j - 1] /\ j - 1 \in 1..n /\ j - 1 >= pos
      BY <1>1, <1>5
    <3>3. left[arg] <= left[smd_ll'[j]] /\ smd_ll'[j] \in Entries
      BY <2>3, <3>2, <1>1, <1>2, <1>5, <1>6, <1>16
    <3> QED BY <3>1, <3>3, <1>1, <1>6
  <2> QED BY <2>1, <2>2, <2>3, <1>1
<1>f. ChargedSoFar'
  BY <1>3 DEF ChargedSoFar
<1> QED BY <1>a, <1>b, <1>c, <1>d, <1>e, <1>f DEF IInv

\* Taking an entry out and giving its delta to the one behind it keeps the
\* deadlines of all the others (both a cancel and the expiry do that).
LEMMA UnlinkKeepsDeadlines ==
  ASSUME IInv, NEW p \in 1..Len(smd_ll), smd_ll' = Unlinked(p),
         \A i \in 1..Len(smd_ll) : i # p => left'[smd_ll[i]] = left[smd_ll[i]],
         \A i \in 1..Len(smd_ll) :
           i # p /\ i # p + 1 => remaining'[smd_ll[i]] = remaining[smd_ll[i]],
         p < Len(smd_ll) => remaining'[smd_ll[p + 1]]
                              = remaining[smd_ll[p + 1]] + remaining[smd_ll[p]]
  PROVE  /\ DeltasKeepDeadlines'
         /\ Ordered'
         /\ \A i \in 1..Len(smd_ll') : remaining'[smd_ll'[i]] >= 0
<1> DEFINE n == Len(smd_ll)
<1>1. n \in Nat /\ p \in 1..n /\ \A i \in 1..n : smd_ll[i] \in Entries
  BY DEF IInv, TypeOK
<1>2. /\ Len(smd_ll') = n - 1
      /\ \A i \in 1..n - 1 : smd_ll'[i] = IF i < p THEN smd_ll[i] ELSE smd_ll[i + 1]
  BY UnlinkedFacts DEF IInv, TypeOK, PoolConserved
<1>3. \A e \in Entries : remaining[e] \in Int /\ left[e] \in Int
  BY DEF IInv, TypeOK
<1>4. \A i, j \in 1..n : i <= j => left[smd_ll[i]] <= left[smd_ll[j]]
  BY DEF IInv, Ordered
<1>5. \A i \in 1..n : /\ remaining[smd_ll[i]] >= 0
                      /\ remaining[smd_ll[i]] = left[smd_ll[i]] - Before(i)
  BY DEF IInv, DeltasWait, DeltasKeepDeadlines
<1>6. \A i \in 1..n : Before(i) = IF i = 1 THEN 0 ELSE left[smd_ll[i - 1]]
  BY DEF Before
<1>7. \A i \in 1..n : Before(i) \in Int
  BY <1>1, <1>3, <1>6
<1>8. /\ \A i \in 1..n : i # p => left'[smd_ll[i]] = left[smd_ll[i]]
      /\ \A i \in 1..n : i # p /\ i # p + 1 => remaining'[smd_ll[i]] = remaining[smd_ll[i]]
      /\ p < n => remaining'[smd_ll[p + 1]] = remaining[smd_ll[p + 1]] + remaining[smd_ll[p]]
  OBVIOUS
<1> HIDE DEF n
\* Where an entry of the new list was in the old one.
<1>9. \A i \in 1..n - 1 : /\ i < p => smd_ll'[i] = smd_ll[i] /\ i \in 1..n
                          /\ i >= p => smd_ll'[i] = smd_ll[i + 1] /\ i + 1 \in 1..n
  BY <1>1, <1>2
<1>a. DeltasKeepDeadlines'
  <2> SUFFICES ASSUME NEW i \in 1..n - 1
               PROVE  remaining'[smd_ll'[i]] = left'[smd_ll'[i]]
                        - (IF i = 1 THEN 0 ELSE left'[smd_ll'[i - 1]])
    BY <1>2 DEF DeltasKeepDeadlines, Before
  <2>1. CASE i < p
    <3>1. smd_ll'[i] = smd_ll[i] /\ i \in 1..n BY <2>1, <1>9
    <3>2. i # 1 => /\ smd_ll'[i - 1] = smd_ll[i - 1]
                   /\ left'[smd_ll[i - 1]] = left[smd_ll[i - 1]]
      BY <2>1, <1>1, <1>8, <1>9
    <3>3. left'[smd_ll[i]] = left[smd_ll[i]] /\ remaining'[smd_ll[i]] = remaining[smd_ll[i]]
      BY <3>1, <2>1, <1>1, <1>8
    <3> QED BY <3>1, <3>2, <3>3, <1>5, <1>6
  <2>2. CASE i = p
    <3>1. smd_ll'[i] = smd_ll[i + 1] /\ i + 1 \in 1..n /\ i \in 1..n BY <2>2, <1>1, <1>9
    <3>2. i # 1 => /\ smd_ll'[i - 1] = smd_ll[i - 1]
                   /\ left'[smd_ll[i - 1]] = left[smd_ll[i - 1]]
      BY <2>2, <1>1, <1>8, <1>9
    <3>3. /\ left'[smd_ll[i + 1]] = left[smd_ll[i + 1]]
          /\ remaining'[smd_ll[i + 1]] = remaining[smd_ll[i + 1]] + remaining[smd_ll[i]]
      BY <3>1, <2>2, <1>1, <1>8
    <3>4. remaining[smd_ll[i]] = left[smd_ll[i]] - Before(i)
      BY <3>1, <1>5
    <3>5. remaining[smd_ll[i + 1]] = left[smd_ll[i + 1]] - left[smd_ll[i]]
      <4>1. remaining[smd_ll[i + 1]] = left[smd_ll[i + 1]] - Before(i + 1)
        BY <3>1, <1>5
      <4>2. Before(i + 1) = left[smd_ll[(i + 1) - 1]]
        BY <3>1, <1>6
      <4> QED BY <4>1, <4>2
    <3>6. left[smd_ll[i]] \in Int /\ left[smd_ll[i + 1]] \in Int /\ Before(i) \in Int
      BY <3>1, <1>1, <1>3, <1>7
    <3>7. remaining'[smd_ll[i + 1]] = left'[smd_ll[i + 1]] - Before(i)
      BY <3>3, <3>4, <3>5, <3>6
    <3> QED BY <3>1, <3>2, <3>7, <1>6
  <2>3. CASE i > p
    <3>1. smd_ll'[i] = smd_ll[i + 1] /\ i + 1 \in 1..n /\ i # 1 BY <2>3, <1>1, <1>9
    <3>2. i - 1 \in 1..n - 1 /\ i - 1 >= p /\ (i - 1) + 1 = i BY <2>3, <1>1
    <3>3. smd_ll'[i - 1] = smd_ll[i] /\ i \in 1..n BY <3>2, <1>9
    <3>4. left'[smd_ll[i]] = left[smd_ll[i]]
      BY <3>3, <2>3, <1>1, <1>8
    <3>5. /\ remaining'[smd_ll[i + 1]] = remaining[smd_ll[i + 1]]
          /\ left'[smd_ll[i + 1]] = left[smd_ll[i + 1]]
      BY <3>1, <2>3, <1>1, <1>8
    <3>6. remaining[smd_ll[i + 1]] = left[smd_ll[i + 1]] - Before(i + 1)
      BY <3>1, <1>5
    <3>7. Before(i + 1) = left[smd_ll[(i + 1) - 1]] /\ (i + 1) - 1 = i
      BY <3>1, <1>1, <1>6
    <3> QED BY <3>1, <3>3, <3>4, <3>5, <3>6, <3>7
  <2> QED BY <2>1, <2>2, <2>3, <1>1
<1>b. Ordered'
  <2> SUFFICES ASSUME NEW i \in 1..n - 1, NEW j \in 1..n - 1, i <= j
               PROVE  left'[smd_ll'[i]] <= left'[smd_ll'[j]]
    BY <1>2 DEF Ordered
  <2>1. PICK k \in 1..n : smd_ll'[i] = smd_ll[k] /\ k = IF i < p THEN i ELSE i + 1
    BY <1>9, <1>1
  <2>2. PICK m \in 1..n : smd_ll'[j] = smd_ll[m] /\ m = IF j < p THEN j ELSE j + 1
    BY <1>9, <1>1
  <2>3. k <= m /\ k # p /\ m # p BY <2>1, <2>2, <1>1
  <2> QED BY <2>1, <2>2, <2>3, <1>4, <1>8
<1>c. \A i \in 1..Len(smd_ll') : remaining'[smd_ll'[i]] >= 0
  <2> SUFFICES ASSUME NEW i \in 1..n - 1 PROVE remaining'[smd_ll'[i]] >= 0
    BY <1>2
  <2>1. PICK k \in 1..n : smd_ll'[i] = smd_ll[k] /\ k = IF i < p THEN i ELSE i + 1
    BY <1>9, <1>1
  <2>2. k # p BY <2>1, <1>1
  <2>3. CASE k = p + 1
    <3>1. remaining'[smd_ll[k]] = remaining[smd_ll[k]] + remaining[smd_ll[p]]
      BY <2>3, <1>1, <1>8
    <3> QED BY <3>1, <2>1, <1>1, <1>3, <1>5
  <2>4. CASE k # p + 1
    BY <2>1, <2>2, <2>4, <1>5, <1>8
  <2> QED BY <2>3, <2>4
<1> QED BY <1>a, <1>b, <1>c

\* A search has not touched the list yet.
LEMMA CancelBeginIInv ==
  ASSUME IInv, NEW m \in Messages, NEW core \in Cores, CancelBegin(m, core)
  PROVE  IInv'
<1>1. <<m, core>> \in Targets
  BY DEF Targets
<1>2. /\ pc = "idle" /\ pc' = "cancel" /\ arg' = <<m, core>> /\ pos' = 1
      /\ retval' = 0 /\ posted' = NoMessage
      /\ UNCHANGED <<smd_ll, free, held, remaining, left>>
  BY DEF CancelBegin
<1>a. TypeOK'
  BY <1>1, <1>2 DEF IInv, TypeOK
<1>b. PoolConserved'
  BY <1>2 DEF IInv, PoolConserved, Range0
<1>c. DeltasKeepDeadlines'
  BY <1>2 DEF IInv, DeltasKeepDeadlines, Before
<1>d. DeltasWait'
  BY <1>2 DEF IInv, DeltasWait
<1>e. Ordered'
  BY <1>2 DEF IInv, Ordered
<1>f. ChargedSoFar'
  BY <1>2 DEF ChargedSoFar
<1> QED BY <1>a, <1>b, <1>c, <1>d, <1>e, <1>f DEF IInv

\* Searching on leaves the list as it is.
LEMMA CancelWalkIInv == ASSUME IInv, CancelWalk PROVE IInv'
  BY DEF CancelWalk, IInv, TypeOK, PoolConserved, DeltasKeepDeadlines,
         DeltasWait, Ordered, ChargedSoFar, Range0, Before

\* A cancel that finds nothing leaves the list as it was.
LEMMA CancelMissIInv == ASSUME IInv, CancelMiss PROVE IInv'
  BY DEF CancelMiss, IInv, TypeOK, PoolConserved, DeltasKeepDeadlines,
         DeltasWait, Ordered, ChargedSoFar, Range0, Before

\* A cancel in the middle of the list keeps every other deadline.
LEMMA CancelUnlinkIInv == ASSUME IInv, CancelUnlink PROVE IInv'
<1> DEFINE n == Len(smd_ll)
           e == smd_ll[pos]
<1>1. /\ pc = "cancel" /\ pos \in 1..n /\ n \in Nat
      /\ \A i \in 1..n : smd_ll[i] \in Entries
      /\ \A i, j \in 1..n : smd_ll[i] = smd_ll[j] => i = j
  <2>1. pc = "cancel" /\ pos <= n
    BY DEF CancelUnlink
  <2>2. pos \in Nat \ {0} /\ smd_ll \in Seq(Entries)
    BY DEF IInv, TypeOK
  <2>3. n \in Nat /\ \A i \in 1..n : smd_ll[i] \in Entries
    BY <2>2
  <2>4. \A i, j \in 1..n : smd_ll[i] = smd_ll[j] => i = j
    BY DEF IInv, PoolConserved
  <2> QED BY <2>1, <2>2, <2>3, <2>4
<1>2. /\ remaining' = Inherited(pos)
      /\ free' = free \cup {e}
      /\ held' = [held EXCEPT ![e] = NoMessage]
      /\ left' = [left EXCEPT ![e] = 0]
      /\ retval' = remaining[e]
      /\ smd_ll' = Unlinked(pos) /\ pc' = "idle" /\ arg' = NoMessage /\ pos' = 1
      /\ posted' = posted
  BY DEF CancelUnlink, Returned
<1>3. \A i \in 1..n : i # pos => left'[smd_ll[i]] = left[smd_ll[i]]
  BY <1>1, <1>2 DEF IInv, TypeOK
<1>4. /\ \A i \in 1..n : i # pos /\ i # pos + 1 => remaining'[smd_ll[i]] = remaining[smd_ll[i]]
      /\ pos < n => remaining'[smd_ll[pos + 1]]
                      = remaining[smd_ll[pos + 1]] + remaining[smd_ll[pos]]
      /\ remaining' \in [Entries -> Int]
  <2>1. CASE pos < n
    <3>1. pos + 1 \in 1..n BY <2>1, <1>1
    <3>2. remaining' = [remaining EXCEPT ![smd_ll[pos + 1]] = @ + remaining[e]]
      BY <2>1, <1>2 DEF Inherited
    <3> QED BY <3>1, <3>2, <1>1 DEF IInv, TypeOK
  <2>2. CASE ~(pos < n)
    BY <2>2, <1>1, <1>2 DEF Inherited, IInv, TypeOK
  <2> QED BY <2>1, <2>2
<1>5. /\ DeltasKeepDeadlines' /\ Ordered'
      /\ \A i \in 1..Len(smd_ll') : remaining'[smd_ll'[i]] >= 0
  BY <1>1, <1>2, <1>3, <1>4, UnlinkKeepsDeadlines
<1>6. /\ smd_ll' \in Seq(Entries) /\ Len(smd_ll') = n - 1
      /\ \A i \in 1..n - 1 : smd_ll'[i] = IF i < pos THEN smd_ll[i] ELSE smd_ll[i + 1]
      /\ Range0(smd_ll') = Range0(smd_ll) \ {e}
  BY <1>1, <1>2, UnlinkedFacts DEF IInv, TypeOK
<1>a. TypeOK'
  <2>1. e \in Entries /\ remaining[e] \in Int /\ left[e] \in Int
    BY <1>1 DEF IInv, TypeOK
  <2>2. held' \in [Entries -> Targets \cup {NoMessage}]
    <3>1. held \in [Entries -> Targets \cup {NoMessage}] BY DEF IInv, TypeOK
    <3>2. held' = [held EXCEPT ![smd_ll[pos]] = NoMessage] BY <1>2
    <3> QED BY <3>1, <3>2
  <2>6. left' \in [Entries -> Int]
    <3>1. left \in [Entries -> Int] BY DEF IInv, TypeOK
    <3>2. left' = [left EXCEPT ![smd_ll[pos]] = 0] BY <1>2
    <3>3. \A x \in Entries : left'[x] \in Int BY <3>1, <3>2
    <3>4. left' = [x \in Entries |-> left'[x]] BY <3>1, <3>2
    <3> QED BY <3>3, <3>4
  <2>3. free' \subseteq Entries /\ posted' \in Targets \cup {NoMessage}
    BY <2>1, <1>2 DEF IInv, TypeOK
  <2>5. retval' \in Int
    BY <2>1, <1>2
  <2>4. pc' = "idle" /\ pos' = 1
    BY <1>2
  <2> QED BY <2>2, <2>3, <2>4, <2>5, <2>6, <1>4, <1>6 DEF TypeOK
<1>b. PoolConserved'
  <2>1. \A i, j \in 1..n - 1 : smd_ll'[i] = smd_ll'[j] => i = j
    BY <1>1, <1>6
  <2>2. free \cap Range0(smd_ll) = {} /\ Entries = free \cup Range0(smd_ll)
    BY <1>1 DEF IInv, PoolConserved
  <2>3. e \in Range0(smd_ll) BY <1>1 DEF Range0
  <2> QED BY <2>1, <2>2, <2>3, <1>2, <1>6 DEF PoolConserved
<1>d. DeltasWait'
  <2>1. smd_ll' # <<>> => remaining'[smd_ll'[1]] > 0
    <3> SUFFICES ASSUME n - 1 >= 1 PROVE remaining'[smd_ll'[1]] > 0
      BY <1>1, <1>6
    <3>1. remaining[smd_ll[1]] > 0 /\ 1 \in 1..n /\ 1 \in 1..n - 1
      BY <1>1 DEF IInv, DeltasWait
    <3>2. CASE pos = 1
      <4>1. smd_ll'[1] = smd_ll[2] /\ 2 \in 1..n BY <3>1, <3>2, <1>1, <1>6
      <4>2. remaining'[smd_ll[2]] = remaining[smd_ll[2]] + remaining[smd_ll[1]]
        BY <4>1, <3>2, <1>1, <1>4
      <4>3. remaining[smd_ll[2]] >= 0 /\ remaining[smd_ll[2]] \in Int
            /\ remaining[smd_ll[1]] \in Int
        BY <4>1, <3>1, <1>1 DEF IInv, TypeOK, DeltasWait
      <4> QED BY <4>1, <4>2, <4>3, <3>1
    <3>3. CASE pos # 1
      <4>1. smd_ll'[1] = smd_ll[1] BY <3>1, <3>3, <1>1, <1>6
      <4>2. 1 # pos + 1 BY <1>1
      <4> QED BY <4>1, <4>2, <3>1, <3>3, <1>4
    <3> QED BY <3>2, <3>3
  <2> QED BY <2>1, <1>5 DEF DeltasWait
<1>f. ChargedSoFar'
  BY <1>2 DEF ChargedSoFar
<1> QED BY <1>a, <1>b, <1>5, <1>d, <1>f DEF IInv

\* A tick takes one from the head's delta and, in truth, one from every deadline.
LEMMA TickBeginIInv == ASSUME IInv, TickBegin PROVE IInv'
<1> DEFINE n == Len(smd_ll)
<1>1. /\ pc = "idle" /\ pos' = pos /\ arg' = arg /\ posted' = NoMessage
      /\ UNCHANGED <<smd_ll, free, held, retval>>
      /\ left' = [x \in Entries |-> IF x \in free THEN 0 ELSE left[x] - 1]
  BY DEF TickBegin
<1>2. n \in Nat /\ smd_ll \in Seq(Entries) /\ \A i \in 1..n : smd_ll[i] \in Entries
  BY DEF IInv, TypeOK
<1>3. \A i \in 1..n : smd_ll[i] \notin free
  BY DEF IInv, PoolConserved, Range0
<1>4. \A x \in Entries : remaining[x] \in Int /\ left[x] \in Int
  BY DEF IInv, TypeOK
<1>5. \A i \in 1..n : left'[smd_ll[i]] = left[smd_ll[i]] - 1
  BY <1>1, <1>2, <1>3
<1>6. CASE smd_ll = <<>>
  <2>1. UNCHANGED <<remaining, pc>> /\ n = 0
    BY <1>6 DEF TickBegin
  <2>2. TypeOK'
    <3>1. left' \in [Entries -> Int] BY <1>1, <1>4
    <3> QED BY <3>1, <2>1, <1>1 DEF IInv, TypeOK
  <2>3. PoolConserved'
    BY <2>1, <1>1 DEF IInv, PoolConserved, Range0
  <2>4. DeltasKeepDeadlines' /\ DeltasWait' /\ Ordered' /\ ChargedSoFar'
    BY <2>1, <1>1, <1>6 DEF DeltasKeepDeadlines, DeltasWait, Ordered, ChargedSoFar
  <2> QED BY <2>2, <2>3, <2>4 DEF IInv
<1>7. CASE smd_ll # <<>>
  <2>1. /\ remaining' = [remaining EXCEPT ![smd_ll[1]] = @ - 1]
        /\ pc' = IF remaining'[smd_ll[1]] <= 0 THEN "expire" ELSE "idle"
    BY <1>7 DEF TickBegin, Decremented, TimedOut
  <2>2. 1 \in 1..n
    BY <1>2, <1>7
  <2>3. \A i, j \in 1..n : smd_ll[i] = smd_ll[j] => i = j
    BY DEF IInv, PoolConserved
  <2>4. /\ remaining'[smd_ll[1]] = remaining[smd_ll[1]] - 1
        /\ \A i \in 1..n : i # 1 => remaining'[smd_ll[i]] = remaining[smd_ll[i]]
        /\ remaining' \in [Entries -> Int]
    BY <2>1, <2>2, <2>3, <1>2, <1>4 DEF IInv, TypeOK
  <2>5. remaining[smd_ll[1]] > 0
    BY <1>1, <1>7 DEF IInv, DeltasWait
  <2>6. \A i \in 1..n : /\ remaining[smd_ll[i]] >= 0
                        /\ remaining[smd_ll[i]]
                             = left[smd_ll[i]] - (IF i = 1 THEN 0 ELSE left[smd_ll[i - 1]])
    BY DEF IInv, DeltasWait, DeltasKeepDeadlines, Before
  <2>7. \A i, j \in 1..n : i <= j => left[smd_ll[i]] <= left[smd_ll[j]]
    BY DEF IInv, Ordered
  <2>a. TypeOK'
    <3>1. left' \in [Entries -> Int] BY <1>1, <1>4
    <3>2. pc' \in {"idle", "expire"} BY <2>1
    <3>3. pos' \in Nat \ {0} BY <1>1 DEF IInv, TypeOK
    <3> QED BY <3>1, <3>2, <3>3, <2>4, <1>1 DEF IInv, TypeOK
  <2>b. PoolConserved'
    <3>1. pc' # "insert" BY <2>1
    <3> QED BY <3>1, <1>1 DEF IInv, PoolConserved, Range0
  <2>c. DeltasKeepDeadlines'
    <3> SUFFICES ASSUME NEW i \in 1..n
                 PROVE  remaining'[smd_ll[i]] = left'[smd_ll[i]]
                          - (IF i = 1 THEN 0 ELSE left'[smd_ll[i - 1]])
      BY <1>1 DEF DeltasKeepDeadlines, Before
    <3>1. CASE i = 1
      <4>1. left[smd_ll[1]] \in Int /\ remaining[smd_ll[1]] = left[smd_ll[1]]
        BY <2>2, <2>6, <1>2, <1>4
      <4> QED BY <4>1, <3>1, <2>2, <2>4, <1>5
    <3>2. CASE i # 1
      <4>1. i - 1 \in 1..n BY <3>2, <1>2
      <4>2. left[smd_ll[i]] \in Int /\ left[smd_ll[i - 1]] \in Int
        BY <4>1, <1>2, <1>4
      <4>3. remaining[smd_ll[i]] = left[smd_ll[i]] - left[smd_ll[i - 1]]
        BY <3>2, <2>6
      <4>4. left'[smd_ll[i]] = left[smd_ll[i]] - 1
            /\ left'[smd_ll[i - 1]] = left[smd_ll[i - 1]] - 1
        BY <4>1, <1>5
      <4> QED BY <4>2, <4>3, <4>4, <3>2, <2>4
    <3> QED BY <3>1, <3>2
  <2>d. DeltasWait'
    <3>1. \A i \in 1..n : remaining'[smd_ll[i]] >= 0
      BY <2>2, <2>4, <2>5, <2>6, <1>2, <1>4
    <3>2. pc' # "expire" => remaining'[smd_ll[1]] > 0
      BY <2>1, <2>2, <2>4, <1>2, <1>4
    <3> QED BY <3>1, <3>2, <1>1 DEF DeltasWait
  <2>e. Ordered'
    <3> SUFFICES ASSUME NEW i \in 1..n, NEW j \in 1..n, i <= j
                 PROVE  left'[smd_ll[i]] <= left'[smd_ll[j]]
      BY <1>1 DEF Ordered
    <3> QED BY <2>7, <1>2, <1>4, <1>5
  <2>f. ChargedSoFar'
    BY <2>1 DEF ChargedSoFar
  <2> QED BY <2>a, <2>b, <2>c, <2>d, <2>e, <2>f DEF IInv
<1> QED BY <1>6, <1>7

\* An entry that has timed out leaves the front of the list with no time to
\* hand on.
LEMMA TickPostIInv == ASSUME IInv, TickPost PROVE IInv'
<1> DEFINE n == Len(smd_ll)
<1>1. /\ pc = "expire" /\ smd_ll # <<>> /\ remaining[smd_ll[1]] <= 0
      /\ posted' = held[smd_ll[1]]
      /\ free' = free \cup {smd_ll[1]}
      /\ held' = [held EXCEPT ![smd_ll[1]] = NoMessage]
      /\ smd_ll' = Unlinked(1)
      /\ UNCHANGED <<remaining, pc, pos, arg, retval, left>>
  BY DEF TickPost, TimedOut, Returned
<1>2. n \in Nat /\ smd_ll \in Seq(Entries) /\ 1 \in 1..n
      /\ \A i \in 1..n : smd_ll[i] \in Entries
  BY <1>1 DEF IInv, TypeOK
<1>3. \A i, j \in 1..n : smd_ll[i] = smd_ll[j] => i = j
  BY DEF IInv, PoolConserved
<1>4. \A i \in 1..n : remaining[smd_ll[i]] \in Int /\ remaining[smd_ll[i]] >= 0
  BY <1>2 DEF IInv, TypeOK, DeltasWait
<1>5. remaining[smd_ll[1]] = 0
  BY <1>1, <1>2, <1>4
<1>6. 1 < n => 1 + 1 \in 1..n /\ remaining'[smd_ll[1 + 1]]
                    = remaining[smd_ll[1 + 1]] + remaining[smd_ll[1]]
  <2> SUFFICES ASSUME 1 < n
               PROVE 1 + 1 \in 1..n /\ remaining'[smd_ll[1 + 1]]
                       = remaining[smd_ll[1 + 1]] + remaining[smd_ll[1]]
    OBVIOUS
  <2>1. 1 + 1 \in 1..n BY <1>2
  <2>2. remaining[smd_ll[1 + 1]] \in Int BY <2>1, <1>4
  <2> QED BY <2>1, <2>2, <1>1, <1>5
<1>7. /\ DeltasKeepDeadlines' /\ Ordered'
      /\ \A i \in 1..Len(smd_ll') : remaining'[smd_ll'[i]] >= 0
  BY <1>1, <1>2, <1>6, UnlinkKeepsDeadlines
<1>8. /\ smd_ll' \in Seq(Entries) /\ Len(smd_ll') = n - 1
      /\ \A i \in 1..n - 1 : smd_ll'[i] = IF i < 1 THEN smd_ll[i] ELSE smd_ll[i + 1]
      /\ Range0(smd_ll') = Range0(smd_ll) \ {smd_ll[1]}
  BY <1>1, <1>2, <1>3, UnlinkedFacts
<1>a. TypeOK'
  <2>1. held' \in [Entries -> Targets \cup {NoMessage}]
    BY <1>1 DEF IInv, TypeOK
  <2>2. posted' \in Targets \cup {NoMessage} /\ free' \subseteq Entries
    BY <1>1, <1>2 DEF IInv, TypeOK
  <2> QED BY <2>1, <2>2, <1>1, <1>8 DEF IInv, TypeOK
<1>b. PoolConserved'
  <2>1. \A i, j \in 1..n - 1 : smd_ll'[i] = smd_ll'[j] => i = j
    <3> SUFFICES ASSUME NEW i \in 1..n - 1, NEW j \in 1..n - 1, smd_ll'[i] = smd_ll'[j]
                 PROVE  i = j
      OBVIOUS
    <3>1. smd_ll'[i] = smd_ll[i + 1] /\ smd_ll'[j] = smd_ll[j + 1] BY <1>8
    <3>2. i + 1 \in 1..n /\ j + 1 \in 1..n BY <1>2
    <3>3. i + 1 = j + 1 BY <3>1, <3>2, <1>3
    <3> QED BY <3>3
  <2>2. free \cap Range0(smd_ll) = {} /\ Entries = free \cup Range0(smd_ll)
    BY <1>1 DEF IInv, PoolConserved
  <2>3. smd_ll[1] \in Range0(smd_ll) BY <1>2 DEF Range0
  <2> QED BY <2>1, <2>2, <2>3, <1>1, <1>8 DEF PoolConserved
<1>d. DeltasWait'
  BY <1>1, <1>7 DEF DeltasWait
<1>f. ChargedSoFar'
  BY <1>1 DEF ChargedSoFar
<1> QED BY <1>a, <1>b, <1>7, <1>d, <1>f DEF IInv

\* The expiry ends at the first entry that still has to wait.
LEMMA TickEndIInv == ASSUME IInv, TickEnd PROVE IInv'
<1>1. /\ pc = "expire" /\ pc' = "idle" /\ posted' = NoMessage
      /\ smd_ll # <<>> => ~(remaining[smd_ll[1]] <= 0)
      /\ UNCHANGED <<smd_ll, free, held, remaining, pos, arg, retval, left>>
  BY DEF TickEnd, TimedOut
<1>a. TypeOK'
  BY <1>1 DEF IInv, TypeOK
<1>b. PoolConserved'
  BY <1>1 DEF IInv, PoolConserved, Range0
<1>c. DeltasKeepDeadlines'
  BY <1>1 DEF IInv, DeltasKeepDeadlines, Before
<1>d. DeltasWait'
  <2>1. smd_ll # <<>> => remaining[smd_ll[1]] \in Int
    BY DEF IInv, TypeOK
  <2> QED BY <2>1, <1>1 DEF IInv, DeltasWait
<1>e. Ordered'
  BY <1>1 DEF IInv, Ordered
<1>f. ChargedSoFar'
  BY <1>1 DEF ChargedSoFar
<1> QED BY <1>a, <1>b, <1>c, <1>d, <1>e, <1>f DEF IInv

\* A step that changes nothing.
LEMMA StutterIInv == ASSUME IInv, UNCHANGED vars PROVE IInv'
<1>1. UNCHANGED <<smd_ll, free, held, remaining, pc, pos, arg, posted, retval, left>>
  BY DEF vars
<1>a. TypeOK'
  BY <1>1 DEF IInv, TypeOK
<1>b. PoolConserved' /\ DeltasWait' /\ Ordered'
  BY <1>1 DEF IInv, PoolConserved, DeltasWait, Ordered, Range0
<1>c. DeltasKeepDeadlines' /\ ChargedSoFar'
  BY <1>1 DEF IInv, DeltasKeepDeadlines, ChargedSoFar, Before
<1> QED BY <1>a, <1>b, <1>c DEF IInv

-----------------------------------------------------------------------------
(* The theorems. *)

\* The inductive invariant: with delays of at least 1 ms, as every caller of the
\* firmware asks for, no sequence of schedules, cancels and ticks breaks the
\* delta list.
THEOREM SchedInvariant ==
  ASSUME 0 \notin Delays
  PROVE  Spec => []IInv
<1>1. ASSUME IInv, [Next]_vars PROVE IInv'
  <2>1. CASE \E m \in Messages, core \in Cores, ms \in Delays :
               ScheduleBegin(m, core, ms)
    BY <2>1, <1>1, ScheduleBeginIInv
  <2>2. CASE \E m \in Messages, core \in Cores : CancelBegin(m, core)
    BY <2>2, <1>1, CancelBeginIInv
  <2>3. CASE SchedulePanic BY <2>3, <1>1, SchedulePanicIInv
  <2>4. CASE TickBegin BY <2>4, <1>1, TickBeginIInv
  <2>5. CASE Continue
    BY <2>5, <1>1, ScheduleWalkIInv, ScheduleLinkIInv, CancelWalkIInv,
       CancelUnlinkIInv, CancelMissIInv, TickPostIInv, TickEndIInv DEF Continue
  <2>6. CASE UNCHANGED vars BY <2>6, <1>1, StutterIInv
  <2> QED BY <2>1, <2>2, <2>3, <2>4, <2>5, <2>6, <1>1 DEF Next
<1>2. QED BY <1>1, InitIInv, PTL DEF Spec

\* Every variable keeps its type.
THEOREM SchedTypeOK ==
  ASSUME 0 \notin Delays
  PROVE  Spec => []TypeOK
<1>1. IInv => TypeOK BY DEF IInv
<1>2. QED BY <1>1, SchedInvariant, PTL

\* No entry of the pool is ever lost or in two places (cmt_heap.c).
THEOREM SchedPoolConserved ==
  ASSUME 0 \notin Delays
  PROVE  Spec => []PoolConserved
<1>1. IInv => PoolConserved BY DEF IInv
<1>2. QED BY <1>1, SchedInvariant, PTL

\* The deltas always add up to the true time left of each message.
THEOREM SchedDeltasKeepDeadlines ==
  ASSUME 0 \notin Delays
  PROVE  Spec => []DeltasKeepDeadlines
<1>1. IInv => DeltasKeepDeadlines BY DEF IInv
<1>2. QED BY <1>1, SchedInvariant, PTL

\* No message is posted early and none is overdue: the head's delta is its true
\* time and the list is in order, so who is due is in front.
THEOREM SchedPostedOnItsTick ==
  ASSUME 0 \notin Delays
  PROVE  Spec => []PostedOnItsTick
<1>1. ASSUME IInv PROVE PostedOnItsTick
  <2> SUFFICES ASSUME NEW i \in 1..Len(smd_ll)
               PROVE  /\ left[smd_ll[i]] >= 0
                      /\ pc # "expire" => left[smd_ll[i]] > 0
    BY DEF PostedOnItsTick
  <2>1. 1 \in 1..Len(smd_ll) /\ 1 <= i /\ smd_ll # <<>>
        /\ smd_ll[1] \in Entries /\ smd_ll[i] \in Entries
    BY <1>1 DEF IInv, TypeOK
  <2>2. left[smd_ll[1]] \in Int /\ left[smd_ll[i]] \in Int
    BY <2>1, <1>1 DEF IInv, TypeOK
  <2>3. left[smd_ll[1]] <= left[smd_ll[i]]
    BY <2>1, <1>1 DEF IInv, Ordered
  <2>4. remaining[smd_ll[1]] = left[smd_ll[1]]
    BY <2>1, <2>2, <1>1 DEF IInv, DeltasKeepDeadlines, Before
  <2>5. remaining[smd_ll[1]] >= 0 /\ (pc # "expire" => remaining[smd_ll[1]] > 0)
    BY <2>1, <1>1 DEF IInv, DeltasWait
  <2> QED BY <2>2, <2>3, <2>4, <2>5
<1>2. IInv => PostedOnItsTick BY <1>1
<1>3. QED BY <1>2, SchedInvariant, PTL

-----------------------------------------------------------------------------
(* The refinement.  The invariant above says all that is needed of times and of the
   list; added is what an entry holds while it waits, and that nothing was posted
   since an insertion or a cancel began. *)

\* Entries that are linked, or are about to be, hold a message.
Holding ==
  /\ \A i \in 1..Len(smd_ll) : held[smd_ll[i]] \in Targets
  /\ pc = "insert" => held[arg] \in Targets

\* No tick comes between taking an entry and linking it (interrupts are off):
\* its time is still the delay that was asked for.
StillToWaitAll == pc = "insert" => left[arg] \in Delays

\* What was posted has been seen when an insertion or a cancel is under way.
NothingPosted == pc \in {"insert", "cancel"} => posted = NoMessage

RInv == Holding /\ StillToWaitAll /\ NothingPosted

\* The refinement mapping, and what it says of an entry.
HeldAbove == [e \in Entries |-> IF e \in Range0(smd_ll) THEN held[e] ELSE NoMessage]
LeftAbove == [e \in Entries |-> IF e \in Range0(smd_ll) THEN left[e] ELSE 0]

-----------------------------------------------------------------------------
(* RInv is an invariant. *)

LEMMA InitRInv == Init => RInv
  BY DEF Init, RInv, Holding, StillToWaitAll, NothingPosted

LEMMA ScheduleBeginRInv ==
  ASSUME IInv, RInv, NEW m \in Messages, NEW core \in Cores,
         NEW ms \in Delays, ScheduleBegin(m, core, ms)
  PROVE  RInv'
<1>1. PICK e \in free :
        /\ held' = [held EXCEPT ![e] = <<m, core>>]
        /\ left' = [left EXCEPT ![e] = ms]
        /\ arg' = e
  BY DEF ScheduleBegin
<1>2. e \in Entries /\ <<m, core>> \in Targets
  BY DEF IInv, TypeOK, Targets
<1>3. held'[e] = <<m, core>> /\ left'[e] = ms
  BY <1>1, <1>2 DEF IInv, TypeOK
<1>4. UNCHANGED smd_ll /\ pc' = "insert" /\ posted' = NoMessage
  BY DEF ScheduleBegin
<1>5. \A i \in 1..Len(smd_ll) : smd_ll[i] # e /\ smd_ll[i] \in Entries
  BY <1>1 DEF IInv, TypeOK, PoolConserved, Range0
<1>6. \A i \in 1..Len(smd_ll) : held'[smd_ll[i]] = held[smd_ll[i]]
  BY <1>1, <1>5 DEF IInv, TypeOK
<1> QED BY <1>1, <1>2, <1>3, <1>4, <1>6
        DEF RInv, Holding, StillToWaitAll, NothingPosted

\* Linking puts an entry that holds its message in the list.
LEMMA ScheduleLinkRInv == ASSUME IInv, RInv, ScheduleLink PROVE RInv'
<1>1. pc = "insert" /\ arg \in Entries /\ pos \in 1..Len(smd_ll) + 1
      /\ smd_ll \in Seq(Entries)
  BY DEF ScheduleLink, IInv, TypeOK
<1>2. smd_ll' = Linked(pos, arg) /\ pc' = "idle" /\ held' = held
  BY DEF ScheduleLink
<1>3. /\ Len(smd_ll') = Len(smd_ll) + 1
      /\ \A i \in 1..Len(smd_ll) + 1 :
           smd_ll'[i] = IF i < pos THEN smd_ll[i]
                        ELSE IF i = pos THEN arg ELSE smd_ll[i - 1]
  BY <1>1, <1>2, LinkedFacts
<1>4. \A i \in 1..Len(smd_ll) + 1 : held'[smd_ll'[i]] \in Targets
  BY <1>1, <1>2, <1>3 DEF RInv, Holding
<1> QED BY <1>2, <1>3, <1>4 DEF RInv, Holding, StillToWaitAll, NothingPosted

\* Unlinking an entry leaves what the others hold.
LEMMA UnlinkRInv ==
  ASSUME IInv, RInv, NEW p \in 1..Len(smd_ll),
         smd_ll' = Unlinked(p),
         held' = [held EXCEPT ![smd_ll[p]] = NoMessage],
         pc' \in {"idle", "expire"}
  PROVE  RInv'
<1>1. /\ smd_ll \in Seq(Entries)
      /\ \A i, j \in 1..Len(smd_ll) : smd_ll[i] = smd_ll[j] => i = j
  BY DEF IInv, TypeOK, PoolConserved
<1>2. /\ Len(smd_ll') = Len(smd_ll) - 1
      /\ \A i \in 1..Len(smd_ll) - 1 :
           smd_ll'[i] = IF i < p THEN smd_ll[i] ELSE smd_ll[i + 1]
  BY <1>1, UnlinkedFacts
<1>3. \A i \in 1..Len(smd_ll) :
        i # p => held'[smd_ll[i]] = held[smd_ll[i]]
  BY <1>1 DEF IInv, TypeOK
<1>4. ASSUME NEW i \in 1..Len(smd_ll) - 1
      PROVE  held'[smd_ll'[i]] \in Targets
  <2>1. CASE i < p
    BY <2>1, <1>1, <1>2, <1>3 DEF RInv, Holding
  <2>2. CASE i >= p
    <3>1. i + 1 \in 1..Len(smd_ll) /\ i + 1 # p /\ smd_ll'[i] = smd_ll[i + 1]
      BY <2>2, <1>1, <1>2
    <3>2. QED BY <3>1, <1>3 DEF RInv, Holding
  <2>3. QED BY <2>1, <2>2
<1>5. Holding'
  BY <1>2, <1>4 DEF Holding
<1> QED BY <1>5 DEF RInv, StillToWaitAll, NothingPosted

\* A tick and the steps that only walk or begin something.
LEMMA OtherRInv ==
  ASSUME IInv, RInv,
         \/ \E m \in Messages, core \in Cores : CancelBegin(m, core)
         \/ SchedulePanic \/ TickBegin \/ ScheduleWalk
         \/ CancelWalk \/ CancelMiss \/ TickEnd \/ UNCHANGED vars
  PROVE  RInv'
<1>1. CASE ScheduleWalk \/ CancelWalk \/ UNCHANGED vars
  BY <1>1 DEF ScheduleWalk, CancelWalk, vars, RInv, Holding, StillToWaitAll,
              NothingPosted
<1>2. CASE SchedulePanic \/ TickEnd \/ CancelMiss
  BY <1>2 DEF SchedulePanic, TickEnd, CancelMiss, RInv, Holding,
              StillToWaitAll, NothingPosted
<1>3. CASE \E m \in Messages, core \in Cores : CancelBegin(m, core)
  BY <1>3 DEF CancelBegin, RInv, Holding, StillToWaitAll, NothingPosted
<1>4. CASE TickBegin
  BY <1>4 DEF TickBegin, RInv, Holding, StillToWaitAll, NothingPosted
<1> QED BY <1>1, <1>2, <1>3, <1>4

LEMMA NextRInv == ASSUME IInv, RInv, [Next]_vars PROVE RInv'
<1>1. CASE \E m \in Messages, core \in Cores, ms \in Delays :
             ScheduleBegin(m, core, ms)
  BY <1>1, ScheduleBeginRInv
<1>2. CASE ScheduleLink BY <1>2, ScheduleLinkRInv
<1>3. CASE CancelUnlink
  <2>1. pos \in 1..Len(smd_ll)
    BY <1>3 DEF CancelUnlink, IInv, TypeOK
  <2>2. QED BY <1>3, <2>1, UnlinkRInv DEF CancelUnlink
<1>4. CASE TickPost
  <2>1. 1 \in 1..Len(smd_ll)
    BY <1>4 DEF TickPost, IInv, TypeOK
  <2>2. QED BY <1>4, <2>1, UnlinkRInv DEF TickPost
<1>5. CASE \/ \E m \in Messages, core \in Cores : CancelBegin(m, core)
           \/ SchedulePanic \/ TickBegin \/ ScheduleWalk
           \/ CancelWalk \/ CancelMiss \/ TickEnd \/ UNCHANGED vars
  BY <1>5, OtherRInv
<1> QED BY <1>1, <1>2, <1>3, <1>4, <1>5 DEF Next, Continue

-----------------------------------------------------------------------------
(* The steps of CmtSched, seen from above. *)

\* No message is the mark of a free entry.
LEMMA TargetsAreMessages == NoMessage \notin Targets
  BY SchedAssumption DEF Targets, Cores

\* The entries in which a message waits, above, are those of the list.
LEMMA PendingIsLinked ==
  ASSUME IInv, RInv
  PROVE  /\ Deadline!Pending = Range0(smd_ll)
         /\ Range0(smd_ll) \subseteq Entries
<1>1. Range0(smd_ll) \subseteq Entries
  BY DEF IInv, TypeOK, Range0
<1>2. \A e \in Range0(smd_ll) : held[e] # NoMessage
  BY TargetsAreMessages DEF RInv, Holding, Range0, IInv, TypeOK
<1>3. QED BY <1>1, <1>2 DEF Deadline!Pending

\* The initial states.
LEMMA InitAbove == Init => Deadline!Init
  BY DEF Init, Deadline!Init, Range0

\* A step that changes neither the list nor what its entries hold, and posts
\* nothing, is not seen above but for what was posted before it.
LEMMA UnseenAbove ==
  ASSUME UNCHANGED smd_ll, posted' = NoMessage,
         \A e \in Range0(smd_ll) : held'[e] = held[e] /\ left'[e] = left[e]
  PROVE  Deadline!Next
<1>1. Deadline!Quiet
  BY DEF Deadline!Quiet, Range0
<1>2. QED BY <1>1 DEF Deadline!Next

\* Taking an entry from the pool.
LEMMA ScheduleBeginAbove ==
  ASSUME IInv, NEW m \in Messages, NEW core \in Cores, NEW ms \in Delays,
         ScheduleBegin(m, core, ms)
  PROVE  Deadline!Next
<1>1. PICK e \in free : /\ held' = [held EXCEPT ![e] = <<m, core>>]
                        /\ left' = [left EXCEPT ![e] = ms]
  BY DEF ScheduleBegin
<1>2. e \notin Range0(smd_ll) /\ Range0(smd_ll) \subseteq Entries
  BY DEF IInv, TypeOK, PoolConserved, Range0
<1>3. \A d \in Range0(smd_ll) : held'[d] = held[d] /\ left'[d] = left[d]
  BY <1>1, <1>2 DEF IInv, TypeOK
<1>4. UNCHANGED smd_ll /\ posted' = NoMessage
  BY DEF ScheduleBegin
<1>5. QED BY <1>3, <1>4, UnseenAbove

\* Linking an entry schedules its message.
LEMMA ScheduleLinkAbove ==
  ASSUME IInv, RInv, ScheduleLink
  PROVE  Deadline!Next
<1>1. /\ pc = "insert" /\ arg \in Entries /\ pos \in 1..Len(smd_ll) + 1
      /\ smd_ll \in Seq(Entries)
      /\ smd_ll' = Linked(pos, arg) /\ UNCHANGED <<held, left, posted>>
  BY DEF ScheduleLink, IInv, TypeOK
<1>2. Range0(smd_ll') = Range0(smd_ll) \cup {arg}
  BY <1>1, LinkedFacts
<1>3. arg \notin Range0(smd_ll)
  BY <1>1 DEF IInv, PoolConserved
<1>4. posted' = NoMessage
  BY <1>1 DEF RInv, NothingPosted
<1>5. PICK m \in Messages, core \in Cores : held[arg] = <<m, core>>
  BY <1>1 DEF RInv, Holding, Targets
<1>6. left[arg] \in Delays
  BY <1>1 DEF RInv, StillToWaitAll
<1>7. arg \notin Deadline!Pending
  BY <1>3, PendingIsLinked
<1>8. HeldAbove' = [HeldAbove EXCEPT ![arg] = <<m, core>>]
  BY <1>1, <1>2, <1>5 DEF HeldAbove
<1>9. LeftAbove' = [LeftAbove EXCEPT ![arg] = left[arg]]
  BY <1>1, <1>2 DEF LeftAbove
<1>10. PICK s \in Entries, ms \in Delays : s = arg /\ ms = left[arg]
  BY <1>1, <1>6
<1>11. Deadline!Schedule(s, m, core, ms)
  BY <1>4, <1>7, <1>8, <1>9, <1>10 DEF Deadline!Schedule, HeldAbove, LeftAbove
<1>12. core \in Deadline!Cores
  BY <1>5 DEF Cores, Deadline!Cores
<1>13. QED BY <1>11, <1>12 DEF Deadline!Next

\* Unlinking the entry at place p leaves the list without it.
LEMMA UnlinkAbove ==
  ASSUME IInv, NEW p \in 1..Len(smd_ll), smd_ll' = Unlinked(p),
         held' = [held EXCEPT ![smd_ll[p]] = NoMessage]
  PROVE  /\ smd_ll[p] \in Range0(smd_ll)
         /\ smd_ll[p] \in Entries
         /\ Range0(smd_ll') = Range0(smd_ll) \ {smd_ll[p]}
         /\ HeldAbove' = [HeldAbove EXCEPT ![smd_ll[p]] = NoMessage]
<1>1. /\ smd_ll \in Seq(Entries)
      /\ \A i, j \in 1..Len(smd_ll) : smd_ll[i] = smd_ll[j] => i = j
  BY DEF IInv, TypeOK, PoolConserved
<1>2. Range0(smd_ll') = Range0(smd_ll) \ {smd_ll[p]}
  BY <1>1, UnlinkedFacts
<1>3. smd_ll[p] \in Range0(smd_ll) /\ smd_ll[p] \in Entries
  BY <1>1 DEF Range0
<1>4. \A e \in Entries : e # smd_ll[p] => held'[e] = held[e]
  BY <1>3 DEF IInv, TypeOK
<1>5. \A e \in Entries :
        HeldAbove'[e] = [HeldAbove EXCEPT ![smd_ll[p]] = NoMessage][e]
  BY <1>2, <1>3, <1>4 DEF HeldAbove
<1>6. HeldAbove' = [HeldAbove EXCEPT ![smd_ll[p]] = NoMessage]
  BY <1>5 DEF HeldAbove
<1>7. QED BY <1>2, <1>3, <1>6

\* Unlinking the entry a cancel has found cancels its message.
LEMMA CancelUnlinkAbove ==
  ASSUME IInv, RInv, CancelUnlink
  PROVE  Deadline!Next
<1> DEFINE e == smd_ll[pos]
<1>1. /\ pc = "cancel" /\ pos \in 1..Len(smd_ll)
      /\ smd_ll' = Unlinked(pos)
      /\ held' = [held EXCEPT ![e] = NoMessage]
      /\ left' = [left EXCEPT ![e] = 0]
      /\ UNCHANGED posted
  BY DEF CancelUnlink, IInv, TypeOK
<1>2. /\ e \in Range0(smd_ll) /\ e \in Entries
      /\ Range0(smd_ll') = Range0(smd_ll) \ {e}
      /\ HeldAbove' = [HeldAbove EXCEPT ![e] = NoMessage]
  BY <1>1, UnlinkAbove
<1>3. \A d \in Entries : d # e => left'[d] = left[d]
  BY <1>1, <1>2 DEF IInv, TypeOK
<1>4. LeftAbove' = [LeftAbove EXCEPT ![e] = 0]
  <2>1. \A d \in Entries : LeftAbove'[d] = [LeftAbove EXCEPT ![e] = 0][d]
    BY <1>2, <1>3 DEF LeftAbove
  <2>2. QED BY <2>1 DEF LeftAbove
<1>5. posted' = NoMessage
  BY <1>1 DEF RInv, NothingPosted
<1>6. e \in Deadline!Pending
  BY <1>2, PendingIsLinked
<1>7. PICK s \in Entries : s = e
  BY <1>2
<1>8. Deadline!Cancel(s)
  BY <1>2, <1>4, <1>5, <1>6, <1>7 DEF Deadline!Cancel, HeldAbove, LeftAbove
<1>9. QED BY <1>8 DEF Deadline!Next

\* A tick of the interrupt is a tick above: it takes one off the time of every
\* message, though the code decrements the head only, and none is due before it.
LEMMA TickBeginAbove ==
  ASSUME IInv, RInv, PostedOnItsTick, TickBegin
  PROVE  Deadline!Next
<1>1. /\ pc = "idle" /\ UNCHANGED <<smd_ll, held>> /\ posted' = NoMessage
      /\ left' = [e \in Entries |-> IF e \in free THEN 0 ELSE left[e] - 1]
  BY DEF TickBegin
<1>2. /\ Range0(smd_ll) \cap free = {} /\ Range0(smd_ll) \subseteq Entries
      /\ Range0(smd_ll)' = Range0(smd_ll)
  BY <1>1 DEF IInv, TypeOK, PoolConserved, Range0
<1>3. \A e \in Range0(smd_ll) : left'[e] = left[e] - 1
  BY <1>1, <1>2
<1>4. \A e \in Range0(smd_ll) : left[e] > 0
  BY <1>1 DEF PostedOnItsTick, Range0, IInv, TypeOK
<1>5. Deadline!Pending = Range0(smd_ll)
  BY PendingIsLinked
<1>6. HeldAbove' = HeldAbove
  BY <1>1, <1>2 DEF HeldAbove
<1>7. \A s \in Deadline!Pending : LeftAbove[s] > 0
  BY <1>2, <1>4, <1>5 DEF LeftAbove
<1>8. LeftAbove' = [s \in Entries |-> IF s \in Deadline!Pending
                                        THEN LeftAbove[s] - 1 ELSE 0]
  BY <1>2, <1>3, <1>5 DEF LeftAbove
<1>9. Deadline!Tick
  BY <1>1, <1>6, <1>7, <1>8 DEF Deadline!Tick, HeldAbove, LeftAbove
<1>10. QED BY <1>9 DEF Deadline!Next

\* An expired head is posted above on the tick it was meant for: no time is left.
LEMMA TickPostAbove ==
  ASSUME IInv, RInv, PostedOnItsTick, TickPost
  PROVE  Deadline!Next
<1> DEFINE e == smd_ll[1]
<1>1. /\ 1 \in 1..Len(smd_ll) /\ TimedOut(remaining[e])
      /\ smd_ll' = Unlinked(1)
      /\ held' = [held EXCEPT ![e] = NoMessage]
      /\ posted' = held[e]
      /\ UNCHANGED left
  BY DEF TickPost, IInv, TypeOK
<1>2. /\ e \in Range0(smd_ll) /\ e \in Entries
      /\ Range0(smd_ll') = Range0(smd_ll) \ {e}
      /\ HeldAbove' = [HeldAbove EXCEPT ![e] = NoMessage]
  BY <1>1, UnlinkAbove
<1>3. left[e] = 0
  <2>1. left[e] \in Int /\ remaining[e] \in Int
    BY <1>2 DEF IInv, TypeOK
  <2>2. remaining[e] = left[e]
    BY <1>1, <2>1 DEF IInv, DeltasKeepDeadlines, Before
  <2>3. left[e] >= 0
    BY <1>1 DEF PostedOnItsTick
  <2>4. QED BY <1>1, <2>1, <2>2, <2>3 DEF TimedOut
<1>4. LeftAbove' = LeftAbove
  BY <1>1, <1>2, <1>3 DEF LeftAbove
<1>5. e \in Deadline!Pending
  BY <1>2, PendingIsLinked
<1>6. HeldAbove[e] = held[e] /\ LeftAbove[e] = 0
  BY <1>2, <1>3 DEF HeldAbove, LeftAbove
<1>7. PICK s \in Entries : s = e
  BY <1>2
<1>8. Deadline!Post(s)
  BY <1>1, <1>2, <1>4, <1>5, <1>6, <1>7 DEF Deadline!Post, HeldAbove, LeftAbove
<1>9. QED BY <1>8 DEF Deadline!Next

\* Every step of CmtSched is a step above or leaves what is above unchanged.
LEMMA NextAbove ==
  ASSUME IInv, RInv, PostedOnItsTick, [Next]_vars
  PROVE  [Deadline!Next]_(Deadline!dvars)
<1>1. CASE \E m \in Messages, core \in Cores, ms \in Delays :
             ScheduleBegin(m, core, ms)
  BY <1>1, ScheduleBeginAbove
<1>2. CASE ScheduleLink BY <1>2, ScheduleLinkAbove
<1>3. CASE CancelUnlink BY <1>3, CancelUnlinkAbove
<1>4. CASE TickBegin BY <1>4, TickBeginAbove
<1>5. CASE TickPost BY <1>5, TickPostAbove
<1>6. CASE \/ \E m \in Messages, core \in Cores : CancelBegin(m, core)
           \/ SchedulePanic \/ TickEnd
  <2>1. UNCHANGED <<smd_ll, held, left>> /\ posted' = NoMessage
    BY <1>6 DEF CancelBegin, SchedulePanic, TickEnd
  <2>2. QED BY <2>1, UnseenAbove
<1>7. CASE ScheduleWalk \/ CancelWalk \/ CancelMiss \/ UNCHANGED vars
  <2>1. UNCHANGED <<smd_ll, held, left, posted>>
    BY <1>7 DEF ScheduleWalk, CancelWalk, CancelMiss, vars
  <2>2. QED BY <2>1 DEF Deadline!dvars, Range0
<1> QED BY <1>1, <1>2, <1>3, <1>4, <1>5, <1>6, <1>7 DEF Next, Continue

-----------------------------------------------------------------------------

\* The delta list of cmt.c keeps the promise of cmt.h: with delays of at least
\* 1 ms each message is posted once, exactly as many ticks after it was scheduled
\* as was asked for, unless it is cancelled first.
THEOREM SchedImplementsDeadline ==
  ASSUME 0 \notin Delays
  PROVE  Spec => ImplementsDeadline
<1>1. Spec => []IInv
  BY SchedInvariant
<1>2. Spec => []PostedOnItsTick
  BY SchedPostedOnItsTick
<1>3. IInv /\ RInv /\ [Next]_vars => RInv'
  BY NextRInv
<1>4. IInv /\ RInv /\ PostedOnItsTick /\ [Next]_vars
        => [Deadline!Next]_(Deadline!dvars)
  BY NextAbove
<1>5. QED
  BY <1>1, <1>2, <1>3, <1>4, InitRInv, InitAbove, PTL
     DEF Spec, ImplementsDeadline, Deadline!Spec
=============================================================================
