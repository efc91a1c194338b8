--------------------------- MODULE Chains_proofs ---------------------------
(***************************************************************************)
(* Lemmas about lists in memory: what is met on the way along a list, and  *)
(* how a list changes when an entry is put in, taken out or left alone.    *)
(***************************************************************************)
EXTENDS Chains, Sequences, FiniteSetTheorems, WellFoundedInduction, TLAPS

-----------------------------------------------------------------------------
(* The least number of a set. *)

\* A relation that is < on the numbers has a least number where it has a
\* minimal one.
LEMMA LeastOf ==
  ASSUME NEW T \in SUBSET Nat, NEW R,
         \E n \in T : \A m \in T : ~(<<m, n>> \in R),
         \A m, n \in Nat : <<m, n>> \in R <=> m < n
  PROVE  \E n \in T : \A m \in T : n <= m
<1>1. PICK n \in T : \A m \in T : ~(<<m, n>> \in R)
  OBVIOUS
<1>2. \A m \in T : ~(m < n)
  BY <1>1, Zenon
<1>3. \A m \in T : n <= m
  BY <1>2
<1> QED BY <1>3

\* Every set of numbers that is not empty has a least one.
LEMMA LeastNat ==
  ASSUME NEW T \in SUBSET Nat, T # {}
  PROVE  \E n \in T : \A m \in T : n <= m
<1> DEFINE R == OpToRel(<, Nat)
<1>1. \E n \in T : \A m \in T : ~(<<m, n>> \in R)
  BY NatLessThanWellFounded, WFMin, Zenon
<1>2. \A m, n \in Nat : <<m, n>> \in R <=> m < n
  BY Zenon DEF OpToRel
<1> HIDE DEF R
<1> QED BY <1>1, <1>2, LeastOf

-----------------------------------------------------------------------------
(* The way along a list. *)

\* g is the way along the list for its first m steps.
Way(nx, nil, p, m, g) ==
  g = [k \in 0..m |->
         IF k = 0 THEN p ELSE IF g[k - 1] = nil THEN nil ELSE nx[g[k - 1]]]

\* There is a way of every length, so that the recursive definition defines one.
LEMMA WayExists ==
  ASSUME NEW nx, NEW nil, NEW p, NEW n \in Nat
  PROVE  \E g : Way(nx, nil, p, n, g)
<1> DEFINE T == {m \in Nat : ~ \E g : Way(nx, nil, p, m, g)}
<1> SUFFICES ASSUME n \in T PROVE FALSE
  OBVIOUS
<1>1. PICK m \in T : \A j \in T : m <= j
  <2>1. T \in SUBSET Nat /\ T # {} OBVIOUS
  <2> HIDE DEF T
  <2> QED BY <2>1, LeastNat
<1>2. m \in Nat OBVIOUS
<1>3. m # 0
  <2>1. Way(nx, nil, p, 0, [k \in 0..0 |-> p]) BY DEF Way
  <2> QED BY <2>1
<1>4. PICK g : Way(nx, nil, p, m - 1, g)
  <2>1. m - 1 \in Nat /\ m - 1 < m BY <1>2, <1>3
  <2> QED BY <1>1, <2>1
<1> DEFINE last == IF g[m - 1] = nil THEN nil ELSE nx[g[m - 1]]
           h == [k \in 0..m |-> IF k = m THEN last ELSE g[k]]
<1>5. \A k \in 0..m : h[k] = IF k = 0 THEN p
                             ELSE IF h[k - 1] = nil THEN nil ELSE nx[h[k - 1]]
  <2> SUFFICES ASSUME NEW k \in 0..m
               PROVE  h[k] = IF k = 0 THEN p
                             ELSE IF h[k - 1] = nil THEN nil ELSE nx[h[k - 1]]
    OBVIOUS
  <2>1. CASE k = m
    <3>1. h[k] = last /\ h[k - 1] = g[m - 1] /\ k # 0 BY <1>2, <1>3, <2>1
    <3> QED BY <2>1, <3>1
  <2>2. CASE k # m
    <3>1. k \in 0..m - 1 /\ h[k] = g[k] BY <1>2, <2>2
    <3>2. g[k] = IF k = 0 THEN p ELSE IF g[k - 1] = nil THEN nil ELSE nx[g[k - 1]]
      BY <1>4, <3>1 DEF Way
    <3>3. k # 0 => k - 1 \in 0..m /\ k - 1 # m /\ h[k - 1] = g[k - 1] BY <1>2, <2>2
    <3> QED BY <3>1, <3>2, <3>3
  <2> QED BY <2>1, <2>2
<1>6. Way(nx, nil, p, m, h)
  <2>1. h = [k \in 0..m |-> h[k]] OBVIOUS
  <2> HIDE DEF h
  <2> QED BY <1>5, <2>1 DEF Way
<1> QED BY <1>6

LEMMA StepsWay ==
  ASSUME NEW nx, NEW nil, NEW p, NEW n \in Nat
  PROVE  Way(nx, nil, p, n, StepsFrom(nx, nil, p, n))
<1>1. PICK g : Way(nx, nil, p, n, g) BY WayExists
<1> QED BY <1>1 DEF Way, StepsFrom

\* From nil the way leads nowhere else.
LEMMA NilSteps ==
  ASSUME NEW nx, NEW nil, NEW n \in Nat
  PROVE  \A k \in 0..n : StepsFrom(nx, nil, nil, n)[k] = nil
<1> DEFINE step == StepsFrom(nx, nil, nil, n)
           T == {k \in 0..n : step[k] # nil}
<1>1. \A k \in 0..n : step[k] = IF k = 0 THEN nil ELSE IF step[k - 1] = nil THEN nil
                                                       ELSE nx[step[k - 1]]
  <2>1. Way(nx, nil, nil, n, step) BY StepsWay
  <2> HIDE DEF step
  <2> QED BY <2>1 DEF Way
<1> HIDE DEF step
<1> SUFFICES ASSUME T # {} PROVE FALSE
  BY DEF step
<1>2. PICK k \in T : \A j \in T : k <= j
  <2>1. T \in SUBSET Nat OBVIOUS
  <2> HIDE DEF T
  <2> QED BY <2>1, LeastNat
<1>3. k \in 0..n /\ step[k] # nil /\ k # 0 BY <1>1
<1>4. k - 1 \in 0..n /\ k - 1 < k BY <1>3
<1>5. step[k - 1] = nil BY <1>2, <1>4
<1> QED BY <1>1, <1>3, <1>5

\* What the way meets: pointers, whatever the links.
LEMMA StepsType ==
  ASSUME NEW E, NEW nil, NEW nx \in [E -> E \cup {nil}], NEW p \in E \cup {nil},
         NEW n \in Nat
  PROVE  \A k \in 0..n : StepsFrom(nx, nil, p, n)[k] \in E \cup {nil}
<1> DEFINE step == StepsFrom(nx, nil, p, n)
           T == {k \in 0..n : step[k] \notin E \cup {nil}}
<1>1. \A k \in 0..n : step[k] = IF k = 0 THEN p ELSE IF step[k - 1] = nil THEN nil
                                                     ELSE nx[step[k - 1]]
  <2>1. Way(nx, nil, p, n, step) BY StepsWay
  <2> HIDE DEF step
  <2> QED BY <2>1 DEF Way
<1> HIDE DEF step
<1> SUFFICES ASSUME T # {} PROVE FALSE
  BY DEF step
<1>2. PICK k \in T : \A j \in T : k <= j
  <2>1. T \in SUBSET Nat OBVIOUS
  <2> HIDE DEF T
  <2> QED BY <2>1, LeastNat
<1>3. k \in 0..n /\ step[k] \notin E \cup {nil} OBVIOUS
<1>4. k # 0 BY <1>1, <1>3
<1>5. k - 1 \in 0..n /\ k - 1 < k BY <1>3, <1>4
<1>6. step[k - 1] \in E \cup {nil} BY <1>2, <1>5
<1> QED BY <1>1, <1>3, <1>4, <1>6

-----------------------------------------------------------------------------
(* Lists whose entries are ranked by how many are behind them. *)

\* The way along such a list goes down the ranks, and then stays at nil.
LEMMA RankedSteps ==
  ASSUME NEW nx, NEW nil, NEW p, NEW S, NEW rank, Ranked(nx, nil, p, S, rank),
         p # nil, NEW n \in Nat
  PROVE  \A k \in 0..n :
           LET s == StepsFrom(nx, nil, p, n)[k]
           IN  IF k <= rank[p] THEN s \in S /\ rank[s] = rank[p] - k ELSE s = nil
<1> DEFINE step == StepsFrom(nx, nil, p, n)
           Right(k) == IF k <= rank[p] THEN step[k] \in S /\ rank[step[k]] = rank[p] - k
                                       ELSE step[k] = nil
           T == {k \in 0..n : ~Right(k)}
<1>1. \A k \in 0..n : step[k] = IF k = 0 THEN p ELSE IF step[k - 1] = nil THEN nil
                                                     ELSE nx[step[k - 1]]
  <2>1. Way(nx, nil, p, n, step) BY StepsWay
  <2> HIDE DEF step
  <2> QED BY <2>1 DEF Way
<1> HIDE DEF step
<1> SUFFICES ASSUME T # {} PROVE FALSE
  BY DEF step
<1>2. PICK k \in T : \A j \in T : k <= j
  <2>1. T \in SUBSET Nat OBVIOUS
  <2> HIDE DEF T
  <2> QED BY <2>1, LeastNat
<1>3. k \in 0..n /\ ~Right(k) OBVIOUS
<1>4. nil \notin S /\ p \in S /\ rank[p] \in Nat BY DEF Ranked
<1>5. k # 0 BY <1>1, <1>3, <1>4
<1>6. k - 1 \in 0..n /\ k - 1 < k BY <1>3, <1>5
<1>7. Right(k - 1) BY <1>2, <1>6
<1>8. step[k] = IF step[k - 1] = nil THEN nil ELSE nx[step[k - 1]] BY <1>1, <1>3, <1>5
<1>9. CASE k <= rank[p]
  <2>1. step[k - 1] \in S /\ rank[step[k - 1]] = rank[p] - (k - 1) BY <1>4, <1>6, <1>7, <1>9
  <2>2. rank[step[k - 1]] > 0 BY <1>3, <1>4, <1>9, <2>1
  <2>3. nx[step[k - 1]] \in S /\ rank[nx[step[k - 1]]] = rank[step[k - 1]] - 1
    BY <2>1, <2>2 DEF Ranked
  <2> QED BY <1>3, <1>4, <1>8, <1>9, <2>1, <2>3
<1>10. CASE k - 1 = rank[p]
  <2>1. step[k - 1] \in S /\ rank[step[k - 1]] = 0 BY <1>4, <1>6, <1>7, <1>10
  <2>2. nx[step[k - 1]] = nil BY <2>1 DEF Ranked
  <2> QED BY <1>3, <1>4, <1>8, <1>10, <2>2
<1>11. CASE k - 1 > rank[p]
  <2>1. step[k - 1] = nil BY <1>4, <1>6, <1>7, <1>11
  <2> QED BY <1>3, <1>4, <1>8, <1>11, <2>1
<1> QED BY <1>3, <1>4, <1>9, <1>10, <1>11

\* The entries of a list are fewer than the ranks up to its head's.
LEMMA RankBound ==
  ASSUME NEW nx, NEW nil, NEW p, NEW S, NEW rank, Ranked(nx, nil, p, S, rank),
         p # nil, NEW E, IsFiniteSet(E), S \subseteq E
  PROVE  rank[p] \in Nat /\ Cardinality(E) \in Nat /\ rank[p] < Cardinality(E)
<1> DEFINE n == rank[p]
           f == [k \in 0..n |-> StepsFrom(nx, nil, p, n)[k]]
<1>1. n \in Nat /\ Cardinality(E) \in Nat BY FS_CardinalityType DEF Ranked
<1>2. \A k \in 0..n : f[k] \in S /\ rank[f[k]] = n - k
  <2> TAKE k \in 0..n
  <2>1. LET s == StepsFrom(nx, nil, p, n)[k] IN s \in S /\ rank[s] = n - k
    BY <1>1, RankedSteps
  <2> QED BY <2>1
<1>3. f \in [0..n -> E] BY <1>2
<1> HIDE DEF f
<1>4. IsFiniteSet(0..n) /\ Cardinality(0..n) = n + 1
  <2> HIDE DEF n
  <2> QED BY <1>1, FS_Interval
<1>5. \A j, k \in 0..n : f[j] = f[k] => j = k
  <2> TAKE j, k \in 0..n
  <2>1. f[j] = f[k] => n - j = n - k BY <1>2
  <2> HIDE DEF n
  <2> QED BY <1>1, <2>1
<1>6. ~(Cardinality(E) < n + 1)
  <2> SUFFICES ASSUME Cardinality(E) < Cardinality(0..n) PROVE FALSE
    BY <1>4
  <2>1. \E j, k \in 0..n : j # k /\ f[j] = f[k] BY <1>3, <1>4, FS_PigeonHole
  <2> QED BY <1>5, <2>1
<1> QED BY <1>1, <1>6

\* What the walks of cmt.c rely on when they follow `next' to NULL: a list whose entries
\* are ranked ends within the size of the pool, and what hangs from p is S, nothing else.
THEOREM RankedChain ==
  ASSUME NEW nx, NEW nil, NEW p, NEW S, NEW rank, Ranked(nx, nil, p, S, rank),
         NEW E, IsFiniteSet(E), S \subseteq E
  PROVE  /\ ChainFrom(nx, nil, p, Cardinality(E)) = S
         /\ EndsFrom(nx, nil, p, Cardinality(E))
<1> DEFINE n == Cardinality(E)
           step == StepsFrom(nx, nil, p, n)
<1>1. n \in Nat BY FS_CardinalityType
<1> HIDE DEF n
<1>2. nil \notin S BY DEF Ranked
<1>3. CASE p = nil
  <2>1. S = {} BY <1>3 DEF Ranked
  <2>2. \A k \in 0..n : step[k] = nil BY <1>1, <1>3, NilSteps
  <2> HIDE DEF step
  <2>3. {step[k] : k \in 0..n} \ {nil} = S BY <2>1, <2>2
  <2> QED BY <1>1, <2>2, <2>3 DEF ChainFrom, EndsFrom, n, step
<1>4. CASE p # nil
  <2>1. p \in S /\ (\A e \in S : rank[e] \in Nat /\ rank[e] <= rank[p]) BY <1>4 DEF Ranked
  <2>2. rank[p] < n BY <1>4, RankBound DEF n
  <2>3. \A k \in 0..n : IF k <= rank[p] THEN step[k] \in S /\ rank[step[k]] = rank[p] - k
                                        ELSE step[k] = nil
    BY <1>1, <1>4, RankedSteps
  <2> HIDE DEF step
  <2>4. \A e \in S : \E k \in 0..n : step[k] = e
    <3> TAKE e \in S
    <3>1. rank[p] - rank[e] \in 0..n /\ rank[p] - rank[e] <= rank[p]
      BY <1>1, <2>1, <2>2
    <3>2. /\ step[rank[p] - rank[e]] \in S
          /\ rank[step[rank[p] - rank[e]]] = rank[p] - (rank[p] - rank[e])
      BY <2>3, <3>1
    <3>3. rank[step[rank[p] - rank[e]]] = rank[e] BY <2>1, <3>2
    <3>4. step[rank[p] - rank[e]] = e BY <3>2, <3>3 DEF Ranked
    <3> QED BY <3>1, <3>4
  <2>5. \A k \in 0..n : step[k] \in S \cup {nil} BY <2>3
  <2>6. {step[k] : k \in 0..n} \ {nil} = S BY <1>2, <2>4, <2>5
  <2>7. step[n] = nil BY <1>1, <2>1, <2>2, <2>3
  <2> QED BY <1>1, <2>6, <2>7 DEF ChainFrom, EndsFrom, n, step
<1> QED BY <1>3, <1>4

\* A list is what it was when its own links and ranks are.
LEMMA RankedFrame ==
  ASSUME NEW nx, NEW nil, NEW p, NEW S, NEW rank, Ranked(nx, nil, p, S, rank),
         NEW nx2, NEW rank2, \A e \in S : nx2[e] = nx[e] /\ rank2[e] = rank[e]
  PROVE  Ranked(nx2, nil, p, S, rank2)
BY DEF Ranked

\* An entry put before the head has the whole list behind it.
LEMMA RankedPush ==
  ASSUME NEW nx, NEW nil, NEW p, NEW S, NEW rank, Ranked(nx, nil, p, S, rank),
         NEW x, x # nil, x \notin S, NEW nx2, NEW rank2, nx2[x] = p,
         rank2[x] = IF p = nil THEN 0 ELSE rank[p] + 1,
         \A e \in S : nx2[e] = nx[e] /\ rank2[e] = rank[e]
  PROVE  Ranked(nx2, nil, x, S \cup {x}, rank2)
<1>1. /\ nil \notin S
      /\ p = nil => S = {}
      /\ p # nil => p \in S /\ \A e \in S : rank[e] <= rank[p]
      /\ \A e \in S : rank[e] \in Nat
  BY DEF Ranked
<1>2. rank2[x] \in Nat /\ \A e \in S : rank2[e] < rank2[x]
  BY <1>1
<1>3. \A e \in S : /\ rank2[e] \in Nat
                   /\ rank2[e] = 0 => nx2[e] = nil
                   /\ rank2[e] > 0 => nx2[e] \in S /\ rank2[nx2[e]] = rank2[e] - 1
  BY DEF Ranked
<1>7. \A e \in S : rank2[e] \in Nat
  BY <1>1
<1>4. /\ rank2[x] = 0 => nx2[x] = nil
      /\ rank2[x] > 0 => nx2[x] \in S /\ rank2[nx2[x]] = rank2[x] - 1
  BY <1>1
<1>5. \A e, f \in S \cup {x} : rank2[e] = rank2[f] => e = f
  <2>1. \A e, f \in S : rank2[e] = rank2[f] => e = f
    BY DEF Ranked
  <2>2. \A e \in S : rank2[e] # rank2[x]
    BY <1>2, <1>7
  <2> QED BY <2>1, <2>2
<1>6. \A e \in S \cup {x} : rank2[e] <= rank2[x]
  BY <1>2, <1>7
<1> QED BY <1>1, <1>2, <1>3, <1>4, <1>5, <1>6 DEF Ranked

\* What is left when the head is taken off hangs from the link of the head.
LEMMA RankedPop ==
  ASSUME NEW nx, NEW nil, NEW p, NEW S, NEW rank, Ranked(nx, nil, p, S, rank),
         p # nil, NEW nx2, NEW rank2,
         \A e \in S \ {p} : nx2[e] = nx[e] /\ rank2[e] = rank[e]
  PROVE  Ranked(nx2, nil, nx[p], S \ {p}, rank2)
<1>1. /\ nil \notin S /\ p \in S /\ rank[p] \in Nat
      /\ \A e \in S : rank[e] \in Nat /\ rank[e] <= rank[p]
      /\ \A e, f \in S : rank[e] = rank[f] => e = f
  BY DEF Ranked
<1>2. \A e \in S \ {p} : rank[e] < rank[p]
  BY <1>1
<1>3. \A e \in S : rank[e] > 0 => nx[e] \in S /\ rank[nx[e]] = rank[e] - 1
  BY DEF Ranked
<1>7. \A e \in S : rank[e] = 0 => nx[e] = nil
  BY DEF Ranked
<1>4. nx[p] = nil => S \ {p} = {}
  <2> SUFFICES ASSUME nx[p] = nil, NEW e \in S \ {p} PROVE FALSE
    OBVIOUS
  <2>1. rank[p] = 0 BY <1>1, <1>3
  <2> QED BY <1>1, <1>2, <2>1
<1>5. nx[p] # nil => /\ nx[p] \in S \ {p}
                     /\ \A e \in S \ {p} : rank2[e] <= rank2[nx[p]]
  <2> SUFFICES ASSUME nx[p] # nil
               PROVE  nx[p] \in S \ {p} /\ \A e \in S \ {p} : rank2[e] <= rank2[nx[p]]
    OBVIOUS
  <2>3. rank[p] # 0 BY <1>1, <1>7
  <2>4. rank[p] > 0 BY <1>1, <2>3
  <2>1. rank[p] > 0 /\ nx[p] \in S /\ rank[nx[p]] = rank[p] - 1 BY <1>1, <1>3, <2>4
  <2>2. nx[p] \in S \ {p} BY <1>1, <2>1
  <2> QED BY <1>1, <1>2, <2>1, <2>2
<1>6. \A e \in S \ {p} : /\ rank2[e] \in Nat
                         /\ rank2[e] = 0 => nx2[e] = nil
                         /\ rank2[e] > 0 => /\ nx2[e] \in S \ {p}
                                            /\ rank2[nx2[e]] = rank2[e] - 1
  <2> SUFFICES ASSUME NEW e \in S \ {p}
               PROVE  /\ rank2[e] \in Nat
                      /\ rank2[e] = 0 => nx2[e] = nil
                      /\ rank2[e] > 0 => /\ nx2[e] \in S \ {p}
                                        /\ rank2[nx2[e]] = rank2[e] - 1
    OBVIOUS
  <2>1. rank2[e] = rank[e] /\ nx2[e] = nx[e] /\ rank[e] \in Nat /\ rank[e] < rank[p]
    BY <1>1, <1>2
  <2>2. CASE rank[e] = 0
    <3>1. nx[e] = nil BY <1>7, <2>2
    <3> QED BY <2>1, <2>2, <3>1
  <2>3. CASE rank[e] > 0
    <3>1. nx[e] \in S /\ rank[nx[e]] = rank[e] - 1 BY <1>3, <2>3
    <3>2. nx[e] # p BY <1>1, <2>1, <3>1
    <3> QED BY <2>1, <2>3, <3>1, <3>2
  <2> QED BY <2>1, <2>2, <2>3
<1> QED BY <1>1, <1>4, <1>5, <1>6 DEF Ranked

\* An entry linked in behind q: q, and what is in front of it, get one more behind
\* them.
LEMMA RankedInsert ==
  ASSUME NEW nx, NEW nil, NEW p, NEW S, NEW rank, Ranked(nx, nil, p, S, rank),
         NEW q \in S, NEW x, x # nil, x \notin S, NEW nx2, NEW rank2,
         nx2[q] = x, nx2[x] = nx[q], \A e \in S \ {q} : nx2[e] = nx[e],
         rank2[x] = rank[q],
         \A e \in S : rank2[e] = IF rank[q] <= rank[e] THEN rank[e] + 1 ELSE rank[e]
  PROVE  Ranked(nx2, nil, p, S \cup {x}, rank2)
<1>1. /\ nil \notin S /\ p # nil /\ p \in S
      /\ \A e \in S : rank[e] \in Nat /\ rank[e] <= rank[p]
      /\ \A e, f \in S : rank[e] = rank[f] => e = f
  BY DEF Ranked
<1>2. \A e \in S : rank[e] = 0 => nx[e] = nil
  BY DEF Ranked
<1>3. \A e \in S : rank[e] > 0 => nx[e] \in S /\ rank[nx[e]] = rank[e] - 1
  BY DEF Ranked
<1>4. \A e \in S \cup {x} : rank2[e] \in Nat
  BY <1>1
<1>5. \A e \in S \cup {x} : rank2[e] <= rank2[p]
  <2> SUFFICES ASSUME NEW e \in S \cup {x} PROVE rank2[e] <= rank2[p]
    OBVIOUS
  <2>1. rank2[p] = rank[p] + 1 /\ rank[p] \in Nat /\ rank[q] <= rank[p] /\ rank[q] \in Nat
    BY <1>1
  <2>2. CASE e \in S
    <3>1. rank[e] \in Nat /\ rank[e] <= rank[p] BY <1>1, <2>2
    <3>2. rank2[e] = rank[e] + 1 \/ rank2[e] = rank[e] BY <2>2
    <3> QED BY <2>1, <3>1, <3>2
  <2>3. CASE e = x BY <2>1, <2>3
  <2> QED BY <2>2, <2>3
<1>6. \A e \in S \cup {x} : rank2[e] = 0 => nx2[e] = nil
  <2> SUFFICES ASSUME NEW e \in S \cup {x}, rank2[e] = 0 PROVE nx2[e] = nil
    OBVIOUS
  <2>1. CASE e = x
    <3>1. rank[q] = 0 BY <2>1
    <3> QED BY <1>2, <2>1, <3>1
  <2>2. CASE e # x
    <3>1. e \in S /\ rank[e] \in Nat /\ rank[q] \in Nat BY <1>1, <2>2
    <3>2. rank[e] = 0 /\ e # q BY <3>1
    <3> QED BY <1>2, <3>1, <3>2
  <2> QED BY <2>1, <2>2
<1>7. \A e \in S \cup {x} : rank2[e] > 0 => nx2[e] \in S \cup {x} /\ rank2[nx2[e]] = rank2[e] - 1
  <2> SUFFICES ASSUME NEW e \in S \cup {x}, rank2[e] > 0
               PROVE  nx2[e] \in S \cup {x} /\ rank2[nx2[e]] = rank2[e] - 1
    OBVIOUS
  <2>1. CASE e = x
    <3>1. rank[q] > 0 /\ rank[q] \in Nat BY <1>1, <2>1
    <3>2. nx[q] \in S /\ rank[nx[q]] = rank[q] - 1 BY <1>3, <3>1
    <3>3. ~(rank[q] <= rank[nx[q]]) BY <3>1, <3>2
    <3> QED BY <2>1, <3>2, <3>3
  <2>2. CASE e = q
    <3>1. rank2[e] = rank[q] + 1 /\ rank[q] \in Nat BY <1>1, <2>2
    <3> QED BY <2>2, <3>1
  <2>3. CASE e # x /\ e # q
    <3>1. e \in S /\ nx2[e] = nx[e] /\ rank[e] \in Nat /\ rank[q] \in Nat /\ rank[e] # rank[q]
      BY <1>1, <2>3
    <3>2. rank[e] > 0 BY <3>1
    <3>3. nx[e] \in S /\ rank[nx[e]] = rank[e] - 1 BY <1>3, <3>1, <3>2
    <3>4. rank[q] <= rank[nx[e]] <=> rank[q] <= rank[e] BY <3>1, <3>3
    <3> QED BY <3>1, <3>3, <3>4
  <2> QED BY <2>1, <2>2, <2>3
<1>8. \A e, f \in S \cup {x} : rank2[e] = rank2[f] => e = f
  <2>1. \A e, f \in S : rank2[e] = rank2[f] => e = f
    <3> TAKE e, f \in S
    <3>1. rank[e] \in Nat /\ rank[f] \in Nat /\ rank[q] \in Nat BY <1>1
    <3>2. rank2[e] = rank2[f] => rank[e] = rank[f] BY <3>1
    <3> QED BY <1>1, <3>2
  <2>2. \A e \in S : rank2[e] # rank2[x]
    <3> TAKE e \in S
    <3>1. rank[e] \in Nat /\ rank[q] \in Nat BY <1>1
    <3> QED BY <3>1
  <2> QED BY <2>1, <2>2
<1> QED BY <1>1, <1>4, <1>5, <1>6, <1>7, <1>8 DEF Ranked

\* The entry behind q linked out: q, and what is in front of it, have one less
\* behind them.
LEMMA RankedRemove ==
  ASSUME NEW nx, NEW nil, NEW p, NEW S, NEW rank, Ranked(nx, nil, p, S, rank),
         NEW q \in S, NEW x, x = nx[q], x # nil, NEW nx2, NEW rank2,
         nx2[q] = nx[x], \A e \in S \ {q, x} : nx2[e] = nx[e],
         \A e \in S : rank2[e] = IF rank[q] <= rank[e] THEN rank[e] - 1 ELSE rank[e]
  PROVE  x \in S \ {q, p} /\ Ranked(nx2, nil, p, S \ {x}, rank2)
<1>1. /\ nil \notin S /\ p # nil /\ p \in S
      /\ \A e \in S : rank[e] \in Nat /\ rank[e] <= rank[p]
      /\ \A e, f \in S : rank[e] = rank[f] => e = f
  BY DEF Ranked
<1>2. \A e \in S : rank[e] = 0 => nx[e] = nil
  BY DEF Ranked
<1>3. \A e \in S : rank[e] > 0 => nx[e] \in S /\ rank[nx[e]] = rank[e] - 1
  BY DEF Ranked
<1>4. /\ rank[q] \in Nat /\ rank[q] > 0 /\ x \in S /\ rank[x] = rank[q] - 1
      /\ x # q /\ x # p /\ rank[q] <= rank[p]
  <2>1. rank[q] \in Nat /\ rank[q] # 0 /\ rank[q] <= rank[p] BY <1>1, <1>2
  <2>2. x \in S /\ rank[x] = rank[q] - 1 BY <1>3, <2>1
  <2>3. rank[x] # rank[q] /\ rank[x] # rank[p] BY <1>1, <2>1, <2>2
  <2> QED BY <2>1, <2>2, <2>3
<1>5. \A e \in S \ {x} : /\ e \in S /\ rank[e] \in Nat /\ rank[e] <= rank[p]
                         /\ rank[e] # rank[q] - 1
  BY <1>1, <1>4
<1>6. \A e \in S \ {x} : rank2[e] \in Nat
  BY <1>4, <1>5
<1>7. \A e \in S \ {x} : rank2[e] <= rank2[p]
  <2> TAKE e \in S \ {x}
  <2>1. rank2[p] = rank[p] - 1 BY <1>1, <1>4
  <2>2. rank2[e] = IF rank[q] <= rank[e] THEN rank[e] - 1 ELSE rank[e] OBVIOUS
  <2>3. rank[e] \in Nat /\ rank[e] <= rank[p] /\ rank[p] \in Nat BY <1>1, <1>5
  <2> QED BY <1>4, <2>1, <2>2, <2>3
<1>8. \A e \in S \ {x} : rank2[e] = 0 => nx2[e] = nil
  <2> SUFFICES ASSUME NEW e \in S \ {x}, rank2[e] = 0 PROVE nx2[e] = nil
    OBVIOUS
  <2>1. e \in S /\ rank[e] \in Nat /\ rank[e] # rank[q] - 1 BY <1>5
  <2>2. CASE rank[q] <= rank[e]
    <3>1. rank[e] = 1 /\ rank[q] = 1 BY <1>4, <2>1, <2>2
    <3>2. e = q /\ rank[x] = 0 BY <1>1, <1>4, <2>1, <3>1
    <3> QED BY <1>2, <1>4, <3>2
  <2>3. CASE ~(rank[q] <= rank[e])
    <3>1. rank[e] = 0 /\ e # q BY <1>4, <2>1, <2>3
    <3> QED BY <1>2, <2>1, <3>1
  <2> QED BY <2>2, <2>3
<1>9. \A e \in S \ {x} : rank2[e] > 0 => nx2[e] \in S \ {x} /\ rank2[nx2[e]] = rank2[e] - 1
  <2> SUFFICES ASSUME NEW e \in S \ {x}, rank2[e] > 0
               PROVE  nx2[e] \in S \ {x} /\ rank2[nx2[e]] = rank2[e] - 1
    OBVIOUS
  <2>1. e \in S /\ rank[e] \in Nat /\ rank[e] # rank[q] - 1 BY <1>5
  <2>2. CASE e = q
    <3>1. rank2[e] = rank[q] - 1 /\ nx2[e] = nx[x] BY <1>4, <2>2
    <3>2. rank[x] > 0 BY <1>4, <2>2, <3>1
    <3>3. nx[x] \in S /\ rank[nx[x]] = rank[q] - 2 BY <1>3, <1>4, <3>2
    <3>4. nx[x] # x /\ rank2[nx[x]] = rank[nx[x]] BY <1>4, <3>3
    <3> QED BY <1>4, <3>1, <3>3, <3>4
  <2>3. CASE e # q
    <3>1. nx2[e] = nx[e] /\ rank[e] # rank[q] BY <1>1, <2>1, <2>3
    <3>2. rank[e] > 0 BY <1>4, <2>1
    <3>3. nx[e] \in S /\ rank[nx[e]] = rank[e] - 1 BY <1>3, <2>1, <3>2
    <3>4. nx[e] # x BY <1>4, <2>1, <3>1, <3>3
    <3>5. rank[q] <= rank[nx[e]] <=> rank[q] <= rank[e] BY <1>4, <2>1, <3>1, <3>3
    <3> QED BY <1>4, <2>1, <3>1, <3>3, <3>4, <3>5
  <2> QED BY <2>2, <2>3
<1>10. \A e, f \in S \ {x} : rank2[e] = rank2[f] => e = f
  <2> TAKE e, f \in S \ {x}
  <2>1. /\ rank[e] \in Nat /\ rank[f] \in Nat
        /\ rank[e] # rank[q] - 1 /\ rank[f] # rank[q] - 1 BY <1>5
  <2>2. rank2[e] = rank2[f] => rank[e] = rank[f] BY <1>4, <2>1
  <2> QED BY <1>1, <2>2
<1> QED BY <1>1, <1>4, <1>6, <1>7, <1>8, <1>9, <1>10 DEF Ranked

-----------------------------------------------------------------------------
(* The list a pool starts as: a sequence in which every entry occurs once. *)

LEMMA SeqOnce ==
  ASSUME NEW E, NEW q \in Seq(E), {q[i] : i \in DOMAIN q} = E,
         Len(q) = Cardinality(E)
  PROVE  IsFiniteSet(E) /\ \A i, j \in 1..Len(q) : q[i] = q[j] => i = j
<1>1. /\ Len(q) \in Nat /\ DOMAIN q = 1..Len(q)
      /\ q \in [1..Len(q) -> E]
  OBVIOUS
<1>2. IsFiniteSet(1..Len(q)) /\ Cardinality(1..Len(q)) = Len(q)
  <2> DEFINE n == Len(q)
  <2>1. n \in Nat OBVIOUS
  <2> HIDE DEF n
  <2>2. IsFiniteSet(1..n) /\ Cardinality(1..n) = IF 1 > n THEN 0 ELSE n - 1 + 1
    <3>1. 1 \in Int /\ n \in Int BY <2>1
    <3> QED BY <3>1, FS_Interval
  <2>3. IsFiniteSet(1..n) /\ Cardinality(1..n) = n BY <2>1, <2>2
  <2> QED BY <2>3 DEF n
<1>3. q \in Surjection(1..Len(q), E)
  BY <1>1 DEF Surjection
<1>4. IsFiniteSet(E)
  BY <1>2, <1>3, FS_Surjection
<1>5. q \in Injection(1..Len(q), E)
  BY <1>2, <1>3, <1>4, FS_SurjSameCardinalityImpliesInj
<1> QED BY <1>4, <1>5 DEF Injection, IsInjective

LEMMA SeqRanked ==
  ASSUME NEW E, E # {}, NEW nil, nil \notin E, NEW q \in Seq(E),
         {q[i] : i \in DOMAIN q} = E, Len(q) = Cardinality(E), NEW nx,
         \A e \in E : nx[e] = LET i == CHOOSE j \in DOMAIN q : q[j] = e
                             IN  IF i < Len(q) THEN q[i + 1] ELSE nil
  PROVE  \E rank \in [E -> Nat] : Ranked(nx, nil, q[1], E, rank)
<1> DEFINE at(e) == CHOOSE j \in DOMAIN q : q[j] = e
           rank == [e \in E |-> Len(q) - at(e)]
<1>1. Len(q) \in Nat /\ DOMAIN q = 1..Len(q) OBVIOUS
<1>2. \A i, j \in 1..Len(q) : q[i] = q[j] => i = j BY SeqOnce
<1>3. \A e \in E : at(e) \in 1..Len(q) /\ q[at(e)] = e
  <2> TAKE e \in E
  <2>1. \E j \in DOMAIN q : q[j] = e OBVIOUS
  <2> QED BY <1>1, <2>1
<1>4. \A e \in E : nx[e] = IF at(e) < Len(q) THEN q[at(e) + 1] ELSE nil
  OBVIOUS
<1>5. \A i \in 1..Len(q) : q[i] \in E /\ (\A e \in E : q[i] = e => at(e) = i)
  <2> TAKE i \in 1..Len(q)
  <2>1. q[i] \in E OBVIOUS
  <2> HIDE DEF at
  <2> QED BY <1>2, <1>3, <2>1
<1> HIDE DEF at
<1>6. \A e \in E : rank[e] = Len(q) - at(e) /\ rank[e] \in Nat BY <1>1, <1>3
<1>7. rank \in [E -> Nat] BY <1>6
<1>8. 1 \in 1..Len(q)
  <2>1. PICK e \in E : TRUE OBVIOUS
  <2> QED BY <1>1, <1>3, <2>1
<1>9. q[1] \in E /\ at(q[1]) = 1 BY <1>5, <1>8
<1> HIDE DEF rank
<1>10. \A e \in E : rank[e] <= rank[q[1]] BY <1>1, <1>3, <1>6, <1>9
<1>11. \A e \in E : /\ rank[e] = 0 => nx[e] = nil
                    /\ rank[e] > 0 => nx[e] \in E /\ rank[nx[e]] = rank[e] - 1
  <2> SUFFICES ASSUME NEW e \in E
               PROVE  /\ rank[e] = 0 => nx[e] = nil
                      /\ rank[e] > 0 => nx[e] \in E /\ rank[nx[e]] = rank[e] - 1
    OBVIOUS
  <2>1. at(e) \in 1..Len(q) /\ rank[e] = Len(q) - at(e) BY <1>3, <1>6
  <2>2. CASE at(e) = Len(q) BY <1>1, <1>4, <2>1, <2>2
  <2>3. CASE at(e) < Len(q)
    <3>1. at(e) + 1 \in 1..Len(q) BY <1>1, <2>1, <2>3
    <3>2. nx[e] = q[at(e) + 1] BY <1>4, <2>3
    <3>3. nx[e] \in E /\ at(nx[e]) = at(e) + 1 BY <1>5, <3>1, <3>2
    <3> QED BY <1>1, <1>6, <2>1, <2>3, <3>3
  <2> QED BY <1>1, <2>1, <2>2, <2>3
<1>12. \A e, f \in E : rank[e] = rank[f] => e = f
  <2> TAKE e, f \in E
  <2>1. rank[e] = rank[f] => at(e) = at(f) BY <1>1, <1>3, <1>6
  <2> QED BY <1>3, <2>1
<1>13. q[1] # nil BY <1>9
<1>15. \A e \in E : rank[e] \in Nat BY <1>6
<1>16. \A e \in E : rank[e] = 0 => nx[e] = nil BY <1>11
<1>17. \A e \in E : rank[e] > 0 => nx[e] \in E /\ rank[nx[e]] = rank[e] - 1 BY <1>11
<1>14. Ranked(nx, nil, q[1], E, rank) BY <1>15, <1>9, <1>10, <1>16, <1>17, <1>12, <1>13 DEF Ranked
<1> QED BY <1>7, <1>14
=============================================================================
