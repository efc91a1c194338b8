------------------------------- MODULE Chains -------------------------------
(***************************************************************************)
(* Lists in memory: entries linked through a field of theirs, as those of  *)
(* cmt_heap.c are.  nx is the field, nil the NULL pointer, p the pointer   *)
(* the list hangs from, and n the size of the pool.                        *)
(***************************************************************************)
EXTENDS Naturals

\* The pointers met from p on, following nx; a list that does not end within n
\* steps is a cycle.
StepsFrom(nx, nil, p, n) ==
  LET step[k \in 0..n] ==
        IF k = 0 THEN p ELSE IF step[k - 1] = nil THEN nil ELSE nx[step[k - 1]]
  IN  step

ChainFrom(nx, nil, p, n) ==
  LET step == StepsFrom(nx, nil, p, n) IN {step[k] : k \in 0..n} \ {nil}
EndsFrom(nx, nil, p, n) == StepsFrom(nx, nil, p, n)[n] = nil

\* S is what the list from p holds, when each entry has rank many behind it.
Ranked(nx, nil, p, S, rank) ==
  /\ nil \notin S
  /\ p = nil => S = {}
  /\ p # nil => p \in S /\ \A e \in S : rank[e] <= rank[p]
  /\ \A e \in S : /\ rank[e] \in Nat
                  /\ rank[e] = 0 => nx[e] = nil
                  /\ rank[e] > 0 => nx[e] \in S /\ rank[nx[e]] = rank[e] - 1
  /\ \A e, f \in S : rank[e] = rank[f] => e = f
=============================================================================
