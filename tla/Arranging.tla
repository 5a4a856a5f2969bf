----------------------------- MODULE Arranging ------------------------------
(***************************************************************************)
(* Array.prototype.sort, filter and slice, by the places they leave: the   *)
(* sort is stable (rules by priority, insights by score), and a filter     *)
(* keeps the order (rules in scope, the actions of a log).                 *)
(***************************************************************************)
EXTENDS Integers, Sequences, FiniteSets

\* What sort and filter leave of s: what is at these places, by ascending key, and in its
\* old order where the keys are the same.
InOrder(pairs, k) ==
  CHOOSE p \in pairs : Cardinality({q \in pairs : q[1] < p[1] \/ (q[1] = p[1] /\ q[2] <= p[2])}) = k
Arranged(s, at, key) ==
  LET keyed == {<<key[i], i>> : i \in at}
  IN [k \in 1..Cardinality(keyed) |-> s[InOrder(keyed, k)[2]]]
Sorted(s, key) == Arranged(s, DOMAIN s, key)
Kept(s, at) == Arranged(s, at, [i \in at |-> 0])
=============================================================================
