-------------------------- MODULE MCLKEProvider --------------------------
(* Small instances of LKEProvider for TLC. *)
EXTENDS LKEProvider, TLC

CONSTANTS c1, c2, d1, d2, k1, k2, t1, t2, l1, p1, p2, p3, i1, i2, i3, v1, v2

(* Every key has an instance type of its own; all keys share one mutex. *)
OneTypePerKey == [k \in Keys |-> IF k = k1 THEN t1 ELSE t2]
OneLock == [k \in Keys |-> l1]
OwnLock == [k \in Keys |-> k]

Symmetry ==
    Permutations(Claims) \cup Permutations(Deleters)
      \cup Permutations(Pools) \cup Permutations(Instances)

=============================================================================
