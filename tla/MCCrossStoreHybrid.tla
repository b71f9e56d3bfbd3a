----------------------- MODULE MCCrossStoreHybrid -----------------------
(* Model-checking instances of CrossStoreHybrid. *)
EXTENDS CrossStoreHybrid, TLC

CONSTANTS k1, k2, k3, k4, k5

MCKeys == {k1, k2, k3, k4, k5}

\* Generations of one-slot buckets: capacities 4 and 8.
MCPages == 0 .. 13

MCData == LET K == Key \cup {NoKey}
          IN  [0 .. BucketSize-1 -> K] \cup [0 .. StashCapacity-1 -> K]

Gen == [base : Nat, cap : Nat, rows : Nat]
MCMeta == [cur : Gen, old : Gen, cursor : Nat, limit : Nat, nextPage : Nat, live : Nat,
           overflow : Nat]

\* k1 .. k4 share both buckets, which with the stash hold three of them.
MCHash1 == [k \in Key |-> IF k = k5 THEN 2 ELSE 0]
MCHash2 == [k \in Key |-> MCHash1[k] + 1]

MCChoice == [k \in Key |-> IF k \in {k1, k3} THEN 1 ELSE 2]
MCVictim == [k \in Key |-> [n \in 0 .. MaxKicks-1 |-> 0]]
=============================================================================
