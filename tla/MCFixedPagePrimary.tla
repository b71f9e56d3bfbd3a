------------------------- MODULE MCFixedPagePrimary -------------------------
(* Model-checking instances of FixedPagePrimary. *)
EXTENDS FixedPagePrimary, TLC

CONSTANTS k1, k2, k3, k4, k5

MCKeys5 == {k1, k2, k3, k4, k5}

\* Three generations of one-slot buckets (capacities 2, 4, 8); two (4, 8).
MCPages17 == 0 .. 16
MCPages14 == 0 .. 13

MCData == LET K == Key \cup {NoKey}
          IN  [0 .. BucketSize-1 -> K] \cup [0 .. StashCapacity-1 -> K]

Gen == [base : Nat, cap : Nat, rows : Nat]
MCMeta == [cur : Gen, old : Gen, cursor : Nat, limit : Nat, nextPage : Nat, live : Nat,
           overflow : Nat]

\* k1, k2 and k3 share both buckets at capacity 4, k4 and k5 have one of them:
\* the third of a pair is evicted into the stash, or moves another on.
MCChain1 == (k1 :> 0) @@ (k2 :> 0) @@ (k3 :> 4) @@ (k4 :> 1) @@ (k5 :> 3)
MCChain2 == (k1 :> 1) @@ (k2 :> 1) @@ (k3 :> 1) @@ (k4 :> 2) @@ (k5 :> 0)

MCChoice == [k \in Key |-> IF k \in {k1, k3} THEN 1 ELSE 2]
MCVictim == [k \in Key |-> [n \in 0 .. MaxKicks-1 |->
               (n + (IF k \in {k1, k4} THEN 1 ELSE 0)) % BucketSize]]
=============================================================================
