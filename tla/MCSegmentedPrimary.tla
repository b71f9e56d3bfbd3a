------------------------- MODULE MCSegmentedPrimary -------------------------
EXTENDS SegmentedPrimary

CONSTANTS k1, k2, k3, k4, k5, k6

MCKeys    == {k1, k2, k3, k4, k5, k6}
MCInserts == <<k1, k2, k3, k4, k5, k6>>

\* Generations of 3, 5 and 9 pages, from page 0, 4 and 12 when aligned.
MCPage == 0 .. 20

MCHash1 == (k1 :> 0) @@ (k2 :> 0) @@ (k3 :> 1) @@ (k4 :> 2) @@ (k5 :> 5) @@ (k6 :> 6)
MCHash2 == (k1 :> 1) @@ (k2 :> 3) @@ (k3 :> 2) @@ (k4 :> 7) @@ (k5 :> 3) @@ (k6 :> 1)
MCChoice == [k \in Key |-> 1]
MCVictim == [k \in Key |-> [n \in 0 .. MaxKicks - 1 |-> 0]]

\* Segments no generation reaches.
MCBatches == {<<7>>, <<6, 7>>}

MCMaxEpoch == (30 :> 6) @@ (31 :> 5) @@ (32 :> 6) @@ (33 :> 12) @@ (34 :> 12)
=============================================================================
