-------------------------- MODULE MCDurableHybrid --------------------------
EXTENDS DurableHybrid, TLC

CONSTANTS k1, k2, k3, k4, k5, k6

MCKeys == {k1, k2, k3, k4, k5, k6}

\* One-slot buckets, capacities 4 and 8: pages 0 .. 4 and 5 .. 13.
MCPage == 0 .. 13

\* k1 .. k5 share both buckets, which with the stash hold three of them.
MCHash1 == [k \in Key |-> IF k = k6 THEN 2 ELSE 0]
MCHash2 == [k \in Key |-> IF k = k6 THEN 5 ELSE 1]
MCChoice == [k \in Key |-> IF k \in {k1, k3, k5} THEN 1 ELSE 2]
MCVictim == [k \in Key |-> [n \in 0 .. MaxKicks-1 |-> 0]]

\* Keys with the same hashes and choice are interchangeable, in the
\* properties as in the actions.
MCSymmetry == Permutations({k1, k3, k5}) \cup Permutations({k2, k4})
=============================================================================
