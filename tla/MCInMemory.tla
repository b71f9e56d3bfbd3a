----------------------------- MODULE MCInMemory -----------------------------
(***************************************************************************)
(* Small instances of what is kept in memory.  The three parts do not read *)
(* each other, so a behaviour exercises one of them.                       *)
(***************************************************************************)
EXTENDS InMemory

CONSTANTS k1, k2, k3, k4, k5, s1, x1, x2, a1, a2, a3, e1, e2, w1, w2, w3, w4, f1, f2, f3

VARIABLE part

-----------------------------------------------------------------------------
MCKeys == {k1, k2, k3, k4, k5}

\* Runs that collide, wrap around and meet other runs.
MCHomes == {(k1 :> 0) @@ (k2 :> b) @@ (k3 :> 7) @@ (k4 :> 3) @@ (k5 :> c) :
              b \in {0, 3}, c \in {0, 1}}

\* All keys in one pair of buckets; or spread, k1 and k2 with one hash twice.
Together == [k \in HashKey |-> <<0, 1>>]
Spread   == [k \in HashKey |-> IF k \in {k1, k2} THEN <<1, 1>>
                           ELSE IF k = k5 THEN <<2, 3>> ELSE <<0, 2>>]

\* Where a homeless key is sent first, and whose slot it takes.
First  == [k \in HashKey |-> 1]
Mixed  == [k \in HashKey |-> IF k \in {k1, k3} THEN 1 ELSE 2]
Lowest == [k \in HashKey |-> [n \in 0 .. MaxKicks - 1 |-> 0]]
InTurn == [k \in HashKey |-> [n \in 0 .. MaxKicks - 1 |-> IF k \in {k2, k5} THEN 1 ELSE n % 2]]

\* One-slot buckets with a stash; two buckets of two slots without.
Narrow == [budget : {1}, home : MCHomes, buckets : {4}, size : {1}, stash : {1},
           pairs : {<<Together, Spread>>, <<Spread, Together>>},
           choice : {<<Mixed, First>>}, victim : {<<Lowest, Lowest>>}]
Wide   == [budget : {2}, home : MCHomes, buckets : {2}, size : {2}, stash : {0},
           pairs : {<<Together, Together>>}, choice : {<<Mixed, First>>},
           victim : {<<Lowest, InTurn>>, <<InTurn, Lowest>>}]
MCSetups == Narrow \cup Wide

-----------------------------------------------------------------------------
(* Four assertions about a single-valued key, the third of which may be   *)
(* about a multi-valued one; or three, whatever they are about.            *)

MCAssertion == 1 .. 4
MCSubject   == {s1}
MCPredicate == {"p1", "p2"}
MCMulti     == {"p2"}
MCObject    == {x1, x2}

OfMulti(f)  == {a \in Assertion : f.assertion[a].predicate = "p2"}
FewMulti(f) == OfMulti(f) \subseteq {3} \/ f.assertion[4] = NoRow

-----------------------------------------------------------------------------
(* Three assertions about two subjects.  Two names have a number in       *)
(* common, which is all the question of w4 has of them.                    *)

Count(m, n, o) == (w1 :> m) @@ (w2 :> n) @@ (w3 :> o) @@ (w4 :> 0)

MCFragments == (w1 :> {f1, f3}) @@ (w2 :> {f2, f3}) @@ (w3 :> {}) @@ (w4 :> {f3})
MCGrams     == (w1 :> {f1}) @@ (w2 :> {f2}) @@ (w3 :> {f1}) @@ (w4 :> {f2})

\* log((1 + n) / (1 + df)) + 1 and log(count), in hundredths.
MCIdf == [n \in 0 .. 2 |-> [df \in 0 .. n |->
            <<<<100>>, <<169, 100>>, <<210, 141, 100>>>>[n + 1][df + 1]]]
MCLog == [n \in 1 .. 4 |-> <<0, 69, 110, 139>>[n]]

Asked(words, predicate, kind, candidates, broad) ==
  [words |-> words, predicate |-> predicate, kind |-> kind,
   candidates |-> candidates, broad |-> broad]

MCQuestions == {Asked(<<w1>>, "p1", "current", 1, 1), Asked(<<w4>>, None, "current", 1, 2),
                Asked(<<w2, w3>>, "p1", "relation_classification", 2, 2),
                Asked(<<w4, w3>>, "p2", "provenance", 2, 1)}

\* One assertion disagrees with the others in contested cells; or they agree
\* and one is related to another, in cells contested or not.
Related(b, relation, c) == [source |-> b, relation |-> relation, target |-> c]
Couples == {p \in AssertionId \X AssertionId : p[1] # p[2]}
Agreeing == [a \in AssertionId |-> 1]
MCAsides ==
  {[object |-> [Agreeing EXCEPT ![b] = 2], relations |-> {}, contested |-> FactKey] :
     b \in AssertionId}
  \cup {[object |-> Agreeing, relations |-> {Related(p[1], "supersedes", p[2])}, contested |-> FactKey] :
           p \in Couples}
  \cup {[object |-> Agreeing, relations |-> {Related(p[1], "contradicts", p[2]) : p \in Couples},
          contested |-> {}]}

MCEvidenceId    == {e1, e2}
MCAssertionId   == {a1, a2, a3}
MCSubjectNumber == 1 .. 2
MCWord          == {w1, w2, w3, w4}
MCText          == {Count(1, 0, 1), Count(0, 2, 1)}
MCReferences    == {<<e1>>, <<e2>>, <<e1, e2>>}

\* What the theorems ask of the constants, as far as it can be enumerated.
ASSUME TablesAssumption == HashConstants
ASSUME NamesAssumption  == IndexConstants

-----------------------------------------------------------------------------
MCInit ==
  /\ InMemoryInit
  /\ part \in {"tables", "cells", "addresses"}
  /\ part # "tables" => setup = CHOOSE one \in Setups : TRUE

MCNext ==
  /\ UNCHANGED part
  /\ \/ part = "tables" /\ TablesStep
     \/ part = "cells" /\ CellsStep /\ FewMulti(known')
     \/ part = "addresses" /\ AddressStep

MCSpec == MCInit /\ [][MCNext]_<<tvars, known, state, addressVars, part>>

Symmetry == Permutations({x1, x2}) \cup Permutations({a1, a2, a3})
=============================================================================
