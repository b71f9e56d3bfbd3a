-------------------------- MODULE InMemory_proofs --------------------------
(***************************************************************************)
(* What one process keeps in memory, for any facts, operations and callers.*)
(*                                                                         *)
(* The cascade: recovery leaves the intent's write in the facts, and       *)
(* nothing half trusted among the derived nodes; what is trusted is what a *)
(* clean build of the facts makes, and with nothing invalid the whole      *)
(* materialization is that build.                                          *)
(*                                                                         *)
(* The cells kept by increments over such facts answer as reconciling      *)
(* everything would.                                                       *)
(*                                                                         *)
(* The locality indexes kept one assertion at a time are what rebuilding   *)
(* them makes, and the profile index kept one subject at a time is the one *)
(* built from nothing: both equal a closed form, what the indexes are for  *)
(* a set of assertions, and what the postings are for the profiles of the  *)
(* subjects.  What a planner finds in it is what a scan would find.        *)
(***************************************************************************)
EXTENDS CascadeRecovery, InMemory, FiniteSetTheorems, SequenceTheorems, NaturalsInduction,
        WellFoundedInduction, TLAPS

Phase == {"none", "prepared", "canonical_applied", "invalidated", "rebuilding", "repaired"}

\* An operation as callers ask for it.
IsOp(o) ==
  \/ o.op = "upsert_evidence" /\ o.id \in Evidence /\ o.new \in Payload
  \/ o.op = "delete_evidence" /\ o.id \in Evidence /\ o.new = None
  \/ o.op = "upsert_assertion" /\ o.id \in Assertion /\ o.new \in Row
  \/ o.op = "delete_assertion" /\ o.id \in Assertion /\ o.new = NoRow
  \/ o.op = "add_relation" /\ o.new \in Relation

JournalTyped ==
  /\ DOMAIN journal = {"op", "phase", "affected"}
  /\ journal.phase \in Phase
  /\ journal.affected \subseteq Node
  /\ journal.phase # "none" => IsOp(journal.op)
  /\ journal.phase \in {"none", "prepared", "canonical_applied"} => journal.affected = {}

\* The facts are ahead of the marker, or level with it, unless a crash took
\* them back; from the redo on they are never behind.
RedoInv ==
  /\ facts \in Facts
  /\ JournalTyped
  /\ journal.phase = "canonical_applied" /\ ~restarted => Applied(facts, journal.op) = facts
  /\ IntentIsApplied

-----------------------------------------------------------------------------
(* The redo *)

\* What an operation makes of facts are facts.
LEMMA AppliedTyped ==
  ASSUME NEW f \in Facts, NEW o, IsOp(o)
  PROVE  Applied(f, o) \in Facts
<1>1. CASE OnEvidence(o)
  <2>1. [f.evidence EXCEPT ![o.id] = o.new] \in [Evidence -> Payload \cup {None}]
    BY <1>1 DEF Facts, IsOp, OnEvidence
  <2>2. QED BY <1>1, <2>1 DEF Applied, Facts, OnEvidence, OnAssertion
<1>2. CASE OnAssertion(o)
  <2>1. [f.assertion EXCEPT ![o.id] = o.new] \in [Assertion -> Row \cup {NoRow}]
    BY <1>2 DEF Facts, IsOp, OnAssertion
  <2>2. QED BY <1>2, <2>1 DEF Applied, Facts, OnEvidence, OnAssertion
<1>3. CASE o.op = "add_relation"
  BY <1>3 DEF Applied, Facts, IsOp, OnEvidence, OnAssertion
<1>4. QED BY <1>1, <1>2, <1>3 DEF IsOp, OnEvidence, OnAssertion

\* Every operation is idempotent (recovery.py:75): doing it twice is doing it once.
LEMMA AppliedTwice ==
  ASSUME NEW f \in Facts, NEW o, IsOp(o)
  PROVE  Applied(Applied(f, o), o) = Applied(f, o)
<1>1. ASSUME NEW g, NEW i, NEW v
      PROVE  [[g EXCEPT ![i] = v] EXCEPT ![i] = v] = [g EXCEPT ![i] = v]
  OBVIOUS
<1>2. QED BY <1>1 DEF Applied

\* What callers ask for is an operation.
LEMMA AskedOps == \A o \in Direct : IsOp(o)
<1>1. \A e \in Evidence, p \in Payload : IsOp(UpsertEvidence(e, p))
  BY DEF IsOp, UpsertEvidence, NoOp
<1>2. \A a \in Assertion, row \in Row : IsOp(UpsertAssertion(a, row))
  BY DEF IsOp, UpsertAssertion, NoOp
<1>3. \A a \in Assertion : IsOp(DeleteAssertion(a))
  BY DEF IsOp, DeleteAssertion, NoOp
<1>4. \A e \in Evidence : IsOp(DeleteEvidence(e))
  BY DEF IsOp, DeleteEvidence, NoOp
<1>5. \A r \in Relation : IsOp(AddRelation(r))
  BY DEF IsOp, AddRelation, NoOp
<1>6. QED
  BY <1>1, <1>2, <1>3, <1>4, <1>5 DEF Direct, Journalled

LEMMA RedoInit == Init => RedoInv
BY DEF Init, RedoInv, JournalTyped, IntentIsApplied, NoIntent, Phase

LEMMA RedoStep == RedoInv /\ [Next]_vars => RedoInv'
<1> SUFFICES ASSUME RedoInv, [Next]_vars PROVE RedoInv' OBVIOUS
<1> USE DEF RedoInv, JournalTyped, IntentIsApplied, Phase
<1>1. ASSUME CanAsk, NEW o \in Direct, Mutate(o) PROVE RedoInv'
  <2>1. IsOp(o) BY AskedOps
  <2>2. facts' \in Facts BY <1>1, <2>1, AppliedTyped DEF Mutate
  <2>3. QED BY <1>1, <2>2 DEF CanAsk, Quiet, NoIntent, Mutate
<1>2. ASSUME CanAsk, NEW o \in Journalled, Prepare(o) PROVE RedoInv'
  <2>1. IsOp(o) BY AskedOps DEF Direct
  <2>2. QED BY <1>2, <2>1 DEF Prepare, NoIntent
<1>3. ASSUME NEW targets, RebuildSome(targets) PROVE RedoInv'
  BY <1>3 DEF RebuildSome
<1>4. CASE ApplyCanonical
  <2>1. IsOp(journal.op) BY <1>4 DEF ApplyCanonical
  <2>2. facts' \in Facts /\ Applied(facts', journal.op) = facts'
    BY <1>4, <2>1, AppliedTyped, AppliedTwice DEF ApplyCanonical
  <2>3. QED BY <1>4, <2>1, <2>2 DEF ApplyCanonical
<1>5. CASE Invalidate
  <2>1. IsOp(journal.op) BY <1>5 DEF Invalidate
  <2>2. facts' \in Facts /\ Applied(facts', journal.op) = facts'
    BY <1>5, <2>1, AppliedTyped, AppliedTwice DEF Invalidate
  <2>3. journal' = [journal EXCEPT !.phase = "invalidated", !.affected = Newly(derived, derived')]
    BY <1>5 DEF Invalidate
  <2>4. Newly(derived, derived') \subseteq Node BY DEF Newly, Invalid
  <2>5. QED BY <2>1, <2>2, <2>3, <2>4
<1>6. CASE PartialRebuild
  BY <1>6 DEF PartialRebuild
<1>7. CASE Reinvalidate
  BY <1>7 DEF Reinvalidate
<1>8. CASE Repair
  BY <1>8 DEF Repair
<1>9. CASE Finish
  BY <1>9 DEF Finish, NoIntent
<1>10. CASE Crash
  <2>1. CASE UNCHANGED <<facts, journal>> BY <1>10, <2>1 DEF Crash
  <2>2. CASE journal.phase = "prepared" /\ facts' = Applied(facts, journal.op) /\ UNCHANGED journal
    <3>1. facts' \in Facts BY <2>2, AppliedTyped
    <3>2. QED BY <1>10, <2>2, <3>1 DEF Crash
  <2>3. CASE /\ journal.phase = "prepared" /\ UNCHANGED facts
             /\ journal' = [journal EXCEPT !.phase = "canonical_applied"]
    BY <1>10, <2>3 DEF Crash
  <2>4. QED BY <1>10, <2>1, <2>2, <2>3 DEF Crash
<1>11. CASE UNCHANGED vars
  BY <1>11 DEF vars
<1>12. QED
  BY <1>1, <1>2, <1>3, <1>4, <1>5, <1>6, <1>7, <1>8, <1>9, <1>10, <1>11 DEF Next

\* From the invalidation on, the intent's write is in the facts, for any facts,
\* operations and crashes (recovery.py:75-78).
THEOREM IntentsAreRedone == Spec => []IntentIsApplied
<1>1. RedoInv => IntentIsApplied BY DEF RedoInv
<1>2. QED BY <1>1, RedoInit, RedoStep, PTL DEF Spec

-----------------------------------------------------------------------------
(* What a dead process left half trusted *)

\* A derived node for every node there can be, each with a status.
Shaped(d) == DOMAIN d = Node /\ \A n \in Node : "status" \in DOMAIN d[n]

Rebuilding(d) == {n \in Node : d[n].status = "rebuilding"}

\* No node of e is half written or invalid that was not in d.
NoWorse(d, e) == Rebuilding(e) \subseteq Rebuilding(d) /\ Invalid(e) \subseteq Invalid(d)

\* Outside the failpoint no node is half written; inside, it is an affected one.
TrustInv ==
  /\ Shaped(derived)
  /\ Rebuilding(derived) \subseteq (IF journal.phase = "rebuilding" THEN journal.affected ELSE {})
  /\ journal.phase = "repaired" => journal.affected \cap Invalid(derived) = {}

\* A rebuilt node is fresh.
LEMMA RebuiltIsFresh ==
  ASSUME NEW d, NEW f, NEW n
  PROVE  "status" \in DOMAIN Rebuilt(d, f, n) /\ Rebuilt(d, f, n).status = "fresh"
BY DEF Rebuilt

\* So is every node of a level, and the others are as they were.
LEMMA LevelIsFresh ==
  ASSUME NEW d, NEW f, NEW nodes, Shaped(d)
  PROVE  /\ Shaped(Level(d, f, nodes))
         /\ NoWorse(d, Level(d, f, nodes))
         /\ nodes \cap Invalid(Level(d, f, nodes)) = {}
BY RebuiltIsFresh DEF Shaped, Level, NoWorse, Rebuilding, Invalid

LEMMA NodeKinds == \A n \in Node : n[1] \in {"profile", "state", "support", "context"}
BY DEF Node, Chain

\* A rebuild leaves none of its targets invalid.
LEMMA RebuildSettles ==
  ASSUME NEW d, NEW f, NEW targets, Shaped(d)
  PROVE  /\ Shaped(Rebuild(d, f, targets))
         /\ NoWorse(d, Rebuild(d, f, targets))
         /\ targets \cap Invalid(Rebuild(d, f, targets)) = {}
<1> DEFINE needed == Needed(d, targets)
           d1 == Level(d, f, OfKind(needed, {"profile", "state"}))
           d2 == Level(d1, f, OfKind(needed, {"support"}))
           d3 == Level(d2, f, OfKind(needed, {"context"}))
           d4 == Retired(d3, f, needed)
<1>1. Rebuild(d, f, targets) = d4 BY DEF Rebuild, InOrder
<1>2. /\ Shaped(d1) /\ NoWorse(d, d1)
      /\ OfKind(needed, {"profile", "state"}) \cap Invalid(d1) = {}
  BY LevelIsFresh
<1>3. /\ Shaped(d2) /\ NoWorse(d1, d2) /\ OfKind(needed, {"support"}) \cap Invalid(d2) = {}
  <2> HIDE DEF d1
  <2>1. QED BY <1>2, LevelIsFresh
<1>4. /\ Shaped(d3) /\ NoWorse(d2, d3) /\ OfKind(needed, {"context"}) \cap Invalid(d3) = {}
  <2> HIDE DEF d2
  <2>1. QED BY <1>3, LevelIsFresh
<1>5. Shaped(d4) /\ NoWorse(d3, d4)
  <2> HIDE DEF d3, needed
  <2>1. QED BY <1>4 DEF Retired, Shaped, NoWorse, Rebuilding, Invalid, NoNode
<1> HIDE DEF d1, d2, d3, d4
<1>6. NoWorse(d, d4) BY <1>2, <1>3, <1>4, <1>5 DEF NoWorse
<1>7. targets \cap Invalid(d) \subseteq needed BY DEF Needed
<1> HIDE DEF needed
<1>8. targets \cap Invalid(d4) = {}
  <2>1. SUFFICES ASSUME NEW n \in targets, n \in Invalid(d4) PROVE FALSE OBVIOUS
  <2>2. /\ n \in Invalid(d3) /\ n \in Invalid(d2) /\ n \in Invalid(d1)
        /\ n \in needed /\ n \in Node
    BY <2>1, <1>2, <1>3, <1>4, <1>5, <1>6, <1>7 DEF NoWorse, Invalid
  <2>3. n[1] \in {"profile", "state", "support", "context"} BY <2>2, NodeKinds
  <2>4. QED BY <2>2, <2>3, <1>2, <1>3, <1>4 DEF OfKind
<1>9. QED BY <1>1, <1>5, <1>6, <1>8

\* Invalidation makes nothing half trusted.
LEMMA InvalidateKeepsTrust ==
  ASSUME NEW d, NEW nodes, Shaped(d)
  PROVE  /\ Shaped(InvalidateNodes(d, nodes)) /\ Shaped(InvalidateFrom(d, nodes))
         /\ Rebuilding(InvalidateNodes(d, nodes)) \subseteq Rebuilding(d) \ nodes
         /\ Rebuilding(InvalidateFrom(d, nodes)) \subseteq Rebuilding(d)
BY DEF Shaped, Rebuilding, InvalidateNodes, InvalidateFrom, Exists

LEMMA MarkedKeepsTrust ==
  ASSUME NEW d, NEW f, NEW o, Shaped(d)
  PROVE  Shaped(Marked(d, f, o)) /\ Rebuilding(Marked(d, f, o)) \subseteq Rebuilding(d)
<1>1. ASSUME NEW keys, NEW subjects
      PROVE  /\ Shaped(InvalidateKeys(d, f, keys, subjects))
             /\ Rebuilding(InvalidateKeys(d, f, keys, subjects)) \subseteq Rebuilding(d)
  <2> DEFINE e == Ensured(d, f, keys, subjects)
  <2>1. Shaped(e) /\ Rebuilding(e) \subseteq Rebuilding(d)
    BY DEF Shaped, Rebuilding, Ensured, NoNode
  <2> HIDE DEF e
  <2>2. QED BY <2>1, InvalidateKeepsTrust DEF InvalidateKeys, e
<1>2. QED BY <1>1, InvalidateKeepsTrust DEF Marked

LEMMA TrustInit == Init => TrustInv
<1> SUFFICES ASSUME Init PROVE TrustInv OBVIOUS
<1> DEFINE d0 == [n \in Node |-> NoNode]
           held == {n \in Node : IF n[1] = "profile" THEN About(facts, n[2]) # {}
                                                    ELSE OfKey(facts, n[2]) # {}}
           d1 == Level(d0, facts, OfKind(held, {"profile", "state"}))
           d2 == Level(d1, facts, OfKind(held, {"support"}))
           d3 == Level(d2, facts, OfKind(held, {"context"}))
<1>1. derived = d3 BY DEF Init, Clean, InOrder
<1>2. Shaped(d0) /\ Rebuilding(d0) = {} BY DEF Shaped, Rebuilding, NoNode
<1>3. Shaped(d1) /\ Rebuilding(d1) = {}
  <2> HIDE DEF d0, held
  <2>1. QED BY <1>2, LevelIsFresh DEF NoWorse
<1>4. Shaped(d2) /\ Rebuilding(d2) = {}
  <2> HIDE DEF d1, held
  <2>1. QED BY <1>3, LevelIsFresh DEF NoWorse
<1>5. Shaped(d3) /\ Rebuilding(d3) = {}
  <2> HIDE DEF d2, held
  <2>1. QED BY <1>4, LevelIsFresh DEF NoWorse
<1> HIDE DEF d3
<1>6. QED BY <1>1, <1>5 DEF Init, TrustInv, NoIntent

LEMMA TrustStep == RedoInv /\ TrustInv /\ [Next]_vars => TrustInv'
<1> SUFFICES ASSUME RedoInv, TrustInv, [Next]_vars PROVE TrustInv' OBVIOUS
<1> USE DEF TrustInv
<1>0. JournalTyped BY DEF RedoInv
<1>1. ASSUME CanAsk, NEW o \in Direct, Mutate(o) PROVE TrustInv'
  <2>1. journal.phase = "none" BY <1>1 DEF CanAsk, Quiet, NoIntent
  <2>2. Shaped(derived') /\ Rebuilding(derived') = {}
    BY <1>1, <2>1, MarkedKeepsTrust DEF Mutate
  <2>3. QED BY <1>1, <2>1, <2>2 DEF Mutate, Shaped, Rebuilding, Invalid
<1>2. ASSUME CanAsk, NEW o \in Journalled, Prepare(o) PROVE TrustInv'
  BY <1>2 DEF CanAsk, Quiet, Prepare, NoIntent, Shaped, Rebuilding, Invalid
<1>3. ASSUME NEW targets, RebuildSome(targets) PROVE TrustInv'
  <2>1. journal.phase = "none" BY <1>3 DEF RebuildSome, Quiet, NoIntent
  <2>2. Shaped(derived') /\ Rebuilding(derived') = {}
    BY <1>3, <2>1, RebuildSettles DEF RebuildSome, NoWorse
  <2>3. QED BY <1>3, <2>1, <2>2 DEF RebuildSome, Shaped, Rebuilding, Invalid
<1>4. CASE ApplyCanonical
  BY <1>0, <1>4 DEF ApplyCanonical, JournalTyped, Shaped, Rebuilding, Invalid
<1>5. CASE Invalidate
  <2>1. Shaped(derived') /\ Rebuilding(derived') = {}
    BY <1>5, MarkedKeepsTrust DEF Invalidate
  <2>2. journal'.phase = "invalidated" BY <1>0, <1>5 DEF Invalidate, JournalTyped
  <2>3. QED BY <2>1, <2>2 DEF Shaped, Rebuilding, Invalid
<1>6. CASE PartialRebuild
  <2>1. PICK n \in journal.affected \cap Invalid(derived) :
           derived' = [derived EXCEPT ![n] = [Rebuilt(derived, facts, n)
                                                EXCEPT !.status = "rebuilding"]]
    BY <1>6 DEF PartialRebuild
  <2>2. "status" \in DOMAIN Rebuilt(derived, facts, n) BY RebuiltIsFresh
  <2>3. Shaped(derived') /\ Rebuilding(derived') \subseteq {n}
    BY <1>6, <2>1, <2>2 DEF PartialRebuild, Shaped, Rebuilding
  <2>4. journal'.phase = "rebuilding" /\ journal'.affected = journal.affected
    BY <1>0, <1>6 DEF PartialRebuild, JournalTyped
  <2>5. QED BY <2>1, <2>3, <2>4 DEF Shaped, Rebuilding, Invalid
<1>7. CASE Reinvalidate
  <2>1. Shaped(derived') /\ Rebuilding(derived') = {}
    BY <1>7, InvalidateKeepsTrust DEF Reinvalidate
  <2>2. journal'.phase = "invalidated" BY <1>0, <1>7 DEF Reinvalidate, JournalTyped
  <2>3. QED BY <2>1, <2>2 DEF Shaped, Rebuilding, Invalid
<1>8. CASE Repair
  <2>1. Shaped(derived') /\ Rebuilding(derived') = {}
           /\ journal.affected \cap Invalid(derived)' = {}
    BY <1>8, RebuildSettles DEF Repair, NoWorse, Invalid
  <2>2. journal'.phase = "repaired" /\ journal'.affected = journal.affected
    BY <1>0, <1>8 DEF Repair, JournalTyped
  <2>3. QED BY <2>1, <2>2 DEF Shaped, Rebuilding, Invalid
<1>9. CASE Finish
  BY <1>9 DEF Finish, NoIntent, Shaped, Rebuilding, Invalid
<1>10. CASE Crash
  <2>1. \/ journal' = journal
        \/ journal.phase = "prepared" /\ journal'.phase = "canonical_applied"
    BY <1>0, <1>10 DEF Crash, JournalTyped
  <2>2. derived' = derived BY <1>10 DEF Crash
  <2>3. QED BY <2>1, <2>2 DEF Shaped, Rebuilding, Invalid
<1>11. CASE UNCHANGED vars
  BY <1>11 DEF vars, Shaped, Rebuilding, Invalid
<1>12. QED
  BY <1>1, <1>2, <1>3, <1>4, <1>5, <1>6, <1>7, <1>8, <1>9, <1>10, <1>11 DEF Next

\* When an intent counts as repaired nothing it affected is invalid and nothing
\* at all is half written, however many processes died on the way (recovery.py:287).
THEOREM RepairsAreTrusted == Spec => []RepairedIsTrusted
<1>1. RedoInv /\ TrustInv => RepairedIsTrusted
  BY DEF RedoInv, JournalTyped, TrustInv, RepairedIsTrusted, Rebuilding
<1>2. QED BY <1>1, RedoInit, RedoStep, TrustInit, TrustStep, PTL DEF Spec

-----------------------------------------------------------------------------
(* What is trusted is what a clean build makes *)

St(k) == <<"state", k>>
Su(k) == <<"support", k>>
Co(k) == <<"context", k>>
Pr(s) == <<"profile", s>>

Held(f, n) == IF n[1] = "profile" THEN About(f, n[2]) # {} ELSE OfKey(f, n[2]) # {}

RowOK(r) ==
  /\ r = [status |-> r.status, value |-> r.value, from |-> r.from]
  /\ r.status \in {"none", "fresh", "invalid", "rebuilding"}
  /\ r.status = "none" => r = NoNode

EvidenceNode == {"evidence"} \X Evidence

\* The edges a node may have: a state rests on no node and on no evidence, a
\* support on its state, a context on its support alone.
EdgesOK(n, F) ==
  /\ n[1] \in {"state", "profile"} => F \cap Node = {}
  /\ n[1] = "state" => F \cap EvidenceNode = {}
  /\ n[1] = "support" => St(n[2]) \in F /\ F \cap Node \subseteq {St(n[2])}
  /\ n[1] = "context" => F = {Su(n[2])}

\* A key has its whole chain, and no node is trusted above one that is not.
ChainOK(d, k) ==
  /\ Exists(d, St(k)) <=> Exists(d, Su(k))
  /\ Exists(d, Su(k)) <=> Exists(d, Co(k))
  /\ Fresh(d, Su(k)) => Fresh(d, St(k))
  /\ Fresh(d, Co(k)) => Fresh(d, Su(k))

NodeOK(n, r) == RowOK(r) /\ (r.status # "none" => EdgesOK(n, r.from))

Shape(d) ==
  /\ d = [n \in Node |-> d[n]]
  /\ \A n \in Node : NodeOK(n, d[n])
  /\ \A k \in Key : ChainOK(d, k)

\* What a clean build C says of a node that is trusted.
Says(r, c, held) == r.status = "fresh" => r.value = c.value /\ (held => r.from = c.from)

Whole(d, k) == Fresh(d, St(k)) /\ Fresh(d, Su(k)) /\ Fresh(d, Co(k))

Right(d, f) ==
  /\ \A n \in Node : Says(d[n], Clean(f)[n], Held(f, n))
  /\ \A n \in Node : Held(f, n) => Exists(d, n)
  /\ \A k \in Key : OfKey(f, k) = {} => ~Whole(d, k)
  /\ \A s \in Subject : About(f, s) = {} => ~Fresh(d, Pr(s))

-----------------------------------------------------------------------------

LEMMA NodeForms ==
  /\ \A k \in Key : St(k) \in Node /\ Su(k) \in Node /\ Co(k) \in Node
  /\ \A s \in Subject : Pr(s) \in Node
  /\ \A n \in Node : \/ \E k \in Key : n \in {St(k), Su(k), Co(k)}
                     \/ \E s \in Subject : n = Pr(s)
<1>1. \A n \in Node : \/ \E k \in Key : n \in {St(k), Su(k), Co(k)}
                      \/ \E s \in Subject : n = Pr(s)
  <2> SUFFICES ASSUME NEW n \in Node
               PROVE  \/ \E k \in Key : n \in {St(k), Su(k), Co(k)}
                      \/ \E s \in Subject : n = Pr(s)
    OBVIOUS
  <2>1. CASE n \in Chain \X Key
    <3>1. PICK c \in Chain, k \in Key : n = <<c, k>>
      BY <2>1
    <3> QED
      BY <3>1 DEF Chain, St, Su, Co
  <2>2. CASE n \in {"profile"} \X Subject
    BY <2>2 DEF Pr
  <2> QED
    BY <2>1, <2>2 DEF Node
<1> QED
  BY <1>1 DEF Node, Chain, St, Su, Co, Pr

LEMMA NodeParts ==
  /\ \A k : /\ St(k)[1] = "state" /\ Su(k)[1] = "support" /\ Co(k)[1] = "context"
            /\ St(k)[2] = k /\ Su(k)[2] = k /\ Co(k)[2] = k
  /\ \A s : Pr(s)[1] = "profile" /\ Pr(s)[2] = s
BY DEF St, Su, Co, Pr

-----------------------------------------------------------------------------
(* A row as the facts give it *)

StateFrom(f, S) ==
  ({"assertion"} \X S)
    \cup {<<"relation", r>> : r \in {q \in f.relations : q[1] \in S /\ q[3] \in S}}

StateRow(f, k) ==
  [status |-> "fresh",
   value  |-> IF OfKey(f, k) = {} THEN None ELSE Reconciled(f, k, OfKey(f, k)),
   from   |-> StateFrom(f, OfKey(f, k))]

ProfileRow(f, s) ==
  [status |-> "fresh",
   value  |-> IF About(f, s) = {} THEN None
              ELSE [predicates |-> {f.assertion[a].predicate : a \in About(f, s)},
                    evidence   |-> EvidenceOf(f, About(f, s)),
                    payloads   |-> Payloads(f, About(f, s))],
   from   |-> Nodes(f, About(f, s))]

Kept(f, v) == {a \in v.active : Stored(f, a)}

SupportRow(f, k, v) ==
  IF v = None THEN [status |-> "fresh", value |-> None, from |-> {St(k)}]
  ELSE [status |-> "fresh",
        value  |-> [status |-> v.status, values |-> v.values, assertions |-> v.active,
                    payloads |-> Payloads(f, Kept(f, v))],
        from   |-> {St(k)} \cup Nodes(f, Kept(f, v))]

ContextRow(k, v) == [status |-> "fresh", value |-> v, from |-> {Su(k)}]

LEMMA RebuiltIs ==
  ASSUME NEW d, NEW f
  PROVE  /\ \A k : Rebuilt(d, f, St(k)) = StateRow(f, k)
         /\ \A k : Rebuilt(d, f, Su(k)) = SupportRow(f, k, d[St(k)].value)
         /\ \A k : Rebuilt(d, f, Co(k)) = ContextRow(k, d[Su(k)].value)
         /\ \A s : Rebuilt(d, f, Pr(s)) = ProfileRow(f, s)
<1>1. ASSUME NEW k PROVE Rebuilt(d, f, St(k)) = StateRow(f, k)
  BY DEF Rebuilt, StateRow, StateFrom, St
<1>2. ASSUME NEW k PROVE Rebuilt(d, f, Su(k)) = SupportRow(f, k, d[St(k)].value)
  BY DEF Rebuilt, SupportRow, St, Su, Kept
<1>3. ASSUME NEW k PROVE Rebuilt(d, f, Co(k)) = ContextRow(k, d[Su(k)].value)
  BY DEF Rebuilt, ContextRow, Co, Su
<1>4. ASSUME NEW s PROVE Rebuilt(d, f, Pr(s)) = ProfileRow(f, s)
  BY DEF Rebuilt, ProfileRow, Pr
<1> QED
  BY <1>1, <1>2, <1>3, <1>4

\* A level rebuilds the nodes of its kinds, and leaves the others.
LEMMA LevelIs ==
  ASSUME NEW d, NEW f, NEW nodes, NEW kinds
  PROVE  LET e == Level(d, f, OfKind(nodes, kinds))
         IN  /\ e = [n \in Node |-> e[n]]
             /\ \A n \in Node : e[n] = IF n \in nodes /\ n[1] \in kinds THEN Rebuilt(d, f, n) ELSE d[n]
BY DEF Level, OfKind

\* rebuild_node in order: every row from what the rows below it say by then.
InOrderOK(e, d, f, nodes) ==
  /\ \A k \in Key :
       /\ e[St(k)] = IF St(k) \in nodes THEN StateRow(f, k) ELSE d[St(k)]
       /\ e[Su(k)] = IF Su(k) \in nodes THEN SupportRow(f, k, e[St(k)].value) ELSE d[Su(k)]
       /\ e[Co(k)] = IF Co(k) \in nodes THEN ContextRow(k, e[Su(k)].value) ELSE d[Co(k)]
  /\ \A s \in Subject : e[Pr(s)] = IF Pr(s) \in nodes THEN ProfileRow(f, s) ELSE d[Pr(s)]

LEMMA InOrderIs ==
  ASSUME NEW d, NEW f, NEW nodes, NEW e, e = InOrder(d, f, nodes)
  PROVE  e = [n \in Node |-> e[n]] /\ InOrderOK(e, d, f, nodes)
<1>1. PICK d1 : d1 = Level(d, f, OfKind(nodes, {"profile", "state"}))
  OBVIOUS
<1>2. PICK d2 : d2 = Level(d1, f, OfKind(nodes, {"support"}))
  OBVIOUS
<1>3. e = Level(d2, f, OfKind(nodes, {"context"}))
  BY <1>1, <1>2 DEF InOrder
<1>4. \A n \in Node : d1[n] = IF n \in nodes /\ n[1] \in {"profile", "state"}
                              THEN Rebuilt(d, f, n) ELSE d[n]
  BY <1>1, LevelIs
<1>5. \A n \in Node : d2[n] = IF n \in nodes /\ n[1] \in {"support"}
                              THEN Rebuilt(d1, f, n) ELSE d1[n]
  BY <1>2, LevelIs
<1>6. \A n \in Node : e[n] = IF n \in nodes /\ n[1] \in {"context"}
                             THEN Rebuilt(d2, f, n) ELSE d2[n]
  BY <1>3, LevelIs
<1>7. e = [n \in Node |-> e[n]]
  BY <1>3, LevelIs
<1>8. ASSUME NEW k \in Key
      PROVE  /\ e[St(k)] = IF St(k) \in nodes THEN StateRow(f, k) ELSE d[St(k)]
             /\ e[Su(k)] = IF Su(k) \in nodes THEN SupportRow(f, k, e[St(k)].value) ELSE d[Su(k)]
             /\ e[Co(k)] = IF Co(k) \in nodes THEN ContextRow(k, e[Su(k)].value) ELSE d[Co(k)]
  <2>1. PICK a, b, c : a = St(k) /\ b = Su(k) /\ c = Co(k)
    OBVIOUS
  <2>2. /\ a \in Node /\ b \in Node /\ c \in Node
        /\ a[1] = "state" /\ b[1] = "support" /\ c[1] = "context"
    BY <2>1, NodeForms, NodeParts
  <2>3. /\ Rebuilt(d, f, a) = StateRow(f, k)
        /\ Rebuilt(d1, f, b) = SupportRow(f, k, d1[a].value)
        /\ Rebuilt(d2, f, c) = ContextRow(k, d2[b].value)
    BY <2>1, RebuiltIs
  <2>4. /\ d1[a] = (IF a \in nodes THEN StateRow(f, k) ELSE d[a]) /\ d2[a] = d1[a] /\ e[a] = d2[a]
        /\ d1[b] = d[b] /\ d2[b] = (IF b \in nodes THEN SupportRow(f, k, d1[a].value) ELSE d1[b])
        /\ e[b] = d2[b]
        /\ d1[c] = d[c] /\ d2[c] = d1[c]
        /\ e[c] = (IF c \in nodes THEN ContextRow(k, d2[b].value) ELSE d2[c])
    BY <1>4, <1>5, <1>6, <2>2, <2>3
  <2> QED
    BY ONLY <2>1, <2>4
<1>9. ASSUME NEW s \in Subject
      PROVE  e[Pr(s)] = IF Pr(s) \in nodes THEN ProfileRow(f, s) ELSE d[Pr(s)]
  <2>1. PICK p : p = Pr(s)
    OBVIOUS
  <2>2. p \in Node /\ p[1] = "profile" /\ Rebuilt(d, f, p) = ProfileRow(f, s)
    BY <2>1, NodeForms, NodeParts, RebuiltIs
  <2> QED
    BY <1>4, <1>5, <1>6, <2>1, <2>2
<1> QED
  BY <1>7, <1>8, <1>9 DEF InOrderOK

LEMMA HeldIs ==
  ASSUME NEW f
  PROVE  /\ \A k : Held(f, St(k)) <=> OfKey(f, k) # {}
         /\ \A k : Held(f, Su(k)) <=> OfKey(f, k) # {}
         /\ \A k : Held(f, Co(k)) <=> OfKey(f, k) # {}
         /\ \A s : Held(f, Pr(s)) <=> About(f, s) # {}
BY NodeParts DEF Held

\* A clean build: a row for whatever the facts hold, and no other.
LEMMA CleanIs ==
  ASSUME NEW f, NEW c, c = Clean(f)
  PROVE  /\ c = [n \in Node |-> c[n]]
         /\ \A k \in Key : OfKey(f, k) = {} =>
              c[St(k)] = NoNode /\ c[Su(k)] = NoNode /\ c[Co(k)] = NoNode
         /\ \A k \in Key : OfKey(f, k) # {} =>
              /\ c[St(k)] = StateRow(f, k)
              /\ c[Su(k)] = SupportRow(f, k, c[St(k)].value)
              /\ c[Co(k)] = ContextRow(k, c[Su(k)].value)
         /\ \A s \in Subject : c[Pr(s)] = IF About(f, s) = {} THEN NoNode ELSE ProfileRow(f, s)
<1>1. PICK held : held = {n \in Node : Held(f, n)}
  OBVIOUS
<1>2. PICK d : d = [n \in Node |-> NoNode]
  OBVIOUS
<1>3. c = InOrder(d, f, held)
  BY <1>1, <1>2 DEF Clean, Held
<1>4. c = [n \in Node |-> c[n]] /\ InOrderOK(c, d, f, held)
  BY <1>3, InOrderIs
<1>5. /\ \A k \in Key : /\ St(k) \in held <=> OfKey(f, k) # {}
                        /\ Su(k) \in held <=> OfKey(f, k) # {}
                        /\ Co(k) \in held <=> OfKey(f, k) # {}
      /\ \A s \in Subject : Pr(s) \in held <=> About(f, s) # {}
  BY <1>1, NodeForms, HeldIs
<1>6. /\ \A k \in Key : d[St(k)] = NoNode /\ d[Su(k)] = NoNode /\ d[Co(k)] = NoNode
      /\ \A s \in Subject : d[Pr(s)] = NoNode
  BY <1>2, NodeForms
<1> QED
  BY <1>4, <1>5, <1>6 DEF InOrderOK

-----------------------------------------------------------------------------
(* A row depends on the facts it is about *)

\* f and g say the same of the assertions S, and of the relations among them.
Alike(f, g, S) ==
  /\ \A a \in S : f.assertion[a] = g.assertion[a]
  /\ \A r \in f.relations \cup g.relations :
       r[1] \in S /\ r[3] \in S => r \in f.relations /\ r \in g.relations

LEMMA StateDepends ==
  ASSUME NEW f, NEW g, NEW k, OfKey(f, k) = OfKey(g, k), Alike(f, g, OfKey(f, k))
  PROVE  StateRow(f, k) = StateRow(g, k)
<1>1. PICK S : S = OfKey(f, k)
  OBVIOUS
<1>2. S = OfKey(g, k) /\ Alike(f, g, S)
  BY <1>1
<1>3. Replaced(f, S) = Replaced(g, S)
  <2>1. ASSUME NEW t \in S, NEW s \in S, NEW r
        PROVE  <<s, r, t>> \in f.relations <=> <<s, r, t>> \in g.relations
    <3>1. PICK q : q = <<s, r, t>>
      OBVIOUS
    <3>2. q[1] \in S /\ q[3] \in S
      BY <3>1
    <3> QED
      BY <1>2, <3>1, <3>2 DEF Alike
  <2> QED
    BY <2>1 DEF Replaced
<1>4. Reconciled(f, k, S) = Reconciled(g, k, S)
  <2>1. PICK A : A = S \ Replaced(f, S)
    OBVIOUS
  <2>2. {f.assertion[a].object : a \in A} = {g.assertion[a].object : a \in A}
    BY <1>2, <2>1 DEF Alike
  <2> QED
    BY <1>3, <2>1, <2>2 DEF Reconciled
<1>5. StateFrom(f, S) = StateFrom(g, S)
  <2>1. {q \in f.relations : q[1] \in S /\ q[3] \in S} = {q \in g.relations : q[1] \in S /\ q[3] \in S}
    BY <1>2 DEF Alike
  <2> QED
    BY <2>1 DEF StateFrom
<1> QED
  BY <1>1, <1>2, <1>4, <1>5 DEF StateRow

\* The evidence S cites, and what it says.
LEMMA EvidenceDepends ==
  ASSUME NEW f, NEW g, NEW S, \A a \in S : f.assertion[a].evidence = g.assertion[a].evidence
  PROVE  /\ EvidenceOf(f, S) = EvidenceOf(g, S)
         /\ Nodes(f, S) = Nodes(g, S)
         /\ (\A e \in EvidenceOf(f, S) : f.evidence[e] = g.evidence[e]) => Payloads(f, S) = Payloads(g, S)
<1>1. EvidenceOf(f, S) = EvidenceOf(g, S)
  <2>1. {f.assertion[a].evidence : a \in S} = {g.assertion[a].evidence : a \in S}
    OBVIOUS
  <2> QED
    BY <2>1 DEF EvidenceOf
<1>2. ASSUME \A e \in EvidenceOf(f, S) : f.evidence[e] = g.evidence[e]
      PROVE  Payloads(f, S) = Payloads(g, S)
  <2>1. PICK E : E = EvidenceOf(f, S)
    OBVIOUS
  <2>2. {x \in E : f.evidence[x] # None} = {x \in E : g.evidence[x] # None}
    BY <1>2, <2>1
  <2>3. PICK X : X = {x \in E : f.evidence[x] # None}
    OBVIOUS
  <2>4. {<<e, f.evidence[e]>> : e \in X} = {<<e, g.evidence[e]>> : e \in X}
    BY <1>2, <2>1, <2>3
  <2> QED
    BY <1>1, <2>1, <2>2, <2>3, <2>4 DEF Payloads
<1> QED
  BY <1>1, <1>2 DEF Nodes

LEMMA SupportDepends ==
  ASSUME NEW f, NEW g, NEW k, NEW v,
         v # None => \A a \in v.active : f.assertion[a] = g.assertion[a],
         v # None => \A e \in EvidenceOf(f, Kept(f, v)) : f.evidence[e] = g.evidence[e]
  PROVE  SupportRow(f, k, v) = SupportRow(g, k, v)
<1>1. CASE v = None
  BY <1>1 DEF SupportRow
<1>2. CASE v # None
  <2>1. PICK K : K = Kept(f, v)
    OBVIOUS
  <2>2. K = Kept(g, v) /\ \A a \in K : f.assertion[a].evidence = g.assertion[a].evidence
    BY <1>2, <2>1 DEF Kept, Stored
  <2>3. Nodes(f, K) = Nodes(g, K) /\ Payloads(f, K) = Payloads(g, K)
    BY <1>2, <2>1, <2>2, EvidenceDepends
  <2> QED
    BY <1>2, <2>1, <2>2, <2>3 DEF SupportRow
<1> QED
  BY <1>1, <1>2

LEMMA ProfileDepends ==
  ASSUME NEW f, NEW g, NEW s, About(f, s) = About(g, s),
         \A a \in About(f, s) : /\ f.assertion[a].predicate = g.assertion[a].predicate
                                /\ f.assertion[a].evidence = g.assertion[a].evidence,
         \A e \in EvidenceOf(f, About(f, s)) : f.evidence[e] = g.evidence[e]
  PROVE  ProfileRow(f, s) = ProfileRow(g, s)
<1>1. PICK S : S = About(f, s)
  OBVIOUS
<1>2. {f.assertion[a].predicate : a \in S} = {g.assertion[a].predicate : a \in S}
  BY <1>1
<1>3. EvidenceOf(f, S) = EvidenceOf(g, S) /\ Nodes(f, S) = Nodes(g, S) /\ Payloads(f, S) = Payloads(g, S)
  BY <1>1, EvidenceDepends
<1> QED
  BY <1>1, <1>2, <1>3 DEF ProfileRow

\* What is active in a cell is about its key.
LEMMA ActiveInKey ==
  ASSUME NEW f, NEW k
  PROVE  StateRow(f, k).value # None => StateRow(f, k).value.active \subseteq OfKey(f, k)
BY DEF StateRow, Reconciled

-----------------------------------------------------------------------------
(* Rows and their edges *)

LEMMA RowsOK ==
  ASSUME NEW f
  PROVE  /\ \A k : NodeOK(St(k), StateRow(f, k)) /\ StateRow(f, k).status = "fresh"
         /\ \A k, v : NodeOK(Su(k), SupportRow(f, k, v)) /\ SupportRow(f, k, v).status = "fresh"
         /\ \A k, v : NodeOK(Co(k), ContextRow(k, v)) /\ ContextRow(k, v).status = "fresh"
         /\ \A s : NodeOK(Pr(s), ProfileRow(f, s)) /\ ProfileRow(f, s).status = "fresh"
<1>1. \A n \in Node : n[1] \in {"profile", "state", "support", "context"}
  BY NodeKinds
<1>2. ASSUME NEW S
      PROVE  /\ \A n \in Nodes(f, S) : n[1] \in {"assertion", "evidence"}
             /\ \A n \in StateFrom(f, S) : n[1] \in {"assertion", "relation"}
  BY DEF Nodes, StateFrom
<1>3. \A n \in EvidenceNode : n[1] = "evidence"
  BY DEF EvidenceNode
<1>4. ASSUME NEW r, NEW w, NEW F, r = [status |-> "fresh", value |-> w, from |-> F]
      PROVE  RowOK(r) /\ r.status = "fresh" /\ r.from = F
  BY <1>4 DEF RowOK
<1>5. ASSUME NEW k
      PROVE  NodeOK(St(k), StateRow(f, k)) /\ StateRow(f, k).status = "fresh"
  <2>1. PICK r, F : r = StateRow(f, k) /\ F = StateFrom(f, OfKey(f, k))
    OBVIOUS
  <2>2. RowOK(r) /\ r.status = "fresh" /\ r.from = F
    BY <1>4, <2>1 DEF StateRow
  <2>3. F \cap Node = {} /\ F \cap EvidenceNode = {}
    BY <1>1, <1>2, <1>3, <2>1
  <2> QED
    BY <2>1, <2>2, <2>3, NodeParts DEF NodeOK, EdgesOK
<1>6. ASSUME NEW k, NEW v
      PROVE  NodeOK(Su(k), SupportRow(f, k, v)) /\ SupportRow(f, k, v).status = "fresh"
  <2>1. PICK r, F : r = SupportRow(f, k, v) /\ F = r.from
    OBVIOUS
  <2>2. RowOK(r) /\ r.status = "fresh" /\ (F = {St(k)} \/ F = {St(k)} \cup Nodes(f, Kept(f, v)))
    BY <1>4, <2>1 DEF SupportRow
  <2>3. F \cap Node \subseteq {St(k)} /\ St(k) \in F
    BY <1>1, <1>2, <2>2
  <2> QED
    BY <2>1, <2>2, <2>3, NodeParts DEF NodeOK, EdgesOK
<1>7. ASSUME NEW k, NEW v
      PROVE  NodeOK(Co(k), ContextRow(k, v)) /\ ContextRow(k, v).status = "fresh"
  BY <1>4, NodeParts DEF NodeOK, EdgesOK, ContextRow
<1>8. ASSUME NEW s
      PROVE  NodeOK(Pr(s), ProfileRow(f, s)) /\ ProfileRow(f, s).status = "fresh"
  <2>1. PICK r, F : r = ProfileRow(f, s) /\ F = Nodes(f, About(f, s))
    OBVIOUS
  <2>2. RowOK(r) /\ r.status = "fresh" /\ r.from = F
    BY <1>4, <2>1 DEF ProfileRow
  <2>3. F \cap Node = {}
    BY <1>1, <1>2, <2>1
  <2> QED
    BY <2>1, <2>2, <2>3, NodeParts DEF NodeOK, EdgesOK
<1> QED
  BY <1>5, <1>6, <1>7, <1>8

LEMMA NothingOK == \A n : NodeOK(n, NoNode) /\ NoNode.status = "none" /\ NoNode.value = None /\ NoNode.from = {}
BY DEF NodeOK, RowOK, NoNode

\* Shape and Right, one key and one subject at a time.
ShapeOf(d, k) ==
  /\ NodeOK(St(k), d[St(k)]) /\ NodeOK(Su(k), d[Su(k)]) /\ NodeOK(Co(k), d[Co(k)])
  /\ ChainOK(d, k)

RightOf(d, f, k) ==
  LET c == Clean(f)
      held == OfKey(f, k) # {}
  IN  /\ Says(d[St(k)], c[St(k)], held) /\ Says(d[Su(k)], c[Su(k)], held) /\ Says(d[Co(k)], c[Co(k)], held)
      /\ held => Exists(d, St(k)) /\ Exists(d, Su(k)) /\ Exists(d, Co(k))
      /\ ~held => ~Whole(d, k)

RightFor(d, f, s) ==
  /\ Says(d[Pr(s)], Clean(f)[Pr(s)], About(f, s) # {})
  /\ About(f, s) # {} => Exists(d, Pr(s))
  /\ About(f, s) = {} => ~Fresh(d, Pr(s))

LEMMA ShapeParts ==
  ASSUME NEW d
  PROVE  Shape(d) <=> /\ d = [n \in Node |-> d[n]]
                      /\ \A k \in Key : ShapeOf(d, k)
                      /\ \A s \in Subject : NodeOK(Pr(s), d[Pr(s)])
<1>1. ASSUME Shape(d)
      PROVE  /\ d = [n \in Node |-> d[n]]
             /\ \A k \in Key : ShapeOf(d, k)
             /\ \A s \in Subject : NodeOK(Pr(s), d[Pr(s)])
  BY <1>1, NodeForms DEF Shape, ShapeOf
<1>2. ASSUME d = [n \in Node |-> d[n]],
             \A k \in Key : ShapeOf(d, k),
             \A s \in Subject : NodeOK(Pr(s), d[Pr(s)])
      PROVE  Shape(d)
  <2>1. ASSUME NEW n \in Node PROVE NodeOK(n, d[n])
    <3>1. CASE \E k \in Key : n \in {St(k), Su(k), Co(k)}
      BY <1>2, <3>1 DEF ShapeOf
    <3>2. CASE \E s \in Subject : n = Pr(s)
      BY <1>2, <3>2
    <3> QED
      BY <3>1, <3>2, NodeForms
  <2> QED
    BY <1>2, <2>1 DEF Shape, ShapeOf
<1> QED
  BY <1>1, <1>2

LEMMA RightParts ==
  ASSUME NEW d, NEW f
  PROVE  Right(d, f) <=> (\A k \in Key : RightOf(d, f, k)) /\ (\A s \in Subject : RightFor(d, f, s))
<1>0. PICK c : c = Clean(f)
  OBVIOUS
<1>1. ASSUME Right(d, f)
      PROVE  (\A k \in Key : RightOf(d, f, k)) /\ (\A s \in Subject : RightFor(d, f, s))
  <2>1. ASSUME NEW k \in Key PROVE RightOf(d, f, k)
    <3>1. PICK x, y, z : x = St(k) /\ y = Su(k) /\ z = Co(k)
      OBVIOUS
    <3>2. x \in Node /\ y \in Node /\ z \in Node
      BY <3>1, NodeForms
    <3>3. /\ Held(f, x) <=> OfKey(f, k) # {}
          /\ Held(f, y) <=> OfKey(f, k) # {}
          /\ Held(f, z) <=> OfKey(f, k) # {}
      BY <3>1, HeldIs
    <3>4. /\ \A n \in {x, y, z} : Says(d[n], c[n], OfKey(f, k) # {}) /\ (OfKey(f, k) # {} => Exists(d, n))
          /\ OfKey(f, k) = {} => ~Whole(d, k)
      BY <1>0, <1>1, <3>2, <3>3 DEF Right, Says
    <3> QED
      BY <1>0, <3>1, <3>4 DEF RightOf
  <2>2. ASSUME NEW s \in Subject PROVE RightFor(d, f, s)
    <3>1. Pr(s) \in Node /\ (Held(f, Pr(s)) <=> About(f, s) # {})
      BY NodeForms, HeldIs
    <3> QED
      BY <1>1, <3>1 DEF Right, RightFor, Says
  <2> QED
    BY <2>1, <2>2
<1>2. ASSUME \A k \in Key : RightOf(d, f, k), \A s \in Subject : RightFor(d, f, s)
      PROVE  Right(d, f)
  <2>1. ASSUME NEW n \in Node
        PROVE  Says(d[n], c[n], Held(f, n)) /\ (Held(f, n) => Exists(d, n))
    <3>1. CASE \E k \in Key : n \in {St(k), Su(k), Co(k)}
      <4>1. PICK k \in Key : n \in {St(k), Su(k), Co(k)}
        BY <3>1
      <4>2. Held(f, n) <=> OfKey(f, k) # {}
        BY <4>1, HeldIs
      <4>3. /\ Says(d[St(k)], c[St(k)], OfKey(f, k) # {})
            /\ Says(d[Su(k)], c[Su(k)], OfKey(f, k) # {})
            /\ Says(d[Co(k)], c[Co(k)], OfKey(f, k) # {})
            /\ OfKey(f, k) # {} => Exists(d, St(k)) /\ Exists(d, Su(k)) /\ Exists(d, Co(k))
        BY <1>0, <1>2 DEF RightOf
      <4> QED
        BY <4>1, <4>2, <4>3 DEF Says
    <3>2. CASE \E s \in Subject : n = Pr(s)
      <4>1. PICK s \in Subject : n = Pr(s)
        BY <3>2
      <4>2. Held(f, n) <=> About(f, s) # {}
        BY <4>1, HeldIs
      <4> QED
        BY <1>0, <1>2, <4>1, <4>2 DEF RightFor, Says
    <3> QED
      BY <3>1, <3>2, NodeForms
  <2> QED
    BY <1>0, <1>2, <2>1 DEF Right, RightOf, RightFor
<1> QED
  BY <1>1, <1>2

\* A clean build has the shape, and says what it says.
LEMMA CleanRight ==
  ASSUME NEW f, NEW c, c = Clean(f)
  PROVE  Shape(c) /\ Right(c, f)
<1>1. c = [n \in Node |-> c[n]]
  BY CleanIs
<1>2. ASSUME NEW k \in Key PROVE ShapeOf(c, k) /\ RightOf(c, f, k)
  <2>1. CASE OfKey(f, k) = {}
    <3>1. c[St(k)] = NoNode /\ c[Su(k)] = NoNode /\ c[Co(k)] = NoNode
      BY <2>1, CleanIs
    <3> QED
      BY <2>1, <3>1, NothingOK DEF ShapeOf, ChainOK, RightOf, Says, Whole, Exists, Fresh
  <2>2. CASE OfKey(f, k) # {}
    <3>1. PICK v, w : v = c[St(k)].value /\ w = c[Su(k)].value
      OBVIOUS
    <3>2. /\ c[St(k)] = StateRow(f, k) /\ c[Su(k)] = SupportRow(f, k, v)
          /\ c[Co(k)] = ContextRow(k, w)
      BY <2>2, <3>1, CleanIs
    <3>3. /\ NodeOK(St(k), c[St(k)]) /\ NodeOK(Su(k), c[Su(k)]) /\ NodeOK(Co(k), c[Co(k)])
          /\ c[St(k)].status = "fresh" /\ c[Su(k)].status = "fresh" /\ c[Co(k)].status = "fresh"
      BY <3>2, RowsOK
    <3> QED
      BY <2>2, <3>3 DEF ShapeOf, ChainOK, RightOf, Says, Whole, Exists, Fresh
  <2> QED
    BY <2>1, <2>2
<1>3. ASSUME NEW s \in Subject PROVE NodeOK(Pr(s), c[Pr(s)]) /\ RightFor(c, f, s)
  <2>1. c[Pr(s)] = IF About(f, s) = {} THEN NoNode ELSE ProfileRow(f, s)
    BY CleanIs
  <2> QED
    BY <2>1, NothingOK, RowsOK DEF RightFor, Says, Exists, Fresh
<1> QED
  BY <1>1, <1>2, <1>3, ShapeParts, RightParts

-----------------------------------------------------------------------------
(* A rebuild *)

\* Nothing rests on a context, and only its context on a support.
LEMMA EdgeTo ==
  ASSUME NEW x \in Node, NEW F, EdgesOK(x, F), NEW k \in Key
  PROVE  Co(k) \notin F /\ (Su(k) \in F => x = Co(k))
<1>1. St(k) \in Node /\ Su(k) \in Node /\ Co(k) \in Node
  BY NodeForms
<1>2. CASE \E s \in Subject : x = Pr(s)
  BY <1>1, <1>2, NodeParts DEF EdgesOK
<1>3. CASE \E j \in Key : x = St(j)
  BY <1>1, <1>3, NodeParts DEF EdgesOK
<1>4. CASE \E j \in Key : x = Su(j)
  <2>1. PICK j \in Key : x = Su(j)
    BY <1>4
  <2>2. F \cap Node \subseteq {St(j)}
    BY <2>1, NodeParts DEF EdgesOK
  <2>3. St(j) # Co(k) /\ St(j) # Su(k)
    BY DEF St, Su, Co
  <2> QED
    BY <1>1, <2>2, <2>3
<1>5. CASE \E j \in Key : x = Co(j)
  <2>1. PICK j \in Key : x = Co(j)
    BY <1>5
  <2>2. F = {Su(j)}
    BY <2>1, NodeParts DEF EdgesOK
  <2>3. Su(j) # Co(k) /\ (Su(j) = Su(k) => j = k)
    BY DEF Su, Co
  <2> QED
    BY <2>1, <2>2, <2>3
<1> QED
  BY <1>2, <1>3, <1>4, <1>5, NodeForms

\* The nodes chosen for a rebuild are invalid, with the invalid nodes they rest on.
Chosen(d, N) ==
  /\ N \subseteq Invalid(d)
  /\ \A k \in Key : /\ Su(k) \in N /\ St(k) \in Invalid(d) => St(k) \in N
                    /\ Co(k) \in N /\ Su(k) \in Invalid(d) => Su(k) \in N

LEMMA NeededIsChosen ==
  ASSUME NEW d, Shape(d), NEW targets
  PROVE  Chosen(d, Needed(d, targets))
<1>1. PICK top : top = targets \cap Invalid(d)
  OBVIOUS
<1>2. PICK next : next = top \cup Below(d, top)
  OBVIOUS
<1>3. PICK N : N = next \cup Below(d, next)
  OBVIOUS
<1>4. Needed(d, targets) = N
  BY <1>1, <1>2, <1>3 DEF Needed
<1>5. /\ top \subseteq Invalid(d) /\ next \subseteq Invalid(d) /\ N \subseteq Invalid(d)
      /\ Invalid(d) \subseteq Node
  BY <1>1, <1>2, <1>3 DEF Below, Invalid
<1>6. \A n \in Invalid(d) : EdgesOK(n, d[n].from)
  BY DEF Shape, NodeOK, Invalid
<1>7. ASSUME NEW k \in Key, Co(k) \in N
      PROVE  Co(k) \in top
  <2>1. \A x \in next : Co(k) \notin d[x].from
    BY <1>5, <1>6, EdgeTo
  <2>2. Co(k) \notin Below(d, next) /\ Co(k) \notin Below(d, top)
    BY <1>2, <2>1 DEF Below
  <2> QED
    BY <1>2, <1>3, <1>7, <2>2
<1>8. ASSUME NEW k \in Key, Co(k) \in N, Su(k) \in Invalid(d)
      PROVE  Su(k) \in next
  <2>1. Co(k) \in top /\ Co(k) \in Invalid(d)
    BY <1>5, <1>7, <1>8
  <2>2. d[Co(k)].from = {Su(k)}
    BY <1>6, <2>1, NodeParts DEF EdgesOK
  <2> QED
    BY <1>2, <1>8, <2>1, <2>2 DEF Below
<1>9. ASSUME NEW k \in Key, Su(k) \in N, St(k) \in Invalid(d)
      PROVE  St(k) \in N
  <2>1. Su(k) \in Invalid(d) /\ St(k) \in d[Su(k)].from
    BY <1>5, <1>6, <1>9, NodeParts DEF EdgesOK
  <2>2. Su(k) \in next
    <3>1. CASE Su(k) \in Below(d, next)
      <4>1. PICK x \in next : Su(k) \in d[x].from
        BY <3>1 DEF Below
      <4>2. x = Co(k)
        BY <1>5, <1>6, <4>1, EdgeTo
      <4>3. Co(k) \in N
        BY <1>3, <4>1, <4>2
      <4> QED
        BY <1>8, <2>1, <4>3
    <3> QED
      BY <1>3, <1>9, <3>1
  <2> QED
    BY <1>3, <1>9, <2>1, <2>2 DEF Below
<1> QED
  BY <1>2, <1>3, <1>4, <1>5, <1>8, <1>9 DEF Chosen

Settled(d) == \A n \in Node : d[n].status # "rebuilding"

\* One key under a rebuild: every node of it that is trusted then says what a
\* clean build says, and the chain stays a chain.
LEMMA KeyRebuilt ==
  ASSUME NEW d, NEW f, NEW k \in Key, NEW N, NEW e,
         ShapeOf(d, k), RightOf(d, f, k), Settled(d), Chosen(d, N), InOrderOK(e, d, f, N)
  PROVE  /\ ShapeOf(e, k)
         /\ LET c == Clean(f)
                held == OfKey(f, k) # {}
            IN  /\ Says(e[St(k)], c[St(k)], held) /\ Says(e[Su(k)], c[Su(k)], held)
                /\ Says(e[Co(k)], c[Co(k)], held)
                /\ held => Exists(e, St(k)) /\ Exists(e, Su(k)) /\ Exists(e, Co(k))
                /\ ~held /\ Whole(e, k) => St(k) \in N \/ Su(k) \in N \/ Co(k) \in N
<1> DEFINE held == OfKey(f, k) # {}
<1>1. PICK x, y, z : x = St(k) /\ y = Su(k) /\ z = Co(k)
  OBVIOUS
<1>2. PICK c : c = Clean(f)
  OBVIOUS
<1>3. x \in Node /\ y \in Node /\ z \in Node
  BY <1>1, NodeForms
<1>4. /\ \A n \in {x, y, z} : NodeOK(n, d[n]) /\ d[n].status \in {"none", "fresh", "invalid"}
      /\ d[x].status = "none" <=> d[y].status = "none"
      /\ d[y].status = "none" <=> d[z].status = "none"
      /\ d[y].status = "fresh" => d[x].status = "fresh"
      /\ d[z].status = "fresh" => d[y].status = "fresh"
  BY <1>1, <1>3 DEF ShapeOf, ChainOK, Exists, Fresh, NodeOK, RowOK, Settled
<1>5. /\ Says(d[x], c[x], held) /\ Says(d[y], c[y], held) /\ Says(d[z], c[z], held)
      /\ held => d[x].status # "none" /\ d[y].status # "none" /\ d[z].status # "none"
      /\ ~held => ~Whole(d, k)
  BY <1>1, <1>2 DEF RightOf, Exists
<1>6. /\ \A n \in {x, y, z} : n \in N => d[n].status = "invalid"
      /\ y \in N /\ d[x].status = "invalid" => x \in N
      /\ z \in N /\ d[y].status = "invalid" => y \in N
  BY <1>1, <1>3 DEF Chosen, Invalid
<1>7. PICK v, w : v = e[x].value /\ w = e[y].value
  OBVIOUS
<1>8. PICK X, Y, Z : X = StateRow(f, k) /\ Y = SupportRow(f, k, v) /\ Z = ContextRow(k, w)
  OBVIOUS
<1>9. /\ e[x] = IF x \in N THEN X ELSE d[x]
      /\ e[y] = IF y \in N THEN Y ELSE d[y]
      /\ e[z] = IF z \in N THEN Z ELSE d[z]
  BY <1>1, <1>7, <1>8 DEF InOrderOK
<1>10. /\ NodeOK(x, X) /\ NodeOK(y, Y) /\ NodeOK(z, Z)
       /\ X.status = "fresh" /\ Y.status = "fresh" /\ Z.status = "fresh"
  BY <1>1, <1>8, RowsOK
<1>11. /\ ~held => /\ c[x].value = None /\ c[y].value = None /\ c[z].value = None
                   /\ X.value = None
       /\ held => /\ c[x] = X /\ c[y] = SupportRow(f, k, c[x].value)
                  /\ c[z] = ContextRow(k, c[y].value)
  BY <1>1, <1>2, <1>8, CleanIs, NothingOK DEF StateRow
<1>12. Says(e[x], c[x], held)
  BY <1>5, <1>9, <1>11 DEF Says
<1>13. y \in N => e[x].status = "fresh" /\ v = c[x].value
  BY <1>4, <1>6, <1>7, <1>9, <1>10, <1>12 DEF Says
<1>14. Says(e[y], c[y], held)
  <2>1. CASE y \in N
    <3>1. e[y] = SupportRow(f, k, c[x].value)
      BY <1>8, <1>9, <1>13, <2>1
    <3>2. ~held => e[y].value = None
      BY <1>11, <3>1 DEF SupportRow
    <3> QED
      BY <1>11, <3>1, <3>2 DEF Says
  <2> QED
    BY <1>5, <1>9, <2>1
<1>15. z \in N => e[y].status = "fresh" /\ w = c[y].value
  BY <1>4, <1>6, <1>7, <1>9, <1>10, <1>14 DEF Says
<1>16. Says(e[z], c[z], held)
  <2>1. CASE z \in N
    <3>1. e[z] = ContextRow(k, c[y].value)
      BY <1>8, <1>9, <1>15, <2>1
    <3>2. ~held => e[z].value = None
      BY <1>11, <3>1 DEF ContextRow
    <3> QED
      BY <1>11, <3>1, <3>2 DEF Says
  <2> QED
    BY <1>5, <1>9, <2>1
<1>17. NodeOK(x, e[x]) /\ NodeOK(y, e[y]) /\ NodeOK(z, e[z])
  BY <1>4, <1>9, <1>10
<1>18. /\ e[x].status = "none" <=> d[x].status = "none"
       /\ e[y].status = "none" <=> d[y].status = "none"
       /\ e[z].status = "none" <=> d[z].status = "none"
  BY <1>6, <1>9, <1>10
<1>19. /\ e[y].status = "fresh" => e[x].status = "fresh"
       /\ e[z].status = "fresh" => e[y].status = "fresh"
  BY <1>4, <1>6, <1>9, <1>10, <1>13, <1>15
<1>20. ShapeOf(e, k)
  BY <1>1, <1>4, <1>17, <1>18, <1>19 DEF ShapeOf, ChainOK, Exists, Fresh
<1>21. ~held /\ Whole(e, k) => x \in N \/ y \in N \/ z \in N
  BY <1>1, <1>5, <1>9 DEF Whole, Fresh
<1>22. held => Exists(e, x) /\ Exists(e, y) /\ Exists(e, z)
  BY <1>5, <1>18 DEF Exists
<1> QED
  BY <1>1, <1>2, <1>12, <1>14, <1>16, <1>20, <1>21, <1>22

\* Retiring takes whole keys and subjects that the facts hold no more.
LEMMA RetiredIs ==
  ASSUME NEW d, NEW f, NEW N, NEW e, e = Retired(d, f, N)
  PROVE  /\ e = [n \in Node |-> e[n]]
         /\ \A k \in Key :
              \/ e[St(k)] = d[St(k)] /\ e[Su(k)] = d[Su(k)] /\ e[Co(k)] = d[Co(k)]
                 /\ ~(/\ OfKey(f, k) = {} /\ (St(k) \in N \/ Su(k) \in N \/ Co(k) \in N)
                      /\ Whole(d, k))
              \/ e[St(k)] = NoNode /\ e[Su(k)] = NoNode /\ e[Co(k)] = NoNode /\ OfKey(f, k) = {}
         /\ \A s \in Subject :
              e[Pr(s)] = IF Pr(s) \in N /\ About(f, s) = {} THEN NoNode ELSE d[Pr(s)]
<1>1. PICK subjects : subjects = {s \in Subject : <<"profile", s>> \in N /\ About(f, s) = {}}
  OBVIOUS
<1>2. PICK keys : keys = {k \in Key : /\ \E kind \in Chain : <<kind, k>> \in N
                                     /\ OfKey(f, k) = {}
                                     /\ \A kind \in Chain : d[<<kind, k>>].status \in {"none", "fresh"}}
  OBVIOUS
<1>3. e = [n \in Node |-> IF n[2] \in (IF n[1] = "profile" THEN subjects ELSE keys)
                          THEN NoNode ELSE d[n]]
  BY <1>1, <1>2 DEF Retired
<1>4. \A n \in Node : e[n] = IF n[2] \in (IF n[1] = "profile" THEN subjects ELSE keys)
                             THEN NoNode ELSE d[n]
  BY <1>3
<1>5. e = [n \in Node |-> e[n]]
  BY <1>3
<1>6. ASSUME NEW k \in Key
      PROVE  /\ e[St(k)] = IF k \in keys THEN NoNode ELSE d[St(k)]
             /\ e[Su(k)] = IF k \in keys THEN NoNode ELSE d[Su(k)]
             /\ e[Co(k)] = IF k \in keys THEN NoNode ELSE d[Co(k)]
  BY <1>4, NodeForms, NodeParts
<1>7. ASSUME NEW k \in Key, OfKey(f, k) = {}, St(k) \in N \/ Su(k) \in N \/ Co(k) \in N, Whole(d, k)
      PROVE  k \in keys
  BY <1>2, <1>7 DEF Chain, St, Su, Co, Whole, Fresh
<1>8. \A k \in keys : OfKey(f, k) = {}
  BY <1>2
<1>9. ASSUME NEW s \in Subject
      PROVE  e[Pr(s)] = IF Pr(s) \in N /\ About(f, s) = {} THEN NoNode ELSE d[Pr(s)]
  <2>1. s \in subjects <=> Pr(s) \in N /\ About(f, s) = {}
    BY <1>1 DEF Pr
  <2> QED
    BY <1>4, <2>1, NodeForms, NodeParts
<1> QED
  BY <1>5, <1>6, <1>7, <1>8, <1>9

\* A rebuild, of whatever targets, keeps what is trusted right.
LEMMA RebuildKeeps ==
  ASSUME NEW d, NEW f, NEW targets, Shape(d), Right(d, f), Settled(d)
  PROVE  Shape(Rebuild(d, f, targets)) /\ Right(Rebuild(d, f, targets), f)
<1>1. PICK N : N = Needed(d, targets)
  OBVIOUS
<1>2. PICK b : b = InOrder(d, f, N)
  OBVIOUS
<1>3. PICK e : e = Rebuild(d, f, targets)
  OBVIOUS
<1>4. e = Retired(b, f, N)
  BY <1>1, <1>2, <1>3 DEF Rebuild
<1>5. Chosen(d, N) /\ InOrderOK(b, d, f, N)
  BY <1>1, <1>2, NeededIsChosen, InOrderIs
<1>6. /\ \A k \in Key : ShapeOf(d, k) /\ RightOf(d, f, k)
      /\ \A s \in Subject : NodeOK(Pr(s), d[Pr(s)]) /\ RightFor(d, f, s)
  BY ShapeParts, RightParts
<1>7. e = [n \in Node |-> e[n]]
  BY <1>4, RetiredIs
<1>8. ASSUME NEW k \in Key
      PROVE  ShapeOf(e, k) /\ RightOf(e, f, k)
  <2> DEFINE held == OfKey(f, k) # {}
  <2>1. PICK c : c = Clean(f)
    OBVIOUS
  <2>2. /\ ShapeOf(b, k)
        /\ Says(b[St(k)], c[St(k)], held) /\ Says(b[Su(k)], c[Su(k)], held)
        /\ Says(b[Co(k)], c[Co(k)], held)
        /\ held => Exists(b, St(k)) /\ Exists(b, Su(k)) /\ Exists(b, Co(k))
        /\ ~held /\ Whole(b, k) => St(k) \in N \/ Su(k) \in N \/ Co(k) \in N
    BY <1>5, <1>6, <2>1, KeyRebuilt
  <2>3. CASE /\ e[St(k)] = b[St(k)] /\ e[Su(k)] = b[Su(k)] /\ e[Co(k)] = b[Co(k)]
             /\ ~(/\ OfKey(f, k) = {} /\ (St(k) \in N \/ Su(k) \in N \/ Co(k) \in N)
                  /\ Whole(b, k))
    BY <2>1, <2>2, <2>3 DEF ShapeOf, RightOf, ChainOK, Exists, Fresh, Whole
  <2>4. CASE e[St(k)] = NoNode /\ e[Su(k)] = NoNode /\ e[Co(k)] = NoNode /\ OfKey(f, k) = {}
    BY <2>4, NothingOK DEF ShapeOf, RightOf, ChainOK, Exists, Fresh, Whole, Says
  <2> QED
    BY <1>4, <2>3, <2>4, RetiredIs
<1>9. ASSUME NEW s \in Subject
      PROVE  NodeOK(Pr(s), e[Pr(s)]) /\ RightFor(e, f, s)
  <2>1. PICK p : p = Pr(s)
    OBVIOUS
  <2>2. p \in Node /\ Clean(f)[p] = IF About(f, s) = {} THEN NoNode ELSE ProfileRow(f, s)
    BY <2>1, NodeForms, CleanIs
  <2>3. /\ b[p] = IF p \in N THEN ProfileRow(f, s) ELSE d[p]
        /\ e[p] = IF p \in N /\ About(f, s) = {} THEN NoNode ELSE b[p]
    BY <1>4, <1>5, <2>1, RetiredIs DEF InOrderOK
  <2>4. CASE p \in N
    <3>1. e[p] = Clean(f)[p]
      BY <2>2, <2>3, <2>4
    <3>2. NodeOK(p, e[p]) /\ (About(f, s) = {} => e[p].status = "none")
          /\ (About(f, s) # {} => e[p].status = "fresh")
      BY <2>1, <2>2, <3>1, NothingOK, RowsOK
    <3> QED
      BY <2>1, <3>1, <3>2 DEF RightFor, Says, Exists, Fresh
  <2>5. CASE p \notin N
    BY <1>6, <2>1, <2>3, <2>5 DEF RightFor, Exists, Fresh
  <2> QED
    BY <2>4, <2>5
<1> QED
  BY <1>3, <1>7, <1>8, <1>9, ShapeParts, RightParts

-----------------------------------------------------------------------------
(* Invalidation *)

Dim(d, X) == [n \in Node |-> IF n \in X THEN [d[n] EXCEPT !.status = "invalid"] ELSE d[n]]

\* With a node, what rests on it.
Closed(d, X) ==
  /\ \A n \in X : n \in Node /\ Exists(d, n)
  /\ \A k \in Key : /\ St(k) \in X => Su(k) \in X
                    /\ Su(k) \in X => Co(k) \in X

\* e has node n as d has it, or does not trust it.
Lesser(e, d, n) == (Fresh(e, n) => e[n] = d[n]) /\ (Exists(e, n) <=> Exists(d, n))

LEMMA DimKeeps ==
  ASSUME NEW d, Shape(d), NEW X, Closed(d, X), NEW e, e = Dim(d, X)
  PROVE  /\ Shape(e)
         /\ \A n \in Node : Lesser(e, d, n)
         /\ \A n \in X : ~Fresh(e, n)
<1>1. e = [n \in Node |-> e[n]]
  BY DEF Dim
<1>2. \A n \in Node : e[n] = IF n \in X THEN [d[n] EXCEPT !.status = "invalid"] ELSE d[n]
  BY DEF Dim
<1>3. ASSUME NEW n \in X
      PROVE  NodeOK(n, e[n]) /\ e[n].status = "invalid" /\ d[n].status # "none" /\ n \in Node
  <2>1. n \in Node /\ NodeOK(n, d[n]) /\ d[n].status # "none"
    BY DEF Shape, Closed, Exists
  <2>2. PICK w, F : w = d[n].value /\ F = d[n].from
    OBVIOUS
  <2>3. d[n] = [status |-> d[n].status, value |-> w, from |-> F]
    BY <2>1, <2>2 DEF NodeOK, RowOK
  <2>4. e[n] = [status |-> "invalid", value |-> w, from |-> F]
    BY <1>2, <2>1, <2>3
  <2> QED
    BY <2>1, <2>2, <2>4 DEF NodeOK, RowOK
<1>4. \A n \in Node : n \notin X => e[n] = d[n]
  BY <1>2
<1>5. \A n \in Node : NodeOK(n, e[n]) /\ (e[n].status = "none" <=> d[n].status = "none")
  BY <1>3, <1>4 DEF Shape
<1>6. ASSUME NEW k \in Key PROVE ChainOK(e, k)
  <2>1. ChainOK(d, k) /\ St(k) \in Node /\ Su(k) \in Node /\ Co(k) \in Node
    BY NodeForms DEF Shape
  <2>2. (St(k) \in X => Su(k) \in X) /\ (Su(k) \in X => Co(k) \in X)
    BY DEF Closed
  <2> QED
    BY <1>3, <1>4, <1>5, <2>1, <2>2 DEF ChainOK, Exists, Fresh
<1> QED
  BY <1>1, <1>3, <1>4, <1>5, <1>6 DEF Shape, Lesser, Exists, Fresh

Seen(d, R) == (R \cap Node) \cup Downstream(d, R)

\* What follows from nodes, or from evidence, is closed: two steps reach it all.
LEMMA DownstreamCloses ==
  ASSUME NEW d, Shape(d), NEW R,
         R \subseteq EvidenceNode \/ \A n \in R : n \in Node /\ Exists(d, n)
  PROVE  /\ Closed(d, Seen(d, R))
         /\ \A k \in Key : St(k) \in R =>
              St(k) \in Seen(d, R) /\ Su(k) \in Seen(d, R) /\ Co(k) \in Seen(d, R)
<1>1. PICK D, E : D = Dependents(d, R) /\ E = Dependents(d, D)
  OBVIOUS
<1>2. PICK X : X = (R \cap Node) \cup D \cup E
  OBVIOUS
<1>3. X = Seen(d, R)
  BY <1>1, <1>2 DEF Seen, Downstream
<1>4. /\ \A n : n \in D <=> n \in Node /\ d[n].from \cap R # {}
      /\ \A n : n \in E <=> n \in Node /\ d[n].from \cap D # {}
  BY <1>1 DEF Dependents
<1>5. \A n \in Node : Exists(d, n) \/ d[n].from = {}
  BY NothingOK DEF Shape, NodeOK, RowOK, Exists
<1>6. \A n \in Node : Exists(d, n) => EdgesOK(n, d[n].from)
  BY DEF Shape, NodeOK, Exists
<1>7. \A n \in R : n \in EvidenceNode \/ n \in Node
  OBVIOUS
<1>8. \A n \in X : n \in Node /\ Exists(d, n)
  <2>1. \A n \in EvidenceNode : n \notin Node
    BY NodeKinds DEF EvidenceNode
  <2> QED
    BY <1>2, <1>4, <1>5, <2>1
<1>9. ASSUME NEW k \in Key
      PROVE  /\ St(k) \in X => St(k) \in R /\ Su(k) \in X /\ Co(k) \in X
             /\ Su(k) \in X => Co(k) \in X
  <2>1. PICK x, y, z : x = St(k) /\ y = Su(k) /\ z = Co(k)
    OBVIOUS
  <2>2. /\ x \in Node /\ y \in Node /\ z \in Node
        /\ Exists(d, x) <=> Exists(d, y)
        /\ Exists(d, y) <=> Exists(d, z)
    BY <2>1, NodeForms DEF Shape, ChainOK
  <2>3. /\ Exists(d, x) => d[x].from \cap Node = {} /\ d[x].from \cap EvidenceNode = {}
        /\ Exists(d, y) => x \in d[y].from /\ d[y].from \cap Node \subseteq {x}
        /\ Exists(d, z) => d[z].from = {y}
    BY <1>6, <2>1, <2>2, NodeParts DEF EdgesOK
  <2>4. x \notin D /\ x \notin E
    BY <1>4, <1>5, <1>7, <2>2, <2>3
  <2>5. y \notin E
    BY <1>4, <1>5, <2>2, <2>3, <2>4
  <2>6. x \in X => x \in R /\ y \in D
    BY <1>2, <1>4, <1>8, <2>2, <2>3, <2>4
  <2>7. y \in D => z \in E
    BY <1>4, <1>5, <2>2, <2>3
  <2>8. y \in X => z \in X
    BY <1>2, <1>4, <1>8, <2>2, <2>3, <2>5, <2>7
  <2> QED
    BY <1>2, <2>1, <2>6, <2>8
<1>10. \A k \in Key : St(k) \in R => St(k) \in X
  BY <1>2, NodeForms
<1> QED
  BY <1>3, <1>8, <1>9, <1>10 DEF Closed

LEMMA InvalidateNodesKeeps ==
  ASSUME NEW d, Shape(d), NEW nodes \in SUBSET Node, NEW e, e = InvalidateNodes(d, nodes)
  PROVE  /\ Shape(e)
         /\ \A n \in Node : Lesser(e, d, n)
         /\ \A n \in nodes : ~Fresh(e, n)
         /\ \A k \in Key : St(k) \in nodes => ~Fresh(e, St(k)) /\ ~Fresh(e, Su(k)) /\ ~Fresh(e, Co(k))
<1>1. PICK R : R = {n \in nodes : Exists(d, n)}
  OBVIOUS
<1>2. PICK X : X = Seen(d, R)
  OBVIOUS
<1>3. e = Dim(d, X)
  <2>1. R \cap Node = R
    BY <1>1
  <2> QED
    BY <1>1, <1>2, <2>1 DEF InvalidateNodes, Dim, Seen
<1>4. Closed(d, X) /\ \A k \in Key : St(k) \in R => St(k) \in X /\ Su(k) \in X /\ Co(k) \in X
  BY <1>1, <1>2, DownstreamCloses
<1>5. /\ Shape(e) /\ \A n \in Node : Lesser(e, d, n)
      /\ \A n \in X : ~Fresh(e, n)
  BY <1>3, <1>4, DimKeeps
<1>6. R \subseteq X
  BY <1>1, <1>2 DEF Seen
<1>7. \A n \in nodes : n \notin R => ~Exists(d, n)
  BY <1>1
<1>8. \A n \in nodes : ~Fresh(e, n)
  BY <1>5, <1>6, <1>7 DEF Lesser, Exists, Fresh
<1>9. ASSUME NEW k \in Key, St(k) \in nodes
      PROVE  ~Fresh(e, St(k)) /\ ~Fresh(e, Su(k)) /\ ~Fresh(e, Co(k))
  BY <1>5, <1>8, <1>9 DEF Shape, ChainOK
<1> QED
  BY <1>5, <1>8, <1>9

LEMMA InvalidateFromKeeps ==
  ASSUME NEW d, Shape(d), NEW x \in Evidence, NEW e, e = InvalidateFrom(d, {<<"evidence", x>>})
  PROVE  /\ Shape(e)
         /\ \A n \in Node : Lesser(e, d, n)
         /\ \A n \in Node : Fresh(e, n) => <<"evidence", x>> \notin d[n].from
<1>1. PICK R : R = {<<"evidence", x>>}
  OBVIOUS
<1>2. PICK X : X = Seen(d, R)
  OBVIOUS
<1>3. R \subseteq EvidenceNode
  BY <1>1 DEF EvidenceNode
<1>4. R \cap Node = {}
  BY <1>3, NodeKinds DEF EvidenceNode
<1>5. e = Dim(d, X)
  BY <1>1, <1>2, <1>4 DEF InvalidateFrom, Dim, Seen
<1>6. Closed(d, X)
  BY <1>2, <1>3, DownstreamCloses
<1>7. /\ Shape(e) /\ \A n \in Node : Lesser(e, d, n)
      /\ \A n \in X : ~Fresh(e, n)
  BY <1>5, <1>6, DimKeeps
<1>8. \A n \in Node : <<"evidence", x>> \in d[n].from => n \in X
  BY <1>1, <1>2 DEF Seen, Downstream, Dependents
<1> QED
  BY <1>7, <1>8

\* What a node is first registered with are edges it may have.
LEMMA FirstEdgesOK ==
  ASSUME NEW f
  PROVE  /\ \A k \in Key : /\ EdgesOK(St(k), FirstEdges(f, St(k)))
                           /\ EdgesOK(Su(k), FirstEdges(f, Su(k)))
                           /\ EdgesOK(Co(k), FirstEdges(f, Co(k)))
         /\ \A s \in Subject : EdgesOK(Pr(s), FirstEdges(f, Pr(s)))
<1>1. ASSUME NEW k \in Key
      PROVE  EdgesOK(St(k), FirstEdges(f, St(k)))
  <2>1. FirstEdges(f, St(k)) = StateRow(f, k).from
    <3>1. PICK n : n = St(k)
      OBVIOUS
    <3>2. PICK d : d = [m \in Node |-> NoNode]
      OBVIOUS
    <3>3. FirstEdges(f, n) = Rebuilt(d, f, n).from
      BY <3>1, <3>2, NodeParts DEF FirstEdges
    <3> QED
      BY <3>1, <3>3, RebuiltIs
  <2> QED
    BY <2>1, RowsOK DEF NodeOK
<1>2. ASSUME NEW k \in Key
      PROVE  EdgesOK(Su(k), FirstEdges(f, Su(k))) /\ EdgesOK(Co(k), FirstEdges(f, Co(k)))
  <2>1. FirstEdges(f, Su(k)) = {St(k)} /\ FirstEdges(f, Co(k)) = {Su(k)}
    BY NodeParts DEF FirstEdges, St, Su
  <2> QED
    BY <2>1, NodeParts DEF EdgesOK
<1>3. ASSUME NEW s \in Subject
      PROVE  EdgesOK(Pr(s), FirstEdges(f, Pr(s)))
  <2>1. FirstEdges(f, Pr(s)) = ProfileRow(f, s).from
    <3>1. PICK n : n = Pr(s)
      OBVIOUS
    <3>2. PICK d : d = [m \in Node |-> NoNode]
      OBVIOUS
    <3>3. FirstEdges(f, n) = Rebuilt(d, f, n).from
      BY <3>1, <3>2, NodeParts DEF FirstEdges
    <3> QED
      BY <3>1, <3>3, RebuiltIs
  <2> QED
    BY <2>1, RowsOK DEF NodeOK
<1> QED
  BY <1>1, <1>2, <1>3

LEMMA EnsuredKeeps ==
  ASSUME NEW d, Shape(d), NEW f, NEW keys, NEW subjects, NEW e, e = Ensured(d, f, keys, subjects)
  PROVE  /\ Shape(e)
         /\ \A k \in Key : IF k \in keys
              THEN Exists(e, St(k)) /\ Exists(e, Su(k)) /\ Exists(e, Co(k))
              ELSE e[St(k)] = d[St(k)] /\ e[Su(k)] = d[Su(k)] /\ e[Co(k)] = d[Co(k)]
         /\ \A s \in Subject : IF s \in subjects THEN Exists(e, Pr(s)) ELSE e[Pr(s)] = d[Pr(s)]
<1> DEFINE First(n) == [status |-> "fresh", value |-> None, from |-> FirstEdges(f, n)]
<1>1. e = [n \in Node |-> e[n]]
  BY DEF Ensured
<1>2. \A n \in Node : e[n] = IF ~Exists(d, n) /\ n[2] \in (IF n[1] = "profile" THEN subjects ELSE keys)
                             THEN First(n) ELSE d[n]
  <2>1. \A n : [NoNode EXCEPT !.status = "fresh", !.from = FirstEdges(f, n)] = First(n)
    <3>1. \A F : [NoNode EXCEPT !.status = "fresh", !.from = F]
                   = [status |-> "fresh", value |-> None, from |-> F]
      <4>1. SUFFICES ASSUME NEW F
                     PROVE  [NoNode EXCEPT !.status = "fresh", !.from = F]
                              = [status |-> "fresh", value |-> None, from |-> F]
        OBVIOUS
      <4>2. PICK r : r = [NoNode EXCEPT !.status = "fresh"]
        OBVIOUS
      <4>3. r = [status |-> "fresh", value |-> None, from |-> {}]
        BY <4>2 DEF NoNode
      <4>4. [NoNode EXCEPT !.status = "fresh", !.from = F] = [r EXCEPT !.from = F]
        BY <4>2
      <4> QED
        BY <4>3, <4>4
    <3> QED
      BY <3>1
  <2> HIDE DEF First
  <2> QED
    BY <2>1 DEF Ensured
<1>3. ASSUME NEW n, EdgesOK(n, FirstEdges(f, n))
      PROVE  NodeOK(n, First(n)) /\ First(n).status = "fresh"
  BY <1>3 DEF NodeOK, RowOK
<1> HIDE DEF First
<1>4. ASSUME NEW k \in Key
      PROVE  /\ ShapeOf(e, k)
             /\ IF k \in keys
                THEN Exists(e, St(k)) /\ Exists(e, Su(k)) /\ Exists(e, Co(k))
                ELSE e[St(k)] = d[St(k)] /\ e[Su(k)] = d[Su(k)] /\ e[Co(k)] = d[Co(k)]
  <2>1. PICK x, y, z : x = St(k) /\ y = Su(k) /\ z = Co(k)
    OBVIOUS
  <2>2. /\ x \in Node /\ y \in Node /\ z \in Node
        /\ x[1] # "profile" /\ y[1] # "profile" /\ z[1] # "profile"
        /\ x[2] = k /\ y[2] = k /\ z[2] = k
    BY <2>1, NodeForms, NodeParts
  <2>3. ShapeOf(d, k)
    BY ShapeParts
  <2>4. /\ NodeOK(x, First(x)) /\ First(x).status = "fresh"
        /\ NodeOK(y, First(y)) /\ First(y).status = "fresh"
        /\ NodeOK(z, First(z)) /\ First(z).status = "fresh"
    BY <1>3, <2>1, FirstEdgesOK
  <2>5. CASE k \in keys /\ ~Exists(d, x)
    <3>1. e[x] = First(x) /\ e[y] = First(y) /\ e[z] = First(z)
      BY <1>2, <2>1, <2>2, <2>3, <2>5 DEF ShapeOf, ChainOK
    <3> QED
      BY <2>1, <2>4, <2>5, <3>1 DEF ShapeOf, ChainOK, Exists, Fresh
  <2>6. CASE k \notin keys \/ Exists(d, x)
    <3>1. e[x] = d[x] /\ e[y] = d[y] /\ e[z] = d[z]
      BY <1>2, <2>1, <2>2, <2>3, <2>6 DEF ShapeOf, ChainOK
    <3> QED
      BY <2>1, <2>3, <2>6, <3>1 DEF ShapeOf, ChainOK, Exists, Fresh
  <2> QED
    BY <2>5, <2>6
<1>5. ASSUME NEW s \in Subject
      PROVE  /\ NodeOK(Pr(s), e[Pr(s)])
             /\ IF s \in subjects THEN Exists(e, Pr(s)) ELSE e[Pr(s)] = d[Pr(s)]
  <2>1. PICK p : p = Pr(s)
    OBVIOUS
  <2>2. p \in Node /\ p[1] = "profile" /\ p[2] = s /\ NodeOK(p, d[p])
    BY <2>1, NodeForms, NodeParts DEF Shape
  <2>3. NodeOK(p, First(p)) /\ First(p).status = "fresh"
    BY <1>3, <2>1, FirstEdgesOK
  <2>4. e[p] = IF ~Exists(d, p) /\ s \in subjects THEN First(p) ELSE d[p]
    BY <1>2, <2>2
  <2> QED
    BY <2>1, <2>2, <2>3, <2>4 DEF Exists
<1> QED
  BY <1>1, <1>4, <1>5, ShapeParts

\* The nodes of a key, registered, and trusted no more.
Doubted(e, k) ==
  /\ Exists(e, St(k)) /\ Exists(e, Su(k)) /\ Exists(e, Co(k))
  /\ ~Fresh(e, St(k)) /\ ~Fresh(e, Su(k)) /\ ~Fresh(e, Co(k))

LesserOf(e, d, k) == Lesser(e, d, St(k)) /\ Lesser(e, d, Su(k)) /\ Lesser(e, d, Co(k))

\* Those keys and profiles are doubted, and no other node is better than it was.
DoubtedOnly(e, d, keys, subjects) ==
  /\ \A k \in Key : IF k \in keys THEN Doubted(e, k) ELSE LesserOf(e, d, k)
  /\ \A s \in Subject : IF s \in subjects THEN Exists(e, Pr(s)) /\ ~Fresh(e, Pr(s))
                                          ELSE Lesser(e, d, Pr(s))

LEMMA InvalidateKeysKeeps ==
  ASSUME NEW d, Shape(d), NEW f, NEW keys \in SUBSET Key, NEW subjects \in SUBSET Subject,
         NEW e, e = InvalidateKeys(d, f, keys, subjects)
  PROVE  Shape(e) /\ DoubtedOnly(e, d, keys, subjects)
<1>1. PICK b : b = Ensured(d, f, keys, subjects)
  OBVIOUS
<1>2. PICK nodes : nodes = ({"state"} \X keys) \cup ({"profile"} \X subjects)
  OBVIOUS
<1>3. /\ nodes \in SUBSET Node
      /\ \A k \in keys : St(k) \in nodes
      /\ \A s \in subjects : Pr(s) \in nodes
  BY <1>2 DEF Node, Chain, St, Pr
<1>4. e = InvalidateNodes(b, nodes)
  BY <1>1, <1>2 DEF InvalidateKeys
<1>5. Shape(b)
  BY <1>1, EnsuredKeeps
<1>6. /\ Shape(e)
      /\ \A n \in Node : Lesser(e, b, n)
      /\ \A n \in nodes : ~Fresh(e, n)
      /\ \A k \in Key : St(k) \in nodes => ~Fresh(e, St(k)) /\ ~Fresh(e, Su(k)) /\ ~Fresh(e, Co(k))
  BY <1>3, <1>4, <1>5, InvalidateNodesKeeps
<1>7. ASSUME NEW k \in Key
      PROVE  IF k \in keys THEN Doubted(e, k) ELSE LesserOf(e, d, k)
  <2>1. St(k) \in Node /\ Su(k) \in Node /\ Co(k) \in Node
    BY NodeForms
  <2>2. IF k \in keys
        THEN Exists(b, St(k)) /\ Exists(b, Su(k)) /\ Exists(b, Co(k))
        ELSE b[St(k)] = d[St(k)] /\ b[Su(k)] = d[Su(k)] /\ b[Co(k)] = d[Co(k)]
    BY <1>1, EnsuredKeeps
  <2> QED
    BY <1>3, <1>6, <2>1, <2>2 DEF Doubted, LesserOf, Lesser, Exists
<1>8. ASSUME NEW s \in Subject
      PROVE  IF s \in subjects THEN Exists(e, Pr(s)) /\ ~Fresh(e, Pr(s))
                               ELSE Lesser(e, d, Pr(s))
  <2>1. Pr(s) \in Node
    BY NodeForms
  <2>2. IF s \in subjects THEN Exists(b, Pr(s)) ELSE b[Pr(s)] = d[Pr(s)]
    BY <1>1, EnsuredKeeps
  <2> QED
    BY <1>3, <1>6, <2>1, <2>2 DEF Lesser, Exists
<1> QED
  BY <1>6, <1>7, <1>8 DEF DoubtedOnly

-----------------------------------------------------------------------------
(* From facts to other facts *)

\* A clean build of g says of key k, or of subject s, what one of f says.
SameKey(f, g, k) ==
  /\ Clean(f)[St(k)] = Clean(g)[St(k)] /\ Clean(f)[Su(k)] = Clean(g)[Su(k)]
  /\ Clean(f)[Co(k)] = Clean(g)[Co(k)]
  /\ OfKey(f, k) = {} <=> OfKey(g, k) = {}

SameSubject(f, g, s) ==
  /\ Clean(f)[Pr(s)] = Clean(g)[Pr(s)]
  /\ About(f, s) = {} <=> About(g, s) = {}

\* Doubt whatever changed, and what is trusted stays right.
LEMMA DoubtKeeps ==
  ASSUME NEW d, NEW e, NEW f, NEW g, Right(d, f),
         \A k \in Key : Doubted(e, k) \/ (LesserOf(e, d, k) /\ SameKey(f, g, k)),
         \A s \in Subject : \/ Exists(e, Pr(s)) /\ ~Fresh(e, Pr(s))
                            \/ Lesser(e, d, Pr(s)) /\ SameSubject(f, g, s)
  PROVE  Right(e, g)
<1>1. ASSUME NEW k \in Key PROVE RightOf(e, g, k)
  <2>1. RightOf(d, f, k)
    BY RightParts
  <2>2. CASE Doubted(e, k)
    BY <2>2 DEF Doubted, RightOf, Says, Whole, Exists, Fresh
  <2>3. CASE LesserOf(e, d, k) /\ SameKey(f, g, k)
    BY <2>1, <2>3 DEF LesserOf, Lesser, SameKey, RightOf, Says, Whole, Exists, Fresh
  <2> QED
    BY <2>2, <2>3
<1>2. ASSUME NEW s \in Subject PROVE RightFor(e, g, s)
  <2>1. RightFor(d, f, s)
    BY RightParts
  <2>2. CASE Exists(e, Pr(s)) /\ ~Fresh(e, Pr(s))
    BY <2>2 DEF RightFor, Says, Exists, Fresh
  <2>3. CASE Lesser(e, d, Pr(s)) /\ SameSubject(f, g, s)
    BY <2>1, <2>3 DEF Lesser, SameSubject, RightFor, Says, Exists, Fresh
  <2> QED
    BY <2>2, <2>3
<1> QED
  BY <1>1, <1>2, RightParts

LEMMA SameKeyIf ==
  ASSUME NEW f, NEW g, NEW k \in Key, OfKey(f, k) = OfKey(g, k), Alike(f, g, OfKey(f, k)),
         f.evidence = g.evidence
  PROVE  SameKey(f, g, k)
<1>1. CASE OfKey(f, k) = {}
  <2>1. OfKey(g, k) = {}
    BY <1>1
  <2>2. /\ Clean(f)[St(k)] = NoNode /\ Clean(f)[Su(k)] = NoNode /\ Clean(f)[Co(k)] = NoNode
        /\ Clean(g)[St(k)] = NoNode /\ Clean(g)[Su(k)] = NoNode /\ Clean(g)[Co(k)] = NoNode
    BY <1>1, <2>1, CleanIs
  <2> QED
    BY <1>1, <2>1, <2>2 DEF SameKey
<1>2. CASE OfKey(f, k) # {}
  <2>1. PICK c, b : c = Clean(f) /\ b = Clean(g)
    OBVIOUS
  <2>2. /\ c[St(k)] = StateRow(f, k) /\ b[St(k)] = StateRow(g, k)
        /\ c[Su(k)] = SupportRow(f, k, c[St(k)].value) /\ b[Su(k)] = SupportRow(g, k, b[St(k)].value)
        /\ c[Co(k)] = ContextRow(k, c[Su(k)].value) /\ b[Co(k)] = ContextRow(k, b[Su(k)].value)
    BY <1>2, <2>1, CleanIs
  <2>3. c[St(k)] = b[St(k)]
    BY <2>2, StateDepends
  <2>4. PICK v : v = c[St(k)].value
    OBVIOUS
  <2>5. v # None => \A a \in v.active : f.assertion[a] = g.assertion[a]
    BY <2>2, <2>4, ActiveInKey DEF Alike
  <2>6. SupportRow(f, k, v) = SupportRow(g, k, v)
    BY <2>5, SupportDepends
  <2> QED
    BY <2>1, <2>2, <2>3, <2>4, <2>6 DEF SameKey
<1> QED
  BY <1>1, <1>2

LEMMA SameSubjectIf ==
  ASSUME NEW f, NEW g, NEW s \in Subject, About(f, s) = About(g, s),
         \A a \in About(f, s) : /\ f.assertion[a].predicate = g.assertion[a].predicate
                                /\ f.assertion[a].evidence = g.assertion[a].evidence,
         f.evidence = g.evidence
  PROVE  SameSubject(f, g, s)
<1>1. ProfileRow(f, s) = ProfileRow(g, s)
  BY ProfileDepends
<1> QED
  BY <1>1, CleanIs DEF SameSubject

-----------------------------------------------------------------------------
(* An operation *)

\* The row the operation is given as the old one is the one the facts hold.
Asked(f, o) == IsOp(o) /\ (OnAssertion(o) => o.old = f.assertion[o.id])

LEMMA RealKeys ==
  /\ \A r \in Row : r # NoRow /\ KeyOf(r) \in Key /\ r.subject \in Subject
  /\ KeyOf(NoRow) \notin Key /\ NoRow.subject \notin Subject
<1>1. NoRow.subject = None /\ KeyOf(NoRow)[1] = None
  BY DEF NoRow, KeyOf
<1>2. \A k \in Key : k[1] \in Subject
  BY DEF Key
<1>3. \A r \in Row : KeyOf(r) \in Key /\ r.subject \in Subject
  BY DEF Row, KeyOf, Key
<1> QED
  BY <1>1, <1>2, <1>3, NoneAssumption

\* New evidence: what rested on it is doubted, and nothing else changes.
LEMMA EvidenceKeeps ==
  ASSUME NEW f, NEW g, NEW x \in Evidence, NEW d, Shape(d), Right(d, f),
         g.assertion = f.assertion, g.relations = f.relations,
         \A y \in Evidence : y # x => g.evidence[y] = f.evidence[y],
         f \in Facts,
         NEW e, e = InvalidateFrom(d, {<<"evidence", x>>})
  PROVE  Shape(e) /\ Right(e, g)
<1>1. /\ Shape(e) /\ \A n \in Node : Lesser(e, d, n)
      /\ \A n \in Node : Fresh(e, n) => <<"evidence", x>> \notin d[n].from
  BY InvalidateFromKeeps
<1>2. /\ \A k : OfKey(f, k) = OfKey(g, k)
      /\ \A s : About(f, s) = About(g, s)
      /\ \A S : Alike(f, g, S)
  BY DEF OfKey, About, Alike
<1>3. \A a \in Assertion : f.assertion[a].evidence \subseteq Evidence
  BY DEF Facts, Row, NoRow
<1>4. ASSUME NEW S \in SUBSET Assertion, <<"evidence", x>> \notin Nodes(f, S)
      PROVE  \A y \in EvidenceOf(f, S) : f.evidence[y] = g.evidence[y]
  <2>1. EvidenceOf(f, S) \subseteq Evidence
    BY <1>3 DEF EvidenceOf
  <2>2. x \notin EvidenceOf(f, S)
    BY <1>4 DEF Nodes
  <2> QED
    BY <2>1, <2>2
<1>5. ASSUME NEW k \in Key PROVE RightOf(e, g, k)
  <2>1. PICK c, b : c = Clean(f) /\ b = Clean(g)
    OBVIOUS
  <2>2. PICK x1, y1, z1 : x1 = St(k) /\ y1 = Su(k) /\ z1 = Co(k)
    OBVIOUS
  <2>3. Lesser(e, d, x1) /\ Lesser(e, d, y1) /\ Lesser(e, d, z1) /\ RightOf(d, f, k)
    BY <1>1, <2>2, NodeForms, RightParts
  <2>4. CASE OfKey(f, k) = {}
    <3>1. SameKey(f, g, k)
      <4>1. OfKey(g, k) = {}
        BY <1>2, <2>4
      <4>2. /\ c[x1] = NoNode /\ c[y1] = NoNode /\ c[z1] = NoNode
            /\ b[x1] = NoNode /\ b[y1] = NoNode /\ b[z1] = NoNode
        BY <2>1, <2>2, <2>4, <4>1, CleanIs
      <4> QED
        BY <2>1, <2>2, <2>4, <4>1, <4>2 DEF SameKey
    <3> QED
      BY <2>2, <2>3, <3>1 DEF Lesser, SameKey, RightOf, Says, Whole, Exists, Fresh
  <2>5. CASE OfKey(f, k) # {}
    <3>1. OfKey(g, k) # {}
      BY <1>2, <2>5
    <3>2. PICK v : v = c[x1].value
      OBVIOUS
    <3>3. /\ c[x1] = StateRow(f, k) /\ b[x1] = StateRow(g, k)
          /\ c[y1] = SupportRow(f, k, v) /\ b[y1] = SupportRow(g, k, b[x1].value)
          /\ c[z1] = ContextRow(k, c[y1].value) /\ b[z1] = ContextRow(k, b[y1].value)
      BY <2>1, <2>2, <2>5, <3>1, <3>2, CleanIs
    <3>4. c[x1] = b[x1]
      BY <1>2, <3>3, StateDepends
    <3>5. /\ Fresh(d, y1) => d[y1].from = c[y1].from /\ d[y1].value = c[y1].value
          /\ Fresh(d, x1) => d[x1].from = c[x1].from /\ d[x1].value = c[x1].value
          /\ Fresh(d, z1) => d[z1].from = c[z1].from /\ d[z1].value = c[z1].value
          /\ Exists(d, x1) /\ Exists(d, y1) /\ Exists(d, z1)
      BY <2>1, <2>2, <2>3, <2>5 DEF RightOf, Says, Fresh
    <3>6. Fresh(e, y1) => c[y1] = b[y1]
      <4> SUFFICES ASSUME Fresh(e, y1) PROVE SupportRow(f, k, v) = SupportRow(g, k, v)
        BY <3>2, <3>3, <3>4
      <4>1. y1 \in Node /\ <<"evidence", x>> \notin d[y1].from /\ Fresh(d, y1)
        BY <1>1, <2>2, <2>3, NodeForms DEF Lesser, Fresh
      <4>2. <<"evidence", x>> \notin SupportRow(f, k, v).from
        BY <3>3, <3>5, <4>1
      <4>3. v # None => v.active \subseteq Assertion
        BY <3>2, <3>3, ActiveInKey DEF OfKey
      <4>4. v # None => \A a \in v.active : f.assertion[a] = g.assertion[a]
        OBVIOUS
      <4>5. v # None => <<"evidence", x>> \notin Nodes(f, Kept(f, v)) /\ Kept(f, v) \in SUBSET Assertion
        BY <4>2, <4>3 DEF SupportRow, Kept
      <4>6. v # None => \A y \in EvidenceOf(f, Kept(f, v)) : f.evidence[y] = g.evidence[y]
        BY <1>4, <4>5
      <4> QED
        BY <4>4, <4>6, SupportDepends
    <3>7. Fresh(e, z1) => Fresh(e, y1)
      BY <1>1, <2>2 DEF Shape, ChainOK
    <3>8. Fresh(e, z1) => c[z1] = b[z1]
      BY <3>3, <3>6, <3>7
    <3> QED
      BY <2>1, <2>2, <2>3, <3>1, <3>4, <3>5, <3>6, <3>8 DEF Lesser, RightOf, Says, Exists, Fresh
  <2> QED
    BY <2>4, <2>5
<1>6. ASSUME NEW s \in Subject PROVE RightFor(e, g, s)
  <2>1. PICK p : p = Pr(s)
    OBVIOUS
  <2>2. p \in Node /\ Lesser(e, d, p) /\ RightFor(d, f, s)
    BY <1>1, <2>1, NodeForms, RightParts
  <2>3. CASE About(f, s) = {}
    <3>1. Clean(f)[p] = NoNode /\ Clean(g)[p] = NoNode /\ About(g, s) = {}
      BY <1>2, <2>1, <2>3, CleanIs
    <3> QED
      BY <2>1, <2>2, <2>3, <3>1 DEF Lesser, RightFor, Says, Exists, Fresh
  <2>4. CASE About(f, s) # {}
    <3>1. Clean(f)[p] = ProfileRow(f, s) /\ Clean(g)[p] = ProfileRow(g, s) /\ About(g, s) # {}
      BY <1>2, <2>1, <2>4, CleanIs
    <3>2. Fresh(e, p) => ProfileRow(f, s) = ProfileRow(g, s)
      <4> SUFFICES ASSUME Fresh(e, p) PROVE ProfileRow(f, s) = ProfileRow(g, s)
        OBVIOUS
      <4>1. <<"evidence", x>> \notin d[p].from /\ d[p].from = ProfileRow(f, s).from
        BY <1>1, <2>1, <2>2, <2>4, <3>1 DEF Lesser, RightFor, Says, Fresh
      <4>2. <<"evidence", x>> \notin Nodes(f, About(f, s)) /\ About(f, s) \in SUBSET Assertion
        BY <4>1 DEF ProfileRow, About
      <4>3. \A y \in EvidenceOf(f, About(f, s)) : f.evidence[y] = g.evidence[y]
        BY <1>4, <4>2
      <4> QED
        BY <1>2, <4>3, ProfileDepends
    <3> QED
      BY <2>1, <2>2, <2>4, <3>1, <3>2 DEF Lesser, RightFor, Says, Exists, Fresh
  <2> QED
    BY <2>3, <2>4
<1> QED
  BY <1>1, <1>5, <1>6, RightParts

\* A changed assertion: its old key and its new one are doubted, and its
\* subjects when a profile could tell the difference.
LEMMA AssertionKeeps ==
  ASSUME NEW f \in Facts, NEW o, Asked(f, o), OnAssertion(o), NEW g, g = Applied(f, o),
         NEW d, Shape(d), Right(d, f), NEW e, e = Marked(d, g, o)
  PROVE  Shape(e) /\ Right(e, g)
<1>1. PICK x : x = o.id
  OBVIOUS
<1>2. /\ x \in Assertion /\ o.old = f.assertion[x] /\ o.new \in Row \cup {NoRow}
      /\ o.old \in Row \cup {NoRow}
  BY <1>1 DEF Asked, IsOp, OnAssertion, Facts
<1>3. /\ g.assertion = [f.assertion EXCEPT ![x] = o.new]
      /\ g.evidence = f.evidence /\ g.relations = f.relations
  BY <1>1 DEF Applied, OnAssertion, OnEvidence
<1>4. /\ g.assertion[x] = o.new
      /\ \A a \in Assertion : a # x => g.assertion[a] = f.assertion[a]
  BY <1>2, <1>3 DEF Facts
<1>5. PICK keys, subjects : /\ keys = {KeyOf(r) : r \in Rows(o)}
                            /\ subjects = (IF ProfileChanged(o) THEN {r.subject : r \in Rows(o)} ELSE {})
  OBVIOUS
<1>6. e = InvalidateKeys(d, g, keys, subjects)
  BY <1>5 DEF Marked, OnAssertion, OnEvidence
<1>7. /\ \A r \in Rows(o) : r \in Row
      /\ \A r \in {o.old, o.new} : r \notin Rows(o) => r = NoRow
  BY <1>2 DEF Rows
<1>8. keys \in SUBSET Key /\ subjects \in SUBSET Subject
  BY <1>5, <1>7, RealKeys
<1>9. /\ Shape(e)
      /\ \A k \in Key : IF k \in keys THEN Doubted(e, k) ELSE LesserOf(e, d, k)
      /\ \A s \in Subject : IF s \in subjects THEN Exists(e, Pr(s)) /\ ~Fresh(e, Pr(s))
                                              ELSE Lesser(e, d, Pr(s))
  <2>1. Shape(e) /\ DoubtedOnly(e, d, keys, subjects)
    BY <1>6, <1>8, InvalidateKeysKeeps
  <2> QED
    BY <2>1 DEF DoubtedOnly
<1>10. ASSUME NEW k \in Key, k \notin keys PROVE SameKey(f, g, k)
  <2>1. \A r \in {o.old, o.new} : KeyOf(r) # k
    BY <1>5, <1>7, <1>10, RealKeys
  <2>2. x \notin OfKey(f, k) /\ x \notin OfKey(g, k)
    BY <1>2, <1>4, <2>1 DEF OfKey
  <2>3. OfKey(f, k) = OfKey(g, k)
    BY <1>4, <2>2 DEF OfKey
  <2>4. Alike(f, g, OfKey(f, k))
    BY <1>3, <1>4, <2>2 DEF Alike, OfKey
  <2> QED
    BY <1>3, <2>3, <2>4, SameKeyIf
<1>11. ASSUME NEW s \in Subject, s \notin subjects PROVE SameSubject(f, g, s)
  <2>1. CASE ProfileChanged(o)
    <3>1. \A r \in {o.old, o.new} : r.subject # s
      BY <1>5, <1>7, <1>11, <2>1, RealKeys
    <3>2. x \notin About(f, s) /\ x \notin About(g, s)
      BY <1>2, <1>4, <3>1 DEF About
    <3>3. About(f, s) = About(g, s)
      BY <1>4, <3>2 DEF About
    <3>4. \A a \in About(f, s) : f.assertion[a] = g.assertion[a]
      BY <1>4, <3>2 DEF About
    <3> QED
      BY <1>3, <3>3, <3>4, SameSubjectIf
  <2>2. CASE ~ProfileChanged(o)
    <3>1. /\ o.old.subject = o.new.subject /\ o.old.predicate = o.new.predicate
          /\ o.old.evidence = o.new.evidence
      BY <2>2 DEF ProfileChanged
    <3>2. \A a \in Assertion : /\ f.assertion[a].subject = g.assertion[a].subject
                               /\ f.assertion[a].predicate = g.assertion[a].predicate
                               /\ f.assertion[a].evidence = g.assertion[a].evidence
      BY <1>2, <1>4, <3>1
    <3>3. About(f, s) = About(g, s) /\ About(f, s) \subseteq Assertion
      BY <3>2 DEF About
    <3> QED
      BY <1>3, <3>2, <3>3, SameSubjectIf
  <2> QED
    BY <2>1, <2>2
<1>12. Right(e, g)
  BY <1>9, <1>10, <1>11, DoubtKeeps
<1> QED
  BY <1>9, <1>12

\* A new relation: the keys of the assertions it joins are doubted.
LEMMA RelationKeeps ==
  ASSUME NEW f \in Facts, NEW o, IsOp(o), o.op = "add_relation", NEW g, g = Applied(f, o),
         NEW d, Shape(d), Right(d, f), NEW e, e = Marked(d, g, o)
  PROVE  Shape(e) /\ Right(e, g)
<1>1. PICK r : r = o.new
  OBVIOUS
<1>2. /\ g.assertion = f.assertion /\ g.evidence = f.evidence
      /\ g.relations = f.relations \cup {r}
  BY <1>1 DEF Applied, OnAssertion, OnEvidence
<1>3. PICK keys : keys = {KeyOf(g.assertion[a]) : a \in Related(g, r)}
  OBVIOUS
<1>4. e = InvalidateKeys(d, g, keys, {})
  BY <1>1, <1>3 DEF Marked, OnAssertion, OnEvidence
<1>5. /\ r \in Relation /\ r[1] \in Assertion /\ r[3] \in Assertion
      /\ \A a \in Assertion : f.assertion[a] \in Row \cup {NoRow}
  BY <1>1 DEF IsOp, Relation, Facts
<1>6. \A a \in {r[1], r[3]} : a \in Related(g, r) \/ f.assertion[a] = NoRow
  BY <1>2 DEF Related, Stored
<1>7. keys \in SUBSET Key
  BY <1>2, <1>3, <1>5, RealKeys DEF Related, Stored
<1>8. /\ Shape(e)
      /\ \A k \in Key : IF k \in keys THEN Doubted(e, k) ELSE LesserOf(e, d, k)
      /\ \A s \in Subject : Lesser(e, d, Pr(s))
  <2>1. PICK none : none = {}
    OBVIOUS
  <2>2. /\ Shape(d) /\ keys \in SUBSET Key /\ none \in SUBSET Subject
        /\ e = InvalidateKeys(d, g, keys, none)
    BY <1>4, <1>7, <2>1
  <2>3. Shape(e) /\ DoubtedOnly(e, d, keys, none)
    BY <2>2, InvalidateKeysKeeps
  <2> QED
    BY <2>1, <2>3 DEF DoubtedOnly
<1>9. ASSUME NEW k \in Key, k \notin keys PROVE SameKey(f, g, k)
  <2>1. r[1] \notin OfKey(f, k)
    BY <1>2, <1>3, <1>6, <1>9, RealKeys DEF OfKey
  <2>2. OfKey(f, k) = OfKey(g, k)
    BY <1>2 DEF OfKey
  <2>3. Alike(f, g, OfKey(f, k))
    BY <1>2, <2>1 DEF Alike
  <2> QED
    BY <1>2, <2>2, <2>3, SameKeyIf
<1>10. ASSUME NEW s \in Subject PROVE SameSubject(f, g, s)
  <2>1. About(f, s) = About(g, s)
    BY <1>2 DEF About
  <2> QED
    BY <1>2, <2>1, SameSubjectIf
<1>11. Right(e, g)
  BY <1>8, <1>9, <1>10, DoubtKeeps
<1> QED
  BY <1>8, <1>11

\* The invalidation of an operation, made over the facts it leaves.
LEMMA MarkedKeeps ==
  ASSUME NEW f \in Facts, NEW o, Asked(f, o), NEW g, g = Applied(f, o),
         NEW d, Shape(d), Right(d, f)
  PROVE  Shape(Marked(d, g, o)) /\ Right(Marked(d, g, o), g)
<1>1. CASE OnEvidence(o)
  <2>1. PICK x : x = o.id
    OBVIOUS
  <2>2. x \in Evidence
    BY <1>1, <2>1 DEF Asked, IsOp, OnEvidence
  <2>3. /\ g.assertion = f.assertion /\ g.relations = f.relations
        /\ g.evidence = [f.evidence EXCEPT ![x] = o.new]
    BY <1>1, <2>1 DEF Applied, OnEvidence, OnAssertion
  <2>4. \A y \in Evidence : y # x => g.evidence[y] = f.evidence[y]
    BY <2>3 DEF Facts
  <2>5. Marked(d, g, o) = InvalidateFrom(d, {<<"evidence", x>>})
    BY <1>1, <2>1 DEF Marked
  <2>6. PICK e : e = Marked(d, g, o)
    OBVIOUS
  <2>7. e = InvalidateFrom(d, {<<"evidence", x>>})
    BY <2>5, <2>6
  <2>8. Shape(e) /\ Right(e, g)
    <3>1. /\ f \in Facts /\ x \in Evidence /\ Shape(d) /\ Right(d, f)
          /\ g.assertion = f.assertion /\ g.relations = f.relations
          /\ \A y \in Evidence : y # x => g.evidence[y] = f.evidence[y]
          /\ e = InvalidateFrom(d, {<<"evidence", x>>})
      BY <2>2, <2>3, <2>4, <2>7
    <3> QED
      BY ONLY <3>1, EvidenceKeeps
  <2> QED
    BY <2>6, <2>8
<1>2. CASE OnAssertion(o)
  <2>1. PICK e : e = Marked(d, g, o)
    OBVIOUS
  <2>2. Shape(e) /\ Right(e, g)
    <3>1. /\ f \in Facts /\ Asked(f, o) /\ OnAssertion(o) /\ g = Applied(f, o)
          /\ Shape(d) /\ Right(d, f) /\ e = Marked(d, g, o)
      BY <1>2, <2>1
    <3> QED
      BY ONLY <3>1, AssertionKeeps
  <2> QED
    BY <2>1, <2>2
<1>3. CASE o.op = "add_relation"
  <2>1. PICK e : e = Marked(d, g, o)
    OBVIOUS
  <2>2. IsOp(o)
    BY DEF Asked
  <2>3. Shape(e) /\ Right(e, g)
    BY <1>3, <2>1, <2>2, RelationKeeps
  <2> QED
    BY <2>1, <2>3
<1> QED
  BY <1>1, <1>2, <1>3 DEF Asked, IsOp, OnEvidence, OnAssertion

-----------------------------------------------------------------------------
(* The steps of the system *)

\* To trust less is right too.
LEMMA LesserKeeps ==
  ASSUME NEW d, NEW e, NEW f, Right(d, f), \A n \in Node : Lesser(e, d, n)
  PROVE  Right(e, f)
<1>1. \A k \in Key : LesserOf(e, d, k) /\ SameKey(f, f, k)
  BY NodeForms DEF LesserOf, SameKey
<1>2. \A s \in Subject : Lesser(e, d, Pr(s)) /\ SameSubject(f, f, s)
  BY NodeForms DEF SameSubject
<1> QED
  BY <1>1, <1>2, DoubtKeeps

\* The one node the failpoint leaves written, and not trusted.
LEMMA PartialKeeps ==
  ASSUME NEW d, Shape(d), NEW f, NEW n \in Invalid(d), NEW e,
         e = [d EXCEPT ![n] = [Rebuilt(d, f, n) EXCEPT !.status = "rebuilding"]]
  PROVE  Shape(e) /\ \A m \in Node : Lesser(e, d, m)
<1>1. n \in Node /\ d[n].status = "invalid"
  BY DEF Invalid
<1>2. PICK r : r = Rebuilt(d, f, n)
  OBVIOUS
<1>3. NodeOK(n, r) /\ r.status = "fresh"
  <2>1. CASE \E k \in Key : n \in {St(k), Su(k), Co(k)}
    BY <1>2, <2>1, RebuiltIs, RowsOK
  <2>2. CASE \E s \in Subject : n = Pr(s)
    BY <1>2, <2>2, RebuiltIs, RowsOK
  <2> QED
    BY <1>1, <2>1, <2>2, NodeForms
<1>4. PICK q : q = [r EXCEPT !.status = "rebuilding"]
  OBVIOUS
<1>5. NodeOK(n, q) /\ q.status = "rebuilding"
  <2>1. PICK w, F : w = r.value /\ F = r.from
    OBVIOUS
  <2>2. r = [status |-> "fresh", value |-> w, from |-> F]
    BY <1>3, <2>1 DEF NodeOK, RowOK
  <2>3. q = [status |-> "rebuilding", value |-> w, from |-> F]
    BY <1>4, <2>2
  <2> QED
    BY <1>3, <2>2, <2>3 DEF NodeOK, RowOK
<1>6. e = [d EXCEPT ![n] = q]
  BY <1>2, <1>4
<1>7. d = [m \in Node |-> d[m]]
  BY DEF Shape
<1>8. e = [m \in Node |-> e[m]] /\ e[n] = q /\ \A m \in Node : m # n => e[m] = d[m]
  BY <1>1, <1>6, <1>7
<1>9. \A m \in Node : /\ NodeOK(m, e[m])
                      /\ Exists(e, m) <=> Exists(d, m)
                      /\ Fresh(e, m) <=> Fresh(d, m)
                      /\ Fresh(e, m) => e[m] = d[m]
  BY <1>1, <1>5, <1>8 DEF Shape, Exists, Fresh
<1>10. \A k \in Key : ChainOK(e, k)
  BY <1>9, NodeForms DEF Shape, ChainOK
<1> QED
  BY <1>8, <1>9, <1>10 DEF Shape, Lesser

-----------------------------------------------------------------------------

\* What is trusted is right for the facts, or, while they may be ahead of the
\* invalidation, for the facts the intent in flight was asked over.
TrueInv ==
  /\ Shape(derived)
  /\ IF journal.phase \in {"prepared", "canonical_applied"}
     THEN \E f \in Facts : /\ Right(derived, f) /\ Asked(f, journal.op)
                           /\ facts \in {f, Applied(f, journal.op)}
     ELSE Right(derived, facts)

LEMMA TrueInit == Init => TrueInv
BY CleanRight DEF Init, TrueInv, NoIntent

LEMMA DirectAsked == \A o \in Direct : Asked(facts, o)
<1>1. \A e \in Evidence : ~OnAssertion(DeleteEvidence(e)) /\ \A p \in Payload : ~OnAssertion(UpsertEvidence(e, p))
  BY DEF DeleteEvidence, UpsertEvidence, NoOp, OnAssertion
<1>2. \A r \in Relation : ~OnAssertion(AddRelation(r))
  BY DEF AddRelation, NoOp, OnAssertion
<1>3. \A a \in Assertion : /\ DeleteAssertion(a).id = a
                           /\ DeleteAssertion(a).old = facts.assertion[a]
  BY DEF DeleteAssertion, NoOp
<1>4. \A a \in Assertion, row \in Row : /\ UpsertAssertion(a, row).id = a
                                        /\ UpsertAssertion(a, row).old = facts.assertion[a]
  BY DEF UpsertAssertion, NoOp
<1>5. \A o \in Direct : IsOp(o)
  BY AskedOps
<1> QED
  BY <1>1, <1>2, <1>3, <1>4, <1>5 DEF Direct, Journalled, Asked

LEMMA TrueStep == RedoInv /\ TrustInv /\ TrueInv /\ [Next]_vars => TrueInv'
<1> SUFFICES ASSUME RedoInv, TrustInv, TrueInv, [Next]_vars PROVE TrueInv'
  OBVIOUS
<1>0. /\ facts \in Facts /\ JournalTyped /\ Shape(derived)
      /\ journal.phase # "rebuilding" => Settled(derived)
      /\ journal.phase \notin {"prepared", "canonical_applied"} => Right(derived, facts)
  BY DEF RedoInv, TrustInv, TrueInv, Settled, Rebuilding
<1>1. ASSUME CanAsk, NEW o \in Direct, Mutate(o) PROVE TrueInv'
  <2>1. journal.phase = "none" /\ journal' = journal
    BY <1>1 DEF CanAsk, Quiet, NoIntent, Mutate
  <2>2. Asked(facts, o) /\ Right(derived, facts)
    BY <1>0, <2>1, DirectAsked
  <2>3. Shape(derived') /\ Right(derived', facts')
    BY <1>0, <1>1, <2>2, MarkedKeeps DEF Mutate
  <2> QED
    BY <2>1, <2>3 DEF TrueInv
<1>2. ASSUME CanAsk, NEW o \in Journalled, Prepare(o) PROVE TrueInv'
  <2>1. journal.phase = "none" /\ UNCHANGED <<facts, derived>>
        /\ journal'.op = o /\ journal'.phase = "prepared"
    BY <1>2 DEF CanAsk, Quiet, NoIntent, Prepare
  <2>2. Asked(facts, o) /\ Right(derived, facts)
    BY <1>0, <2>1, DirectAsked DEF Direct
  <2> QED
    BY <1>0, <2>1, <2>2 DEF TrueInv
<1>3. ASSUME NEW targets, RebuildSome(targets) PROVE TrueInv'
  <2>1. journal.phase = "none" /\ UNCHANGED <<facts, journal>>
        /\ derived' = Rebuild(derived, facts, targets)
    BY <1>3 DEF RebuildSome, Quiet, NoIntent
  <2>2. Shape(derived') /\ Right(derived', facts)
    BY <1>0, <2>1, RebuildKeeps
  <2> QED
    BY <2>1, <2>2 DEF TrueInv
<1>4. CASE ApplyCanonical
  <2>1. /\ journal.phase = "prepared" /\ facts' = Applied(facts, journal.op)
        /\ derived' = derived /\ journal'.op = journal.op /\ journal'.phase = "canonical_applied"
    BY <1>0, <1>4 DEF ApplyCanonical, JournalTyped
  <2>2. PICK f \in Facts : /\ Right(derived, f) /\ Asked(f, journal.op)
                           /\ facts \in {f, Applied(f, journal.op)}
    BY <2>1 DEF TrueInv
  <2>3. facts' = Applied(f, journal.op)
    BY <2>1, <2>2, AppliedTwice DEF Asked
  <2> QED
    BY <1>0, <2>1, <2>2, <2>3 DEF TrueInv
<1>5. CASE Invalidate
  <2>1. /\ journal.phase = "canonical_applied"
        /\ facts' = IF restarted THEN Applied(facts, journal.op) ELSE facts
        /\ derived' = Marked(derived, facts', journal.op)
        /\ journal'.phase = "invalidated"
    BY <1>0, <1>5 DEF Invalidate, JournalTyped
  <2>2. PICK f \in Facts : /\ Right(derived, f) /\ Asked(f, journal.op)
                           /\ facts \in {f, Applied(f, journal.op)}
    BY <2>1 DEF TrueInv
  <2>3. ~restarted => Applied(facts, journal.op) = facts
    BY <2>1 DEF RedoInv
  <2>4. facts' = Applied(f, journal.op)
    BY <2>1, <2>2, <2>3, AppliedTwice DEF Asked
  <2>5. Shape(derived') /\ Right(derived', facts')
    BY <1>0, <2>1, <2>2, <2>4, MarkedKeeps
  <2> QED
    BY <2>1, <2>5 DEF TrueInv
<1>6. CASE PartialRebuild
  <2>1. PICK n \in Invalid(derived) :
           derived' = [derived EXCEPT ![n] = [Rebuilt(derived, facts, n)
                                                EXCEPT !.status = "rebuilding"]]
    BY <1>6 DEF PartialRebuild
  <2>2. /\ journal.phase = "invalidated" /\ journal'.phase = "rebuilding" /\ facts' = facts
    BY <1>0, <1>6 DEF PartialRebuild, JournalTyped
  <2>3. PICK e : e = derived'
    OBVIOUS
  <2>4. e = [derived EXCEPT ![n] = [Rebuilt(derived, facts, n) EXCEPT !.status = "rebuilding"]]
    BY <2>1, <2>3
  <2>5. Shape(e) /\ \A m \in Node : Lesser(e, derived, m)
    BY <1>0, <2>4, PartialKeeps
  <2>6. Right(e, facts)
    BY <1>0, <2>2, <2>5, LesserKeeps
  <2> QED
    BY <2>2, <2>3, <2>5, <2>6 DEF TrueInv
<1>7. CASE Reinvalidate
  <2>1. /\ journal.phase = "rebuilding" /\ journal'.phase = "invalidated" /\ facts' = facts
        /\ derived' = InvalidateNodes(derived, journal.affected)
        /\ journal.affected \in SUBSET Node
    BY <1>0, <1>7 DEF Reinvalidate, JournalTyped
  <2>2. Shape(derived') /\ \A n \in Node : Lesser(derived', derived, n)
    BY <1>0, <2>1, InvalidateNodesKeeps
  <2>3. Right(derived', facts)
    BY <1>0, <2>1, <2>2, LesserKeeps
  <2> QED
    BY <2>1, <2>2, <2>3 DEF TrueInv
<1>8. CASE Repair
  <2>1. /\ journal.phase = "invalidated" /\ journal'.phase = "repaired" /\ facts' = facts
        /\ derived' = Rebuild(derived, facts, journal.affected)
    BY <1>0, <1>8 DEF Repair, JournalTyped
  <2>2. Shape(derived') /\ Right(derived', facts)
    BY <1>0, <2>1, RebuildKeeps
  <2> QED
    BY <2>1, <2>2 DEF TrueInv
<1>9. CASE Finish
  BY <1>0, <1>9 DEF Finish, NoIntent, TrueInv
<1>10. CASE Crash
  <2>1. derived' = derived
    BY <1>10 DEF Crash
  <2>2. CASE UNCHANGED <<facts, journal>>
    BY <2>1, <2>2 DEF TrueInv
  <2>3. CASE /\ journal.phase = "prepared"
             /\ \/ facts' = Applied(facts, journal.op) /\ UNCHANGED journal
                \/ journal' = [journal EXCEPT !.phase = "canonical_applied"] /\ UNCHANGED facts
    <3>1. /\ journal'.op = journal.op /\ journal'.phase \in {"prepared", "canonical_applied"}
          /\ facts' \in {facts, Applied(facts, journal.op)}
      BY <1>0, <2>3 DEF JournalTyped
    <3>2. PICK f \in Facts : /\ Right(derived, f) /\ Asked(f, journal.op)
                             /\ facts \in {f, Applied(f, journal.op)}
      BY <2>3 DEF TrueInv
    <3>3. facts' \in {f, Applied(f, journal.op)}
      BY <3>1, <3>2, AppliedTwice DEF Asked
    <3> QED
      BY <1>0, <2>1, <3>1, <3>2, <3>3 DEF TrueInv
  <2> QED
    BY <1>10, <2>2, <2>3 DEF Crash
<1>11. CASE UNCHANGED vars
  BY <1>11 DEF vars, TrueInv
<1> QED
  BY <1>1, <1>2, <1>3, <1>4, <1>5, <1>6, <1>7, <1>8, <1>9, <1>10, <1>11 DEF Next

-----------------------------------------------------------------------------

\* A clean build has a node only for what the facts hold.
LEMMA CleanHolds ==
  ASSUME NEW f, NEW n \in Node, Exists(Clean(f), n)
  PROVE  Held(f, n)
<1>1. Clean(f)[n] # NoNode
  BY DEF Exists, NoNode
<1>2. CASE \E k \in Key : n \in {St(k), Su(k), Co(k)}
  <2>1. PICK k \in Key : n \in {St(k), Su(k), Co(k)}
    BY <1>2
  <2>2. OfKey(f, k) # {}
    BY <1>1, <2>1, CleanIs
  <2> QED
    BY <2>1, <2>2, HeldIs
<1>3. CASE \E s \in Subject : n = Pr(s)
  <2>1. PICK s \in Subject : n = Pr(s)
    BY <1>3
  <2>2. About(f, s) # {}
    BY <1>1, <2>1, CleanIs
  <2> QED
    BY <2>1, <2>2, HeldIs
<1> QED
  BY <1>2, <1>3, NodeForms

\* A node that readers trust holds what a clean build of the facts would make it
\* hold, and rests on what it says, whichever operations, rebuilds, crashes and
\* recoveries there have been (cascade.py:385, recovery.py:314).
THEOREM TrustedIsClean == Spec => []FreshIsClean
<1>1. TrueInv => FreshIsClean
  <2> SUFFICES ASSUME TrueInv, journal.phase \notin {"prepared", "canonical_applied"},
                      NEW n \in Node, Fresh(derived, n)
               PROVE  /\ derived[n].value = Clean(facts)[n].value
                      /\ Exists(Clean(facts), n) => derived[n].from = Clean(facts)[n].from
    BY DEF FreshIsClean
  <2>1. Right(derived, facts)
    BY DEF TrueInv
  <2> QED
    BY <2>1, CleanHolds DEF Right, Says, Fresh
<1> QED
  BY <1>1, RedoInit, RedoStep, TrustInit, TrustStep, TrueInit, TrueStep, PTL DEF Spec

\* With nothing invalid, what is right is the clean build itself.
LEMMA SettledIs ==
  ASSUME NEW d, NEW f, Shape(d), Right(d, f), Settled(d), Invalid(d) = {}
  PROVE  d = Clean(f)
<1>1. PICK c : c = Clean(f)
  OBVIOUS
<1>2. Shape(c) /\ Right(c, f)
  BY <1>1, CleanRight
<1>3. \A n \in Node : d[n].status \in {"none", "fresh"} /\ NodeOK(n, d[n])
  BY DEF Shape, NodeOK, RowOK, Settled, Invalid
<1>4. ASSUME NEW n \in Node, NEW x, NEW y, NodeOK(n, x), NodeOK(n, y), x.status = "fresh",
             y.status = "fresh", Says(x, y, TRUE)
      PROVE  x = y
  BY <1>4 DEF NodeOK, RowOK, Says
<1>5. ASSUME NEW k \in Key
      PROVE  d[St(k)] = c[St(k)] /\ d[Su(k)] = c[Su(k)] /\ d[Co(k)] = c[Co(k)]
  <2>1. /\ St(k) \in Node /\ Su(k) \in Node /\ Co(k) \in Node
        /\ RightOf(d, f, k) /\ ChainOK(d, k)
    BY NodeForms, RightParts DEF Shape
  <2>2. CASE OfKey(f, k) = {}
    <3>1. c[St(k)] = NoNode /\ c[Su(k)] = NoNode /\ c[Co(k)] = NoNode
      BY <1>1, <2>2, CleanIs
    <3>2. d[St(k)].status = "none" /\ d[Su(k)].status = "none" /\ d[Co(k)].status = "none"
      BY <1>3, <2>1, <2>2 DEF RightOf, Whole, ChainOK, Exists, Fresh
    <3> QED
      BY <1>3, <2>1, <3>1, <3>2 DEF NodeOK, RowOK
  <2>3. CASE OfKey(f, k) # {}
    <3>1. /\ c[St(k)].status = "fresh" /\ c[Su(k)].status = "fresh" /\ c[Co(k)].status = "fresh"
          /\ NodeOK(St(k), c[St(k)]) /\ NodeOK(Su(k), c[Su(k)]) /\ NodeOK(Co(k), c[Co(k)])
      BY <1>1, <2>3, CleanIs, RowsOK
    <3>2. /\ Says(d[St(k)], c[St(k)], TRUE) /\ Says(d[Su(k)], c[Su(k)], TRUE)
          /\ Says(d[Co(k)], c[Co(k)], TRUE)
          /\ d[St(k)].status = "fresh" /\ d[Su(k)].status = "fresh" /\ d[Co(k)].status = "fresh"
      BY <1>1, <1>3, <2>1, <2>3 DEF RightOf, Exists, Says
    <3> QED
      BY <1>3, <1>4, <2>1, <3>1, <3>2
  <2> QED
    BY <2>2, <2>3
<1>6. ASSUME NEW s \in Subject PROVE d[Pr(s)] = c[Pr(s)]
  <2>1. PICK p : p = Pr(s)
    OBVIOUS
  <2>2. p \in Node /\ RightFor(d, f, s) /\ NodeOK(p, d[p]) /\ d[p].status \in {"none", "fresh"}
    BY <1>3, <2>1, NodeForms, RightParts
  <2>3. CASE About(f, s) = {}
    <3>1. c[p] = NoNode
      BY <1>1, <2>1, <2>3, CleanIs
    <3> QED
      BY <2>1, <2>2, <2>3, <3>1 DEF RightFor, Fresh, NodeOK, RowOK
  <2>4. CASE About(f, s) # {}
    <3>1. NodeOK(p, c[p]) /\ c[p].status = "fresh"
      BY <1>1, <2>1, <2>4, CleanIs, RowsOK
    <3>2. d[p].status = "fresh" /\ Says(d[p], c[p], TRUE)
      BY <1>1, <2>1, <2>2, <2>4 DEF RightFor, Exists, Says
    <3> QED
      BY <1>4, <2>1, <2>2, <3>1, <3>2
  <2> QED
    BY <2>3, <2>4
<1>7. \A n \in Node : d[n] = c[n]
  BY <1>5, <1>6, NodeForms
<1>8. d = [n \in Node |-> d[n]] /\ c = [n \in Node |-> c[n]]
  BY <1>2 DEF Shape
<1> QED
  BY <1>1, <1>7, <1>8

\* With nothing invalid and nothing in flight, the maintained materialization is
\* the one a build from the facts makes, whatever led there (cascade.py:407).
THEOREM SettledMaterialization == Spec => []SettledIsClean
<1>1. RedoInv /\ TrustInv /\ TrueInv => SettledIsClean
  <2> SUFFICES ASSUME TrustInv, TrueInv, Quiet, Invalid(derived) = {}
               PROVE  derived = Clean(facts)
    BY DEF SettledIsClean
  <2>1. journal.phase = "none"
    BY DEF Quiet, NoIntent
  <2>2. Settled(derived) /\ Shape(derived) /\ Right(derived, facts)
    BY <2>1 DEF TrustInv, TrueInv, Settled, Rebuilding
  <2> QED
    BY <2>2, SettledIs
<1> QED
  BY <1>1, RedoInit, RedoStep, TrustInit, TrustStep, TrueInit, TrueStep, PTL DEF Spec

-----------------------------------------------------------------------------
(* The cells kept by increments (IncrementalState), over the same known.   *)

\* The cells a key can have.
Cell == [status : {"resolved", "contested", "unknown"}, values : SUBSET Object,
         active : SUBSET Assertion, historical : SUBSET Assertion]

\* A cell tells what reconciling would, and its active assertions are at least
\* the ones that nothing replaced: a first one that agrees may hide a replaced one.
CellTells(f, key, cell) ==
  LET R == Cells!Reconciled(f, key, Cells!OfKey(f, key))
  IN  IF Cells!OfKey(f, key) = {} THEN cell = None
      ELSE /\ cell # None
           /\ cell.status = R.status /\ cell.values = R.values
           /\ R.active # {} /\ R.active \subseteq cell.active

\* No relation speaks of an assertion that is not recorded.
Grounded(f) == \A r \in f.relations : Cells!Stored(f, r[1]) /\ Cells!Stored(f, r[3])

CellInv ==
  /\ known \in Cells!Facts
  /\ Grounded(known)
  /\ state \in [Cells!Key -> Cell \cup {None}]
  /\ \A key \in Cells!Key : key[2] \notin Multi => CellTells(known, key, state[key])

\* Reconciling assertions gives a cell.
LEMMA ReconciledIsCell ==
  ASSUME NEW f \in Cells!Facts, NEW key \in Cells!Key
  PROVE  Cells!Reconciled(f, key, Cells!OfKey(f, key)) \in Cell
<1> DEFINE S == Cells!OfKey(f, key)
           A == S \ Cells!Replaced(f, S)
           O == {f.assertion[a].object : a \in A}
<1>1. S \subseteq Assertion /\ A \subseteq Assertion /\ Cells!Replaced(f, S) \subseteq Assertion
  BY DEF Cells!OfKey, Cells!Replaced
<1>2. \A a \in S : f.assertion[a] \in Cells!Row
  BY NoneAssumption DEF Cells!OfKey, Cells!Facts, Cells!KeyOf, Cells!NoRow, Cells!Key
<1>3. O \subseteq Object
  BY <1>2 DEF Cells!Row
<1> HIDE DEF O, A, S
<1>4. QED
  BY <1>1, <1>3 DEF Cells!Reconciled, Cell, O, A, S

\* What recording an assertion makes of the known, and what it replaces.
Grown(f, a, row, rels) == [f EXCEPT !.assertion[a] = row, !.relations = @ \cup rels]
Recording(f, a, row, rels) ==
  /\ f \in Cells!Facts /\ Grounded(f)
  /\ a \in Assertion /\ ~Cells!Stored(f, a)
  /\ row \in Cells!Row
  /\ rels \subseteq Cells!Relation
  /\ \A r \in rels : r[1] = a /\ Cells!Stored(f, r[3])
TakenBack(rels) == {r[3] : r \in {q \in rels : q[2] \in {"corrects", "supersedes"}}}
ActiveIn(f, key) == Cells!OfKey(f, key) \ Cells!Replaced(f, Cells!OfKey(f, key))

\* The known with an assertion more are known, and no relation speaks of others.
LEMMA GrownFacts ==
  ASSUME NEW f, NEW a, NEW row, NEW rels, Recording(f, a, row, rels)
  PROVE  /\ Grown(f, a, row, rels) \in Cells!Facts
         /\ Grounded(Grown(f, a, row, rels))
         /\ \A b \in Assertion :
              Grown(f, a, row, rels).assertion[b] = IF b = a THEN row ELSE f.assertion[b]
         /\ Grown(f, a, row, rels).relations = f.relations \cup rels
<1> DEFINE g == Grown(f, a, row, rels)
<1>1. g.assertion = [f.assertion EXCEPT ![a] = row] /\ g.relations = f.relations \cup rels
      /\ g.evidence = f.evidence /\ g \in Cells!Facts
  BY DEF Recording, Grown, Cells!Facts
<1>2. \A b \in Assertion : g.assertion[b] = IF b = a THEN row ELSE f.assertion[b]
  BY <1>1 DEF Recording, Cells!Facts
<1>3. row # Cells!NoRow
  BY NoneAssumption DEF Recording, Cells!Row, Cells!NoRow
<1>4. \A r \in g.relations : r \in Cells!Relation
  BY <1>1 DEF Recording, Cells!Facts
<1>5. \A r \in g.relations : r[1] \in Assertion /\ r[3] \in Assertion
  BY <1>4 DEF Cells!Relation
<1>6. Grounded(g)
  BY <1>1, <1>2, <1>3, <1>5 DEF Recording, Grounded, Cells!Stored
<1> QED
  BY <1>1, <1>2, <1>6

\* It leaves every other key as it was.
LEMMA GrownElsewhere ==
  ASSUME NEW f, NEW a, NEW row, NEW rels, Recording(f, a, row, rels),
         NEW key \in Cells!Key, key # Cells!KeyOf(row)
  PROVE  /\ Cells!OfKey(Grown(f, a, row, rels), key) = Cells!OfKey(f, key)
         /\ Cells!Reconciled(Grown(f, a, row, rels), key, Cells!OfKey(f, key))
              = Cells!Reconciled(f, key, Cells!OfKey(f, key))
<1> DEFINE g == Grown(f, a, row, rels)
           S == Cells!OfKey(f, key)
<1>0. g.relations = f.relations \cup rels
  BY GrownFacts
<1>1. \A b \in Assertion : g.assertion[b] = IF b = a THEN row ELSE f.assertion[b]
  BY GrownFacts
<1>2. Cells!KeyOf(f.assertion[a]) # key
  BY NoneAssumption DEF Recording, Cells!Stored, Cells!KeyOf, Cells!NoRow, Cells!Key
<1>3. Cells!OfKey(g, key) = S
  BY <1>1, <1>2 DEF Cells!OfKey
<1>4. a \notin S /\ S \subseteq Assertion
  BY <1>2 DEF Cells!OfKey
<1>5. \A s \in S : \A r, t : <<s, r, t>> \in g.relations <=> <<s, r, t>> \in f.relations
  BY <1>0, <1>4 DEF Recording
<1> HIDE DEF S, g
<1>6. Cells!Replaced(g, S) = Cells!Replaced(f, S)
  BY <1>5 DEF Cells!Replaced
<1>7. \A T \in SUBSET S : {g.assertion[b].object : b \in T} = {f.assertion[b].object : b \in T}
  BY <1>1, <1>4
<1>8. Cells!Replaced(f, S) \subseteq S
  BY DEF Cells!Replaced
<1>9. {g.assertion[b].object : b \in S \ Cells!Replaced(f, S)}
        = {f.assertion[b].object : b \in S \ Cells!Replaced(f, S)}
  BY <1>7
<1>10. Cells!Reconciled(g, key, S) = Cells!Reconciled(f, key, S)
  BY <1>6, <1>9 DEF Cells!Reconciled
<1> QED
  BY <1>3, <1>10 DEF S, g

\* Its own key has it active, and without what it replaces.
LEMMA GrownHere ==
  ASSUME NEW f, NEW a, NEW row, NEW rels, Recording(f, a, row, rels),
         NEW key \in Cells!Key, key = Cells!KeyOf(row)
  PROVE  /\ Cells!OfKey(Grown(f, a, row, rels), key) = Cells!OfKey(f, key) \cup {a}
         /\ ActiveIn(Grown(f, a, row, rels), key)
              = (ActiveIn(f, key) \ TakenBack(rels)) \cup {a}
<1> DEFINE g == Grown(f, a, row, rels)
           S == Cells!OfKey(f, key)
<1>0. g.relations = f.relations \cup rels
  BY GrownFacts
<1>1. \A b \in Assertion : g.assertion[b] = IF b = a THEN row ELSE f.assertion[b]
  BY GrownFacts
<1>2. Cells!KeyOf(f.assertion[a]) # key
  BY NoneAssumption DEF Recording, Cells!Stored, Cells!KeyOf, Cells!NoRow, Cells!Key
<1>3. Cells!OfKey(g, key) = S \cup {a} /\ a \notin S /\ S \subseteq Assertion
  BY <1>1, <1>2 DEF Cells!OfKey, Recording
<1>4. \A s, r, t : <<s, r, t>> \in g.relations <=> <<s, r, t>> \in f.relations \/ <<s, r, t>> \in rels
  BY <1>0
<1>5. \A s, r, t : <<s, r, t>> \in f.relations => s # a /\ t # a
  BY DEF Recording, Grounded
<1>6. \A s, r, t : <<s, r, t>> \in rels => s = a /\ t # a
  BY DEF Recording
<1>7. \A t : t \in TakenBack(rels)
             <=> \E r \in {"corrects", "supersedes"} : <<a, r, t>> \in rels
  <2>1. \A q \in rels : q = <<a, q[2], q[3]>>
    BY DEF Recording, Cells!Relation
  <2> QED
    BY <2>1 DEF TakenBack
<1> HIDE DEF S, g
<1>8. \A t \in S : t \in Cells!Replaced(g, S \cup {a})
                   <=> t \in Cells!Replaced(f, S) \/ t \in TakenBack(rels)
  <2> TAKE t \in S
  <2>1. t \in Cells!Replaced(g, S \cup {a})
          <=> \E s \in S \cup {a}, r \in {"corrects", "supersedes"} :
                 <<s, r, t>> \in f.relations \/ <<s, r, t>> \in rels
    BY ONLY t \in S, <1>4 DEF Cells!Replaced
  <2>2. t \in Cells!Replaced(f, S)
          <=> \E s \in S, r \in {"corrects", "supersedes"} : <<s, r, t>> \in f.relations
    BY ONLY t \in S DEF Cells!Replaced
  <2> QED
    BY <1>5, <1>6, <1>7, <2>1, <2>2
<1>9. a \notin Cells!Replaced(g, S \cup {a})
  BY <1>4, <1>5, <1>6 DEF Cells!Replaced
<1>10. ActiveIn(g, key) = (ActiveIn(f, key) \ TakenBack(rels)) \cup {a}
  BY <1>3, <1>8, <1>9 DEF ActiveIn, S
<1> QED
  BY <1>3, <1>10 DEF S, g


\* A verdict R on a single-valued key, by its active assertions A.
Verdict(R, f, A) ==
  /\ R.active = A
  /\ (\E x \in Object : A # {} /\ \A b \in A : f.assertion[b].object = x)
       => R.status = "resolved"
  /\ R.status = "resolved"
       => \E x \in Object : R.values = {x} /\ \A b \in A : f.assertion[b].object = x
  /\ A # {} /\ R.status # "resolved" => R.status = "contested" /\ R.values = {}

\* The verdict on a single-valued key is what its active assertions say.
LEMMA ReconciledSays ==
  ASSUME NEW f, NEW key, key[2] \notin Multi
  PROVE  Verdict(Cells!Reconciled(f, key, Cells!OfKey(f, key)), f, ActiveIn(f, key))
<1>1. PICK A : A = ActiveIn(f, key)
  OBVIOUS
<1>2. PICK O : O = {f.assertion[b].object : b \in A}
  OBVIOUS
<1>3. PICK R : R = Cells!Reconciled(f, key, Cells!OfKey(f, key))
  OBVIOUS
<1>4. A = Cells!OfKey(f, key) \ Cells!Replaced(f, Cells!OfKey(f, key))
  BY <1>1 DEF ActiveIn
<1>5. /\ R.active = A
      /\ R.values = IF \E o \in Object : O = {o} THEN O ELSE {}
      /\ R.status = IF A = {} THEN "unknown"
                    ELSE IF \E o \in Object : O = {o} THEN "resolved" ELSE "contested"
  BY <1>2, <1>3, <1>4 DEF Cells!Reconciled
<1>6. \A x : (A # {} /\ \A b \in A : f.assertion[b].object = x) => O = {x}
  BY <1>2
<1>7. \A x : O = {x} => \A b \in A : f.assertion[b].object = x
  BY <1>2
<1>8. (\E x \in Object : A # {} /\ \A b \in A : f.assertion[b].object = x)
        => R.status = "resolved"
  BY <1>5, <1>6
<1>9. R.status = "resolved"
        => \E x \in Object : R.values = {x} /\ \A b \in A : f.assertion[b].object = x
  BY <1>5, <1>7
<1>10. Verdict(R, f, A)
  BY <1>5, <1>8, <1>9 DEF Verdict
<1> QED
  BY <1>1, <1>3, <1>10

\* Active assertions that agree resolve a key.
LEMMA VerdictAgrees ==
  ASSUME NEW R, NEW f, NEW A, Verdict(R, f, A),
         NEW x \in Object, A # {}, \A b \in A : f.assertion[b].object = x
  PROVE  R.status = "resolved" /\ R.values = {x}
BY DEF Verdict

\* However a new assertion is taken in, the cell tells what reconciling would.
LEMMA CellIsMaintained ==
  ASSUME NEW f, NEW a, NEW row, NEW rels, Recording(f, a, row, rels), None \notin Cell,
         NEW key \in Cells!Key, key = Cells!KeyOf(row), key[2] \notin Multi,
         NEW cell \in Cell \cup {None}, CellTells(f, key, cell)
  PROVE  CellTells(Grown(f, a, row, rels), key,
                   Cells!Maintained(Grown(f, a, row, rels), cell, a, TakenBack(rels)))
<1> PICK g : g = Grown(f, a, row, rels)
  OBVIOUS
<1> PICK replaced : replaced = TakenBack(rels)
  OBVIOUS
<1> PICK new : new = Cells!Maintained(g, cell, a, replaced)
  OBVIOUS
<1> SUFFICES CellTells(g, key, new)
  OBVIOUS
<1>1. /\ g \in Cells!Facts
      /\ \A b \in Assertion : g.assertion[b] = IF b = a THEN row ELSE f.assertion[b]
  BY GrownFacts
<1>2. Cells!OfKey(g, key) = Cells!OfKey(f, key) \cup {a}
      /\ ActiveIn(g, key) = (ActiveIn(f, key) \ replaced) \cup {a}
  BY GrownHere
<1>3. PICK R : R = Cells!Reconciled(g, key, Cells!OfKey(g, key))
  OBVIOUS
<1>4. PICK Q : Q = Cells!Reconciled(f, key, Cells!OfKey(f, key))
  OBVIOUS
<1>5. a \in Assertion /\ row \in Cells!Row /\ g.assertion[a] = row /\ row.object \in Object
      /\ row.predicate = key[2]
  BY <1>1 DEF Recording, Cells!Row, Cells!KeyOf
<1>6. R \in Cell
  BY <1>1, <1>3, ReconciledIsCell
<1>7. PICK B : B = ActiveIn(g, key)
  OBVIOUS
<1>8. PICK A : A = ActiveIn(f, key)
  OBVIOUS
<1>9. Verdict(R, g, B) /\ Verdict(Q, f, A) /\ B = (A \ replaced) \cup {a}
  BY <1>2, <1>3, <1>4, <1>7, <1>8, ReconciledSays
<1>10. A \subseteq Cells!OfKey(f, key) /\ A \subseteq Assertion /\ a \notin A
  <2>1. Cells!KeyOf(f.assertion[a]) # key
    BY NoneAssumption DEF Recording, Cells!Stored, Cells!KeyOf, Cells!NoRow, Cells!Key
  <2> QED
    BY <1>8, <2>1 DEF ActiveIn, Cells!OfKey
<1>11. IF Cells!OfKey(f, key) = {} THEN cell = None
       ELSE /\ cell # None /\ cell.status = Q.status /\ cell.values = Q.values
            /\ A # {} /\ A \subseteq cell.active
  BY <1>4, <1>9 DEF CellTells, Verdict
<1>12. R.active = B /\ B # {} /\ a \in B
  BY <1>9 DEF Verdict
<1>13. SUFFICES new # None /\ new.status = R.status /\ new.values = R.values
                /\ B \subseteq new.active
  BY <1>2, <1>3, <1>12 DEF CellTells
<1>14. PICK fresh : fresh = [status |-> "resolved", values |-> {row.object}, active |-> {a},
                             historical |-> {}]
  OBVIOUS
<1>15. fresh \in Cell /\ fresh.status = "resolved" /\ fresh.values = {row.object}
       /\ fresh.active = {a}
  BY <1>5, <1>14 DEF Cell
<1>16. CASE cell = None
  <2>1. new = fresh
    BY <1>5, <1>14, <1>16 DEF Cells!Maintained, Cells!NoCell
  <2>2. Cells!OfKey(f, key) = {}
    BY <1>11, <1>16
  <2>3. B = {a}
    BY <1>9, <1>10, <2>2
  <2>4. R.status = "resolved" /\ R.values = {row.object}
    BY <1>5, <1>9, <2>3, VerdictAgrees
  <2> QED
    BY <1>15, <2>1, <2>3, <2>4
<1>17. CASE cell # None
  <2>1. cell \in Cell /\ cell.status = Q.status /\ cell.values = Q.values
        /\ A # {} /\ A \subseteq cell.active
    BY <1>11, <1>17
  <2>2. PICK joins : joins = cell.active \cup {a}
    OBVIOUS
  <2>3. B \subseteq joins
    BY <1>9, <2>1, <2>2
  <2>4. CASE cell.active # {} /\ cell.active \subseteq replaced
    <3>1. new = [fresh EXCEPT !.historical = cell.historical \cup cell.active]
      BY <1>5, <1>14, <1>17, <2>4 DEF Cells!Maintained, Cells!NoCell
    <3>2. new \in Cell /\ new.status = "resolved" /\ new.values = {row.object} /\ new.active = {a}
      BY <1>15, <2>1, <3>1 DEF Cell
    <3>3. B = {a}
      BY <1>9, <2>1, <2>4
    <3>4. R.status = "resolved" /\ R.values = {row.object}
      BY <1>5, <1>9, <3>3, VerdictAgrees
    <3> QED
      BY <3>2, <3>3, <3>4
  <2>5. CASE /\ ~(cell.active # {} /\ cell.active \subseteq replaced)
             /\ cell.status = "resolved" /\ cell.values = {row.object}
    <3>1. new = [cell EXCEPT !.active = joins]
      BY <1>5, <1>17, <2>2, <2>5 DEF Cells!Maintained, Cells!NoCell
    <3>2. new \in Cell /\ new.status = "resolved" /\ new.values = {row.object} /\ new.active = joins
      BY <1>5, <2>1, <2>2, <2>5, <3>1 DEF Cell
    <3>3. \A b \in A : f.assertion[b].object = row.object
      BY <1>9, <2>1, <2>5 DEF Verdict
    <3>4. \A b \in B : g.assertion[b].object = row.object
      BY <1>1, <1>5, <1>9, <1>10, <3>3
    <3>5. R.status = "resolved" /\ R.values = {row.object}
      BY <1>5, <1>9, <1>12, <3>4, VerdictAgrees
    <3> QED
      BY <2>3, <3>2, <3>5
  <2>6. CASE /\ ~(cell.active # {} /\ cell.active \subseteq replaced)
             /\ cell.status = "resolved" /\ cell.values # {row.object} /\ replaced = {}
    <3>1. new = [cell EXCEPT !.status = "contested", !.values = {}, !.active = joins]
      BY <1>5, <1>17, <2>2, <2>6 DEF Cells!Maintained, Cells!NoCell
    <3>2. new \in Cell /\ new.status = "contested" /\ new.values = {} /\ new.active = joins
      <4>1. joins \in SUBSET Assertion
        BY <1>5, <2>1, <2>2 DEF Cell
      <4>2. \A s \in {"resolved", "contested", "unknown"}, j \in SUBSET Assertion :
              [cell EXCEPT !.status = s, !.values = {}, !.active = j] \in Cell
        BY <2>1 DEF Cell
      <4>3. new \in Cell
        BY <3>1, <4>1, <4>2
      <4> QED
        BY <2>1, <3>1, <4>3 DEF Cell
    <3>3. PICK x \in Object : cell.values = {x} /\ \A b \in A : f.assertion[b].object = x
      BY <1>9, <2>1, <2>6 DEF Verdict
    <3>4. PICK b \in A : f.assertion[b].object = x
      BY <2>1, <3>3
    <3>5. b \in B /\ g.assertion[b].object = x /\ x # row.object
      BY <1>1, <1>9, <1>10, <2>6, <3>3, <3>4
    <3>6. R.status = "contested" /\ R.values = {}
      BY <1>5, <1>9, <1>12, <3>5 DEF Verdict
    <3> QED
      BY <2>3, <3>2, <3>6
  <2>7. CASE /\ ~(cell.active # {} /\ cell.active \subseteq replaced)
             /\ ~(cell.status = "resolved" /\ cell.values = {row.object})
             /\ ~(cell.status = "resolved" /\ cell.values # {row.object} /\ replaced = {})
    <3>1. new = R
      BY <1>3, <1>5, <1>17, <2>7 DEF Cells!Maintained, Cells!NoCell
    <3> QED
      BY <1>6, <1>12, <3>1
  <2> QED
    BY <2>4, <2>5, <2>6, <2>7
<1> QED
  BY <1>16, <1>17

\* Every way a cell is maintained makes a cell, of multi-valued keys too.
LEMMA MaintainedIsCell ==
  ASSUME NEW f, NEW a, NEW row, NEW rels, Recording(f, a, row, rels),
         Cells!KeyOf(row) \in Cells!Key,
         NEW cell \in Cell \cup {None}
  PROVE  Cells!Maintained(Grown(f, a, row, rels), cell, a, TakenBack(rels)) \in Cell
<1> PICK g : g = Grown(f, a, row, rels)
  OBVIOUS
<1> PICK replaced : replaced = TakenBack(rels)
  OBVIOUS
<1>1. /\ g \in Cells!Facts
      /\ \A b \in Assertion : g.assertion[b] = IF b = a THEN row ELSE f.assertion[b]
  BY GrownFacts
<1>2. a \in Assertion /\ row \in Cells!Row /\ g.assertion[a] = row /\ row.object \in Object
  BY <1>1 DEF Recording, Cells!Row
<1>3. Cells!Reconciled(g, Cells!KeyOf(row), Cells!OfKey(g, Cells!KeyOf(row))) \in Cell
  BY <1>1, ReconciledIsCell
<1>4. \A s \in {"resolved", "contested", "unknown"}, v \in SUBSET Object,
         j \in SUBSET Assertion, h \in SUBSET Assertion :
        [status |-> s, values |-> v, active |-> j, historical |-> h] \in Cell
  BY DEF Cell
<1>5. [status |-> "resolved", values |-> {row.object}, active |-> {a}, historical |-> {}] \in Cell
  BY <1>2, <1>4
<1>6. CASE cell = None
  BY <1>2, <1>5, <1>6 DEF Cells!Maintained, Cells!NoCell
<1>7. CASE cell # None
  <2>1. cell \in Cell /\ cell.active \in SUBSET Assertion /\ cell.historical \in SUBSET Assertion
        /\ cell.values \in SUBSET Object
    BY <1>7 DEF Cell
  <2>2. \A s \in {"resolved", "contested", "unknown"}, v \in SUBSET Object,
           j \in SUBSET Assertion :
          [cell EXCEPT !.status = s, !.values = v, !.active = j] \in Cell
    BY <2>1 DEF Cell
  <2>3. PICK joins : joins = cell.active \cup {a}
    OBVIOUS
  <2>4. joins \in SUBSET Assertion
    BY <1>2, <2>1, <2>3
  <2>5. [cell EXCEPT !.active = joins] \in Cell
    BY <2>1, <2>4 DEF Cell
  <2>6. [cell EXCEPT !.status = "contested", !.values = {}, !.active = joins] \in Cell
    BY <2>2, <2>4
  <2>7. [cell EXCEPT !.status = "resolved", !.active = joins,
                     !.values = cell.values \cup {row.object}] \in Cell
    <3>1. cell.values \cup {row.object} \in SUBSET Object
      BY <1>2, <2>1
    <3>2. \A v \in SUBSET Object, j \in SUBSET Assertion :
            [cell EXCEPT !.status = "resolved", !.active = j, !.values = v] \in Cell
      BY <2>1 DEF Cell
    <3> QED
      BY <2>4, <3>1, <3>2
  <2>8. [status |-> "resolved", values |-> {row.object}, active |-> {a},
         historical |-> cell.historical \cup cell.active] \in Cell
    BY <1>2, <1>4, <2>1
  <2> QED
    BY <1>2, <1>3, <1>7, <2>3, <2>5, <2>6, <2>7, <2>8 DEF Cells!Maintained, Cells!NoCell
<1> QED
  BY <1>6, <1>7

\* Before anything is recorded no key has a cell.
LEMMA CellInit == Cells!Init => CellInv
<1> SUFFICES ASSUME Cells!Init PROVE CellInv
  OBVIOUS
<1>1. known.assertion = [b \in Assertion |-> Cells!NoRow] /\ known.relations = {}
      /\ known \in Cells!Facts
  BY DEF Cells!Init, Cells!Facts
<1>2. state \in [Cells!Key -> Cell \cup {None}] /\ \A key \in Cells!Key : state[key] = None
  BY DEF Cells!Init, Cells!NoCell
<1>3. \A key \in Cells!Key : Cells!OfKey(known, key) = {}
  BY <1>1, NoneAssumption DEF Cells!OfKey, Cells!KeyOf, Cells!NoRow, Cells!Key
<1> QED
  BY <1>1, <1>2, <1>3 DEF CellInv, Grounded, CellTells

\* Recording an assertion keeps every cell telling what reconciling would.
LEMMA CellStep ==
  ASSUME None \notin Cell
  PROVE  CellInv /\ [Cells!Next]_(Cells!vars) => CellInv'
<1> SUFFICES ASSUME CellInv, [Cells!Next]_(Cells!vars) PROVE CellInv'
  OBVIOUS
<1>1. CASE UNCHANGED Cells!vars
  BY <1>1 DEF CellInv, Cells!vars
<1>2. ASSUME NEW a \in Cells!Unrecorded, NEW row \in Cells!Row, NEW rels \in Cells!Saying(a),
             Cells!Record(a, row, rels)
      PROVE  CellInv'
  <2>1. Recording(known, a, row, rels)
    <3>1. a \in Assertion /\ ~Cells!Stored(known, a)
      BY DEF Cells!Unrecorded
    <3>2. \A r \in rels : r \in Cells!Relation /\ r[1] = a /\ Cells!Stored(known, r[3])
      <4>1. PICK earlier : earlier = {b \in Assertion : Cells!Stored(known, b)}
        OBVIOUS
      <4>2. PICK said \in [earlier -> {"corrects", "supersedes", "contradicts", "nothing"}] :
              rels = {<<a, said[b], b>> : b \in {c \in earlier : said[c] # "nothing"}}
        BY <4>1 DEF Cells!Saying
      <4>3. \A r \in rels : \E b \in earlier :
              r = <<a, said[b], b>> /\ said[b] \in {"corrects", "supersedes", "contradicts"}
        BY <4>2
      <4> QED
        BY <3>1, <4>1, <4>3 DEF Cells!Relation
    <3> QED
      BY <3>1, <3>2 DEF Recording, CellInv
  <2>2. known' = Grown(known, a, row, rels)
    BY <1>2 DEF Cells!Record, Grown
  <2>3. PICK g : g = known'
    OBVIOUS
  <2>4. g = Grown(known, a, row, rels) /\ g \in Cells!Facts /\ Grounded(g)
    BY <2>1, <2>2, <2>3, GrownFacts
  <2>5. PICK mine : mine = Cells!KeyOf(row)
    OBVIOUS
  <2>6. mine \in Cells!Key
    BY <2>5 DEF Cells!KeyOf, Cells!Row, Cells!Key
  <2>7. PICK new : new = Cells!Maintained(g, state[mine], a, TakenBack(rels))
    OBVIOUS
  <2>8. state' = [state EXCEPT ![mine] = new]
    BY <1>2, <2>3, <2>5, <2>7 DEF Cells!Record, TakenBack
  <2>9. state[mine] \in Cell \cup {None}
    BY <2>6 DEF CellInv
  <2>10. new \in Cell
    BY <2>1, <2>4, <2>5, <2>6, <2>7, <2>9, MaintainedIsCell
  <2>11. state' \in [Cells!Key -> Cell \cup {None}]
    BY <2>8, <2>10 DEF CellInv
  <2>12. ASSUME NEW key \in Cells!Key, key[2] \notin Multi
         PROVE  CellTells(g, key, state'[key])
    <3>1. CellTells(known, key, state[key])
      BY <2>12 DEF CellInv
    <3>2. CASE key = mine
      <4>1. state'[key] = new
        BY <2>8, <3>2 DEF CellInv
      <4>2. CellTells(g, key, new)
        BY <2>1, <2>4, <2>5, <2>7, <2>9, <2>12, <3>1, <3>2, CellIsMaintained
      <4> QED
        BY <4>1, <4>2
    <3>3. CASE key # mine
      <4>1. state'[key] = state[key]
        BY <2>8, <3>3 DEF CellInv
      <4>2. Cells!OfKey(g, key) = Cells!OfKey(known, key)
            /\ Cells!Reconciled(g, key, Cells!OfKey(known, key))
                 = Cells!Reconciled(known, key, Cells!OfKey(known, key))
        BY <2>1, <2>4, <2>5, <3>3, GrownElsewhere
      <4> QED
        BY <3>1, <4>1, <4>2 DEF CellTells
    <3> QED
      BY <3>2, <3>3
  <2> QED
    BY <2>3, <2>4, <2>11, <2>12 DEF CellInv
<1> QED
  BY <1>1, <1>2 DEF Cells!Next

\* What was known by the n-th recording is reconciled as it was then: whatever
\* is recorded later replaces nothing in it.
LEMMA AnswersStand ==
  ASSUME NEW f \in Cells!Facts, NEW key \in Cells!Key, NEW n
  PROVE  Cells!AnswerAsOf(f, key, n)
           = Cells!Answer(Cells!Reconciled(Cells!RecordedBy(f, n), key,
                                           Cells!OfKey(Cells!RecordedBy(f, n), key)))
<1>1. PICK g : g = Cells!RecordedBy(f, n)
  OBVIOUS
<1>2. g.assertion = [b \in Assertion |-> IF b <= n THEN f.assertion[b] ELSE Cells!NoRow]
      /\ g.relations = {r \in f.relations : r[1] <= n}
  BY <1>1 DEF Cells!RecordedBy, Cells!Facts
<1>3. PICK S : S = Cells!OfKey(g, key)
  OBVIOUS
<1>4. Cells!KeyOf(Cells!NoRow) # key
  BY NoneAssumption DEF Cells!KeyOf, Cells!NoRow, Cells!Key
<1>5. S = Cells!VisibleBy(f, Cells!OfKey(f, key), n)
  BY <1>2, <1>3, <1>4 DEF Cells!OfKey, Cells!VisibleBy, Cells!Stored
<1>6. S \subseteq Assertion /\ \A b \in S : b <= n
  BY <1>5 DEF Cells!VisibleBy, Cells!OfKey
<1>7. \A s \in S : \A r, t : <<s, r, t>> \in g.relations <=> <<s, r, t>> \in f.relations
  BY <1>2, <1>6
<1>8. Cells!Replaced(g, S) = Cells!Replaced(f, S) /\ Cells!Replaced(f, S) \subseteq S
  BY <1>7 DEF Cells!Replaced
<1>9. PICK A : A = S \ Cells!Replaced(f, S)
  OBVIOUS
<1>10. {g.assertion[b].object : b \in A} = {f.assertion[b].object : b \in A}
  <2>1. \A b \in A : g.assertion[b] = f.assertion[b]
    BY <1>2, <1>6, <1>9
  <2> QED
    BY <2>1
<1>11. Cells!Reconciled(g, key, S) = Cells!Reconciled(f, key, S)
  BY <1>8, <1>9, <1>10 DEF Cells!Reconciled
<1> QED
  BY <1>1, <1>3, <1>5, <1>11 DEF Cells!AnswerAsOf

\* The invariant gives the answers.
LEMMA CellInvAnswers == CellInv => Cells!AnswersAreReconciled
<1> SUFFICES ASSUME CellInv PROVE Cells!AnswersAreReconciled
  OBVIOUS
<1>1. ASSUME NEW key \in Cells!Key, key[2] \notin Multi
      PROVE  Cells!AnswerFromPersistentState(key) = Cells!AnswerFromAssertions(key)
  <2>1. PICK R : R = Cells!Reconciled(known, key, Cells!OfKey(known, key))
    OBVIOUS
  <2>2. CellTells(known, key, state[key])
    BY <1>1 DEF CellInv
  <2>3. CASE Cells!OfKey(known, key) = {}
    <3>1. ActiveIn(known, key) = {}
      BY <2>3 DEF ActiveIn
    <3>2. R.active = {} /\ R.status = "unknown" /\ R.values = {}
      BY <1>1, <2>1, <2>3, <3>1 DEF Cells!Reconciled, ActiveIn
    <3>3. state[key] = None
      BY <2>2, <2>3 DEF CellTells
    <3> QED
      BY <2>1, <3>2, <3>3 DEF Cells!AnswerFromPersistentState, Cells!AnswerFromAssertions,
         Cells!Answer, Cells!NoCell
  <2>4. CASE Cells!OfKey(known, key) # {}
    <3>1. state[key] # None /\ state[key].status = R.status /\ state[key].values = R.values
      BY <2>1, <2>2, <2>4 DEF CellTells
    <3> QED
      BY <2>1, <3>1 DEF Cells!AnswerFromPersistentState, Cells!AnswerFromAssertions,
         Cells!Answer, Cells!NoCell
  <2> QED
    BY <2>3, <2>4
<1>2. \A key \in Cells!Key : \A n :
        Cells!AnswerAsOf(known, key, n)
          = Cells!Answer(Cells!Reconciled(Cells!RecordedBy(known, n), key,
                                          Cells!OfKey(Cells!RecordedBy(known, n), key)))
  BY AnswersStand DEF CellInv
<1> QED
  BY <1>1, <1>2 DEF Cells!AnswersAreReconciled

\* What is kept by increments answers as reconciling everything does, and what
\* was answered once is answered still: incremental.py:36-41.
THEOREM IncrementsReconcile ==
  ASSUME None \notin Cell
  PROVE  InMemorySpec => []AnswersAreReconciled
<1>1. InMemoryInit => CellInv
  BY CellInit DEF InMemoryInit
<1>2. CellInv /\ [InMemoryNext]_<<tvars, known, state, addressVars>> => CellInv'
  <2>1. [InMemoryNext]_<<tvars, known, state, addressVars>> => [Cells!Next]_(Cells!vars)
    BY DEF InMemoryNext, TablesStep, CellsStep, AddressStep, Cells!vars
  <2> QED
    BY <2>1, CellStep
<1>3. CellInv => AnswersAreReconciled
  BY CellInvAnswers DEF AnswersAreReconciled
<1> QED
  BY <1>1, <1>2, <1>3, PTL DEF InMemorySpec


-----------------------------------------------------------------------------
(* Folds over finite sets *)

\* Two functions of the subsets of a finite set that agree on the empty one, and
\* on any when they agree without one of its members, agree.
LEMMA FoldsAgree ==
  ASSUME NEW S, IsFiniteSet(S), NEW f, NEW g, f[{}] = g[{}],
         \A T \in SUBSET S : T # {} =>
           \E x \in T : f[T \ {x}] = g[T \ {x}] => f[T] = g[T]
  PROVE  f[S] = g[S]
<1> DEFINE B == {T \in SUBSET S : f[T] # g[T]}
           R == StrictSubsetOrdering(S)
<1>1. SUFFICES ASSUME B # {} PROVE FALSE
  OBVIOUS
<1>2. IsWellFoundedOn(R, FiniteSubsetsOf(S))
  BY FS_StrictSubsetOrderingWellFounded
<1>3. B \subseteq FiniteSubsetsOf(S)
  BY FS_Subset DEF FiniteSubsetsOf
<1> HIDE DEF R, B
<1>4. PICK T \in B : \A U \in B : ~(<<U, T>> \in R)
  BY <1>1, <1>2, <1>3, WFMin
<1>5. T \in SUBSET S /\ f[T] # g[T] /\ T # {}
  BY <1>4 DEF B
<1>6. PICK x \in T : f[T \ {x}] = g[T \ {x}] => f[T] = g[T]
  BY <1>5
<1>7. T \ {x} \in B
  BY <1>5, <1>6 DEF B
<1>8. <<T \ {x}, T>> \in R
  BY <1>5, <1>6 DEF R, StrictSubsetOrdering
<1> QED
  BY <1>4, <1>7, <1>8

\* The units that some worths are made of: as many as their sum.
Units(worth, T) == {p \in T \X Nat : 1 <= p[2] /\ p[2] <= worth[p[1]]}
SumOver(worth, T) == Cardinality(Units(worth, T))

Worths(worth, T) == \A x \in T : worth[x] \in Nat

LEMMA UnitsGrow ==
  ASSUME NEW worth, NEW T, NEW x, x \notin T, worth[x] \in Nat, IsFiniteSet(Units(worth, T))
  PROVE  /\ IsFiniteSet(Units(worth, T \cup {x}))
         /\ SumOver(worth, T \cup {x}) = SumOver(worth, T) + worth[x]
         /\ SumOver(worth, T) \in Nat
<1> DEFINE I == 1 .. worth[x]
           N == Units(worth, T)
           M == {x} \X I
<1>1. IsFiniteSet(I) /\ Cardinality(I) = worth[x]
  <2>1. \A n \in Nat : IsFiniteSet(1 .. n) /\ Cardinality(1 .. n) = n
    BY ONLY FS_Interval
  <2> QED
    BY <2>1
<1>2. Cardinality(N) \in Nat
  BY FS_CardinalityType
<1>3. Units(worth, T \cup {x}) = N \cup M
  BY DEF Units
<1>4. N \cap M = {}
  BY DEF Units
<1> DEFINE g == [i \in I |-> <<x, i>>]
<1>5. g \in Bijection(I, M)
  BY DEF Bijection, Injection, Surjection, IsInjective
<1>6. IsFiniteSet(M) /\ Cardinality(M) = Cardinality(I)
  <2> HIDE DEF I, M, g
  <2> QED
    BY <1>1, <1>5, FS_Bijection DEF ExistsBijection
<1> HIDE DEF N, M, I
<1>7. IsFiniteSet(N)
  BY DEF N
<1>8. IsFiniteSet(N \cup M) /\ Cardinality(N \cup M) = Cardinality(N) + Cardinality(M) - Cardinality(N \cap M)
  BY <1>6, <1>7, FS_Union
<1>9. Cardinality(N \cap M) = 0
  BY <1>4, FS_EmptySet
<1>10. Cardinality(N \cup M) = Cardinality(N) + worth[x]
  BY <1>1, <1>2, <1>6, <1>8, <1>9
<1> QED
  BY <1>2, <1>3, <1>8, <1>10 DEF SumOver, N

\* A sum over nothing.
LEMMA SumOfNone == ASSUME NEW worth PROVE Units(worth, {}) = {} /\ SumOver(worth, {}) = 0
<1>1. Units(worth, {}) = {}
  BY DEF Units
<1> QED
  BY <1>1, FS_EmptySet DEF SumOver

\* Sums over finite sets are numbers, and grow by what is added.
LEMMA UnitsFinite ==
  ASSUME NEW worth, NEW T, IsFiniteSet(T), Worths(worth, T)
  PROVE  IsFiniteSet(Units(worth, T))
<1> DEFINE P(U) == IsFiniteSet(Units(worth, U))
           f == [U \in SUBSET T |-> P(U)]
           g == [U \in SUBSET T |-> TRUE]
<1>1. f[{}] = g[{}]
  <2>1. IsFiniteSet(Units(worth, {}))
    BY SumOfNone, FS_EmptySet
  <2> QED
    BY <2>1
<1>2. \A U \in SUBSET T : U # {} => \E x \in U : f[U \ {x}] = g[U \ {x}] => f[U] = g[U]
  <2>1. SUFFICES ASSUME NEW U \in SUBSET T, NEW x \in U, P(U \ {x}) PROVE P(U)
    BY Zenon
  <2>2. x \notin U \ {x} /\ worth[x] \in Nat /\ (U \ {x}) \cup {x} = U
    BY <2>1 DEF Worths
  <2> QED
    BY <2>1, <2>2, UnitsGrow
<1>3. f[T] = g[T]
  <2> HIDE DEF f, g
  <2> QED
    BY <1>1, <1>2, FoldsAgree
<1> QED
  BY <1>3

LEMMA SumGrows ==
  ASSUME NEW worth, NEW T, IsFiniteSet(T), NEW x, x \notin T, Worths(worth, T \cup {x})
  PROVE  SumOver(worth, T \cup {x}) = SumOver(worth, T) + worth[x] /\ SumOver(worth, T) \in Nat
<1>1. Worths(worth, T) /\ worth[x] \in Nat
  BY DEF Worths
<1> QED
  BY <1>1, UnitsFinite, UnitsGrow

LEMMA SumIsNat ==
  ASSUME NEW worth, NEW T, IsFiniteSet(T), Worths(worth, T)
  PROVE  SumOver(worth, T) \in Nat
BY UnitsFinite, FS_CardinalityType DEF SumOver

\* A sum is positive when something in it is.
LEMMA SumPositive ==
  ASSUME NEW worth, NEW T, IsFiniteSet(T), Worths(worth, T)
  PROVE  SumOver(worth, T) > 0 <=> \E x \in T : worth[x] > 0
<1>1. IsFiniteSet(Units(worth, T)) /\ SumOver(worth, T) \in Nat
  BY UnitsFinite, SumIsNat
<1>2. SumOver(worth, T) = 0 <=> Units(worth, T) = {}
  BY <1>1, FS_EmptySet DEF SumOver
<1>3. Units(worth, T) = {} <=> ~ \E x \in T : worth[x] > 0
  <2>1. ASSUME NEW x \in T, worth[x] > 0 PROVE <<x, 1>> \in Units(worth, T)
    BY <2>1 DEF Units, Worths
  <2>2. ASSUME NEW p \in Units(worth, T) PROVE p[1] \in T /\ worth[p[1]] > 0
    BY DEF Units, Worths
  <2> QED
    BY <2>1, <2>2
<1> QED
  BY <1>1, <1>2, <1>3

\* Worths that agree have the same sum.
LEMMA SumDepends ==
  ASSUME NEW v, NEW w, NEW T, \A x \in T : v[x] = w[x]
  PROVE  SumOver(v, T) = SumOver(w, T)
<1>1. Units(v, T) = Units(w, T)
  BY DEF Units
<1> QED
  BY <1>1 DEF SumOver

\* Sums of two separate sets.
LEMMA SumOfBoth ==
  ASSUME NEW worth, NEW S, NEW T, IsFiniteSet(S), IsFiniteSet(T), S \cap T = {},
         Worths(worth, S), Worths(worth, T)
  PROVE  SumOver(worth, S \cup T) = SumOver(worth, S) + SumOver(worth, T)
<1> DEFINE A == Units(worth, S)
           B == Units(worth, T)
<1>1. IsFiniteSet(A) /\ IsFiniteSet(B) /\ Cardinality(A) \in Nat /\ Cardinality(B) \in Nat
  BY UnitsFinite, FS_CardinalityType
<1>2. A \cup B = Units(worth, S \cup T) /\ A \cap B = {}
  BY DEF Units
<1> HIDE DEF A, B
<1>3. Cardinality(A \cup B) = Cardinality(A) + Cardinality(B) - Cardinality(A \cap B)
  BY <1>1, FS_Union
<1>4. Cardinality(A \cap B) = 0
  BY <1>2, FS_EmptySet
<1>5. Cardinality(A \cup B) = Cardinality(A) + Cardinality(B)
  BY <1>1, <1>3, <1>4
<1> QED
  BY <1>2, <1>5 DEF SumOver, A, B

\* What SumFunction computes.
LEMMA SumIs ==
  ASSUME NEW worth, IsFiniteSet(DOMAIN worth), Worths(worth, DOMAIN worth)
  PROVE  SumFunction(worth) = SumOver(worth, DOMAIN worth)
<1> DEFINE S == DOMAIN worth
           Body(iter) ==
             [T \in SUBSET S |->
                IF T = {} THEN 0
                ELSE LET x == CHOOSE x \in T : TRUE IN worth[x] + iter[T \ {x}]]
           w == [T \in SUBSET S |-> SumOver(worth, T)]
<1>1. ASSUME NEW T \in SUBSET S, NEW x \in T
      PROVE  SumOver(worth, T) = worth[x] + SumOver(worth, T \ {x})
  <2>1. /\ IsFiniteSet(T \ {x}) /\ x \notin T \ {x} /\ (T \ {x}) \cup {x} = T
        /\ Worths(worth, (T \ {x}) \cup {x}) /\ worth[x] \in Nat
    BY FS_Subset DEF Worths
  <2>2. SumOver(worth, (T \ {x}) \cup {x}) = SumOver(worth, T \ {x}) + worth[x] /\ SumOver(worth, T \ {x}) \in Nat
    BY <2>1, SumGrows
  <2>3. SumOver(worth, T) = SumOver(worth, (T \ {x}) \cup {x})
    BY <2>1
  <2>4. worth[x] \in Nat
    BY <2>1
  <2> QED
    BY ONLY <2>2, <2>3, <2>4
<1> HIDE DEF S
<1>2. w = Body(w)
  <2>1. ASSUME NEW T \in SUBSET S
        PROVE  w[T] = Body(w)[T]
    <3>1. CASE T = {}
      BY <3>1, SumOfNone
    <3>2. CASE T # {}
      <4>1. PICK x : x = CHOOSE y \in T : TRUE
        OBVIOUS
      <4>2. x \in T
        BY <3>2, <4>1
      <4>3. SumOver(worth, T) = worth[x] + SumOver(worth, T \ {x})
        BY <1>1, <4>2
      <4>4. T \ {x} \in SUBSET S
        OBVIOUS
      <4> QED
        BY <3>2, <4>1, <4>3, <4>4
    <3> QED
      BY <3>1, <3>2
  <2> QED
    BY <2>1
<1> DEFINE chosen == CHOOSE iter : iter = Body(iter)
<1>3. chosen = Body(chosen)
  BY <1>2
<1>4. chosen[{}] = w[{}]
  BY <1>2, <1>3
<1>5. \A T \in SUBSET S : T # {} => \E x \in T : chosen[T \ {x}] = w[T \ {x}] => chosen[T] = w[T]
  <2> SUFFICES ASSUME NEW T \in SUBSET S, T # {}
               PROVE  \E x \in T : chosen[T \ {x}] = w[T \ {x}] => chosen[T] = w[T]
    OBVIOUS
  <2>1. PICK x : x = CHOOSE y \in T : TRUE
    OBVIOUS
  <2>2. x \in T
    BY <2>1
  <2>3. chosen[T] = worth[x] + chosen[T \ {x}]
    BY <1>3, <2>1
  <2>4. w[T] = worth[x] + w[T \ {x}]
    BY <1>1, <2>2
  <2> QED
    BY <2>2, <2>3, <2>4
<1>6. chosen[S] = w[S]
  <2> HIDE DEF w, chosen
  <2>1. IsFiniteSet(S)
    BY DEF S
  <2> QED
    BY <1>4, <1>5, <2>1, FoldsAgree
<1>7. SumFunction(worth) = chosen[S]
  BY <1>3 DEF SumFunction, SumFunctionOnSet, FoldFunctionOnSet, MapThenFoldSet, S
<1> QED
  BY <1>6, <1>7 DEF S

\* Texts of nothing have no words.
LEMMA WordsOfNothing ==
  ASSUME NEW texts, DOMAIN texts = {}
  PROVE  WordsOf(texts) = NoWords
<1> SUFFICES ASSUME NEW w \in Word
             PROVE  SumFunction([e \in DOMAIN texts |-> texts[e][w]]) = 0
  BY DEF WordsOf, NoWords
<1>1. PICK none : none = [e \in DOMAIN texts |-> texts[e][w]]
  OBVIOUS
<1>2. DOMAIN none = {} /\ IsFiniteSet(DOMAIN none) /\ Worths(none, DOMAIN none)
  BY <1>1, FS_EmptySet DEF Worths
<1> QED
  BY <1>1, <1>2, SumIs, SumOfNone

-----------------------------------------------------------------------------
(* The locality indexes *)

\* The assertions T of rows, and what they say.
Filled(rows, T) == /\ T \subseteq AssertionId
                   /\ \A a \in T : rows[a] \in FactRow

\* Where the rows of T mention e, in the rows about s.
Places(rows, T, e, s) ==
  {p \in T \X Nat : /\ rows[p[1]].subject = s
                    /\ p[2] \in DOMAIN rows[p[1]].evidence
                    /\ rows[p[1]].evidence[p[2]] = e}

KeysOf(rows, T)     == [key \in FactKey |-> {a \in T : FactKeyOf(rows[a]) = key}]
SubjectsOf(rows, T) == [s \in SubjectNumber |-> {a \in T : rows[a].subject = s}]
RefsOf(rows, T)     == [e \in EvidenceId |-> [s \in SubjectNumber |-> Cardinality(Places(rows, T, e, s))]]

\* The locality indexes of the assertions T.
Locality(rows, T) ==
  [byKey |-> KeysOf(rows, T), bySubject |-> SubjectsOf(rows, T), refs |-> RefsOf(rows, T)]

\* What a row is made of.
LEMMA RowParts ==
  ASSUME IndexConstants, NEW row \in FactRow
  PROVE  /\ row.subject \in SubjectNumber
         /\ row.predicate \in PredicateName
         /\ row.evidence \in Seq(EvidenceId)
         /\ FactKeyOf(row) \in FactKey
<1>1. row.subject \in SubjectNumber /\ row.predicate \in PredicateName /\ row.evidence \in Seq(EvidenceId)
  BY DEF FactRow, IndexConstants
<1> QED
  BY <1>1 DEF FactKeyOf, FactKey

\* A row mentions something a number of times.
LEMMA MentionsIs ==
  ASSUME IndexConstants, NEW row \in FactRow, NEW e
  PROVE  LET I == {i \in DOMAIN row.evidence : row.evidence[i] = e}
         IN  IsFiniteSet(I) /\ I \subseteq Nat /\ Mentions(row, e) = Cardinality(I)
               /\ Mentions(row, e) \in Nat
<1> DEFINE I == {i \in DOMAIN row.evidence : row.evidence[i] = e}
<1>1. DOMAIN row.evidence = 1 .. Len(row.evidence) /\ Len(row.evidence) \in Nat
  BY RowParts
<1>2. IsFiniteSet(I)
  <2>1. IsFiniteSet(1 .. Len(row.evidence))
    <3>1. 1 \in Int /\ Len(row.evidence) \in Int
      BY <1>1
    <3> QED
      BY <3>1, FS_Interval
  <2>2. I \subseteq 1 .. Len(row.evidence)
    BY <1>1
  <2> QED
    BY <2>1, <2>2, FS_Subset
<1>3. Cardinality(I) \in Nat
  BY <1>2, FS_CardinalityType
<1> QED
  BY <1>1, <1>2, <1>3 DEF Mentions

\* With one more assertion, as many more places as its row mentions.
LEMMA PlacesGrow ==
  ASSUME IndexConstants, NEW rows, NEW T, NEW a, a \notin T, rows[a] \in FactRow,
         NEW e, NEW s, IsFiniteSet(Places(rows, T, e, s))
  PROVE  /\ IsFiniteSet(Places(rows, T \cup {a}, e, s))
         /\ Cardinality(Places(rows, T \cup {a}, e, s))
              = Cardinality(Places(rows, T, e, s))
                  + (IF rows[a].subject = s THEN Mentions(rows[a], e) ELSE 0)
<1> DEFINE I == {i \in DOMAIN rows[a].evidence : rows[a].evidence[i] = e}
           N == Places(rows, T, e, s)
           M == {a} \X I
<1>1. IsFiniteSet(I) /\ I \subseteq Nat /\ Mentions(rows[a], e) = Cardinality(I)
        /\ Cardinality(I) \in Nat
  BY MentionsIs
<1>2. Cardinality(N) \in Nat
  BY FS_CardinalityType
<1>3. CASE rows[a].subject = s
  <2>1. Places(rows, T \cup {a}, e, s) = N \cup M
    BY <1>1, <1>3 DEF Places
  <2>2. N \cap M = {}
    BY DEF Places
  <2> DEFINE g == [i \in I |-> <<a, i>>]
  <2>3. g \in Bijection(I, M)
    BY DEF Bijection, Injection, Surjection, IsInjective
  <2>4. IsFiniteSet(M) /\ Cardinality(M) = Cardinality(I)
    <3> HIDE DEF I, M, g
    <3> QED
      BY <1>1, <2>3, FS_Bijection DEF ExistsBijection
  <2> HIDE DEF N, M, I
  <2>5. IsFiniteSet(N)
    BY DEF N
  <2>6. IsFiniteSet(N \cup M) /\ Cardinality(N \cup M) = Cardinality(N) + Cardinality(M) - Cardinality(N \cap M)
    BY <2>4, <2>5, FS_Union
  <2>7. Cardinality(N \cap M) = 0
    BY <2>2, FS_EmptySet
  <2>8. Cardinality(N \cup M) = Cardinality(N) + Cardinality(M)
    BY <1>1, <1>2, <2>4, <2>6, <2>7
  <2>9. IsFiniteSet(Places(rows, T \cup {a}, e, s))
    BY <2>1, <2>6
  <2>10. Cardinality(Places(rows, T \cup {a}, e, s)) = Cardinality(N) + Mentions(rows[a], e)
    BY <1>1, <2>1, <2>4, <2>8
  <2> QED
    BY <1>3, <2>9, <2>10 DEF N
<1>4. CASE rows[a].subject # s
  <2>1. Places(rows, T \cup {a}, e, s) = N
    BY <1>4 DEF Places
  <2> QED
    BY <1>2, <1>4, <2>1
<1> QED
  BY <1>3, <1>4
\* Nothing is in the indexes of no assertions.
LEMMA LocalityOfNothing ==
  ASSUME NEW rows
  PROVE  Locality(rows, {}) = NoIndexes
<1>1. KeysOf(rows, {}) = [key \in FactKey |-> {}]
  BY DEF KeysOf
<1>2. SubjectsOf(rows, {}) = [s \in SubjectNumber |-> {}]
  BY DEF SubjectsOf
<1>3. \A e, s : Cardinality(Places(rows, {}, e, s)) = 0
  <2> TAKE e, s
  <2>1. Places(rows, {}, e, s) = {}
    BY DEF Places
  <2> QED
    BY <2>1, FS_EmptySet
<1>4. RefsOf(rows, {}) = [e \in EvidenceId |-> [s \in SubjectNumber |-> 0]]
  BY <1>3 DEF RefsOf
<1> QED
  BY <1>1, <1>2, <1>4 DEF Locality, NoIndexes

\* The places of finitely many assertions are finitely many.
LEMMA PlacesFinite ==
  ASSUME IndexConstants, NEW rows, NEW T, Filled(rows, T), NEW e, NEW s
  PROVE  IsFiniteSet(Places(rows, T, e, s))
<1> DEFINE P(U) == IsFiniteSet(Places(rows, U, e, s))
           f == [U \in SUBSET T |-> P(U)]
           g == [U \in SUBSET T |-> TRUE]
<1>1. IsFiniteSet(T)
  BY FS_Subset DEF Filled, IndexConstants
<1>2. f[{}] = g[{}]
  <2>1. Places(rows, {}, e, s) = {}
    BY DEF Places
  <2> QED
    BY <2>1, FS_EmptySet
<1>3. \A U \in SUBSET T : U # {} => \E x \in U : f[U \ {x}] = g[U \ {x}] => f[U] = g[U]
  <2>1. SUFFICES ASSUME NEW U \in SUBSET T, NEW x \in U, P(U \ {x}) PROVE P(U)
    BY Zenon
  <2>2. x \notin U \ {x} /\ rows[x] \in FactRow /\ (U \ {x}) \cup {x} = U
    BY <2>1 DEF Filled
  <2> QED
    BY <2>1, <2>2, PlacesGrow
<1>4. f[T] = g[T]
  <2> HIDE DEF f, g
  <2> QED
    BY <1>1, <1>2, <1>3, FoldsAgree
<1> QED
  BY <1>4

\* Adding an assertion gives the indexes with it.
LEMMA AddedIs ==
  ASSUME IndexConstants, NEW rows, NEW T, NEW a, a \notin T, Filled(rows, T \cup {a})
  PROVE  AddIndexes(Locality(rows, T), a, rows[a]) = Locality(rows, T \cup {a})
<1> DEFINE row == rows[a]
<1>1. row \in FactRow /\ Filled(rows, T)
  BY DEF Filled
<1>2. row.subject \in SubjectNumber /\ FactKeyOf(row) \in FactKey
  BY <1>1, RowParts
<1>3. [KeysOf(rows, T) EXCEPT ![FactKeyOf(row)] = @ \cup {a}] = KeysOf(rows, T \cup {a})
  <2>1. \A key \in FactKey : {x \in T \cup {a} : FactKeyOf(rows[x]) = key}
                         = {x \in T : FactKeyOf(rows[x]) = key} \cup (IF key = FactKeyOf(row) THEN {a} ELSE {})
    OBVIOUS
  <2> QED
    BY <1>2, <2>1 DEF KeysOf
<1>4. [SubjectsOf(rows, T) EXCEPT ![row.subject] = @ \cup {a}] = SubjectsOf(rows, T \cup {a})
  <2>1. \A s \in SubjectNumber : {x \in T \cup {a} : rows[x].subject = s}
                           = {x \in T : rows[x].subject = s} \cup (IF s = row.subject THEN {a} ELSE {})
    OBVIOUS
  <2> QED
    BY <1>2, <2>1 DEF SubjectsOf
<1>5. \A e, s : Cardinality(Places(rows, T \cup {a}, e, s))
                  = Cardinality(Places(rows, T, e, s)) + (IF row.subject = s THEN Mentions(row, e) ELSE 0)
  BY <1>1, PlacesFinite, PlacesGrow
<1>6. \A e, s : Cardinality(Places(rows, T, e, s)) \in Nat
  BY <1>1, PlacesFinite, FS_CardinalityType
<1>7. \A e \in EvidenceId : [RefsOf(rows, T)[e] EXCEPT ![row.subject] = @ + Mentions(row, e)]
                          = RefsOf(rows, T \cup {a})[e]
  <2> SUFFICES ASSUME NEW e \in EvidenceId
               PROVE  [[s \in SubjectNumber |-> Cardinality(Places(rows, T, e, s))]
                         EXCEPT ![row.subject] = @ + Mentions(row, e)]
                      = [s \in SubjectNumber |-> Cardinality(Places(rows, T \cup {a}, e, s))]
    BY DEF RefsOf
  <2> DEFINE before == [s \in SubjectNumber |-> Cardinality(Places(rows, T, e, s))]
             after  == [s \in SubjectNumber |-> Cardinality(Places(rows, T \cup {a}, e, s))]
             more   == [before EXCEPT ![row.subject] = @ + Mentions(row, e)]
  <2>1. \A s \in SubjectNumber : before[s] \in Nat
    BY <1>6
  <2>2. \A s \in SubjectNumber :
          after[s] = before[s] + (IF row.subject = s THEN Mentions(row, e) ELSE 0)
    BY <1>5
  <2>3. DOMAIN before = SubjectNumber
    OBVIOUS
  <2>4. after = [s \in SubjectNumber |-> after[s]]
    OBVIOUS
  <2> HIDE DEF before, after
  <2>5. \A s \in SubjectNumber : more[s] = after[s]
    BY <2>1, <2>2, <2>3
  <2>6. more = [s \in SubjectNumber |-> more[s]]
    BY <2>3
  <2> HIDE DEF more
  <2>7. more = after
    BY <2>4, <2>5, <2>6
  <2> QED
    BY <2>7 DEF more, before, after
<1>8. [e \in EvidenceId |-> [RefsOf(rows, T)[e] EXCEPT ![row.subject] = @ + Mentions(row, e)]]
      = RefsOf(rows, T \cup {a})
  BY <1>7 DEF RefsOf
<1> HIDE DEF row
<1> QED
  BY <1>3, <1>4, <1>8 DEF AddIndexes, Locality, row

\* Removing one gives the indexes without it.
LEMMA RemovedIs ==
  ASSUME IndexConstants, NEW rows, NEW T, Filled(rows, T), NEW a \in T
  PROVE  RemoveIndexes(Locality(rows, T), a, rows[a]) = Locality(rows, T \ {a})
<1> DEFINE row == rows[a]
           R == T \ {a}
<1>1. row \in FactRow /\ Filled(rows, R) /\ a \notin R /\ R \cup {a} = T
  BY DEF Filled
<1>2. row.subject \in SubjectNumber /\ FactKeyOf(row) \in FactKey
  BY <1>1, RowParts
<1>3. [KeysOf(rows, T) EXCEPT ![FactKeyOf(row)] = @ \ {a}] = KeysOf(rows, R)
  <2>1. \A key \in FactKey : {x \in R : FactKeyOf(rows[x]) = key}
                         = {x \in T : FactKeyOf(rows[x]) = key} \ (IF key = FactKeyOf(row) THEN {a} ELSE {})
    OBVIOUS
  <2> QED
    BY <1>2, <2>1 DEF KeysOf
<1>4. [SubjectsOf(rows, T) EXCEPT ![row.subject] = @ \ {a}] = SubjectsOf(rows, R)
  <2>1. \A s \in SubjectNumber : {x \in R : rows[x].subject = s}
                           = {x \in T : rows[x].subject = s} \ (IF s = row.subject THEN {a} ELSE {})
    OBVIOUS
  <2> QED
    BY <1>2, <2>1 DEF SubjectsOf
<1>5. \A e, s : Cardinality(Places(rows, T, e, s))
                  = Cardinality(Places(rows, R, e, s)) + (IF row.subject = s THEN Mentions(row, e) ELSE 0)
  BY <1>1, PlacesFinite, PlacesGrow
<1>6. \A e, s : Cardinality(Places(rows, R, e, s)) \in Nat
  BY <1>1, PlacesFinite, FS_CardinalityType
<1>7. \A e : Mentions(row, e) \in Nat
  BY <1>1, MentionsIs
<1>8. \A e \in EvidenceId : [RefsOf(rows, T)[e] EXCEPT ![row.subject] =
                             IF @ <= Mentions(row, e) THEN 0 ELSE @ - Mentions(row, e)]
                          = RefsOf(rows, R)[e]
  <2> SUFFICES ASSUME NEW e \in EvidenceId
               PROVE  [[s \in SubjectNumber |-> Cardinality(Places(rows, T, e, s))]
                         EXCEPT ![row.subject] = IF @ <= Mentions(row, e) THEN 0 ELSE @ - Mentions(row, e)]
                      = [s \in SubjectNumber |-> Cardinality(Places(rows, R, e, s))]
    BY DEF RefsOf
  <2> HIDE DEF R, row
  <2>1. ASSUME NEW s \in SubjectNumber
        PROVE  Cardinality(Places(rows, R, e, s))
               = IF s = row.subject
                 THEN IF Cardinality(Places(rows, T, e, s)) <= Mentions(row, e)
                      THEN 0 ELSE Cardinality(Places(rows, T, e, s)) - Mentions(row, e)
                 ELSE Cardinality(Places(rows, T, e, s))
    BY <1>5, <1>6, <1>7
  <2> QED
    BY <1>2, <2>1
<1>9. [e \in EvidenceId |-> [RefsOf(rows, T)[e] EXCEPT ![row.subject] =
                             IF @ <= Mentions(row, e) THEN 0 ELSE @ - Mentions(row, e)]]
      = RefsOf(rows, R)
  BY <1>8 DEF RefsOf
<1> HIDE DEF row
<1> QED
  BY <1>3, <1>4, <1>9 DEF RemoveIndexes, Locality, row

\* The indexes of T depend on the rows of T alone.
LEMMA LocalityDepends ==
  ASSUME NEW r, NEW q, NEW T, \A a \in T : r[a] = q[a]
  PROVE  Locality(r, T) = Locality(q, T)
<1>1. \A e, s : Places(r, T, e, s) = Places(q, T, e, s)
  BY DEF Places
<1>2. KeysOf(r, T) = KeysOf(q, T) /\ SubjectsOf(r, T) = SubjectsOf(q, T)
  BY DEF KeysOf, SubjectsOf
<1>3. RefsOf(r, T) = RefsOf(q, T)
  BY <1>1 DEF RefsOf
<1> QED
  BY <1>2, <1>3 DEF Locality

\* Rebuilding them gives the indexes of what is stored.
LEMMA LocalityRebuilt ==
  ASSUME IndexConstants, NEW st, Filled(st.assertion, StoredIn(st))
  PROVE  RebuiltIndexes(st) = Locality(st.assertion, StoredIn(st))
<1> DEFINE S == StoredIn(st)
           rows == st.assertion
           Body(iter) ==
             [T \in SUBSET S |->
                IF T = {} THEN NoIndexes
                ELSE LET x == CHOOSE x \in T : TRUE IN AddIndexes(iter[T \ {x}], x, rows[x])]
           w == [T \in SUBSET S |-> Locality(rows, T)]
<1>1. ASSUME NEW T \in SUBSET S, T # {}, NEW x \in T
      PROVE  Locality(rows, T) = AddIndexes(Locality(rows, T \ {x}), x, rows[x])
  <2>1. Filled(rows, (T \ {x}) \cup {x}) /\ x \notin T \ {x} /\ (T \ {x}) \cup {x} = T
    BY <1>1 DEF Filled
  <2> QED
    BY <2>1, AddedIs
<1> HIDE DEF S, rows
<1>2. w = Body(w)
  <2>1. ASSUME NEW T \in SUBSET S
        PROVE  w[T] = Body(w)[T]
    <3>1. CASE T = {}
      BY <3>1, LocalityOfNothing
    <3>2. CASE T # {}
      <4>1. PICK x : x = CHOOSE y \in T : TRUE
        OBVIOUS
      <4>2. x \in T
        BY <3>2, <4>1
      <4>3. Locality(rows, T) = AddIndexes(Locality(rows, T \ {x}), x, rows[x])
        BY <1>1, <3>2, <4>2
      <4>4. T \ {x} \in SUBSET S
        OBVIOUS
      <4> QED
        BY <3>2, <4>1, <4>3, <4>4
    <3> QED
      BY <3>1, <3>2
  <2> QED
    BY <2>1
<1> DEFINE chosen == CHOOSE iter : iter = Body(iter)
<1>3. chosen = Body(chosen)
  BY <1>2
<1>4. chosen[{}] = w[{}]
  BY <1>2, <1>3
<1>5. \A T \in SUBSET S : T # {} => \E x \in T : chosen[T \ {x}] = w[T \ {x}] => chosen[T] = w[T]
  <2> SUFFICES ASSUME NEW T \in SUBSET S, T # {}
               PROVE  \E x \in T : chosen[T \ {x}] = w[T \ {x}] => chosen[T] = w[T]
    OBVIOUS
  <2>1. PICK x : x = CHOOSE y \in T : TRUE
    OBVIOUS
  <2>2. x \in T
    BY <2>1
  <2>3. chosen[T] = AddIndexes(chosen[T \ {x}], x, rows[x])
    BY <1>3, <2>1
  <2>4. w[T] = AddIndexes(w[T \ {x}], x, rows[x])
    BY <1>1, <2>2
  <2> QED
    BY <2>2, <2>3, <2>4
<1>6. IsFiniteSet(S)
  BY FS_Subset DEF IndexConstants, Filled, S
<1>7. chosen[S] = w[S]
  <2> HIDE DEF w
  <2> QED
    BY <1>4, <1>5, <1>6, FoldsAgree
<1>8. RebuiltIndexes(st) = chosen[S]
  BY <1>3 DEF RebuiltIndexes, FoldSet, MapThenFoldSet, S, rows
<1> QED
  BY <1>7, <1>8 DEF S, rows
-----------------------------------------------------------------------------
(* The profile index *)

OnSubjects(f) == f = [s \in SubjectNumber |-> f[s]]

PostingsOf(pr)        == UNION {Features(pr[s]) \X {s} : s \in SubjectNumber}
ByPredicateOf(pr, pd) == UNION {Features(pr[s]) \X pd[s] \X {s} : s \in SubjectNumber}

\* The index whose subjects have these profiles, predicates and evidence.
IndexOf(pr, pd, ev) ==
  [profiles |-> pr, predicates |-> pd, evidence |-> ev,
   postings |-> PostingsOf(pr), byPredicate |-> ByPredicateOf(pr, pd)]

\* What the subjects T have in st, in place of what they had.
ProfilesWith(st, pr, T)   == [s \in SubjectNumber |-> IF s \in T THEN SnapshotSubject(st, s).profile ELSE pr[s]]
PredicatesWith(st, pd, T) == [s \in SubjectNumber |-> IF s \in T THEN SnapshotSubject(st, s).predicates ELSE pd[s]]
EvidenceWith(st, ev, T)   == [s \in SubjectNumber |-> IF s \in T THEN SnapshotSubject(st, s).evidence ELSE ev[s]]

IndexWith(st, pr, pd, ev, T) ==
  IndexOf(ProfilesWith(st, pr, T), PredicatesWith(st, pd, T), EvidenceWith(st, ev, T))

\* The index of st.
IndexFor(st) ==
  IndexOf([s \in SubjectNumber |-> SnapshotSubject(st, s).profile],
          [s \in SubjectNumber |-> SnapshotSubject(st, s).predicates],
          [s \in SubjectNumber |-> SnapshotSubject(st, s).evidence])

Together(P) == UNION {P[t] : t \in SubjectNumber}

\* Patching the part of one subject replaces that part: no other's is touched.
LEMMA PatchedIs ==
  ASSUME NEW P, NEW Q, NEW s \in SubjectNumber,
         \A t \in SubjectNumber : t # s => Q[t] = P[t] /\ P[t] \cap (P[s] \cup Q[s]) = {}
  PROVE  Patched(Together(P), P[s], Q[s]) = Together(Q)
<1>1. ASSUME NEW x
      PROVE  x \in Patched(Together(P), P[s], Q[s]) <=> x \in Together(Q)
  <2>1. x \in Together(P) <=> \E t \in SubjectNumber : x \in P[t]
    BY DEF Together
  <2>2. x \in Together(Q) <=> \E t \in SubjectNumber : x \in Q[t]
    BY DEF Together
  <2>3. \A t \in SubjectNumber : t # s => (x \in Q[t] <=> x \in P[t]) /\ ~(x \in P[t] /\ x \in P[s] \cup Q[s])
    OBVIOUS
  <2> QED
    BY <2>1, <2>2, <2>3 DEF Patched
<1> QED
  BY <1>1

\* Refreshing one subject replaces what the index says of it.
LEMMA RefreshedOne ==
  ASSUME NEW st, NEW s \in SubjectNumber, NEW pr, NEW pd, NEW ev,
         OnSubjects(pr), OnSubjects(pd), OnSubjects(ev)
  PROVE  RefreshSubject(st, IndexOf(pr, pd, ev), s)
         = IndexOf([pr EXCEPT ![s] = SnapshotSubject(st, s).profile],
                   [pd EXCEPT ![s] = SnapshotSubject(st, s).predicates],
                   [ev EXCEPT ![s] = SnapshotSubject(st, s).evidence])
<1>1. PICK now : now = SnapshotSubject(st, s)
  OBVIOUS
<1>2. PICK qr : qr = [pr EXCEPT ![s] = now.profile]
  OBVIOUS
<1>3. PICK qd : qd = [pd EXCEPT ![s] = now.predicates]
  OBVIOUS
<1>4. /\ qr[s] = now.profile /\ qd[s] = now.predicates
      /\ \A t \in SubjectNumber : t # s => qr[t] = pr[t] /\ qd[t] = pd[t]
  BY <1>2, <1>3 DEF OnSubjects
<1>5. Patched(PostingsOf(pr), Features(pr[s]) \X {s}, Features(now.profile) \X {s}) = PostingsOf(qr)
  <2> DEFINE P == [t \in SubjectNumber |-> Features(pr[t]) \X {t}]
             Q == [t \in SubjectNumber |-> Features(qr[t]) \X {t}]
  <2>1. \A t \in SubjectNumber : t # s => Q[t] = P[t] /\ P[t] \cap (P[s] \cup Q[s]) = {}
    BY <1>4
  <2>2. Patched(Together(P), P[s], Q[s]) = Together(Q)
    <3> HIDE DEF P, Q
    <3>1. s \in SubjectNumber
      OBVIOUS
    <3> QED
      BY ONLY <2>1, <3>1, PatchedIs
  <2>3. Together(P) = PostingsOf(pr)
    BY DEF PostingsOf, Together
  <2>4. Together(Q) = PostingsOf(qr)
    BY DEF PostingsOf, Together
  <2> QED
    BY <1>4, <2>2, <2>3, <2>4
<1>6. Patched(ByPredicateOf(pr, pd), Features(pr[s]) \X pd[s] \X {s},
              Features(now.profile) \X now.predicates \X {s}) = ByPredicateOf(qr, qd)
  <2> DEFINE P == [t \in SubjectNumber |-> Features(pr[t]) \X pd[t] \X {t}]
             Q == [t \in SubjectNumber |-> Features(qr[t]) \X qd[t] \X {t}]
  <2>1. \A t \in SubjectNumber : t # s => Q[t] = P[t] /\ P[t] \cap (P[s] \cup Q[s]) = {}
    BY <1>4
  <2>2. Patched(Together(P), P[s], Q[s]) = Together(Q)
    <3> HIDE DEF P, Q
    <3>1. s \in SubjectNumber
      OBVIOUS
    <3> QED
      BY ONLY <2>1, <3>1, PatchedIs
  <2>3. Together(P) = ByPredicateOf(pr, pd)
    BY DEF ByPredicateOf, Together
  <2>4. Together(Q) = ByPredicateOf(qr, qd)
    BY DEF ByPredicateOf, Together
  <2> QED
    BY <1>4, <2>2, <2>3, <2>4
<1> QED
  BY <1>1, <1>2, <1>3, <1>5, <1>6 DEF RefreshSubject, IndexOf

\* Refreshing some subjects replaces what the index says of each.
LEMMA RefreshedIs ==
  ASSUME IndexConstants, NEW st, NEW S \in SUBSET SubjectNumber, NEW pr, NEW pd, NEW ev,
         OnSubjects(pr), OnSubjects(pd), OnSubjects(ev)
  PROVE  Refreshed(st, IndexOf(pr, pd, ev), S) = IndexWith(st, pr, pd, ev, S)
<1> DEFINE ix == IndexOf(pr, pd, ev)
           Body(iter) ==
             [T \in SUBSET S |->
                IF T = {} THEN ix
                ELSE LET x == CHOOSE x \in T : TRUE IN RefreshSubject(st, iter[T \ {x}], x)]
           w == [T \in SUBSET S |-> IndexWith(st, pr, pd, ev, T)]
<1>1. ASSUME NEW T \in SUBSET S, NEW x \in T
      PROVE  IndexWith(st, pr, pd, ev, T) = RefreshSubject(st, IndexWith(st, pr, pd, ev, T \ {x}), x)
  <2>1. PICK qr : qr = ProfilesWith(st, pr, T \ {x})
    OBVIOUS
  <2>2. PICK qd : qd = PredicatesWith(st, pd, T \ {x})
    OBVIOUS
  <2>3. PICK qe : qe = EvidenceWith(st, ev, T \ {x})
    OBVIOUS
  <2>4. OnSubjects(qr) /\ OnSubjects(qd) /\ OnSubjects(qe) /\ x \in SubjectNumber
    BY <2>1, <2>2, <2>3 DEF ProfilesWith, PredicatesWith, EvidenceWith, OnSubjects
  <2>5. RefreshSubject(st, IndexOf(qr, qd, qe), x)
        = IndexOf([qr EXCEPT ![x] = SnapshotSubject(st, x).profile],
                  [qd EXCEPT ![x] = SnapshotSubject(st, x).predicates],
                  [qe EXCEPT ![x] = SnapshotSubject(st, x).evidence])
    BY <2>4, RefreshedOne
  <2>6. [qr EXCEPT ![x] = SnapshotSubject(st, x).profile] = ProfilesWith(st, pr, T)
    BY <2>1, <2>4 DEF ProfilesWith
  <2>7. [qd EXCEPT ![x] = SnapshotSubject(st, x).predicates] = PredicatesWith(st, pd, T)
    BY <2>2, <2>4 DEF PredicatesWith
  <2>8. [qe EXCEPT ![x] = SnapshotSubject(st, x).evidence] = EvidenceWith(st, ev, T)
    BY <2>3, <2>4 DEF EvidenceWith
  <2> QED
    BY <2>1, <2>2, <2>3, <2>5, <2>6, <2>7, <2>8 DEF IndexWith
<1>2. IndexWith(st, pr, pd, ev, {}) = ix
  <2>1. ProfilesWith(st, pr, {}) = pr
    BY DEF ProfilesWith, OnSubjects
  <2>2. PredicatesWith(st, pd, {}) = pd
    BY DEF PredicatesWith, OnSubjects
  <2>3. EvidenceWith(st, ev, {}) = ev
    BY DEF EvidenceWith, OnSubjects
  <2> QED
    BY <2>1, <2>2, <2>3 DEF IndexWith
<1> HIDE DEF ix
<1>3. w = Body(w)
  <2>1. ASSUME NEW T \in SUBSET S
        PROVE  w[T] = Body(w)[T]
    <3>1. CASE T = {}
      BY <1>2, <3>1
    <3>2. CASE T # {}
      <4>1. PICK x : x = CHOOSE y \in T : TRUE
        OBVIOUS
      <4>2. x \in T
        BY <3>2, <4>1
      <4>3. IndexWith(st, pr, pd, ev, T) = RefreshSubject(st, IndexWith(st, pr, pd, ev, T \ {x}), x)
        BY <1>1, <4>2
      <4>4. T \ {x} \in SUBSET S
        OBVIOUS
      <4> QED
        BY <3>2, <4>1, <4>3, <4>4
    <3> QED
      BY <3>1, <3>2
  <2> QED
    BY <2>1
<1> DEFINE chosen == CHOOSE iter : iter = Body(iter)
<1>4. chosen = Body(chosen)
  BY <1>3
<1>5. chosen[{}] = w[{}]
  BY <1>3, <1>4
<1>6. \A T \in SUBSET S : T # {} => \E x \in T : chosen[T \ {x}] = w[T \ {x}] => chosen[T] = w[T]
  <2> SUFFICES ASSUME NEW T \in SUBSET S, T # {}
               PROVE  \E x \in T : chosen[T \ {x}] = w[T \ {x}] => chosen[T] = w[T]
    OBVIOUS
  <2>1. PICK x : x = CHOOSE y \in T : TRUE
    OBVIOUS
  <2>2. x \in T
    BY <2>1
  <2>3. chosen[T] = RefreshSubject(st, chosen[T \ {x}], x)
    BY <1>4, <2>1
  <2>4. w[T] = RefreshSubject(st, w[T \ {x}], x)
    BY <1>1, <2>2
  <2> QED
    BY <2>2, <2>3, <2>4
<1>7. IsFiniteSet(S)
  BY FS_Subset DEF IndexConstants
<1>8. chosen[S] = w[S]
  <2> HIDE DEF w, chosen
  <2> QED
    BY <1>5, <1>6, <1>7, FoldsAgree
<1>9. Refreshed(st, ix, S) = chosen[S]
  BY <1>4 DEF Refreshed, FoldSet, MapThenFoldSet
<1> QED
  BY <1>8, <1>9 DEF ix

\* Refreshing the subjects that changed gives the index of the new facts.
LEMMA RefreshedFor ==
  ASSUME IndexConstants, NEW st, NEW new, NEW S \in SUBSET SubjectNumber,
         \A s \in SubjectNumber \ S : SnapshotSubject(new, s) = SnapshotSubject(st, s)
  PROVE  Refreshed(new, IndexFor(st), S) = IndexFor(new)
<1>1. PICK pr : pr = [s \in SubjectNumber |-> SnapshotSubject(st, s).profile]
  OBVIOUS
<1>2. PICK pd : pd = [s \in SubjectNumber |-> SnapshotSubject(st, s).predicates]
  OBVIOUS
<1>3. PICK ev : ev = [s \in SubjectNumber |-> SnapshotSubject(st, s).evidence]
  OBVIOUS
<1>4. OnSubjects(pr) /\ OnSubjects(pd) /\ OnSubjects(ev)
  BY <1>1, <1>2, <1>3 DEF OnSubjects
<1>5. Refreshed(new, IndexOf(pr, pd, ev), S) = IndexWith(new, pr, pd, ev, S)
  BY <1>4, RefreshedIs
<1>6. ProfilesWith(new, pr, S) = [s \in SubjectNumber |-> SnapshotSubject(new, s).profile]
  BY <1>1 DEF ProfilesWith
<1>7. PredicatesWith(new, pd, S) = [s \in SubjectNumber |-> SnapshotSubject(new, s).predicates]
  BY <1>2 DEF PredicatesWith
<1>8. EvidenceWith(new, ev, S) = [s \in SubjectNumber |-> SnapshotSubject(new, s).evidence]
  BY <1>3 DEF EvidenceWith
<1> QED
  BY <1>1, <1>2, <1>3, <1>5, <1>6, <1>7, <1>8 DEF IndexFor, IndexWith

\* A subject without assertions has an empty profile.
LEMMA NoAssertionsNoProfile ==
  ASSUME NEW st, NEW s, AssertionsForSubject(st, s) = {}
  PROVE  SnapshotSubject(st, s) = [profile |-> NoWords, predicates |-> {}, evidence |-> {}]
<1> DEFINE rows  == {st.assertion[a] : a \in AssertionsForSubject(st, s)}
           named == UNION {Range(r.evidence) : r \in rows}
           texts == [e \in {x \in named : st.evidence[x] # NoName} |-> st.evidence[e]]
<1>1. rows = {} /\ named = {} /\ {r.predicate : r \in rows} = {}
  OBVIOUS
<1>2. DOMAIN texts = {}
  BY <1>1
<1>3. WordsOf(texts) = NoWords
  <2> HIDE DEF texts
  <2> QED
    BY <1>2, WordsOfNothing
<1> QED
  BY <1>1, <1>3 DEF SnapshotSubject

\* Nothing is in the empty index, as in the index of facts without assertions.
LEMMA EmptyIndexIs ==
  EmptyIndex = IndexOf([s \in SubjectNumber |-> NoWords], [s \in SubjectNumber |-> {}], [s \in SubjectNumber |-> {}])
<1> DEFINE pr == [s \in SubjectNumber |-> NoWords]
           pd == [s \in SubjectNumber |-> {}]
<1>1. Features(NoWords) = {}
  <2>1. WordsIn(NoWords) = {}
    BY DEF WordsIn, NoWords
  <2> QED
    BY <2>1 DEF Features
<1>2. PostingsOf(pr) = {}
  BY <1>1 DEF PostingsOf
<1>3. ByPredicateOf(pr, pd) = {}
  BY <1>1 DEF ByPredicateOf
<1> QED
  BY <1>2, <1>3 DEF EmptyIndex, IndexOf

\* The index built from nothing is the index of the facts.
LEMMA BuiltIs ==
  ASSUME IndexConstants, NEW st
  PROVE  Built(st) = IndexFor(st)
<1>1. PICK pr : pr = [s \in SubjectNumber |-> NoWords]
  OBVIOUS
<1>2. PICK pd : pd = [s \in SubjectNumber |-> {}]
  OBVIOUS
<1>3. PICK K : K = SubjectIds(st)
  OBVIOUS
<1>4. K \in SUBSET SubjectNumber /\ OnSubjects(pr) /\ OnSubjects(pd)
  BY <1>1, <1>2, <1>3 DEF SubjectIds, OnSubjects
<1>5. Refreshed(st, IndexOf(pr, pd, pd), K) = IndexWith(st, pr, pd, pd, K)
  BY <1>4, RefreshedIs
<1>6. \A s \in SubjectNumber : s \notin K =>
        SnapshotSubject(st, s) = [profile |-> NoWords, predicates |-> {}, evidence |-> {}]
  BY <1>3, NoAssertionsNoProfile DEF SubjectIds
<1>7. ProfilesWith(st, pr, K) = [s \in SubjectNumber |-> SnapshotSubject(st, s).profile]
  BY <1>1, <1>6 DEF ProfilesWith
<1>8. PredicatesWith(st, pd, K) = [s \in SubjectNumber |-> SnapshotSubject(st, s).predicates]
  BY <1>2, <1>6 DEF PredicatesWith
<1>9. EvidenceWith(st, pd, K) = [s \in SubjectNumber |-> SnapshotSubject(st, s).evidence]
  BY <1>2, <1>6 DEF EvidenceWith
<1> QED
  BY <1>1, <1>2, <1>3, <1>5, <1>7, <1>8, <1>9, EmptyIndexIs DEF Built, IndexFor, IndexWith
-----------------------------------------------------------------------------
(* The facts *)

StoreWith(evidence, assertion) ==
  [evidence |-> evidence, assertion |-> assertion,
   locality |-> Locality(assertion, {a \in AssertionId : assertion[a] # NoName})]

Texts      == [EvidenceId -> Text \cup {NoName}]
Assertions == [AssertionId -> FactRow \cup {NoName}]

\* The facts with their locality indexes, and their profile index.
IndexInv ==
  \E evidence \in Texts : \E assertion \in Assertions :
    /\ store = StoreWith(evidence, assertion)
    /\ index = IndexFor(store)

\* The parts of such a store.
LEMMA StoreParts ==
  ASSUME IndexConstants, NEW evidence \in Texts, NEW assertion \in Assertions,
         NEW st, st = StoreWith(evidence, assertion)
  PROVE  /\ st.evidence = evidence /\ st.assertion = assertion
         /\ st.locality = Locality(assertion, StoredIn(st))
         /\ Filled(assertion, StoredIn(st))
         /\ \A a \in AssertionId : a \in StoredIn(st) <=> assertion[a] # NoName
<1>1. st.evidence = evidence /\ st.assertion = assertion
      /\ st.locality = Locality(assertion, {a \in AssertionId : assertion[a] # NoName})
  BY DEF StoreWith
<1>2. StoredIn(st) = {a \in AssertionId : assertion[a] # NoName}
  BY <1>1 DEF StoredIn
<1> QED
  BY <1>1, <1>2 DEF Filled, Assertions

\* The assertions of a subject are those whose rows are about it.
LEMMA AssertionsOf ==
  ASSUME IndexConstants, NEW evidence \in Texts, NEW assertion \in Assertions,
         NEW s \in SubjectNumber
  PROVE  AssertionsForSubject(StoreWith(evidence, assertion), s)
         = {a \in AssertionId : assertion[a] # NoName /\ assertion[a].subject = s}
BY DEF AssertionsForSubject, StoreWith, Locality, SubjectsOf

\* What a subject's profile is made from: its rows, and the texts they name.
RowsOf(assertion, s) == {assertion[a] : a \in {b \in AssertionId : assertion[b] # NoName /\ assertion[b].subject = s}}

\* Facts that agree on them give the subject the same profile.
LEMMA SnapshotDepends ==
  ASSUME IndexConstants, NEW e1 \in Texts, NEW e2 \in Texts, NEW a1 \in Assertions, NEW a2 \in Assertions,
         NEW s \in SubjectNumber, RowsOf(a1, s) = RowsOf(a2, s),
         \A r \in RowsOf(a1, s) : \A e \in Range(r.evidence) : e1[e] = e2[e]
  PROVE  SnapshotSubject(StoreWith(e1, a1), s) = SnapshotSubject(StoreWith(e2, a2), s)
<1> DEFINE HeldRows(assertion) == {b \in AssertionId : assertion[b] # NoName /\ assertion[b].subject = s}
           R == RowsOf(a1, s)
           N == UNION {Range(r.evidence) : r \in R}
           T(evidence) == [e \in {x \in N : evidence[x] # NoName} |-> evidence[e]]
           Made(evidence) ==
             [profile |-> WordsOf(T(evidence)), predicates |-> {r.predicate : r \in R}, evidence |-> N]
<1>1. R = RowsOf(a2, s)
  OBVIOUS
<1>2. \A e \in N : e1[e] = e2[e]
  OBVIOUS
<1>3. T(e1) = T(e2)
  BY <1>2
<1>4. ASSUME NEW evidence \in Texts, NEW assertion \in Assertions, R = RowsOf(assertion, s)
      PROVE  SnapshotSubject(StoreWith(evidence, assertion), s) = Made(evidence)
  <2>1. PICK st : st = StoreWith(evidence, assertion)
    OBVIOUS
  <2>2. st.evidence = evidence /\ st.assertion = assertion
    BY <2>1 DEF StoreWith
  <2>3. AssertionsForSubject(st, s) = HeldRows(assertion)
    BY <2>1, AssertionsOf
  <2>4. {st.assertion[a] : a \in AssertionsForSubject(st, s)} = R
    BY <1>4, <2>2, <2>3 DEF RowsOf
  <2> HIDE DEF R
  <2>5. SnapshotSubject(st, s) = Made(evidence)
    BY <2>2, <2>4 DEF SnapshotSubject
  <2> QED
    BY <2>1, <2>5
<1>5. SnapshotSubject(StoreWith(e1, a1), s) = Made(e1)
  BY <1>4
<1>6. SnapshotSubject(StoreWith(e2, a2), s) = Made(e2)
  BY <1>1, <1>4
<1> QED
  BY <1>3, <1>5, <1>6

\* What changes with a text: the subjects whose rows name it.
LEMMA TextReaches ==
  ASSUME IndexConstants, NEW evidence \in Texts, NEW assertion \in Assertions,
         NEW e \in EvidenceId, NEW text \in Text \cup {NoName},
         NEW s \in SubjectNumber, s \notin SubjectsForEvidence(StoreWith(evidence, assertion), e)
  PROVE  SnapshotSubject(StoreWith([evidence EXCEPT ![e] = text], assertion), s)
         = SnapshotSubject(StoreWith(evidence, assertion), s)
<1> DEFINE S == {a \in AssertionId : assertion[a] # NoName}
           P == Places(assertion, S, e, s)
<1>1. Filled(assertion, S)
  BY DEF Filled, Assertions
<1>2. IsFiniteSet(P)
  BY <1>1, PlacesFinite
<1>3. StoreWith(evidence, assertion).locality.refs[e][s] = Cardinality(P)
  BY DEF StoreWith, Locality, RefsOf
<1>4. ~(Cardinality(P) > 0)
  BY <1>3 DEF SubjectsForEvidence
<1>5. P = {}
  <2> HIDE DEF P
  <2>1. Cardinality(P) \in Nat
    BY <1>2, FS_CardinalityType
  <2> QED
    BY <1>2, <1>4, <2>1, FS_EmptySet
<1>6. \A r \in RowsOf(assertion, s) : e \notin Range(r.evidence)
  <2> SUFFICES ASSUME NEW a \in S, assertion[a].subject = s, e \in Range(assertion[a].evidence)
               PROVE  FALSE
    BY DEF RowsOf
  <2>1. PICK i \in DOMAIN assertion[a].evidence : assertion[a].evidence[i] = e
    BY DEF Range
  <2>2. assertion[a].evidence \in Seq(EvidenceId)
    BY <1>1, RowParts DEF Filled
  <2>3. i \in Nat
    BY <2>1, <2>2
  <2>4. <<a, i>> \in P
    BY <2>1, <2>3 DEF Places
  <2> QED
    BY <1>5, <2>4
<1>7. [evidence EXCEPT ![e] = text] \in Texts
  BY DEF Texts
<1>8. PICK new : new = [evidence EXCEPT ![e] = text]
  OBVIOUS
<1>9. new \in Texts /\ \A x : x # e => new[x] = evidence[x]
  BY <1>7, <1>8 DEF Texts
<1>10. \A r \in RowsOf(assertion, s) : \A x \in Range(r.evidence) : new[x] = evidence[x]
  BY <1>6, <1>9
<1>11. SnapshotSubject(StoreWith(new, assertion), s) = SnapshotSubject(StoreWith(evidence, assertion), s)
  BY ONLY IndexConstants, <1>9, <1>10, SnapshotDepends, evidence \in Texts, assertion \in Assertions, s \in SubjectNumber
<1> QED
  BY <1>8, <1>11

\* What changes with an assertion: the subjects of its old row and its new one.
LEMMA RowReaches ==
  ASSUME IndexConstants, NEW evidence \in Texts, NEW assertion \in Assertions,
         NEW a \in AssertionId, NEW row \in FactRow \cup {NoName},
         NEW s \in SubjectNumber, row # NoName => row.subject # s,
         assertion[a] # NoName => assertion[a].subject # s
  PROVE  SnapshotSubject(StoreWith(evidence, [assertion EXCEPT ![a] = row]), s)
         = SnapshotSubject(StoreWith(evidence, assertion), s)
<1>1. PICK new : new = [assertion EXCEPT ![a] = row]
  OBVIOUS
<1>2. new \in Assertions /\ new[a] = row /\ \A b \in AssertionId : b # a => new[b] = assertion[b]
  BY <1>1 DEF Assertions
<1>3. RowsOf(new, s) = RowsOf(assertion, s)
  <2>1. \A b \in AssertionId : (new[b] # NoName /\ new[b].subject = s)
                             <=> (assertion[b] # NoName /\ assertion[b].subject = s)
    BY <1>2
  <2>2. \A b \in AssertionId : new[b] # NoName /\ new[b].subject = s => new[b] = assertion[b]
    BY <1>2
  <2> QED
    BY <2>1, <2>2 DEF RowsOf
<1>4. SnapshotSubject(StoreWith(evidence, new), s) = SnapshotSubject(StoreWith(evidence, assertion), s)
  <2>1. \A r \in RowsOf(new, s) : \A e \in Range(r.evidence) : evidence[e] = evidence[e]
    OBVIOUS
  <2> QED
    BY ONLY IndexConstants, <1>2, <1>3, <2>1, SnapshotDepends, evidence \in Texts, assertion \in Assertions, s \in SubjectNumber
<1> QED
  BY <1>1, <1>4

\* The store's operations give the store of the new facts.
LEMMA TextStored ==
  ASSUME NEW evidence \in Texts, NEW assertion \in Assertions, NEW e \in EvidenceId, NEW text
  PROVE  [StoreWith(evidence, assertion) EXCEPT !.evidence[e] = text]
         = StoreWith([evidence EXCEPT ![e] = text], assertion)
<1>1. PICK loc : loc = Locality(assertion, {a \in AssertionId : assertion[a] # NoName})
  OBVIOUS
<1>2. StoreWith(evidence, assertion) = [evidence |-> evidence, assertion |-> assertion, locality |-> loc]
  BY <1>1 DEF StoreWith
<1>3. StoreWith([evidence EXCEPT ![e] = text], assertion)
      = [evidence |-> [evidence EXCEPT ![e] = text], assertion |-> assertion, locality |-> loc]
  BY <1>1 DEF StoreWith
<1> QED
  BY <1>2, <1>3

LEMMA RowRemoved ==
  ASSUME IndexConstants, NEW evidence \in Texts, NEW assertion \in Assertions, NEW a \in AssertionId
  PROVE  RemoveAssertion(StoreWith(evidence, assertion), a)
         = StoreWith(evidence, [assertion EXCEPT ![a] = NoName])
<1> DEFINE S == {b \in AssertionId : assertion[b] # NoName}
<1>1. PICK st : st = StoreWith(evidence, assertion)
  OBVIOUS
<1>2. PICK new : new = [assertion EXCEPT ![a] = NoName]
  OBVIOUS
<1>3. new \in Assertions /\ new[a] = NoName /\ \A b \in AssertionId : b # a => new[b] = assertion[b]
  BY <1>2 DEF Assertions
<1>4. st = [evidence |-> evidence, assertion |-> assertion, locality |-> Locality(assertion, S)]
  BY <1>1 DEF StoreWith
<1>5. {b \in AssertionId : new[b] # NoName} = S \ {a}
  BY <1>3
<1>6. Locality(new, S \ {a}) = Locality(assertion, S \ {a})
  <2>1. \A b \in S \ {a} : new[b] = assertion[b]
    BY <1>3
  <2> QED
    BY ONLY <2>1, LocalityDepends
<1>7. (IF assertion[a] = NoName THEN Locality(assertion, S) ELSE RemoveIndexes(Locality(assertion, S), a, assertion[a]))
      = Locality(assertion, S \ {a})
  <2>1. CASE assertion[a] = NoName
    <3>1. S \ {a} = S
      BY <2>1
    <3> QED
      BY <2>1, <3>1
  <2>2. CASE assertion[a] # NoName
    <3>1. a \in S /\ Filled(assertion, S)
      BY <2>2 DEF Filled, Assertions
    <3>2. RemoveIndexes(Locality(assertion, S), a, assertion[a]) = Locality(assertion, S \ {a})
      BY ONLY IndexConstants, <3>1, RemovedIs
    <3> QED
      BY <2>2, <3>2
  <2> QED
    BY <2>1, <2>2
<1>8. PICK loc : loc = Locality(assertion, S \ {a})
  OBVIOUS
<1>9. RemoveAssertion(st, a) = [evidence |-> evidence, assertion |-> new, locality |-> loc]
  <2> HIDE DEF S
  <2>1. RemoveAssertion(st, a)
        = [st EXCEPT !.assertion = new, !.locality = loc]
    BY <1>2, <1>4, <1>7, <1>8 DEF RemoveAssertion
  <2> QED
    BY <1>4, <2>1
<1>10. StoreWith(evidence, new) = [evidence |-> evidence, assertion |-> new, locality |-> loc]
  BY <1>5, <1>6, <1>8 DEF StoreWith
<1> QED
  BY <1>1, <1>2, <1>9, <1>10

LEMMA RowAdded ==
  ASSUME IndexConstants, NEW evidence \in Texts, NEW assertion \in Assertions, NEW a \in AssertionId,
         NEW row \in FactRow
  PROVE  AddAssertion(StoreWith(evidence, assertion), a, row)
         = StoreWith(evidence, [assertion EXCEPT ![a] = row])
<1> DEFINE S == {b \in AssertionId : assertion[b] # NoName}
<1>1. PICK st : st = StoreWith(evidence, assertion)
  OBVIOUS
<1>2. PICK new : new = [assertion EXCEPT ![a] = row]
  OBVIOUS
<1>3. /\ new \in Assertions /\ new[a] = row
      /\ \A b \in AssertionId : b # a => new[b] = assertion[b]
  BY <1>2 DEF Assertions
<1>4. PICK less : less = [assertion EXCEPT ![a] = NoName]
  OBVIOUS
<1>5. less[a] = NoName /\ \A b \in AssertionId : b # a => less[b] = assertion[b]
  BY <1>4 DEF Assertions
<1>6. st.evidence = evidence /\ st.assertion = assertion
      /\ st = [evidence |-> evidence, assertion |-> assertion, locality |-> st.locality]
  BY <1>1 DEF StoreWith
<1>7. RemoveAssertion(st, a) = StoreWith(evidence, less)
  BY <1>1, <1>4, RowRemoved
<1>8. {b \in AssertionId : less[b] # NoName} = S \ {a}
  BY <1>5
<1>9. RemoveAssertion(st, a).locality = Locality(less, S \ {a})
  BY <1>7, <1>8 DEF StoreWith
<1>10. Locality(less, S \ {a}) = Locality(new, S \ {a})
  <2>1. \A b \in S \ {a} : less[b] = new[b]
    BY <1>3, <1>5
  <2> QED
    BY ONLY <2>1, LocalityDepends
<1>11. NoName # row
  BY DEF IndexConstants, FactRow
<1>12. {b \in AssertionId : new[b] # NoName} = (S \ {a}) \cup {a}
  BY <1>3, <1>11
<1>13. AddIndexes(Locality(new, S \ {a}), a, new[a]) = Locality(new, (S \ {a}) \cup {a})
  <2>1. a \notin S \ {a} /\ Filled(new, (S \ {a}) \cup {a})
    BY <1>3, <1>12 DEF Filled, Assertions
  <2> QED
    BY ONLY IndexConstants, <2>1, AddedIs
<1>14. PICK loc : loc = Locality(new, (S \ {a}) \cup {a})
  OBVIOUS
<1>15. AddIndexes(RemoveAssertion(st, a).locality, a, row) = loc
  BY <1>3, <1>9, <1>10, <1>13, <1>14
<1>16. AddAssertion(st, a, row) = [evidence |-> evidence, assertion |-> new, locality |-> loc]
  <2>1. AddAssertion(st, a, row) = [st EXCEPT !.assertion = new, !.locality = loc]
    BY <1>2, <1>6, <1>15 DEF AddAssertion
  <2> QED
    BY <1>6, <2>1
<1>17. StoreWith(evidence, new) = [evidence |-> evidence, assertion |-> new, locality |-> loc]
  BY <1>12, <1>14 DEF StoreWith
<1> QED
  BY <1>1, <1>2, <1>16, <1>17

-----------------------------------------------------------------------------
(* The invariant *)

\* No facts, and nothing in the indexes.
LEMMA IndexInit == ASSUME IndexConstants, AddressInit PROVE IndexInv
<1> DEFINE evidence == [e \in EvidenceId |-> NoName]
           assertion == [a \in AssertionId |-> NoName]
<1>1. evidence \in Texts /\ assertion \in Assertions
  BY DEF Texts, Assertions
<1>2. {a \in AssertionId : assertion[a] # NoName} = {}
  OBVIOUS
<1>3. store = StoreWith(evidence, assertion)
  BY <1>2, LocalityOfNothing DEF AddressInit, StoreWith
<1>4. \A s \in SubjectNumber : SnapshotSubject(store, s) = [profile |-> NoWords, predicates |-> {}, evidence |-> {}]
  <2> TAKE s \in SubjectNumber
  <2>1. AssertionsForSubject(store, s) = {}
    BY <1>1, <1>3, AssertionsOf
  <2> QED
    BY <2>1, NoAssertionsNoProfile
<1>5. IndexFor(store) = EmptyIndex
  <2>1. [s \in SubjectNumber |-> SnapshotSubject(store, s).profile] = [s \in SubjectNumber |-> NoWords]
    BY <1>4
  <2>2. [s \in SubjectNumber |-> SnapshotSubject(store, s).predicates] = [s \in SubjectNumber |-> {}]
    BY <1>4
  <2>3. [s \in SubjectNumber |-> SnapshotSubject(store, s).evidence] = [s \in SubjectNumber |-> {}]
    BY <1>4
  <2> QED
    BY <2>1, <2>2, <2>3, EmptyIndexIs DEF IndexFor
<1> QED
  BY <1>1, <1>3, <1>5 DEF AddressInit, IndexInv

\* A call that changes the facts, and refreshes what it reaches, keeps both.
LEMMA CallKeeps ==
  ASSUME IndexConstants, NEW evidence \in Texts, NEW assertion \in Assertions, NEW st,
         NEW S \in SUBSET SubjectNumber,
         \A s \in SubjectNumber \ S : SnapshotSubject(StoreWith(evidence, assertion), s) = SnapshotSubject(st, s),
         store' = StoreWith(evidence, assertion), index' = Refreshed(store', IndexFor(st), S)
  PROVE  IndexInv'
<1>1. PICK new : new = StoreWith(evidence, assertion)
  OBVIOUS
<1>2. Refreshed(new, IndexFor(st), S) = IndexFor(new)
  BY <1>1, RefreshedFor
<1> QED
  BY <1>1, <1>2 DEF IndexInv

LEMMA TextKeeps ==
  ASSUME IndexConstants, IndexInv, NEW e \in EvidenceId, NEW text \in Text \cup {NoName},
         store' = [store EXCEPT !.evidence[e] = text],
         index' = Refreshed(store', index, SubjectsForEvidence(store, e))
  PROVE  IndexInv'
<1>1. PICK evidence \in Texts, assertion \in Assertions :
        store = StoreWith(evidence, assertion) /\ index = IndexFor(store)
  BY DEF IndexInv
<1>2. PICK new : new = [evidence EXCEPT ![e] = text]
  OBVIOUS
<1>3. new \in Texts
  BY <1>2 DEF Texts
<1>4. store' = StoreWith(new, assertion)
  <2>1. store' = [StoreWith(evidence, assertion) EXCEPT !.evidence[e] = text]
    BY <1>1
  <2>2. [StoreWith(evidence, assertion) EXCEPT !.evidence[e] = text] = StoreWith(new, assertion)
    <3>1. [StoreWith(evidence, assertion) EXCEPT !.evidence[e] = text]
          = StoreWith([evidence EXCEPT ![e] = text], assertion)
      BY ONLY evidence \in Texts, assertion \in Assertions, e \in EvidenceId, TextStored
    <3> QED
      BY <1>2, <3>1
  <2> QED
    BY <2>1, <2>2
<1>5. PICK S : S = SubjectsForEvidence(store, e)
  OBVIOUS
<1>6. PICK st : st = store
  OBVIOUS
<1>7. S \in SUBSET SubjectNumber
  BY <1>5 DEF SubjectsForEvidence
<1>8. \A s \in SubjectNumber \ S : SnapshotSubject(StoreWith(new, assertion), s) = SnapshotSubject(st, s)
  <2> TAKE s \in SubjectNumber \ S
  <2>1. s \notin SubjectsForEvidence(StoreWith(evidence, assertion), e) /\ s \in SubjectNumber
    BY <1>1, <1>5
  <2>2. SnapshotSubject(StoreWith([evidence EXCEPT ![e] = text], assertion), s)
        = SnapshotSubject(StoreWith(evidence, assertion), s)
    BY <2>1, TextReaches
  <2> QED
    BY <1>1, <1>2, <1>6, <2>2
<1>9. index' = Refreshed(store', IndexFor(st), S)
  BY <1>1, <1>5, <1>6
<1> QED
  BY ONLY IndexConstants, <1>3, assertion \in Assertions, <1>7, <1>8, <1>4, <1>9, CallKeeps

LEMMA RowKeeps ==
  ASSUME IndexConstants, IndexInv, NEW a \in AssertionId, NEW row \in FactRow \cup {NoName}, NEW S,
         store' = IF row = NoName THEN RemoveAssertion(store, a) ELSE AddAssertion(store, a, row),
         S = (IF row = NoName THEN {} ELSE {row.subject})
               \cup (IF store.assertion[a] = NoName THEN {} ELSE {store.assertion[a].subject}),
         index' = Refreshed(store', index, S)
  PROVE  IndexInv'
<1>1. PICK evidence \in Texts, assertion \in Assertions :
        store = StoreWith(evidence, assertion) /\ index = IndexFor(store)
  BY DEF IndexInv
<1>2. PICK new : new = [assertion EXCEPT ![a] = row]
  OBVIOUS
<1>3. new \in Assertions
  BY <1>2 DEF Assertions
<1>4. store' = StoreWith(evidence, new)
  <2>1. CASE row = NoName
    <3>1. RemoveAssertion(StoreWith(evidence, assertion), a) = StoreWith(evidence, new)
      BY <1>2, <2>1, RowRemoved
    <3> QED
      BY <1>1, <2>1, <3>1
  <2>2. CASE row # NoName
    <3>1. AddAssertion(StoreWith(evidence, assertion), a, row) = StoreWith(evidence, new)
      <4>1. row \in FactRow
        BY <2>2
      <4>2. AddAssertion(StoreWith(evidence, assertion), a, row)
            = StoreWith(evidence, [assertion EXCEPT ![a] = row])
        BY ONLY IndexConstants, evidence \in Texts, assertion \in Assertions, a \in AssertionId, <4>1, RowAdded
      <4> QED
        BY <1>2, <4>2
    <3> QED
      BY <1>1, <2>2, <3>1
  <2> QED
    BY <2>1, <2>2
<1>5. store.assertion = assertion
  BY <1>1 DEF StoreWith
<1>6. PICK st : st = store
  OBVIOUS
<1>7. S \in SUBSET SubjectNumber
  <2>1. row # NoName => row.subject \in SubjectNumber
    BY RowParts
  <2>2. assertion[a] # NoName => assertion[a].subject \in SubjectNumber
    BY RowParts DEF Assertions
  <2> QED
    BY <1>5, <2>1, <2>2
<1>8. \A s \in SubjectNumber \ S : SnapshotSubject(StoreWith(evidence, new), s) = SnapshotSubject(st, s)
  <2> TAKE s \in SubjectNumber \ S
  <2>1. s \in SubjectNumber /\ (row # NoName => row.subject # s) /\ (assertion[a] # NoName => assertion[a].subject # s)
    BY <1>5
  <2>2. SnapshotSubject(StoreWith(evidence, [assertion EXCEPT ![a] = row]), s)
        = SnapshotSubject(StoreWith(evidence, assertion), s)
    BY <2>1, RowReaches
  <2> QED
    BY <1>1, <1>2, <1>6, <2>2
<1>9. index' = Refreshed(store', IndexFor(st), S)
  BY <1>1, <1>6
<1> QED
  BY ONLY IndexConstants, <1>3, evidence \in Texts, <1>7, <1>8, <1>4, <1>9, CallKeeps

\* Every call keeps it.
LEMMA IndexStep == ASSUME IndexConstants, IndexInv, [AddressNext]_addressVars PROVE IndexInv'
<1>1. ASSUME NEW e \in EvidenceId, EvidenceDeleted(e) PROVE IndexInv'
  <2>1. store' = [store EXCEPT !.evidence[e] = NoName]
        /\ index' = Refreshed(store', index, SubjectsForEvidence(store, e))
    BY <1>1 DEF EvidenceDeleted, RemoveEvidence
  <2> QED
    BY <2>1, TextKeeps
<1>2. ASSUME NEW e \in EvidenceId, NEW text \in Text, EvidenceUpserted(e, text) PROVE IndexInv'
  <2>1. store' = [store EXCEPT !.evidence[e] = text]
        /\ index' = Refreshed(store', index, SubjectsForEvidence(store, e))
    BY <1>2 DEF EvidenceUpserted, AddEvidence
  <2> QED
    BY <2>1, TextKeeps
<1>3. ASSUME NEW a \in AssertionId, AssertionDeleted(a) PROVE IndexInv'
  <2>1. PICK S : S = {store.assertion[a].subject}
    OBVIOUS
  <2>2. PICK row : row = NoName
    OBVIOUS
  <2>3. /\ store' = RemoveAssertion(store, a) /\ store.assertion[a] # NoName
        /\ index' = Refreshed(store', index, S)
    BY <1>3, <2>1 DEF AssertionDeleted
  <2>4. /\ row \in FactRow \cup {NoName}
        /\ store' = IF row = NoName THEN RemoveAssertion(store, a) ELSE AddAssertion(store, a, row)
        /\ S = (IF row = NoName THEN {} ELSE {row.subject})
               \cup (IF store.assertion[a] = NoName THEN {} ELSE {store.assertion[a].subject})
    BY <2>1, <2>2, <2>3
  <2> QED
    BY <2>3, <2>4, RowKeeps
<1>4. ASSUME NEW a \in AssertionId, NEW row \in FactRow, AssertionUpserted(a, row) PROVE IndexInv'
  <2>1. PICK S : S = {row.subject} \cup (IF store.assertion[a] = NoName THEN {} ELSE {store.assertion[a].subject})
    OBVIOUS
  <2>2. NoName # row
    BY DEF IndexConstants, FactRow
  <2>3. /\ store' = AddAssertion(store, a, row)
        /\ index' = Refreshed(store', index, S)
    BY <1>4, <2>1 DEF AssertionUpserted
  <2>4. /\ store' = IF row = NoName THEN RemoveAssertion(store, a) ELSE AddAssertion(store, a, row)
        /\ S = (IF row = NoName THEN {} ELSE {row.subject})
               \cup (IF store.assertion[a] = NoName THEN {} ELSE {store.assertion[a].subject})
    BY <2>1, <2>2, <2>3
  <2> QED
    BY <2>3, <2>4, RowKeeps
<1>5. CASE UNCHANGED addressVars
  BY <1>5 DEF addressVars, IndexInv
<1> QED
  BY <1>1, <1>2, <1>3, <1>4, <1>5 DEF AddressNext

\* The invariant says what the property says.
LEMMA IndexInvRebuilt == ASSUME IndexConstants, IndexInv PROVE IndexIsRebuilt
<1>1. PICK evidence \in Texts, assertion \in Assertions :
        store = StoreWith(evidence, assertion) /\ index = IndexFor(store)
  BY DEF IndexInv
<1>2. PICK st : st = store
  OBVIOUS
<1>3. /\ st.assertion = assertion /\ st.locality = Locality(assertion, StoredIn(st))
      /\ Filled(assertion, StoredIn(st))
  BY <1>1, <1>2, StoreParts
<1>4. RebuiltIndexes(st) = Locality(st.assertion, StoredIn(st))
  BY <1>3, LocalityRebuilt
<1>5. Built(st) = IndexFor(st)
  BY BuiltIs
<1> QED
  BY <1>1, <1>2, <1>3, <1>4, <1>5 DEF IndexIsRebuilt

\* What the process does is a step of the index, or leaves it alone.
LEMMA AddressOf ==
  [InMemoryNext]_<<tvars, known, state, addressVars>> => [AddressNext]_addressVars
BY DEF InMemoryNext, TablesStep, CellsStep, AddressStep

\* However facts are inserted, replaced, moved and deleted (core/storage.py and
\* rag/maintenance.py), the locality indexes are what rebuilding them makes and
\* the profile index is the one built from nothing.
THEOREM IndexFollowsFacts == ASSUME IndexConstants PROVE InMemorySpec => []IndexIsRebuilt
<1>1. InMemoryInit => IndexInv
  BY IndexInit DEF InMemoryInit
<1>2. IndexInv /\ [InMemoryNext]_<<tvars, known, state, addressVars>> => IndexInv'
  BY AddressOf, IndexStep
<1>3. IndexInv => IndexIsRebuilt
  BY IndexInvRebuilt
<1> QED
  BY <1>1, <1>2, <1>3, PTL DEF InMemorySpec

-----------------------------------------------------------------------------
(* The planner: what it finds in the index is what a scan would find *)

\* What the index says: the words of each subject and its predicates, where a
\* subject without predicates has no words.
Known(P, D) ==
  /\ P \in [SubjectNumber -> [Word -> Nat]]
  /\ D \in [SubjectNumber -> SUBSET PredicateName]
  /\ \A s \in SubjectNumber : D[s] = {} => P[s] = NoWords

\* A question that can be asked.
Askable(q) ==
  /\ q.words \in Seq(Word) /\ q.predicate \in PredicateName \cup {NoName}
  /\ q.candidates \in Nat /\ q.broad \in Nat

\* The subjects a scan considers, and those of them with the word w.
HoldersIn(D, q) ==
  {s \in SubjectNumber : IF q.predicate = NoName THEN D[s] # {} ELSE q.predicate \in D[s]}
Has(P, D, q, w) == \E t \in HoldersIn(D, q) : P[t][w] > 0

\* What a word is worth.
WorthOf(P, w) == Idf[Cardinality({t \in SubjectNumber : P[t] # NoWords})][Cardinality({t \in SubjectNumber : P[t][w] > 0})]

\* The features of a profile by their kinds.
LEMMA TokenFeature ==
  ASSUME NEW profile \in [Word -> Nat], NEW w \in Word
  PROVE  <<"token", w>> \in Features(profile) <=> profile[w] > 0
BY DEF Features, WordsIn

LEMMA NoFeatures == Features(NoWords) = {}
<1>1. WordsIn(NoWords) = {}
  BY DEF WordsIn, NoWords
<1> QED
  BY <1>1 DEF Features

\* A posting is the holders with that feature.
LEMMA PostingIs ==
  ASSUME PlanConstants, NEW P, NEW D, NEW ev, Known(P, D), NEW q, Askable(q), NEW f
  PROVE  Posting(IndexOf(P, D, ev), f, q.predicate) = {s \in HoldersIn(D, q) : f \in Features(P[s])}
<1> DEFINE ix == IndexOf(P, D, ev)
<1>1. \A s \in SubjectNumber : f \in Features(P[s]) => D[s] # {}
  BY NoFeatures DEF Known
<1>2. CASE q.predicate = NoName
  <2>1. \A s \in SubjectNumber : <<f, s>> \in ix.postings <=> f \in Features(P[s])
    BY DEF IndexOf, PostingsOf
  <2> QED
    BY <1>1, <1>2, <2>1 DEF Posting, HoldersIn
<1>3. CASE q.predicate # NoName
  <2>1. \A s \in SubjectNumber : <<f, q.predicate, s>> \in ix.byPredicate <=> f \in Features(P[s]) /\ q.predicate \in D[s]
    BY DEF IndexOf, ByPredicateOf
  <2> QED
    BY <1>1, <1>3, <2>1 DEF Posting, HoldersIn
<1> QED
  BY <1>2, <1>3

\* Every subject is a holder for the postings of no predicate.
LEMMA PostingOfAll ==
  ASSUME PlanConstants, NEW P, NEW D, NEW ev, Known(P, D), NEW w \in Word
  PROVE  Posting(IndexOf(P, D, ev), <<"token", w>>, NoName) = {t \in SubjectNumber : P[t][w] > 0}
<1> DEFINE ix == IndexOf(P, D, ev)
<1>1. \A s \in SubjectNumber : <<<<"token", w>>, s>> \in ix.postings <=> <<"token", w>> \in Features(P[s])
  BY DEF IndexOf, PostingsOf
<1>2. \A s \in SubjectNumber : <<"token", w>> \in Features(P[s]) <=> P[s][w] > 0
  BY TokenFeature DEF Known
<1> QED
  BY <1>1, <1>2 DEF Posting

\* What a word is worth to the index is a positive number, and the scan's.
LEMMA WorthIs ==
  ASSUME PlanConstants, NEW P, NEW D, NEW ev, Known(P, D), NEW w \in Word
  PROVE  /\ IdfForToken(IndexOf(P, D, ev), w) = WorthOf(P, w)
         /\ WorthOf(P, w) \in Nat /\ WorthOf(P, w) > 0
<1> DEFINE all == {t \in SubjectNumber : P[t] # NoWords}
           some == {t \in SubjectNumber : P[t][w] > 0}
<1>1. IsFiniteSet(SubjectNumber) /\ IsFiniteSet(all) /\ IsFiniteSet(some)
  BY FS_Subset DEF PlanConstants, IndexConstants
<1>2. some \subseteq all
  BY DEF NoWords, Known
<1>3. Cardinality(some) \in Nat /\ Cardinality(all) \in Nat /\ Cardinality(SubjectNumber) \in Nat
  BY <1>1, FS_CardinalityType
<1>4. Cardinality(some) <= Cardinality(all)
  BY <1>1, <1>2, FS_Subset
<1>5. Cardinality(all) <= Cardinality(SubjectNumber)
  BY <1>1, FS_Subset
<1>6. IdfForToken(IndexOf(P, D, ev), w) = WorthOf(P, w)
  BY PostingOfAll DEF IdfForToken, WorthOf, TotalSubjects, IndexOf
<1> HIDE DEF all, some
<1>7. Idf[Cardinality(all)][Cardinality(some)] \in Nat \ {0}
  BY <1>3, <1>4, <1>5 DEF PlanConstants
<1> QED
  BY <1>6, <1>7 DEF WorthOf, all, some

\* A word is looked up by itself when some holder has it.
LEMMA MissingIs ==
  ASSUME PlanConstants, NEW P, NEW D, NEW ev, Known(P, D), NEW q, Askable(q), NEW w \in Word
  PROVE  Posting(IndexOf(P, D, ev), <<"token", w>>, q.predicate) = {} <=> ~Has(P, D, q, w)
<1>1. \A s \in SubjectNumber : <<"token", w>> \in Features(P[s]) <=> P[s][w] > 0
  BY TokenFeature DEF Known
<1>2. Posting(IndexOf(P, D, ev), <<"token", w>>, q.predicate)
      = {s \in HoldersIn(D, q) : <<"token", w>> \in Features(P[s])}
  BY PostingIs
<1> QED
  BY <1>1, <1>2 DEF Has, HoldersIn

-----------------------------------------------------------------------------
(* The lookups of one word *)

TokenOf(P, q, i)  == [at |-> i, feature |-> <<"token", q.words[i]>>, worth |-> 4 * WorthOf(P, q.words[i])]
FragmentOf(i, f)  == [at |-> i, feature |-> <<"fragment", f>>, worth |-> 300]
GramOf(i, g)      == [at |-> i, feature |-> <<"ngram", g>>, worth |-> 100]

LookupsAt(P, D, q, i) ==
  IF Has(P, D, q, q.words[i]) THEN {TokenOf(P, q, i)}
  ELSE {FragmentOf(i, f) : f \in Fragments[q.words[i]]} \cup {GramOf(i, g) : g \in Grams[q.words[i]]}

LEMMA LookupsAre ==
  ASSUME PlanConstants, NEW P, NEW D, NEW ev, Known(P, D), NEW q, Askable(q)
  PROVE  Lookups(IndexOf(P, D, ev), q) = UNION {LookupsAt(P, D, q, i) : i \in DOMAIN q.words}
<1> DEFINE ix == IndexOf(P, D, ev)
           For(i) == IF Posting(ix, <<"token", q.words[i]>>, q.predicate) = {}
                     THEN {[at |-> i, feature |-> <<"fragment", f>>, worth |-> 300] : f \in Fragments[q.words[i]]}
                          \cup {[at |-> i, feature |-> <<"ngram", g>>, worth |-> 100] : g \in Grams[q.words[i]]}
                     ELSE {[at |-> i, feature |-> <<"token", q.words[i]>>, worth |-> 4 * IdfForToken(ix, q.words[i])]}
<1>1. ASSUME NEW i \in DOMAIN q.words PROVE For(i) = LookupsAt(P, D, q, i)
  <2>1. q.words[i] \in Word
    BY DEF Askable
  <2>2. Posting(ix, <<"token", q.words[i]>>, q.predicate) = {} <=> ~Has(P, D, q, q.words[i])
    BY <2>1, MissingIs
  <2>3. IdfForToken(ix, q.words[i]) = WorthOf(P, q.words[i])
    BY <2>1, WorthIs
  <2> QED
    BY <2>2, <2>3 DEF LookupsAt, TokenOf, FragmentOf, GramOf
<1>2. Lookups(ix, q) = UNION {For(i) : i \in DOMAIN q.words}
  BY DEF Lookups
<1> HIDE DEF For
<1> QED
  BY <1>1, <1>2

\* They are finitely many, each is worth something and names its place.
LEMMA LookupsAtAre ==
  ASSUME PlanConstants, NEW P, NEW D, Known(P, D), NEW q, Askable(q), NEW i \in DOMAIN q.words
  PROVE  /\ IsFiniteSet(LookupsAt(P, D, q, i))
         /\ \A l \in LookupsAt(P, D, q, i) : l.at = i /\ l.worth \in Nat /\ l.worth > 0
<1>1. q.words[i] \in Word
  BY DEF Askable
<1>2. CASE Has(P, D, q, q.words[i])
  <2>1. WorthOf(P, q.words[i]) \in Nat /\ WorthOf(P, q.words[i]) > 0
    BY <1>1, WorthIs
  <2>2. LookupsAt(P, D, q, i) = {TokenOf(P, q, i)}
    BY <1>2 DEF LookupsAt
  <2>3. IsFiniteSet({TokenOf(P, q, i)})
    BY FS_Singleton
  <2>4. TokenOf(P, q, i).at = i /\ TokenOf(P, q, i).worth = 4 * WorthOf(P, q.words[i])
    BY DEF TokenOf
  <2> QED
    BY <2>1, <2>2, <2>3, <2>4
<1>3. CASE ~Has(P, D, q, q.words[i])
  <2> DEFINE F == {FragmentOf(i, f) : f \in Fragments[q.words[i]]}
             G == {GramOf(i, g) : g \in Grams[q.words[i]]}
  <2>1. LookupsAt(P, D, q, i) = F \cup G
    BY <1>3 DEF LookupsAt
  <2>2. IsFiniteSet(Fragments[q.words[i]]) /\ IsFiniteSet(Grams[q.words[i]])
    BY <1>1 DEF PlanConstants
  <2>3. IsFiniteSet(F)
    <3>1. [f \in Fragments[q.words[i]] |-> FragmentOf(i, f)] \in Surjection(Fragments[q.words[i]], F)
      BY DEF Surjection
    <3> HIDE DEF F
    <3> QED
      BY <2>2, <3>1, FS_Surjection
  <2>4. IsFiniteSet(G)
    <3>1. [g \in Grams[q.words[i]] |-> GramOf(i, g)] \in Surjection(Grams[q.words[i]], G)
      BY DEF Surjection
    <3> HIDE DEF G
    <3> QED
      BY <2>2, <3>1, FS_Surjection
  <2>5. IsFiniteSet(F \cup G)
    BY <2>3, <2>4, FS_Union
  <2>6. \A l \in F \cup G : l.at = i /\ l.worth \in Nat /\ l.worth > 0
    BY DEF FragmentOf, GramOf
  <2> QED
    BY <2>1, <2>5, <2>6
<1> QED
  BY <1>2, <1>3
-----------------------------------------------------------------------------
(* The scores *)

\* What a word adds to the score of s in a scan.
FragmentsOf(P, s, w) == {f \in Fragments[w] : <<"fragment", f>> \in Features(P[s])}
GramsOf(P, s, w)     == {g \in Grams[w] : <<"ngram", g>> \in Features(P[s])}

PartOf(P, D, q, s, w) ==
  IF Has(P, D, q, w)
  THEN IF P[s][w] > 0 THEN WorthOf(P, w) * (140 + Log[P[s][w]]) ELSE 0
  ELSE 3000 * Cardinality(FragmentsOf(P, s, w)) + 1000 * Cardinality(GramsOf(P, s, w))

PartAt(P, D, q, s) == [i \in DOMAIN q.words |-> PartOf(P, D, q, s, q.words[i])]

\* The part of it that counts the word itself.
ExactAt(P, q, s) ==
  [i \in DOMAIN q.words |->
     IF P[s][q.words[i]] > 0 THEN WorthOf(P, q.words[i]) * (100 + Log[P[s][q.words[i]]]) ELSE 0]

\* The lookups of the word at i whose posting has s.
HitsAt(P, D, q, s, i) == {l \in LookupsAt(P, D, q, i) : l.feature \in Features(P[s])}
HitsIn(P, D, q, s, I) == UNION {HitsAt(P, D, q, s, i) : i \in I}

\* A sum of equal worths.
LEMMA SumOfEqual ==
  ASSUME NEW worth, NEW T, IsFiniteSet(T), NEW c \in Nat, \A x \in T : worth[x] = c
  PROVE  SumOver(worth, T) = c * Cardinality(T)
<1> DEFINE f == [U \in SUBSET T |-> SumOver(worth, U)]
           g == [U \in SUBSET T |-> c * Cardinality(U)]
<1>1. f[{}] = g[{}]
  BY SumOfNone, FS_EmptySet
<1>2. \A U \in SUBSET T : U # {} => \E x \in U : f[U \ {x}] = g[U \ {x}] => f[U] = g[U]
  <2>1. SUFFICES ASSUME NEW U \in SUBSET T, NEW x \in U,
                        SumOver(worth, U \ {x}) = c * Cardinality(U \ {x})
                 PROVE  SumOver(worth, U) = c * Cardinality(U)
    BY Zenon
  <2>2. /\ IsFiniteSet(U \ {x}) /\ x \notin U \ {x} /\ (U \ {x}) \cup {x} = U
        /\ Worths(worth, (U \ {x}) \cup {x}) /\ worth[x] = c
    BY FS_Subset DEF Worths
  <2>3. SumOver(worth, (U \ {x}) \cup {x}) = SumOver(worth, U \ {x}) + worth[x]
    BY <2>2, SumGrows
  <2>4. Cardinality((U \ {x}) \cup {x}) = Cardinality(U \ {x}) + 1 /\ Cardinality(U \ {x}) \in Nat
    BY <2>2, FS_AddElement, FS_CardinalityType
  <2>5. PICK n \in Nat : n = Cardinality(U \ {x})
    BY <2>4
  <2>6. c * n + c = c * (n + 1)
    OBVIOUS
  <2> QED
    BY <2>1, <2>2, <2>3, <2>4, <2>5, <2>6
<1>3. f[T] = g[T]
  <2> HIDE DEF f, g
  <2> QED
    BY <1>1, <1>2, FoldsAgree
<1> QED
  BY <1>3

\* The lookups that hit are worth what the scan adds besides.
LEMMA HitsAreWorth ==
  ASSUME PlanConstants, NEW P, NEW D, Known(P, D), NEW q, Askable(q), NEW i \in DOMAIN q.words,
         NEW s \in HoldersIn(D, q), NEW worth, \A l \in HitsAt(P, D, q, s, i) : worth[l] = l.worth
  PROVE  /\ PartAt(P, D, q, s)[i] = ExactAt(P, q, s)[i] + 10 * SumOver(worth, HitsAt(P, D, q, s, i))
         /\ ExactAt(P, q, s)[i] \in Nat
         /\ SumOver(worth, HitsAt(P, D, q, s, i)) \in Nat
<1> DEFINE w == q.words[i]
           H == HitsAt(P, D, q, s, i)
<1>1. w \in Word /\ s \in SubjectNumber /\ P[s] \in [Word -> Nat]
  BY DEF Askable, HoldersIn, Known
<1>2. WorthOf(P, w) \in Nat
  BY <1>1, WorthIs
<1>3. P[s][w] > 0 => Log[P[s][w]] \in Nat
  BY <1>1 DEF PlanConstants
<1>4. ExactAt(P, q, s)[i] = IF P[s][w] > 0 THEN WorthOf(P, w) * (100 + Log[P[s][w]]) ELSE 0
  BY DEF ExactAt
<1>5. PartAt(P, D, q, s)[i] = PartOf(P, D, q, s, w)
  BY DEF PartAt
<1>6. ExactAt(P, q, s)[i] \in Nat
  <2> HIDE DEF w
  <2>1. CASE P[s][w] > 0
    <3>1. PICK a \in Nat, b \in Nat : a = WorthOf(P, w) /\ b = Log[P[s][w]]
      BY <1>2, <1>3, <2>1
    <3>2. a * (100 + b) \in Nat
      OBVIOUS
    <3> QED
      BY <1>4, <2>1, <3>1, <3>2
  <2>2. CASE ~(P[s][w] > 0)
    BY <1>4, <2>2
  <2> QED
    BY <2>1, <2>2
<1>7. IsFiniteSet(H) /\ Worths(worth, H)
  <2>1. IsFiniteSet(LookupsAt(P, D, q, i)) /\ \A l \in LookupsAt(P, D, q, i) : l.worth \in Nat
    BY LookupsAtAre
  <2>2. H \subseteq LookupsAt(P, D, q, i)
    BY DEF HitsAt
  <2> QED
    BY <2>1, <2>2, FS_Subset DEF Worths
<1>8. SumOver(worth, H) \in Nat
  BY <1>7, SumIsNat
<1>9. CASE Has(P, D, q, w)
  <2> DEFINE t == TokenOf(P, q, i)
  <2>1. t.feature = <<"token", w>> /\ t.worth = 4 * WorthOf(P, w)
    BY DEF TokenOf
  <2>2. LookupsAt(P, D, q, i) = {t}
    BY <1>9 DEF LookupsAt
  <2>3. t.feature \in Features(P[s]) <=> P[s][w] > 0
    BY <1>1, <2>1, TokenFeature
  <2>4. CASE P[s][w] > 0
    <3>1. H = {} \cup {t}
      BY <2>2, <2>3, <2>4 DEF HitsAt
    <3>2. worth[t] = 4 * WorthOf(P, w) /\ Worths(worth, {} \cup {t}) /\ IsFiniteSet({}) /\ t \notin {}
      BY <1>7, <2>1, <3>1, FS_EmptySet
    <3> HIDE DEF t, H
    <3>3. SumOver(worth, {} \cup {t}) = SumOver(worth, {}) + worth[t]
      BY <3>2, SumGrows
    <3>4. SumOver(worth, H) = 4 * WorthOf(P, w)
      BY <1>2, <3>1, <3>2, <3>3, SumOfNone
    <3>5. PICK a \in Nat, b \in Nat : a = WorthOf(P, w) /\ b = Log[P[s][w]]
      BY <1>2, <1>3, <2>4
    <3>6. a * (140 + b) = a * (100 + b) + 10 * (4 * a)
      OBVIOUS
    <3>7. PartOf(P, D, q, s, w) = a * (140 + b)
      BY <1>9, <2>4, <3>5 DEF PartOf
    <3>8. ExactAt(P, q, s)[i] = a * (100 + b)
      BY <1>4, <2>4, <3>5
    <3> QED
      BY <1>5, <1>6, <1>8, <3>4, <3>5, <3>6, <3>7, <3>8 DEF H
  <2>5. CASE ~(P[s][w] > 0)
    <3>1. H = {}
      BY <2>2, <2>3, <2>5 DEF HitsAt
    <3>2. SumOver(worth, H) = 0
      BY <3>1, SumOfNone
    <3>3. PartOf(P, D, q, s, w) = 0
      BY <1>9, <2>5 DEF PartOf
    <3> QED
      BY <1>4, <1>5, <2>5, <3>2, <3>3
  <2> QED
    BY <2>4, <2>5
<1>10. CASE ~Has(P, D, q, w)
  <2> DEFINE F == FragmentsOf(P, s, w)
             G == GramsOf(P, s, w)
             HF == {FragmentOf(i, f) : f \in F}
             HG == {GramOf(i, g) : g \in G}
  <2>1. ~(P[s][w] > 0)
    BY <1>10 DEF Has
  <2>2. IsFiniteSet(F) /\ IsFiniteSet(G)
    BY <1>1, FS_Subset DEF PlanConstants, FragmentsOf, GramsOf
  <2>17. \A f : FragmentOf(i, f).feature = <<"fragment", f>>
    BY DEF FragmentOf
  <2>18. \A g : GramOf(i, g).feature = <<"ngram", g>>
    BY DEF GramOf
  <2>3. H = HF \cup HG
    <3>1. LookupsAt(P, D, q, i) = {FragmentOf(i, f) : f \in Fragments[w]} \cup {GramOf(i, g) : g \in Grams[w]}
      BY <1>10 DEF LookupsAt
    <3>2. \A f \in Fragments[w] : FragmentOf(i, f).feature \in Features(P[s]) <=> f \in F
      BY <2>17 DEF FragmentsOf
    <3>3. \A g \in Grams[w] : GramOf(i, g).feature \in Features(P[s]) <=> g \in G
      BY <2>18 DEF GramsOf
    <3>4. F \subseteq Fragments[w] /\ G \subseteq Grams[w]
      BY DEF FragmentsOf, GramsOf
    <3>5. H = {l \in LookupsAt(P, D, q, i) : l.feature \in Features(P[s])}
      BY DEF HitsAt
    <3> HIDE DEF F, G, w, H
    <3>6. ASSUME NEW l PROVE l \in H <=> l \in HF \cup HG
      BY <3>1, <3>2, <3>3, <3>4, <3>5
    <3> QED
      BY <3>6
  <2>4. HF \cap HG = {}
    BY DEF FragmentOf, GramOf
  <2>5. IsFiniteSet(HF) /\ Cardinality(HF) = Cardinality(F)
    <3>1. [f \in F |-> FragmentOf(i, f)] \in Bijection(F, HF)
      <4>1. \A x, y \in F : FragmentOf(i, x) = FragmentOf(i, y) => x = y
        BY <2>17
      <4> HIDE DEF F
      <4> QED
        BY <4>1 DEF Bijection, Injection, Surjection, IsInjective
    <3> HIDE DEF F, HF
    <3> QED
      BY <2>2, <3>1, FS_Bijection DEF ExistsBijection
  <2>6. IsFiniteSet(HG) /\ Cardinality(HG) = Cardinality(G)
    <3>1. [g \in G |-> GramOf(i, g)] \in Bijection(G, HG)
      BY DEF Bijection, Injection, Surjection, IsInjective, GramOf
    <3> HIDE DEF G, HG
    <3> QED
      BY <2>2, <3>1, FS_Bijection DEF ExistsBijection
  <2>7. \A l \in HF : worth[l] = 300
    <3>1. \A l \in HF : l.worth = 300
      BY DEF FragmentOf
    <3> QED
      BY <2>3, <3>1
  <2>8. \A l \in HG : worth[l] = 100
    <3>1. \A l \in HG : l.worth = 100
      BY DEF GramOf
    <3> QED
      BY <2>3, <3>1
  <2>9. Cardinality(F) \in Nat /\ Cardinality(G) \in Nat
    BY <2>2, FS_CardinalityType
  <2>10. Worths(worth, HF) /\ Worths(worth, HG)
    BY <1>7, <2>3 DEF Worths
  <2> HIDE DEF HF, HG, F, G, H
  <2>11. SumOver(worth, HF) = 300 * Cardinality(HF)
    BY <2>5, <2>7, SumOfEqual
  <2>12. SumOver(worth, HG) = 100 * Cardinality(HG)
    BY <2>6, <2>8, SumOfEqual
  <2>13. SumOver(worth, HF \cup HG) = SumOver(worth, HF) + SumOver(worth, HG)
    BY <2>4, <2>5, <2>6, <2>10, SumOfBoth
  <2>14. SumOver(worth, H) = 300 * Cardinality(F) + 100 * Cardinality(G)
    BY <2>3, <2>5, <2>6, <2>11, <2>12, <2>13
  <2>15. PartOf(P, D, q, s, w) = 3000 * Cardinality(F) + 1000 * Cardinality(G)
    BY <1>10 DEF PartOf, F, G
  <2> QED
    BY <1>4, <1>5, <2>1, <2>9, <2>14, <2>15 DEF H
<1> HIDE DEF w
<1> QED
  BY <1>6, <1>8, <1>9, <1>10

\* Over all the words: the scan's score is the exact score and what hits.
LEMMA ScoresAgree ==
  ASSUME PlanConstants, NEW P, NEW D, Known(P, D), NEW q, Askable(q), NEW s \in HoldersIn(D, q),
         NEW worth, \A l \in HitsIn(P, D, q, s, DOMAIN q.words) : worth[l] = l.worth
  PROVE  /\ SumOver(PartAt(P, D, q, s), DOMAIN q.words)
              = SumOver(ExactAt(P, q, s), DOMAIN q.words)
                  + 10 * SumOver(worth, HitsIn(P, D, q, s, DOMAIN q.words))
         /\ IsFiniteSet(HitsIn(P, D, q, s, DOMAIN q.words))
         /\ Worths(worth, HitsIn(P, D, q, s, DOMAIN q.words))
         /\ Worths(PartAt(P, D, q, s), DOMAIN q.words)
         /\ Worths(ExactAt(P, q, s), DOMAIN q.words)
<1> DEFINE S == DOMAIN q.words
           H(I) == HitsIn(P, D, q, s, I)
           A == PartAt(P, D, q, s)
           B == ExactAt(P, q, s)
<1>1. IsFiniteSet(S)
  <2>1. S = 1 .. Len(q.words) /\ Len(q.words) \in Nat
    BY DEF Askable
  <2>2. \A n \in Nat : IsFiniteSet(1 .. n)
    BY ONLY FS_Interval
  <2> QED
    BY <2>1, <2>2
<1>2. \A i \in S : \A l \in HitsAt(P, D, q, s, i) : l.at = i /\ l.worth \in Nat /\ worth[l] = l.worth
  <2> TAKE i \in S
  <2>1. \A l \in LookupsAt(P, D, q, i) : l.at = i /\ l.worth \in Nat
    BY LookupsAtAre
  <2> QED
    BY <2>1 DEF HitsAt, HitsIn
<1>3. \A i \in S : IsFiniteSet(HitsAt(P, D, q, s, i))
  <2> TAKE i \in S
  <2>1. IsFiniteSet(LookupsAt(P, D, q, i))
    BY LookupsAtAre
  <2> QED
    BY <2>1, FS_Subset DEF HitsAt
<1>4. \A i \in S : /\ A[i] = B[i] + 10 * SumOver(worth, HitsAt(P, D, q, s, i))
                   /\ B[i] \in Nat /\ SumOver(worth, HitsAt(P, D, q, s, i)) \in Nat
  <2> TAKE i \in S
  <2>1. \A l \in HitsAt(P, D, q, s, i) : worth[l] = l.worth
    BY <1>2
  <2> HIDE DEF A, B, S
  <2> QED
    BY <2>1, HitsAreWorth DEF A, B, S
<1> HIDE DEF A, B
<1>5. Worths(A, S) /\ Worths(B, S)
  BY <1>4 DEF Worths
<1>6. \A I \in SUBSET S : Worths(worth, H(I))
  BY <1>2 DEF Worths, HitsIn
<1>7. \A I \in SUBSET S : IsFiniteSet(H(I))
  <2> TAKE I \in SUBSET S
  <2> DEFINE Q == {HitsAt(P, D, q, s, i) : i \in I}
  <2>1. IsFiniteSet(I)
    BY <1>1, FS_Subset
  <2>2. [i \in I |-> HitsAt(P, D, q, s, i)] \in Surjection(I, Q)
    BY DEF Surjection
  <2>3. IsFiniteSet(Q)
    <3> HIDE DEF Q
    <3> QED
      BY <2>1, <2>2, FS_Surjection
  <2>4. \A h \in Q : IsFiniteSet(h)
    BY <1>3
  <2>5. IsFiniteSet(UNION Q)
    <3> HIDE DEF Q
    <3> QED
      BY <2>3, <2>4, FS_UNION
  <2> QED
    BY <2>5 DEF HitsIn
<1> DEFINE f == [I \in SUBSET S |-> SumOver(A, I)]
           g == [I \in SUBSET S |-> SumOver(B, I) + 10 * SumOver(worth, H(I))]
<1>8. f[{}] = g[{}]
  <2>1. H({}) = {}
    BY DEF HitsIn
  <2> QED
    BY <2>1, SumOfNone
<1>9. \A I \in SUBSET S : I # {} => \E x \in I : f[I \ {x}] = g[I \ {x}] => f[I] = g[I]
  <2>1. SUFFICES ASSUME NEW I \in SUBSET S, NEW x \in I,
                        SumOver(A, I \ {x}) = SumOver(B, I \ {x}) + 10 * SumOver(worth, H(I \ {x}))
                 PROVE  SumOver(A, I) = SumOver(B, I) + 10 * SumOver(worth, H(I))
    BY Zenon
  <2> DEFINE R == I \ {x}
             X == HitsAt(P, D, q, s, x)
  <2>2. /\ IsFiniteSet(R) /\ x \notin R /\ R \cup {x} = I /\ R \in SUBSET S
        /\ Worths(A, R \cup {x}) /\ Worths(B, R \cup {x})
    BY <1>1, <1>5, FS_Subset DEF Worths
  <2>3. H(I) = H(R) \cup X
    BY <2>2 DEF HitsIn
  <2>4. H(R) \cap X = {}
    BY <1>2, <2>2 DEF HitsIn
  <2>5. IsFiniteSet(H(R)) /\ IsFiniteSet(X) /\ Worths(worth, H(R)) /\ Worths(worth, X)
    <3>1. IsFiniteSet(H(R)) /\ Worths(worth, H(R))
      BY <1>6, <1>7, <2>2
    <3>2. IsFiniteSet(X) /\ Worths(worth, X)
      BY <1>2, <1>3, <2>2 DEF Worths
    <3> QED
      BY <3>1, <3>2
  <2>6. x \in S /\ A[x] = B[x] + 10 * SumOver(worth, X) /\ B[x] \in Nat /\ SumOver(worth, X) \in Nat
    BY <1>4
  <2> HIDE DEF R, X, H, S
  <2>7. SumOver(worth, H(R) \cup X) = SumOver(worth, H(R)) + SumOver(worth, X)
    BY <2>4, <2>5, SumOfBoth
  <2>8. SumOver(A, R \cup {x}) = SumOver(A, R) + A[x] /\ SumOver(A, R) \in Nat
    BY <2>2, SumGrows
  <2>9. SumOver(B, R \cup {x}) = SumOver(B, R) + B[x] /\ SumOver(B, R) \in Nat
    BY <2>2, SumGrows
  <2>10. SumOver(worth, H(R)) \in Nat
    BY <2>5, SumIsNat
  <2>11. SumOver(A, R) = SumOver(B, R) + 10 * SumOver(worth, H(R))
    BY <2>1 DEF R
  <2>12. SumOver(A, I) = SumOver(A, R) + A[x] /\ SumOver(B, I) = SumOver(B, R) + B[x]
    BY <2>2, <2>8, <2>9
  <2>13. SumOver(worth, H(I)) = SumOver(worth, H(R)) + SumOver(worth, X)
    BY <2>3, <2>7
  <2>14. A[x] = B[x] + 10 * SumOver(worth, X) /\ B[x] \in Nat /\ SumOver(worth, X) \in Nat
    BY <2>6
  <2>15. SumOver(B, R) \in Nat
    BY <2>9
  <2> QED
    BY ONLY <2>10, <2>11, <2>12, <2>13, <2>14, <2>15
<1>10. f[S] = g[S]
  <2> HIDE DEF f, g, S
  <2> QED
    BY <1>1, <1>8, <1>9, FoldsAgree
<1>11. SumOver(A, S) = SumOver(B, S) + 10 * SumOver(worth, H(S))
  BY <1>10
<1>12. IsFiniteSet(H(S)) /\ Worths(worth, H(S))
  BY <1>6, <1>7
<1> QED
  BY <1>5, <1>11, <1>12 DEF A, B
\* The words of a question are finitely many.
LEMMA PlacesOfQuestion ==
  ASSUME NEW q, Askable(q)
  PROVE  IsFiniteSet(DOMAIN q.words) /\ \A i \in DOMAIN q.words : q.words[i] \in Word
<1>1. DOMAIN q.words = 1 .. Len(q.words) /\ Len(q.words) \in Nat
  BY DEF Askable
<1>2. IsFiniteSet(DOMAIN q.words)
  BY <1>1, FS_Interval
<1>3. \A i \in DOMAIN q.words : q.words[i] \in Word
  BY DEF Askable
<1> QED
  BY <1>2, <1>3

\* What hits is a lookup; and it is worth something.
LEMMA HitsAreLookups ==
  ASSUME PlanConstants, NEW P, NEW D, NEW ev, Known(P, D), NEW q, Askable(q), NEW s
  PROVE  HitsIn(P, D, q, s, DOMAIN q.words)
         = {l \in Lookups(IndexOf(P, D, ev), q) : l.feature \in Features(P[s])}
<1>1. Lookups(IndexOf(P, D, ev), q) = UNION {LookupsAt(P, D, q, i) : i \in DOMAIN q.words}
  BY LookupsAre
<1> QED
  BY <1>1 DEF HitsIn, HitsAt

LEMMA HitsCount ==
  ASSUME PlanConstants, NEW P, NEW D, Known(P, D), NEW q, Askable(q), NEW s
  PROVE  \A l \in HitsIn(P, D, q, s, DOMAIN q.words) : l.worth \in Nat /\ l.worth > 0
<1>1. \A i \in DOMAIN q.words : \A l \in LookupsAt(P, D, q, i) : l.worth \in Nat /\ l.worth > 0
  BY LookupsAtAre
<1> QED
  BY <1>1 DEF HitsIn, HitsAt

\* The lookups the planner adds up for s.
Counted(ix, q, s) == {l \in Lookups(ix, q) : ~Broad(ix, q, l) /\ s \in Posting(ix, l.feature, q.predicate)}

LEMMA CountedIs ==
  ASSUME PlanConstants, NEW P, NEW D, NEW ev, Known(P, D), NEW q, Askable(q), NEW s \in SubjectNumber
  PROVE  Counted(IndexOf(P, D, ev), q, s)
         = {l \in HitsIn(P, D, q, s, DOMAIN q.words) :
              s \in HoldersIn(D, q) /\ ~Broad(IndexOf(P, D, ev), q, l)}
<1> DEFINE ix == IndexOf(P, D, ev)
<1>1. \A f : s \in Posting(ix, f, q.predicate) <=> s \in HoldersIn(D, q) /\ f \in Features(P[s])
  <2> TAKE f
  <2>1. Posting(IndexOf(P, D, ev), f, q.predicate) = {t \in HoldersIn(D, q) : f \in Features(P[t])}
    BY PostingIs
  <2> QED
    BY <2>1
<1>2. HitsIn(P, D, q, s, DOMAIN q.words) = {l \in Lookups(ix, q) : l.feature \in Features(P[s])}
  BY HitsAreLookups
<1> HIDE DEF ix
<1> QED
  BY <1>1, <1>2 DEF Counted, ix

\* A subject is found when a lookup that is not broad hits it, and then its
\* score is positive; without broad ones its score is that of all the hits.
LEMMA GenerationIs ==
  ASSUME PlanConstants, NEW P, NEW D, NEW ev, Known(P, D), NEW q, Askable(q), NEW s \in SubjectNumber
  PROVE  /\ GenerationScore(IndexOf(P, D, ev), q, s) \in Nat
         /\ GenerationScore(IndexOf(P, D, ev), q, s) > 0 <=>
              \E l \in HitsIn(P, D, q, s, DOMAIN q.words) :
                s \in HoldersIn(D, q) /\ ~Broad(IndexOf(P, D, ev), q, l)
         /\ ~SawBroad(IndexOf(P, D, ev), q) /\ s \in HoldersIn(D, q) =>
              GenerationScore(IndexOf(P, D, ev), q, s)
                = SumOver([l \in HitsIn(P, D, q, s, DOMAIN q.words) |-> l.worth], HitsIn(P, D, q, s, DOMAIN q.words))
<1>1. PICK ix : ix = IndexOf(P, D, ev)
  OBVIOUS
<1>2. PICK hits : hits = HitsIn(P, D, q, s, DOMAIN q.words)
  OBVIOUS
<1>3. PICK X : X = Counted(ix, q, s)
  OBVIOUS
<1>4. X = {l \in hits : s \in HoldersIn(D, q) /\ ~Broad(ix, q, l)}
  BY <1>1, <1>2, <1>3, CountedIs
<1>5. hits = {l \in Lookups(ix, q) : l.feature \in Features(P[s])}
  <2>1. HitsIn(P, D, q, s, DOMAIN q.words)
          = {l \in Lookups(IndexOf(P, D, ev), q) : l.feature \in Features(P[s])}
    BY HitsAreLookups
  <2> QED
    BY ONLY <1>1, <1>2, <2>1
<1>6. \A l \in hits : l.worth \in Nat /\ l.worth > 0
  BY <1>2, HitsCount
<1>7. IsFiniteSet(X)
  <2>1. CASE s \in HoldersIn(D, q)
    <3>1. PICK worth : worth = [l \in hits |-> l.worth]
      OBVIOUS
    <3>2. \A l \in HitsIn(P, D, q, s, DOMAIN q.words) : worth[l] = l.worth
      BY <1>2, <3>1
    <3>3. IsFiniteSet(hits)
      BY <1>2, <2>1, <3>2, ScoresAgree
    <3> QED
      BY <1>4, <3>3, FS_Subset
  <2>2. CASE s \notin HoldersIn(D, q)
    BY <1>4, <2>2, FS_EmptySet
  <2> QED
    BY <2>1, <2>2
<1>8. PICK worth : worth = [l \in X |-> l.worth]
  OBVIOUS
<1>9. DOMAIN worth = X /\ Worths(worth, X) /\ \A l \in X : worth[l] > 0
  BY <1>4, <1>6, <1>8 DEF Worths
<1>10. GenerationScore(ix, q, s) = SumFunction(worth)
  BY <1>3, <1>8 DEF GenerationScore, Counted
<1>11. SumFunction(worth) = SumOver(worth, X)
  BY <1>7, <1>9, SumIs
<1>12. SumOver(worth, X) \in Nat
  BY <1>7, <1>9, SumIsNat
<1>13. SumOver(worth, X) > 0 <=> \E l \in X : worth[l] > 0
  BY <1>7, <1>9, SumPositive
<1>14. GenerationScore(ix, q, s) > 0 <=> \E l \in hits : s \in HoldersIn(D, q) /\ ~Broad(ix, q, l)
  BY <1>4, <1>9, <1>10, <1>11, <1>13
<1>15. ASSUME ~SawBroad(ix, q), s \in HoldersIn(D, q) PROVE X = hits
  BY <1>4, <1>5, <1>15 DEF SawBroad
<1>16. ~SawBroad(ix, q) /\ s \in HoldersIn(D, q) => GenerationScore(ix, q, s) = SumOver([l \in hits |-> l.worth], hits)
  BY <1>8, <1>10, <1>11, <1>15
<1>17. GenerationScore(ix, q, s) \in Nat
  BY <1>10, <1>11, <1>12
<1> QED
  BY <1>1, <1>2, <1>14, <1>16, <1>17

\* The exact score is the sum of what each word adds exactly.
LEMMA ExactIs ==
  ASSUME PlanConstants, NEW P, NEW D, NEW ev, Known(P, D), NEW q, Askable(q), NEW s \in HoldersIn(D, q)
  PROVE  /\ ExactScore(IndexOf(P, D, ev), q, s) = SumOver(ExactAt(P, q, s), DOMAIN q.words)
         /\ SumOver(ExactAt(P, q, s), DOMAIN q.words) \in Nat
<1>1. PICK hits : hits = HitsIn(P, D, q, s, DOMAIN q.words)
  OBVIOUS
<1>2. PICK worth : worth = [l \in hits |-> l.worth]
  OBVIOUS
<1>3. \A l \in HitsIn(P, D, q, s, DOMAIN q.words) : worth[l] = l.worth
  BY <1>1, <1>2
<1>4. PICK A : A = ExactAt(P, q, s)
  OBVIOUS
<1>5. PICK S : S = DOMAIN q.words
  OBVIOUS
<1>6. IsFiniteSet(S) /\ (\A i \in S : q.words[i] \in Word) /\ s \in SubjectNumber
  BY <1>5, PlacesOfQuestion DEF HoldersIn
<1>7. Worths(A, S)
  BY <1>3, <1>4, <1>5, ScoresAgree
<1>8. PICK X : X = {i \in S : P[s][q.words[i]] > 0}
  OBVIOUS
<1>9. PICK B : B = [i \in X |-> IdfForToken(IndexOf(P, D, ev), q.words[i]) * (100 + Log[P[s][q.words[i]]])]
  OBVIOUS
<1>10. \A i \in X : B[i] = A[i]
  <2> TAKE i \in X
  <2>1. IdfForToken(IndexOf(P, D, ev), q.words[i]) = WorthOf(P, q.words[i])
    BY <1>6, <1>8, WorthIs
  <2> QED
    BY <1>4, <1>5, <1>8, <1>9, <2>1 DEF ExactAt
<1>11. \A i \in S \ X : A[i] = 0
  BY <1>4, <1>5, <1>8 DEF ExactAt
<1>12. X \subseteq S /\ IsFiniteSet(X) /\ DOMAIN B = X
  BY <1>6, <1>8, <1>9, FS_Subset
<1>13. Worths(B, X) /\ Worths(A, X)
  BY <1>7, <1>10, <1>12 DEF Worths
<1>14. Units(A, S) = Units(B, X)
  <2>1. ASSUME NEW p \in Units(A, S) PROVE p \in Units(B, X)
    <3>1. p[1] \in X
      BY <1>11 DEF Units
    <3> QED
      BY <1>10, <3>1 DEF Units
  <2>2. ASSUME NEW p \in Units(B, X) PROVE p \in Units(A, S)
    BY <1>10, <1>12 DEF Units
  <2> QED
    BY <2>1, <2>2
<1>15. SumFunction(B) = SumOver(B, X)
  BY <1>12, <1>13, SumIs
<1>16. ExactScore(IndexOf(P, D, ev), q, s) = SumFunction(B)
  <2>1. IndexOf(P, D, ev).profiles = P
    BY DEF IndexOf
  <2> QED
    BY <1>5, <1>8, <1>9, <2>1 DEF ExactScore
<1>17. SumOver(A, S) \in Nat
  BY <1>6, <1>7, SumIsNat
<1> QED
  BY <1>4, <1>5, <1>14, <1>15, <1>16, <1>17 DEF SumOver

\* The score of a scan.
ScanOf(P, D, q, s) == SumOver(PartAt(P, D, q, s), DOMAIN q.words)

\* A scan finds the holders that some lookup hits.
LEMMA ScanPositive ==
  ASSUME PlanConstants, NEW P, NEW D, Known(P, D), NEW q, Askable(q), NEW s \in HoldersIn(D, q)
  PROVE  /\ ScanOf(P, D, q, s) \in Nat
         /\ ScanOf(P, D, q, s) > 0 <=> HitsIn(P, D, q, s, DOMAIN q.words) # {}
<1>1. PICK hits : hits = HitsIn(P, D, q, s, DOMAIN q.words)
  OBVIOUS
<1>2. PICK worth : worth = [l \in hits |-> l.worth]
  OBVIOUS
<1>3. \A l \in HitsIn(P, D, q, s, DOMAIN q.words) : worth[l] = l.worth
  BY <1>1, <1>2
<1>4. PICK B : B = ExactAt(P, q, s)
  OBVIOUS
<1>5. PICK S : S = DOMAIN q.words
  OBVIOUS
<1>6. /\ ScanOf(P, D, q, s) = SumOver(B, S) + 10 * SumOver(worth, hits)
      /\ IsFiniteSet(hits) /\ Worths(worth, hits) /\ Worths(B, S)
      /\ Worths(PartAt(P, D, q, s), S)
  BY <1>1, <1>3, <1>4, <1>5, ScoresAgree DEF ScanOf
<1>7. IsFiniteSet(S) /\ (\A i \in S : q.words[i] \in Word) /\ s \in SubjectNumber
  BY <1>5, PlacesOfQuestion DEF HoldersIn
<1>8. SumOver(B, S) \in Nat /\ SumOver(worth, hits) \in Nat
  BY <1>6, <1>7, SumIsNat
<1>9. SumOver(B, S) > 0 <=> \E i \in S : B[i] > 0
  BY <1>6, <1>7, SumPositive
<1>10. SumOver(worth, hits) > 0 <=> \E l \in hits : worth[l] > 0
  BY <1>6, SumPositive
<1>11. \A l \in hits : worth[l] > 0
  BY <1>1, <1>3, HitsCount
<1>12. ASSUME NEW i \in S, B[i] > 0 PROVE hits # {}
  <2> DEFINE w == q.words[i]
  <2>1. P[s][w] > 0
    BY <1>4, <1>5, <1>12 DEF ExactAt
  <2>2. Has(P, D, q, w) /\ w \in Word /\ P[s] \in [Word -> Nat]
    BY <1>7, <2>1 DEF Has, Known
  <2>3. TokenOf(P, q, i) \in LookupsAt(P, D, q, i) /\ TokenOf(P, q, i).feature = <<"token", w>>
    BY <2>2 DEF LookupsAt, TokenOf
  <2>4. <<"token", w>> \in Features(P[s])
    <3> HIDE DEF w
    <3> QED
      BY <2>1, <2>2, TokenFeature
  <2>5. TokenOf(P, q, i) \in HitsAt(P, D, q, s, i)
    BY <2>3, <2>4 DEF HitsAt
  <2> QED
    BY <1>1, <1>5, <2>5 DEF HitsIn
<1>13. ScanOf(P, D, q, s) > 0 <=> hits # {}
  BY <1>6, <1>8, <1>9, <1>10, <1>11, <1>12
<1> QED
  BY <1>1, <1>6, <1>8, <1>13

\* Who is found, and with which score.
LEMMA FoundAreScanned ==
  ASSUME PlanConstants, NEW P, NEW D, NEW ev, Known(P, D), NEW q, Askable(q), NEW s \in SubjectNumber
  PROVE  /\ GenerationScore(IndexOf(P, D, ev), q, s) > 0 => s \in HoldersIn(D, q) /\ ScanOf(P, D, q, s) > 0
         /\ s \in HoldersIn(D, q) => Score(IndexOf(P, D, ev), q, s) >= GenerationScore(IndexOf(P, D, ev), q, s)
         /\ ~SawBroad(IndexOf(P, D, ev), q) /\ s \in HoldersIn(D, q) =>
              /\ GenerationScore(IndexOf(P, D, ev), q, s) > 0 <=> ScanOf(P, D, q, s) > 0
              /\ Score(IndexOf(P, D, ev), q, s) = ScanOf(P, D, q, s)
<1>1. PICK ix : ix = IndexOf(P, D, ev)
  OBVIOUS
<1>2. PICK hits : hits = HitsIn(P, D, q, s, DOMAIN q.words)
  OBVIOUS
<1>3. PICK worth : worth = [l \in hits |-> l.worth]
  OBVIOUS
<1>4. PICK gen : gen = GenerationScore(ix, q, s)
  OBVIOUS
<1>5. /\ gen \in Nat
      /\ gen > 0 <=> \E l \in hits : s \in HoldersIn(D, q) /\ ~Broad(ix, q, l)
      /\ ~SawBroad(ix, q) /\ s \in HoldersIn(D, q) => gen = SumOver(worth, hits)
  BY <1>1, <1>2, <1>3, <1>4, GenerationIs
<1>6. s \in HoldersIn(D, q) => ScanOf(P, D, q, s) \in Nat /\ (ScanOf(P, D, q, s) > 0 <=> hits # {})
  BY <1>2, ScanPositive
<1>7. \A l \in hits : l \in Lookups(ix, q)
  <2>1. HitsIn(P, D, q, s, DOMAIN q.words)
          = {l \in Lookups(IndexOf(P, D, ev), q) : l.feature \in Features(P[s])}
    BY HitsAreLookups
  <2> QED
    BY ONLY <1>1, <1>2, <2>1
<1>8. ASSUME s \in HoldersIn(D, q)
      PROVE  /\ ExactScore(ix, q, s) = SumOver(ExactAt(P, q, s), DOMAIN q.words)
             /\ SumOver(ExactAt(P, q, s), DOMAIN q.words) \in Nat
  BY <1>1, <1>8, ExactIs
<1>9. ASSUME s \in HoldersIn(D, q)
      PROVE  ScanOf(P, D, q, s) = SumOver(ExactAt(P, q, s), DOMAIN q.words) + 10 * SumOver(worth, hits)
  <2>1. \A l \in HitsIn(P, D, q, s, DOMAIN q.words) : worth[l] = l.worth
    BY <1>2, <1>3
  <2> QED
    BY <1>2, <1>9, <2>1, ScoresAgree DEF ScanOf
<1>10. Score(ix, q, s) = ExactScore(ix, q, s) + 10 * gen
  BY <1>4 DEF Score
<1>11. gen > 0 => s \in HoldersIn(D, q) /\ ScanOf(P, D, q, s) > 0
  BY <1>5, <1>6
<1>12. s \in HoldersIn(D, q) => Score(ix, q, s) >= gen
  BY <1>5, <1>8, <1>10
<1>13. ~SawBroad(ix, q) /\ s \in HoldersIn(D, q) =>
         (gen > 0 <=> ScanOf(P, D, q, s) > 0) /\ Score(ix, q, s) = ScanOf(P, D, q, s)
  <2> SUFFICES ASSUME ~SawBroad(ix, q), s \in HoldersIn(D, q)
               PROVE  (gen > 0 <=> ScanOf(P, D, q, s) > 0) /\ Score(ix, q, s) = ScanOf(P, D, q, s)
    OBVIOUS
  <2>1. \A l \in hits : ~Broad(ix, q, l)
    BY <1>7 DEF SawBroad
  <2>2. gen > 0 <=> ScanOf(P, D, q, s) > 0
    BY <1>5, <1>6, <2>1
  <2>3. Score(ix, q, s) = ScanOf(P, D, q, s)
    BY <1>5, <1>8, <1>9, <1>10
  <2> QED
    BY <2>2, <2>3
<1> QED
  BY <1>1, <1>4, <1>11, <1>12, <1>13
-----------------------------------------------------------------------------
(* The plan *)

ScanIn(P, D, q) == {t \in HoldersIn(D, q) : ScanOf(P, D, q, t) > 0}
BestIn(P, D, q) == Best([t \in ScanIn(P, D, q) |-> ScanOf(P, D, q, t)])

\* The candidates are among what a scan finds, and all of it when the limit
\* allows and nothing is broad.
LEMMA CandidatesAre ==
  ASSUME PlanConstants, NEW P, NEW D, NEW ev, Known(P, D), NEW q, Askable(q)
  PROVE  /\ CandidateSubjects(IndexOf(P, D, ev), q) \subseteq ScanIn(P, D, q)
         /\ \A s \in CandidateSubjects(IndexOf(P, D, ev), q) : Score(IndexOf(P, D, ev), q, s) > 0
         /\ ~SawBroad(IndexOf(P, D, ev), q) /\ Cardinality(ScanIn(P, D, q)) <= q.candidates =>
              CandidateSubjects(IndexOf(P, D, ev), q) = ScanIn(P, D, q)
<1>1. PICK ix : ix = IndexOf(P, D, ev)
  OBVIOUS
<1> DEFINE gen(s) == GenerationScore(ix, q, s)
           scan == ScanIn(P, D, q)
           found == {s \in SubjectNumber : gen(s) > 0}
           Before(t, s) == gen(t) > gen(s) \/ (gen(t) = gen(s) /\ t < s)
           C == CandidateSubjects(ix, q)
<1>2. C = {s \in found : Cardinality({t \in found : Before(t, s)}) < q.candidates}
  BY DEF CandidateSubjects
<1>3. \A s \in SubjectNumber :
        /\ gen(s) > 0 => s \in HoldersIn(D, q) /\ ScanOf(P, D, q, s) > 0
        /\ s \in HoldersIn(D, q) => Score(ix, q, s) >= gen(s)
        /\ ~SawBroad(ix, q) /\ s \in HoldersIn(D, q) => (gen(s) > 0 <=> ScanOf(P, D, q, s) > 0)
  BY <1>1, FoundAreScanned
<1>4. found \subseteq scan
  BY <1>3 DEF ScanIn
<1>5. \A s \in SubjectNumber : gen(s) \in Nat
  BY <1>1, GenerationIs
<1>6. \A s \in HoldersIn(D, q) : Score(ix, q, s) \in Int
  <2> TAKE s \in HoldersIn(D, q)
  <2>1. ExactScore(ix, q, s) \in Nat
    BY <1>1, ExactIs
  <2>2. gen(s) \in Nat
    BY <1>5 DEF HoldersIn
  <2> QED
    BY <2>1, <2>2 DEF Score
<1>7. ASSUME NEW s \in C PROVE Score(ix, q, s) > 0
  <2>1. s \in found /\ s \in HoldersIn(D, q)
    BY <1>2, <1>4 DEF ScanIn
  <2> HIDE DEF C
  <2> QED
    BY <1>3, <1>5, <1>6, <2>1
<1>8. ASSUME ~SawBroad(ix, q), Cardinality(scan) <= q.candidates PROVE C = scan
  <2>1. found = scan
    BY <1>3, <1>4, <1>8 DEF ScanIn, HoldersIn
  <2>2. IsFiniteSet(found)
    BY FS_Subset DEF PlanConstants, IndexConstants
  <2>3. ASSUME NEW s \in found PROVE Cardinality({t \in found : Before(t, s)}) < q.candidates
    <3> DEFINE T == {t \in found : Before(t, s)}
    <3>1. s \notin T
      <4>1. gen(s) \in Nat /\ s \in Nat
        BY <1>5 DEF PlanConstants
      <4> QED
        BY <4>1
    <3>2. T \subseteq found \ {s}
      BY <3>1
    <3>3. Cardinality(found \ {s}) = Cardinality(found) - 1 /\ IsFiniteSet(found \ {s})
      BY <2>2, FS_RemoveElement
    <3> HIDE DEF T
    <3>4. Cardinality(T) <= Cardinality(found \ {s}) /\ IsFiniteSet(T)
      BY <3>2, <3>3, FS_Subset
    <3>5. Cardinality(T) \in Nat /\ Cardinality(found) \in Nat
      BY <2>2, <3>4, FS_CardinalityType
    <3>6. Cardinality(found) <= q.candidates /\ q.candidates \in Nat
      BY <1>8, <2>1 DEF Askable
    <3>7. Cardinality(T) < q.candidates
      <4> HIDE DEF found
      <4> QED
        BY <3>3, <3>4, <3>5, <3>6
    <3> QED
      BY <3>7 DEF T
  <2> QED
    BY <1>2, <2>1, <2>3
<1>9. C \subseteq scan
  BY <1>2, <1>4
<1> HIDE DEF C, scan
<1> QED
  BY <1>1, <1>7, <1>8, <1>9 DEF C, scan

\* The plan's subject is one a scan finds, and the scan's when the limit
\* allows and nothing is broad.
LEMMA PlanIs ==
  ASSUME PlanConstants, NEW P, NEW D, NEW ev, Known(P, D), NEW q, Askable(q)
  PROVE  /\ PlanSubject(IndexOf(P, D, ev), q) # NoName =>
              PlanSubject(IndexOf(P, D, ev), q) \in ScanIn(P, D, q)
         /\ ~SawBroad(IndexOf(P, D, ev), q) /\ Cardinality(ScanIn(P, D, q)) <= q.candidates =>
              PlanSubject(IndexOf(P, D, ev), q)
                = IF Cardinality(BestIn(P, D, q)) = 1 THEN CHOOSE s \in BestIn(P, D, q) : TRUE ELSE NoName
<1>1. PICK ix : ix = IndexOf(P, D, ev)
  OBVIOUS
<1>2. PICK C : C = CandidateSubjects(ix, q)
  OBVIOUS
<1>3. PICK best : best = Best([s \in C |-> Score(ix, q, s)])
  OBVIOUS
<1>4. /\ C \subseteq ScanIn(P, D, q)
      /\ \A s \in C : Score(ix, q, s) > 0
      /\ ~SawBroad(ix, q) /\ Cardinality(ScanIn(P, D, q)) <= q.candidates => C = ScanIn(P, D, q)
  BY <1>1, <1>2, CandidatesAre
<1>5. best \subseteq C
  BY <1>3 DEF Best
<1>6. C \subseteq HoldersIn(D, q) /\ C \subseteq SubjectNumber
  BY <1>4 DEF ScanIn, HoldersIn
<1>7. \A s \in best : ~(Score(ix, q, s) <= 0)
  <2> TAKE s \in best
  <2>1. s \in HoldersIn(D, q) /\ s \in SubjectNumber /\ Score(ix, q, s) > 0
    BY <1>4, <1>5, <1>6
  <2>2. ExactScore(ix, q, s) \in Nat
    BY <1>1, <2>1, ExactIs
  <2>3. GenerationScore(ix, q, s) \in Nat
    BY <1>1, <2>1, GenerationIs
  <2>4. Score(ix, q, s) \in Nat
    BY <2>2, <2>3 DEF Score
  <2> QED
    BY <2>1, <2>4
<1>8. PlanSubject(ix, q) = IF Cardinality(best) # 1 THEN NoName ELSE CHOOSE s \in best : TRUE
  BY <1>2, <1>3, <1>7 DEF PlanSubject
<1>9. Cardinality(best) = 1 => (CHOOSE s \in best : TRUE) \in best
  <2>1. Cardinality({}) = 0
    BY FS_EmptySet
  <2>2. Cardinality(best) = 1 => best # {}
    BY <2>1
  <2> QED
    BY <2>2
<1>10. PlanSubject(ix, q) # NoName => PlanSubject(ix, q) \in ScanIn(P, D, q)
  BY <1>4, <1>5, <1>8, <1>9
<1>11. ASSUME ~SawBroad(ix, q), Cardinality(ScanIn(P, D, q)) <= q.candidates
       PROVE  best = BestIn(P, D, q)
  <2>1. C = ScanIn(P, D, q)
    BY <1>4, <1>11
  <2>2. \A s \in C : Score(ix, q, s) = ScanOf(P, D, q, s)
    <3> TAKE s \in C
    <3>1. s \in SubjectNumber /\ s \in HoldersIn(D, q)
      BY <1>6
    <3> QED
      BY <1>1, <1>11, <3>1, FoundAreScanned
  <2>3. [s \in C |-> Score(ix, q, s)] = [s \in ScanIn(P, D, q) |-> ScanOf(P, D, q, s)]
    BY <2>1, <2>2
  <2> QED
    BY <1>3, <2>3 DEF BestIn
<1>12. ~SawBroad(ix, q) /\ Cardinality(ScanIn(P, D, q)) <= q.candidates =>
         PlanSubject(ix, q) = IF Cardinality(BestIn(P, D, q)) = 1 THEN CHOOSE s \in BestIn(P, D, q) : TRUE ELSE NoName
  BY <1>8, <1>11
<1> QED
  BY <1>1, <1>10, <1>12

-----------------------------------------------------------------------------
(* The search that doubles its budget *)

\* A finite set has subsets of every size up to its own.
LEMMA SubsetsOfSizes ==
  ASSUME NEW S, IsFiniteSet(S), NEW n \in Nat, n <= Cardinality(S)
  PROVE  \E T \in SUBSET S : Cardinality(T) = n
<1>1. Cardinality(S) \in Nat
  BY FS_CardinalityType
<1>2. PICK m \in Nat : m = Cardinality(S)
  BY <1>1
<1>3. ExistsBijection(1 .. m, S)
  BY <1>2, FS_NatBijection, FS_CountingElements
<1>4. PICK f \in Bijection(1 .. m, S) : TRUE
  BY <1>3 DEF ExistsBijection
<1> DEFINE T == {f[i] : i \in 1 .. n}
           g == [i \in 1 .. n |-> f[i]]
<1>5. \A i \in 1 .. n : i \in 1 .. m
  BY <1>2
<1>6. f \in [1 .. m -> S] /\ \A i, j \in 1 .. m : f[i] = f[j] => i = j
  BY <1>4 DEF Bijection, Injection, IsInjective
<1>7. g \in Bijection(1 .. n, T)
  BY <1>5, <1>6 DEF Bijection, Injection, Surjection, IsInjective
<1>8. IsFiniteSet(1 .. n) /\ Cardinality(1 .. n) = n
  BY FS_Interval
<1>9. Cardinality(T) = n
  <2> HIDE DEF T, g
  <2> QED
    BY <1>7, <1>8, FS_Bijection DEF ExistsBijection
<1>10. T \in SUBSET S
  BY <1>5, <1>6
<1> QED
  BY <1>9, <1>10

\* What suffices for a question still does when more is found.
LEMMA SufficientGrows ==
  ASSUME NEW x, NEW q, NEW key, NEW more, NEW found \in SUBSET more, Sufficient(x, q, key, found)
  PROVE  Sufficient(x, q, key, more)
<1>1. more # {} /\ RelationsFor(x, found) \subseteq RelationsFor(x, more)
  BY DEF Sufficient, RelationsFor
<1>2. CASE q.kind = "relation_classification"
  BY <1>1, <1>2 DEF Sufficient
<1>3. CASE q.kind # "relation_classification"
  BY <1>1, <1>3 DEF Sufficient
<1> QED
  BY <1>2, <1>3

\* The search ends covered exactly when all that is allowed covers the question.
LEMMA AdaptiveIs ==
  ASSUME PlanConstants, NEW st, NEW x, NEW q, q.predicate \in PredicateName, NEW s \in SubjectNumber,
         IsFiniteSet(Allowed(st, s, q.predicate)),
         Cardinality(Allowed(st, s, q.predicate)) <= MaxBudget
  PROVE  AdaptiveSearch(st, x, q, s) <=> CoverageSatisfied(st, x, q, s, Allowed(st, s, q.predicate))
<1>0. PICK p \in PredicateName : p = q.predicate
  OBVIOUS
<1>1. PICK A : A = Allowed(st, s, p)
  OBVIOUS
<1> DEFINE Good(found) == CoverageSatisfied(st, x, q, s, found)
           Yields(b) == PlannedSearches(st, s, p, b)
           B == 1 .. MaxBudget
           Body(Stops) ==
             [budget \in B |->
                \A found \in Yields(budget) :
                  \/ Good(found)
                  \/ budget < MaxBudget /\ Stops[IF 2 * budget < MaxBudget THEN 2 * budget ELSE MaxBudget]]
           w == [b \in B |-> Good(A)]
<1>2. MaxBudget \in Nat /\ MaxBudget > 0 /\ s # NoName /\ p # NoName
  BY DEF PlanConstants
<1>3. IsFiniteSet(A) /\ Cardinality(A) \in Nat /\ Cardinality(A) <= MaxBudget
  BY <1>0, <1>1, FS_CardinalityType
<1>4. \A b : Yields(b) = {found \in SUBSET A : Cardinality(found) = IF Cardinality(A) <= b THEN Cardinality(A) ELSE b}
  BY <1>1, <1>2 DEF PlannedSearches, Searches
<1>5. \A found \in SUBSET A : Good(found) => Good(A)
  <2> DEFINE Named(set) == {a \in AssertionsForKey(st, <<s, q.predicate>>) :
                              Range(st.assertion[a].evidence) \cap set # {}}
  <2>1. \A set : Good(set) <=> Sufficient(x, q, <<s, q.predicate>>, Named(set))
    BY DEF CoverageSatisfied
  <2>2. \A found \in SUBSET A : Named(found) \in SUBSET Named(A)
    OBVIOUS
  <2> HIDE DEF Named, Good
  <2> QED
    BY <2>1, <2>2, SufficientGrows
<1>6. \A b \in B : \E found \in Yields(b) : TRUE
  <2> TAKE b \in B
  <2>1. b \in Nat
    BY <1>2
  <2>2. PICK n \in Nat : n = (IF Cardinality(A) <= b THEN Cardinality(A) ELSE b) /\ n <= Cardinality(A)
    BY <1>3, <2>1
  <2>3. PICK T \in SUBSET A : Cardinality(T) = n
    BY <1>3, <2>2, SubsetsOfSizes
  <2> QED
    BY <1>4, <2>2, <2>3
<1>7. \A found \in Yields(MaxBudget) : found = A
  <2> TAKE found \in Yields(MaxBudget)
  <2>1. found \in SUBSET A /\ Cardinality(found) = Cardinality(A)
    BY <1>3, <1>4
  <2> QED
    BY <1>3, <2>1, FS_Subset
<1>8. \A b \in B : ~(b < MaxBudget) => b = MaxBudget
  BY <1>2
<1>9. \A b \in B : b < MaxBudget =>
        /\ (IF 2 * b < MaxBudget THEN 2 * b ELSE MaxBudget) \in B
        /\ (IF 2 * b < MaxBudget THEN 2 * b ELSE MaxBudget) > b
  BY <1>2
<1>10. MaxBudget \in B /\ 1 \in B
  BY <1>2
<1>11. \A b \in B : \A found \in Yields(b) : found \in SUBSET A
  BY <1>4
<1> HIDE DEF Good, Yields, B
\* An answer that is right for the next budget is right for this one.
<1>12. ASSUME NEW b \in B, NEW e \in BOOLEAN, b < MaxBudget => e = Good(A), Good(A) \in BOOLEAN
       PROVE  (\A found \in Yields(b) : Good(found) \/ (b < MaxBudget /\ e)) <=> Good(A)
  <2>1. CASE b < MaxBudget
    <3>1. e = Good(A)
      BY <1>12, <2>1
    <3>2. PICK found \in Yields(b) : TRUE
      BY <1>6
    <3>3. \A set \in Yields(b) : Good(set) => Good(A)
      BY <1>5, <1>11
    <3> QED
      BY <2>1, <3>1, <3>2, <3>3
  <2>2. CASE ~(b < MaxBudget)
    <3>1. b = MaxBudget
      BY <1>8, <2>2
    <3>2. \A found \in Yields(b) : found = A
      BY <1>7, <3>1
    <3>3. PICK found \in Yields(b) : TRUE
      BY <1>6
    <3> QED
      BY <2>2, <3>2, <3>3
  <2> QED
    BY <2>1, <2>2
<1>13. Good(A) \in BOOLEAN
  BY DEF Good, CoverageSatisfied, Sufficient
<1>14. w = Body(w)
  <2>1. ASSUME NEW b \in B PROVE w[b] = Body(w)[b]
    <3>1. PICK n : n = IF 2 * b < MaxBudget THEN 2 * b ELSE MaxBudget
      OBVIOUS
    <3>2. b < MaxBudget => w[n] = Good(A)
      BY <1>9, <3>1
    <3>3. PICK e \in BOOLEAN : e = Good(A)
      BY <1>13
    <3>4. (\A found \in Yields(b) : Good(found) \/ (b < MaxBudget /\ e)) <=> Good(A)
      BY <1>12, <1>13, <3>3
    <3>5. Body(w)[b] = (\A found \in Yields(b) : Good(found) \/ (b < MaxBudget /\ w[n]))
      BY <3>1
    <3>6. (\A found \in Yields(b) : Good(found) \/ (b < MaxBudget /\ w[n])) <=> Good(A)
      BY <3>2, <3>3, <3>4
    <3>7. Body(w)[b] \in BOOLEAN
      OBVIOUS
    <3> QED
      BY <1>13, <3>5, <3>6, <3>7
  <2> QED
    BY <2>1
<1> DEFINE chosen == CHOOSE Stops : Stops = Body(Stops)
<1>15. chosen = Body(chosen)
  BY <1>14
<1>16. \A b \in B : chosen[b] \in BOOLEAN
  BY <1>15
<1>17. ASSUME NEW b \in B, b < MaxBudget => chosen[IF 2 * b < MaxBudget THEN 2 * b ELSE MaxBudget] = Good(A)
       PROVE  chosen[b] = Good(A)
  <2>1. PICK n : n = IF 2 * b < MaxBudget THEN 2 * b ELSE MaxBudget
    OBVIOUS
  <2>2. PICK e \in BOOLEAN : e = Good(A)
    BY <1>13
  <2>3. (\A found \in Yields(b) : Good(found) \/ (b < MaxBudget /\ e)) <=> Good(A)
    BY <1>12, <1>13, <2>2
  <2>4. chosen[b] = (\A found \in Yields(b) : Good(found) \/ (b < MaxBudget /\ chosen[n]))
    BY <1>15, <2>1
  <2>5. (\A found \in Yields(b) : Good(found) \/ (b < MaxBudget /\ chosen[n])) <=> Good(A)
    BY <1>17, <2>1, <2>2, <2>3
  <2> QED
    BY <1>13, <1>16, <2>4, <2>5
<1> HIDE DEF chosen
<1>18. \A b \in B : chosen[b] = Good(A)
  <2> DEFINE Bad == {n \in Nat : \E b \in B : n = MaxBudget - b /\ chosen[b] # Good(A)}
             R == OpToRel(<, Nat)
  <2>1. SUFFICES ASSUME NEW b \in B, chosen[b] # Good(A) PROVE FALSE
    OBVIOUS
  <2>2. MaxBudget - b \in Bad
    BY <1>2, <2>1 DEF B
  <2>3. IsWellFoundedOn(R, Nat)
    BY NatLessThanWellFounded
  <2>4. PICK n \in Bad : \A m \in Bad : ~(<<m, n>> \in R)
    <3>1. Bad \subseteq Nat /\ Bad # {}
      BY <2>2
    <3> HIDE DEF Bad, R
    <3> QED
      BY <2>3, <3>1, WFMin
  <2>5. PICK c \in B : n = MaxBudget - c /\ chosen[c] # Good(A)
    OBVIOUS
  <2>6. c < MaxBudget /\ chosen[IF 2 * c < MaxBudget THEN 2 * c ELSE MaxBudget] # Good(A)
    BY <1>17, <2>5
  <2>7. PICK d : d = IF 2 * c < MaxBudget THEN 2 * c ELSE MaxBudget
    OBVIOUS
  <2>8. d \in B /\ d > c /\ chosen[d] # Good(A)
    BY <1>9, <2>6, <2>7
  <2>9. MaxBudget - d \in Nat /\ MaxBudget - d < n
    BY <1>2, <2>5, <2>8 DEF B
  <2>10. MaxBudget - d \in Bad
    BY <2>8, <2>9
  <2>11. <<MaxBudget - d, n>> \in R
    BY <2>9 DEF OpToRel
  <2> QED
    BY <2>4, <2>10, <2>11
<1>19. AdaptiveSearch(st, x, q, s) = chosen[1]
  BY <1>0 DEF AdaptiveSearch, chosen, Good, Yields, B
<1> QED
  BY <1>0, <1>1, <1>10, <1>18, <1>19 DEF Good
-----------------------------------------------------------------------------
(* The plans of the maintained index *)

\* What a row names are names of evidence.
LEMMA NamedIs ==
  ASSUME IndexConstants, NEW row \in FactRow
  PROVE  Range(row.evidence) \subseteq EvidenceId
<1>1. row.evidence \in Seq(EvidenceId)
  BY RowParts
<1> QED
  BY <1>1 DEF Range

\* What a profile is made of, whatever the facts.
LEMMA SnapshotTyped ==
  ASSUME PlanConstants, NEW evidence \in Texts, NEW assertion \in Assertions, NEW st,
         st = StoreWith(evidence, assertion), NEW s \in SubjectNumber
  PROVE  /\ SnapshotSubject(st, s).profile \in [Word -> Nat]
         /\ SnapshotSubject(st, s).predicates
              = {assertion[a].predicate : a \in {b \in AssertionId : assertion[b] # NoName /\ assertion[b].subject = s}}
<1>1. IndexConstants
  BY DEF PlanConstants
<1> DEFINE HeldRows == {b \in AssertionId : assertion[b] # NoName /\ assertion[b].subject = s}
           rows == {st.assertion[a] : a \in HeldRows}
           named == UNION {Range(r.evidence) : r \in rows}
           texts == [e \in {x \in named : st.evidence[x] # NoName} |-> st.evidence[e]]
<1>2. st.evidence = evidence /\ st.assertion = assertion
  BY DEF StoreWith
<1>3. AssertionsForSubject(st, s) = HeldRows
  BY <1>1, AssertionsOf
<1>4. \A r \in rows : r \in FactRow
  BY <1>2 DEF Assertions
<1>5. named \subseteq EvidenceId
  BY <1>1, <1>4, NamedIs
<1>6. IsFiniteSet(DOMAIN texts)
  <2>1. DOMAIN texts \subseteq EvidenceId
    BY <1>5
  <2> QED
    BY <2>1, FS_Subset DEF PlanConstants
<1>7. \A e \in DOMAIN texts : texts[e] \in [Word -> Nat]
  <2> TAKE e \in DOMAIN texts
  <2>1. e \in EvidenceId /\ evidence[e] # NoName /\ texts[e] = evidence[e]
    BY <1>2, <1>5
  <2> QED
    BY <2>1 DEF Texts, PlanConstants
<1>8. SnapshotSubject(st, s).profile = WordsOf(texts)
  BY <1>3 DEF SnapshotSubject
<1>9. SnapshotSubject(st, s).predicates = {r.predicate : r \in rows}
  BY <1>3 DEF SnapshotSubject
<1>10. {r.predicate : r \in rows} = {assertion[a].predicate : a \in HeldRows}
  BY <1>2
<1> HIDE DEF texts
<1>11. WordsOf(texts) \in [Word -> Nat]
  <2>1. ASSUME NEW w \in Word
        PROVE  SumFunction([e \in DOMAIN texts |-> texts[e][w]]) \in Nat
    <3>1. PICK count : count = [e \in DOMAIN texts |-> texts[e][w]]
      OBVIOUS
    <3>2. DOMAIN count = DOMAIN texts /\ Worths(count, DOMAIN count)
      BY <1>7, <3>1 DEF Worths
    <3>3. SumFunction(count) = SumOver(count, DOMAIN count)
      BY <1>6, <3>2, SumIs
    <3>4. SumOver(count, DOMAIN count) \in Nat
      BY <1>6, <3>2, SumIsNat
    <3> QED
      BY <3>1, <3>3, <3>4
  <2> QED
    BY <2>1 DEF WordsOf
<1> QED
  BY <1>8, <1>9, <1>10, <1>11

ProfilesOf   == [s \in SubjectNumber |-> SnapshotSubject(store, s).profile]
PredicatesOf == [s \in SubjectNumber |-> SnapshotSubject(store, s).predicates]

\* The index is about them, and they are what a scan looks at.
LEMMA ScanIs ==
  ASSUME PlanConstants, IndexInv
  PROVE  /\ Known(ProfilesOf, PredicatesOf)
         /\ \A q : Askable(q) => Holders(q) = HoldersIn(PredicatesOf, q)
         /\ \A q : Askable(q) => \A s \in SubjectNumber : ScanScore(q, s) = ScanOf(ProfilesOf, PredicatesOf, q, s)
<1>1. PICK evidence \in Texts, assertion \in Assertions :
        store = StoreWith(evidence, assertion) /\ index = IndexFor(store)
  BY DEF IndexInv
<1>2. PICK P : P = ProfilesOf
  OBVIOUS
<1>3. PICK D : D = PredicatesOf
  OBVIOUS
<1> DEFINE HeldRows(s) == {b \in AssertionId : assertion[b] # NoName /\ assertion[b].subject = s}
<1>4. IndexConstants
  BY DEF PlanConstants
<1>5. store.assertion = assertion
  BY <1>1 DEF StoreWith
<1>6. \A s \in SubjectNumber : SnapshotSubject(store, s).profile \in [Word -> Nat]
                         /\ SnapshotSubject(store, s).predicates = {assertion[a].predicate : a \in HeldRows(s)}
  BY <1>1, SnapshotTyped
<1>7. \A s \in SubjectNumber : P[s] \in [Word -> Nat] /\ P[s] = Profile(s) /\ D[s] = {assertion[a].predicate : a \in HeldRows(s)}
  BY <1>2, <1>3, <1>6 DEF ProfilesOf, PredicatesOf, Profile
<1>8. \A b \in AssertionId : assertion[b] # NoName => assertion[b].subject \in SubjectNumber /\ assertion[b].predicate \in PredicateName
  BY <1>4, RowParts DEF Assertions
<1>9. Known(P, D)
  <2>1. P \in [SubjectNumber -> [Word -> Nat]]
    BY <1>2, <1>6 DEF ProfilesOf
  <2>2. D \in [SubjectNumber -> SUBSET PredicateName]
    BY <1>3, <1>7, <1>8 DEF PredicatesOf
  <2>3. ASSUME NEW s \in SubjectNumber, D[s] = {} PROVE P[s] = NoWords
    <3>1. HeldRows(s) = {}
      <4>1. \A a \in HeldRows(s) : assertion[a].predicate \in D[s]
        BY <1>7
      <4> QED
        BY <2>3, <4>1
    <3>2. AssertionsForSubject(store, s) = {}
      BY <1>1, <1>4, <3>1, AssertionsOf
    <3>3. SnapshotSubject(store, s) = [profile |-> NoWords, predicates |-> {}, evidence |-> {}]
      BY <3>2, NoAssertionsNoProfile
    <3> QED
      BY <1>2, <3>3 DEF ProfilesOf
  <2> QED
    BY <2>1, <2>2, <2>3 DEF Known
<1>10. ASSUME NEW q, Askable(q) PROVE Holders(q) = HoldersIn(D, q)
  <2>1. NoName \notin PredicateName
    BY DEF PlanConstants
  <2>2. StoredIn(store) = {a \in AssertionId : assertion[a] # NoName}
    BY <1>5 DEF StoredIn
  <2>3. \A s \in SubjectNumber : s \in Holders(q) <=> \E a \in HeldRows(s) : q.predicate \in {NoName, assertion[a].predicate}
    BY <1>5, <2>2 DEF Holders
  <2>4. \A s \in SubjectNumber : s \in HoldersIn(D, q) <=> \E a \in HeldRows(s) : q.predicate \in {NoName, assertion[a].predicate}
    <3> TAKE s \in SubjectNumber
    <3>1. s \in HoldersIn(D, q) <=> IF q.predicate = NoName THEN D[s] # {} ELSE q.predicate \in D[s]
      BY DEF HoldersIn
    <3>2. \A p : p \in D[s] <=> \E a \in HeldRows(s) : p = assertion[a].predicate
      BY <1>7
    <3> QED
      BY ONLY <3>1, <3>2
  <2>5. Holders(q) \subseteq SubjectNumber /\ HoldersIn(D, q) \subseteq SubjectNumber
    BY DEF Holders, HoldersIn
  <2> QED
    BY <2>3, <2>4, <2>5
<1>11. ASSUME NEW q, Askable(q), NEW s \in SubjectNumber PROVE ScanScore(q, s) = ScanOf(P, D, q, s)
  <2> DEFINE Frags(w) == {f \in Fragments[w] : <<"fragment", f>> \in Features(Profile(s))}
  <2> DEFINE Grs(w) == {g \in Grams[w] : <<"ngram", g>> \in Features(Profile(s))}
  <2> DEFINE Part(w) ==
        IF \E t \in Holders(q) : Profile(t)[w] > 0
        THEN IF Profile(s)[w] > 0
             THEN Idf[Cardinality({t \in SubjectNumber : Profile(t) # NoWords})]
                     [Cardinality({t \in SubjectNumber : Profile(t)[w] > 0})] * (140 + Log[Profile(s)[w]])
             ELSE 0
        ELSE 3000 * Cardinality(Frags(w)) + 1000 * Cardinality(Grs(w))
  <2>1. ASSUME NEW w PROVE Part(w) = PartOf(P, D, q, s, w)
    <3>1. Holders(q) = HoldersIn(D, q) /\ HoldersIn(D, q) \subseteq SubjectNumber
      BY <1>10, <1>11 DEF HoldersIn
    <3>2. (\E t \in Holders(q) : Profile(t)[w] > 0) <=> Has(P, D, q, w)
      BY <1>7, <3>1 DEF Has
    <3>3. {t \in SubjectNumber : Profile(t) # NoWords} = {t \in SubjectNumber : P[t] # NoWords}
      BY <1>7
    <3>4. {t \in SubjectNumber : Profile(t)[w] > 0} = {t \in SubjectNumber : P[t][w] > 0}
      BY <1>7
    <3>5. Profile(s) = P[s]
      BY <1>7
    <3>6. Frags(w) = FragmentsOf(P, s, w)
      BY <3>5 DEF FragmentsOf
    <3>7. Grs(w) = GramsOf(P, s, w)
      BY <3>5 DEF GramsOf
    <3>8. Idf[Cardinality({t \in SubjectNumber : Profile(t) # NoWords})]
             [Cardinality({t \in SubjectNumber : Profile(t)[w] > 0})] = WorthOf(P, w)
      BY <3>3, <3>4 DEF WorthOf
    <3>9. CASE Has(P, D, q, w)
      BY <3>2, <3>5, <3>8, <3>9 DEF PartOf
    <3>10. CASE ~Has(P, D, q, w)
      <4> HIDE DEF Frags, Grs
      <4>1. Part(w) = 3000 * Cardinality(Frags(w)) + 1000 * Cardinality(Grs(w))
        BY ONLY <3>2, <3>10
      <4> QED
        BY <3>6, <3>7, <3>10, <4>1 DEF PartOf
    <3> QED
      BY <3>9, <3>10
  <2>2. ScanScore(q, s) = SumFunction([i \in DOMAIN q.words |-> Part(q.words[i])])
    BY DEF ScanScore
  <2> HIDE DEF Part, Frags, Grs
  <2>3. [i \in DOMAIN q.words |-> Part(q.words[i])] = PartAt(P, D, q, s)
    BY <2>1 DEF PartAt
  <2>4. PICK A : A = PartAt(P, D, q, s)
    OBVIOUS
  <2>5. IsFiniteSet(DOMAIN q.words) /\ \A i \in DOMAIN q.words : q.words[i] \in Word
    BY <1>11, PlacesOfQuestion
  <2>6. DOMAIN A = DOMAIN q.words /\ Worths(A, DOMAIN q.words)
    <3>1. \A i \in DOMAIN q.words : PartOf(P, D, q, s, q.words[i]) \in Nat
      <4> TAKE i \in DOMAIN q.words
      <4>1. PICK w \in Word : w = q.words[i]
        BY <2>5
      <4>2. WorthOf(P, w) \in Nat
        BY <1>9, WorthIs
      <4>3. P[s][w] > 0 => Log[P[s][w]] \in Nat
        BY <1>7 DEF PlanConstants
      <4>4. Cardinality(FragmentsOf(P, s, w)) \in Nat /\ Cardinality(GramsOf(P, s, w)) \in Nat
        <5>1. IsFiniteSet(FragmentsOf(P, s, w)) /\ IsFiniteSet(GramsOf(P, s, w))
          BY FS_Subset DEF PlanConstants, FragmentsOf, GramsOf
        <5> QED
          BY <5>1, FS_CardinalityType
      <4>5. \A a, b \in Nat : a * (140 + b) \in Nat
        OBVIOUS
      <4>6. PartOf(P, D, q, s, w) \in Nat
        BY <4>2, <4>3, <4>4, <4>5 DEF PartOf
      <4> QED
        BY <4>1, <4>6
    <3> QED
      BY <2>4, <3>1 DEF Worths, PartAt
  <2>7. SumFunction(A) = SumOver(A, DOMAIN A)
    BY <2>5, <2>6, SumIs
  <2> QED
    BY <2>2, <2>3, <2>4, <2>6, <2>7 DEF ScanOf
<1> QED
  BY <1>2, <1>3, <1>9, <1>10, <1>11

\* The facts about a key that have evidence.
HeldFor(s, p) ==
  {a \in StoredIn(store) : /\ FactKeyOf(store.assertion[a]) = <<s, p>>
                          /\ Range(store.assertion[a].evidence) \cap Docs(store) # {}}

\* They suffice for a question exactly when the search ends covered.
LEMMA SearchEnds ==
  ASSUME PlanConstants, IndexInv, NEW x, NEW q, q.predicate \in PredicateName, NEW s \in SubjectNumber
  PROVE  Sufficient(x, q, <<s, q.predicate>>, HeldFor(s, q.predicate)) <=> AdaptiveSearch(store, x, q, s)
<1>0. PICK p \in PredicateName : p = q.predicate
  OBVIOUS
<1>1. PICK evidence \in Texts, assertion \in Assertions :
        store = StoreWith(evidence, assertion) /\ index = IndexFor(store)
  BY DEF IndexInv
<1>2. IndexConstants
  BY DEF PlanConstants
<1>3. PICK st : st = store
  OBVIOUS
<1>4. PICK A : A = Allowed(st, s, p)
  OBVIOUS
<1>5. A \subseteq EvidenceId
  BY <1>4 DEF Allowed, Docs
<1>6. IsFiniteSet(A) /\ Cardinality(A) <= MaxBudget
  <2>1. IsFiniteSet(A) /\ Cardinality(A) <= Cardinality(EvidenceId) /\ IsFiniteSet(EvidenceId)
    BY <1>5, FS_Subset DEF PlanConstants
  <2>2. Cardinality(A) \in Nat /\ Cardinality(EvidenceId) \in Nat
    BY <2>1, FS_CardinalityType
  <2> QED
    BY <2>1, <2>2 DEF PlanConstants
<1>7. AdaptiveSearch(st, x, q, s) <=> CoverageSatisfied(st, x, q, s, A)
  BY <1>0, <1>4, <1>6, AdaptiveIs
<1>8. st.assertion = assertion /\ st.locality = Locality(assertion, StoredIn(st)) /\ Filled(assertion, StoredIn(st))
  BY <1>1, <1>2, <1>3, StoreParts
<1>9. AssertionsForKey(st, <<s, p>>) = {a \in StoredIn(st) : FactKeyOf(assertion[a]) = <<s, p>>}
  <2>1. <<s, p>> \in FactKey
    BY DEF FactKey
  <2> QED
    BY <1>8, <2>1 DEF AssertionsForKey, Locality, KeysOf
<1>10. ASSUME NEW a \in StoredIn(st), FactKeyOf(assertion[a]) = <<s, p>>
       PROVE  Range(assertion[a].evidence) \cap A = Range(assertion[a].evidence) \cap Docs(st)
  <2>1. assertion[a].subject = s /\ assertion[a].predicate = p
    BY <1>10 DEF FactKeyOf
  <2>2. \A e : e \in Range(assertion[a].evidence) => assertion[a] \in Linked(st, e)
    BY <1>8 DEF Linked
  <2>3. \A e \in Range(assertion[a].evidence) : e \in Docs(st) => e \in A
    BY <1>4, <2>1, <2>2 DEF Allowed
  <2>4. A \subseteq Docs(st)
    BY <1>4 DEF Allowed
  <2> QED
    BY <2>3, <2>4
<1>11. {a \in AssertionsForKey(st, <<s, p>>) : Range(st.assertion[a].evidence) \cap A # {}} = HeldFor(s, p)
  BY <1>3, <1>8, <1>9, <1>10 DEF HeldFor
<1>12. CoverageSatisfied(st, x, q, s, A) <=> Sufficient(x, q, <<s, p>>, HeldFor(s, p))
  BY <1>0, <1>11 DEF CoverageSatisfied
<1> QED
  BY <1>0, <1>3, <1>7, <1>12

\* The plans of the maintained index are those of a scan.
LEMMA IndexInvPlans == ASSUME PlanConstants, IndexInv PROVE PlansMatchScan
<1> SUFFICES ASSUME NEW q \in Questions
             PROVE  LET s     == PlanSubject(index, q)
                        scan  == {t \in Holders(q) : ScanScore(q, t) > 0}
                        best  == Best([t \in scan |-> ScanScore(q, t)])
                    IN  /\ s # NoName => s \in scan
                        /\ ~SawBroad(index, q) /\ Cardinality(scan) <= q.candidates
                             => s = IF Cardinality(best) = 1 THEN CHOOSE t \in best : TRUE ELSE NoName
                        /\ s # NoName /\ q.predicate # NoName =>
                             \A x \in Asides :
                               Sufficient(x, q, <<s, q.predicate>>, HeldFor(s, q.predicate))
                                 <=> AdaptiveSearch(store, x, q, s)
  BY DEF PlansMatchScan, HeldFor
<1> DEFINE scan == {t \in Holders(q) : ScanScore(q, t) > 0}
<1>1. Askable(q)
  BY DEF PlanConstants, Askable
<1>2. PICK P : P = ProfilesOf
  OBVIOUS
<1>3. PICK D : D = PredicatesOf
  OBVIOUS
<1>4. PICK ev : index = IndexOf(P, D, ev)
  BY <1>2, <1>3 DEF IndexInv, IndexFor, ProfilesOf, PredicatesOf
<1>5. /\ Known(P, D) /\ Holders(q) = HoldersIn(D, q)
      /\ \A s \in SubjectNumber : ScanScore(q, s) = ScanOf(P, D, q, s)
  BY <1>1, <1>2, <1>3, ScanIs
<1>6. HoldersIn(D, q) \subseteq SubjectNumber
  BY DEF HoldersIn
<1>7. scan = ScanIn(P, D, q)
  BY <1>5, <1>6 DEF ScanIn
<1>8. [t \in scan |-> ScanScore(q, t)] = [t \in ScanIn(P, D, q) |-> ScanOf(P, D, q, t)]
  <2>1. \A t \in ScanIn(P, D, q) : ScanScore(q, t) = ScanOf(P, D, q, t)
    BY <1>5, <1>6 DEF ScanIn
  <2> QED
    BY <1>7, <2>1
<1>9. Best([t \in scan |-> ScanScore(q, t)]) = BestIn(P, D, q)
  BY <1>8 DEF BestIn
<1>10. PICK s : s = PlanSubject(index, q)
  OBVIOUS
<1>11. /\ s # NoName => s \in ScanIn(P, D, q)
       /\ ~SawBroad(index, q) /\ Cardinality(ScanIn(P, D, q)) <= q.candidates =>
            s = IF Cardinality(BestIn(P, D, q)) = 1 THEN CHOOSE t \in BestIn(P, D, q) : TRUE ELSE NoName
  BY <1>1, <1>4, <1>5, <1>10, PlanIs
<1>12. s # NoName => s \in SubjectNumber
  BY <1>6, <1>11 DEF ScanIn
<1>13. s # NoName /\ q.predicate # NoName =>
         \A x \in Asides :
           Sufficient(x, q, <<s, q.predicate>>, HeldFor(s, q.predicate)) <=> AdaptiveSearch(store, x, q, s)
  <2>1. q.predicate # NoName => q.predicate \in PredicateName
    BY <1>1 DEF Askable
  <2> QED
    BY <1>12, <2>1, SearchEnds
<1> HIDE DEF scan
<1> QED
  BY <1>7, <1>9, <1>10, <1>11, <1>13 DEF scan

\* However the facts changed, a question is resolved to a subject a full scan
\* finds, to the scan's choice when no posting is broad and the limit admits all
\* that is found, and the adaptive search ends covered exactly when the facts that
\* have evidence suffice for the question, one about a relation or a contested cell
\* included (rag/scalable_planner.py, rag/retrieval.py), the largest budget being
\* as large as there is evidence.
THEOREM PlansFollowScan == ASSUME PlanConstants PROVE InMemorySpec => []PlansMatchScan
<1>1. IndexConstants
  BY DEF PlanConstants
<1>2. InMemoryInit => IndexInv
  BY <1>1, IndexInit DEF InMemoryInit
<1>3. IndexInv /\ [InMemoryNext]_<<tvars, known, state, addressVars>> => IndexInv'
  BY <1>1, AddressOf, IndexStep
<1>4. IndexInv => PlansMatchScan
  BY IndexInvPlans
<1> QED
  BY <1>2, <1>3, <1>4, PTL DEF InMemorySpec
=============================================================================
