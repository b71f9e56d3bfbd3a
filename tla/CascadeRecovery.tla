-------------------------- MODULE CascadeRecovery --------------------------
(***************************************************************************)
(* Who changes the in-memory facts and keeps what is derived from them:    *)
(* CascadeMaintainer (state/cascade.py), whose caller rebuilds what it     *)
(* likes when it likes, and RecoveryCoordinator (state/recovery.py), which *)
(* carries one journalled intent from phase to phase and, after a crash,   *)
(* on from the phase that had become durable.  The first write of an       *)
(* intent and its phase marker may have become durable one without the     *)
(* other.                                                                  *)
(***************************************************************************)
EXTENDS DependencyCascade

CONSTANT MaxMutations    \* bound on the mutations of a run

ASSUME MutationsAssumption == MaxMutations \in Nat

VARIABLES
  facts,
  derived,
  journal,       \* the intent in flight
  restarted,     \* the process has come up with that intent in its journal
  mutations

vars == <<facts, derived, journal, restarted, mutations>>

\* An operation: what it is, on what, the new content, the row before it.
NoOp     == [op |-> "none", id |-> None, new |-> None, old |-> NoRow]
NoIntent == [op |-> NoOp, phase |-> "none", affected |-> {}]
Quiet    == journal = NoIntent

-----------------------------------------------------------------------------
(* What an operation does *)

\* The new content is nothing for a deletion.
OnEvidence(o)  == o.op \in {"upsert_evidence", "delete_evidence"}
OnAssertion(o) == o.op \in {"upsert_assertion", "delete_assertion"}

\* _apply_canonical, and the maintainer's own writes.
Applied(f, o) ==
  [assertion |-> IF OnAssertion(o) THEN [f.assertion EXCEPT ![o.id] = o.new] ELSE f.assertion,
   evidence  |-> IF OnEvidence(o) THEN [f.evidence EXCEPT ![o.id] = o.new] ELSE f.evidence,
   relations |-> IF o.op = "add_relation" THEN f.relations \cup {o.new} ELSE f.relations]

Rows(o) == {o.old, o.new} \ {NoRow}

\* Of a deletion too.
ProfileChanged(o) ==
  \/ o.old = NoRow
  \/ o.old.subject # o.new.subject
  \/ o.old.predicate # o.new.predicate
  \/ o.old.evidence # o.new.evidence

Related(f, r) == {a \in {r[1], r[3]} : Stored(f, a)}

\* Mutant of Marked: a moved assertion's old key is forgotten.
Marked_NewKeyOnly(d, f, o) ==
  IF OnEvidence(o) THEN InvalidateFrom(d, {<<"evidence", o.id>>})
  ELSE IF OnAssertion(o)
       THEN InvalidateKeys(d, f, {KeyOf(IF o.new = NoRow THEN o.old ELSE o.new)},
                           IF ProfileChanged(o) THEN {r.subject : r \in Rows(o)} ELSE {})
       ELSE InvalidateKeys(d, f, {KeyOf(f.assertion[a]) : a \in Related(f, o.new)}, {})

\* The invalidation that follows, with the facts f as the operation left them.
Marked(d, f, o) ==
  IF OnEvidence(o) THEN InvalidateFrom(d, {<<"evidence", o.id>>})
  ELSE IF OnAssertion(o)
       THEN InvalidateKeys(d, f, {KeyOf(r) : r \in Rows(o)},
                           IF ProfileChanged(o) THEN {r.subject : r \in Rows(o)} ELSE {})
       ELSE InvalidateKeys(d, f, {KeyOf(f.assertion[a]) : a \in Related(f, o.new)}, {})

\* trace.invalidated_node_ids: what was not invalid before.
Newly(d, e) == Invalid(e) \ Invalid(d)

-----------------------------------------------------------------------------
(* The operations callers ask for *)

UpsertEvidence(e, p)   == [NoOp EXCEPT !.op = "upsert_evidence", !.id = e, !.new = p]
DeleteEvidence(e)      == [NoOp EXCEPT !.op = "delete_evidence", !.id = e]
UpsertAssertion(a, row) ==
  [NoOp EXCEPT !.op = "upsert_assertion", !.id = a, !.new = row, !.old = facts.assertion[a]]
DeleteAssertion(a) ==
  [NoOp EXCEPT !.op = "delete_assertion", !.id = a, !.new = NoRow, !.old = facts.assertion[a]]
AddRelation(r)         == [NoOp EXCEPT !.op = "add_relation", !.new = r]

\* What the journal can hold.
Journalled ==
  {UpsertEvidence(e, p) : e \in Evidence, p \in Payload}
    \cup {UpsertAssertion(a, row) : a \in Assertion, row \in Row}
    \cup {DeleteAssertion(a) : a \in {x \in Assertion : Stored(facts, x)}}

Direct ==
  Journalled \cup {DeleteEvidence(e) : e \in Evidence} \cup {AddRelation(r) : r \in Relation}

\* One intent at a time (_require_single_flight); nothing else is changed under it.
CanAsk == Quiet /\ mutations < MaxMutations

\* CascadeMaintainer: the facts and the invalidation, in one call.
Mutate(o) ==
  /\ facts' = Applied(facts, o)
  /\ derived' = Marked(derived, facts', o)
  /\ mutations' = mutations + 1
  /\ UNCHANGED <<journal, restarted>>

\* CascadeMaterialization.rebuild, of some invalid nodes or of all of them.
RebuildSome(targets) ==
  /\ Quiet
  /\ derived' = Rebuild(derived, facts, targets)
  /\ UNCHANGED <<facts, journal, restarted, mutations>>

-----------------------------------------------------------------------------
(* RecoveryCoordinator *)

Prepare(o) ==
  /\ journal' = [NoIntent EXCEPT !.op = o, !.phase = "prepared"]
  /\ mutations' = mutations + 1
  /\ UNCHANGED <<facts, derived, restarted>>

ApplyCanonical ==
  /\ journal.phase = "prepared"
  /\ facts' = Applied(facts, journal.op)
  /\ journal' = [journal EXCEPT !.phase = "canonical_applied"]
  /\ UNCHANGED <<derived, restarted, mutations>>

\* Mutant of Invalidate: recovery does not redo the write.
Invalidate_NoRedo ==
  /\ journal.phase = "canonical_applied"
  /\ derived' = Marked(derived, facts, journal.op)
  /\ journal' = [journal EXCEPT !.phase = "invalidated", !.affected = Newly(derived, derived')]
  /\ UNCHANGED <<facts, restarted, mutations>>

\* In recovery the write is done again: it may not have become durable.  (The
\* code spares the write when the same call has just done it: it is idempotent.)
Invalidate ==
  /\ journal.phase = "canonical_applied"
  /\ facts' = IF restarted THEN Applied(facts, journal.op) ELSE facts
  /\ derived' = Marked(derived, facts', journal.op)
  /\ journal' = [journal EXCEPT !.phase = "invalidated", !.affected = Newly(derived, derived')]
  /\ UNCHANGED <<restarted, mutations>>

Priority(n) == IF n[1] \in {"profile", "state"} THEN 0 ELSE IF n[1] = "support" THEN 1 ELSE 2

\* run_until(stop_after = REBUILDING): one node is written, and stays untrusted.
PartialRebuild ==
  /\ journal.phase = "invalidated"
  /\ LET candidates == journal.affected \cap Invalid(derived)
     IN  \E n \in candidates :
           /\ \A m \in candidates : Priority(n) <= Priority(m)
           /\ derived' = [derived EXCEPT ![n] = [Rebuilt(derived, facts, n)
                                                   EXCEPT !.status = "rebuilding"]]
  /\ journal' = [journal EXCEPT !.phase = "rebuilding"]
  /\ UNCHANGED <<facts, restarted, mutations>>

\* Mutant of Reinvalidate: what has been written is trusted.
Reinvalidate_Trusts ==
  /\ journal.phase = "rebuilding"
  /\ journal' = [journal EXCEPT !.phase = "invalidated"]
  /\ UNCHANGED <<facts, derived, restarted, mutations>>

Reinvalidate ==
  /\ journal.phase = "rebuilding"
  /\ derived' = InvalidateNodes(derived, journal.affected)
  /\ journal' = [journal EXCEPT !.phase = "invalidated"]
  /\ UNCHANGED <<facts, restarted, mutations>>

Repair ==
  /\ journal.phase = "invalidated"
  /\ derived' = Rebuild(derived, facts, journal.affected)
  /\ journal' = [journal EXCEPT !.phase = "repaired"]
  /\ UNCHANGED <<facts, restarted, mutations>>

Finish ==
  /\ journal.phase = "repaired"
  /\ journal' = NoIntent
  /\ restarted' = FALSE
  /\ UNCHANGED <<facts, derived, mutations>>

\* The process dies; what comes up is the durable image.  Of the canonical
\* write and the marker that follows it, one may have become durable alone.
Crash ==
  /\ ~Quiet
  /\ restarted' = TRUE
  /\ \/ UNCHANGED <<facts, journal>>
     \/ /\ journal.phase = "prepared"
        /\ \/ facts' = Applied(facts, journal.op) /\ UNCHANGED journal
           \/ journal' = [journal EXCEPT !.phase = "canonical_applied"] /\ UNCHANGED facts
  /\ UNCHANGED <<derived, mutations>>

-----------------------------------------------------------------------------
Init ==
  /\ facts \in {f \in Facts : f.relations = {}}
  /\ derived = Clean(facts)
  /\ journal = NoIntent
  /\ restarted = FALSE
  /\ mutations = 0

Next ==
  \/ CanAsk /\ \E o \in Direct : Mutate(o)
  \/ CanAsk /\ \E o \in Journalled : Prepare(o)
  \/ Quiet /\ \E n \in Invalid(derived) : RebuildSome({n})
  \/ RebuildSome(Invalid(derived))
  \/ ApplyCanonical \/ Invalidate \/ PartialRebuild \/ Reinvalidate \/ Repair \/ Finish
  \/ Crash

Spec == Init /\ [][Next]_vars

-----------------------------------------------------------------------------
(* Properties *)

\* A node that is not registered leaves no edge and no value behind.
TypeOK ==
  /\ facts \in Facts
  /\ \A n \in Node : /\ derived[n].status \in {"none", "fresh", "invalid", "rebuilding"}
                     /\ ~Exists(derived, n) => derived[n] = NoNode
  /\ journal.phase \in {"none", "prepared", "canonical_applied", "invalidated",
                        "rebuilding", "repaired"}
  /\ journal.affected \subseteq Node
  /\ restarted \in BOOLEAN /\ (restarted => ~Quiet)
  /\ mutations \in 0 .. MaxMutations

\* A node that readers trust (read_context asks for no more than its status)
\* holds what the facts of now give, and rests on what they say, however far the
\* rebuilding has come: cascade.py:385, recovery.py:314.  While the facts may be
\* ahead of the invalidation the journal is not empty, and reads are refused.
FreshIsClean ==
  journal.phase \notin {"prepared", "canonical_applied"} =>
    LET clean == Clean(facts)
    IN  \A n \in Node : Fresh(derived, n) =>
          /\ derived[n].value = clean[n].value
          /\ Exists(clean, n) => derived[n].from = clean[n].from

\* With nothing invalid and nothing in flight, the maintained materialization is
\* the one a build from the facts makes (equivalent_to, cascade.py:407): what
\* rested on deleted assertions is gone too.
SettledIsClean ==
  Quiet /\ Invalid(derived) = {} => derived = Clean(facts)

\* From the invalidation on, the intent's write is in the facts, whichever of
\* the write and its marker a crash let through: recovery.py:75-78.
IntentIsApplied ==
  journal.phase \in {"invalidated", "rebuilding", "repaired"} =>
    Applied(facts, journal.op) = facts

\* When an intent counts as repaired, no node it affected waits for a rebuild,
\* and none was left half trusted by the process that died: recovery.py:287.
RepairedIsTrusted ==
  journal.phase \in {"none", "repaired"} =>
    /\ \A n \in Node : derived[n].status # "rebuilding"
    /\ journal.affected \cap Invalid(derived) = {}
=============================================================================
