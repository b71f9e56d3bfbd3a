-------------------------- MODULE IntentPipeline --------------------------
(***************************************************************************)
(* The SQLite intent pipeline at v0.12 (storage/growth_intent.py over      *)
(* topology_intent.py, multi_intent.py and sqlite_recovery.py).  Clients   *)
(* admit intents to a durable queue; a process that drains it promotes     *)
(* the oldest into the maintenance journal and carries it from phase to    *)
(* phase: apply it to the facts, invalidate what was derived from them,    *)
(* repair that, delete the journal's row.  Every phase is one SQLite       *)
(* transaction, so a killed process loses only its place in the program.   *)
(* A read is refused while the journal says it could be stale.             *)
(***************************************************************************)
EXTENDS Materialization, Sequences, FiniteSets

CONSTANTS
  Worker,      \* processes that drain the queue
  MaxIntents   \* bound on the intents admitted

ASSUME MaxIntentsAssumption == MaxIntents \in Nat

VARIABLES
  facts,       \* the evidence and assertions tables
  derived,     \* derived_nodes and dependency_edges
  version,     \* canonical_versions
  queue,       \* intent_queue, in the order of seq
  journal,     \* maintenance_journal: one intent at most
  pc           \* where each worker is; in recover(), the phase it has read

vars == <<facts, derived, version, queue, journal, pc>>

WriteKey == {"evidence", "assertion"} \X Entity
NoIntent == [seq |-> 0, phase |-> "none", affected |-> {}]
Active   == queue[journal.seq]

-----------------------------------------------------------------------------
(* Admission *)

Key(i) == <<IF i.op = "evidence" THEN "evidence" ELSE "assertion", i.index>>

\* _queue_read_keys.
ReadKeys(i) ==
  CASE i.op = "evidence"  -> {facts.assertion[i.index].subject} \ {None}
    [] i.op = "assertion" -> {i.new.subject, i.old.subject}
    [] i.op = "delete"    -> {i.old.subject}

\* _enqueue_tx, with the snapshot its caller takes in the same transaction.
Admit(op, index, new, old) ==
  LET i == [op |-> op, index |-> index, new |-> new, old |-> old]
  IN  /\ Len(queue) < MaxIntents
      /\ queue' = Append(queue,
           [op |-> op, index |-> index, new |-> new, old |-> old,
            base |-> version[Key(i)], reads |-> ReadKeys(i), status |-> "queued"])
      /\ UNCHANGED <<facts, derived, version, journal, pc>>

Stored(i) == facts.assertion[i] # NoRow

\* enqueue_operation.
ReplacePayload(i) == Admit("evidence", i, NoRow, NoRow)
ReplaceObject(i, v) ==
  /\ Stored(i)
  /\ Admit("assertion", i, [facts.assertion[i] EXCEPT !.object = v], facts.assertion[i])
DeleteAssertion(i) ==
  /\ Stored(i)
  /\ Admit("delete", i, NoRow, facts.assertion[i])

\* enqueue_topology_move.
MoveAssertion(i, s) ==
  /\ Stored(i)
  /\ Admit("assertion", i, [facts.assertion[i] EXCEPT !.subject = s], facts.assertion[i])

-----------------------------------------------------------------------------
(* The transactions of maintenance *)

\* Mutant of ApplyTx: the version stays.
ApplyTx_SameVersion ==
  /\ journal.phase = "prepared"
  /\ facts' = Effect(facts, Active)
  /\ journal' = [journal EXCEPT !.phase = "canonical_applied"]
  /\ UNCHANGED <<derived, version, queue>>

ApplyTx ==
  /\ journal.phase = "prepared"
  /\ facts' = Effect(facts, Active)
  /\ version' = [version EXCEPT ![Key(Active)] = @ + 1]
  /\ journal' = [journal EXCEPT !.phase = "canonical_applied"]
  /\ UNCHANGED <<derived, queue>>

InvalidateTx ==
  /\ journal.phase = "canonical_applied"
  /\ derived' = Invalidated(derived, Affected(derived, Active))
  /\ journal' = [journal EXCEPT !.phase = "invalidated",
                                !.affected = Affected(derived, Active)]
  /\ UNCHANGED <<facts, version, queue>>

Rank(kind) == CASE kind = "profile" -> 0 [] kind = "state" -> 1
                [] kind = "support" -> 2 [] kind = "context" -> 3

\* The order in which nodes are repaired.
NotAfter(m, n) ==
  Rank(m[1]) < Rank(n[1]) \/ (m[1] = n[1] /\ m[2] <= n[2])

\* partial_rebuild_transaction, which only a process stepping by hand calls.
PartialTx ==
  /\ journal.phase = "invalidated"
  /\ \E n \in journal.affected :
       /\ \A m \in journal.affected : NotAfter(n, m)
       /\ derived' = [derived EXCEPT ![n].status = "rebuilding", ![n].value = Nothing]
  /\ journal' = [journal EXCEPT !.phase = "rebuilding"]
  /\ UNCHANGED <<facts, version, queue>>

RepairTx ==
  /\ journal.phase \in {"invalidated", "rebuilding"}
  /\ derived' = Repaired(IF journal.phase = "rebuilding"
                         THEN Invalidated(derived, journal.affected) ELSE derived,
                         facts, journal.affected)
  /\ journal' = [journal EXCEPT !.phase = "repaired"]
  /\ UNCHANGED <<facts, version, queue>>

\* Deleting the journal's row fires the trigger that ends the intent.
FinalizeTx ==
  /\ journal # NoIntent
  /\ queue' = IF Active.status = "active"
              THEN [queue EXCEPT ![journal.seq].status = "done"] ELSE queue
  /\ journal' = NoIntent
  /\ UNCHANGED <<facts, derived, version>>

-----------------------------------------------------------------------------
(* promote_next *)

Oldest(n) == queue[n].status = "queued" /\ \A m \in 1 .. n-1 : queue[m].status # "queued"

\* Mutant of PromoteTx: the drain leaves what conflicts in the queue.
PromoteTx_KeepsConflict(n) ==
  IF queue[n].base = version[Key(queue[n])]
  THEN /\ journal' = [NoIntent EXCEPT !.seq = n, !.phase = "prepared"]
       /\ queue' = [queue EXCEPT ![n].status = "active", ![n].reads = ReadKeys(queue[n])]
  ELSE UNCHANGED <<queue, journal>>

\* Mutant of PromoteTx: the version is not looked at.
PromoteTx_Unconditional(n) ==
  /\ journal' = [NoIntent EXCEPT !.seq = n, !.phase = "prepared"]
  /\ queue' = [queue EXCEPT ![n].status = "active", ![n].reads = ReadKeys(queue[n])]

\* Mutant of PromoteTx: the read keys stay those of admission, as in v0.10.
PromoteTx_OldKeys(n) ==
  IF queue[n].base = version[Key(queue[n])]
  THEN /\ journal' = [NoIntent EXCEPT !.seq = n, !.phase = "prepared"]
       /\ queue' = [queue EXCEPT ![n].status = "active"]
  ELSE queue' = [queue EXCEPT ![n].status = "conflict"] /\ UNCHANGED journal

PromoteTx(n) ==
  IF queue[n].base = version[Key(queue[n])]
  THEN /\ journal' = [NoIntent EXCEPT !.seq = n, !.phase = "prepared"]
       /\ queue' = [queue EXCEPT ![n].status = "active", ![n].reads = ReadKeys(queue[n])]
  ELSE queue' = [queue EXCEPT ![n].status = "conflict"] /\ UNCHANGED journal

-----------------------------------------------------------------------------
(* A worker in drain_all, and in the recover() it calls *)

Goto(w, from, to) == pc[w] = from /\ pc' = [pc EXCEPT ![w] = to]
Tables == <<facts, derived, version, queue, journal>>

Begin(w) == Goto(w, "idle", "looking") /\ UNCHANGED Tables

Look(w) ==
  /\ Goto(w, "looking", IF journal = NoIntent THEN "promoting" ELSE "reading")
  /\ UNCHANGED Tables

\* recover() reads the phase.
Read(w) ==
  /\ Goto(w, "reading", IF journal = NoIntent THEN "looking" ELSE journal.phase)
  /\ UNCHANGED Tables

RecoverApply(w)      == Goto(w, "prepared", "canonical_applied") /\ ApplyTx
RecoverInvalidate(w) == Goto(w, "canonical_applied", "invalidated") /\ InvalidateTx
RecoverRepair(w) ==
  /\ \E phase \in {"invalidated", "rebuilding"} : Goto(w, phase, "repaired")
  /\ RepairTx

\* The last transaction deletes whatever row the journal holds.
RecoverFinalize(w) ==
  /\ Goto(w, "repaired", "looking")
  /\ FinalizeTx \/ (journal = NoIntent /\ UNCHANGED Tables)

\* The journal is not in the phase that was read: recover() raises.
Unexpected(w) ==
  /\ \/ pc[w] \in {"prepared", "canonical_applied"} /\ journal.phase # pc[w]
     \/ /\ pc[w] \in {"invalidated", "rebuilding"}
        /\ journal.phase \notin {"invalidated", "rebuilding"}
  /\ pc' = [pc EXCEPT ![w] = "idle"]
  /\ UNCHANGED Tables

Promote(w) ==
  /\ pc[w] = "promoting"
  /\ journal = NoIntent
  /\ \E n \in DOMAIN queue : Oldest(n) /\ PromoteTx(n)
  /\ pc' = [pc EXCEPT ![w] = "looking"]
  /\ UNCHANGED <<facts, derived, version>>

Busy(w) ==
  /\ Goto(w, "promoting", "looking")
  /\ journal # NoIntent
  /\ UNCHANGED Tables

\* The queue is drained.
Drained(w) ==
  /\ Goto(w, "promoting", "idle")
  /\ journal = NoIntent
  /\ \A n \in DOMAIN queue : queue[n].status # "queued"
  /\ UNCHANGED Tables

Drain(w) ==
  \/ Begin(w) \/ Look(w) \/ Read(w) \/ Promote(w) \/ Busy(w) \/ Drained(w)
  \/ RecoverApply(w) \/ RecoverInvalidate(w) \/ RecoverRepair(w) \/ RecoverFinalize(w)
  \/ Unexpected(w)

\* A process that calls the phase transactions one by one.
ByHand(w) ==
  /\ Goto(w, "idle", "idle")
  /\ \/ ApplyTx \/ InvalidateTx \/ PartialTx \/ RepairTx
     \/ journal.phase = "repaired" /\ FinalizeTx

Killed(w) ==
  /\ pc[w] # "idle"
  /\ pc' = [pc EXCEPT ![w] = "idle"]
  /\ UNCHANGED Tables

-----------------------------------------------------------------------------
Init ==
  /\ facts = FirstFacts
  /\ derived = Clean(FirstFacts)
  /\ version = [k \in WriteKey |-> 0]
  /\ queue = <<>>
  /\ journal = NoIntent
  /\ pc = [w \in Worker |-> "idle"]

Client ==
  \E i \in Entity :
     \/ ReplacePayload(i) \/ DeleteAssertion(i)
     \/ \E v \in Object : ReplaceObject(i, v)
     \/ \E s \in Subject : MoveAssertion(i, s)

Next == Client \/ \E w \in Worker : Drain(w) \/ ByHand(w) \/ Killed(w)

Spec == Init /\ [][Next]_vars

\* Whoever drains the queue goes on: drain_all loops until it is empty, and is
\* called again when its process has died.
FairSpec == Spec /\ \A w \in Worker : WF_vars(Drain(w))

-----------------------------------------------------------------------------
(* Properties *)

Phase == {"prepared", "canonical_applied", "invalidated", "rebuilding", "repaired"}

QueueRow ==
  [op : {"evidence", "assertion", "delete"}, index : Entity,
   new : Row \cup {NoRow}, old : Row \cup {NoRow},
   base : Nat, reads : SUBSET Subject,
   status : {"queued", "active", "done", "conflict"}]

\* The journal's row belongs to the active intent of the queue.
TypeOK ==
  /\ facts \in Facts
  /\ derived \in [Node -> NodeRow]
  /\ version \in [WriteKey -> Nat]
  /\ queue \in Seq(QueueRow)
  /\ \/ journal = NoIntent
     \/ journal \in [seq : DOMAIN queue, phase : Phase, affected : SUBSET Node]
  /\ pc \in [Worker -> Phase \cup {"idle", "looking", "reading", "promoting"}]
  /\ \A n \in DOMAIN queue : queue[n].status = "active" <=> journal.seq = n

Context(s) ==
  IF Fresh(derived, <<"context", s>>) THEN derived[<<"context", s>>].value ELSE Nothing

\* read_context raises: maintenance can make this read stale.
Blocked(s) ==
  /\ journal.phase \in {"canonical_applied", "invalidated", "rebuilding"}
  /\ s \in Active.reads

\* A read that is admitted, in any phase and after any crash, returns what the
\* facts say now: neither an older context, nor none while one is due, nor one
\* of a subject that has lost its assertion.  storage/multi_intent.py:410.
ReadsAreCurrent ==
  \A s \in Subject : ~Blocked(s) => Context(s) = Clean(facts)[<<"context", s>>].value

\* When no maintenance is under way the derived rows and the edges are, to the
\* last one, what a full rebuild would give: materialization_matches_clean_rebuild.
QuietIsClean ==
  journal.phase \in {"none", "prepared", "repaired"} => derived = Clean(facts)

\* An intent about to be applied still finds the row it was admitted over, so
\* its previous_json, from which its affected region is computed, is the truth.
\* RESULTS_V0.11.md:38.
SnapshotStillHolds ==
  journal.phase = "prepared" /\ Active.op # "evidence"
    => facts.assertion[Active.index] = Active.old

Fate(n) ==
  CASE queue[n].status = "queued"   -> "pending"
    [] queue[n].status = "active"   -> IF journal.phase = "prepared" THEN "pending" ELSE "applied"
    [] queue[n].status = "done"     -> "applied"
    [] queue[n].status = "conflict" -> "refused"

Log == INSTANCE IntentLog WITH
  Start  <- FirstFacts,
  Intent <- [op : {"evidence", "assertion", "delete"}, index : Entity, new : Row \cup {NoRow}],
  log    <- [n \in DOMAIN queue |->
               [intent |-> [op |-> queue[n].op, index |-> queue[n].index, new |-> queue[n].new],
                base |-> queue[n].base, fate |-> Fate(n)]]

\* The pipeline implements the log: intents take effect in the order of their
\* admission, each once and in one step, or are refused exactly when the row
\* they write has changed since; "done" is never said of one that was lost.
ImplementsIntentLog == Log!LogSpec

\* An intent is done only when its derived region has been repaired:
\* storage/sqlite_recovery.py:974 raises "REPAIRED intent required" otherwise.
DoneIsRepaired ==
  [][\A n \in DOMAIN queue :
       queue[n].status # "done" /\ queue'[n].status = "done" => journal.phase = "repaired"]_vars

\* Once processes stop dying, every intent admitted so far is done or refused,
\* again and again, with what conflicts, busy journals and restarts there were.
EveryIntentEnds ==
  (<>[][\A w \in Worker : ~Killed(w)]_vars)
    => []<>(\A n \in DOMAIN queue : queue[n].status \in {"done", "conflict"})
=============================================================================
