-------------------------- MODULE SubjectProfile --------------------------
(***************************************************************************)
(* The releases v0.13 to v0.16 on top of the intent pipeline: subjects     *)
(* with several predicates.  Applying an intent also refreshes the table   *)
(* of current assertions (v0.14) and the membership table (v0.16) in the   *)
(* same transaction; the profile follows the later transactions, and       *)
(* read_composed_profile puts it together from one snapshot of both while  *)
(* maintenance may be anywhere.  IntentPipeline models the processes that  *)
(* drain the queue; here one does, a transaction at a time, and a crash    *)
(* between two of them leaves what the next one starts from.               *)
(***************************************************************************)
EXTENDS ProfileRows, Sequences, FiniteSets

CONSTANTS
  Added,       \* the predicate that enqueue_predicate_addition adds
  Releases,    \* releases under check
  AddOnce,     \* whether callers add an entity's predicate only when it is absent
  MaxIntents   \* bound on the intents admitted

ASSUME AddedAssumption   == Added \in Predicate
ASSUME ReleaseAssumption == Releases \subseteq 13 .. 16
ASSUME BoundAssumption   == AddOnce \in BOOLEAN /\ MaxIntents \in Nat

VARIABLES
  release,     \* the class of the store
  facts,       \* the evidence and assertions tables
  heads,       \* subject_predicate_heads, from 14
  members,     \* profile_predicate_membership, from 16
  derived,     \* derived_nodes and dependency_edges
  version,     \* canonical_versions
  queue,       \* intent_queue, in the order of seq
  journal      \* maintenance_journal: one intent at most

vars == <<release, facts, heads, members, derived, version, queue, journal>>

NoIntent == [seq |-> 0, phase |-> "none", affected |-> {}]
Active   == queue[journal.seq]
WriteKey(i) == <<IF i.op = "evidence" THEN "evidence" ELSE "assertion", i.item>>

-----------------------------------------------------------------------------
(* Admission *)

\* _queue_read_keys.
ReadKeys(i) ==
  IF i.op = "evidence" THEN {KeyOf(facts.assertion[i.item])} \ {KeyOf(NoRow)}
                       ELSE KeysOf(i)

\* _enqueue_tx.
Intent(op, item, new, old) ==
  LET i == [op |-> op, item |-> item, new |-> new, old |-> old]
  IN  [op |-> op, item |-> item, new |-> new, old |-> old,
       base |-> version[WriteKey(i)], reads |-> ReadKeys(i), status |-> "queued"]

Admit(intents) ==
  /\ Len(queue) + Len(intents) <= MaxIntents
  /\ queue' = queue \o intents
  /\ UNCHANGED <<release, facts, heads, members, derived, version, journal>>

Stored(i) == facts.assertion[i] # NoRow

\* Replace the assertion by one that differs in the field.
Upsert(i, row) == Stored(i) /\ Admit(<<Intent("assertion", i, row, facts.assertion[i])>>)

\* enqueue_operation; evidence and deletions also for added assertions.
ReplacePayload(i) ==
  facts.evidence[i] # None /\ Admit(<<Intent("evidence", i, "Nova", facts.evidence[i])>>)
DeleteAssertion(i) == Stored(i) /\ Admit(<<Intent("delete", i, NoRow, facts.assertion[i])>>)
ReplaceObject(i)   == Upsert(i, [facts.assertion[i] EXCEPT !.object = 77])

\* enqueue_topology_move, enqueue_predicate_change.
MoveAssertion(i, s)   == Upsert(i, [facts.assertion[i] EXCEPT !.subject = s])
ChangePredicate(i, p) == Upsert(i, [facts.assertion[i] EXCEPT !.predicate = p])

\* enqueue_predicate_addition: evidence and assertion, neither over a snapshot.
AddPredicate(i) ==
  /\ Stored(i)
  /\ AddOnce => ~Stored(Extra(i))
  /\ Admit(<<Intent("evidence", Extra(i), "Atlas", None),
             Intent("assertion", Extra(i),
                    [subject |-> facts.assertion[i].subject, predicate |-> Added,
                     object |-> 55], NoRow)>>)

-----------------------------------------------------------------------------
(* Maintenance *)

Oldest(n) == queue[n].status = "queued" /\ \A m \in 1 .. n-1 : queue[m].status # "queued"

\* promote_next.
Promote ==
  /\ journal = NoIntent
  /\ \E n \in DOMAIN queue :
       /\ Oldest(n)
       /\ IF queue[n].base = version[WriteKey(queue[n])]
          THEN /\ journal' = [NoIntent EXCEPT !.seq = n, !.phase = "prepared"]
               /\ queue' = [queue EXCEPT ![n].status = "active", ![n].reads = ReadKeys(queue[n])]
          ELSE queue' = [queue EXCEPT ![n].status = "conflict"] /\ UNCHANGED journal
  /\ UNCHANGED <<release, facts, heads, members, derived, version>>

\* The keys _apply_canonical_tx refreshes.
Touched(i) == IF i.op = "evidence" THEN {} ELSE KeysOf(i)

\* Mutant of ApplyTx: only the key the assertion has now is refreshed.
ApplyTx_NewKeyOnly ==
  /\ journal.phase = "prepared"
  /\ LET f == Effect(facts, Active)
         keys == IF Active.op = "assertion" THEN {KeyOf(Active.new)} ELSE Touched(Active)
     IN  /\ facts' = f
         /\ heads' = IF release >= 14 THEN Refreshed(heads, f, keys) ELSE heads
         /\ members' = IF release = 16 THEN Synced(members, heads', keys) ELSE members
  /\ version' = [version EXCEPT ![WriteKey(Active)] = @ + 1]
  /\ journal' = [journal EXCEPT !.phase = "canonical_applied"]
  /\ UNCHANGED <<release, derived, queue>>

ApplyTx ==
  /\ journal.phase = "prepared"
  /\ LET f == Effect(facts, Active)
     IN  /\ facts' = f
         /\ heads' = IF release >= 14 THEN Refreshed(heads, f, Touched(Active)) ELSE heads
         /\ members' = IF release = 16 THEN Synced(members, heads', Touched(Active)) ELSE members
  /\ version' = [version EXCEPT ![WriteKey(Active)] = @ + 1]
  /\ journal' = [journal EXCEPT !.phase = "canonical_applied"]
  /\ UNCHANGED <<release, derived, queue>>

InvalidateTx ==
  /\ journal.phase = "canonical_applied"
  /\ LET affected == Affected(release, derived, facts, Active)
     IN  /\ derived' = Invalidated(derived, affected)
         /\ journal' = [journal EXCEPT !.phase = "invalidated", !.affected = affected]
  /\ UNCHANGED <<release, facts, heads, members, version, queue>>

Rank(kind) == CASE kind \in {"profile", "state"} -> 0 [] kind = "support" -> 1
                [] kind = "context" -> 2

\* partial_rebuild_transaction; of the first nodes in rank it may be any.
PartialTx ==
  /\ journal.phase = "invalidated"
  /\ \E n \in journal.affected :
       /\ \A m \in journal.affected : Rank(n[1]) <= Rank(m[1])
       /\ derived' = [derived EXCEPT ![n].status = "rebuilding", ![n].value = Nothing]
  /\ journal' = [journal EXCEPT !.phase = "rebuilding"]
  /\ UNCHANGED <<release, facts, heads, members, version, queue>>

\* _latest_subject_assertions_tx: by a scan until 13, then by the heads, and
\* v0.14 raises when a head it reads points to no assertion.
CurrentHeads == IF release = 13 THEN Heads(facts) ELSE heads
HeadsResolve(nodes) ==
  release = 14 => \A n \in nodes, p \in Predicate :
    n[1] = "profile" /\ heads[<<n[2], p>>] # None => Stored(heads[<<n[2], p>>])

RepairTx ==
  /\ journal.phase \in {"invalidated", "rebuilding"}
  /\ HeadsResolve(journal.affected)
  /\ derived' = Repaired(release,
                         IF journal.phase = "rebuilding"
                         THEN Invalidated(derived, journal.affected) ELSE derived,
                         facts, CurrentHeads, journal.affected)
  /\ journal' = [journal EXCEPT !.phase = "repaired"]
  /\ UNCHANGED <<release, facts, heads, members, version, queue>>

\* Deleting the journal's row fires the trigger that ends the intent.
FinalizeTx ==
  /\ journal.phase = "repaired"
  /\ queue' = [queue EXCEPT ![journal.seq].status = "done"]
  /\ journal' = NoIntent
  /\ UNCHANGED <<release, facts, heads, members, derived, version>>

-----------------------------------------------------------------------------
\* bootstrap() of each release.
Init ==
  /\ release \in Releases
  /\ facts = FirstFacts
  /\ heads = IF release >= 14 THEN Heads(FirstFacts) ELSE [k \in Key |-> None]
  /\ members = IF release = 16 THEN {k \in Key : heads[k] # None} ELSE {}
  /\ derived = Clean(release, FirstFacts)
  /\ version = [k \in {"evidence", "assertion"} \X Item |-> 0]
  /\ queue = <<>>
  /\ journal = NoIntent

Client ==
  \/ \E i \in Item : ReplacePayload(i) \/ DeleteAssertion(i)
  \/ \E i \in Entity :
       \/ ReplaceObject(i) \/ AddPredicate(i)
       \/ \E s \in Subject : MoveAssertion(i, s)
       \/ \E p \in Predicate : ChangePredicate(i, p)

Maintain == Promote \/ ApplyTx \/ InvalidateTx \/ PartialTx \/ RepairTx \/ FinalizeTx

Next == Client \/ Maintain

Spec == Init /\ [][Next]_vars

-----------------------------------------------------------------------------
(* Composed reads, of all predicates or of some *)

Request == [all : {TRUE}, of : {{}}] \cup [all : {FALSE}, of : (SUBSET Predicate) \ {{}}]

Unsettled == journal.phase \in {"canonical_applied", "invalidated", "rebuilding"}

\* The journal's intent protects something that is asked for.
Protected(s, r) ==
  Unsettled /\ \E k \in Active.reads : k[1] = s /\ (r.all \/ k[2] \in r.of)

\* The supports of the predicates, as they are.
Assembled(s, predicates) ==
  IF \E p \in predicates : ~Fresh(derived, Support(s, p)) THEN [kind |-> "no facet"]
  ELSE [kind |-> "profile", predicates |-> predicates,
        payloads |-> UNION {derived[Support(s, p)].value.payloads : p \in predicates}]

\* read_composed_profile of 15, which knows the predicates from the manifest.
ComposedByManifest(s, r) ==
  LET live  == derived[Profile(s)].value.predicates
      asked == IF r.all THEN live ELSE r.of
  IN  IF ~Fresh(derived, Profile(s)) THEN [kind |-> "none"]
      ELSE IF ~(asked \subseteq live) THEN [kind |-> "unknown"]
      ELSE IF Protected(s, r) THEN [kind |-> "blocked"]
      ELSE Assembled(s, asked)

\* Mutant of ComposedByMembers: nothing is refused.
ComposedByMembers_Ungated(s, r) ==
  LET live  == {p \in Predicate : <<s, p>> \in members}
      asked == IF r.all THEN live ELSE r.of
  IN  IF ~Fresh(derived, Profile(s)) THEN [kind |-> "none"]
      ELSE IF ~(asked \subseteq live) THEN [kind |-> "unknown"]
      ELSE Assembled(s, asked)

\* That of 16, which probes the membership table once the gate is passed.
ComposedByMembers(s, r) ==
  LET live  == {p \in Predicate : <<s, p>> \in members}
      asked == IF r.all THEN live ELSE r.of
  IN  IF ~Fresh(derived, Profile(s)) THEN [kind |-> "none"]
      ELSE IF Protected(s, r) THEN [kind |-> "blocked"]
      ELSE IF ~(asked \subseteq live) THEN [kind |-> "unknown"]
      ELSE Assembled(s, asked)

Composed(s, r) == IF release = 15 THEN ComposedByManifest(s, r) ELSE ComposedByMembers(s, r)

\* clean_composed_profile, the oracle on the facts.
CleanComposed(s, r) ==
  LET live  == {p \in Predicate : About(facts, <<s, p>>) # {}}
      asked == IF r.all THEN live ELSE r.of
  IN  IF live = {} THEN [kind |-> "none"]
      ELSE IF ~(asked \subseteq live) THEN [kind |-> "unknown"]
      ELSE [kind |-> "profile", predicates |-> asked,
            payloads |-> Payloads(facts, {Latest(facts, <<s, p>>) : p \in asked})]

-----------------------------------------------------------------------------
(* Properties *)

\* A composed profile that is returned, in any phase of any maintenance, is
\* the one the facts give now: manifest or membership, facets and journal are
\* of one moment, and the protected keys cover all that is being rewritten.
\* Once maintenance has settled every answer is the oracle's.
\* storage/compositional_profile.py:207, storage/normalized_membership.py:310.
ComposedReadsAreClean ==
  release >= 15 =>
    \A s \in Subject, r \in Request :
      LET answer == Composed(s, r)
      IN  /\ answer.kind # "no facet"
          /\ (answer.kind = "profile" \/ ~Unsettled) => answer = CleanComposed(s, r)

\* head_index_matches_canonical: the current-assertion table against a scan.
HeadIndexMatches  == heads = Heads(facts)
\* membership_matches_heads.
MembershipMatches == members = {k \in Key : heads[k] # None}

\* The current-assertion table and the membership table say after every
\* transaction, in any phase, what a scan of the assertions would.
IndexesMatchCanonical ==
  /\ release >= 14 => HeadIndexMatches
  /\ release = 16 => MembershipMatches

\* Between intents the derived rows and the edges are what the release's full
\* rebuild would give: clean_rebuild_digest of each store.
QuietIsClean ==
  journal.phase \in {"none", "prepared", "repaired"} => derived = Clean(release, facts)
=============================================================================
