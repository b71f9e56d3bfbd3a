---------------------------- MODULE ProfileRows ----------------------------
(***************************************************************************)
(* What is derived from a subject's assertions when a subject may have     *)
(* several predicates (storage/predicate_schema.py, subject_heads.py,      *)
(* compositional_profile.py, normalized_membership.py), and the work of    *)
(* the maintenance transactions on it.  Four releases keep the subject's   *)
(* profile in four ways:                                                   *)
(*   13  the evidence of every predicate, from a scan of the assertions;   *)
(*   14  the same, through a table of the current assertion per key;       *)
(*   15  a manifest of the predicates, the evidence left to the supports;  *)
(*   16  a bare descriptor, the predicates in a table of their own.        *)
(* Keys are (subject, predicate) pairs; each has a state, a support and a  *)
(* context, and each subject one profile.                                  *)
(***************************************************************************)
EXTENDS Naturals

CONSTANTS
  EntityCount, \* how many entities the bootstrap made
  Subject,     \* every subject an assertion may be moved to
  Predicate,   \* "deadline", which the bootstrap gives, and others
  None         \* SQL's NULL

\* Their indices; the entity's added assertion, recorded after all of those.
Entity   == 0 .. EntityCount - 1
Extra(i) == EntityCount + i
Item     == 0 .. 2 * EntityCount - 1

ASSUME EntityAssumption    == EntityCount \in Nat /\ Entity \subseteq Subject
ASSUME PredicateAssumption == "deadline" \in Predicate
ASSUME NoneAssumption      == None \notin Subject /\ None \notin Predicate /\ None \notin Item

Key == Subject \X Predicate
NoRow == [subject |-> None, predicate |-> None, object |-> None]
KeyOf(row) == <<row.subject, row.predicate>>

\* Assertion i rests on evidence i, and the entity's extra one on another.
FirstFacts ==
  [evidence  |-> [i \in Item |-> IF i \in Entity THEN "Atlas" ELSE None],
   assertion |-> [i \in Item |->
      IF i \in Entity THEN [subject |-> i, predicate |-> "deadline", object |-> 42]
                      ELSE NoRow]]

\* What an intent does to the facts.
Effect(f, i) ==
  IF i.op = "evidence" THEN [f EXCEPT !.evidence[i.item] = i.new]
                       ELSE [f EXCEPT !.assertion[i.item] = i.new]

-----------------------------------------------------------------------------
(* The current assertions *)

About(f, k) == {i \in Item : f.assertion[i] # NoRow /\ KeyOf(f.assertion[i]) = k}

\* Of a key that has some.
Latest(f, k) == CHOOSE i \in About(f, k) : \A j \in About(f, k) : j <= i

\* head_index_matches_canonical's expectation, and rebuild_head_index.
Heads(f) == [k \in Key |-> IF About(f, k) = {} THEN None ELSE Latest(f, k)]

\* _refresh_head_tx for each key.
Refreshed(heads, f, keys) == [k \in Key |-> IF k \in keys THEN Heads(f)[k] ELSE heads[k]]

\* _sync_membership_key_tx for each key.
Synced(members, heads, keys) ==
  (members \ keys) \cup {k \in keys : heads[k] # None}

Having(heads, s) == {p \in Predicate : heads[<<s, p>>] # None}

-----------------------------------------------------------------------------
(* Derived nodes; an edge source -> node is kept with the node, in "from". *)

Node == ({"profile"} \X Subject \X {None})
          \cup ({"state", "support", "context"} \X Subject \X Predicate)

Nothing == [predicates |-> {}, assertion |-> None, object |-> None, payloads |-> {}]
NoNode  == [status |-> "none", value |-> Nothing, from |-> {}]
FreshRow(value, from) == [status |-> "fresh", value |-> value, from |-> from]

Exists(derived, n) == derived[n].status # "none"
Fresh(derived, n)  == derived[n].status = "fresh"

Profile(s)    == <<"profile", s, None>>
Support(s, p) == <<"support", s, p>>
Presence(s, p) == <<"presence", s, p>>
Canonical(i)  == {<<"assertion", i>>, <<"evidence", i>>}

Payloads(f, items) == {<<i, f.evidence[i]>> : i \in {j \in items : f.evidence[j] # None}}

\* _latest_subject_assertions_tx since 14, through the heads.
Current(heads, s) == {heads[<<s, p>>] : p \in Having(heads, s)}

\* The evidence of all predicates, by what the assertions say of themselves.
WholeProfile(f, heads, s) ==
  FreshRow([Nothing EXCEPT
              !.predicates = {f.assertion[i].predicate : i \in Current(heads, s)},
              !.payloads = Payloads(f, Current(heads, s))],
           UNION {Canonical(i) : i \in Current(heads, s)})

\* The manifest of predicates, resting on their presence.
Manifest(heads, s) ==
  FreshRow([Nothing EXCEPT !.predicates = Having(heads, s)],
           {Presence(s, p) : p \in Having(heads, s)})

\* The descriptor, resting on nothing.
Descriptor == FreshRow(Nothing, {})

\* _subject_profile_materialization_tx.
ProfileRow(release, f, heads, s) ==
  CASE Having(heads, s) = {} -> NoNode
    [] Having(heads, s) # {} /\ release \in {13, 14} -> WholeProfile(f, heads, s)
    [] Having(heads, s) # {} /\ release = 15 -> Manifest(heads, s)
    [] Having(heads, s) # {} /\ release = 16 -> Descriptor

\* _state_value and _support_value.
State(f, i) == [Nothing EXCEPT !.assertion = i, !.object = f.assertion[i].object]
Supported(f, i) == [State(f, i) EXCEPT !.payloads = Payloads(f, {i})]

\* What the current assertion of a key makes of its three nodes.
KeyRow(f, kind, k) ==
  LET i == Latest(f, k)
  IN  CASE kind = "state"   -> FreshRow(State(f, i), {<<"assertion", i>>})
        [] kind = "support" -> FreshRow(Supported(f, i), Canonical(i) \cup {<<"state", k[1], k[2]>>})
        [] kind = "context" -> FreshRow(Supported(f, i), {Support(k[1], k[2])})

CleanRow(f, n) ==
  IF About(f, <<n[2], n[3]>>) = {} THEN NoNode ELSE KeyRow(f, n[1], <<n[2], n[3]>>)

\* The materialization that clean_rebuild_digest computes from the facts.
Clean(release, f) ==
  [n \in Node |-> IF n[1] = "profile" THEN ProfileRow(release, f, Heads(f), n[2])
                                     ELSE CleanRow(f, n)]

-----------------------------------------------------------------------------
(* What a mutation makes stale *)

Along(derived, S) == S \cup {n \in Node : derived[n].from \cap S # {}}

\* The recursive query of _affected_nodes.
Reached(derived, seeds) ==
  {n \in Along(derived, Along(derived, Along(derived, seeds))) \cap Node :
     Exists(derived, n)}

\* The assertion is written under the key it had.
SameKey(i) == i.old # NoRow /\ KeyOf(i.old) = KeyOf(i.new)

\* The keys an intent on an assertion writes under.
KeysOf(i) == {KeyOf(row) : row \in {i.new, i.old} \ {NoRow}}

Seeds(i) ==
  IF i.op = "evidence" THEN {<<"evidence", i.item>>}
  ELSE {<<"state", k[1], k[2]>> : k \in KeysOf(i)}
         \cup (IF i.op = "assertion" /\ SameKey(i) THEN {}
               ELSE {Profile(k[1]) : k \in KeysOf(i)})

\* _growth_specs_tx: what the assertion's new key lacks.
Growth(derived, i) ==
  IF i.op # "assertion" \/ SameKey(i) THEN {}
  ELSE LET s == i.new.subject
       IN  {n \in {Profile(s)} \cup ({"state", "support", "context"} \X {s} \X {i.new.predicate}) :
              ~Exists(derived, n)}

\* Mutant of ManifestChanged: the key an assertion leaves is not looked at.
ManifestChanged_NewOnly(f, i) ==
  IF i.op # "assertion" \/ SameKey(i) THEN {}
  ELSE {k[1] : k \in {KeyOf(i.new)}}

\* _manifest_changed_subjects_tx, on the facts the intent has changed: the old
\* key has no assertion left, or this is the new key's only one.
ManifestChanged(f, i) ==
  IF i.op = "evidence" \/ (i.op = "assertion" /\ SameKey(i)) THEN {}
  ELSE {k[1] : k \in {c \in KeysOf(i) :
         IF i.new # NoRow /\ c = KeyOf(i.new) THEN About(f, c) = {i.item}
                                              ELSE About(f, c) = {}}}

\* _invalidate_tx: since 15 a profile is stale only when its manifest is.
Affected(release, derived, f, i) ==
  {n \in Reached(derived, Seeds(i)) :
     release >= 15 /\ n[1] = "profile" => n[2] \in ManifestChanged(f, i)}
    \cup Growth(derived, i)

Invalidated(derived, nodes) ==
  [n \in Node |-> IF n \in nodes THEN [derived[n] EXCEPT !.status = "invalid"]
                                 ELSE derived[n]]

-----------------------------------------------------------------------------
(* Repair *)

\* _rebuild_node_tx: the row n gets, NoNode when it is retired.
Rebuilt(release, derived, f, heads, n) ==
  LET s == n[2]  p == n[3]
  IN  CASE n[1] = "profile" -> ProfileRow(release, f, heads, s)
        [] n[1] = "state" -> CleanRow(f, n)
        [] n[1] = "support" ->
             IF Fresh(derived, <<"state", s, p>>) THEN CleanRow(f, n) ELSE NoNode
        [] n[1] = "context" ->
             IF Fresh(derived, Support(s, p))
             THEN FreshRow(derived[Support(s, p)].value, {Support(s, p)}) ELSE NoNode

\* The nodes of one priority; a retired node takes its edges with it.
Level(release, derived, f, heads, kinds, nodes) ==
  LET due     == {n \in nodes : n[1] \in kinds /\ Exists(derived, n)}
      retired == {n \in due : Rebuilt(release, derived, f, heads, n) = NoNode}
  IN  [n \in Node |-> IF n \in due THEN Rebuilt(release, derived, f, heads, n)
                      ELSE [derived[n] EXCEPT !.from = @ \ retired]]

\* _repair_tx: profiles and states, then supports, then contexts.
Repaired(release, derived, f, heads, nodes) ==
  LET roots    == Level(release, derived, f, heads, {"profile", "state"}, nodes)
      supports == Level(release, roots, f, heads, {"support"}, nodes)
  IN  Level(release, supports, f, heads, {"context"}, nodes)
=============================================================================
