-------------------------- MODULE Materialization --------------------------
(***************************************************************************)
(* What SQLite holds of the facts and of what is derived from them         *)
(* (storage/sqlite_recovery.py, process_store.py, growth_intent.py), and   *)
(* the transactions' work on it as functions: the walk along dependency    *)
(* edges that finds what a mutation makes stale, its invalidation, and its *)
(* repair.                                                                 *)
(*                                                                         *)
(* Evidence and assertions are known by the index the bootstrap gives      *)
(* them: assertion i rests on evidence i, starts on subject i, and is      *)
(* recorded later the larger i is.  There is one predicate, "deadline".    *)
(***************************************************************************)
EXTENDS Naturals

CONSTANTS
  EntityCount, \* how many entities the bootstrap made
  Subject,     \* every subject an assertion may be moved to
  Object,      \* object values an assertion may take
  None         \* SQL's NULL

\* Their indices.
Entity == 0 .. EntityCount - 1

ASSUME EntityAssumption == EntityCount \in Nat /\ Entity \subseteq Subject
ASSUME ObjectAssumption == 42 \in Object
ASSUME NoneAssumption   == None \notin Subject \cup Object

\* The payloads bootstrap() and replace_evidence_payload write.
Payload == {"Atlas", "Nova"}

NoRow == [subject |-> None, object |-> None]
Row   == [subject : Subject, object : Object]

Facts == [evidence : [Entity -> Payload], assertion : [Entity -> Row \cup {NoRow}]]

FirstFacts == [evidence  |-> [i \in Entity |-> "Atlas"],
               assertion |-> [i \in Entity |-> [subject |-> i, object |-> 42]]]

\* What an intent does to the facts.
Effect(f, i) ==
  IF i.op = "evidence" THEN [f EXCEPT !.evidence[i.index] = "Nova"]
                       ELSE [f EXCEPT !.assertion[i.index] = i.new]

-----------------------------------------------------------------------------
(* Derived nodes.  An edge source -> node is kept with the node, in "from". *)

Kind == {"profile", "state", "support", "context"}
Node == Kind \X Subject
Source == (Kind \X Subject) \cup ({"assertion", "evidence"} \X Entity)

\* What a node says: the assertion it speaks for, its object, its evidence.
Nothing == [assertion |-> None, object |-> None, payload |-> None]
NoNode  == [status |-> "none", value |-> Nothing, from |-> {}]

\* A row of derived_nodes, with its incoming edges.
NodeRow ==
  [status : {"none", "fresh", "invalid", "rebuilding"},
   value : [assertion : Entity \cup {None}, object : Object \cup {None},
            payload : Payload \cup {None}],
   from : SUBSET Source]

Exists(derived, n) == derived[n].status # "none"
Fresh(derived, n)  == derived[n].status = "fresh"

\* Some assertion is about s.
Held(facts, s) == \E i \in Entity : facts.assertion[i].subject = s

\* _latest_assertion: by recorded_seq.
Latest(facts, s) ==
  CHOOSE i \in {j \in Entity : facts.assertion[j].subject = s} :
    \A j \in Entity : facts.assertion[j].subject = s => j <= i

\* The value of a node of each kind, from assertion i.
Value(facts, kind, i) ==
  [assertion |-> i,
   object    |-> IF kind = "profile" THEN None ELSE facts.assertion[i].object,
   payload   |-> IF kind = "state" THEN None ELSE facts.evidence[i]]

Canonical(i) == {<<"assertion", i>>, <<"evidence", i>>}

Dependencies(n, i) ==
  CASE n[1] = "profile" -> Canonical(i)
    [] n[1] = "state"   -> {<<"assertion", i>>}
    [] n[1] = "support" -> Canonical(i) \cup {<<"state", n[2]>>}
    [] n[1] = "context" -> {<<"support", n[2]>>}

FreshRow(value, from) == [status |-> "fresh", value |-> value, from |-> from]

\* The materialization a full rebuild would give, what bootstrap() writes and
\* what clean_rebuild_digest() compares with.
Clean(facts) ==
  [n \in Node |->
     IF Held(facts, n[2])
     THEN FreshRow(Value(facts, n[1], Latest(facts, n[2])),
                   Dependencies(n, Latest(facts, n[2])))
     ELSE NoNode]

-----------------------------------------------------------------------------
(* What a mutation makes stale *)

\* Along the edges once; from a canonical row to a context is three edges.
Along(derived, S) == S \cup {n \in Node : derived[n].from \cap S # {}}

\* The recursive query of _affected_nodes.
Reached(derived, seeds) ==
  {n \in Along(derived, Along(derived, Along(derived, seeds))) \cap Node :
     Exists(derived, n)}

Moves(intent) == intent.op = "assertion" /\ intent.new.subject # intent.old.subject

\* The nodes and canonical rows the walk starts from.
Seeds(intent) ==
  CASE intent.op = "evidence"  -> {<<"evidence", intent.index>>}
    [] intent.op = "assertion" ->
         (IF Moves(intent) THEN {"state", "profile"} ELSE {"state"})
           \X {intent.new.subject, intent.old.subject}
    [] intent.op = "delete"    -> {"state", "profile"} \X {intent.old.subject}

\* Mutant of Growth: a brand-new subject owes nothing, as before v0.12.
Growth_None(derived, intent) == {}

\* _growth_specs_tx: the nodes the moved assertion's new subject lacks.
Growth(derived, intent) ==
  IF Moves(intent)
  THEN {n \in Kind \X {intent.new.subject} : ~Exists(derived, n)}
  ELSE {}

Affected(derived, intent) ==
  Reached(derived, Seeds(intent)) \cup Growth(derived, intent)

\* _invalidate_tx on the derived rows; what is missing becomes a placeholder.
Invalidated(derived, nodes) ==
  [n \in Node |-> IF n \in nodes THEN [derived[n] EXCEPT !.status = "invalid"]
                                 ELSE derived[n]]

-----------------------------------------------------------------------------
(* Repair *)

\* The node whose fresh row a support or a context is built on.
Base(n) == IF n[1] = "support" THEN <<"state", n[2]>> ELSE <<"support", n[2]>>

\* _rebuild_node_tx: the row n gets, NoNode when it is retired.
Rebuilt(derived, facts, n) ==
  CASE n[1] = "context" ->
         IF Fresh(derived, Base(n))
         THEN FreshRow(derived[Base(n)].value, {Base(n)}) ELSE NoNode
    [] n[1] # "context" ->
         IF Held(facts, n[2]) /\ (n[1] = "support" => Fresh(derived, Base(n)))
         THEN FreshRow(Value(facts, n[1], Latest(facts, n[2])),
                       Dependencies(n, Latest(facts, n[2])))
         ELSE NoNode

\* The nodes of one priority; a retired node takes its edges with it.
Level(derived, facts, nodes) ==
  [n \in Node |->
     IF n \in nodes THEN Rebuilt(derived, facts, n)
     ELSE [derived[n] EXCEPT
             !.from = @ \ {m \in nodes : Rebuilt(derived, facts, m) = NoNode}]]

OfKind(derived, nodes, kinds) == {n \in nodes : n[1] \in kinds /\ Exists(derived, n)}

\* _repair_tx: profiles and states, then supports, then contexts.
Repaired(derived, facts, nodes) ==
  Level(Level(Level(derived, facts, OfKind(derived, nodes, {"profile", "state"})),
              facts, OfKind(derived, nodes, {"support"})),
        facts, OfKind(derived, nodes, {"context"}))
=============================================================================
