------------------------- MODULE DependencyCascade -------------------------
(***************************************************************************)
(* The in-memory materialization (state/cascade.py over core/storage.py,   *)
(* state/dependencies.py and state/reconciliation.py) as functions: facts, *)
(* what is derived from them, the walk along dependency edges that makes   *)
(* derived nodes invalid, and the rebuild of a chosen part of them.        *)
(*                                                                         *)
(* An assertion is known by its place in the order of recording.  Order    *)
(* within a cell, scopes and validity times are left out.                  *)
(***************************************************************************)
EXTENDS Naturals

CONSTANTS
  Assertion,      \* identifiers
  Evidence,
  Subject,
  Predicate,
  Multi,          \* the multi-valued predicates
  Object,
  Payload,
  None

ASSUME MultiAssumption == Multi \subseteq Predicate
ASSUME NoneAssumption  == None \notin Subject

NoRow == [subject |-> None, predicate |-> None, object |-> None, evidence |-> {}]
Row   == [subject : Subject, predicate : Predicate, object : Object,
          evidence : SUBSET Evidence]
Relation == Assertion \X {"corrects", "supersedes", "contradicts"} \X Assertion

\* MemoryStore.
Facts == [assertion : [Assertion -> Row \cup {NoRow}],
          evidence  : [Evidence -> Payload \cup {None}],
          relations : SUBSET Relation]

Stored(f, a)  == f.assertion[a] # NoRow
KeyOf(row)    == <<row.subject, row.predicate>>
OfKey(f, key) == {a \in Assertion : KeyOf(f.assertion[a]) = key}
About(f, s)   == {a \in Assertion : f.assertion[a].subject = s}

-----------------------------------------------------------------------------
(* What is derived *)

Key   == Subject \X Predicate
Chain == {"state", "support", "context"}
Node  == (Chain \X Key) \cup ({"profile"} \X Subject)

\* A node that is not registered, and has no value.
NoNode == [status |-> "none", value |-> None, from |-> {}]

Exists(d, n)  == d[n].status # "none"
Fresh(d, n)   == d[n].status = "fresh"
Invalid(d)    == {n \in Node : d[n].status = "invalid"}

\* The assertions among S that another one corrects or supersedes.
Replaced(f, S) ==
  {t \in S : \E s \in S, r \in {"corrects", "supersedes"} : <<s, r, t>> \in f.relations}

\* reconcile(): the cell of one key, from the assertions S about it.
Reconciled(f, key, S) ==
  LET active  == S \ Replaced(f, S)
      objects == {f.assertion[a].object : a \in active}
      agreed  == key[2] \in Multi \/ \E o \in Object : objects = {o}
  IN  [status     |-> IF active = {} THEN "unknown" ELSE IF agreed THEN "resolved" ELSE "contested",
       values     |-> IF agreed THEN objects ELSE {},
       active     |-> active,
       historical |-> Replaced(f, S)]

EvidenceOf(f, S) == UNION {f.assertion[a].evidence : a \in S}
Payloads(f, S)   == {<<e, f.evidence[e]>> : e \in {x \in EvidenceOf(f, S) : f.evidence[x] # None}}
Nodes(f, S)      == ({"assertion"} \X S) \cup ({"evidence"} \X EvidenceOf(f, S))

\* What _rebuild_state, _rebuild_profile, _rebuild_support and _rebuild_context
\* store, the last two from what the node below says now.
Rebuilt(d, f, n) ==
  LET key   == n[2]
      S     == IF n[1] = "profile" THEN About(f, n[2]) ELSE OfKey(f, n[2])
      under == IF n[1] = "support" THEN "state" ELSE "support"
      below == d[<<under, key>>].value
      kept  == {a \in below.active : Stored(f, a)}
      node(value, from) == [status |-> "fresh", value |-> value, from |-> from]
  IN  IF n[1] = "state" THEN
        node(IF S = {} THEN None ELSE Reconciled(f, key, S),
             ({"assertion"} \X S)
               \cup {<<"relation", r>> : r \in {q \in f.relations : q[1] \in S /\ q[3] \in S}})
      ELSE IF n[1] = "profile" THEN
        node(IF S = {} THEN None
             ELSE [predicates |-> {f.assertion[a].predicate : a \in S},
                   evidence   |-> EvidenceOf(f, S),
                   payloads   |-> Payloads(f, S)],
             Nodes(f, S))
      ELSE IF n[1] = "support" /\ below # None THEN
        node([status     |-> below.status,
              values     |-> below.values,
              assertions |-> below.active,
              payloads   |-> Payloads(f, kept)],
             {<<"state", key>>} \cup Nodes(f, kept))
      ELSE node(below, {<<under, key>>})

\* _state_dependencies and the other edges a node is first registered with.
FirstEdges(f, n) ==
  IF n[1] \in {"state", "profile"} THEN Rebuilt([m \in Node |-> NoNode], f, n).from
  ELSE {<<IF n[1] = "support" THEN "state" ELSE "support", n[2]>>}

-----------------------------------------------------------------------------
(* Rebuilding *)

OfKind(nodes, kinds)   == {n \in nodes : n[1] \in kinds}
Level(d, f, nodes)     == [n \in Node |-> IF n \in nodes THEN Rebuilt(d, f, n) ELSE d[n]]

\* Mutant of InOrder: contexts before supports.
InOrder_ContextFirst(d, f, nodes) ==
  Level(Level(Level(d, f, OfKind(nodes, {"profile", "state"})),
              f, OfKind(nodes, {"context"})),
        f, OfKind(nodes, {"support"}))

\* rebuild_node: what a node rests on, before it.
InOrder(d, f, nodes) ==
  Level(Level(Level(d, f, OfKind(nodes, {"profile", "state"})),
              f, OfKind(nodes, {"support"})),
        f, OfKind(nodes, {"context"}))

\* The invalid targets and the invalid nodes they rest on, two steps down.
Below(d, nodes)   == {m \in Invalid(d) : \E n \in nodes : m \in d[n].from}
Needed(d, targets) ==
  LET top  == targets \cap Invalid(d)
      next == top \cup Below(d, top)
  IN  next \cup Below(d, next)

\* _retire_rebuilt_absent.
Retired(d, f, nodes) ==
  LET subjects == {s \in Subject : <<"profile", s>> \in nodes /\ About(f, s) = {}}
      keys     == {k \in Key : /\ \E kind \in Chain : <<kind, k>> \in nodes
                               /\ OfKey(f, k) = {}
                               /\ \A kind \in Chain : d[<<kind, k>>].status \in {"none", "fresh"}}
  IN  [n \in Node |-> IF n[2] \in (IF n[1] = "profile" THEN subjects ELSE keys)
                      THEN NoNode ELSE d[n]]

\* rebuild().
Rebuild(d, f, targets) == Retired(InOrder(d, f, Needed(d, targets)), f, Needed(d, targets))

\* A new materialization of the facts (_bootstrap).
Clean(f) ==
  LET held == {n \in Node : IF n[1] = "profile" THEN About(f, n[2]) # {} ELSE OfKey(f, n[2]) # {}}
  IN  InOrder([n \in Node |-> NoNode], f, held)

-----------------------------------------------------------------------------
(* Invalidation *)

Dependents(d, nodes) == {n \in Node : d[n].from \cap nodes # {}}

\* invalidate_from: two steps reach everything, from a state or from evidence.
Downstream(d, roots) == Dependents(d, roots) \cup Dependents(d, Dependents(d, roots))

InvalidateFrom(d, roots) ==
  [n \in Node |-> IF n \in Downstream(d, roots) THEN [d[n] EXCEPT !.status = "invalid"] ELSE d[n]]

InvalidateNodes(d, nodes) ==
  LET known == {n \in nodes : Exists(d, n)}
  IN  [n \in Node |-> IF n \in known \cup Downstream(d, known)
                      THEN [d[n] EXCEPT !.status = "invalid"] ELSE d[n]]

\* ensure_state_chain and ensure_profile.
Ensured(d, f, keys, subjects) ==
  [n \in Node |->
     IF ~Exists(d, n) /\ n[2] \in (IF n[1] = "profile" THEN subjects ELSE keys)
     THEN [NoNode EXCEPT !.status = "fresh", !.from = FirstEdges(f, n)] ELSE d[n]]

InvalidateKeys(d, f, keys, subjects) ==
  InvalidateNodes(Ensured(d, f, keys, subjects),
                  ({"state"} \X keys) \cup ({"profile"} \X subjects))
=============================================================================
