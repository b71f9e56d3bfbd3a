------------------------- MODULE IncrementalState -------------------------
(***************************************************************************)
(* apply_incremental_current_state (state/incremental.py): the cell of a   *)
(* key kept up to date by each assertion recorded about it, with what that *)
(* assertion says of earlier ones, instead of being reconciled again.      *)
(* Whether a cell's assertions support or compete follows from its status. *)
(* Assertions are numbered as they are recorded.                           *)
(***************************************************************************)
EXTENDS DependencyCascade

VARIABLES facts, state

vars == <<facts, state>>

NoCell == None

\* Mutant of Maintained: a replacement that conflicts with what it leaves
\* standing is taken for a first conflict.
Maintained_NoFallback(f, cell, a, replaced) ==
  LET row   == f.assertion[a]
      fresh == [status |-> "resolved", values |-> {row.object}, active |-> {a}, historical |-> {}]
      joins == cell.active \cup {a}
  IN  CASE cell = NoCell -> fresh
        [] cell # NoCell /\ cell.active # {} /\ cell.active \subseteq replaced ->
             [fresh EXCEPT !.historical = cell.historical \cup cell.active]
        [] OTHER -> IF cell.values = {row.object} THEN [cell EXCEPT !.active = joins]
                    ELSE [cell EXCEPT !.status = "contested", !.values = {}, !.active = joins]

\* The new cell, when a corrects or supersedes the assertions in replaced.
Maintained(f, cell, a, replaced) ==
  LET row     == f.assertion[a]
      key     == KeyOf(row)
      fresh   == [status |-> "resolved", values |-> {row.object}, active |-> {a}, historical |-> {}]
      joins   == cell.active \cup {a}
      all     == cell.active # {} /\ cell.active \subseteq replaced
      agrees  == cell.status = "resolved" /\ cell.values = {row.object}
      differs == cell.status = "resolved" /\ cell.values # {row.object} /\ replaced = {}
  IN  IF cell = NoCell THEN fresh
      ELSE CASE row.predicate \in Multi ->
                  [cell EXCEPT !.status = "resolved", !.active = joins,
                               !.values = @ \cup {row.object}]
             [] row.predicate \notin Multi /\ all ->
                  [fresh EXCEPT !.historical = cell.historical \cup cell.active]
             [] row.predicate \notin Multi /\ ~all /\ agrees ->
                  [cell EXCEPT !.active = joins]
             [] row.predicate \notin Multi /\ ~all /\ differs ->
                  [cell EXCEPT !.status = "contested", !.values = {}, !.active = joins]
             [] OTHER -> Reconciled(f, key, OfKey(f, key))

\* The number of the next assertion.
Unrecorded ==
  {a \in Assertion : ~Stored(facts, a) /\ \A b \in Assertion : b < a => Stored(facts, b)}

\* What a new assertion may say of each earlier one: one thing or nothing.
Saying(a) ==
  LET earlier == {b \in Assertion : Stored(facts, b)}
  IN  {{<<a, said[b], b>> : b \in {c \in earlier : said[c] # "nothing"}} :
         said \in [earlier -> {"corrects", "supersedes", "contradicts", "nothing"}]}

\* build_incremental: the assertion and its relations are recorded, then the cell.
Record(a, row, rels) ==
  /\ facts' = [facts EXCEPT !.assertion[a] = row, !.relations = @ \cup rels]
  /\ LET replaced == {r[3] : r \in {q \in rels : q[2] \in {"corrects", "supersedes"}}}
     IN  state' = [state EXCEPT ![KeyOf(row)] = Maintained(facts', @, a, replaced)]

Init ==
  /\ facts = [assertion |-> [a \in Assertion |-> NoRow],
              evidence  |-> [e \in Evidence |-> None],
              relations |-> {}]
  /\ state = [key \in Key |-> NoCell]

Next == \E a \in Unrecorded : \E row \in Row : \E rels \in Saying(a) : Record(a, row, rels)

Spec == Init /\ [][Next]_vars

-----------------------------------------------------------------------------
(* Properties *)

\* answer_from_assertions and answer_from_persistent_state, for a current
\* question: what they tell of a key, the evidence they name left out.
Answer(cell) == [status |-> cell.status, values |-> cell.values]
AnswerFromAssertions(key) == Answer(Reconciled(facts, key, OfKey(facts, key)))
AnswerFromPersistentState(key) ==
  IF state[key] = NoCell THEN [status |-> "unknown", values |-> {}] ELSE Answer(state[key])

\* A question about what was known by the n-th recording: reconcile() keeps the
\* assertions visible by then and the relations between two of them.
VisibleBy(f, S, n) == {a \in S : a <= n /\ Stored(f, a)}
AnswerAsOf(f, key, n) == Answer(Reconciled(f, key, VisibleBy(f, OfKey(f, key), n)))

\* The facts as they were after the n-th recording.
RecordedBy(f, n) ==
  [f EXCEPT !.assertion = [a \in Assertion |-> IF a <= n THEN f.assertion[a] ELSE NoRow],
            !.relations = {r \in f.relations : r[1] <= n}]

\* What a reader is told of a single-valued key from its cell, its value and
\* whether it is contested, is what reconciling every assertion about it gives,
\* after any history of corrections and conflicts: incremental.py:36-41.  And
\* what was answered once is answered still: nothing recorded later, no
\* correction either, changes what is said of an earlier state of knowledge.
AnswersAreReconciled ==
  \A key \in Key :
    /\ key[2] \notin Multi => AnswerFromPersistentState(key) = AnswerFromAssertions(key)
    /\ \A n \in {b - 1 : b \in {c \in Assertion : Stored(facts, c)}} :
         AnswerAsOf(facts, key, n) =
           LET then == RecordedBy(facts, n) IN Answer(Reconciled(then, key, OfKey(then, key)))
=============================================================================
