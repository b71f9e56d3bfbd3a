--------------------------- MODULE RetirementQueue ---------------------------
(***************************************************************************)
(* What the stores from v0.34 on promise about retired generations: they   *)
(* wait in a queue, in the order they were retired, each with the segments *)
(* it still owns, and only the head gives segments up.  Where the queue is *)
(* kept, and what a crash leaves behind, does not show.                    *)
(*                                                                         *)
(* It is the oracle of the crash matrices of v0.34 to v0.38, which compare *)
(* the queue of a killed worker with that of a control before or after the *)
(* insertion that retires (Retired) and the reclaim step (Reclaimed).      *)
(***************************************************************************)
EXTENDS Integers, Sequences

CONSTANTS
  OwnerCounts,   \* how many segments a retired generation may own
  Budgets        \* the budgets reclaim_step is called with

VARIABLES
  queue,     \* [next: the generation retired next, rows: those waiting]
  stable     \* the same, as a power loss would bring it back

vars == <<queue, stable>>

Retired(q, count) ==
  [next |-> q.next + 1,
   rows |-> IF count = 0 THEN q.rows
                         ELSE Append(q.rows, [gen |-> q.next, left |-> count])]

Reclaimed(q, budget) ==
  LET head == Head(q.rows)
      rest == Tail(q.rows)
  IN  [q EXCEPT !.rows = IF head.left > budget
                         THEN <<[head EXCEPT !.left = @ - budget]>> \o rest
                         ELSE rest]

Retire  == \E count \in OwnerCounts : queue' = Retired(queue, count) /\ UNCHANGED stable
Reclaim == /\ queue.rows # <<>>
           /\ \E budget \in Budgets : queue' = Reclaimed(queue, budget)
           /\ UNCHANGED stable
Harden  == stable' = queue /\ UNCHANGED queue
Lose    == queue' = stable /\ UNCHANGED stable

Init == queue = [next |-> 0, rows |-> <<>>] /\ stable = queue
Next == Retire \/ Reclaim \/ Harden \/ Lose
Spec == Init /\ [][Next]_vars
=============================================================================
