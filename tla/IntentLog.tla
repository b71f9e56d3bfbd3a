----------------------------- MODULE IntentLog -----------------------------
(***************************************************************************)
(* What the intent queue promises: intents enter a log, and each in its    *)
(* turn changes the facts in one step or is refused, refused exactly when  *)
(* what it writes has changed since it was admitted.  The experiments of   *)
(* simulator/multi_intent.py and process_recovery.py ask for this of a     *)
(* database opened again: all admitted (75), the second writer of a key    *)
(* refused (166), overlapping intents applied in turn (311), and the facts *)
(* from before or after an interrupted transaction (process_recovery 188). *)
(***************************************************************************)
EXTENDS Naturals, Sequences, FiniteSets

CONSTANTS
  Intent,             \* what may be asked
  Start,              \* the first facts
  Key(_),             \* what an intent writes
  Effect(_, _)        \* the facts after an intent

VARIABLES
  facts,
  log                 \* of [intent, base, fate]

logVars == <<facts, log>>

\* The changes of k so far.
Changes(k) == Cardinality({n \in DOMAIN log :
                 log[n].fate = "applied" /\ Key(log[n].intent) = k})

Turn(n) == log[n].fate = "pending" /\ \A m \in 1 .. n-1 : log[m].fate # "pending"

Admit(i) ==
  /\ log' = Append(log, [intent |-> i, base |-> Changes(Key(i)), fate |-> "pending"])
  /\ UNCHANGED facts

Apply(n) ==
  /\ Turn(n)
  /\ log[n].base = Changes(Key(log[n].intent))
  /\ facts' = Effect(facts, log[n].intent)
  /\ log' = [log EXCEPT ![n].fate = "applied"]

Refuse(n) ==
  /\ Turn(n)
  /\ log[n].base # Changes(Key(log[n].intent))
  /\ log' = [log EXCEPT ![n].fate = "refused"]
  /\ UNCHANGED facts

LogInit == facts = Start /\ log = <<>>

LogNext == \/ \E i \in Intent : Admit(i)
           \/ \E n \in DOMAIN log : Apply(n) \/ Refuse(n)

LogSpec == LogInit /\ [][LogNext]_logVars
=============================================================================
