-------------------------- MODULE MCIntentPipeline --------------------------
(* Two bootstrapped indices and a subject that has no assertion at first.   *)
EXTENDS IntentPipeline

CONSTANTS w1, w2

MCSubject == {0, 1, 2}

OneWorker  == {w1}
TwoWorkers == {w1, w2}
=============================================================================
