------------------------------ MODULE KeyStore ------------------------------
(***************************************************************************)
(* What every store of the repository promises its callers: a set of keys  *)
(* that grows by one key at a time.  An insertion has begun, then shows,   *)
(* then is durable; a fault takes back, whole, one that is not durable.    *)
(*                                                                         *)
(* The crash experiments of the hybrids ask for the same: a killed insert  *)
(* leaves the key visible and the snapshot of the control (Show), or the   *)
(* snapshot from before (Abort), and a later insertion does not raise it   *)
(* again: simulator/cross_store_hybrid.py:125 and :221,                    *)
(* simulator/durable_hybrid.py:164.                                        *)
(***************************************************************************)
CONSTANTS
  Key,
  VolatileCache      \* TRUE: power may be lost, so durability matters

VARIABLES
  members,           \* the keys lookup() finds
  durable,           \* the keys it would find after a power loss
  pending            \* the key being inserted, as a set of at most one

vars == <<members, durable, pending>>

Init == members = {} /\ durable = {} /\ pending = {}

\* Nothing begins over an insertion that a power loss could take back.
Begin(k) ==
  /\ pending = {}
  /\ VolatileCache => durable = members
  /\ pending' = {k}
  /\ UNCHANGED <<members, durable>>

Show == members' = members \cup pending /\ pending' = {} /\ UNCHANGED durable

Harden == durable' = members /\ UNCHANGED <<members, pending>>

Abort == pending' = {} /\ UNCHANGED <<members, durable>>

Lose == VolatileCache /\ members' = durable /\ pending' = {} /\ UNCHANGED durable

Next == (\E k \in Key : Begin(k)) \/ Show \/ Harden \/ Abort \/ Lose

Spec == Init /\ [][Next]_vars
=============================================================================
