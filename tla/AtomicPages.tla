---------------------------- MODULE AtomicPages ----------------------------
(***************************************************************************)
(* What the page file promises its callers: an image of pages and metadata *)
(* that a transaction replaces in one step.  A transaction is pending,     *)
(* then visible, then durable; one that is not durable yet (the caller has *)
(* not been told of it) a fault may take back, whole.                      *)
(*                                                                         *)
(* It is what the crash experiments of the page stores compare a killed    *)
(* worker's file with: the snapshot of a control that has committed        *)
(* (Publish) or the one from before (Abort), and no other                  *)
(* (simulator/fixed_page_primary.py:107, 231 of the segmented one's,       *)
(* retired_generation_reclamation.py:402).                                 *)
(***************************************************************************)
CONSTANTS
  Page, Data, Blank, Meta, InitMeta,
  VolatileCache      \* TRUE: power may be lost, so durability matters

VARIABLES
  visible,           \* what a reader sees
  durable,           \* what survives a power loss
  pending            \* the transaction that has begun, as a set of at most one

vars == <<visible, durable, pending>>

Init ==
  /\ visible = [pages |-> [p \in Page |-> Blank], meta |-> InitMeta]
  /\ durable = visible
  /\ pending = {}

IsTx(t) ==
  /\ t = [changes |-> t.changes, meta |-> t.meta]
  /\ DOMAIN t.changes \subseteq Page
  /\ t.changes \in [DOMAIN t.changes -> Data]
  /\ t.meta \in Meta

\* Any transaction may begin, but none over one that a power loss could take
\* back.
Begin ==
  /\ pending = {}
  /\ VolatileCache => durable = visible
  /\ \E t \in pending' : IsTx(t) /\ pending' = {t}
  /\ UNCHANGED <<visible, durable>>

Publish ==
  /\ pending' = {}
  /\ \E t \in pending :
       visible' = [pages |-> [p \in Page |-> IF p \in DOMAIN t.changes THEN t.changes[p]
                                             ELSE visible.pages[p]],
                   meta  |-> t.meta]
  /\ UNCHANGED durable

Harden == UNCHANGED <<pending, visible>> /\ durable' = visible

Abort == pending # {} /\ pending' = {} /\ UNCHANGED <<visible, durable>>

Lose == VolatileCache /\ pending' = {} /\ visible' = durable /\ UNCHANGED durable

Next ==
  \/ Begin
  \/ Publish
  \/ Harden
  \/ Abort
  \/ Lose

Spec == Init /\ [][Next]_vars
=============================================================================
