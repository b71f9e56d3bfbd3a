------------------------------ MODULE DualCopy ------------------------------
(***************************************************************************)
(* Two physical copies of a page, each stamped with the epoch that wrote   *)
(* it: how every paged store of this repository reads one at the committed *)
(* epoch and chooses the copy to overwrite.  Data pages, radix nodes,      *)
(* lifecycle headers and retirement descriptors all follow this rule.      *)
(***************************************************************************)
EXTENDS Naturals

CONSTANTS
  Page,        \* page ids
  Blank        \* what a page without a readable copy reads as

ASSUME PageAssumption == Page \subseteq Nat

Slot == {0, 1}
Absent == [epoch |-> 0, data |-> Blank]      \* a copy that does not parse

\* Mutant of Committed: copies newer than the superblock are read too.
Committed_AnyEpoch(c, e, s) == c[s].epoch > 0

\* A copy takes part in a read at epoch e when it parses and is not newer.
Committed(c, e, s)  == c[s].epoch > 0 /\ c[s].epoch <= e
HasCommitted(c, e)  == Committed(c, e, 0) \/ Committed(c, e, 1)
NewestSlot(c, e)    == IF /\ Committed(c, e, 1)
                          /\ Committed(c, e, 0) => c[1].epoch > c[0].epoch
                         THEN 1 ELSE 0
ReadPage(c, e)      == IF HasCommitted(c, e) THEN c[NewestSlot(c, e)].data
                                             ELSE Blank

\* The copy a data page is rewritten in: not the one readers use, and an
\* abandoned one rather than none.
TargetSlot(c, e) ==
  IF HasCommitted(c, e) THEN 1 - NewestSlot(c, e)
  ELSE IF c[0].epoch > e THEN 0
  ELSE IF c[1].epoch > e THEN 1
  ELSE 0

(* The two superblock slots: the newer one is read, the other written.     *)
ActiveSlot(sup) == IF sup[1].epoch > sup[0].epoch THEN 1 ELSE 0
Epoch(sup)      == sup[ActiveSlot(sup)].epoch
MetaOf(sup)     == sup[ActiveSlot(sup)].meta
=============================================================================
