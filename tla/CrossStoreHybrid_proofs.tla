----------------------- MODULE CrossStoreHybrid_proofs -----------------------
(***************************************************************************)
(* Proofs about DualCopyPages, about FixedPagePrimary on top of it, and    *)
(* about CrossStoreHybrid, which adds the overflow table to that store.    *)
(*                                                                         *)
(* The page file: the lemmas on one page (what a write to the target slot  *)
(* and a new superblock do to a read) carry the argument; PagesInv is      *)
(* inductive as long as interrupted transactions are repeated first and    *)
(* faults are of one kind.                                                 *)
(*                                                                         *)
(* The store: DualCopyPages is only atomic when every transaction rewrites *)
(* the pages an interrupted one left ahead.  A store whose caller repeats  *)
(* an interrupted insert() first does so: the plan depends on the          *)
(* committed image alone, and a fault leaves that image as it was.         *)
(*                                                                         *)
(* The hybrid: the coordinator epoch decides which rows of the overflow    *)
(* table exist (RowInvariance, CoordinatorDecides): that needs nothing of  *)
(* the caller, and nothing of the faults but that a fault ends the         *)
(* process, so that recover() runs before the next insertion.  What the    *)
(* caller was told, the overflow count and the refinement of KeyStore rest *)
(* on more, HybridInv: a caller that repeats an interrupted insertion      *)
(* first, one kind of fault at a time, and no exception that leaves the    *)
(* process running.                                                        *)
(***************************************************************************)
EXTENDS CrossStoreHybrid, PrimaryTable_proofs, TLAPS

-----------------------------------------------------------------------------
(* One page *)

\* Writing the target slot does not change what a reader at the committed
\* epoch gets: _write_logical_page never touches the copy that is read.
LEMMA WriteIsInvisible ==
  ASSUME NEW c, NEW e \in Nat, NEW d, CopyOK(c, e)
  PROVE  LET c2 == [c EXCEPT ![TargetSlot(c, e)] = [epoch |-> e + 1, data |-> d]]
         IN  ReadPage(c2, e) = ReadPage(c, e)
BY DEF CopyOK, Slot, TargetSlot, ReadPage, HasCommitted, NewestSlot, Committed

\* A written copy keeps the page well formed, and any other copy ahead of the
\* committed epoch is the one that was overwritten.
LEMMA WriteKeepsCopyOK ==
  ASSUME NEW c, NEW e \in Nat, NEW d, CopyOK(c, e)
  PROVE  LET t  == TargetSlot(c, e)
             c2 == [c EXCEPT ![t] = [epoch |-> e + 1, data |-> d]]
         IN  /\ t \in Slot /\ CopyOK(c2, e)
             /\ c2[t].epoch = e + 1 /\ c2[t].data = d
             /\ c2[1 - t] = c[1 - t] /\ c[1 - t].epoch <= e
             /\ c[t].epoch = e + 1 \/ c[t].epoch = 0 \/ c[t].epoch < c[1 - t].epoch
BY DEF CopyOK, Slot, TargetSlot, HasCommitted, NewestSlot, Committed

\* Replacing one copy by another that does not tie with its twin.
LEMMA ReplaceKeepsCopyOK ==
  ASSUME NEW c, NEW e \in Nat, CopyOK(c, e), NEW s \in Slot, NEW r,
         r.epoch = e + 1, c[1 - s].epoch <= e
  PROVE  CopyOK([c EXCEPT ![s] = r], e)
<1>1. CASE s = 0
  BY <1>1 DEF CopyOK, Slot
<1>2. CASE s = 1
  BY <1>2 DEF CopyOK, Slot
<1> QED
  BY <1>1, <1>2 DEF Slot

\* A copy one epoch ahead is what the page reads as once that epoch commits.
LEMMA AheadCommits ==
  ASSUME NEW c, NEW e \in Nat, CopyOK(c, e), NEW s \in Slot, c[s].epoch = e + 1
  PROVE  ReadPage(c, e + 1) = c[s].data
BY DEF CopyOK, Slot, ReadPage, HasCommitted, NewestSlot, Committed

\* A page with no copy ahead reads the same at the next epoch.
LEMMA NothingAheadKeeps ==
  ASSUME NEW c, NEW e \in Nat, CopyOK(c, e), \A s \in Slot : c[s].epoch <= e
  PROVE  ReadPage(c, e + 1) = ReadPage(c, e) /\ CopyOK(c, e + 1)
BY DEF CopyOK, Slot, ReadPage, HasCommitted, NewestSlot, Committed

\* A well-formed superblock pair has a committed epoch, and replacing the
\* inactive slot by the next epoch commits exactly that.
LEMMA SuperAdvances ==
  ASSUME NEW sup, SuperOK(sup), NEW m
  PROVE  LET e    == Epoch(sup)
             sup2 == [sup EXCEPT ![1 - ActiveSlot(sup)] = [epoch |-> e + 1, meta |-> m]]
         IN  e \in Nat /\ SuperOK(sup2) /\ Epoch(sup2) = e + 1 /\ MetaOf(sup2) = m
BY DEF SuperOK, Slot, Epoch, ActiveSlot, MetaOf

-----------------------------------------------------------------------------
(* The steps *)

\* A freshly created file satisfies the invariant: one superblock, no copies.
LEMMA InitPages == PagesInit => PagesInv
<1> SUFFICES ASSUME PagesInit PROVE PagesInv
  OBVIOUS
<1>1. SuperOK(super) /\ SuperOK(dsuper) /\ Epoch(super) = 1 /\ Epoch(dsuper) = 1
  BY DEF PagesInit, SuperOK, Slot, Epoch, ActiveSlot
<1>2. CopiesOK(copies, Epoch(super)) /\ CopiesOK(dcopies, Epoch(dsuper))
  <2>1. ASSUME NEW p \in Page PROVE CopyOK(copies[p], 1)
    BY DEF PagesInit, CopyOK, Slot, Absent
  <2>2. copies = [p \in Page |-> copies[p]] /\ dcopies = copies
    BY DEF PagesInit
  <2> QED
    BY <1>1, <2>1, <2>2 DEF CopiesOK
<1>3. TxOK
  BY DEF PagesInit, TxOK, NoTx
<1>4. WrittenOK /\ DeviceOK
  BY DEF PagesInit, WrittenOK, DeviceOK, NoTx
<1> QED
  BY <1>1, <1>2, <1>3, <1>4 DEF PagesInv

\* A transaction that covers the pages left ahead may begin: it will rewrite
\* every one of them.
LEMMA BeginKeeps ==
  ASSUME PagesInv, NEW ch, NEW m, BeginTx(ch, m), Stale \subseteq DOMAIN ch
  PROVE  PagesInv'
<1> USE DEF BeginTx
<1>1. SuperOK(super)' /\ SuperOK(dsuper)'
  BY DEF PagesInv
<1>2. CopiesOK(copies, Epoch(super))' /\ CopiesOK(dcopies, Epoch(dsuper))'
  BY DEF PagesInv, CopiesOK, Epoch, ActiveSlot
<1>3. TxOK'
  BY DEF TxOK
<1>4. WrittenOK'
  BY DEF WrittenOK, Stale, Epoch, ActiveSlot
<1>5. "power" \in Faults => DeviceOK'
  BY DEF PagesInv, DeviceOK, Epoch, ActiveSlot
<1> QED
  BY <1>1, <1>2, <1>3, <1>4, <1>5 DEF PagesInv

\* A page write keeps the invariant and what a reader sees.
LEMMA WriteKeeps ==
  ASSUME PagesInv, NEW p \in Page, WritePage(p)
  PROVE  PagesInv' /\ Image(super, copies)' = Image(super, copies)
<1> DEFINE e == Epoch(super)
           t == TargetSlot(copies[p], e)
           c2 == [copies[p] EXCEPT ![t] = [epoch |-> e + 1, data |-> tx.changes[p]]]
<1>1. e \in Nat /\ e' = e /\ Epoch(dsuper)' = Epoch(dsuper)
  BY SuperAdvances DEF PagesInv, WritePage, Epoch, ActiveSlot
<1>2. CopyOK(copies[p], e) /\ copies = [q \in Page |-> copies[q]]
  BY DEF PagesInv, CopiesOK
<1>3. copies' = [copies EXCEPT ![p] = c2]
  BY DEF WritePage
<1>4. copies'[p] = c2 /\ \A q \in Page : q # p => copies'[q] = copies[q]
  BY <1>2, <1>3
<1>5. /\ t \in Slot /\ CopyOK(c2, e)
      /\ c2[t].epoch = e + 1 /\ c2[t].data = tx.changes[p]
      /\ c2[1 - t] = copies[p][1 - t] /\ copies[p][1 - t].epoch <= e
      /\ \/ copies[p][t].epoch = e + 1
         \/ copies[p][t].epoch = 0
         \/ copies[p][t].epoch < copies[p][1 - t].epoch
  BY <1>1, <1>2, WriteKeepsCopyOK
<1>6. ReadPage(c2, e) = ReadPage(copies[p], e)
  BY <1>1, <1>2, WriteIsInvisible
<1>7. Image(super, copies)' = Image(super, copies)
  BY <1>1, <1>4, <1>6 DEF Image
<1>8. SuperOK(super)' /\ SuperOK(dsuper)'
  BY DEF PagesInv, WritePage
<1>9. CopiesOK(copies, Epoch(super))'
  <2>1. copies' = [q \in Page |-> copies'[q]]
    BY <1>2, <1>3
  <2>2. \A q \in Page : CopyOK(copies[q], e)
    BY DEF PagesInv, CopiesOK
  <2> QED
    BY <1>1, <1>4, <1>5, <2>1, <2>2 DEF CopiesOK
<1>10. CopiesOK(dcopies, Epoch(dsuper))'
  BY <1>1 DEF PagesInv, WritePage, CopiesOK
<1>11. tx'.phase = "writing" /\ tx'.changes = tx.changes /\ tx'.todo = tx.todo \ {p}
  BY DEF PagesInv, TxOK, WritePage
<1>12. TxOK'
  BY <1>11 DEF PagesInv, TxOK, WritePage
<1>13. WrittenOK'
  <2>1. p \in DOMAIN tx.changes
    BY DEF PagesInv, TxOK, WritePage
  <2>2. Stale' \subseteq Stale \cup {p}
    BY <1>1, <1>4 DEF Stale
  <2>3. Stale' \subseteq DOMAIN tx'.changes
    BY <1>11, <2>1, <2>2 DEF PagesInv, WrittenOK, WritePage
  <2>4. ASSUME NEW q \in Page, q \in DOMAIN tx'.changes \ tx'.todo
        PROVE  \E s \in Slot : /\ copies'[q][s].epoch = e + 1
                               /\ copies'[q][s].data = tx'.changes[q]
    <3>1. CASE q = p
      BY <1>4, <1>5, <1>11, <3>1
    <3>2. CASE q # p
      BY <1>4, <1>11, <2>4, <3>2 DEF PagesInv, WrittenOK, WritePage
    <3> QED
      BY <3>1, <3>2
  <2> QED
    BY <1>1, <1>11, <2>3, <2>4 DEF WrittenOK
<1>14. "power" \in Faults => DeviceOK'
  <2> SUFFICES ASSUME "power" \in Faults PROVE DeviceOK'
    OBVIOUS
  <2>1. dsuper' = super' /\ dcopies' = dcopies
    BY DEF PagesInv, DeviceOK, WritePage
  <2>2. ASSUME NEW q \in Page, NEW s \in Slot
        PROVE  \/ dcopies[q][s] = copies'[q][s]
               \/ /\ copies'[q][s].epoch = e + 1
                  /\ \/ dcopies[q][s].epoch = e + 1
                     \/ dcopies[q][s].epoch = 0
                     \/ dcopies[q][s].epoch < copies'[q][1 - s].epoch
    <3>1. \/ dcopies[q][s] = copies[q][s]
          \/ /\ copies[q][s].epoch = e + 1
             /\ \/ dcopies[q][s].epoch = e + 1
                \/ dcopies[q][s].epoch = 0
                \/ dcopies[q][s].epoch < copies[q][1 - s].epoch
      BY DEF PagesInv, DeviceOK, WritePage
    <3>2. CASE q # p
      BY <1>4, <3>1, <3>2
    <3>3. CASE q = p /\ s = t
      BY <1>4, <1>5, <3>1, <3>3
    <3>4. CASE q = p /\ s # t
      <4>1. s = 1 - t
        BY <1>5, <3>4 DEF Slot
      <4>2. copies'[q][s] = copies[q][s] /\ copies[q][s].epoch <= e
        BY <1>4, <1>5, <3>4, <4>1
      <4>3. copies[q][s].epoch # e + 1
        BY <1>1, <1>2, <3>4, <4>2 DEF CopyOK
      <4> QED
        BY <3>1, <4>2, <4>3
    <3> QED
      BY <3>2, <3>3, <3>4
  <2> QED
    BY <1>1, <1>11, <2>1, <2>2 DEF DeviceOK
<1> QED
  BY <1>7, <1>8, <1>9, <1>10, <1>12, <1>13, <1>14 DEF PagesInv

\* The first fsync puts every page of the transaction on the device.
LEMMA SyncDataKeeps ==
  ASSUME PagesInv, SyncData
  PROVE  PagesInv'
<1>1. /\ super' = super /\ copies' = copies /\ dsuper' = super /\ dcopies' = copies
      /\ tx'.phase = "synced" /\ tx'.changes = tx.changes /\ tx'.todo = {}
      /\ tx.phase = "writing" /\ tx.todo = {}
  BY DEF PagesInv, TxOK, SyncData, Fsync
<1>2. TxOK'
  BY DEF PagesInv, TxOK, SyncData
<1>3. WrittenOK'
  BY <1>1 DEF PagesInv, WrittenOK, Stale, Epoch, ActiveSlot
<1>4. DeviceOK'
  BY <1>1 DEF DeviceOK
<1> QED
  BY <1>1, <1>2, <1>3, <1>4 DEF PagesInv, Epoch, ActiveSlot, CopiesOK

\* The second fsync makes the new superblock durable and ends the transaction.
LEMMA SyncSuperKeeps ==
  ASSUME PagesInv, SyncSuper
  PROVE  PagesInv'
<1>1. /\ super' = super /\ copies' = copies /\ dsuper' = super /\ dcopies' = copies
      /\ tx' = NoTx
  BY DEF SyncSuper, Fsync
<1>2. TxOK' /\ WrittenOK' /\ DeviceOK'
  BY <1>1 DEF NoTx, TxOK, WrittenOK, DeviceOK
<1> QED
  BY <1>1, <1>2 DEF PagesInv, Epoch, ActiveSlot, CopiesOK

\* Writing the superblock commits exactly the transaction: its pages are one
\* epoch ahead and no other page is.
LEMMA WriteSuperKeeps ==
  ASSUME PagesInv, WriteSuper
  PROVE  /\ PagesInv'
         /\ Visible' = [pages |-> Overlay(Visible.pages, tx.changes), meta |-> tx.meta]
<1> DEFINE e == Epoch(super)
<1>1. /\ e \in Nat /\ SuperOK(super)' /\ e' = e + 1 /\ MetaOf(super)' = tx.meta
  <2>1. super' = [super EXCEPT ![1 - ActiveSlot(super)] = [epoch |-> e + 1, meta |-> tx.meta]]
    BY DEF WriteSuper
  <2>2. LET sup2 == [super EXCEPT ![1 - ActiveSlot(super)] = [epoch |-> e + 1, meta |-> tx.meta]]
        IN  e \in Nat /\ SuperOK(sup2) /\ Epoch(sup2) = e + 1 /\ MetaOf(sup2) = tx.meta
    BY SuperAdvances DEF PagesInv
  <2>3. e' = Epoch(super') /\ (MetaOf(super))' = MetaOf(super') /\ (SuperOK(super))' = SuperOK(super')
    BY DEF Epoch, ActiveSlot, MetaOf, SuperOK
  <2> QED
    BY <2>1, <2>2, <2>3
<1>2. /\ copies' = copies /\ dsuper' = dsuper /\ dcopies' = dcopies
      /\ tx.phase = "synced" /\ tx.todo = {}
      /\ tx'.phase = "published" /\ tx'.changes = tx.changes /\ tx'.todo = {}
  BY DEF PagesInv, TxOK, WrittenOK, WriteSuper
<1>3. \A p \in Page : CopyOK(copies[p], e)
  BY DEF PagesInv, CopiesOK
<1>4. ASSUME NEW p \in Page
      PROVE  ReadPage(copies[p], e + 1) =
               IF p \in DOMAIN tx.changes THEN tx.changes[p] ELSE ReadPage(copies[p], e)
  <2>1. CASE p \in DOMAIN tx.changes
    <3>1. PICK s \in Slot : copies[p][s].epoch = e + 1 /\ copies[p][s].data = tx.changes[p]
      BY <1>2, <2>1 DEF PagesInv, WrittenOK
    <3> QED
      BY <1>1, <1>3, <2>1, <3>1, AheadCommits
  <2>2. CASE p \notin DOMAIN tx.changes
    <3>1. ASSUME NEW s \in Slot PROVE copies[p][s].epoch <= e
      <4>1. ~(copies[p][s].epoch > e)
        BY <1>2, <2>2 DEF PagesInv, WrittenOK, Stale
      <4>2. copies[p][s].epoch \in Nat
        BY <1>3 DEF CopyOK
      <4> QED
        BY <1>1, <4>1, <4>2
    <3> QED
      BY <1>1, <1>3, <2>2, <3>1, NothingAheadKeeps
  <2> QED
    BY <2>1, <2>2
<1>5. Image(super, copies)' = Overlay(Image(super, copies), tx.changes)
  BY <1>1, <1>2, <1>4 DEF Image, Overlay
<1>6. Visible' = [pages |-> Overlay(Visible.pages, tx.changes), meta |-> tx.meta]
  BY <1>1, <1>5 DEF Visible
<1>7. CopiesOK(copies, Epoch(super))'
  <2>1. ASSUME NEW p \in Page PROVE CopyOK(copies[p], e + 1)
    BY <1>1, <1>3 DEF CopyOK
  <2> QED
    BY <1>1, <1>2, <2>1 DEF PagesInv, CopiesOK
<1>8. SuperOK(dsuper)' /\ CopiesOK(dcopies, Epoch(dsuper))'
  BY <1>2 DEF PagesInv, CopiesOK, Epoch, ActiveSlot
<1>9. TxOK'
  BY <1>2 DEF PagesInv, TxOK, WriteSuper
<1>10. WrittenOK'
  <2>1. ASSUME NEW p \in Page, NEW s \in Slot PROVE ~(copies[p][s].epoch > e + 1)
    <3>1. copies[p][s].epoch \in Nat /\ copies[p][s].epoch <= e + 1
      BY <1>3 DEF CopyOK
    <3> QED
      BY <1>1, <3>1
  <2>2. Stale' = {}
    BY <1>1, <1>2, <2>1 DEF Stale
  <2> QED
    BY <1>2, <2>2 DEF WrittenOK
<1>11. "power" \in Faults => DeviceOK'
  <2>1. "power" \in Faults => dsuper = super /\ dcopies = copies
    BY <1>2 DEF PagesInv, DeviceOK
  <2>2. "power" \in Faults => Epoch(dsuper)' + 1 = Epoch(super)'
    BY <1>1, <1>2, <2>1 DEF Epoch, ActiveSlot
  <2> QED
    BY <1>2, <2>1, <2>2 DEF DeviceOK
<1> QED
  BY <1>1, <1>6, <1>7, <1>8, <1>9, <1>10, <1>11 DEF PagesInv

\* A killed process loses the transaction and leaves its copies ahead.
LEMMA CrashKeeps ==
  ASSUME PagesInv, ProcessCrash, "power" \notin Faults
  PROVE  PagesInv'
<1>1. tx' = NoTx /\ UNCHANGED <<super, copies, dsuper, dcopies>>
  BY DEF ProcessCrash
<1>2. TxOK' /\ WrittenOK'
  BY <1>1 DEF NoTx, TxOK, WrittenOK
<1> QED
  BY <1>1, <1>2 DEF PagesInv, Epoch, ActiveSlot, CopiesOK

\* A page or superblock that reaches the device early keeps the invariant.
LEMMA WritebackKeeps ==
  ASSUME PagesInv, Writeback
  PROVE  PagesInv'
<1> DEFINE e == Epoch(super)
<1>0. /\ UNCHANGED <<super, copies, tx>> /\ DeviceOK
      /\ SuperOK(super) /\ CopiesOK(copies, e) /\ e \in Nat
  BY SuperAdvances DEF PagesInv, Writeback
<1>1. SuperOK(super)' /\ CopiesOK(copies, Epoch(super))' /\ TxOK' /\ WrittenOK'
  BY <1>0 DEF PagesInv, CopiesOK, TxOK, WrittenOK, Stale, Epoch, ActiveSlot
<1>2. CASE UNCHANGED dcopies /\ dsuper' = super
  <2>1. CASE tx.phase = "published"
    <3>1. DeviceOK'
      BY <1>0, <1>2, <2>1 DEF DeviceOK
    <3>2. dcopies' = copies
      BY <1>0, <1>2, <2>1 DEF DeviceOK
    <3> QED
      BY <1>0, <1>1, <1>2, <3>1, <3>2 DEF PagesInv, CopiesOK, Epoch, ActiveSlot
  <2>2. CASE tx.phase # "published"
    <3>1. dsuper' = dsuper
      BY <1>0, <1>2, <2>2 DEF DeviceOK
    <3>2. DeviceOK'
      BY <1>0, <1>2, <2>2, <3>1 DEF DeviceOK, Epoch, ActiveSlot
    <3> QED
      BY <1>0, <1>1, <1>2, <3>1, <3>2 DEF PagesInv, CopiesOK, Epoch, ActiveSlot
  <2> QED
    BY <2>1, <2>2
<1>3. ASSUME NEW p \in Page, NEW s \in Slot, dcopies[p][s] # copies[p][s],
             dcopies' = [dcopies EXCEPT ![p][s] = copies[p][s]], UNCHANGED dsuper
      PROVE  PagesInv'
  <2>1. tx.phase \in {"idle", "writing"} /\ dsuper = super
    BY <1>0, <1>3 DEF PagesInv, TxOK, DeviceOK
  <2>2. CopyOK(copies[p], e) /\ CopyOK(dcopies[p], e)
    BY <1>0, <2>1 DEF PagesInv, CopiesOK
  <2>3. dcopies = [q \in Page |-> dcopies[q]]
    BY DEF PagesInv, CopiesOK
  <2>4. /\ dcopies'[p] = [dcopies[p] EXCEPT ![s] = copies[p][s]]
        /\ \A q \in Page : q # p => dcopies'[q] = dcopies[q]
        /\ dcopies' = [q \in Page |-> dcopies'[q]]
    BY <1>3, <2>3
  <2>5. copies[p][s].epoch = e + 1
    BY <1>0, <1>3, <2>1 DEF DeviceOK
  <2>6. 1 - s \in Slot /\ copies[p][1 - s].epoch <= e /\ dcopies[p][1 - s] = copies[p][1 - s]
    <3>1. 1 - s \in Slot /\ copies[p][1 - s].epoch <= e /\ copies[p][1 - s].epoch # e + 1
      BY <1>0, <2>2, <2>5 DEF CopyOK, Slot
    <3> QED
      BY <1>0, <2>1, <3>1 DEF DeviceOK
  <2>7. CopyOK(dcopies'[p], e)
    BY <1>0, <2>2, <2>4, <2>5, <2>6, ReplaceKeepsCopyOK
  <2>8. CopiesOK(dcopies, Epoch(dsuper))'
    <3>1. \A q \in Page : CopyOK(dcopies[q], e)
      BY <2>1 DEF PagesInv, CopiesOK
    <3>2. Epoch(dsuper)' = e
      BY <1>3, <2>1 DEF Epoch, ActiveSlot
    <3> QED
      BY <2>4, <2>7, <3>1, <3>2 DEF CopiesOK
  <2>9. DeviceOK'
    <3>1. \A r \in Slot : r # s => dcopies'[p][r] = dcopies[p][r]
      BY <2>2, <2>4 DEF CopyOK
    <3>2. dcopies'[p][s] = copies[p][s]
      BY <2>2, <2>4 DEF CopyOK
    <3>3. e' = e
      BY <1>0 DEF Epoch, ActiveSlot
    <3>4. ASSUME NEW q \in Page, NEW r \in Slot
          PROVE  \/ dcopies'[q][r] = copies'[q][r]
                 \/ /\ copies'[q][r].epoch = e + 1
                    /\ \/ dcopies'[q][r].epoch = e + 1
                       \/ dcopies'[q][r].epoch = 0
                       \/ dcopies'[q][r].epoch < copies'[q][1 - r].epoch
      <4>1. copies' = copies
        BY <1>0
      <4>2. \/ dcopies[q][r] = copies[q][r]
            \/ /\ copies[q][r].epoch = e + 1
               /\ \/ dcopies[q][r].epoch = e + 1
                  \/ dcopies[q][r].epoch = 0
                  \/ dcopies[q][r].epoch < copies[q][1 - r].epoch
        BY <1>0, <2>1 DEF DeviceOK
      <4>3. (q = p /\ r = s) \/ dcopies'[q][r] = dcopies[q][r]
        BY <2>4, <3>1
      <4> QED
        BY <3>2, <4>1, <4>2, <4>3
    <3> QED
      BY <1>0, <1>3, <2>1, <3>3, <3>4 DEF DeviceOK
  <2>10. SuperOK(dsuper)'
    BY <1>3 DEF PagesInv
  <2> QED
    BY <1>1, <2>8, <2>9, <2>10 DEF PagesInv
<1> QED
  BY <1>2, <1>3 DEF Writeback

\* Power loss brings back the device image.
LEMMA PowerLossKeeps ==
  ASSUME PagesInv, PowerLoss
  PROVE  PagesInv' /\ Visible' = Durable
<1>1. /\ super' = dsuper /\ copies' = dcopies /\ UNCHANGED <<dsuper, dcopies>>
      /\ tx' = NoTx
  BY DEF PowerLoss
<1>2. TxOK' /\ WrittenOK' /\ DeviceOK'
  BY <1>1 DEF NoTx, TxOK, WrittenOK, DeviceOK
<1>3. Visible' = Durable
  BY <1>1 DEF Visible, Durable, Image, MetaOf, Epoch, ActiveSlot
<1> QED
  BY <1>1, <1>2, <1>3 DEF PagesInv, Epoch, ActiveSlot, CopiesOK

-----------------------------------------------------------------------------
(* The specification *)

SingleFault == ~({"process", "power"} \subseteq Faults)

\* PagesInv is inductive.
THEOREM PagesInvariance ==
  ASSUME RetryFirst, SingleFault
  PROVE  PagesSpec => []PagesInv
<1>1. PagesInit => PagesInv
  BY InitPages
<1>2. PagesInv /\ [PagesNext]_pageVars => PagesInv'
  <2> SUFFICES ASSUME PagesInv, [PagesNext]_pageVars PROVE PagesInv'
    OBVIOUS
  <2>1. ASSUME NEW S \in SUBSET Page, NEW m \in Meta, NEW ch \in [S -> Data],
               Covers(ch), BeginTx(ch, m)
        PROVE  PagesInv'
    BY <2>1, BeginKeeps DEF Covers
  <2>2. CASE \E p \in Page : WritePage(p)
    BY <2>2, WriteKeeps
  <2>3. CASE SyncData
    BY <2>3, SyncDataKeeps
  <2>4. CASE WriteSuper
    BY <2>4, WriteSuperKeeps
  <2>5. CASE SyncSuper
    BY <2>5, SyncSuperKeeps
  <2>6. CASE ProcessCrash
    <3>1. "power" \notin Faults
      BY <2>6, FaultsAssumption DEF ProcessCrash, SingleFault
    <3> QED
      BY <2>6, <3>1, CrashKeeps
  <2>7. CASE Writeback
    BY <2>7, WritebackKeeps
  <2>8. CASE PowerLoss
    BY <2>8, PowerLossKeeps
  <2>9. CASE UNCHANGED pageVars
    BY <2>9 DEF pageVars, PagesInv, CopiesOK, TxOK, WrittenOK, DeviceOK, Stale,
                Epoch, ActiveSlot
  <2> QED
    BY <2>1, <2>2, <2>3, <2>4, <2>5, <2>6, <2>7, <2>8, <2>9 DEF PagesNext, PagesStep
<1> QED
  BY <1>1, <1>2, PTL DEF PagesSpec

\* What a step that writes no superblock and loses no power leaves alone.
LEMMA OtherStepsAreInvisible ==
  ASSUME PagesInv,
         \/ tx'.phase = "writing" /\ UNCHANGED <<super, copies>>
         \/ \E p \in Page : WritePage(p)
         \/ SyncData \/ SyncSuper \/ ProcessCrash \/ Writeback
         \/ UNCHANGED <<super, copies>>
  PROVE  Visible' = Visible
<1>1. CASE UNCHANGED <<super, copies>>
  BY <1>1 DEF Visible, Image, MetaOf, Epoch, ActiveSlot
<1>2. CASE \E p \in Page : WritePage(p)
  <2>1. Image(super, copies)' = Image(super, copies) /\ super' = super
    BY <1>2, WriteKeeps DEF WritePage
  <2> QED
    BY <2>1 DEF Visible, MetaOf, ActiveSlot
<1> QED
  BY <1>1, <1>2 DEF SyncData, SyncSuper, ProcessCrash, Writeback

\* A reader sees exactly the state before or after a transaction, in every
\* behaviour of the page file: the commit protocol of FixedPagePrimaryStore.
THEOREM CommitAtomicity ==
  ASSUME RetryFirst, SingleFault
  PROVE  PagesSpec => CommitIsAtomic
<1> DEFINE A == Visible' # Visible =>
                  \/ /\ tx.phase = "synced" /\ tx'.phase = "published"
                     /\ Visible' = [pages |-> Overlay(Visible.pages, tx.changes),
                                    meta  |-> tx.meta]
                  \/ tx'.phase = "idle" /\ Visible' = Durable
<1>1. PagesInv /\ [PagesNext]_pageVars => [A]_pageVars
  <2> SUFFICES ASSUME PagesInv, PagesNext PROVE A
    OBVIOUS
  <2>1. CASE WriteSuper
    <3>1. tx.phase = "synced" /\ tx'.phase = "published"
      BY <2>1 DEF WriteSuper, PagesInv, TxOK
    <3> QED
      BY <2>1, <3>1, WriteSuperKeeps
  <2>2. CASE PowerLoss
    <3>1. tx'.phase = "idle"
      BY <2>2 DEF PowerLoss, NoTx
    <3> QED
      BY <2>2, <3>1, PowerLossKeeps
  <2>3. ASSUME NEW ch, NEW m, BeginTx(ch, m) PROVE A
    <3>1. UNCHANGED <<super, copies>>
      BY <2>3 DEF BeginTx
    <3> QED
      BY <3>1, OtherStepsAreInvisible
  <2>4. CASE (\E p \in Page : WritePage(p)) \/ SyncData \/ SyncSuper
                \/ ProcessCrash \/ Writeback
    BY <2>4, OtherStepsAreInvisible
  <2> QED
    BY <2>1, <2>2, <2>3, <2>4 DEF PagesNext, PagesStep
<1> QED
  BY <1>1, PagesInvariance, PTL DEF PagesSpec, CommitIsAtomic

\* Two copies that differ only where the committed image does not look read
\* the same.
LEMMA UnreadCopiesDiffer ==
  ASSUME NEW c, NEW d, NEW e \in Nat, CopyOK(c, e), CopyOK(d, e),
         \A s \in Slot :
           \/ d[s] = c[s]
           \/ /\ c[s].epoch = e + 1
              /\ \/ d[s].epoch = e + 1
                 \/ d[s].epoch = 0
                 \/ d[s].epoch < c[1 - s].epoch
  PROVE  ReadPage(d, e) = ReadPage(c, e)
<1>1. d[0] = c[0] \/ (c[0].epoch = e + 1 /\ (d[0].epoch = e + 1 \/ d[0].epoch = 0 \/ d[0].epoch < c[1].epoch))
  BY DEF Slot
<1>2. d[1] = c[1] \/ (c[1].epoch = e + 1 /\ (d[1].epoch = e + 1 \/ d[1].epoch = 0 \/ d[1].epoch < c[0].epoch))
  BY DEF Slot
<1> QED
  BY <1>1, <1>2 DEF CopyOK, Slot, ReadPage, HasCommitted, NewestSlot, Committed

\* Until a superblock has been written over it, the device holds what a
\* reader sees.
LEMMA DeviceShowsVisible ==
  ASSUME PagesInv, "power" \in Faults, tx.phase # "published"
  PROVE  Durable = Visible
<1>1. DeviceOK /\ dsuper = super /\ Epoch(super) \in Nat
  BY SuperAdvances DEF PagesInv, DeviceOK
<1>2. ASSUME NEW p \in Page
      PROVE  ReadPage(dcopies[p], Epoch(super)) = ReadPage(copies[p], Epoch(super))
  <2>1. CopyOK(copies[p], Epoch(super)) /\ CopyOK(dcopies[p], Epoch(super))
    BY <1>1 DEF PagesInv, CopiesOK
  <2>2. \A s \in Slot :
          \/ dcopies[p][s] = copies[p][s]
          \/ /\ copies[p][s].epoch = Epoch(super) + 1
             /\ \/ dcopies[p][s].epoch = Epoch(super) + 1
                \/ dcopies[p][s].epoch = 0
                \/ dcopies[p][s].epoch < copies[p][1 - s].epoch
    BY <1>1 DEF DeviceOK
  <2> QED
    BY <1>1, <2>1, <2>2, UnreadCopiesDiffer
<1> QED
  BY <1>1, <1>2 DEF Durable, Visible, Image

\* The write-ahead order of the two fsyncs keeps what a reader sees on the
\* device until a superblock is written over it.
THEOREM DurableBeforeAckHolds ==
  ASSUME RetryFirst, SingleFault
  PROVE  PagesSpec => []DurableBeforeAck
<1>1. PagesInv => DurableBeforeAck
  BY DeviceShowsVisible DEF DurableBeforeAck
<1> QED
  BY <1>1, PagesInvariance, PTL

-----------------------------------------------------------------------------
(* Types *)

\* What the file, the device and the transaction hold is always of their
\* types, whatever the faults and whoever retries.
THEOREM PagesTyped == PagesSpec => []PagesTypeOK
<1> DEFINE Supers == [Slot -> [epoch : Nat, meta : Meta]]
           Copies == [Page -> [Slot -> [epoch : Nat, data : Data \cup {Blank}]]]
           Typed(t) == /\ t.phase \in {"idle", "writing", "synced", "published"}
                       /\ t.todo \subseteq DOMAIN t.changes
                       /\ DOMAIN t.changes \subseteq Page
                       /\ t.changes \in [DOMAIN t.changes -> Data]
                       /\ t.meta \in Meta
                       /\ t = [phase |-> t.phase, todo |-> t.todo,
                               changes |-> t.changes, meta |-> t.meta]
           T == /\ super \in Supers /\ dsuper \in Supers
                /\ copies \in Copies /\ dcopies \in Copies
                /\ Typed(tx)
<1>0. Typed(NoTx)
  BY InitMetaIsMeta DEF NoTx
<1>1. PagesInit => T
  <2> SUFFICES ASSUME PagesInit PROVE T
    OBVIOUS
  <2>1. super \in Supers
    BY InitMetaIsMeta DEF PagesInit, Slot
  <2>2. copies \in Copies
    BY DEF PagesInit, Absent
  <2> QED
    BY <1>0, <2>1, <2>2 DEF PagesInit
<1>2. T /\ [PagesNext]_pageVars => T'
  <2> SUFFICES ASSUME T, [PagesNext]_pageVars PROVE T'
    OBVIOUS
  <2>1. ASSUME NEW S \in SUBSET Page, NEW m \in Meta, NEW ch \in [S -> Data],
               BeginTx(ch, m)
        PROVE  T'
    <3>1. Typed(tx')
      BY <2>1 DEF BeginTx
    <3> QED
      BY <2>1, <3>1 DEF BeginTx
  <2>2. ASSUME NEW p \in Page, WritePage(p) PROVE T'
    <3> DEFINE t == TargetSlot(copies[p], Epoch(super))
               r == [epoch |-> Epoch(super) + 1, data |-> tx.changes[p]]
    <3>1. t \in Slot
      BY DEF TargetSlot, NewestSlot, Slot
    <3>2. Epoch(super) \in Nat
      BY DEF Epoch, ActiveSlot, Slot
    <3>3. tx.changes[p] \in Data
      BY <2>2 DEF WritePage
    <3>4. r \in [epoch : Nat, data : Data \cup {Blank}]
      BY <3>2, <3>3
    <3>5. copies' = [copies EXCEPT ![p][t] = r]
      BY <2>2 DEF WritePage
    <3>6. copies' \in Copies
      BY <3>1, <3>4, <3>5
    <3>7. Typed(tx')
      BY <2>2 DEF WritePage
    <3> QED
      BY <2>2, <3>6, <3>7 DEF WritePage
  <2>3. CASE SyncData
    BY <2>3 DEF SyncData, Fsync
  <2>4. CASE WriteSuper
    <3> DEFINE r == [epoch |-> Epoch(super) + 1, meta |-> tx.meta]
    <3>1. r \in [epoch : Nat, meta : Meta]
      BY DEF Epoch, ActiveSlot, Slot
    <3>2. super' = [super EXCEPT ![1 - ActiveSlot(super)] = r]
      BY <2>4 DEF WriteSuper
    <3>3. super' \in Supers
      BY <3>1, <3>2
    <3>4. Typed(tx')
      BY <2>4 DEF WriteSuper
    <3> QED
      BY <2>4, <3>3, <3>4 DEF WriteSuper
  <2>5. CASE SyncSuper
    <3>1. Typed(tx')
      BY <1>0, <2>5 DEF SyncSuper
    <3> QED
      BY <2>5, <3>1 DEF SyncSuper, Fsync
  <2>6. CASE ProcessCrash
    <3>1. Typed(tx')
      BY <1>0, <2>6 DEF ProcessCrash
    <3> QED
      BY <2>6, <3>1 DEF ProcessCrash
  <2>7. CASE Writeback
    <3>1. UNCHANGED <<super, copies, tx>>
      BY <2>7 DEF Writeback
    <3>2. dsuper' \in Supers
      BY <2>7 DEF Writeback
    <3>3. dcopies' \in Copies
      <4>1. CASE UNCHANGED dcopies
        BY <4>1
      <4>2. ASSUME NEW p \in Page, NEW s \in Slot,
                   dcopies' = [dcopies EXCEPT ![p][s] = copies[p][s]]
            PROVE  dcopies' \in Copies
        <5>1. copies[p][s] \in [epoch : Nat, data : Data \cup {Blank}]
          OBVIOUS
        <5> QED
          BY <4>2, <5>1
      <4> QED
        BY <2>7, <4>1, <4>2 DEF Writeback
    <3> QED
      BY <3>1, <3>2, <3>3
  <2>8. CASE PowerLoss
    <3>1. Typed(tx')
      BY <1>0, <2>8 DEF PowerLoss
    <3> QED
      BY <2>8, <3>1 DEF PowerLoss
  <2>9. CASE UNCHANGED pageVars
    BY <2>9 DEF pageVars
  <2> QED
    BY <2>1, <2>2, <2>3, <2>4, <2>5, <2>6, <2>7, <2>8, <2>9 DEF PagesNext, PagesStep
<1>3. T => PagesTypeOK
  BY DEF PagesTypeOK
<1> QED
  BY <1>1, <1>2, <1>3, PTL DEF PagesSpec
-----------------------------------------------------------------------------
(* Refinement *)

\* Every step of the page file is a step of AtomicPages or changes nothing it
\* can see: the start begins, page writes stutter, writing a superblock
\* publishes, an fsync or a writeback hardens, a killed process aborts and
\* power loss loses.
THEOREM PagesImplementAtomicPages ==
  ASSUME RetryFirst, SingleFault
  PROVE  PagesSpec => ImplementsAtomicPages
<1>1. PagesInit => Atomic!Init
  <2> SUFFICES ASSUME PagesInit PROVE Atomic!Init
    OBVIOUS
  <2>1. MetaOf(super) = InitMeta /\ Pending = {}
    BY DEF PagesInit, MetaOf, ActiveSlot, Slot, Pending, NoTx
  <2>2. ASSUME NEW p \in Page PROVE ReadPage(copies[p], Epoch(super)) = Blank
    BY DEF PagesInit, ReadPage, HasCommitted, Committed, Absent, Slot
  <2> QED
    BY <2>1, <2>2 DEF PagesInit, Atomic!Init, Visible, Durable, Image
<1>2. PagesInv /\ DurableBeforeAck /\ DurableBeforeAck' /\ [PagesNext]_pageVars
        => [Atomic!Next]_Atomic!vars
  <2> SUFFICES ASSUME PagesInv, DurableBeforeAck, DurableBeforeAck', [PagesNext]_pageVars
               PROVE  [Atomic!Next]_Atomic!vars
    OBVIOUS
  <2> DEFINE still == UNCHANGED <<Visible, Durable, Pending>>
             hardens == Durable' = Visible /\ UNCHANGED <<Visible, Pending>>
  <2>1. still \/ hardens => [Atomic!Next]_Atomic!vars
    BY DEF Atomic!vars, Atomic!Next, Atomic!Harden
  <2>2. UNCHANGED <<dsuper, dcopies>> => UNCHANGED Durable
    BY DEF Durable, Image, MetaOf, Epoch, ActiveSlot
  <2>3. ASSUME NEW S \in SUBSET Page, NEW m \in Meta, NEW ch \in [S -> Data],
               BeginTx(ch, m)
        PROVE  Atomic!Next
    <3>1. /\ UNCHANGED <<super, copies, dsuper, dcopies>> /\ tx.phase = "idle"
          /\ tx'.phase = "writing" /\ tx'.changes = ch /\ tx'.meta = m
      BY <2>3 DEF BeginTx
    <3>2. UNCHANGED <<Visible, Durable>>
      BY <2>2, <3>1, OtherStepsAreInvisible
    <3>3. Pending = {} /\ Pending' = {[changes |-> ch, meta |-> m]}
      BY <3>1 DEF Pending
    <3>4. Atomic!IsTx([changes |-> ch, meta |-> m])
      BY <2>3 DEF Atomic!IsTx
    <3>5. Atomic!Begin
      BY <3>1, <3>2, <3>3, <3>4 DEF Atomic!Begin, DurableBeforeAck
    <3> QED
      BY <3>5 DEF Atomic!Next
  <2>4. CASE \E p \in Page : WritePage(p)
    <3>1. UNCHANGED <<dsuper, dcopies>> /\ tx.phase = "writing" /\ tx'.phase = "writing"
          /\ tx'.changes = tx.changes /\ tx'.meta = tx.meta
      BY <2>4 DEF WritePage, PagesInv, TxOK
    <3>2. UNCHANGED Pending
      BY <3>1 DEF Pending
    <3> QED
      BY <2>1, <2>2, <2>4, <3>1, <3>2, OtherStepsAreInvisible
  <2>5. CASE SyncData \/ SyncSuper
    <3>1. /\ super' = super /\ copies' = copies
          /\ dsuper' = super /\ dcopies' = copies
      BY <2>5 DEF SyncData, SyncSuper, Fsync
    <3>2. Durable' = Visible
      BY <3>1 DEF Durable, Visible, Image, MetaOf, Epoch, ActiveSlot
    <3>3. UNCHANGED Pending
      <4>1. CASE SyncData
        <5>1. /\ tx.phase = "writing" /\ tx'.phase = "synced"
              /\ tx'.changes = tx.changes /\ tx'.meta = tx.meta
          BY <4>1 DEF SyncData, PagesInv, TxOK
        <5> QED
          BY <5>1 DEF Pending
      <4>2. CASE SyncSuper
        BY <4>2 DEF SyncSuper, Pending, NoTx
      <4> QED
        BY <2>5, <4>1, <4>2
    <3> QED
      BY <2>1, <2>5, <3>2, <3>3, OtherStepsAreInvisible
  <2>6. CASE WriteSuper
    <3>1. /\ tx.phase = "synced" /\ UNCHANGED <<dsuper, dcopies>>
          /\ tx'.phase = "published"
      BY <2>6 DEF WriteSuper, PagesInv, TxOK
    <3>2. Visible' = [pages |-> Overlay(Visible.pages, tx.changes), meta |-> tx.meta]
      BY <2>6, WriteSuperKeeps
    <3>3. Pending = {[changes |-> tx.changes, meta |-> tx.meta]} /\ Pending' = {}
      BY <3>1 DEF Pending
    <3>4. Atomic!Publish
      BY <2>2, <3>1, <3>2, <3>3 DEF Atomic!Publish, Overlay
    <3> QED
      BY <3>4 DEF Atomic!Next
  <2>7. CASE ProcessCrash
    <3>1. UNCHANGED <<Visible, Durable>> /\ Pending' = {}
      BY <2>2, <2>7, OtherStepsAreInvisible DEF ProcessCrash, Pending, NoTx
    <3> QED
      BY <2>1, <3>1 DEF Atomic!Next, Atomic!Abort
  <2>8. CASE Writeback
    <3>1. /\ Visible' = Visible /\ "power" \in Faults /\ UNCHANGED <<super, copies, tx>>
          /\ Pending' = Pending
      BY <2>8, OtherStepsAreInvisible DEF Writeback, Pending
    <3>2. CASE tx.phase # "published"
      <4>1. Durable = Visible /\ Durable' = Visible'
        BY <3>1, <3>2 DEF DurableBeforeAck
      <4> QED
        BY <2>1, <3>1, <4>1
    <3>3. CASE tx.phase = "published"
      <4>1. dcopies = copies
        BY <3>1, <3>3 DEF PagesInv, DeviceOK
      <4>2. dsuper' = super /\ dcopies' = copies
        BY <2>8, <4>1 DEF Writeback
      <4>3. Durable' = Visible
        BY <4>2 DEF Durable, Visible, Image, MetaOf, Epoch, ActiveSlot
      <4> QED
        BY <2>1, <3>1, <4>3
    <3> QED
      BY <3>2, <3>3
  <2>9. CASE PowerLoss
    <3>1. Visible' = Durable /\ UNCHANGED Durable /\ Pending' = {}
      BY <2>2, <2>9, PowerLossKeeps DEF PowerLoss, Pending, NoTx
    <3> QED
      BY <2>9, <3>1 DEF Atomic!Next, Atomic!Lose, PowerLoss
  <2>10. CASE UNCHANGED pageVars
    <3>1. still
      BY <2>2, <2>10, OtherStepsAreInvisible DEF pageVars, Pending
    <3> QED
      BY <2>1, <3>1
  <2> QED
    BY <2>3, <2>4, <2>5, <2>6, <2>7, <2>8, <2>9, <2>10 DEF PagesNext, PagesStep
<1> QED
  BY <1>1, <1>2, PagesInvariance, DurableBeforeAckHolds, PTL
     DEF PagesSpec, ImplementsAtomicPages, Atomic!Spec

-----------------------------------------------------------------------------
(* The store *)

\* The pages that a power loss would leave ahead of the device's superblock.
DeviceStale == {p \in Page : \E s \in Slot : dcopies[p][s].epoch > Epoch(dsuper)}

Planned(view, k) == DOMAIN Plan(view.pages, view.meta, k).changes

\* The strengthening of PagesInv: what is left ahead is planned again by the
\* insert() that is owed.
OwedInv ==
  /\ PagesInv
  /\ call = NoKey <=> tx.phase = "idle"
  /\ tx.phase \in {"writing", "synced"} => DOMAIN tx.changes = Planned(Visible, call)
  /\ tx.phase = "idle" => Stale \subseteq IF owed = NoKey THEN {} ELSE Planned(Visible, owed)
  /\ "power" \in Faults /\ tx.phase = "published" /\ dsuper # super =>
        DeviceStale \subseteq Planned(Durable, call)

-----------------------------------------------------------------------------

\* A step that changes nothing of the store or its caller.
LEMMA OwedStutters ==
  ASSUME OwedInv, UNCHANGED vars
  PROVE  OwedInv'
<1>1. UNCHANGED <<super, copies, dsuper, dcopies, tx, call, owed>>
  BY DEF vars
<1>2. /\ Epoch(super)' = Epoch(super) /\ Epoch(dsuper)' = Epoch(dsuper)
      /\ Visible' = Visible /\ Durable' = Durable
  BY <1>1 DEF Epoch, ActiveSlot, MetaOf, Image, Visible, Durable
<1>3. Stale' = Stale /\ DeviceStale' = DeviceStale
  BY <1>1, <1>2 DEF Stale, DeviceStale
<1>4. PagesInv'
  <2>1. /\ SuperOK(super)' = SuperOK(super) /\ SuperOK(dsuper)' = SuperOK(dsuper)
        /\ CopiesOK(copies', Epoch(super)') = CopiesOK(copies, Epoch(super))
        /\ CopiesOK(dcopies', Epoch(dsuper)') = CopiesOK(dcopies, Epoch(dsuper))
    BY <1>1, <1>2 DEF SuperOK, Epoch, ActiveSlot
  <2>2. TxOK' = TxOK
    BY <1>1 DEF TxOK
  <2>3. WrittenOK' = WrittenOK
    BY <1>1, <1>2, <1>3 DEF WrittenOK
  <2>4. DeviceOK' = DeviceOK
    BY <1>1, <1>2 DEF DeviceOK
  <2> QED
    BY <2>1, <2>2, <2>3, <2>4 DEF OwedInv, PagesInv
<1> QED
  BY <1>1, <1>2, <1>3, <1>4 DEF OwedInv

\* Only a plan that commits changes pages.
LEMMA OnlyCommitsChange ==
  ASSUME NEW img, NEW m, NEW k, Plan(img, m, k).outcome # "commit"
  PROVE  DOMAIN Plan(img, m, k).changes = {}
<1>1. Plan(img, m, k).changes = <<>>
  BY DEF Plan, Conclude, Answer
<1> QED
  BY <1>1

\* What the device holds ahead is ahead in the page cache too.
LEMMA DeviceAheadIsAhead ==
  ASSUME PagesInv, "power" \in Faults, tx.phase # "published"
  PROVE  DeviceStale \subseteq Stale
<1>1. DeviceOK /\ dsuper = super /\ Epoch(super) \in Nat
  BY SuperAdvances DEF PagesInv, DeviceOK
<1>2. ASSUME NEW p \in Page, NEW s \in Slot, dcopies[p][s].epoch > Epoch(super)
      PROVE  copies[p][s].epoch > Epoch(super)
  BY <1>1, <1>2 DEF DeviceOK
<1> QED
  BY <1>1, <1>2 DEF DeviceStale, Stale

\* The start of insert(k): repeating the owed insert, or with nothing ahead,
\* it plans every page that is ahead.
LEMMA InsertCovers ==
  ASSUME OwedInv, RetryFirst, NEW k \in Key, CallerInserts(k)
  PROVE  Stale \subseteq DOMAIN PlanNow(k).changes
BY NoKeyAssumption DEF OwedInv, CallerInserts, PlanNow, Planned

\* insert() of an absent key keeps the invariant.
LEMMA InsertKeeps ==
  ASSUME OwedInv, RetryFirst, NEW k \in Key, Insert(k)
  PROVE  OwedInv'
<1>1. /\ Stale \subseteq DOMAIN PlanNow(k).changes
      /\ BeginTx(PlanNow(k).changes, PlanNow(k).meta) /\ call' = k
  BY InsertCovers DEF Insert
<1>2. PagesInv'
  BY <1>1, BeginKeeps DEF OwedInv
<1>3. Visible' = Visible /\ tx'.phase = "writing" /\ tx'.changes = PlanNow(k).changes
  BY <1>1 DEF BeginTx, Visible, Image, MetaOf, Epoch, ActiveSlot
<1> QED
  BY <1>1, <1>2, <1>3, NoKeyAssumption DEF OwedInv, PlanNow, Planned

\* insert() of a stored key answers without writing; if it was owed, nothing
\* was left ahead.
LEMMA DuplicateKeeps ==
  ASSUME OwedInv, RetryFirst, NEW k \in Key, InsertDuplicate(k)
  PROVE  OwedInv'
<1>1. /\ UNCHANGED <<super, copies, dsuper, dcopies, tx, call>>
      /\ owed' = IF owed = k THEN NoKey ELSE owed
      /\ tx.phase = "idle"
  BY DEF InsertDuplicate, CallerInserts
<1>2. Stale = {}
  <2>1. DOMAIN PlanNow(k).changes = {}
    BY OnlyCommitsChange DEF InsertDuplicate, PlanNow
  <2> QED
    BY <2>1, InsertCovers DEF InsertDuplicate
<1>3. UNCHANGED <<Visible, Stale>>
  BY <1>1 DEF Visible, Image, MetaOf, Epoch, ActiveSlot, Stale
<1>4. PagesInv'
  BY <1>1 DEF OwedInv, PagesInv, CopiesOK, TxOK, WrittenOK, DeviceOK, Stale, Epoch, ActiveSlot
<1> QED
  BY <1>1, <1>2, <1>3, <1>4 DEF OwedInv

\* Page writes and the first fsync change neither the committed image nor the
\* plan of the insert() that is running.
LEMMA WritingKeeps ==
  ASSUME OwedInv, (\E p \in Page : WritePage(p)) \/ SyncData \/ Writeback,
         UNCHANGED <<call, owed>>, tx.phase # "published"
  PROVE  OwedInv'
<1>1. PagesInv' /\ Visible' = Visible
  BY WriteKeeps, SyncDataKeeps, WritebackKeeps, OtherStepsAreInvisible DEF OwedInv
<1>2. CASE (\E p \in Page : WritePage(p)) \/ SyncData
  <2>1. tx.phase = "writing" /\ tx'.phase \in {"writing", "synced"} /\ tx'.changes = tx.changes
    BY <1>2 DEF OwedInv, PagesInv, TxOK, WritePage, SyncData
  <2> QED
    BY <1>1, <2>1 DEF OwedInv
<1>3. CASE Writeback
  <2>1. UNCHANGED <<super, copies, tx>>
    BY <1>3 DEF Writeback
  <2>2. Stale' = Stale
    BY <2>1 DEF Stale, Epoch, ActiveSlot
  <2> QED
    BY <1>1, <2>1, <2>2 DEF OwedInv
<1> QED
  BY <1>2, <1>3

\* A superblock that reaches the device between the write and the fsync.
LEMMA PublishedWritebackKeeps ==
  ASSUME OwedInv, Writeback, UNCHANGED <<call, owed>>, tx.phase = "published"
  PROVE  OwedInv'
<1>1. PagesInv' /\ UNCHANGED <<super, copies, tx>> /\ dcopies = copies
  BY WritebackKeeps DEF OwedInv, PagesInv, DeviceOK, Writeback
<1>2. dsuper' = super
  BY <1>1 DEF Writeback
<1> QED
  BY <1>1, <1>2 DEF OwedInv

\* Writing the superblock leaves nothing ahead; what the device would show is
\* still the image the running insert() was planned from.
LEMMA PublishKeeps ==
  ASSUME OwedInv, WriteSuper, UNCHANGED <<call, owed>>
  PROVE  OwedInv'
<1>1. PagesInv' /\ tx.phase = "synced" /\ tx'.phase = "published"
  BY WriteSuperKeeps DEF OwedInv, WriteSuper, PagesInv, TxOK
<1>2. ASSUME "power" \in Faults
      PROVE  DeviceStale' \subseteq Planned(Durable, call)'
  <2>1. Durable' = Durable /\ DeviceStale' = DeviceStale
    BY DEF WriteSuper, Durable, Image, MetaOf, Epoch, ActiveSlot, DeviceStale
  <2>2. Durable = Visible /\ DeviceStale \subseteq Stale
    BY <1>1, <1>2, DeviceShowsVisible, DeviceAheadIsAhead DEF OwedInv
  <2>3. Stale \subseteq Planned(Visible, call)
    BY <1>1 DEF OwedInv, PagesInv, WrittenOK
  <2> QED
    BY <2>1, <2>2, <2>3 DEF Planned
<1> QED
  BY <1>1, <1>2 DEF OwedInv

\* The second fsync ends the insert() with nothing ahead.
LEMMA ReturnKeeps ==
  ASSUME OwedInv, Return
  PROVE  OwedInv'
<1>1. PagesInv' /\ tx' = NoTx /\ tx.phase = "published" /\ UNCHANGED <<super, copies>>
  BY SyncSuperKeeps DEF OwedInv, Return, SyncSuper
<1>2. Stale = {} /\ Stale' = Stale
  BY <1>1 DEF OwedInv, PagesInv, WrittenOK, Stale, Epoch, ActiveSlot
<1> QED
  BY <1>1, <1>2 DEF OwedInv, Return, NoTx

\* A killed process leaves ahead only pages of the insert() it now owes.
LEMMA KilledKeeps ==
  ASSUME OwedInv, SingleFault, ProcessCrash, Fault
  PROVE  OwedInv'
<1>0. "power" \notin Faults
  BY FaultsAssumption DEF ProcessCrash, SingleFault
<1>1. /\ PagesInv' /\ tx' = NoTx /\ tx.phase # "idle" /\ UNCHANGED <<super, copies>>
      /\ Visible' = Visible /\ Stale' = Stale
  BY <1>0, CrashKeeps, OtherStepsAreInvisible
     DEF OwedInv, ProcessCrash, Stale, Epoch, ActiveSlot
<1>2. call # NoKey /\ owed' = call /\ call' = NoKey
  BY <1>1 DEF OwedInv, Fault
<1>3. Stale \subseteq Planned(Visible, call)
  BY <1>1 DEF OwedInv, PagesInv, TxOK, WrittenOK
<1> QED
  BY <1>0, <1>1, <1>2, <1>3 DEF OwedInv, NoTx, Planned

\* Power loss may also take back a superblock; then its pages are ahead
\* again, and they are pages of the insert() that is owed.
LEMMA PowerKeeps ==
  ASSUME OwedInv, PowerLoss, Fault
  PROVE  OwedInv'
<1>1. /\ PagesInv' /\ Visible' = Durable /\ tx' = NoTx /\ "power" \in Faults
      /\ super' = dsuper /\ copies' = dcopies
  BY PowerLossKeeps DEF OwedInv, PowerLoss
<1>2. Stale' = DeviceStale
  BY <1>1 DEF Stale, DeviceStale, Epoch, ActiveSlot
<1>3. call' = NoKey /\ owed' = IF call = NoKey THEN owed ELSE call
  BY DEF Fault
<1>4. CASE tx.phase = "published"
  <2>1. call # NoKey
    BY <1>4 DEF OwedInv
  <2>2. CASE dsuper = super
    <3>1. dcopies = copies /\ Stale = {}
      BY <1>1, <1>4 DEF OwedInv, PagesInv, WrittenOK, DeviceOK
    <3>2. DeviceStale = Stale
      BY <2>2, <3>1 DEF Stale, DeviceStale
    <3> QED
      BY <1>1, <1>2, <1>3, <3>1, <3>2 DEF OwedInv, NoTx
  <2>3. CASE dsuper # super
    <3>1. DeviceStale \subseteq Planned(Durable, call)
      BY <1>1, <1>4, <2>3 DEF OwedInv
    <3> QED
      BY <1>1, <1>2, <1>3, <2>1, <3>1 DEF OwedInv, NoTx, Planned
  <2> QED
    BY <2>2, <2>3
<1>5. CASE tx.phase # "published"
  <2>1. Durable = Visible /\ DeviceStale \subseteq Stale
    BY <1>1, <1>5, DeviceShowsVisible, DeviceAheadIsAhead DEF OwedInv
  <2>2. CASE tx.phase = "idle"
    BY <1>1, <1>2, <1>3, <2>1, <2>2 DEF OwedInv, NoTx, Planned
  <2>3. CASE tx.phase \in {"writing", "synced"}
    <3>1. Stale \subseteq Planned(Visible, call) /\ call # NoKey
      BY <2>3 DEF OwedInv, PagesInv, WrittenOK
    <3> QED
      BY <1>1, <1>2, <1>3, <2>1, <3>1 DEF OwedInv, NoTx, Planned
  <2> QED
    BY <1>5, <2>2, <2>3 DEF OwedInv, PagesInv, TxOK
<1> QED
  BY <1>4, <1>5

-----------------------------------------------------------------------------

\* OwedInv is inductive: whatever the faults leave ahead is rewritten by the
\* insert() that is repeated first.
THEOREM OwedInvariance ==
  ASSUME RetryFirst, SingleFault
  PROVE  Spec => []OwedInv
<1>1. Init => OwedInv
  <2> SUFFICES ASSUME Init PROVE OwedInv
    OBVIOUS
  <2>1. PagesInv /\ tx = NoTx /\ dsuper = super
    BY InitPages DEF Init, PagesInit
  <2>2. Stale = {}
    BY DEF Init, PagesInit, Stale, Epoch, ActiveSlot, Absent, Slot
  <2> QED
    BY <2>1, <2>2 DEF Init, OwedInv, NoTx
<1>2. OwedInv /\ [Next]_vars => OwedInv'
  <2> SUFFICES ASSUME OwedInv, [Next]_vars PROVE OwedInv'
    OBVIOUS
  <2>1. ASSUME NEW k \in Key, Insert(k) \/ InsertDuplicate(k) PROVE OwedInv'
    BY <2>1, InsertKeeps, DuplicateKeeps
  <2>2. CASE Advance
    BY <2>2, WritingKeeps, PublishedWritebackKeeps, PublishKeeps DEF Advance, WritePage, SyncData
  <2>3. CASE Return
    BY <2>3, ReturnKeeps
  <2>4. CASE Fault
    BY <2>4, KilledKeeps, PowerKeeps DEF Fault
  <2>5. CASE UNCHANGED vars
    BY <2>5, OwedStutters
  <2> QED
    BY <2>1, <2>2, <2>3, <2>4, <2>5 DEF Next
<1> QED
  BY <1>1, <1>2, PTL DEF Spec

\* A repeated insert() rewrites every page the interrupted one had written.
THEOREM RetryIsIdempotent ==
  ASSUME RetryFirst, SingleFault
  PROVE  Spec => RetryRewritesStalePages
<1>1. OwedInv /\ [Next]_vars =>
        [tx.phase = "idle" /\ tx'.phase = "writing" => Stale \subseteq DOMAIN tx'.changes]_vars
  <2> SUFFICES ASSUME OwedInv, Next, tx.phase = "idle", tx'.phase = "writing"
               PROVE  Stale \subseteq DOMAIN tx'.changes
    OBVIOUS
  <2>1. PICK k \in Key : Insert(k)
    BY DEF Next, InsertDuplicate, Advance, Return, Fault, WritePage, SyncData, WriteSuper,
           Writeback, SyncSuper, ProcessCrash, PowerLoss, NoTx
  <2>2. tx'.changes = PlanNow(k).changes
    BY <2>1 DEF Insert, BeginTx
  <2> QED
    BY <2>1, <2>2, InsertCovers DEF Insert
<1> QED
  BY <1>1, OwedInvariance, PTL DEF Spec, RetryRewritesStalePages

\* The store commits every insert() whole: in every behaviour of
\* FixedPagePrimary, what lookup() and audit() can read moves from one
\* committed image to the next.
THEOREM InsertAtomicity ==
  ASSUME RetryFirst, SingleFault
  PROVE  Spec => CommitIsAtomic
<1> DEFINE A == Visible' # Visible =>
                  \/ /\ tx.phase = "synced" /\ tx'.phase = "published"
                     /\ Visible' = [pages |-> Overlay(Visible.pages, tx.changes),
                                    meta  |-> tx.meta]
                  \/ tx'.phase = "idle" /\ Visible' = Durable
<1>1. OwedInv /\ [Next]_vars => [A]_pageVars
  <2> SUFFICES ASSUME OwedInv, Next PROVE A \/ UNCHANGED pageVars
    BY DEF vars, pageVars
  <2>1. ASSUME NEW k \in Key, Insert(k) \/ InsertDuplicate(k)
        PROVE  A
    <3>1. UNCHANGED <<super, copies>>
      BY <2>1 DEF Insert, InsertDuplicate, BeginTx
    <3> QED
      BY <3>1, OtherStepsAreInvisible DEF OwedInv
  <2>2. CASE WriteSuper
    <3>1. tx.phase = "synced" /\ tx'.phase = "published"
      BY <2>2 DEF OwedInv, WriteSuper, PagesInv, TxOK
    <3> QED
      BY <2>2, <3>1, WriteSuperKeeps DEF OwedInv
  <2>3. CASE PowerLoss
    <3>1. tx'.phase = "idle"
      BY <2>3 DEF PowerLoss, NoTx
    <3> QED
      BY <2>3, <3>1, PowerLossKeeps DEF OwedInv
  <2>4. CASE (\E p \in Page : WritePage(p)) \/ SyncData \/ SyncSuper
                \/ ProcessCrash \/ Writeback
    BY <2>4, OtherStepsAreInvisible DEF OwedInv
  <2> QED
    BY <2>1, <2>2, <2>3, <2>4 DEF Next, Advance, Return, Fault
<1> QED
  BY <1>1, OwedInvariance, PTL DEF Spec, CommitIsAtomic

-----------------------------------------------------------------------------
(* What audit() counts *)

\* The rows of a generation are its full slots.
LEMMA RowsAreCells ==
  ASSUME NEW img, NEW g, g = NoGen \/ Laid(g), Sound(img, g), NEW r
  PROVE  r \in Rows(img, g) <=>
           \E p \in PagesOf(g) : \E i \in Room(g, p) :
             Cell(img, g, p)[i] # NoKey /\ r = <<p, i, Cell(img, g, p)[i]>>
<1> DEFINE Part(p) == {<<p, i, Cell(img, g, p)[i]>> : i \in DOMAIN Cell(img, g, p) \ Free(Cell(img, g, p))}
<1>1. Rows(img, g) = UNION {Part(p) : p \in PagesOf(g)}
  BY DEF Rows, Cell
<1>2. ASSUME NEW p \in PagesOf(g)
      PROVE  r \in Part(p) <=> \E i \in Room(g, p) :
               Cell(img, g, p)[i] # NoKey /\ r = <<p, i, Cell(img, g, p)[i]>>
  <2>1. DOMAIN Cell(img, g, p) = Room(g, p)
    BY DEF Sound
  <2> QED
    BY <2>1 DEF Free
<1> HIDE DEF Part
<1> QED
  BY <1>1, <1>2

\* A sound generation has a row for every key inside it, and no other.
LEMMA RowsOfKeys ==
  ASSUME NEW img, NEW g, g = NoGen \/ Laid(g), Sound(img, g), IsFiniteSet(Inside(img, g))
  PROVE  /\ IsFiniteSet(Rows(img, g)) /\ Cardinality(Rows(img, g)) = Cardinality(Inside(img, g))
         /\ \A r \in Rows(img, g) : r[1] \in PagesOf(g) /\ r[3] \in Inside(img, g)
         /\ \A r, q \in Rows(img, g) : r[3] = q[3] => r = q
<1> DEFINE R == Rows(img, g)
           K == Inside(img, g)
           f == [r \in R |-> r[3]]
<1>1. ASSUME NEW r \in R
      PROVE  \E p \in PagesOf(g) : \E i \in Room(g, p) :
               Cell(img, g, p)[i] # NoKey /\ r = <<p, i, Cell(img, g, p)[i]>>
  BY RowsAreCells
<1>2. ASSUME NEW r \in R
      PROVE  r[1] \in PagesOf(g) /\ r[3] \in K
  <2>1. PICK p \in PagesOf(g) : \E i \in Room(g, p) :
               Cell(img, g, p)[i] # NoKey /\ r = <<p, i, Cell(img, g, p)[i]>>
    BY <1>1
  <2>2. PICK i \in Room(g, p) : Cell(img, g, p)[i] # NoKey /\ r = <<p, i, Cell(img, g, p)[i]>>
    BY <2>1
  <2>3. Cell(img, g, p)[i] \in Key
    BY <2>2 DEF Sound, Row
  <2> QED
    BY <2>2, <2>3 DEF Inside
<1>3. ASSUME NEW r \in R, NEW q \in R, r[3] = q[3]
      PROVE  r = q
  <2>1. PICK p \in PagesOf(g) : \E i \in Room(g, p) :
               Cell(img, g, p)[i] # NoKey /\ r = <<p, i, Cell(img, g, p)[i]>>
    BY <1>1
  <2>2. PICK i \in Room(g, p) : Cell(img, g, p)[i] # NoKey /\ r = <<p, i, Cell(img, g, p)[i]>>
    BY <2>1
  <2>3. PICK o \in PagesOf(g) : \E j \in Room(g, o) :
               Cell(img, g, o)[j] # NoKey /\ q = <<o, j, Cell(img, g, o)[j]>>
    BY <1>1
  <2>4. PICK j \in Room(g, o) : Cell(img, g, o)[j] # NoKey /\ q = <<o, j, Cell(img, g, o)[j]>>
    BY <2>3
  <2>5. Cell(img, g, p)[i] = Cell(img, g, o)[j]
    BY <1>3, <2>2, <2>4
  <2>6. p = o /\ i = j
    BY <2>2, <2>5 DEF Sound
  <2> QED
    BY <2>2, <2>4, <2>6
<1>4. ASSUME NEW k \in K
      PROVE  \E r \in R : r[3] = k
  <2>1. PICK p \in PagesOf(g) : \E i \in Room(g, p) : Cell(img, g, p)[i] = k
    BY DEF Inside
  <2>2. PICK i \in Room(g, p) : Cell(img, g, p)[i] = k
    BY <2>1
  <2>3. k # NoKey
    BY NoKeyAssumption DEF Inside
  <2>4. <<p, i, Cell(img, g, p)[i]>> \in R
    BY <2>2, <2>3, RowsAreCells
  <2> QED
    BY <2>2, <2>4
<1> HIDE DEF R, K
<1> DEFINE h == [k \in K |-> CHOOSE r \in R : r[3] = k]
<1>5. \A k \in K : h[k] \in R /\ h[k][3] = k
  BY <1>4
<1>6. h \in Bijection(K, R)
  <2>1. h \in [K -> R]
    BY <1>5
  <2>2. \A a, b \in K : h[a] = h[b] => a = b
    BY <1>5
  <2>3. \A r \in R : \E k \in K : h[k] = r
    <3> SUFFICES ASSUME NEW r \in R PROVE h[r[3]] = r /\ r[3] \in K
      OBVIOUS
    <3>1. r[3] \in K
      BY <1>2
    <3> HIDE DEF h
    <3>2. h[r[3]] \in R /\ h[r[3]][3] = r[3]
      BY <1>5, <3>1
    <3> QED
      BY <1>3, <3>1, <3>2
  <2> HIDE DEF h
  <2> QED
    BY <2>1, <2>2, <2>3 DEF Bijection, Injection, Surjection, IsInjective
<1>7. ExistsBijection(K, R) /\ IsFiniteSet(K)
  BY <1>6 DEF ExistsBijection, K
<1>8. IsFiniteSet(R) /\ Cardinality(R) = Cardinality(K)
  BY <1>7, FS_Bijection
<1> QED
  BY <1>2, <1>3, <1>8 DEF R, K

\* A table at rest passes audit().
LEMMA TableIsAudited ==
  ASSUME NEW view, TableInv(view.pages, view.meta)
  PROVE  Audited(view)
<1> DEFINE m   == view.meta
           img == view.pages
           cur == Rows(img, m.cur)
           old == Rows(img, m.old)
<1>1. /\ Formed(m) /\ Laid(m.cur) /\ (m.old = NoGen \/ Laid(m.old))
      /\ Sound(img, m.cur) /\ Sound(img, m.old) /\ Counts(img, m)
      /\ m.cur.rows \in Nat /\ m.old.rows \in Nat /\ m.live = m.cur.rows + m.old.rows
  BY DEF TableInv, TableOK, Formed, Metas, Gens
<1>2. /\ IsFiniteSet(cur) /\ Cardinality(cur) = m.cur.rows
      /\ \A r \in cur : r[1] \in PagesOf(m.cur) /\ r[3] \in Inside(img, m.cur)
      /\ \A r, q \in cur : r[3] = q[3] => r = q
  BY <1>1, RowsOfKeys DEF Counts
<1>3. /\ IsFiniteSet(old) /\ Cardinality(old) = m.old.rows
      /\ \A r \in old : r[1] \in PagesOf(m.old) /\ r[3] \in Inside(img, m.old)
      /\ \A r, q \in old : r[3] = q[3] => r = q
  BY <1>1, RowsOfKeys DEF Counts
<1>4. Inside(img, m.cur) \cap Inside(img, m.old) = {}
  BY <1>1 DEF Counts
<1> HIDE DEF cur, old
<1>5. cur \cap old = {} /\ \A r, q \in cur \cup old : r[3] = q[3] => r = q
  BY <1>2, <1>3, <1>4
<1>6. Cardinality(cur \cup old) = m.live
  <2>1. Cardinality(cur \cup old) = Cardinality(cur) + Cardinality(old) - Cardinality(cur \cap old)
    BY <1>2, <1>3, FS_Union
  <2>2. Cardinality(cur \cap old) = 0
    BY <1>5, FS_EmptySet
  <2> QED
    BY <1>1, <1>2, <1>3, <2>1, <2>2
<1> QED
  BY <1>2, <1>3, <1>5, <1>6 DEF Audited, cur, old

-----------------------------------------------------------------------------
(* What the store holds *)

Shown  == Kept(Visible.pages, Visible.meta)
Stored == Kept(Durable.pages, Durable.meta)

\* The table a reader sees is at rest between two superblocks, and so is the
\* one a power loss brings back; the transaction in flight is the plan of the
\* running insert(); and the store holds the keys it acknowledged, and at most
\* the one whose insert() is running or was cut short.
StoreInv ==
  /\ OwedInv
  /\ TableInv(Visible.pages, Visible.meta)
  /\ call \in Key \cup {NoKey} /\ acked \subseteq Key
  /\ call # NoKey => owed \in {NoKey, call}
  /\ acked \subseteq Shown /\ Shown \subseteq acked \cup {call, owed}
  /\ tx.phase \in {"writing", "synced"} =>
       /\ PlanNow(call).outcome = "commit"
       /\ PlanNow(call).meta.nextPage - 1 \in Page
       /\ tx.changes = PlanNow(call).changes /\ tx.meta = PlanNow(call).meta
  /\ tx.phase = "published" => call \in Shown
  /\ "power" \in Faults /\ tx.phase = "published" /\ dsuper # super =>
       /\ TableInv(Durable.pages, Durable.meta)
       /\ acked \subseteq Stored /\ Stored \subseteq acked \cup {call, owed}

\* lookup() answers for what the table holds.
LEMMA FoundIsKept ==
  ASSUME NEW img, NEW m, TableInv(img, m)
  PROVE  {k \in Key : Found(img, m, k)} = Kept(img, m)
<1>1. Laid(m.cur) /\ (m.old = NoGen \/ Laid(m.old)) /\ Sound(img, m.cur) /\ Sound(img, m.old)
  BY DEF TableInv, TableOK, Formed
<1> QED
  BY <1>1, HoldsIsInside DEF Found, Kept, Inside

\* Before a superblock is written over it, and after it is synced, the device
\* holds what a reader sees.
LEMMA DeviceFollows ==
  ASSUME PagesInv, "power" \in Faults, tx.phase = "published" => dsuper = super
  PROVE  Durable = Visible
<1>1. CASE tx.phase = "published"
  BY <1>1 DEF PagesInv, DeviceOK, Durable, Visible
<1> QED
  BY <1>1, DeviceShowsVisible

LEMMA InitStores == Init => StoreInv
<1> SUFFICES ASSUME Init PROVE StoreInv
  OBVIOUS
<1>1. OwedInv
  <2>1. PagesInv /\ tx = NoTx /\ dsuper = super
    BY InitPages DEF Init, PagesInit
  <2>2. Stale = {}
    BY DEF Init, PagesInit, Stale, Epoch, ActiveSlot, Absent, Slot
  <2> QED
    BY <2>1, <2>2 DEF Init, OwedInv, NoTx
<1>2. Visible.pages = [p \in Page |-> Blank] /\ Visible.meta = FirstMeta
  BY InitMetaAssumption DEF Init, PagesInit, Visible, Image, MetaOf, Epoch, ActiveSlot, Slot,
     ReadPage, HasCommitted, Committed, Absent
<1>3. TableInv(Visible.pages, Visible.meta) /\ Shown = {}
  BY <1>2, FirstTable DEF Shown
<1>4. call = NoKey /\ owed = NoKey /\ acked = {} /\ tx.phase = "idle"
  BY DEF Init, PagesInit, NoTx
<1> QED
  BY <1>1, <1>3, <1>4 DEF StoreInv

\* The start of insert(k) changes nothing a reader sees.
LEMMA InsertStores ==
  ASSUME StoreInv, RetryFirst, NEW k \in Key, Insert(k)
  PROVE  StoreInv'
<1>1. OwedInv'
  BY InsertKeeps DEF StoreInv
<1>2. /\ BeginTx(PlanNow(k).changes, PlanNow(k).meta) /\ call' = k /\ UNCHANGED <<owed, acked>>
      /\ PlanNow(k).outcome = "commit" /\ PlanNow(k).meta.nextPage - 1 \in Page
      /\ tx.phase = "idle" /\ owed \in {NoKey, k}
  BY DEF Insert, CallerInserts
<1>3. /\ Visible' = Visible /\ tx'.phase = "writing"
      /\ tx'.changes = PlanNow(k).changes /\ tx'.meta = PlanNow(k).meta
  BY <1>2 DEF BeginTx, Visible, Image, MetaOf, Epoch, ActiveSlot
<1>4. call = NoKey
  BY <1>2 DEF StoreInv, OwedInv
<1>5. PlanNow(call)' = PlanNow(k) /\ Shown' = Shown
  BY <1>2, <1>3 DEF PlanNow, Shown
<1>6. TableInv(Visible.pages, Visible.meta)'
  BY <1>3 DEF StoreInv
<1>7. call' \in Key /\ acked' \subseteq Key /\ owed' \in {NoKey, call'}
  BY <1>2 DEF StoreInv
<1>8. acked' \subseteq Shown' /\ Shown' \subseteq acked' \cup {call', owed'}
  <2>1. NoKey \notin Shown
    BY NoKeyAssumption DEF Shown, Kept, Inside
  <2> QED
    BY <1>2, <1>4, <1>5, <2>1 DEF StoreInv
<1> QED
  BY <1>1, <1>2, <1>3, <1>5, <1>6, <1>7, <1>8 DEF StoreInv

\* insert() of a stored key acknowledges a key that is there.
LEMMA DuplicateStores ==
  ASSUME StoreInv, RetryFirst, NEW k \in Key, InsertDuplicate(k)
  PROVE  StoreInv'
<1>1. OwedInv'
  BY DuplicateKeeps DEF StoreInv
<1>2. /\ UNCHANGED <<super, copies, dsuper, dcopies, tx, call>>
      /\ owed' = IF owed = k THEN NoKey ELSE owed
      /\ acked' = acked \cup {k} /\ PlanNow(k).outcome = "duplicate" /\ tx.phase = "idle"
  BY DEF InsertDuplicate, CallerInserts
<1>3. Visible' = Visible
  BY <1>2 DEF Visible, Image, MetaOf, Epoch, ActiveSlot
<1>4. k \in Shown
  BY <1>2, PlanKeeps DEF StoreInv, PlanNow, Shown
<1>5. call = NoKey
  BY <1>2 DEF StoreInv, OwedInv
<1> QED
  BY <1>1, <1>2, <1>3, <1>4, <1>5 DEF StoreInv, Shown

\* Page writes, the first fsync and a write-back of a page change nothing a
\* reader sees.
LEMMA WritingStores ==
  ASSUME StoreInv, (\E p \in Page : WritePage(p)) \/ SyncData \/ Writeback,
         UNCHANGED <<call, owed, acked>>
  PROVE  StoreInv'
<1>1. OwedInv'
  BY WritingKeeps, PublishedWritebackKeeps DEF StoreInv, WritePage, SyncData
<1>2. Visible' = Visible
  BY OtherStepsAreInvisible DEF StoreInv, OwedInv
<1>3. CASE (\E p \in Page : WritePage(p)) \/ SyncData
  <2>1. /\ tx.phase = "writing" /\ tx'.phase \in {"writing", "synced"}
        /\ tx'.changes = tx.changes /\ tx'.meta = tx.meta
    BY <1>3 DEF StoreInv, OwedInv, PagesInv, TxOK, WritePage, SyncData
  <2> QED
    BY <1>1, <1>2, <2>1 DEF StoreInv, Shown, PlanNow
<1>4. CASE Writeback
  <2>1. UNCHANGED <<super, copies, tx>>
    BY <1>4 DEF Writeback
  <2>2. "power" \in Faults /\ tx.phase = "published" /\ dsuper' # super =>
          Durable' = Durable /\ dsuper # super
    <3>1. SUFFICES ASSUME "power" \in Faults, tx.phase = "published", dsuper' # super
                   PROVE  UNCHANGED <<dsuper, dcopies>>
      BY DEF Durable, Image, MetaOf, Epoch, ActiveSlot
    <3>2. dcopies = copies
      BY <3>1 DEF StoreInv, OwedInv, PagesInv, DeviceOK
    <3> QED
      BY <1>4, <3>1, <3>2 DEF Writeback
  <2> QED
    BY <1>1, <1>2, <2>1, <2>2 DEF StoreInv, Shown, Stored, PlanNow
<1> QED
  BY <1>3, <1>4

\* The superblock makes the running insert() visible, and it alone.
LEMMA PublishStores ==
  ASSUME StoreInv, WriteSuper, UNCHANGED <<call, owed, acked>>
  PROVE  StoreInv'
<1>1. OwedInv'
  BY PublishKeeps DEF StoreInv
<1>2. /\ Visible' = [pages |-> Overlay(Visible.pages, tx.changes), meta |-> tx.meta]
      /\ tx.phase = "synced" /\ tx'.phase = "published"
  BY WriteSuperKeeps DEF StoreInv, OwedInv, WriteSuper, PagesInv, TxOK
<1>3. call \in Key
  BY <1>2 DEF StoreInv, OwedInv
<1>4. /\ PlanNow(call).outcome = "commit" /\ PlanNow(call).meta.nextPage - 1 \in Page
      /\ tx.changes = PlanNow(call).changes /\ tx.meta = PlanNow(call).meta
      /\ TableInv(Visible.pages, Visible.meta)
  BY <1>2 DEF StoreInv
<1>5. Inserts(Visible.pages, Visible.meta, call, Applied(Visible.pages, tx.changes), tx.meta)
  BY <1>3, <1>4, PlanKeeps DEF PlanNow
<1>6. Visible'.pages = Applied(Visible.pages, tx.changes) /\ Visible'.meta = tx.meta
  BY <1>2 DEF Overlay, Applied
<1>7. TableInv(Visible.pages, Visible.meta)' /\ Shown' = With(Shown, call)
  BY <1>5, <1>6 DEF Inserts, Shown
<1>8. ASSUME "power" \in Faults
      PROVE  Durable' = Durable /\ Durable = Visible
  <2>1. Durable' = Durable
    BY DEF WriteSuper, Durable, Image, MetaOf, Epoch, ActiveSlot
  <2> QED
    BY <1>2, <1>8, <2>1, DeviceFollows DEF StoreInv, OwedInv
<1>9. "power" \in Faults => /\ TableInv(Durable.pages, Durable.meta)' /\ Stored' = Shown
  BY <1>4, <1>8 DEF Stored, Shown
<1> QED
  BY <1>1, <1>2, <1>3, <1>7, <1>9 DEF StoreInv, With

\* insert() returns: its key is there.
LEMMA ReturnStores ==
  ASSUME StoreInv, Return
  PROVE  StoreInv'
<1>1. OwedInv' /\ Visible' = Visible
  BY ReturnKeeps, OtherStepsAreInvisible DEF StoreInv, OwedInv, Return
<1>2. /\ tx.phase = "published" /\ tx' = NoTx /\ acked' = acked \cup {call} /\ call' = NoKey
      /\ owed' = IF owed = call THEN NoKey ELSE owed
  BY DEF Return, SyncSuper
<1>3. call \in Key
  BY <1>2 DEF StoreInv, OwedInv
<1> QED
  BY <1>1, <1>2, <1>3 DEF StoreInv, Shown, NoTx

\* A fault shows a reader what it saw, or what the device held; the insert()
\* it cut short may have reached either.
LEMMA FaultStores ==
  ASSUME StoreInv, SingleFault, Fault
  PROVE  StoreInv'
<1>1. OwedInv'
  BY KilledKeeps, PowerKeeps DEF StoreInv, Fault
<1>2. /\ tx' = NoTx /\ call' = NoKey /\ acked' = acked
      /\ owed' = IF call = NoKey THEN owed ELSE call
  BY DEF Fault, ProcessCrash, PowerLoss
<1>3. Visible' = Visible \/ (Visible' = Durable /\ "power" \in Faults)
  BY OtherStepsAreInvisible, PowerLossKeeps DEF StoreInv, OwedInv, Fault, PowerLoss
<1>4. /\ TableInv(Visible.pages, Visible.meta)'
      /\ acked \subseteq Shown' /\ Shown' \subseteq acked \cup {call, owed}
  <2>1. CASE Visible' = Visible
    BY <2>1 DEF StoreInv, Shown
  <2>2. CASE Visible' = Durable /\ "power" \in Faults /\ Durable # Visible
    <3>1. tx.phase = "published" /\ dsuper # super
      BY <2>2, DeviceFollows DEF StoreInv, OwedInv
    <3> QED
      BY <2>2, <3>1 DEF StoreInv, Shown, Stored
  <2> QED
    BY <1>3, <2>1, <2>2
<1> QED
  BY <1>1, <1>2, <1>4 DEF StoreInv, NoTx

LEMMA StoreStep ==
  ASSUME RetryFirst, SingleFault
  PROVE  StoreInv /\ [Next]_vars => StoreInv'
<1> SUFFICES ASSUME StoreInv, [Next]_vars PROVE StoreInv'
  OBVIOUS
<1>1. ASSUME NEW k \in Key, Insert(k) \/ InsertDuplicate(k) PROVE StoreInv'
  BY <1>1, InsertStores, DuplicateStores
<1>2. CASE Advance
  BY <1>2, WritingStores, PublishStores DEF Advance
<1>3. CASE Return
  BY <1>3, ReturnStores
<1>4. CASE Fault
  BY <1>4, FaultStores
<1>5. CASE UNCHANGED vars
  <2>0. OwedInv
    BY DEF StoreInv
  <2>1. OwedInv'
    BY <1>5, <2>0, OwedStutters
  <2>2. UNCHANGED <<Visible, Durable, super, dsuper, tx, call, owed, acked>>
    BY <1>5 DEF vars, Visible, Durable, Image, MetaOf, Epoch, ActiveSlot
  <2>3. UNCHANGED <<Shown, Stored>> /\ PlanNow(call)' = PlanNow(call)
    BY <2>2 DEF Shown, Stored, PlanNow
  <2> QED
    BY <2>1, <2>2, <2>3 DEF StoreInv
<1> QED
  BY <1>1, <1>2, <1>3, <1>4, <1>5 DEF Next

\* StoreInv is inductive.
THEOREM StoreInvariance ==
  ASSUME RetryFirst, SingleFault
  PROVE  Spec => []StoreInv
<1>1. StoreInv /\ [Next]_vars => StoreInv'
  BY StoreStep
<1> QED
  BY <1>1, InitStores, PTL DEF Spec

\* Every state a crash can expose passes audit(): no key is stored twice, and
\* the counters of the superblock are the rows of either generation.
THEOREM StoreAlwaysAudits ==
  ASSUME RetryFirst, SingleFault
  PROVE  Spec => []AuditValid
<1>1. StoreInv => AuditValid
  BY TableIsAudited DEF StoreInv, AuditValid
<1> QED
  BY <1>1, StoreInvariance, PTL

\* The store answers exactly for the keys it acknowledged, and for at most the
\* one whose insert() is running or was cut short.
THEOREM StoreIsExact ==
  ASSUME RetryFirst, SingleFault
  PROVE  Spec => []MembershipIsExact
<1>1. StoreInv => MembershipIsExact
  BY FoundIsKept DEF StoreInv, MembershipIsExact, Members, Shown
<1> QED
  BY <1>1, StoreInvariance, PTL

-----------------------------------------------------------------------------
(* Migration *)

PacedInv ==
  /\ StoreInv
  /\ PaceInv(Visible.meta)
  /\ "power" \in Faults /\ tx.phase = "published" /\ dsuper # super => PaceInv(Durable.meta)

\* What the transaction commits is in step.
LEMMA PublishPaces ==
  ASSUME BudgetOutrunsLoad, PacedInv, WriteSuper, UNCHANGED <<call, owed, acked>>
  PROVE  PacedInv'
<1>1. StoreInv'
  BY PublishStores DEF PacedInv
<1>2. /\ Visible'.meta = tx.meta /\ tx.phase = "synced" /\ call \in Key
      /\ PlanNow(call).outcome = "commit" /\ PlanNow(call).meta.nextPage - 1 \in Page
      /\ tx.meta = PlanNow(call).meta /\ TableInv(Visible.pages, Visible.meta)
  BY WriteSuperKeeps DEF PacedInv, StoreInv, OwedInv, WriteSuper
<1>3. PaceInv(tx.meta)
  BY <1>2, PlanPaces DEF PacedInv, PlanNow
<1>4. PaceInv(Visible.meta)'
  BY <1>2, <1>3 DEF PaceInv
<1>5. ASSUME "power" \in Faults
      PROVE  Durable' = Visible
  <2>1. Durable' = Durable
    BY DEF WriteSuper, Durable, Image, MetaOf, Epoch, ActiveSlot
  <2> QED
    BY <1>2, <1>5, <2>1, DeviceFollows DEF PacedInv, StoreInv, OwedInv
<1> QED
  BY <1>1, <1>4, <1>5 DEF PacedInv

\* Every other step shows the metadata it found, or what the device held.
LEMMA OthersPace ==
  ASSUME PacedInv, RetryFirst, SingleFault, Next, ~WriteSuper, StoreInv'
  PROVE  PacedInv'
<1> USE DEF PacedInv, StoreInv, OwedInv
<1>1. CASE \E k \in Key : Insert(k) \/ InsertDuplicate(k)
  <2>1. UNCHANGED <<super, copies>> /\ tx'.phase # "published"
    BY <1>1 DEF Insert, InsertDuplicate, BeginTx, CallerInserts
  <2> QED
    BY <2>1 DEF Visible, Image, MetaOf, Epoch, ActiveSlot
<1>2. CASE (\E p \in Page : WritePage(p)) \/ SyncData
  <2>1. Visible' = Visible /\ tx'.phase # "published"
    BY <1>2, OtherStepsAreInvisible DEF PagesInv, TxOK, WritePage, SyncData
  <2> QED
    BY <2>1
<1>3. CASE Writeback
  <2>1. Visible' = Visible /\ UNCHANGED <<super, copies, tx>>
    BY <1>3, OtherStepsAreInvisible DEF Writeback
  <2>2. "power" \in Faults /\ tx.phase = "published" /\ dsuper' # super =>
          UNCHANGED <<dsuper, dcopies>>
    BY <1>3 DEF PagesInv, DeviceOK, Writeback
  <2> QED
    BY <2>1, <2>2 DEF Durable, Image, MetaOf, Epoch, ActiveSlot
<1>4. CASE Return
  <2>1. Visible' = Visible /\ tx'.phase # "published"
    BY <1>4, OtherStepsAreInvisible DEF Return, SyncSuper, NoTx
  <2> QED
    BY <2>1
<1>5. CASE Fault
  <2>1. tx'.phase # "published" /\ (Visible' = Visible \/ (Visible' = Durable /\ "power" \in Faults))
    BY <1>5, OtherStepsAreInvisible, PowerLossKeeps DEF Fault, ProcessCrash, PowerLoss, NoTx
  <2>2. Visible' = Durable /\ "power" \in Faults /\ Durable # Visible =>
          tx.phase = "published" /\ dsuper # super
    BY DeviceFollows
  <2> QED
    BY <2>1, <2>2
<1> QED
  BY <1>1, <1>2, <1>3, <1>4, <1>5 DEF Next, Advance

\* PacedInv is inductive.
THEOREM PacedInvariance ==
  ASSUME RetryFirst, SingleFault, BudgetOutrunsLoad
  PROVE  Spec => []PacedInv
<1>1. Init => PacedInv
  <2> SUFFICES ASSUME Init PROVE PacedInv
    OBVIOUS
  <2>1. StoreInv /\ tx.phase = "idle"
    BY InitStores DEF Init, PagesInit, NoTx
  <2>2. Visible.meta = FirstMeta
    BY InitMetaAssumption DEF Init, PagesInit, Visible, MetaOf, ActiveSlot, Slot
  <2>3. PaceInv(FirstMeta)
    <3>1. InitialCapacity \in Nat /\ Threshold(InitialCapacity) \in Nat
      BY CapacityAssumption, ThresholdIsNat
    <3> QED
      BY <3>1 DEF PaceInv, FirstMeta
  <2> QED
    BY <2>1, <2>2, <2>3 DEF PacedInv
<1>2. StoreInv /\ [Next]_vars => StoreInv'
  BY StoreStep
<1>3. PacedInv /\ StoreInv' /\ [Next]_vars => PacedInv'
  <2> SUFFICES ASSUME PacedInv, StoreInv', [Next]_vars PROVE PacedInv'
    OBVIOUS
  <2>1. CASE Next /\ WriteSuper
    <3>1. UNCHANGED <<call, owed, acked>>
      <4>1. tx.phase = "synced" /\ tx'.phase = "published"
        BY <2>1 DEF WriteSuper, PacedInv, StoreInv, OwedInv, PagesInv, TxOK
      <4> QED
        BY <2>1, <4>1 DEF Next, Advance, Insert, InsertDuplicate, CallerInserts, Return,
           SyncSuper, Fault, ProcessCrash, PowerLoss, NoTx
    <3> QED
      BY <2>1, <3>1, PublishPaces
  <2>2. CASE Next /\ ~WriteSuper
    BY <2>2, OthersPace
  <2>3. CASE UNCHANGED vars
    BY <2>3 DEF vars, PacedInv, Visible, Durable, Image, MetaOf, Epoch, ActiveSlot
  <2> QED
    BY <2>1, <2>2, <2>3
<1>4. StoreInv /\ PacedInv /\ [Next]_vars => PacedInv'
  BY <1>2, <1>3
<1> QED
  BY <1>1, <1>4, PTL DEF Spec, PacedInv

\* A migration never ends over rows it has not moved, and never lets the new
\* generation fill up before it ends: no insertion is refused for good.  The
\* budget must outrun the load, and the file must have room to grow.
THEOREM MigrationPaces ==
  ASSUME RetryFirst, SingleFault, BudgetOutrunsLoad, Page = Nat
  PROVE  Spec => []MigrationKeepsPace
<1>1. PacedInv => MigrationKeepsPace
  <2> SUFFICES ASSUME PacedInv PROVE MigrationKeepsPace
    OBVIOUS
  <2> DEFINE m   == Visible.meta
             img == Visible.pages
  <2>1. TableInv(img, m) /\ PaceInv(m) /\ TableOK(img, m) /\ Formed(m)
    BY DEF PacedInv, StoreInv, TableInv, TableOK
  <2>2. m.old # NoGen => ~Backlog(m)
    BY <2>1, PaceIsKept
  <2>3. ASSUME NEW k \in Key
        PROVE  PlanNow(k).outcome # "broken"
    <3>1. Opened(m).nextPage - 1 \in Page
      <4>1. m.nextPage \in Nat /\ m.nextPage > 0 /\ StartMigration(m).nextPage \in Nat
            /\ m.nextPage <= StartMigration(m).nextPage
        BY <2>1, StartsAbove
      <4> QED
        BY <4>1 DEF Opened
    <3> QED
      BY <2>1, <3>1, PlanKeeps DEF PlanNow
  <2>4. ASSUME NEW r \in Rows(img, m.old),
               IF r[1] = StashPage(m.old) THEN m.old.cap + r[2] < m.cursor
               ELSE (r[1] - m.old.base) * BucketSize + r[2] < m.cursor
        PROVE  FALSE
    <3>1. (m.old = NoGen \/ Laid(m.old)) /\ Sound(img, m.old) /\ SweptTo(img, m.old, m.cursor)
      BY <2>1 DEF Formed, TableOK
    <3>2. PICK p \in PagesOf(m.old) : \E i \in Room(m.old, p) :
             Cell(img, m.old, p)[i] # NoKey /\ r = <<p, i, Cell(img, m.old, p)[i]>>
      BY <3>1, RowsAreCells
    <3>3. PICK i \in Room(m.old, p) :
             Cell(img, m.old, p)[i] # NoKey /\ r = <<p, i, Cell(img, m.old, p)[i]>>
      BY <3>2
    <3>4. m.cursor <= Number(m.old, p, i)
      BY <3>1, <3>3 DEF SweptTo
    <3>5. Number(m.old, p, i) < m.cursor
      BY <2>4, <3>3 DEF Number
    <3>6. Number(m.old, p, i) \in Nat /\ m.cursor \in Nat
      <4>1. m.old # NoGen
        BY <3>2 DEF PagesOf
      <4>2. m.cursor < m.limit
        BY <2>1, <4>1 DEF TableInv
      <4> QED
        BY <2>1, <4>1, <4>2, CursorCell DEF Formed, Metas
    <3> QED
      BY <3>4, <3>5, <3>6
  <2> HIDE DEF m, img
  <2>5. {r \in Rows(img, m.old) : IF r[1] = StashPage(m.old) THEN m.old.cap + r[2] < m.cursor
                  ELSE (r[1] - m.old.base) * BucketSize + r[2] < m.cursor} = {}
    BY <2>4
  <2> QED
    BY <2>2, <2>3, <2>5 DEF MigrationKeepsPace, m, img
<1> QED
  BY <1>1, PacedInvariance, PTL

-----------------------------------------------------------------------------
(* The overflow table beside it (CrossStoreHybrid) *)

\* The device never has a newer superblock than the page cache.
SuperInv ==
  /\ SuperOK(super) /\ SuperOK(dsuper)
  /\ Epoch(dsuper) <= Epoch(super)

\* Once the rows of future epochs are deleted, only the row being admitted is
\* ahead, by one, and only until the superblock is written.
RowInv ==
  /\ SuperInv
  /\ row = [k \in Key |-> row[k]]
  /\ \A k \in Key : row[k] \in Nat
  /\ startup # "recovered" => tx.phase = "idle"
  /\ startup # "unrecovered" => \A k \in Key :
        \/ row[k] <= Epoch(super)
        \/ k = call /\ tx.phase = "synced" /\ row[k] = Epoch(super) + 1

Follows(k) ==
  LET was == RowVisible(k, Epoch(super))
      is  == RowVisible(k, Epoch(super))'
  IN  /\ ~was /\ is => k = call /\ tx.phase = "synced" /\ tx'.phase = "published"
      /\ was /\ ~is => Epoch(super)' = Epoch(dsuper) /\ Epoch(dsuper) < Epoch(super)

-----------------------------------------------------------------------------

LEMMA EpochIsNat ==
  ASSUME NEW sup, SuperOK(sup)
  PROVE  Epoch(sup) \in Nat
BY DEF SuperOK, Slot, Epoch, ActiveSlot

\* Steps that leave the superblock in the page cache alone, let the device
\* keep its own or take that one over, and add no row.
LEMMA QuietKeeps ==
  ASSUME RowInv, super' = super, dsuper' \in {dsuper, super}, row' = row,
         startup' = startup, startup # "recovered" => tx' = tx,
         \/ call' = call /\ tx'.phase = tx.phase
         \/ \A k \in Key : row[k] <= Epoch(super)
  PROVE  RowInv' /\ \A k \in Key : Follows(k)
<1>1. SuperInv'
  BY EpochIsNat DEF RowInv, SuperInv
<1>2. Epoch(super)' = Epoch(super)
  BY DEF Epoch, ActiveSlot
<1> QED
  BY <1>1, <1>2 DEF RowInv, Follows, RowVisible

\* The start of an insertion: a new row is one epoch ahead.
LEMMA AdmitOverflowKeeps ==
  ASSUME RowInv, NEW k \in Key, AdmitOverflow(k)
  PROVE  RowInv' /\ \A j \in Key : Follows(j)
<1>1. /\ startup = "recovered" /\ startup' = startup /\ tx.phase = "idle"
      /\ super' = super /\ dsuper' = dsuper
      /\ call' = k /\ tx'.phase = "synced"
      /\ row' = [row EXCEPT ![k] = Epoch(super) + 1]
  BY DEF AdmitOverflow, MayInsert, CallerInserts, NoTx
<1>2. SuperInv' /\ Epoch(super)' = Epoch(super) /\ Epoch(super) \in Nat
  BY <1>1, EpochIsNat DEF RowInv, SuperInv, Epoch, ActiveSlot
<1>3. \A j \in Key : row[j] <= Epoch(super)
  BY <1>1 DEF RowInv
<1>4. /\ row' = [j \in Key |-> row'[j]]
      /\ \A j \in Key : row'[j] = IF j = k THEN Epoch(super) + 1 ELSE row[j]
  BY <1>1 DEF RowInv
<1>5. RowInv'
  BY <1>1, <1>2, <1>3, <1>4 DEF RowInv
<1>6. row[k] = 0
  BY DEF AdmitOverflow
<1> QED
  BY <1>2, <1>4, <1>5, <1>6 DEF Follows, RowVisible

\* The superblock write makes the row being admitted visible, and no other.
LEMMA PublishFollows ==
  ASSUME RowInv, WriteSuper, UNCHANGED <<call, row, startup>>
  PROVE  RowInv' /\ \A k \in Key : Follows(k)
<1> DEFINE sup2 == [super EXCEPT ![1 - ActiveSlot(super)] =
                      [epoch |-> Epoch(super) + 1, meta |-> tx.meta]]
<1>1. /\ super' = sup2 /\ dsuper' = dsuper
      /\ tx.phase = "synced" /\ tx'.phase = "published" /\ startup = "recovered"
  BY DEF WriteSuper, RowInv, TxOK
<1>2. SuperOK(sup2) /\ Epoch(sup2) = Epoch(super) + 1 /\ Epoch(super) \in Nat
  BY SuperAdvances DEF RowInv, SuperInv
<1>3. Epoch(super)' = Epoch(super) + 1 /\ SuperInv'
  <2>1. Epoch(super)' = Epoch(sup2) /\ Epoch(dsuper)' = Epoch(dsuper) /\ Epoch(dsuper) \in Nat
    BY <1>1, EpochIsNat DEF Epoch, ActiveSlot, RowInv, SuperInv
  <2> QED
    BY <1>1, <1>2, <2>1 DEF RowInv, SuperInv
<1>4. /\ row' = row /\ call' = call /\ startup' = startup
      /\ \A k \in Key : row[k] \in Nat /\ row[k] <= Epoch(super) + 1
      /\ \A k \in Key : row[k] > Epoch(super) => k = call
  BY <1>1, <1>2 DEF RowInv
<1>5. RowInv'
  BY <1>1, <1>2, <1>3, <1>4 DEF RowInv
<1>6. ASSUME NEW k \in Key PROVE Follows(k)
  BY <1>1, <1>2, <1>3, <1>4 DEF Follows, RowVisible
<1> QED
  BY <1>5, <1>6

\* recover()'s DELETE removes rows that are not visible, and leaves none ahead.
LEMMA DeleteFollows ==
  ASSUME RowInv, DeleteFuture
  PROVE  RowInv' /\ \A k \in Key : Follows(k)
<1>1. /\ super' = super /\ dsuper' = dsuper /\ tx' = tx /\ startup' = "deleted"
      /\ startup = "unrecovered"
      /\ row' = [k \in Key |-> IF k \in FutureRows THEN 0 ELSE row[k]]
  BY DEF DeleteFuture
<1>2. SuperInv' /\ Epoch(super)' = Epoch(super) /\ Epoch(super) \in Nat
  BY <1>1, EpochIsNat DEF RowInv, SuperInv, Epoch, ActiveSlot
<1>3. \A k \in Key : row'[k] = IF row[k] > Epoch(super) THEN 0 ELSE row[k]
  BY <1>1 DEF FutureRows
<1>4. RowInv'
  BY <1>1, <1>2, <1>3 DEF RowInv
<1> QED
  BY <1>2, <1>3, <1>4 DEF Follows, RowVisible, RowInv

\* The rest of recover() touches no row.
LEMMA RecoverKeeps ==
  ASSUME RowInv, TruncateTail \/ NoTail \/ SyncTail
  PROVE  RowInv' /\ \A k \in Key : Follows(k)
<1>1. /\ super' = super /\ dsuper' \in {dsuper, super} /\ row' = row /\ tx' = tx /\ call' = call
      /\ startup \in {"deleted", "truncated"}
  BY DEF TruncateTail, NoTail, SyncTail, Fsync
<1>2. SuperInv' /\ Epoch(super)' = Epoch(super)
  BY <1>1, EpochIsNat DEF RowInv, SuperInv, Epoch, ActiveSlot
<1> QED
  BY <1>1, <1>2 DEF RowInv, Follows, RowVisible

\* A fault ends the process; a power loss may take the superblock back.
LEMMA FaultFollows ==
  ASSUME RowInv, HybridFault, "error" \notin Faults
  PROVE  RowInv' /\ \A k \in Key : Follows(k)
<1>1. startup' = "unrecovered" /\ row' = row /\ (Killed \/ Unpowered)
  BY DEF HybridFault, Raised
<1>2. CASE Killed
  <2>1. super' = super /\ dsuper' = dsuper /\ tx'.phase = "idle"
    BY <1>2 DEF Killed, ProcessCrash, NoTx
  <2>2. SuperInv' /\ Epoch(super)' = Epoch(super)
    BY <2>1 DEF RowInv, SuperInv, Epoch, ActiveSlot
  <2> QED
    BY <1>1, <2>1, <2>2 DEF RowInv, Follows, RowVisible
<1>3. CASE Unpowered
  <2>1. super' = dsuper /\ dsuper' = dsuper /\ tx'.phase = "idle"
    BY <1>3 DEF Unpowered, PowerLoss, NoTx
  <2>2. Epoch(super)' = Epoch(dsuper) /\ Epoch(dsuper)' = Epoch(dsuper)
    BY <2>1 DEF Epoch, ActiveSlot
  <2>3. Epoch(super) \in Nat /\ Epoch(dsuper) \in Nat /\ Epoch(dsuper) <= Epoch(super)
    BY EpochIsNat DEF RowInv, SuperInv
  <2>4. SuperInv'
    BY <2>1, <2>2, <2>3 DEF RowInv, SuperInv
  <2> QED
    BY <1>1, <2>1, <2>2, <2>3, <2>4 DEF RowInv, Follows, RowVisible
<1> QED
  BY <1>1, <1>2, <1>3

-----------------------------------------------------------------------------

\* The other steps of an insertion, its answers, and what reaches the device.
LEMMA OtherStepsKeep ==
  ASSUME RowInv,
         \/ \E k \in Key : AdmitPrimary(k) \/ DuplicatePrimary(k) \/ DuplicateOverflow(k)
         \/ Carry /\ ~WriteSuper
         \/ Finish
         \/ Flush
         \/ UNCHANGED hybridVars
  PROVE  RowInv' /\ \A k \in Key : Follows(k)
<1>1. ASSUME NEW k \in Key, AdmitPrimary(k) PROVE RowInv' /\ \A j \in Key : Follows(j)
  <2>1. /\ tx.phase = "idle" /\ startup = "recovered"
        /\ UNCHANGED <<super, dsuper, row, startup>>
    BY <1>1 DEF AdmitPrimary, MayInsert, CallerInserts, Insert, BeginTx
  <2>2. \A j \in Key : row[j] <= Epoch(super)
    BY <2>1 DEF RowInv
  <2> QED
    BY <2>1, <2>2, QuietKeeps
<1>2. ASSUME NEW k \in Key, DuplicatePrimary(k) \/ DuplicateOverflow(k)
      PROVE  RowInv' /\ \A j \in Key : Follows(j)
  <2>1. UNCHANGED <<super, dsuper, row, startup, tx, call>>
    BY <1>2 DEF DuplicatePrimary, DuplicateOverflow, InsertDuplicate, storeVars
  <2> QED
    BY <2>1, QuietKeeps
<1>3. ASSUME NEW p \in Page, WritePage(p), UNCHANGED <<call, row, startup>>
      PROVE  RowInv' /\ \A j \in Key : Follows(j)
  <2>1. super' = super /\ dsuper' = dsuper /\ tx.phase = "writing"
    BY <1>3 DEF WritePage
  <2>2. startup = "recovered" /\ \A j \in Key : row[j] <= Epoch(super)
    BY <2>1 DEF RowInv
  <2> QED
    BY <1>3, <2>1, <2>2, QuietKeeps
<1>4. ASSUME SyncData, UNCHANGED <<call, row, startup>>
      PROVE  RowInv' /\ \A j \in Key : Follows(j)
  <2>1. super' = super /\ dsuper' = super /\ tx.phase = "writing"
    BY <1>4 DEF SyncData, Fsync
  <2>2. startup = "recovered" /\ \A j \in Key : row[j] <= Epoch(super)
    BY <2>1 DEF RowInv
  <2> QED
    BY <1>4, <2>1, <2>2, QuietKeeps
<1>5. CASE Finish
  <2>1. super' = super /\ dsuper' = super /\ tx.phase = "published" /\ row' = row
        /\ startup' = startup
    BY <1>5 DEF Finish, Return, SyncSuper, Fsync
  <2>2. startup = "recovered" /\ \A j \in Key : row[j] <= Epoch(super)
    BY <2>1 DEF RowInv
  <2> QED
    BY <2>1, <2>2, QuietKeeps
<1>6. CASE Flush
  <2>1. UNCHANGED <<super, tx, call, row, startup>> /\ dsuper' \in {dsuper, super}
    BY <1>6 DEF Flush, Writeback
  <2> QED
    BY <2>1, QuietKeeps
<1>7. CASE UNCHANGED hybridVars
  BY <1>7, QuietKeeps DEF hybridVars
<1> QED
  BY <1>1, <1>2, <1>3, <1>4, <1>5, <1>6, <1>7 DEF Carry

LEMMA StepFollows ==
  ASSUME RowInv, [HybridNext]_hybridVars, "error" \notin Faults
  PROVE  RowInv' /\ \A k \in Key : Follows(k)
<1>1. ASSUME NEW k \in Key, AdmitOverflow(k) PROVE RowInv' /\ \A j \in Key : Follows(j)
  BY <1>1, AdmitOverflowKeeps
<1>2. CASE Carry /\ WriteSuper
  BY <1>2, PublishFollows DEF Carry
<1>3. CASE Recover
  BY <1>3, DeleteFollows, RecoverKeeps DEF Recover
<1>4. CASE HybridFault
  BY <1>4, FaultFollows
<1> QED
  BY <1>1, <1>2, <1>3, <1>4, OtherStepsKeep DEF HybridNext

\* RowInv is inductive: no row of a future epoch outlives recover(), whoever
\* inserts next and whichever faults, of process or power, come in between.
THEOREM RowInvariance ==
  ASSUME "error" \notin Faults
  PROVE  HybridSpec => []RowInv
<1>1. HybridInit => RowInv
  <2> SUFFICES ASSUME HybridInit PROVE RowInv
    OBVIOUS
  <2>1. PagesInv /\ dsuper = super /\ tx.phase = "idle"
    BY InitPages DEF HybridInit, Init, PagesInit, NoTx
  <2>2. SuperInv
    BY <2>1, EpochIsNat DEF PagesInv, SuperInv
  <2>3. Epoch(super) \in Nat
    BY <2>2, EpochIsNat DEF SuperInv
  <2> QED
    BY <2>1, <2>2, <2>3 DEF HybridInit, RowInv
<1> QED
  BY <1>1, StepFollows, PTL DEF HybridSpec

\* A row of the overflow table appears only by its own admission, and
\* disappears only with a superblock that a power loss takes back.
THEOREM CoordinatorDecides ==
  ASSUME "error" \notin Faults
  PROVE  HybridSpec => RowsFollowCoordinator
<1> DEFINE A == \A k \in Key :
              LET was == RowVisible(k, Epoch(super))
                  is  == RowVisible(k, Epoch(super))'
              IN  /\ ~was /\ is => k = call /\ tx.phase = "synced" /\ tx'.phase = "published"
                  /\ was /\ ~is => Epoch(super)' = Epoch(dsuper) /\ Epoch(dsuper) < Epoch(super)
<1>1. RowInv /\ [HybridNext]_hybridVars => [A]_hybridVars
  BY StepFollows DEF Follows
<1> QED
  BY <1>1, RowInvariance, PTL DEF HybridSpec, RowsFollowCoordinator

-----------------------------------------------------------------------------
(* What the two stores hold *)

Empty == [s \in Slot |-> Absent]

\* No committed copy lies beyond the last page of the metadata.
Fresh(cps, e, n)    == \A p \in Page : p >= n => ~HasCommitted(cps[p], e)
EmptyFrom(cps, n)   == \A p \in Page : p >= n => cps[p] = Empty
RowsUpTo(e)         == {k \in Key : RowVisible(k, e)}
OwedPages           == IF owed = NoKey THEN {} ELSE Planned(Visible, owed)

\* Between recover()'s ftruncate and its fsync the device still has the tail.
CutInv ==
  /\ SuperOK(super) /\ SuperOK(dsuper)
  /\ CopiesOK(copies, Epoch(super)) /\ CopiesOK(dcopies, Epoch(dsuper))
  /\ TxOK /\ WrittenOK
  /\ tx.phase = "idle" /\ call = NoKey
  /\ Stale \subseteq OwedPages
  /\ "power" \in Faults => /\ dsuper = super /\ DeviceStale \subseteq OwedPages
                           /\ \A p \in Page : p < Frontier => dcopies[p] = copies[p]
                           /\ EmptyFrom(copies, Frontier)
                           /\ Fresh(dcopies, Epoch(dsuper), Frontier)

\* The transaction in flight is the primary's plan, or adds a row one epoch
\* ahead and counts it.
TxInv ==
  LET plan == PlanNow(call)
  IN  tx.phase \in {"writing", "synced"} =>
        /\ tx.changes = plan.changes
        /\ \/ /\ plan.outcome = "commit" /\ plan.meta.nextPage - 1 \in Page
              /\ tx.meta = plan.meta /\ row[call] <= Epoch(super)
           \/ /\ tx.phase = "synced" /\ plan.outcome = "refused"
              /\ row[call] = Epoch(super) + 1
              /\ tx.meta = [Visible.meta EXCEPT !.overflow = @ + 1]

\* The length of the file: no page beyond it holds anything, and what is
\* committed, or is to be, fits.
LenInv ==
  /\ len \in Nat /\ dlen \in Nat
  /\ EmptyFrom(copies, len) /\ EmptyFrom(dcopies, dlen)
  /\ Visible.meta.nextPage <= len
  /\ Durable.meta.nextPage <= len /\ Durable.meta.nextPage <= dlen
  /\ tx.phase \in {"writing", "synced"} => tx.meta.nextPage <= len
  /\ tx.phase = "synced" => tx.meta.nextPage <= dlen
  /\ tx.phase = "published" => Visible.meta.nextPage <= dlen
  /\ tx.phase = "idle" /\ startup = "recovered" => EmptyFrom(copies, Frontier)

\* A superblock written and not yet synced: what a power loss would show.
LossInv ==
  tx.phase = "published" /\ dsuper # super =>
    /\ TableInv(Durable.pages, Durable.meta)
    /\ Fresh(dcopies, Epoch(dsuper), Durable.meta.nextPage)
    /\ acked \subseteq Stored \cup RowsUpTo(Epoch(dsuper))
    /\ IsFiniteSet(RowsUpTo(Epoch(dsuper)))
    /\ Cardinality(RowsUpTo(Epoch(dsuper))) = Durable.meta.overflow
    /\ DeviceStale \subseteq DOMAIN tx.changes

\* A copy that was never written does not parse.
Zeroed(cps) == \A p \in Page, s \in Slot : cps[p][s].epoch = 0 => cps[p][s] = Absent

DeviceInv ==
  /\ Zeroed(copies) /\ Zeroed(dcopies)
  /\ tx.phase = "idle" /\ startup # "truncated" => dcopies = copies
  /\ LenInv /\ LossInv

\* What a reader sees: a table at rest, the rows it counts, and every key that
\* was acknowledged in one or the other.
ContentInv ==
  /\ TableInv(Visible.pages, Visible.meta)
  /\ call \in Key \cup {NoKey} /\ owed \in Key \cup {NoKey} /\ acked \subseteq Key
  /\ acked \subseteq Shown \cup VisibleRows
  /\ IsFiniteSet(VisibleRows) /\ Cardinality(VisibleRows) = Visible.meta.overflow
  /\ tx.phase = "published" => call \in Shown \cup VisibleRows

HybridInv ==
  /\ RowInv
  /\ startup \in {"unrecovered", "deleted", "truncated", "recovered"}
  /\ IF startup = "truncated" THEN CutInv ELSE OwedInv
  /\ Fresh(copies, Epoch(super), Frontier)
  /\ ContentInv /\ TxInv
  /\ "power" \in Faults => DeviceInv

-----------------------------------------------------------------------------

\* Unless a superblock is written and not synced, the device holds what a
\* reader sees.
LEMMA DeviceAgrees ==
  ASSUME HybridInv, "power" \in Faults, tx.phase = "published" => dsuper = super
  PROVE  Durable = Visible /\ dsuper = super
<1>1. CASE startup = "truncated"
  <2>1. CutInv /\ dsuper = super
    BY <1>1 DEF HybridInv, CutInv
  <2>2. ASSUME NEW p \in Page
        PROVE  ReadPage(dcopies[p], Epoch(super)) = ReadPage(copies[p], Epoch(super))
    <3>1. Frontier \in Nat /\ p \in Nat
      BY PageAssumption DEF HybridInv, ContentInv, TableInv, TableOK, Formed, Metas, Frontier
    <3>2. CASE p < Frontier
      BY <2>1, <3>2 DEF CutInv
    <3>3. CASE p >= Frontier
      BY <2>1, <3>3 DEF CutInv, Fresh, HybridInv, ReadPage
    <3> QED
      BY <3>1, <3>2, <3>3
  <2> QED
    BY <2>1, <2>2 DEF Durable, Visible, Image
<1>2. CASE startup # "truncated"
  BY <1>2, DeviceFollows DEF HybridInv, OwedInv, PagesInv, DeviceOK
<1> QED
  BY <1>1, <1>2

\* The file is long enough for what an insertion may commit.
LEMMA LengthFits ==
  ASSUME HybridInv, "power" \in Faults, tx.phase = "idle", startup = "recovered", NEW k \in Key
  PROVE  LET n == Lengthened(Visible.meta, k)
         IN  /\ n \in Nat /\ EmptyFrom(copies, n) /\ Visible.meta.nextPage <= n
             /\ PlanNow(k).outcome = "commit" /\ PlanNow(k).meta.nextPage - 1 \in Page =>
                  PlanNow(k).meta.nextPage <= n
<1> DEFINE m == Visible.meta
           n == Lengthened(m, k)
<1>1. LenInv /\ TableInv(Visible.pages, m) /\ Formed(m)
  BY DEF HybridInv, ContentInv, DeviceInv, TableInv, TableOK
<1>2. /\ m.nextPage \in Nat /\ StartMigration(m).nextPage \in Nat
      /\ m.nextPage <= StartMigration(m).nextPage
  BY <1>1, StartsAbove
<1>3. len \in Nat /\ EmptyFrom(copies, len) /\ m.nextPage <= len /\ EmptyFrom(copies, m.nextPage)
  BY <1>1 DEF LenInv, Frontier
<1>4. n = IF ~Found(Visible.pages, m, k) /\ m.old = NoGen /\ Backlog(m)
          THEN StartMigration(m).nextPage ELSE len
  BY DEF Lengthened
<1>5. n \in Nat /\ EmptyFrom(copies, n) /\ m.nextPage <= n
  BY <1>2, <1>3, <1>4, PageAssumption DEF EmptyFrom
<1>6. ASSUME PlanNow(k).outcome = "commit", PlanNow(k).meta.nextPage - 1 \in Page
      PROVE  PlanNow(k).meta.nextPage <= n
  <2>1. PlanNow(k).meta.nextPage = Opened(m).nextPage /\ ~Found(Visible.pages, m, k)
    BY <1>1, <1>6, PlanKeeps, FoundIsKept DEF PlanNow, Inserts
  <2> QED
    BY <1>2, <1>3, <1>4, <2>1 DEF Opened
<1> QED
  BY <1>5, <1>6

\* A step that changes neither the image a reader sees nor the visible rows
\* keeps what they say, if the keys it acknowledges are there.
LEMMA ContentSteady ==
  ASSUME ContentInv, Visible' = Visible, VisibleRows' = VisibleRows,
         call' \in Key \cup {NoKey}, owed' \in Key \cup {NoKey},
         acked' \subseteq Key, acked' \subseteq Shown \cup VisibleRows,
         tx'.phase = "published" => tx.phase = "published" /\ call' = call
  PROVE  ContentInv'
<1>1. Shown' = Shown
  BY DEF Shown
<1> QED
  BY <1>1 DEF ContentInv

\* The rows a reader sees, when neither they nor the epoch change.
LEMMA RowsSteady ==
  ASSUME UNCHANGED <<row, super>>
  PROVE  VisibleRows' = VisibleRows /\ Epoch(super)' = Epoch(super) /\ MetaOf(super)' = MetaOf(super)
BY DEF VisibleRows, RowVisible, Epoch, ActiveSlot, MetaOf

\* An answer that writes nothing, in either store: if the insert() was owed,
\* nothing was left ahead.
LEMMA AnswerKeeps ==
  ASSUME OwedInv, RetryFirst, NEW k \in Key, CallerInserts(k), PlanNow(k).outcome # "commit"
  PROVE  /\ Stale = {} /\ PlanNow(k).changes = <<>>
         /\ UNCHANGED <<super, copies, dsuper, dcopies, tx, call>>
              /\ owed' = (IF owed = k THEN NoKey ELSE owed) => OwedInv'
<1>1. PlanNow(k).changes = <<>>
  BY DEF PlanNow, Plan, Conclude, Answer
<1>2. Stale = {}
  <2>1. DOMAIN PlanNow(k).changes = {}
    BY <1>1
  <2> QED
    BY <2>1, InsertCovers
<1>3. ASSUME UNCHANGED <<super, copies, dsuper, dcopies, tx, call>>
      PROVE  OwedInv'
  <2>1. UNCHANGED <<Visible, Stale>>
    BY <1>3 DEF Visible, Image, MetaOf, Epoch, ActiveSlot, Stale
  <2>2. PagesInv'
    BY <1>3 DEF OwedInv, PagesInv, CopiesOK, TxOK, WrittenOK, DeviceOK, Stale, Epoch, ActiveSlot
  <2> QED
    BY <1>2, <1>3, <2>1, <2>2 DEF OwedInv, CallerInserts
<1> QED
  BY <1>1, <1>2, <1>3

\* The pages as they were, and the insert() that is owed.
LEMMA OwedSteady ==
  ASSUME OwedInv, UNCHANGED <<super, copies, dsuper, dcopies, tx, call, owed>>
  PROVE  OwedInv'
<1>1. UNCHANGED <<Visible, Durable, Stale, DeviceStale>>
  BY DEF Visible, Durable, Image, MetaOf, Epoch, ActiveSlot, Stale, DeviceStale
<1>2. PagesInv'
  BY DEF OwedInv, PagesInv, CopiesOK, TxOK, WrittenOK, DeviceOK, Stale, Epoch, ActiveSlot
<1> QED
  BY <1>1, <1>2 DEF OwedInv, Planned

\* The caller of an insert() finds the store recovered.
LEMMA Ready ==
  ASSUME HybridInv, NEW k \in Key, MayInsert(k)
  PROVE  /\ startup = "recovered" /\ tx.phase = "idle" /\ CallerInserts(k) /\ OwedInv
         /\ call = NoKey /\ ContentInv /\ row[k] <= Epoch(super)
         /\ "power" \in Faults => DeviceInv /\ LenInv /\ dsuper = super /\ dcopies = copies
BY DEF HybridInv, MayInsert, CallerInserts, OwedInv, RowInv, DeviceInv, PagesInv, DeviceOK

\* The start of an insertion in the primary.
LEMMA AdmitPrimaryHolds ==
  ASSUME HybridInv, RetryFirst, NEW k \in Key, AdmitPrimary(k), RowInv'
  PROVE  HybridInv'
<1>1. /\ MayInsert(k) /\ Insert(k) /\ len' = Lengthened(Visible.meta, k)
      /\ UNCHANGED <<row, dlen, startup>>
  BY DEF AdmitPrimary
<1>2. /\ startup = "recovered" /\ tx.phase = "idle" /\ OwedInv /\ ContentInv
      /\ row[k] <= Epoch(super)
      /\ "power" \in Faults => DeviceInv
  BY <1>1, Ready
<1>3. /\ BeginTx(PlanNow(k).changes, PlanNow(k).meta) /\ call' = k /\ UNCHANGED <<owed, acked>>
      /\ PlanNow(k).outcome = "commit" /\ PlanNow(k).meta.nextPage - 1 \in Page
  BY <1>1 DEF Insert
<1>4. /\ UNCHANGED <<super, copies, dsuper, dcopies>>
      /\ tx'.phase = "writing" /\ tx'.changes = PlanNow(k).changes /\ tx'.meta = PlanNow(k).meta
  BY <1>3 DEF BeginTx
<1>5. /\ Visible' = Visible /\ Durable' = Durable /\ VisibleRows' = VisibleRows
      /\ Epoch(super)' = Epoch(super) /\ Frontier' = Frontier
  BY <1>1, <1>4 DEF Visible, Durable, Image, MetaOf, Epoch, ActiveSlot, VisibleRows, RowVisible, Frontier
<1>6. OwedInv'
  BY <1>1, <1>2, InsertKeeps
<1>7. ContentInv'
  BY <1>2, <1>3, <1>4, <1>5, ContentSteady DEF ContentInv
<1>8. TxInv'
  <2>1. PlanNow(call)' = PlanNow(k)
    BY <1>3, <1>5 DEF PlanNow
  <2> QED
    BY <1>1, <1>2, <1>3, <1>4, <1>5, <2>1 DEF TxInv
<1>9. Fresh(copies, Epoch(super), Frontier)'
  BY <1>4, <1>5 DEF HybridInv, Fresh
<1>10. ASSUME "power" \in Faults PROVE DeviceInv'
  <2>1. /\ len' \in Nat /\ EmptyFrom(copies, len') /\ Visible.meta.nextPage <= len'
        /\ PlanNow(k).meta.nextPage <= len'
    BY <1>1, <1>2, <1>3, <1>10, LengthFits
  <2>2. Durable = Visible
    BY <1>2, <1>10, DeviceAgrees
  <2>3. LenInv'
    BY <1>1, <1>2, <1>4, <1>5, <1>10, <2>1, <2>2 DEF DeviceInv, LenInv, EmptyFrom
  <2> QED
    BY <1>2, <1>4, <1>10, <2>3 DEF DeviceInv, LossInv, Zeroed
<1> QED
  BY <1>1, <1>2, <1>6, <1>7, <1>8, <1>9, <1>10 DEF HybridInv

\* A key that is in either store already is acknowledged again.
LEMMA DuplicateHolds ==
  ASSUME HybridInv, RetryFirst, NEW k \in Key, DuplicatePrimary(k) \/ DuplicateOverflow(k), RowInv'
  PROVE  HybridInv'
<1>1. /\ MayInsert(k) /\ UNCHANGED <<super, copies, dsuper, dcopies, tx, call, row, dlen, startup>>
      /\ acked' = acked \cup {k} /\ owed' = IF owed = k THEN NoKey ELSE owed
      /\ len' \in {len, Lengthened(Visible.meta, k)}
      /\ \/ PlanNow(k).outcome = "duplicate"
         \/ PlanNow(k).outcome = "refused" /\ RowVisible(k, Epoch(super))
  BY DEF DuplicatePrimary, DuplicateOverflow, InsertDuplicate, storeVars
<1>2. /\ startup = "recovered" /\ tx.phase = "idle" /\ OwedInv /\ ContentInv /\ CallerInserts(k)
      /\ "power" \in Faults => DeviceInv
  BY <1>1, Ready
<1>3. /\ Visible' = Visible /\ Durable' = Durable /\ VisibleRows' = VisibleRows
      /\ Epoch(super)' = Epoch(super) /\ Frontier' = Frontier
  BY <1>1 DEF Visible, Durable, Image, MetaOf, Epoch, ActiveSlot, VisibleRows, RowVisible, Frontier
<1>4. OwedInv'
  BY <1>1, <1>2, AnswerKeeps
<1>5. k \in Shown \cup VisibleRows
  BY <1>1, <1>2, PlanKeeps DEF ContentInv, PlanNow, Shown, VisibleRows
<1>6. ContentInv'
  BY <1>1, <1>2, <1>3, <1>5, ContentSteady DEF ContentInv
<1>7. TxInv' /\ Fresh(copies, Epoch(super), Frontier)'
  BY <1>1, <1>2, <1>3 DEF HybridInv, TxInv, Fresh
<1>8. ASSUME "power" \in Faults PROVE DeviceInv'
  <2>1. LenInv
    BY <1>2, <1>8 DEF DeviceInv
  <2>2. /\ len' \in Nat /\ EmptyFrom(copies, len') /\ Visible.meta.nextPage <= len'
    BY <1>1, <1>2, <1>8, <2>1, LengthFits DEF LenInv
  <2>3. Durable = Visible
    BY <1>2, <1>8, DeviceAgrees
  <2>4. LenInv'
    BY <1>1, <1>2, <1>3, <2>1, <2>2, <2>3 DEF LenInv, EmptyFrom
  <2> QED
    BY <1>1, <1>2, <1>8, <2>4 DEF DeviceInv, LossInv, Zeroed
<1> QED
  BY <1>1, <1>2, <1>4, <1>6, <1>7, <1>8 DEF HybridInv

\* SQLite commits a row that is not visible yet.
LEMMA AdmitOverflowHolds ==
  ASSUME HybridInv, RetryFirst, NEW k \in Key, AdmitOverflow(k), RowInv'
  PROVE  HybridInv'
<1>1. /\ MayInsert(k) /\ PlanNow(k).outcome = "refused" /\ row[k] = 0
      /\ row' = [row EXCEPT ![k] = Epoch(super) + 1]
      /\ tx'.phase = "synced" /\ tx'.todo = {} /\ tx'.changes = <<>>
      /\ tx'.meta = [Visible.meta EXCEPT !.overflow = @ + 1]
      /\ call' = k /\ len' = Lengthened(Visible.meta, k)
      /\ UNCHANGED <<super, copies, dsuper, dcopies, owed, acked, dlen, startup>>
  BY DEF AdmitOverflow, NoTx
<1>2. /\ startup = "recovered" /\ tx.phase = "idle" /\ OwedInv /\ ContentInv /\ CallerInserts(k)
      /\ "power" \in Faults => DeviceInv /\ LenInv /\ dsuper = super /\ dcopies = copies
  BY <1>1, Ready
<1>3. /\ Visible' = Visible /\ Durable' = Durable /\ Stale' = Stale
      /\ Epoch(super)' = Epoch(super) /\ Frontier' = Frontier
  BY <1>1 DEF Visible, Durable, Image, MetaOf, Epoch, ActiveSlot, Frontier, Stale
<1>4. Epoch(super) \in Nat
  BY EpochIsNat DEF HybridInv, RowInv, SuperInv
<1>5. Stale = {} /\ PlanNow(k).changes = <<>>
  BY <1>1, <1>2, AnswerKeeps
<1>6. DOMAIN tx'.changes = {}
  BY <1>1
<1>7. PagesInv'
  <2>1. TxOK'
    <3>1. tx' = [phase |-> tx'.phase, todo |-> tx'.todo, changes |-> tx'.changes, meta |-> tx'.meta]
      BY DEF AdmitOverflow, NoTx
    <3> QED
      BY <1>1, <1>6, <3>1 DEF TxOK
  <2>2. WrittenOK'
    BY <1>1, <1>3, <1>5, <1>6 DEF WrittenOK
  <2>3. "power" \in Faults => DeviceOK'
    BY <1>1, <1>2 DEF DeviceOK
  <2> QED
    BY <1>1, <1>2, <1>3, <2>1, <2>2, <2>3 DEF OwedInv, PagesInv, CopiesOK, Epoch, ActiveSlot
<1>8. PlanNow(call)' = PlanNow(k)
  BY <1>1, <1>3 DEF PlanNow
<1>9. OwedInv'
  <2>1. DOMAIN tx'.changes = Planned(Visible, call)'
    BY <1>1, <1>5, <1>8 DEF Planned, PlanNow
  <2> QED
    BY <1>1, <1>7, <2>1, NoKeyAssumption DEF OwedInv
<1>10. VisibleRows' = VisibleRows
  <2>1. \A j \in Key : row'[j] = IF j = k THEN Epoch(super) + 1 ELSE row[j]
    BY <1>1 DEF HybridInv, RowInv
  <2> QED
    BY <1>1, <1>3, <1>4, <2>1 DEF VisibleRows, RowVisible
<1>11. ContentInv'
  BY <1>1, <1>2, <1>3, <1>10, ContentSteady DEF ContentInv
<1>12. TxInv'
  <2>1. row'[call'] = Epoch(super)' + 1
    BY <1>1, <1>3 DEF HybridInv, RowInv
  <2>2. /\ tx'.changes = PlanNow(call)'.changes /\ tx'.phase = "synced"
        /\ PlanNow(call)'.outcome = "refused"
    BY <1>1, <1>5, <1>8
  <2>3. tx'.meta = [Visible'.meta EXCEPT !.overflow = @ + 1]
    BY <1>1, <1>3
  <2> QED
    BY <2>1, <2>2, <2>3 DEF TxInv
<1>13. Fresh(copies, Epoch(super), Frontier)'
  BY <1>1, <1>3 DEF HybridInv, Fresh
<1>14. ASSUME "power" \in Faults PROVE DeviceInv'
  <2>1. len' \in Nat /\ EmptyFrom(copies, len') /\ Visible.meta.nextPage <= len'
    BY <1>1, <1>2, <1>14, LengthFits
  <2>2. Durable = Visible
    BY <1>2, <1>14, DeviceAgrees
  <2>3. tx'.meta.nextPage = Visible.meta.nextPage
    BY <1>1, <1>2, OverflowCounted DEF ContentInv
  <2>4. tx'.phase = "synced" /\ UNCHANGED <<super, copies, dsuper, dcopies, dlen>> /\ DeviceInv
    BY <1>1, <1>2, <1>14
  <2>5. LenInv'
    BY <1>2, <1>3, <1>14, <2>1, <2>2, <2>3, <2>4 DEF LenInv, EmptyFrom
  <2> QED
    BY <2>4, <2>5 DEF DeviceInv, LossInv, Zeroed
<1> QED
  BY <1>1, <1>2, <1>9, <1>11, <1>12, <1>13, <1>14 DEF HybridInv

\* What the transaction in flight is about to commit: a table at rest with one
\* key more, or the same table and one row more.
LEMMA TxCommits ==
  ASSUME HybridInv, tx.phase \in {"writing", "synced"}
  PROVE  LET new == Overlay(Visible.pages, tx.changes)
         IN  /\ call \in Key /\ startup = "recovered" /\ OwedInv
             /\ TableInv(new, tx.meta)
             /\ DOMAIN tx.changes \subseteq {q \in Page : q < tx.meta.nextPage}
             /\ tx.meta.nextPage \in Nat /\ Frontier \in Nat /\ Frontier <= tx.meta.nextPage
             /\ \/ /\ Kept(new, tx.meta) = With(Shown, call)
                   /\ tx.meta.overflow = Visible.meta.overflow /\ row[call] <= Epoch(super)
                \/ /\ Kept(new, tx.meta) = Shown
                   /\ tx.meta.overflow = Visible.meta.overflow + 1
                   /\ row[call] = Epoch(super) + 1
<1> DEFINE img == Visible.pages
           m   == Visible.meta
           new == Overlay(img, tx.changes)
<1>1. startup = "recovered" /\ OwedInv /\ call \in Key /\ TableInv(img, m) /\ Formed(m)
  BY DEF HybridInv, RowInv, OwedInv, ContentInv, TableInv, TableOK
<1>2. m.nextPage \in Nat /\ m.nextPage <= StartMigration(m).nextPage
  BY <1>1, StartsAbove
<1>3. tx.changes = PlanNow(call).changes /\ new = Applied(img, tx.changes)
  BY DEF HybridInv, TxInv, Overlay, Applied
<1>4. CASE /\ PlanNow(call).outcome = "commit" /\ PlanNow(call).meta.nextPage - 1 \in Page
           /\ tx.meta = PlanNow(call).meta /\ row[call] <= Epoch(super)
  <2>1. /\ Inserts(img, m, call, Applied(img, tx.changes), tx.meta)
        /\ DOMAIN tx.changes \subseteq {q \in Page : q < tx.meta.nextPage}
    BY <1>1, <1>3, <1>4, PlanKeeps DEF PlanNow
  <2>2. Formed(tx.meta) /\ tx.meta.nextPage = Opened(m).nextPage
    BY <2>1 DEF Inserts, TableInv, TableOK
  <2>3. tx.meta.nextPage \in Nat /\ m.nextPage <= tx.meta.nextPage
    BY <1>2, <2>2, StartsAbove DEF Opened
  <2> HIDE DEF new
  <2> QED
    BY <1>1, <1>2, <1>3, <1>4, <2>1, <2>3 DEF Inserts, Shown, Frontier, new
<1>5. CASE /\ PlanNow(call).outcome = "refused" /\ row[call] = Epoch(super) + 1
           /\ tx.meta = [m EXCEPT !.overflow = @ + 1]
  <2>1. tx.changes = <<>>
    BY <1>3, <1>5 DEF PlanNow, Plan, Conclude, Answer
  <2>2. new = img /\ DOMAIN tx.changes = {}
    BY <2>1 DEF Overlay, Visible, Image
  <2>3. /\ TableInv(img, tx.meta) /\ Kept(img, tx.meta) = Kept(img, m)
        /\ tx.meta.overflow = m.overflow + 1 /\ tx.meta.nextPage = m.nextPage
    BY <1>1, <1>5, OverflowCounted
  <2> HIDE DEF new
  <2> QED
    BY <1>1, <1>2, <1>5, <2>2, <2>3 DEF Shown, Frontier, new
<1> QED
  BY <1>4, <1>5 DEF HybridInv, TxInv

\* One page write: nothing that is committed lies where it goes.
LEMMA WritePageHolds ==
  ASSUME HybridInv, NEW p \in Page, WritePage(p), UNCHANGED <<call, owed, acked, row, len, startup, dlen>>,
         RowInv'
  PROVE  HybridInv'
<1> DEFINE e  == Epoch(super)
           t  == TargetSlot(copies[p], e)
           c2 == [copies[p] EXCEPT ![t] = [epoch |-> e + 1, data |-> tx.changes[p]]]
<1>1. /\ tx.phase = "writing" /\ tx'.phase = "writing" /\ tx'.changes = tx.changes
      /\ tx'.meta = tx.meta /\ p \in tx.todo /\ copies' = [copies EXCEPT ![p] = c2]
      /\ UNCHANGED <<super, dsuper, dcopies>>
  BY DEF WritePage, HybridInv, RowInv, OwedInv, PagesInv, TxOK
<1>2. /\ startup = "recovered" /\ OwedInv /\ DOMAIN tx.changes \subseteq {q \in Page : q < tx.meta.nextPage}
      /\ tx.meta.nextPage \in Nat /\ Frontier \in Nat
  BY <1>1, TxCommits
<1>3. p < tx.meta.nextPage
  BY <1>1, <1>2 DEF OwedInv, PagesInv, TxOK
<1>4. PagesInv /\ CopyOK(copies[p], e) /\ e \in Nat /\ copies = [q \in Page |-> copies[q]]
  BY <1>2, EpochIsNat DEF OwedInv, PagesInv, CopiesOK
<1>5. OwedInv' /\ Visible' = Visible
  BY <1>1, <1>2, <1>4, WritingKeeps, OtherStepsAreInvisible
<1>6. VisibleRows' = VisibleRows /\ Epoch(super)' = e
  BY <1>1, RowsSteady
<1>7. Durable' = Durable /\ Frontier' = Frontier
  BY <1>1, <1>5 DEF Durable, Image, MetaOf, Epoch, ActiveSlot, Frontier
<1>8. ContentInv'
  BY <1>1, <1>5, <1>6, ContentSteady DEF HybridInv, ContentInv
<1>9. TxInv'
  <2>1. PlanNow(call)' = PlanNow(call)
    BY <1>5 DEF PlanNow
  <2> QED
    BY <1>1, <1>5, <1>6, <2>1 DEF HybridInv, TxInv
<1>10. t \in Slot /\ c2[t].epoch = e + 1 /\ \A s \in Slot : s # t => c2[s] = copies[p][s]
  BY <1>4 DEF TargetSlot, NewestSlot, Slot, CopyOK
<1>11. copies'[p] = c2 /\ \A q \in Page : q # p => copies'[q] = copies[q]
  BY <1>1, <1>4
<1> HIDE DEF c2, t
<1>12. Fresh(copies, Epoch(super), Frontier)'
  <2> SUFFICES ASSUME NEW q \in Page, q >= Frontier PROVE ~HasCommitted(copies'[q], e)
    BY <1>6, <1>7 DEF Fresh
  <2>1. ~HasCommitted(copies[q], e)
    BY DEF HybridInv, Fresh
  <2>2. CASE q = p
    BY <1>4, <1>10, <1>11, <2>1, <2>2 DEF HasCommitted, Committed, Slot
  <2> QED
    BY <1>11, <2>1, <2>2
<1>13. ASSUME "power" \in Faults PROVE DeviceInv'
  <2>1. DeviceInv /\ LenInv
    BY <1>13 DEF HybridInv, DeviceInv
  <2>2. Zeroed(copies)'
    <3> SUFFICES ASSUME NEW q \in Page, NEW s \in Slot, copies'[q][s].epoch = 0
                 PROVE  copies'[q][s] = Absent
      BY DEF Zeroed
    <3>1. CASE q = p
      BY <1>4, <1>10, <1>11, <2>1, <3>1 DEF DeviceInv, Zeroed
    <3> QED
      BY <1>11, <2>1, <3>1 DEF DeviceInv, Zeroed
  <2>3. EmptyFrom(copies', len)
    BY <1>1, <1>2, <1>3, <1>11, <2>1, PageAssumption DEF LenInv, EmptyFrom
  <2>4. LenInv'
    BY <1>1, <1>2, <1>5, <1>7, <2>1, <2>3 DEF LenInv, EmptyFrom
  <2> QED
    BY <1>1, <2>1, <2>2, <2>4 DEF DeviceInv, LossInv, Zeroed
<1> QED
  BY <1>2, <1>5, <1>8, <1>9, <1>12, <1>13 DEF HybridInv

\* The first fsync.
LEMMA SyncDataHolds ==
  ASSUME HybridInv, SyncData, UNCHANGED <<call, owed, acked, row, len, startup>>, dlen' = len, RowInv'
  PROVE  HybridInv'
<1>1. /\ tx.phase = "writing" /\ tx'.phase = "synced" /\ tx'.changes = tx.changes
      /\ tx'.meta = tx.meta /\ UNCHANGED <<super, copies>> /\ dsuper' = super /\ dcopies' = copies
  BY DEF SyncData, Fsync, HybridInv, RowInv, OwedInv, PagesInv, TxOK
<1>2. startup = "recovered" /\ OwedInv
  BY <1>1, TxCommits
<1>3. OwedInv' /\ Visible' = Visible
  BY <1>1, <1>2, WritingKeeps, OtherStepsAreInvisible DEF OwedInv
<1>4. VisibleRows' = VisibleRows /\ Epoch(super)' = Epoch(super)
  BY <1>1, RowsSteady
<1>5. Durable' = Visible /\ Frontier' = Frontier
  BY <1>1, <1>3 DEF Durable, Visible, Image, MetaOf, Epoch, ActiveSlot, Frontier
<1>6. ContentInv'
  BY <1>1, <1>3, <1>4, ContentSteady DEF HybridInv, ContentInv
<1>7. TxInv'
  <2>1. PlanNow(call)' = PlanNow(call)
    BY <1>3 DEF PlanNow
  <2> QED
    BY <1>1, <1>3, <1>4, <2>1 DEF HybridInv, TxInv
<1>8. Fresh(copies, Epoch(super), Frontier)'
  BY <1>1, <1>4, <1>5 DEF HybridInv, Fresh
<1>9. ASSUME "power" \in Faults PROVE DeviceInv'
  <2>1. DeviceInv /\ LenInv
    BY <1>9 DEF HybridInv, DeviceInv
  <2>2. LenInv'
    BY <1>1, <1>2, <1>3, <1>5, <2>1 DEF LenInv, EmptyFrom
  <2> QED
    BY <1>1, <2>1, <2>2 DEF DeviceInv, LossInv, Zeroed
<1> QED
  BY <1>2, <1>3, <1>6, <1>7, <1>8, <1>9 DEF HybridInv

\* The superblock write: the running insertion becomes visible, in the table
\* or as a row.
LEMMA WriteSuperShows ==
  ASSUME HybridInv, WriteSuper, UNCHANGED <<call, owed, row>>
  PROVE  /\ tx.phase = "synced" /\ tx'.phase = "published" /\ tx'.changes = tx.changes
         /\ UNCHANGED <<copies, dsuper, dcopies>>
         /\ call \in Key /\ startup = "recovered" /\ OwedInv /\ OwedInv'
         /\ DOMAIN tx.changes \subseteq {q \in Page : q < tx.meta.nextPage}
         /\ tx.meta.nextPage \in Nat /\ Frontier \in Nat /\ Frontier <= tx.meta.nextPage
         /\ Epoch(super) \in Nat /\ Epoch(super)' = Epoch(super) + 1
         /\ Visible'.meta = tx.meta /\ Frontier' = tx.meta.nextPage
         /\ TableInv(Visible.pages, Visible.meta)'
         /\ \/ /\ Shown' = With(Shown, call) /\ VisibleRows' = VisibleRows
               /\ tx.meta.overflow = Visible.meta.overflow
            \/ /\ Shown' = Shown /\ VisibleRows' = With(VisibleRows, call) /\ call \notin VisibleRows
               /\ tx.meta.overflow = Visible.meta.overflow + 1
<1> DEFINE e   == Epoch(super)
           new == Overlay(Visible.pages, tx.changes)
<1>1. /\ tx.phase = "synced" /\ tx'.phase = "published" /\ tx'.changes = tx.changes
      /\ UNCHANGED <<copies, dsuper, dcopies>>
  BY DEF WriteSuper, HybridInv, RowInv, OwedInv, PagesInv, TxOK
<1>2. /\ call \in Key /\ startup = "recovered" /\ OwedInv
      /\ TableInv(new, tx.meta)
      /\ DOMAIN tx.changes \subseteq {q \in Page : q < tx.meta.nextPage}
      /\ tx.meta.nextPage \in Nat /\ Frontier \in Nat /\ Frontier <= tx.meta.nextPage
      /\ \/ /\ Kept(new, tx.meta) = With(Shown, call)
            /\ tx.meta.overflow = Visible.meta.overflow /\ row[call] <= e
         \/ /\ Kept(new, tx.meta) = Shown
            /\ tx.meta.overflow = Visible.meta.overflow + 1 /\ row[call] = e + 1
  BY <1>1, TxCommits
<1>3. OwedInv' /\ Visible' = [pages |-> new, meta |-> tx.meta]
  BY <1>2, PublishKeeps, WriteSuperKeeps DEF OwedInv
<1>4. e \in Nat /\ Epoch(super)' = e + 1
  <2> DEFINE sup2 == [super EXCEPT ![1 - ActiveSlot(super)] = [epoch |-> e + 1, meta |-> tx.meta]]
  <2>1. super' = sup2 /\ SuperOK(super)
    BY <1>2 DEF WriteSuper, OwedInv, PagesInv
  <2>2. e \in Nat /\ Epoch(sup2) = e + 1
    BY <2>1, SuperAdvances
  <2>3. Epoch(super)' = Epoch(super')
    BY DEF Epoch, ActiveSlot
  <2> QED
    BY <2>1, <2>2, <2>3
<1> HIDE DEF new
<1>5. Visible'.meta = tx.meta /\ Frontier' = tx.meta.nextPage /\ Shown' = Kept(new, tx.meta)
      /\ TableInv(Visible.pages, Visible.meta)'
  BY <1>2, <1>3 DEF Frontier, Shown
<1>6. \A k \in Key : row[k] \in Nat /\ (row[k] <= e \/ (k = call /\ row[k] = e + 1))
  BY <1>2 DEF HybridInv, RowInv
<1>7. \/ VisibleRows' = VisibleRows /\ row[call] <= e
      \/ VisibleRows' = With(VisibleRows, call) /\ call \notin VisibleRows /\ row[call] = e + 1
  <2>1. VisibleRows' = {k \in Key : row[k] > 0 /\ row[k] <= e + 1}
    BY <1>4 DEF VisibleRows, RowVisible
  <2>2. VisibleRows = {k \in Key : row[k] > 0 /\ row[k] <= e}
    BY DEF VisibleRows, RowVisible
  <2>3. CASE row[call] <= e
    BY <1>4, <1>6, <2>1, <2>2, <2>3
  <2>4. CASE row[call] = e + 1
    BY <1>2, <1>4, <1>6, <2>1, <2>2, <2>4 DEF With
  <2> QED
    BY <1>2, <2>3, <2>4
<1>8. \/ /\ Shown' = With(Shown, call) /\ VisibleRows' = VisibleRows
         /\ tx.meta.overflow = Visible.meta.overflow
      \/ /\ Shown' = Shown /\ VisibleRows' = With(VisibleRows, call) /\ call \notin VisibleRows
         /\ tx.meta.overflow = Visible.meta.overflow + 1
  BY <1>2, <1>4, <1>5, <1>7
<1> QED
  BY <1>1, <1>2, <1>3, <1>4, <1>5, <1>8

\* Every part of the invariant across it; the device still shows the state
\* before it.
LEMMA WriteSuperHolds ==
  ASSUME HybridInv, WriteSuper, UNCHANGED <<call, owed, acked, row, len, startup, dlen>>, RowInv'
  PROVE  HybridInv'
<1> DEFINE e == Epoch(super)
<1>1. /\ tx.phase = "synced" /\ tx'.phase = "published" /\ tx'.changes = tx.changes
      /\ UNCHANGED <<copies, dsuper, dcopies>>
  BY WriteSuperShows
<1>2. /\ call \in Key /\ startup = "recovered" /\ OwedInv /\ OwedInv'
      /\ DOMAIN tx.changes \subseteq {q \in Page : q < tx.meta.nextPage}
      /\ tx.meta.nextPage \in Nat /\ Frontier \in Nat /\ Frontier <= tx.meta.nextPage
  BY WriteSuperShows
<1>3. e \in Nat /\ Epoch(super)' = e + 1
  BY WriteSuperShows
<1>4. Visible'.meta = tx.meta /\ Frontier' = tx.meta.nextPage /\ TableInv(Visible.pages, Visible.meta)'
  BY WriteSuperShows
<1>5. \/ /\ Shown' = With(Shown, call) /\ VisibleRows' = VisibleRows
         /\ tx.meta.overflow = Visible.meta.overflow
      \/ /\ Shown' = Shown /\ VisibleRows' = With(VisibleRows, call) /\ call \notin VisibleRows
         /\ tx.meta.overflow = Visible.meta.overflow + 1
  BY WriteSuperShows
<1>6. ContentInv'
  <2>1. IsFiniteSet(VisibleRows) /\ Cardinality(VisibleRows) = Visible.meta.overflow
    BY DEF HybridInv, ContentInv
  <2>2. IsFiniteSet(VisibleRows') /\ Cardinality(VisibleRows') = tx.meta.overflow
    BY <1>5, <2>1, FS_AddElement DEF With
  <2>3. acked \subseteq Shown' \cup VisibleRows' /\ call \in Shown' \cup VisibleRows'
    BY <1>5 DEF HybridInv, ContentInv, With
  <2> QED
    BY <1>1, <1>4, <2>2, <2>3 DEF HybridInv, ContentInv
<1>7. TxInv'
  BY <1>1 DEF TxInv
<1>8. Fresh(copies, Epoch(super), Frontier)'
  <2> SUFFICES ASSUME NEW q \in Page, q >= tx.meta.nextPage PROVE ~HasCommitted(copies[q], e + 1)
    BY <1>1, <1>3, <1>4 DEF Fresh
  <2>1. q \in Nat /\ q >= Frontier /\ q \notin DOMAIN tx.changes
    BY <1>2, PageAssumption
  <2>2. ~HasCommitted(copies[q], e) /\ CopyOK(copies[q], e)
    BY <1>2, <2>1 DEF HybridInv, Fresh, OwedInv, PagesInv, CopiesOK
  <2>3. q \notin Stale
    BY <1>1, <1>2, <2>1 DEF OwedInv, PagesInv, WrittenOK
  <2> QED
    BY <1>3, <2>2, <2>3 DEF Stale, HasCommitted, Committed, CopyOK, Slot
<1>9. ASSUME "power" \in Faults PROVE DeviceInv'
  <2>1. /\ DeviceInv /\ LenInv /\ Durable = Visible /\ dsuper = super /\ dcopies = copies
        /\ Stale \subseteq DOMAIN tx.changes
    BY <1>1, <1>2, <1>9, DeviceAgrees DEF HybridInv, DeviceInv, OwedInv, PagesInv, DeviceOK, WrittenOK
  <2>2. Durable' = Durable /\ Epoch(dsuper)' = e /\ DeviceStale' = Stale
    BY <1>1, <2>1 DEF Durable, Image, MetaOf, Epoch, ActiveSlot, DeviceStale, Stale
  <2>3. LenInv'
    BY <1>1, <1>2, <1>4, <2>1, <2>2 DEF LenInv, EmptyFrom
  <2>4. RowsUpTo(Epoch(dsuper))' = VisibleRows /\ Stored' = Shown
    BY <2>1, <2>2 DEF RowsUpTo, RowVisible, VisibleRows, Stored, Shown
  <2>5. Fresh(dcopies, Epoch(dsuper), Durable.meta.nextPage)'
    BY <1>1, <2>1, <2>2 DEF HybridInv, Fresh, Frontier
  <2>6. LossInv'
    <3>1. ContentInv
      BY DEF HybridInv
    <3> QED
      BY <1>1, <2>1, <2>2, <2>4, <2>5, <3>1 DEF ContentInv, LossInv
  <2> QED
    BY <1>1, <2>1, <2>3, <2>6 DEF DeviceInv, Zeroed
<1> QED
  BY <1>2, <1>6, <1>7, <1>8, <1>9 DEF HybridInv

\* insert() returns.
LEMMA FinishHolds ==
  ASSUME HybridInv, Finish, RowInv'
  PROVE  HybridInv'
<1>1. /\ Return /\ dlen' = len /\ UNCHANGED <<row, len, startup, super, copies>>
      /\ tx.phase = "published" /\ tx' = NoTx /\ dsuper' = super /\ dcopies' = copies
      /\ acked' = acked \cup {call} /\ call' = NoKey
      /\ owed' = IF owed = call THEN NoKey ELSE owed
  BY DEF Finish, Return, SyncSuper, Fsync
<1>2. startup = "recovered" /\ OwedInv /\ ContentInv /\ call \in Key
  BY <1>1 DEF HybridInv, RowInv, OwedInv, ContentInv
<1>3. OwedInv' /\ Visible' = Visible
  BY <1>1, <1>2, ReturnKeeps, OtherStepsAreInvisible DEF OwedInv
<1>4. VisibleRows' = VisibleRows /\ Epoch(super)' = Epoch(super)
  BY <1>1, RowsSteady
<1>5. Durable' = Visible /\ Frontier' = Frontier
  BY <1>1, <1>3 DEF Durable, Visible, Image, MetaOf, Epoch, ActiveSlot, Frontier
<1>6. tx'.phase = "idle"
  BY <1>1 DEF NoTx
<1>7. ContentInv'
  BY <1>1, <1>2, <1>3, <1>4, <1>6, ContentSteady DEF ContentInv
<1>8. TxInv' /\ Fresh(copies, Epoch(super), Frontier)'
  BY <1>1, <1>4, <1>5, <1>6 DEF HybridInv, TxInv, Fresh
<1>9. ASSUME "power" \in Faults PROVE DeviceInv'
  <2>1. DeviceInv /\ LenInv
    BY <1>9 DEF HybridInv, DeviceInv
  <2>2. EmptyFrom(copies, Frontier)
    <3> SUFFICES ASSUME NEW q \in Page, q >= Frontier PROVE copies[q] = Empty
      BY DEF EmptyFrom
    <3>1. ~HasCommitted(copies[q], Epoch(super)) /\ CopyOK(copies[q], Epoch(super)) /\ q \notin Stale
      BY <1>1, <1>2 DEF HybridInv, Fresh, OwedInv, PagesInv, CopiesOK, WrittenOK
    <3>2. Epoch(super) \in Nat
      BY <1>2, EpochIsNat DEF OwedInv, PagesInv
    <3>3. \A s \in Slot : copies[q][s].epoch = 0
      BY <3>1, <3>2 DEF HasCommitted, Committed, CopyOK, Stale, Slot
    <3>4. \A s \in Slot : copies[q][s] = Absent
      BY <2>1, <3>3 DEF DeviceInv, Zeroed
    <3> QED
      BY <3>1, <3>4 DEF CopyOK, Empty
  <2>3. LenInv'
    BY <1>1, <1>2, <1>3, <1>5, <1>6, <2>1, <2>2 DEF LenInv, EmptyFrom
  <2> QED
    BY <1>1, <1>6, <2>1, <2>3 DEF DeviceInv, LossInv, Zeroed
<1> QED
  BY <1>1, <1>2, <1>3, <1>7, <1>8, <1>9 DEF HybridInv

\* recover() deletes rows that nobody sees.
LEMMA DeleteHolds ==
  ASSUME HybridInv, DeleteFuture, RowInv'
  PROVE  HybridInv'
<1>1. /\ startup = "unrecovered" /\ startup' = "deleted"
      /\ row' = [k \in Key |-> IF k \in FutureRows THEN 0 ELSE row[k]]
      /\ UNCHANGED <<super, copies, dsuper, dcopies, tx, call, owed, acked, len, dlen>>
  BY DEF DeleteFuture
<1>2. tx.phase = "idle" /\ OwedInv /\ ContentInv
  BY <1>1 DEF HybridInv, RowInv
<1>3. OwedInv' /\ Visible' = Visible /\ Durable' = Durable
  BY <1>1, <1>2, OwedSteady DEF Visible, Durable, Image, MetaOf, Epoch, ActiveSlot
<1>4. Epoch(super)' = Epoch(super) /\ Frontier' = Frontier /\ Epoch(super) \in Nat
  BY <1>1, <1>3, EpochIsNat DEF Epoch, ActiveSlot, Frontier, HybridInv, RowInv, SuperInv
<1>5. VisibleRows' = VisibleRows
  <2>1. \A k \in Key : /\ row[k] \in Nat
                       /\ row'[k] = IF row[k] > Epoch(super) THEN 0 ELSE row[k]
    BY <1>1 DEF FutureRows, HybridInv, RowInv
  <2> QED
    BY <1>4, <2>1 DEF VisibleRows, RowVisible
<1>6. ContentInv'
  BY <1>1, <1>2, <1>3, <1>5, ContentSteady DEF ContentInv
<1>7. TxInv' /\ Fresh(copies, Epoch(super), Frontier)'
  BY <1>1, <1>2, <1>4 DEF HybridInv, TxInv, Fresh
<1>8. ASSUME "power" \in Faults PROVE DeviceInv'
  BY <1>1, <1>2, <1>3, <1>4, <1>8 DEF HybridInv, DeviceInv, LenInv, LossInv, Zeroed, EmptyFrom
<1> QED
  BY <1>1, <1>3, <1>6, <1>7, <1>8 DEF HybridInv

\* recover() cuts off what lies beyond the last page of the metadata: nothing
\* a reader sees.
LEMMA TruncateShows ==
  ASSUME HybridInv, TruncateTail
  PROVE  Visible' = Visible
<1>1. /\ startup = "deleted" /\ startup' = "truncated" /\ len > Frontier /\ len' = Frontier
      /\ copies' = [p \in Page |-> IF p < Frontier THEN copies[p] ELSE Empty]
      /\ UNCHANGED <<super, dsuper, dcopies, tx, call, owed, acked, row, dlen>>
  BY DEF TruncateTail, Empty
<1>2. tx.phase = "idle" /\ OwedInv /\ PagesInv /\ ContentInv /\ call = NoKey
      /\ Epoch(super) \in Nat
  BY <1>1, EpochIsNat DEF HybridInv, RowInv, OwedInv, PagesInv
<1>3. Frontier \in Nat
  BY <1>2 DEF ContentInv, TableInv, TableOK, Formed, Metas, Frontier
<1>4. Epoch(super)' = Epoch(super) /\ Epoch(dsuper)' = Epoch(dsuper) /\ VisibleRows' = VisibleRows
  BY <1>1, RowsSteady DEF Epoch, ActiveSlot
<1>5. \A p \in Page : /\ p < Frontier => copies'[p] = copies[p]
                      /\ ~(p < Frontier) => copies'[p] = Empty /\ p >= Frontier
  BY <1>1, <1>3, PageAssumption
<1>6. ~HasCommitted(Empty, Epoch(super)) /\ CopyOK(Empty, Epoch(super))
      /\ \A s \in Slot : Empty[s] = Absent /\ ~(Empty[s].epoch > Epoch(super))
  BY <1>2 DEF HasCommitted, Committed, Empty, Absent, CopyOK, Slot
<1>7. Visible' = Visible
  <2>1. ASSUME NEW p \in Page
        PROVE  ReadPage(copies'[p], Epoch(super)) = ReadPage(copies[p], Epoch(super))
    BY <1>5, <1>6 DEF HybridInv, Fresh, ReadPage
  <2> QED
    BY <1>1, <1>4, <2>1 DEF Visible, Image, MetaOf, ActiveSlot
<1> QED
  BY <1>7

\* It leaves nothing ahead but what is owed.
LEMMA TruncateHolds ==
  ASSUME HybridInv, TruncateTail, RowInv'
  PROVE  HybridInv'
<1>1. /\ startup = "deleted" /\ startup' = "truncated" /\ len > Frontier /\ len' = Frontier
      /\ copies' = [p \in Page |-> IF p < Frontier THEN copies[p] ELSE Empty]
      /\ UNCHANGED <<super, dsuper, dcopies, tx, call, owed, acked, row, dlen>>
  BY DEF TruncateTail, Empty
<1>2. tx.phase = "idle" /\ OwedInv /\ PagesInv /\ ContentInv /\ call = NoKey
      /\ Epoch(super) \in Nat
  BY <1>1, EpochIsNat DEF HybridInv, RowInv, OwedInv, PagesInv
<1>3. Frontier \in Nat
  BY <1>2 DEF ContentInv, TableInv, TableOK, Formed, Metas, Frontier
<1>4. Epoch(super)' = Epoch(super) /\ Epoch(dsuper)' = Epoch(dsuper) /\ VisibleRows' = VisibleRows
  BY <1>1, RowsSteady DEF Epoch, ActiveSlot
<1>5. \A p \in Page : /\ p < Frontier => copies'[p] = copies[p]
                      /\ ~(p < Frontier) => copies'[p] = Empty /\ p >= Frontier
  BY <1>1, <1>3, PageAssumption
<1>6. ~HasCommitted(Empty, Epoch(super)) /\ CopyOK(Empty, Epoch(super))
      /\ \A s \in Slot : Empty[s] = Absent /\ ~(Empty[s].epoch > Epoch(super))
  BY <1>2 DEF HasCommitted, Committed, Empty, Absent, CopyOK, Slot
<1>7. Visible' = Visible
  BY TruncateShows
<1>8. Durable' = Durable /\ Frontier' = Frontier /\ OwedPages' = OwedPages
  BY <1>1, <1>7 DEF Durable, Image, MetaOf, Epoch, ActiveSlot, Frontier, OwedPages
<1>9. ContentInv'
  BY <1>1, <1>2, <1>4, <1>7, ContentSteady DEF ContentInv
<1>10. TxInv' /\ Fresh(copies, Epoch(super), Frontier)'
  <2>1. TxInv'
    BY <1>1, <1>2 DEF TxInv
  <2>2. ASSUME NEW p \in Page, p >= Frontier PROVE copies'[p] = Empty
    <3>1. ~(p < Frontier)
      BY <1>3, <2>2, PageAssumption
    <3> QED
      BY <1>5, <3>1
  <2> QED
    BY <1>4, <1>6, <1>8, <2>1, <2>2 DEF Fresh
<1>11. CopiesOK(copies, Epoch(super))'
  BY <1>1, <1>2, <1>4, <1>5, <1>6 DEF PagesInv, CopiesOK
<1>12. Stale' \subseteq Stale /\ Stale \subseteq OwedPages
  <2>1. ASSUME NEW p \in Page, NEW s \in Slot, copies'[p][s].epoch > Epoch(super)
        PROVE  copies[p][s].epoch > Epoch(super)
    BY <1>5, <1>6, <2>1
  <2> QED
    BY <1>2, <1>4, <2>1 DEF Stale, OwedInv, OwedPages
<1>13. EmptyFrom(copies', Frontier)
  <2> SUFFICES ASSUME NEW p \in Page, p >= Frontier PROVE copies'[p] = Empty
    BY DEF EmptyFrom
  <2>1. ~(p < Frontier)
    BY <1>3, PageAssumption
  <2> QED
    BY <1>5, <2>1
<1>14. CutInv'
  <2>1. "power" \in Faults => /\ dsuper = super /\ dcopies = copies
    BY <1>1, <1>2 DEF HybridInv, DeviceInv, PagesInv, DeviceOK
  <2>2. "power" \in Faults => DeviceStale' \subseteq OwedPages
    BY <1>1, <1>4, <1>12, <2>1 DEF DeviceStale, Stale
  <2>3. "power" \in Faults => Fresh(dcopies, Epoch(dsuper), Frontier)'
    BY <1>1, <1>4, <1>8, <2>1 DEF HybridInv, Fresh
  <2>4. SuperOK(super)' /\ SuperOK(dsuper)' /\ TxOK' /\ WrittenOK'
    BY <1>1, <1>2 DEF PagesInv, TxOK, WrittenOK
  <2>5. CopiesOK(dcopies, Epoch(dsuper))'
    BY <1>1, <1>2, <1>4 DEF PagesInv, CopiesOK
  <2>6. "power" \in Faults => \A p \in Page : p < Frontier => dcopies'[p] = copies'[p]
    BY <1>1, <1>5, <2>1
  <2> QED
    BY <1>1, <1>2, <1>8, <1>11, <1>12, <1>13, <2>1, <2>2, <2>3, <2>4, <2>5, <2>6 DEF CutInv
<1>15. ASSUME "power" \in Faults PROVE DeviceInv'
  <2>1. DeviceInv /\ LenInv /\ Durable = Visible
    BY <1>2, <1>15, DeviceAgrees DEF HybridInv, DeviceInv
  <2>2. Zeroed(copies)'
    BY <1>5, <1>6, <2>1 DEF DeviceInv, Zeroed
  <2>3. LenInv'
    BY <1>1, <1>2, <1>3, <1>7, <1>8, <1>13, <2>1 DEF LenInv, EmptyFrom, Frontier
  <2> QED
    BY <1>1, <1>2, <2>1, <2>2, <2>3 DEF DeviceInv, LossInv, Zeroed
<1> QED
  BY <1>1, <1>9, <1>10, <1>14, <1>15 DEF HybridInv

\* There is no tail, and recover() ends.
LEMMA NoTailHolds ==
  ASSUME HybridInv, NoTail, RowInv'
  PROVE  HybridInv'
<1>1. /\ startup = "deleted" /\ startup' = "recovered" /\ len <= Frontier
      /\ UNCHANGED <<super, copies, dsuper, dcopies, tx, call, owed, acked, row, len, dlen>>
  BY DEF NoTail
<1>2. tx.phase = "idle" /\ OwedInv /\ ContentInv
  BY <1>1 DEF HybridInv, RowInv
<1>3. OwedInv' /\ Visible' = Visible /\ Durable' = Durable
  BY <1>1, <1>2, OwedSteady DEF Visible, Durable, Image, MetaOf, Epoch, ActiveSlot
<1>4. Epoch(super)' = Epoch(super) /\ Frontier' = Frontier /\ VisibleRows' = VisibleRows
  BY <1>1, <1>3, RowsSteady DEF Frontier
<1>5. ContentInv'
  BY <1>1, <1>2, <1>3, <1>4, ContentSteady DEF ContentInv
<1>6. TxInv' /\ Fresh(copies, Epoch(super), Frontier)'
  BY <1>1, <1>2, <1>4 DEF HybridInv, TxInv, Fresh
<1>7. ASSUME "power" \in Faults PROVE DeviceInv'
  <2>1. DeviceInv /\ LenInv
    BY <1>7 DEF HybridInv, DeviceInv
  <2>2. EmptyFrom(copies, Frontier)
    <3>1. Frontier \in Nat
      BY <1>2 DEF ContentInv, TableInv, TableOK, Formed, Metas, Frontier
    <3>2. ASSUME NEW p \in Page, p >= Frontier PROVE p >= len
      <4>1. p \in Nat /\ len \in Nat
        BY <2>1, PageAssumption DEF LenInv
      <4> QED
        BY <1>1, <3>1, <3>2, <4>1
    <3> QED
      BY <2>1, <3>2 DEF LenInv, EmptyFrom
  <2>3. LenInv'
    BY <1>1, <1>2, <1>3, <1>4, <2>1, <2>2 DEF LenInv, EmptyFrom
  <2> QED
    BY <1>1, <1>2, <2>1, <2>3 DEF DeviceInv, LossInv, Zeroed
<1> QED
  BY <1>1, <1>3, <1>5, <1>6, <1>7 DEF HybridInv

\* The fsync that ends recover().
LEMMA SyncTailHolds ==
  ASSUME HybridInv, SyncTail, RowInv'
  PROVE  HybridInv'
<1>1. /\ startup = "truncated" /\ startup' = "recovered" /\ dlen' = len
      /\ dsuper' = super /\ dcopies' = copies
      /\ UNCHANGED <<super, copies, tx, call, owed, acked, row, len>>
  BY DEF SyncTail, Fsync
<1>2. CutInv /\ ContentInv /\ tx.phase = "idle"
  BY <1>1 DEF HybridInv, CutInv
<1>3. /\ Epoch(super)' = Epoch(super) /\ VisibleRows' = VisibleRows /\ Visible' = Visible
      /\ Epoch(dsuper)' = Epoch(super) /\ Stale' = Stale
  BY <1>1, RowsSteady DEF Visible, Image, MetaOf, Epoch, ActiveSlot, Stale
<1>4. Durable' = Visible /\ Frontier' = Frontier /\ OwedPages' = OwedPages
  BY <1>1, <1>3 DEF Durable, Visible, Image, MetaOf, Epoch, ActiveSlot, Frontier, OwedPages
<1>5. OwedInv'
  <2>1. DeviceOK'
    BY <1>1, <1>2 DEF DeviceOK
  <2>2. SuperOK(super)' /\ SuperOK(dsuper)' /\ TxOK' /\ WrittenOK'
    BY <1>1, <1>2 DEF CutInv, TxOK, WrittenOK
  <2>3. CopiesOK(copies, Epoch(super))' /\ CopiesOK(dcopies, Epoch(dsuper))'
    BY <1>1, <1>2, <1>3 DEF CutInv, CopiesOK
  <2>4. PagesInv'
    BY <2>1, <2>2, <2>3 DEF PagesInv
  <2>5. Stale' \subseteq OwedPages'
    BY <1>2, <1>3, <1>4 DEF CutInv
  <2> QED
    BY <1>1, <1>2, <2>4, <2>5 DEF OwedInv, CutInv, OwedPages
<1>6. ContentInv'
  BY <1>1, <1>2, <1>3, ContentSteady DEF ContentInv
<1>7. TxInv' /\ Fresh(copies, Epoch(super), Frontier)'
  BY <1>1, <1>2, <1>3, <1>4 DEF HybridInv, TxInv, Fresh
<1>8. ASSUME "power" \in Faults PROVE DeviceInv'
  <2>1. DeviceInv /\ LenInv
    BY <1>8 DEF HybridInv, DeviceInv
  <2>2. LenInv'
    BY <1>1, <1>2, <1>3, <1>4, <1>8, <2>1 DEF LenInv, EmptyFrom, CutInv
  <2> QED
    BY <1>1, <1>2, <2>1, <2>2 DEF DeviceInv, LossInv, Zeroed
<1> QED
  BY <1>1, <1>5, <1>6, <1>7, <1>8 DEF HybridInv

-----------------------------------------------------------------------------

\* Two images of the same pages and metadata hold the same keys.
LEMMA DeviceContent ==
  ASSUME ContentInv, Durable = Visible, dsuper = super
  PROVE  /\ TableInv(Durable.pages, Durable.meta)
         /\ acked \subseteq Stored \cup RowsUpTo(Epoch(dsuper))
         /\ IsFiniteSet(RowsUpTo(Epoch(dsuper)))
         /\ Cardinality(RowsUpTo(Epoch(dsuper))) = Durable.meta.overflow
BY DEF ContentInv, Stored, Shown, RowsUpTo, VisibleRows

\* What the device holds of a page beyond the committed ones is not committed
\* either.
LEMMA DeviceFresh ==
  ASSUME PagesInv, "power" \in Faults, tx.phase # "published", NEW n \in Nat,
         Fresh(copies, Epoch(super), n)
  PROVE  Fresh(dcopies, Epoch(dsuper), n)
<1> DEFINE e == Epoch(super)
<1>1. DeviceOK /\ dsuper = super /\ e \in Nat
  BY EpochIsNat DEF PagesInv, DeviceOK
<1> SUFFICES ASSUME NEW p \in Page, p >= n PROVE ~HasCommitted(dcopies[p], e)
  BY <1>1 DEF Fresh
<1> DEFINE c == copies[p]
           d == dcopies[p]
<1>2. CopyOK(c, e) /\ CopyOK(d, e) /\ ~HasCommitted(c, e)
  BY <1>1 DEF PagesInv, CopiesOK, Fresh
<1>3. \A s \in Slot :
        \/ d[s] = c[s]
        \/ /\ c[s].epoch = e + 1
           /\ d[s].epoch = e + 1 \/ d[s].epoch = 0 \/ d[s].epoch < c[1 - s].epoch
  BY <1>1 DEF DeviceOK
<1> HIDE DEF c, d
<1>4. \A s \in Slot : c[s].epoch = 0 \/ c[s].epoch = e + 1
  BY <1>1, <1>2 DEF CopyOK, HasCommitted, Committed, Slot
<1>5. c[0].epoch = 0 \/ c[1].epoch = 0
  BY <1>1, <1>2, <1>4 DEF CopyOK, Slot
<1>6. \A s \in Slot : c[s].epoch = e + 1 => c[1 - s].epoch = 0
  BY <1>1, <1>4, <1>5 DEF Slot
<1>7. \A s \in Slot : d[s].epoch \in Nat
  BY <1>2 DEF CopyOK
<1>8. ASSUME NEW s \in Slot PROVE d[s].epoch = 0 \/ d[s].epoch = e + 1
  BY <1>1, <1>3, <1>4, <1>6, <1>7
<1>9. ~HasCommitted(d, e)
  BY <1>1, <1>8 DEF HasCommitted, Committed, Slot
<1> QED
  BY <1>9 DEF d

\* A killed process leaves the file as it is, and ahead only pages of the
\* insert() it now owes; the pages of an insertion in the overflow are none.
LEMMA KilledOwes ==
  ASSUME HybridInv, SingleFault, HybridFault, Killed
  PROVE  OwedInv' /\ "power" \notin Faults
<1>2. /\ "process" \in Faults /\ call' = NoKey
      /\ owed' = IF call = NoKey \/ InOverflow THEN owed ELSE call
  BY DEF Killed, ProcessCrash, HybridFault
<1>3. "power" \notin Faults
  BY <1>2, FaultsAssumption DEF SingleFault
<1>4. /\ SuperOK(super) /\ SuperOK(dsuper) /\ CopiesOK(copies, Epoch(super))
      /\ CopiesOK(dcopies, Epoch(dsuper)) /\ TxOK /\ WrittenOK
      /\ call = NoKey <=> tx.phase = "idle"
  BY DEF HybridInv, CutInv, OwedInv, PagesInv
<1>5. UNCHANGED <<super, copies, dsuper, dcopies>> /\ tx'.phase = "idle"
  BY DEF Killed, ProcessCrash, NoTx
<1>6. TxOK' /\ WrittenOK'
  <2>1. TxOK'
    BY <1>4 DEF Killed, ProcessCrash, NoTx, TxOK
  <2> QED
    BY <1>5, <2>1 DEF WrittenOK
<1>7. PagesInv'
  BY <1>3, <1>4, <1>5, <1>6 DEF PagesInv, CopiesOK, Epoch, ActiveSlot
<1>8. Visible' = Visible /\ Stale' = Stale
  BY <1>5 DEF Visible, Image, MetaOf, Epoch, ActiveSlot, Stale
<1>9. Stale' \subseteq OwedPages'
  <2>1. CASE tx.phase = "idle"
    <3>1. Stale \subseteq OwedPages
      BY <2>1 DEF HybridInv, CutInv, OwedInv, OwedPages
    <3> QED
      BY <1>2, <1>4, <1>8, <2>1, <3>1 DEF OwedPages
  <2>2. CASE tx.phase = "published"
    BY <1>4, <1>8, <2>2 DEF WrittenOK
  <2>3. CASE tx.phase \in {"writing", "synced"}
    <3>1. OwedInv /\ Stale \subseteq DOMAIN tx.changes
      BY <1>4, <2>3 DEF HybridInv, CutInv, WrittenOK
    <3>2. CASE InOverflow
      <4>1. DOMAIN tx.changes = {}
        BY <3>2 DEF InOverflow
      <4> QED
        BY <1>8, <3>1, <4>1
    <3>3. CASE ~InOverflow
      BY <1>2, <1>4, <1>8, <2>3, <3>1, <3>3 DEF OwedInv, OwedPages, Planned
    <3> QED
      BY <3>2, <3>3
  <2> QED
    BY <1>4, <2>1, <2>2, <2>3 DEF TxOK
<1> QED
  BY <1>2, <1>3, <1>5, <1>7, <1>9 DEF OwedInv, OwedPages

\* SIGKILL.
LEMMA KilledHolds ==
  ASSUME HybridInv, SingleFault, "error" \notin Faults, HybridFault, Killed, RowInv'
  PROVE  HybridInv'
<1>1. OwedInv' /\ "power" \notin Faults
  BY KilledOwes
<1>2. /\ UNCHANGED <<super, copies, row, acked>> /\ tx'.phase = "idle" /\ call' = NoKey
      /\ owed' \in {owed, call}
  BY DEF HybridFault, Killed, ProcessCrash, NoTx
<1>3. startup' = "unrecovered"
  BY DEF HybridFault, Raised
<1>4. Visible' = Visible /\ VisibleRows' = VisibleRows /\ Epoch(super)' = Epoch(super)
      /\ Frontier' = Frontier
  BY <1>2, RowsSteady DEF Visible, Image, MetaOf, Epoch, ActiveSlot, Frontier
<1>5. ContentInv'
  BY <1>2, <1>4, ContentSteady DEF HybridInv, ContentInv
<1>6. TxInv' /\ Fresh(copies, Epoch(super), Frontier)'
  BY <1>2, <1>4 DEF HybridInv, TxInv, Fresh
<1> QED
  BY <1>1, <1>3, <1>5, <1>6 DEF HybridInv

\* What a power loss would show: the state a reader sees, or the one before a
\* superblock that is not synced.
LEMMA DeviceHolds ==
  ASSUME HybridInv, "power" \in Faults
  PROVE  /\ TableInv(Durable.pages, Durable.meta)
         /\ Fresh(dcopies, Epoch(dsuper), Durable.meta.nextPage)
         /\ acked \subseteq Stored \cup RowsUpTo(Epoch(dsuper))
         /\ IsFiniteSet(RowsUpTo(Epoch(dsuper)))
         /\ Cardinality(RowsUpTo(Epoch(dsuper))) = Durable.meta.overflow
<1>1. CASE tx.phase = "published" /\ dsuper # super
  BY <1>1 DEF HybridInv, DeviceInv, LossInv
<1>2. CASE tx.phase = "published" => dsuper = super
  <2>1. Durable = Visible /\ dsuper = super
    BY <1>2, DeviceAgrees
  <2>2. Fresh(dcopies, Epoch(dsuper), Frontier)
    <3>1. CASE startup = "truncated"
      BY <3>1 DEF HybridInv, CutInv
    <3>2. CASE startup # "truncated" /\ tx.phase # "published"
      <4>1. Frontier \in Nat
        BY DEF HybridInv, ContentInv, TableInv, TableOK, Formed, Metas, Frontier
      <4> QED
        BY <3>2, <4>1, DeviceFresh DEF HybridInv, OwedInv
    <3>3. CASE startup # "truncated" /\ tx.phase = "published"
      <4>1. dcopies = copies
        BY <3>3 DEF HybridInv, OwedInv, PagesInv, DeviceOK
      <4> QED
        BY <2>1, <4>1 DEF HybridInv
    <3> QED
      BY <3>1, <3>2, <3>3
  <2> QED
    BY <2>1, <2>2, DeviceContent DEF HybridInv, Frontier
<1> QED
  BY <1>1, <1>2

\* The pages a power loss leaves ahead are planned again by what is owed.
LEMMA LostIsOwed ==
  ASSUME HybridInv, "power" \in Faults
  PROVE  DeviceStale \subseteq IF call = NoKey \/ InOverflow
                               THEN (IF owed = NoKey THEN {} ELSE Planned(Durable, owed))
                               ELSE Planned(Durable, call)
<1>1. CASE startup = "truncated"
  BY <1>1, DeviceAgrees DEF HybridInv, CutInv, OwedPages
<1>2. CASE startup # "truncated"
  <2>1. OwedInv /\ PagesInv /\ TxOK
    BY <1>2 DEF HybridInv, OwedInv, PagesInv
  <2>2. CASE tx.phase = "idle"
    BY <2>1, <2>2, DeviceAgrees, DeviceAheadIsAhead DEF OwedInv
  <2>3. CASE tx.phase \in {"writing", "synced"}
    <3>1. /\ Durable = Visible /\ DeviceStale \subseteq Stale /\ Stale \subseteq DOMAIN tx.changes
          /\ DOMAIN tx.changes = Planned(Visible, call) /\ call # NoKey
      BY <2>1, <2>3, DeviceAgrees, DeviceAheadIsAhead DEF OwedInv, PagesInv, WrittenOK
    <3>2. InOverflow => DOMAIN tx.changes = {}
      BY DEF InOverflow
    <3> QED
      BY <3>1, <3>2
  <2>4. CASE tx.phase = "published" /\ dsuper = super
    <3>1. DeviceStale = Stale /\ Stale = {}
      BY <2>1, <2>4 DEF PagesInv, DeviceOK, WrittenOK, DeviceStale, Stale
    <3> QED
      BY <3>1
  <2>5. CASE tx.phase = "published" /\ dsuper # super
    <3>1. DeviceStale \subseteq DOMAIN tx.changes /\ call # NoKey
          /\ DeviceStale \subseteq Planned(Durable, call)
      BY <2>1, <2>5 DEF HybridInv, DeviceInv, LossInv, OwedInv
    <3>2. InOverflow => DOMAIN tx.changes = {}
      BY DEF InOverflow
    <3> QED
      BY <3>1, <3>2
  <2> QED
    BY <2>1, <2>2, <2>3, <2>4, <2>5 DEF TxOK
<1> QED
  BY <1>1, <1>2

\* Power loss.
LEMMA UnpoweredHolds ==
  ASSUME HybridInv, "error" \notin Faults, HybridFault, Unpowered, RowInv'
  PROVE  HybridInv'
<1>1. /\ "power" \in Faults /\ super' = dsuper /\ copies' = dcopies /\ tx' = NoTx /\ len' = dlen
      /\ UNCHANGED <<dsuper, dcopies, dlen, row, acked>> /\ call' = NoKey
      /\ owed' = IF call = NoKey \/ InOverflow THEN owed ELSE call
  BY DEF HybridFault, Unpowered, PowerLoss
<1>2. startup' = "unrecovered" /\ tx'.phase = "idle" /\ tx'.phase # "published"
  BY <1>1 DEF HybridFault, Raised, NoTx
<1>3. /\ Visible' = Durable /\ Durable' = Durable /\ Epoch(super)' = Epoch(dsuper)
      /\ Stale' = DeviceStale /\ Frontier' = Durable.meta.nextPage
      /\ VisibleRows' = RowsUpTo(Epoch(dsuper))
  BY <1>1 DEF Visible, Durable, Image, MetaOf, Epoch, ActiveSlot, Stale, DeviceStale, Frontier,
     VisibleRows, RowsUpTo, RowVisible
<1>4. /\ TableInv(Durable.pages, Durable.meta)
      /\ Fresh(dcopies, Epoch(dsuper), Durable.meta.nextPage)
      /\ acked \subseteq Stored \cup RowsUpTo(Epoch(dsuper))
      /\ IsFiniteSet(RowsUpTo(Epoch(dsuper)))
      /\ Cardinality(RowsUpTo(Epoch(dsuper))) = Durable.meta.overflow
  BY <1>1, DeviceHolds
<1>5. Shown' = Stored
  BY <1>3 DEF Shown, Stored
<1>6. ContentInv'
  <2>1. owed' \in Key \cup {NoKey} /\ call' \in Key \cup {NoKey} /\ acked' \subseteq Key
    BY <1>1 DEF HybridInv, ContentInv
  <2> QED
    BY <1>1, <1>2, <1>3, <1>4, <1>5, <2>1 DEF ContentInv
<1>7. TxInv' /\ Fresh(copies, Epoch(super), Frontier)'
  BY <1>1, <1>2, <1>3, <1>4 DEF TxInv, Fresh
<1>8. OwedInv'
  <2>1. SuperOK(dsuper) /\ CopiesOK(dcopies, Epoch(dsuper))
    BY DEF HybridInv, CutInv, OwedInv, PagesInv
  <2>2. TxOK'
    BY <1>1 DEF NoTx, TxOK
  <2>3. WrittenOK' /\ DeviceOK'
    BY <1>1, <1>2 DEF WrittenOK, DeviceOK
  <2>4. PagesInv'
    BY <1>1, <2>1, <2>2, <2>3 DEF PagesInv, CopiesOK, Epoch, ActiveSlot
  <2>5. Stale' \subseteq IF owed' = NoKey THEN {} ELSE Planned(Visible', owed')
    BY <1>1, <1>3, LostIsOwed
  <2>6. Stale' \subseteq (IF owed = NoKey THEN {} ELSE Planned(Visible, owed))'
    BY <2>5 DEF Planned
  <2> QED
    BY <1>1, <1>2, <2>4, <2>6 DEF OwedInv
<1>9. DeviceInv'
  <2>1. DeviceInv /\ LenInv
    BY <1>1 DEF HybridInv, DeviceInv
  <2>2. LenInv'
    BY <1>1, <1>2, <1>3, <2>1 DEF LenInv, EmptyFrom
  <2> QED
    BY <1>1, <1>2, <2>1, <2>2 DEF DeviceInv, LossInv, Zeroed
<1> QED
  BY <1>2, <1>6, <1>7, <1>8, <1>9 DEF HybridInv

-----------------------------------------------------------------------------

\* What reaches the device leaves what a reader sees.
LEMMA FlushShows ==
  ASSUME HybridInv, UNCHANGED <<super, copies, tx, call, owed, acked, row, len, startup>>
  PROVE  /\ ContentInv' /\ TxInv' /\ Fresh(copies, Epoch(super), Frontier)'
         /\ Visible' = Visible /\ Frontier' = Frontier
<1>1. Visible' = Visible /\ VisibleRows' = VisibleRows /\ Epoch(super)' = Epoch(super)
      /\ Frontier' = Frontier
  BY RowsSteady DEF Visible, Image, MetaOf, Epoch, ActiveSlot, Frontier
<1>2. ContentInv'
  BY <1>1, ContentSteady DEF HybridInv, ContentInv
<1>3. TxInv'
  <2>1. PlanNow(call)' = PlanNow(call)
    BY <1>1 DEF PlanNow
  <2> QED
    BY <1>1, <2>1 DEF HybridInv, TxInv
<1> QED
  BY <1>1, <1>2, <1>3 DEF HybridInv, Fresh

\* The device's length grows with a page beyond it.
LEMMA PageGrows ==
  ASSUME "power" \in Faults, dcopies = [p \in Page |-> dcopies[p]], LenInv, Writeback,
         dlen' = IF \E p \in Page : p >= dlen /\ dcopies'[p] # dcopies[p]
                 THEN CHOOSE n \in {p + 1 : p \in Page} : n > dlen /\ dcopies'[n-1] # dcopies[n-1]
                 ELSE dlen
  PROVE  dlen' \in Nat /\ dlen <= dlen' /\ EmptyFrom(dcopies', dlen')
<1> DEFINE Grown2(n) == n > dlen /\ dcopies'[n-1] # dcopies[n-1]
<1>0. dlen \in Nat /\ EmptyFrom(dcopies, dlen)
  BY DEF LenInv
<1>1. CASE UNCHANGED dcopies
  BY <1>0, <1>1
<1>2. ASSUME NEW p \in Page, NEW s \in Slot, dcopies' = [dcopies EXCEPT ![p][s] = copies[p][s]]
      PROVE  dlen' \in Nat /\ dlen <= dlen' /\ EmptyFrom(dcopies', dlen')
  <2>1. \A q \in Page : q # p => dcopies'[q] = dcopies[q]
    BY <1>2
  <2>2. p \in Nat
    BY PageAssumption
  <2>3. CASE p >= dlen /\ dcopies'[p] # dcopies[p]
    <3>1. p + 1 \in {q + 1 : q \in Page} /\ Grown2(p + 1)
      BY <1>0, <2>2, <2>3
    <3>2. \A n \in {q + 1 : q \in Page} : Grown2(n) => n = p + 1
      BY <2>1, PageAssumption
    <3>3. dlen' = CHOOSE n \in {q + 1 : q \in Page} : Grown2(n)
      BY <2>3
    <3>4. dlen' = p + 1
      BY <3>1, <3>2, <3>3
    <3>5. ASSUME NEW q \in Page, q >= p + 1 PROVE dcopies'[q] = Empty
      <4>1. q \in Nat /\ q # p /\ q >= dlen
        BY <1>0, <2>2, <2>3, <3>5, PageAssumption
      <4> QED
        BY <1>0, <2>1, <4>1 DEF EmptyFrom
    <3>6. EmptyFrom(dcopies', dlen')
      BY <3>4, <3>5 DEF EmptyFrom
    <3>7. dlen' \in Nat /\ dlen <= dlen'
      <4>1. p >= dlen
        BY <2>3
      <4>2. p + 1 \in Nat /\ dlen <= p + 1
        BY <1>0, <2>2, <4>1
      <4> QED
        BY <3>4, <4>2, Zenon
    <3> QED
      BY <3>6, <3>7
  <2>4. CASE ~(p >= dlen /\ dcopies'[p] # dcopies[p])
    <3>1. ~\E q \in Page : q >= dlen /\ dcopies'[q] # dcopies[q]
      BY <2>1, <2>4
    <3> QED
      BY <1>0, <3>1 DEF EmptyFrom
  <2> QED
    BY <2>3, <2>4
<1> QED
  BY <1>1, <1>2 DEF Writeback

\* Between the truncation and its fsync the device only loses the tail.
LEMMA CutFlush ==
  ASSUME HybridInv, startup = "truncated", "power" \in Faults, RowInv',
         UNCHANGED <<super, copies, dsuper, tx, call, owed, acked, row, len, startup>>,
         dcopies' = [p \in Page |-> dcopies'[p]],
         \A p \in Page : /\ p < Frontier => dcopies'[p] = dcopies[p]
                         /\ dcopies'[p] = [s \in Slot |-> dcopies'[p][s]]
                         /\ \A s \in Slot : dcopies'[p][s] \in {dcopies[p][s], Absent},
         dlen' \in Nat, Frontier <= dlen', EmptyFrom(dcopies', dlen')
  PROVE  HybridInv'
<1>1. CutInv /\ DeviceInv /\ LenInv
  BY DEF HybridInv, DeviceInv
<1>2. ContentInv' /\ TxInv' /\ Fresh(copies, Epoch(super), Frontier)' /\ Visible' = Visible
      /\ Frontier' = Frontier
  BY FlushShows
<1>3. Epoch(super)' = Epoch(super) /\ Epoch(dsuper)' = Epoch(dsuper)
      /\ Epoch(dsuper) \in Nat
  BY <1>1, EpochIsNat DEF CutInv, Epoch, ActiveSlot
<1>4. CopiesOK(dcopies, Epoch(dsuper))'
  <2>1. ASSUME NEW p \in Page PROVE CopyOK(dcopies'[p], Epoch(dsuper))
    <3>1. CopyOK(dcopies[p], Epoch(dsuper))
      BY <1>1 DEF CutInv, CopiesOK
    <3>2. dcopies'[p] = [s \in Slot |-> dcopies'[p][s]]
          /\ \A s \in Slot : dcopies'[p][s] = dcopies[p][s] \/ dcopies'[p][s].epoch = 0
      BY DEF Absent
    <3> QED
      BY <1>3, <3>1, <3>2 DEF CopyOK, Slot
  <2> QED
    BY <1>3, <2>1 DEF CopiesOK
<1>5. DeviceStale' \subseteq DeviceStale
  <2>1. \A p \in Page, s \in Slot : dcopies'[p][s] = dcopies[p][s] \/ dcopies'[p][s].epoch = 0
    BY DEF Absent
  <2> QED
    BY <1>3, <2>1 DEF DeviceStale
<1>6. Fresh(dcopies, Epoch(dsuper), Frontier)'
  <2>1. \A p \in Page, s \in Slot : dcopies'[p][s] = dcopies[p][s] \/ dcopies'[p][s].epoch = 0
    BY DEF Absent
  <2>2. Fresh(dcopies, Epoch(dsuper), Frontier)
    BY <1>1 DEF CutInv
  <2> QED
    BY <1>2, <1>3, <2>1, <2>2 DEF Fresh, HasCommitted, Committed, Slot
<1>7. CutInv'
  <2>1. OwedPages' = OwedPages /\ Stale' = Stale /\ EmptyFrom(copies, Frontier)'
    BY <1>1, <1>2 DEF CutInv, OwedPages, Stale, Epoch, ActiveSlot, EmptyFrom
  <2>2. SuperOK(super)' /\ SuperOK(dsuper)' /\ TxOK' /\ WrittenOK'
    BY <1>1 DEF CutInv, TxOK, WrittenOK
  <2>3. CopiesOK(copies, Epoch(super))'
    BY <1>1, <1>3 DEF CutInv, CopiesOK
  <2>4. \A p \in Page : p < Frontier => dcopies'[p] = copies'[p]
    BY <1>1 DEF CutInv
  <2> QED
    BY <1>1, <1>2, <1>4, <1>5, <1>6, <2>1, <2>2, <2>3, <2>4 DEF CutInv
<1>8. DeviceInv'
  <2>1. Durable'.meta = Durable.meta /\ Durable = Visible
    BY <1>1, DeviceAgrees DEF CutInv, Durable, MetaOf, ActiveSlot
  <2>2. LenInv'
    BY <1>1, <1>2, <2>1 DEF LenInv, EmptyFrom, Frontier, CutInv
  <2>3. Zeroed(dcopies)'
    BY <1>1 DEF DeviceInv, Zeroed
  <2> QED
    BY <1>1, <2>2, <2>3 DEF DeviceInv, LossInv, Zeroed, CutInv
<1> QED
  BY <1>2, <1>7, <1>8 DEF HybridInv

\* A page or the superblock reaches the device.
LEMMA WritebackHolds ==
  ASSUME HybridInv, Flush, Writeback, RowInv',
         dlen' = IF \E p \in Page : p >= dlen /\ dcopies'[p] # dcopies[p]
                 THEN CHOOSE n \in {p + 1 : p \in Page} : n > dlen /\ dcopies'[n-1] # dcopies[n-1]
                 ELSE dlen
  PROVE  HybridInv'
<1>1. /\ UNCHANGED <<super, copies, tx, call, owed, acked, row, len, startup>>
      /\ "power" \in Faults
  BY DEF Flush, Writeback
<1>2. DeviceInv /\ LenInv
  BY <1>1 DEF HybridInv, DeviceInv
<1>3. CopiesOK(dcopies, Epoch(dsuper)) /\ dcopies = [p \in Page |-> dcopies[p]]
  BY DEF HybridInv, CutInv, OwedInv, PagesInv, CopiesOK
<1>4. dlen' \in Nat /\ dlen <= dlen' /\ EmptyFrom(dcopies', dlen')
  BY <1>1, <1>2, <1>3, PageGrows
<1>5. CASE startup = "truncated"
  <2>1. CutInv /\ dsuper = super /\ Durable = Visible
    BY <1>1, <1>5, DeviceAgrees DEF HybridInv, CutInv
  <2>2. PICK p \in Page, s \in Slot :
          /\ dcopies[p][s] # copies[p][s]
          /\ dcopies' = [dcopies EXCEPT ![p][s] = copies[p][s]]
          /\ UNCHANGED dsuper
    BY <2>1 DEF Writeback
  <2>3. Frontier \in Nat /\ p \in Nat /\ Frontier <= dlen'
    <3>1. Frontier \in Nat
      BY DEF HybridInv, ContentInv, TableInv, TableOK, Formed, Metas, Frontier
    <3>2. Frontier <= dlen /\ dlen \in Nat
      BY <1>2, <2>1 DEF LenInv, Frontier
    <3> QED
      BY <1>4, <3>1, <3>2, PageAssumption
  <2>4. ~(p < Frontier) /\ copies[p][s] = Absent
    <3>1. ~(p < Frontier)
      BY <1>1, <2>1, <2>2 DEF CutInv
    <3>2. copies[p] = Empty
      BY <1>1, <2>1, <2>3, <3>1 DEF CutInv, EmptyFrom
    <3> QED
      BY <3>1, <3>2 DEF Empty
  <2>5. \A q \in Page : dcopies[q] = [x \in Slot |-> dcopies[q][x]]
    BY <1>3 DEF CopiesOK, CopyOK
  <2>6. /\ dcopies' = [q \in Page |-> dcopies'[q]]
        /\ \A q \in Page : /\ q < Frontier => dcopies'[q] = dcopies[q]
                           /\ dcopies'[q] = [x \in Slot |-> dcopies'[q][x]]
                           /\ \A x \in Slot : dcopies'[q][x] \in {dcopies[q][x], Absent}
    <3>1. dcopies' = [q \in Page |-> IF q = p THEN [dcopies[p] EXCEPT ![s] = Absent] ELSE dcopies[q]]
      BY <1>3, <2>2, <2>4
    <3>2. ASSUME NEW q \in Page
          PROVE  /\ q < Frontier => dcopies'[q] = dcopies[q]
                 /\ dcopies'[q] = [x \in Slot |-> dcopies'[q][x]]
                 /\ \A x \in Slot : dcopies'[q][x] \in {dcopies[q][x], Absent}
      <4>1. CASE q = p
        <5>1. dcopies'[q] = [x \in Slot |-> IF x = s THEN Absent ELSE dcopies[q][x]]
          BY <2>5, <3>1, <4>1
        <5> QED
          BY <2>4, <4>1, <5>1
      <4>2. CASE q # p
        BY <2>5, <3>1, <4>2
      <4> QED
        BY <4>1, <4>2
    <3> QED
      BY <3>1, <3>2
  <2> QED
    BY <1>1, <1>4, <1>5, <2>2, <2>3, <2>6, CutFlush
<1>6. CASE startup # "truncated"
  <2>1. OwedInv /\ PagesInv /\ TxOK /\ DeviceOK
    BY <1>1, <1>6 DEF HybridInv, OwedInv, PagesInv
  <2>2. OwedInv'
    BY <1>1, <2>1, WritingKeeps, PublishedWritebackKeeps
  <2>3. ContentInv' /\ TxInv' /\ Fresh(copies, Epoch(super), Frontier)' /\ Visible' = Visible
        /\ Frontier' = Frontier
    BY <1>1, FlushShows
  <2>4. tx.phase # "idle"
    BY <1>2, <1>6, <2>1 DEF DeviceInv, DeviceOK, Writeback
  <2>5. Zeroed(dcopies)'
    <3> SUFFICES ASSUME NEW q \in Page, NEW x \in Slot, dcopies'[q][x].epoch = 0
                 PROVE  dcopies'[q][x] = Absent
      BY DEF Zeroed
    <3>1. dcopies'[q][x] \in {dcopies[q][x], copies[q][x]}
      <4>1. CASE dcopies' = dcopies
        BY <4>1
      <4>2. ASSUME NEW p \in Page, NEW s \in Slot, dcopies' = [dcopies EXCEPT ![p][s] = copies[p][s]]
            PROVE  dcopies'[q][x] \in {dcopies[q][x], copies[q][x]}
        <5>1. dcopies'[q] = IF q = p THEN [dcopies[p] EXCEPT ![s] = copies[p][s]] ELSE dcopies[q]
          BY <1>3, <4>2
        <5>2. dcopies[q] = [y \in Slot |-> dcopies[q][y]]
          BY <1>3 DEF CopiesOK, CopyOK
        <5> QED
          BY <5>1, <5>2
      <4> QED
        BY <4>1, <4>2 DEF Writeback
    <3> QED
      BY <1>2, <3>1 DEF DeviceInv, Zeroed
  <2>6. CASE dsuper' = dsuper
    <3>1. Durable'.meta = Durable.meta
      BY <2>6 DEF Durable, MetaOf, ActiveSlot
    <3>2. LenInv'
      <4>1. /\ len' \in Nat /\ EmptyFrom(copies, len)' /\ Visible'.meta.nextPage <= len'
            /\ Durable'.meta.nextPage <= len'
            /\ tx'.phase \in {"writing", "synced"} => tx'.meta.nextPage <= len'
            /\ tx'.phase # "idle" /\ EmptyFrom(dcopies, dlen)'
        BY <1>1, <1>2, <1>4, <2>3, <2>4, <3>1 DEF LenInv, EmptyFrom
      <4>2. Durable'.meta.nextPage \in Nat /\ Visible'.meta.nextPage \in Nat
        BY <1>1, <2>3, <3>1, DeviceHolds DEF ContentInv, TableInv, TableOK, Formed, Metas
      <4>3. tx.phase = "synced" => tx.meta.nextPage \in Nat
        BY TxCommits
      <4>4. /\ Durable'.meta.nextPage <= dlen'
            /\ tx'.phase = "synced" => tx'.meta.nextPage <= dlen'
            /\ tx'.phase = "published" => Visible'.meta.nextPage <= dlen'
        BY <1>1, <1>2, <1>4, <2>3, <3>1, <4>2, <4>3 DEF LenInv
      <4> QED
        BY <1>4, <4>1, <4>4 DEF LenInv
    <3>3. LossInv'
      <4>1. tx.phase = "published" /\ dsuper # super => FALSE
        BY <2>1, <2>6 DEF DeviceOK, Writeback
      <4> QED
        BY <1>1, <2>6, <4>1 DEF LossInv
    <3> QED
      BY <1>1, <1>2, <1>6, <2>2, <2>3, <2>4, <2>5, <3>2, <3>3 DEF HybridInv, DeviceInv, Zeroed
  <2>7. CASE dsuper' # dsuper
    <3>1. dsuper' = super /\ tx.phase = "published" /\ dcopies' = dcopies
      BY <2>1, <2>7 DEF DeviceOK, Writeback
    <3>2. Durable'.meta = Visible.meta
      BY <3>1 DEF Durable, Visible, MetaOf, ActiveSlot
    <3>3. LenInv'
      <4>1. Visible.meta.nextPage \in Nat
        BY DEF HybridInv, ContentInv, TableInv, TableOK, Formed, Metas
      <4>2. dlen' = dlen
        BY <3>1
      <4> QED
        BY <1>1, <1>2, <1>4, <2>3, <3>1, <3>2, <4>1, <4>2 DEF LenInv, EmptyFrom
    <3>4. LossInv'
      BY <1>1, <3>1 DEF LossInv
    <3> QED
      BY <1>1, <1>2, <1>6, <2>2, <2>3, <2>4, <2>5, <3>3, <3>4 DEF HybridInv, DeviceInv, Zeroed
  <2> QED
    BY <2>6, <2>7
<1> QED
  BY <1>5, <1>6

\* The file's length reaches the device alone: no page beyond it held anything,
\* unless recover() has just cut it off.
LEMMA LengthHolds ==
  ASSUME HybridInv, Flush, "power" \in Faults, dlen' = len, RowInv',
         dcopies' = [p \in Page |-> IF p < len THEN dcopies[p] ELSE Empty],
         UNCHANGED <<super, copies, dsuper, tx>>
  PROVE  HybridInv'
<1>1. UNCHANGED <<super, copies, dsuper, tx, call, owed, acked, row, len, startup>>
  BY DEF Flush
<1>2. DeviceInv /\ LenInv /\ len \in Nat
  BY DEF HybridInv, DeviceInv, LenInv
<1>3. CopiesOK(dcopies, Epoch(dsuper)) /\ dcopies = [p \in Page |-> dcopies[p]]
      /\ \A p \in Page : dcopies[p] = [s \in Slot |-> dcopies[p][s]]
  BY DEF HybridInv, CutInv, OwedInv, PagesInv, CopiesOK, CopyOK
<1>4. Frontier \in Nat /\ Frontier <= len
  BY <1>2 DEF HybridInv, ContentInv, TableInv, TableOK, Formed, Metas, Frontier, LenInv
<1>5. EmptyFrom(dcopies', len)
  <2> SUFFICES ASSUME NEW p \in Page, p >= len PROVE ~(p < len)
    BY DEF EmptyFrom
  <2>1. p \in Nat
    BY PageAssumption
  <2> QED
    BY <1>2, <2>1
<1>6. CASE startup = "truncated"
  <2>1. \A p \in Page : /\ p < Frontier => dcopies'[p] = dcopies[p]
                        /\ dcopies'[p] = [s \in Slot |-> dcopies'[p][s]]
                        /\ \A s \in Slot : dcopies'[p][s] \in {dcopies[p][s], Absent}
    <3> SUFFICES ASSUME NEW p \in Page
                 PROVE  /\ p < Frontier => dcopies'[p] = dcopies[p]
                        /\ dcopies'[p] = [s \in Slot |-> dcopies'[p][s]]
                        /\ \A s \in Slot : dcopies'[p][s] \in {dcopies[p][s], Absent}
      OBVIOUS
    <3>1. p \in Nat
      BY PageAssumption
    <3>2. CASE p < len
      BY <1>3, <3>2
    <3>3. CASE ~(p < len)
      <4>1. dcopies'[p] = [s \in Slot |-> Absent] /\ ~(p < Frontier)
        BY <1>2, <1>4, <3>1, <3>3 DEF Empty
      <4> QED
        BY <4>1
    <3> QED
      BY <3>2, <3>3
  <2> QED
    BY <1>1, <1>2, <1>4, <1>5, <1>6, <2>1, CutFlush
<1>7. CASE startup # "truncated"
  <2>1. OwedInv /\ PagesInv /\ DeviceOK /\ Epoch(super) \in Nat
    BY <1>7, EpochIsNat DEF HybridInv, OwedInv, PagesInv
  <2>2. ASSUME NEW p \in Page, ~(p < len) PROVE dcopies[p] = Empty
    <3>1. copies[p] = Empty
      BY <1>2, <2>2, PageAssumption DEF LenInv, EmptyFrom
    <3>2. ASSUME NEW s \in Slot PROVE dcopies[p][s] = copies[p][s]
      <4>1. copies[p][s].epoch = 0
        BY <3>1 DEF Empty, Absent
      <4>2. \/ dcopies = copies
            \/ dcopies[p][s] = copies[p][s]
            \/ copies[p][s].epoch = Epoch(super) + 1
        BY <2>1 DEF DeviceOK
      <4> QED
        BY <2>1, <4>1, <4>2
    <3> QED
      BY <1>3, <3>1, <3>2 DEF Empty
  <2>3. dcopies' = dcopies
    BY <1>3, <2>2
  <2>4. OwedInv'
    BY <1>1, <2>1, <2>3, OwedSteady
  <2>5. ContentInv' /\ TxInv' /\ Fresh(copies, Epoch(super), Frontier)' /\ Visible' = Visible
        /\ Frontier' = Frontier /\ Durable' = Durable
    BY <1>1, <2>3, FlushShows DEF Durable, Image, MetaOf, Epoch, ActiveSlot
  <2>6. LenInv'
    BY <1>1, <1>2, <1>5, <2>5 DEF LenInv, EmptyFrom
  <2>7. LossInv'
    <3>1. Stored' = Stored /\ RowsUpTo(Epoch(dsuper))' = RowsUpTo(Epoch(dsuper))
          /\ DeviceStale' = DeviceStale /\ Epoch(dsuper)' = Epoch(dsuper)
      BY <1>1, <2>3, <2>5 DEF Stored, RowsUpTo, RowVisible, DeviceStale, Epoch, ActiveSlot
    <3> QED
      BY <1>1, <1>2, <2>3, <2>5, <3>1 DEF DeviceInv, LossInv, Fresh
  <2> QED
    BY <1>1, <1>2, <1>7, <2>3, <2>4, <2>5, <2>6, <2>7 DEF HybridInv, DeviceInv, Zeroed
<1> QED
  BY <1>6, <1>7

-----------------------------------------------------------------------------

LEMMA InitHolds == HybridInit => HybridInv
<1> SUFFICES ASSUME HybridInit PROVE HybridInv
  OBVIOUS
<1>1. /\ Init /\ row = [k \in Key |-> 0] /\ len = FirstMeta.nextPage /\ dlen = len
      /\ startup = "recovered"
  BY DEF HybridInit
<1>2. /\ StoreInv /\ tx.phase = "idle" /\ call = NoKey /\ owed = NoKey /\ acked = {}
      /\ dsuper = super /\ dcopies = copies /\ copies = [p \in Page |-> Empty]
  BY <1>1, InitStores DEF Init, PagesInit, NoTx, Empty
<1>3. Epoch(super) \in Nat /\ OwedInv /\ SuperInv
  BY <1>2, EpochIsNat DEF StoreInv, OwedInv, PagesInv, SuperInv
<1>4. Visible.meta = FirstMeta /\ Durable.meta = FirstMeta
  BY <1>1, InitMetaAssumption DEF Init, PagesInit, Visible, Durable, MetaOf, ActiveSlot, Slot
<1>5. RowInv
  BY <1>1, <1>2, <1>3 DEF RowInv
<1>6. \A p \in Page : ~HasCommitted(copies[p], Epoch(super))
  <2>1. ~HasCommitted(Empty, Epoch(super))
    BY <1>3 DEF HasCommitted, Committed, Empty, Absent, Slot
  <2>2. \A p \in Page : copies[p] = Empty
    BY <1>2
  <2> QED
    BY <2>1, <2>2
<1>7. ContentInv
  <2>1. VisibleRows = {}
    BY <1>1 DEF VisibleRows, RowVisible
  <2>2. IsFiniteSet(VisibleRows) /\ Cardinality(VisibleRows) = Visible.meta.overflow
    BY <1>4, <2>1, FS_EmptySet DEF FirstMeta
  <2> QED
    BY <1>2, <2>2 DEF ContentInv, StoreInv
<1>8. FirstMeta.nextPage \in Nat /\ Frontier = FirstMeta.nextPage
  BY <1>2, <1>4 DEF StoreInv, TableInv, TableOK, Formed, Metas, Frontier
<1>9. DeviceInv
  <2>1. Zeroed(copies) /\ \A n : EmptyFrom(copies, n)
    BY <1>2 DEF Zeroed, EmptyFrom, Empty
  <2>2. LenInv
    BY <1>1, <1>2, <1>4, <1>8, <2>1 DEF LenInv
  <2> QED
    BY <1>2, <2>1, <2>2 DEF DeviceInv, LossInv
<1> QED
  BY <1>1, <1>2, <1>3, <1>5, <1>6, <1>7, <1>9 DEF HybridInv, TxInv, Fresh

LEMMA IdleHolds ==
  ASSUME HybridInv, UNCHANGED hybridVars
  PROVE  HybridInv'
<1>1. UNCHANGED <<super, copies, dsuper, dcopies, tx, call, owed, acked, row, len, dlen, startup>>
  BY DEF hybridVars
<1>2. /\ ContentInv' /\ TxInv' /\ Fresh(copies, Epoch(super), Frontier)' /\ Visible' = Visible
      /\ Frontier' = Frontier
  BY <1>1, FlushShows
<1>3. RowInv'
  BY <1>1, QuietKeeps DEF HybridInv
<1>4. /\ Epoch(super)' = Epoch(super) /\ Epoch(dsuper)' = Epoch(dsuper) /\ Durable' = Durable
      /\ Stale' = Stale /\ DeviceStale' = DeviceStale /\ OwedPages' = OwedPages
      /\ Stored' = Stored /\ RowsUpTo(Epoch(dsuper))' = RowsUpTo(Epoch(dsuper))
  BY <1>1, <1>2 DEF Epoch, ActiveSlot, Durable, Image, MetaOf, Stale, DeviceStale, OwedPages,
     Stored, RowsUpTo, RowVisible
<1>5. OwedInv => OwedInv'
  BY <1>1, OwedSteady
<1>6. CutInv => CutInv'
  <2> SUFFICES ASSUME CutInv PROVE CutInv'
    OBVIOUS
  <2>1. TxOK' /\ WrittenOK' /\ SuperOK(super)' /\ SuperOK(dsuper)'
    BY <1>1, <1>4 DEF CutInv, TxOK, WrittenOK
  <2> QED
    BY <1>1, <1>2, <1>4, <2>1 DEF CutInv, CopiesOK, EmptyFrom, Fresh
<1>7. DeviceInv => DeviceInv'
  <2> SUFFICES ASSUME DeviceInv PROVE DeviceInv'
    OBVIOUS
  <2>1. LenInv'
    BY <1>1, <1>2, <1>4 DEF DeviceInv, LenInv, EmptyFrom
  <2>2. LossInv'
    BY <1>1, <1>2, <1>4 DEF DeviceInv, LossInv, Fresh
  <2> QED
    BY <1>1, <2>1, <2>2 DEF DeviceInv, Zeroed
<1> QED
  BY <1>1, <1>2, <1>3, <1>5, <1>6, <1>7 DEF HybridInv

LEMMA HybridStep ==
  ASSUME RetryFirst, SingleFault, "error" \notin Faults
  PROVE  HybridInv /\ [HybridNext]_hybridVars => HybridInv'
<1> SUFFICES ASSUME HybridInv, [HybridNext]_hybridVars PROVE HybridInv'
  OBVIOUS
<1>1. RowInv'
  BY StepFollows DEF HybridInv
<1>2. ASSUME NEW k \in Key, AdmitPrimary(k) \/ DuplicatePrimary(k)
                            \/ AdmitOverflow(k) \/ DuplicateOverflow(k)
      PROVE  HybridInv'
  BY <1>1, <1>2, AdmitPrimaryHolds, AdmitOverflowHolds, DuplicateHolds
<1>3. CASE Carry
  BY <1>1, <1>3, WritePageHolds, SyncDataHolds, WriteSuperHolds DEF Carry
<1>4. CASE Finish
  BY <1>1, <1>4, FinishHolds
<1>5. CASE Recover
  BY <1>1, <1>5, DeleteHolds, TruncateHolds, NoTailHolds, SyncTailHolds DEF Recover
<1>6. CASE HybridFault
  BY <1>1, <1>6, KilledHolds, UnpoweredHolds DEF HybridFault, Raised
<1>7. CASE Flush
  BY <1>1, <1>7, WritebackHolds, LengthHolds DEF Flush, Empty
<1>8. CASE UNCHANGED hybridVars
  BY <1>8, IdleHolds
<1> QED
  BY <1>2, <1>3, <1>4, <1>5, <1>6, <1>7, <1>8 DEF HybridNext

\* HybridInv is inductive: through recover(), itself cut short, and through
\* whatever order pages, superblocks and the length of the file reach the
\* device in.  The caller repeats an interrupted insertion first, and a fault
\* ends the process.
THEOREM HybridInvariance ==
  ASSUME RetryFirst, SingleFault, "error" \notin Faults
  PROVE  HybridSpec => []HybridInv
<1>1. HybridInv /\ [HybridNext]_hybridVars => HybridInv'
  BY HybridStep
<1> QED
  BY <1>1, InitHolds, PTL DEF HybridSpec

\* lookup() over both stores finds what the table holds and the visible rows.
LEMMA LookupIsExact ==
  ASSUME NEW img, NEW m, TableInv(img, m), NEW e, NEW view, view.pages = img, view.meta = m
  PROVE  Lookup(view, e) = Kept(img, m) \cup RowsUpTo(e)
<1>1. {k \in Key : Found(img, m, k)} = Kept(img, m)
  BY FoundIsKept
<1>2. Lookup(view, e) = {k \in Key : Found(img, m, k) \/ RowVisible(k, e)}
  BY DEF Lookup
<1> QED
  BY <1>1, <1>2 DEF RowsUpTo

LEMMA HybridAnswers ==
  ASSUME HybridInv
  PROVE  /\ HybridMembers = Shown \cup VisibleRows
         /\ "power" \in Faults => DurableMembers = Stored \cup RowsUpTo(Epoch(dsuper))
<1>1. HybridMembers = Kept(Visible.pages, Visible.meta) \cup RowsUpTo(Epoch(super))
  BY LookupIsExact DEF HybridInv, ContentInv, HybridMembers
<1>2. "power" \in Faults =>
        DurableMembers = Kept(Durable.pages, Durable.meta) \cup RowsUpTo(Epoch(dsuper))
  BY DeviceHolds, LookupIsExact DEF DurableMembers
<1> QED
  BY <1>1, <1>2 DEF Shown, Stored, RowsUpTo, VisibleRows

\* A key whose insert() returned is found in one store or the other, through
\* every fault and every recovery that is cut short.
THEOREM AckedStay ==
  ASSUME RetryFirst, SingleFault, "error" \notin Faults
  PROVE  HybridSpec => []AckedKeysStay
<1>1. HybridInv => AckedKeysStay
  BY HybridAnswers DEF HybridInv, ContentInv, AckedKeysStay
<1> QED
  BY <1>1, HybridInvariance, PTL

\* The superblock counts the visible rows exactly, although row and count are
\* written by two systems that share no transaction.
THEOREM OverflowIsCounted ==
  ASSUME RetryFirst, SingleFault, "error" \notin Faults
  PROVE  HybridSpec => []OverflowCountExact
<1>1. HybridInv => OverflowCountExact
  BY DEF HybridInv, ContentInv, OverflowCountExact
<1> QED
  BY <1>1, HybridInvariance, PTL

-----------------------------------------------------------------------------
(* The two stores as one set of keys *)

InFlight == IF tx.phase \in {"writing", "synced"} THEN {call} ELSE {}

\* What the two stores answer, now and after a power loss.
Answers ==
  /\ HybridMembers = Shown \cup VisibleRows
  /\ "power" \in Faults /\ (tx.phase = "published" => dsuper = super) =>
       Durable = Visible /\ dsuper = super

LEMMA HybridAnswersInv == HybridInv => Answers
BY HybridAnswers, DeviceAgrees DEF Answers

\* An image read at an epoch, with the rows up to it, does not depend on rows
\* of later epochs.
LEMMA DurableSteady ==
  ASSUME UNCHANGED <<dsuper, dcopies>>,
         \A k \in Key : row'[k] = row[k] \/ (row[k] \in {0} \cup {n \in Nat : n > Epoch(dsuper)} /\
                                             row'[k] \in {0} \cup {n \in Nat : n > Epoch(dsuper)}),
         Epoch(dsuper) \in Nat
  PROVE  DurableMembers' = DurableMembers
<1>1. Durable' = Durable /\ Epoch(dsuper)' = Epoch(dsuper)
  BY DEF Durable, Image, MetaOf, Epoch, ActiveSlot
<1>2. \A k \in Key : RowVisible(k, Epoch(dsuper))' <=> RowVisible(k, Epoch(dsuper))
  BY <1>1 DEF RowVisible
<1> QED
  BY <1>1, <1>2 DEF DurableMembers, Lookup

\* Members, durable members and the insertion in flight, step by step.
Stutters == UNCHANGED <<HybridMembers, DurableMembers, InFlight>>
Hardens  == DurableMembers' = HybridMembers /\ UNCHANGED <<HybridMembers, InFlight>>

LEMMA StoreSteps ==
  ASSUME Stutters \/ Hardens
  PROVE  [Store!Next]_Store!vars
BY DEF Stutters, Hardens, InFlight, Store!vars, Store!Next, Store!Harden

\* What the page cache shows, with the rows as they are.
LEMMA MembersSteady ==
  ASSUME Visible' = Visible, UNCHANGED <<super, row>>
  PROVE  HybridMembers' = HybridMembers
<1>1. Epoch(super)' = Epoch(super)
  BY DEF Epoch, ActiveSlot
<1> QED
  BY <1>1 DEF HybridMembers, Lookup, RowVisible

\* After an fsync the device holds what a reader sees.
LEMMA FsyncHardens ==
  ASSUME Fsync, UNCHANGED <<super, copies, row>>
  PROVE  DurableMembers' = HybridMembers /\ HybridMembers' = HybridMembers
<1>1. Visible' = Visible /\ Durable' = Visible /\ Epoch(dsuper)' = Epoch(super)
  BY DEF Fsync, Visible, Durable, Image, MetaOf, Epoch, ActiveSlot
<1> QED
  BY <1>1, MembersSteady DEF DurableMembers, HybridMembers, Lookup, RowVisible

\* An insertion begins, in either store, over a state that is durable.
LEMMA BeginSteps ==
  ASSUME HybridInv, NEW k \in Key, AdmitPrimary(k) \/ AdmitOverflow(k)
  PROVE  Store!Next
<1>1. /\ MayInsert(k) /\ UNCHANGED <<super, copies, dsuper, dcopies>>
      /\ call' = k /\ tx'.phase \in {"writing", "synced"}
      /\ row' = row \/ (row[k] = 0 /\ row' = [row EXCEPT ![k] = Epoch(super) + 1])
  <2>1. CASE AdmitPrimary(k)
    <3>1. MayInsert(k) /\ call' = k /\ row' = row /\ BeginTx(PlanNow(k).changes, PlanNow(k).meta)
      BY <2>1 DEF AdmitPrimary, Insert
    <3> QED
      BY <3>1 DEF BeginTx
  <2>2. CASE AdmitOverflow(k)
    BY <2>2 DEF AdmitOverflow, NoTx
  <2> QED
    BY <2>1, <2>2
<1>2. tx.phase = "idle" /\ ("power" \in Faults => dsuper = super)
  BY <1>1, Ready
<1>3. /\ Epoch(super) \in Nat /\ Epoch(dsuper) \in Nat /\ Epoch(dsuper) <= Epoch(super)
      /\ row = [j \in Key |-> row[j]]
  BY EpochIsNat DEF HybridInv, RowInv, SuperInv
<1>4. \A j \in Key : row'[j] = row[j] \/ (row[j] = 0 /\ row'[j] = Epoch(super) + 1)
  BY <1>1, <1>3
<1>5. DurableMembers' = DurableMembers
  BY <1>1, <1>3, <1>4, DurableSteady
<1>6. Visible' = Visible /\ Epoch(super)' = Epoch(super)
  BY <1>1 DEF Visible, Image, MetaOf, Epoch, ActiveSlot
<1>7. \A j \in Key : RowVisible(j, Epoch(super))' <=> RowVisible(j, Epoch(super))
  BY <1>3, <1>4, <1>6 DEF RowVisible
<1>8. HybridMembers' = HybridMembers
  BY <1>6, <1>7 DEF HybridMembers, Lookup
<1>9. "power" \in Faults => DurableMembers = HybridMembers
  BY <1>2, HybridAnswersInv DEF Answers, DurableMembers, HybridMembers
<1>10. InFlight = {} /\ InFlight' = {k}
  BY <1>1, <1>2 DEF InFlight
<1>11. Store!Begin(k)
  BY <1>5, <1>8, <1>9, <1>10 DEF Store!Begin, InFlight
<1> QED
  BY <1>11 DEF Store!Next

\* The superblock shows the key of the insertion in flight.
LEMMA ShowSteps ==
  ASSUME HybridInv, Answers, Answers', WriteSuper,
         UNCHANGED <<call, owed, acked, row, len, startup, dlen>>
  PROVE  Store!Next
<1>1. /\ tx.phase = "synced" /\ tx'.phase = "published" /\ UNCHANGED <<dsuper, dcopies>>
      /\ \/ Shown' = With(Shown, call) /\ VisibleRows' = VisibleRows
         \/ Shown' = Shown /\ VisibleRows' = With(VisibleRows, call)
  BY WriteSuperShows
<1>2. HybridMembers' = HybridMembers \cup {call}
  BY <1>1 DEF Answers, With
<1>3. DurableMembers' = DurableMembers
  BY <1>1, DurableSteady, EpochIsNat DEF HybridInv, RowInv, SuperInv
<1>4. InFlight = {call} /\ InFlight' = {}
  BY <1>1 DEF InFlight
<1>5. Store!Show
  BY <1>2, <1>3, <1>4 DEF Store!Show, InFlight
<1> QED
  BY <1>5 DEF Store!Next

\* recover() changes no answer.
LEMMA RecoverSteps ==
  ASSUME HybridInv, HybridInv', Recover
  PROVE  Stutters \/ Hardens
<1>1. /\ UNCHANGED <<super, tx, call>> /\ InFlight' = InFlight
      /\ Epoch(super) \in Nat /\ Epoch(dsuper) \in Nat /\ Epoch(dsuper) <= Epoch(super)
      /\ \A k \in Key : row[k] \in Nat
  BY EpochIsNat DEF Recover, DeleteFuture, TruncateTail, NoTail, SyncTail, Fsync, InFlight,
     HybridInv, RowInv, SuperInv
<1>2. CASE DeleteFuture
  <2>1. UNCHANGED <<copies, dsuper, dcopies>> /\
        \A k \in Key : row'[k] = IF row[k] > Epoch(super) THEN 0 ELSE row[k]
    BY <1>2 DEF DeleteFuture, FutureRows
  <2>2. DurableMembers' = DurableMembers
    BY <1>1, <2>1, DurableSteady
  <2>3. Visible' = Visible /\ Epoch(super)' = Epoch(super)
    BY <1>1, <2>1 DEF Visible, Image, MetaOf, Epoch, ActiveSlot
  <2>4. \A k \in Key : RowVisible(k, Epoch(super))' <=> RowVisible(k, Epoch(super))
    BY <1>1, <2>1, <2>3 DEF RowVisible
  <2> QED
    BY <1>1, <2>2, <2>3, <2>4 DEF Stutters, HybridMembers, Lookup
<1>3. CASE TruncateTail \/ NoTail
  <2>1. UNCHANGED <<dsuper, dcopies, row>>
    BY <1>3 DEF TruncateTail, NoTail
  <2>2. Visible' = Visible
    BY <1>1, <1>3, TruncateShows DEF NoTail, Visible, Image, MetaOf, Epoch, ActiveSlot
  <2> QED
    BY <1>1, <2>1, <2>2, DurableSteady, MembersSteady DEF Stutters
<1>4. CASE SyncTail
  <2>1. Fsync /\ UNCHANGED <<super, copies, row>>
    BY <1>4 DEF SyncTail
  <2> QED
    BY <1>1, <2>1, FsyncHardens DEF Hardens
<1> QED
  BY <1>2, <1>3, <1>4 DEF Recover

\* A fault aborts the insertion in flight, or loses what is not durable.
LEMMA FaultSteps ==
  ASSUME HybridInv, HybridFault, "error" \notin Faults
  PROVE  Store!Next
<1>1. row' = row /\ (Killed \/ Unpowered) /\ tx'.phase = "idle"
  BY DEF HybridFault, Raised, Killed, Unpowered, ProcessCrash, PowerLoss, NoTx
<1>2. InFlight' = {} /\ DurableMembers' = DurableMembers
  <2>1. UNCHANGED <<dsuper, dcopies>>
    BY <1>1 DEF Killed, Unpowered, ProcessCrash, PowerLoss
  <2> QED
    BY <1>1, <2>1, DurableSteady, EpochIsNat DEF InFlight, HybridInv, RowInv, SuperInv
<1>3. CASE Killed
  <2>1. UNCHANGED <<super, copies>>
    BY <1>3 DEF Killed, ProcessCrash
  <2>2. Visible' = Visible
    BY <2>1 DEF Visible, Image, MetaOf, Epoch, ActiveSlot
  <2>3. HybridMembers' = HybridMembers
    BY <1>1, <2>1, <2>2, MembersSteady
  <2>4. Store!Abort
    BY <1>2, <2>3 DEF Store!Abort, InFlight
  <2> QED
    BY <2>4 DEF Store!Next
<1>4. CASE Unpowered
  <2>1. super' = dsuper /\ copies' = dcopies /\ "power" \in Faults
    BY <1>4 DEF Unpowered, PowerLoss
  <2>2. Visible' = Durable /\ Epoch(super)' = Epoch(dsuper)
    BY <2>1 DEF Visible, Durable, Image, MetaOf, Epoch, ActiveSlot
  <2>3. HybridMembers' = DurableMembers
    BY <1>1, <2>2 DEF HybridMembers, DurableMembers, Lookup, RowVisible
  <2>4. Store!Lose
    BY <1>2, <2>1, <2>3 DEF Store!Lose, InFlight
  <2> QED
    BY <2>4 DEF Store!Next
<1> QED
  BY <1>1, <1>3, <1>4

\* What reaches the device either is not read, or is the superblock.
LEMMA FlushSteps ==
  ASSUME HybridInv, HybridInv', Answers, Answers', Flush
  PROVE  Stutters \/ Hardens
<1>1. UNCHANGED <<super, copies, tx, call, row, startup>> /\ "power" \in Faults
  BY DEF Flush, Writeback
<1>2. Visible' = Visible /\ InFlight' = InFlight /\ Epoch(super)' = Epoch(super)
  BY <1>1 DEF Visible, Image, MetaOf, Epoch, ActiveSlot, InFlight
<1>3. HybridMembers' = HybridMembers
  BY <1>1, <1>2, MembersSteady
<1>4. CASE tx'.phase = "published" => dsuper' = super'
  <2>1. Durable' = Visible' /\ dsuper' = super'
    BY <1>1, <1>4 DEF Answers
  <2>2. DurableMembers' = HybridMembers'
    BY <2>1 DEF DurableMembers, HybridMembers
  <2> QED
    BY <1>2, <1>3, <2>2 DEF Hardens
<1>5. CASE tx'.phase = "published" /\ dsuper' # super'
  <2>1. startup # "truncated" /\ tx.phase = "published"
    BY <1>1, <1>5 DEF HybridInv, CutInv
  <2>2. OwedInv /\ OwedInv'
    BY <1>1, <2>1 DEF HybridInv
  <2>3. dcopies = copies /\ dcopies' = copies'
    BY <1>1, <1>5, <2>1, <2>2 DEF OwedInv, PagesInv, DeviceOK
  <2>4. dsuper' = dsuper
    BY <1>1, <1>5 DEF Flush, Writeback
  <2> QED
    BY <1>1, <1>2, <1>3, <2>3, <2>4, DurableSteady, EpochIsNat
       DEF Stutters, HybridInv, RowInv, SuperInv
<1> QED
  BY <1>4, <1>5

\* The cross-store hybrid keeps the promise of a durable set of keys, although
\* no transaction spans its two stores: every step is a step of KeyStore.
THEOREM HybridImplementsKeyStore ==
  ASSUME RetryFirst, SingleFault, "error" \notin Faults
  PROVE  HybridSpec => ImplementsKeyStore
<1>1. HybridInit => Store!Init
  <2> SUFFICES ASSUME HybridInit PROVE Store!Init
    OBVIOUS
  <2>1. /\ Init /\ StoreInv /\ HybridInv /\ Answers /\ \A k \in Key : row[k] = 0
        /\ tx.phase = "idle" /\ call = NoKey /\ owed = NoKey /\ acked = {}
    BY InitStores, InitHolds, HybridAnswersInv DEF HybridInit, Init, PagesInit, NoTx
  <2>2. VisibleRows = {} /\ \A k \in Key : \A e : ~RowVisible(k, e)
    BY <2>1 DEF VisibleRows, RowVisible
  <2>3. Shown = {}
    <3>1. NoKey \notin Shown
      BY NoKeyAssumption DEF Shown, Kept, Inside
    <3> QED
      BY <2>1, <3>1 DEF StoreInv
  <2>4. HybridMembers = {}
    BY <2>1, <2>2, <2>3 DEF Answers
  <2>5. Durable = Visible /\ dsuper = super
    BY <2>1 DEF Init, PagesInit, Durable, Visible
  <2>6. DurableMembers = {}
    BY <2>4, <2>5 DEF DurableMembers, HybridMembers
  <2> QED
    BY <2>1, <2>4, <2>6 DEF Store!Init
<1>2. HybridInv /\ HybridInv' /\ Answers /\ Answers' /\ [HybridNext]_hybridVars
        => [Store!Next]_Store!vars
  <2> SUFFICES ASSUME HybridInv, HybridInv', Answers, Answers', [HybridNext]_hybridVars
               PROVE  [Store!Next]_Store!vars
    OBVIOUS
  <2>1. ASSUME NEW k \in Key, AdmitPrimary(k) \/ AdmitOverflow(k) PROVE Store!Next
    BY <2>1, BeginSteps
  <2>2. CASE \/ \E k \in Key : DuplicatePrimary(k) \/ DuplicateOverflow(k)
             \/ UNCHANGED hybridVars
    <3>1. UNCHANGED <<super, copies, dsuper, dcopies, tx, call, row>>
      BY <2>2 DEF DuplicatePrimary, DuplicateOverflow, InsertDuplicate, storeVars, hybridVars
    <3>2. Stutters
      <4>1. Visible' = Visible /\ InFlight' = InFlight
        BY <3>1 DEF Visible, Image, MetaOf, Epoch, ActiveSlot, InFlight
      <4> QED
        BY <3>1, <4>1, MembersSteady, DurableSteady, EpochIsNat
           DEF Stutters, HybridInv, RowInv, SuperInv
    <3> QED
      BY <3>2, StoreSteps
  <2>3. CASE Carry
    <3>1. CASE (\E p \in Page : WritePage(p)) /\ UNCHANGED <<call, row>>
      <4>1. /\ UNCHANGED <<super, dsuper, dcopies>> /\ tx.phase = "writing" /\ tx'.phase = "writing"
            /\ PagesInv
        BY <3>1 DEF WritePage, HybridInv, RowInv, OwedInv, PagesInv, TxOK
      <4>2. Visible' = Visible /\ InFlight' = InFlight
        BY <3>1, <4>1, OtherStepsAreInvisible DEF InFlight
      <4>3. Stutters
        BY <3>1, <4>1, <4>2, MembersSteady, DurableSteady, EpochIsNat
           DEF Stutters, HybridInv, RowInv, SuperInv
      <4> QED
        BY <4>3, StoreSteps
    <3>2. CASE SyncData /\ UNCHANGED <<call, row>>
      <4>1. /\ Fsync /\ UNCHANGED <<super, copies>> /\ tx.phase = "writing" /\ tx'.phase = "synced"
        BY <3>2 DEF SyncData, HybridInv, RowInv, OwedInv, PagesInv, TxOK
      <4>2. Hardens
        BY <3>2, <4>1, FsyncHardens DEF Hardens, InFlight
      <4> QED
        BY <4>2, StoreSteps
    <3>3. CASE WriteSuper /\ UNCHANGED <<call, owed, acked, row, len, startup, dlen>>
      BY <3>3, ShowSteps
    <3> QED
      BY <2>3, <3>1, <3>2, <3>3 DEF Carry
  <2>4. CASE Finish
    <3>1. Fsync /\ UNCHANGED <<super, copies, row>> /\ tx.phase = "published" /\ tx'.phase = "idle"
      BY <2>4 DEF Finish, Return, SyncSuper, NoTx
    <3>2. Hardens
      BY <3>1, FsyncHardens DEF Hardens, InFlight
    <3> QED
      BY <3>2, StoreSteps
  <2>5. CASE Recover
    BY <2>5, RecoverSteps, StoreSteps
  <2>6. CASE HybridFault
    BY <2>6, FaultSteps
  <2>7. CASE Flush
    BY <2>7, FlushSteps, StoreSteps
  <2> QED
    BY <2>1, <2>2, <2>3, <2>4, <2>5, <2>6, <2>7 DEF HybridNext
<1>3. HybridInv => Answers
  BY HybridAnswersInv
<1> QED
  BY <1>1, <1>2, <1>3, HybridInvariance, PTL
     DEF HybridSpec, ImplementsKeyStore, Store!Spec
=============================================================================
