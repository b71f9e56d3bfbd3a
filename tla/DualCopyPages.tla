--------------------------- MODULE DualCopyPages ---------------------------
(***************************************************************************)
(* The page file every durable store of this repository is built on: two   *)
(* superblock slots and two physical copies of every logical page          *)
(* (storage/fixed_page_primary.py).  A transaction writes the copy of each *)
(* changed page that the committed image does not read, stamps it with     *)
(* epoch T+1, fsyncs, writes the other superblock slot with epoch T+1 and  *)
(* fsyncs again.  A reader takes the newest superblock and, of every page, *)
(* the newest copy that is not newer than it.                              *)
(*                                                                         *)
(* The module fixes nothing about what a page holds: FixedPagePrimary      *)
(* supplies the transactions.  What a system call leaves in the page cache *)
(* (super, copies) is kept apart from what the device holds (dsuper,       *)
(* dcopies), so that the two fsyncs mean something.                        *)
(***************************************************************************)
EXTENDS DualCopy

CONSTANTS
  Data,        \* what a page copy may hold
  Meta,        \* superblock payloads
  InitMeta,    \* the payload initialize() writes
  Faults,      \* which faults happen: "process", "power", "error"
  RetryFirst,  \* TRUE: the caller repeats an interrupted transaction first
  MaxEpoch     \* bound on the committed epoch

ASSUME FaultsAssumption   == Faults \subseteq {"process", "power", "error"}
ASSUME RetryAssumption    == RetryFirst \in BOOLEAN
ASSUME MaxEpochAssumption == MaxEpoch \in Nat
ASSUME InitMetaIsMeta     == InitMeta \in Meta

VARIABLES
  super,       \* the two superblock slots, as pread returns them
  copies,      \* the two copies of every page, as pread returns them
  dsuper,      \* the superblock slots on the device
  dcopies,     \* the page copies on the device
  tx           \* the transaction in flight

pageVars == <<super, copies, dsuper, dcopies, tx>>

NoTx == [phase |-> "idle", todo |-> {}, changes |-> <<>>, meta |-> InitMeta]

-----------------------------------------------------------------------------
(* Reading *)

\* What the file says: every page at the committed epoch, and the metadata.
Image(sup, cps) == [p \in Page |-> ReadPage(cps[p], Epoch(sup))]
Visible == [pages |-> Image(super, copies),   meta |-> MetaOf(super)]
Durable == [pages |-> Image(dsuper, dcopies), meta |-> MetaOf(dsuper)]

Overlay(image, ch) ==
  [p \in Page |-> IF p \in DOMAIN ch THEN ch[p] ELSE image[p]]

-----------------------------------------------------------------------------
(* Writing *)

\* The pages that hold a copy newer than the committed epoch: what an
\* interrupted transaction leaves behind, since no recovery removes it.
Stale == {p \in Page : \E s \in Slot : copies[p][s].epoch > Epoch(super)}

\* The assumption RetryFirst makes: the next transaction rewrites every page
\* an interrupted one had written.  CrossStoreHybrid_proofs shows that it does
\* when it is the interrupted one again, planned from the same image.
Covers(ch) == RetryFirst => Stale \subseteq DOMAIN ch

BeginTx(ch, m) ==
  /\ tx.phase = "idle"
  /\ Epoch(super) < MaxEpoch
  /\ tx' = [phase |-> "writing", todo |-> DOMAIN ch, changes |-> ch, meta |-> m]
  /\ UNCHANGED <<super, copies, dsuper, dcopies>>

\* One pwrite of the loop over sorted(tx.changes).
WritePage(p) ==
  /\ tx.phase = "writing"
  /\ p \in tx.todo
  /\ \A q \in tx.todo : p <= q
  /\ LET t == TargetSlot(copies[p], Epoch(super))
     IN  copies' = [copies EXCEPT ![p][t] =
                      [epoch |-> Epoch(super) + 1, data |-> tx.changes[p]]]
  /\ tx' = [tx EXCEPT !.todo = @ \ {p}]
  /\ UNCHANGED <<super, dsuper, dcopies>>

Fsync == dsuper' = super /\ dcopies' = copies

\* Mutant of SyncData: the loop over the changed pages is left early.
SyncData_Early ==
  /\ tx.phase = "writing"
  /\ Fsync
  /\ tx' = [tx EXCEPT !.phase = "synced", !.todo = {}]
  /\ UNCHANGED <<super, copies>>

SyncData ==
  /\ tx.phase = "writing" /\ tx.todo = {}
  /\ Fsync
  /\ tx' = [tx EXCEPT !.phase = "synced"]
  /\ UNCHANGED <<super, copies>>

WriteSuper ==
  /\ tx.phase = "synced"
  /\ super' = [super EXCEPT ![1 - ActiveSlot(super)] =
                 [epoch |-> Epoch(super) + 1, meta |-> tx.meta]]
  /\ tx' = [tx EXCEPT !.phase = "published"]
  /\ UNCHANGED <<copies, dsuper, dcopies>>

\* Mutant of SyncSuper: insert() returns without the second fsync.
SyncSuper_NoFsync ==
  /\ tx.phase = "published"
  /\ tx' = NoTx
  /\ UNCHANGED <<super, copies, dsuper, dcopies>>

\* The second fsync; insert() then returns to its caller.
SyncSuper ==
  /\ tx.phase = "published"
  /\ Fsync
  /\ tx' = NoTx
  /\ UNCHANGED <<super, copies>>

-----------------------------------------------------------------------------
(* Faults *)

\* SIGKILL: the page cache survives, the transaction does not.
ProcessCrash ==
  /\ "process" \in Faults
  /\ tx.phase # "idle"
  /\ tx' = NoTx
  /\ UNCHANGED <<super, copies, dsuper, dcopies>>

\* Whole pages reach the device in any order between two fsyncs.
Writeback ==
  /\ "power" \in Faults
  /\ \/ \E p \in Page, s \in Slot :
          /\ dcopies[p][s] # copies[p][s]
          /\ dcopies' = [dcopies EXCEPT ![p][s] = copies[p][s]]
          /\ UNCHANGED dsuper
     \/ /\ dsuper # super
        /\ dsuper' = super
        /\ UNCHANGED dcopies
  /\ UNCHANGED <<super, copies, tx>>

\* Power loss: what had not reached the device is gone.
PowerLoss ==
  /\ "power" \in Faults
  /\ super' = dsuper /\ copies' = dcopies
  /\ tx' = NoTx
  /\ UNCHANGED <<dsuper, dcopies>>

-----------------------------------------------------------------------------
PagesInit ==
  /\ super = [s \in Slot |-> [epoch |-> IF s = 0 THEN 1 ELSE 0, meta |-> InitMeta]]
  /\ copies = [p \in Page |-> [s \in Slot |-> Absent]]
  /\ dsuper = super /\ dcopies = copies
  /\ tx = NoTx

\* Everything but the start of a transaction.
PagesStep ==
  \/ \E p \in Page : WritePage(p)
  \/ SyncData
  \/ WriteSuper
  \/ SyncSuper
  \/ ProcessCrash
  \/ Writeback
  \/ PowerLoss

PagesNext ==
  \/ \E S \in SUBSET Page, m \in Meta : \E ch \in [S -> Data] :
       Covers(ch) /\ BeginTx(ch, m)
  \/ PagesStep

PagesSpec == PagesInit /\ [][PagesNext]_pageVars

-----------------------------------------------------------------------------
(* Properties *)

\* The file, its device image and the transaction in flight have the shapes
\* _pack_record and _unpack_record give them.
PagesTypeOK ==
  LET Supers == [Slot -> [epoch : Nat, meta : Meta]]
      Copies == [Page -> [Slot -> [epoch : Nat, data : Data \cup {Blank}]]]
  IN  /\ super \in Supers /\ dsuper \in Supers
      /\ copies \in Copies /\ dcopies \in Copies
      /\ tx.phase \in {"idle", "writing", "synced", "published"}
      /\ tx.todo \subseteq DOMAIN tx.changes
      /\ DOMAIN tx.changes \subseteq Page
      /\ tx.changes \in [DOMAIN tx.changes -> Data]
      /\ tx.meta \in Meta

\* The contract the stores quote ("exact pre/post committed state"): what the
\* file says changes only when a superblock is written, and then by exactly
\* the transaction's pages and metadata; or, on power loss, back to what the
\* device held.  Page writes, fsyncs, crashes and reopening change nothing a
\* reader can see.
CommitIsAtomic ==
  [][ Visible' # Visible =>
        \/ /\ tx.phase = "synced" /\ tx'.phase = "published"
           /\ Visible' = [pages |-> Overlay(Visible.pages, tx.changes),
                          meta  |-> tx.meta]
        \/ tx'.phase = "idle" /\ Visible' = Durable
    ]_pageVars

\* The write-ahead order of the two fsyncs: unless a superblock has been
\* written and not yet synced, a power loss brings back what a reader sees now.
DurableBeforeAck ==
  "power" \in Faults /\ tx.phase # "published" => Durable = Visible

\* Pages and superblock together behave as one image that every transaction
\* replaces whole, and that reaches the device whole: the dual-copy protocol
\* implements the atomic store that FixedPagePrimaryStore reads and updates.
Pending == IF tx.phase \in {"writing", "synced"}
           THEN {[changes |-> tx.changes, meta |-> tx.meta]} ELSE {}

Atomic == INSTANCE AtomicPages WITH
            visible <- Visible, durable <- Durable, pending <- Pending,
            VolatileCache <- "power" \in Faults

ImplementsAtomicPages == Atomic!Spec

\* The inductive invariant behind these (RetryFirst, one kind of fault).
\* A superblock slot and a page copy never tie; a copy is at most one epoch
\* ahead; the pages ahead are the transaction's, and those it has written
\* hold what it will commit.
SuperOK(sup) ==
  /\ sup = [s \in Slot |-> sup[s]]
  /\ \A s \in Slot : sup[s].epoch \in Nat
  /\ sup[0].epoch # sup[1].epoch

CopyOK(c, e) ==
  /\ c = [s \in Slot |-> c[s]]
  /\ \A s \in Slot : c[s].epoch \in Nat /\ c[s].epoch <= e + 1
  /\ c[0].epoch = c[1].epoch => c[0].epoch = 0

CopiesOK(cps, e) == cps = [p \in Page |-> cps[p]] /\ \A p \in Page : CopyOK(cps[p], e)

TxOK ==
  /\ tx.phase \in {"idle", "writing", "synced", "published"}
  /\ tx = [phase |-> tx.phase, todo |-> tx.todo,
           changes |-> tx.changes, meta |-> tx.meta]
  /\ tx.todo \subseteq DOMAIN tx.changes

WrittenOK ==
  /\ tx.phase \in {"writing", "synced"} =>
       /\ Stale \subseteq DOMAIN tx.changes
       /\ \A p \in Page : p \in DOMAIN tx.changes \ tx.todo =>
            \E s \in Slot : /\ copies[p][s].epoch = Epoch(super) + 1
                            /\ copies[p][s].data = tx.changes[p]
  /\ tx.phase = "synced" => tx.todo = {}
  /\ tx.phase = "published" => Stale = {}

\* What the device holds differs only in copies the committed image does not
\* read, and after SyncData only in the superblock being replaced.
DeviceOK ==
  /\ tx.phase # "published" => dsuper = super
  /\ tx.phase \in {"synced", "published"} => dcopies = copies
  /\ tx.phase = "published" => dsuper = super \/ Epoch(dsuper) + 1 = Epoch(super)
  /\ tx.phase # "published" => \A p \in Page, s \in Slot :
       \/ dcopies[p][s] = copies[p][s]
       \/ /\ copies[p][s].epoch = Epoch(super) + 1
          /\ \/ dcopies[p][s].epoch = Epoch(super) + 1
             \/ dcopies[p][s].epoch = 0
             \/ dcopies[p][s].epoch < copies[p][1 - s].epoch

PagesInv ==
  /\ SuperOK(super) /\ SuperOK(dsuper)
  /\ CopiesOK(copies, Epoch(super)) /\ CopiesOK(dcopies, Epoch(dsuper))
  /\ TxOK /\ WrittenOK
  /\ "power" \in Faults => DeviceOK
=============================================================================
