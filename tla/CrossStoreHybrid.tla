------------------------- MODULE CrossStoreHybrid -------------------------
(***************************************************************************)
(* CrossStoreHybridStore (storage/cross_store_hybrid.py): what the bounded *)
(* primary refuses goes to a SQLite table.  No transaction spans the two:  *)
(* the epoch in the primary's superblock is the coordinator.  A row is     *)
(* committed with the epoch that is to make it visible, and only then does *)
(* the superblock advance to that epoch.  What a fault leaves behind, rows *)
(* of a future epoch and a file longer than the committed metadata knows,  *)
(* startup recovery removes before the next mutation; it may itself be cut *)
(* short (storage/recovery_interruption.py), also by a power loss          *)
(* (storage/persistence_fault_model.py).                                   *)
(***************************************************************************)
EXTENDS FixedPagePrimary

VARIABLES
  row,         \* the SQLite table: the epoch of a key's row, 0 if it has none
  len,         \* the logical pages the file is long enough for
  dlen,        \* the same on the device
  startup      \* how far this process's recover() has come

storeVars  == <<row, len, dlen, startup>>
hybridVars == <<super, copies, dsuper, dcopies, tx, call, owed, acked,
                row, len, dlen, startup>>

-----------------------------------------------------------------------------
(* Reading *)

RowVisible(k, e) == row[k] > 0 /\ row[k] <= e

\* What audit() counts, and logical_snapshot() shows, of the overflow table.
VisibleRows == {k \in Key : RowVisible(k, Epoch(super))}

\* Mutant of FutureRows: the rows of the committed epoch count as future.
FutureRows_AtCommitted == {k \in Key : row[k] > 0 /\ row[k] >= Epoch(super)}

FutureRows == {k \in Key : row[k] > Epoch(super)}

\* lookup(): the primary, then the rows whose epoch is committed.
Lookup(image, e) ==
  {k \in Key : Found(image.pages, image.meta, k) \/ RowVisible(k, e)}
HybridMembers  == Lookup(Visible, Epoch(super))
DurableMembers == Lookup(Durable, Epoch(dsuper))

-----------------------------------------------------------------------------
(* Inserting *)

\* insert() recovers first, once in the life of a process.
MayInsert(k) == startup = "recovered" /\ CallerInserts(k)

\* Starting a migration lengthens the file for the new generation at once,
\* whether or not the insertion is then refused.
Lengthened(m, k) ==
  IF ~Found(Visible.pages, m, k) /\ m.old = NoGen /\ Backlog(m)
  THEN StartMigration(m).nextPage ELSE len

\* The primary admits k.
AdmitPrimary(k) ==
  /\ MayInsert(k)
  /\ Insert(k)
  /\ len' = Lengthened(Visible.meta, k)
  /\ UNCHANGED <<row, dlen, startup>>

\* The primary has k already.
DuplicatePrimary(k) ==
  /\ MayInsert(k)
  /\ InsertDuplicate(k)
  /\ UNCHANGED storeVars

\* The primary refuses k, and the table has it already.
DuplicateOverflow(k) ==
  /\ MayInsert(k)
  /\ PlanNow(k).outcome = "refused"
  /\ RowVisible(k, Epoch(super))
  /\ acked' = acked \cup {k}
  /\ owed' = IF owed = k THEN NoKey ELSE owed
  /\ len' = Lengthened(Visible.meta, k)
  /\ UNCHANGED <<super, copies, dsuper, dcopies, tx, call, row, dlen, startup>>

\* Mutant of AdmitOverflow: the row carries the epoch that is committed.
AdmitOverflow_Now(k) ==
  /\ MayInsert(k)
  /\ Epoch(super) < MaxEpoch
  /\ PlanNow(k).outcome = "refused"
  /\ row[k] = 0
  /\ row' = [row EXCEPT ![k] = Epoch(super)]
  /\ tx' = [NoTx EXCEPT !.phase = "synced",
                        !.meta = [Visible.meta EXCEPT !.overflow = @ + 1]]
  /\ call' = k
  /\ len' = Lengthened(Visible.meta, k)
  /\ UNCHANGED <<super, copies, dsuper, dcopies, owed, acked, dlen, startup>>

\* The primary refuses k and SQLite commits its row, one epoch ahead; the
\* superblock is still to be advanced, with no page to write.  A second row
\* for a key would violate the table's primary key.
AdmitOverflow(k) ==
  /\ MayInsert(k)
  /\ Epoch(super) < MaxEpoch
  /\ PlanNow(k).outcome = "refused"
  /\ row[k] = 0
  /\ row' = [row EXCEPT ![k] = Epoch(super) + 1]
  /\ tx' = [NoTx EXCEPT !.phase = "synced",
                        !.meta = [Visible.meta EXCEPT !.overflow = @ + 1]]
  /\ call' = k
  /\ len' = Lengthened(Visible.meta, k)
  /\ UNCHANGED <<super, copies, dsuper, dcopies, owed, acked, dlen, startup>>

InOverflow == tx.phase # "idle" /\ tx.changes = <<>>

\* One step of the insertion in flight: its page writes and their fsync, or
\* the superblock write, which _advance_superblock shares.
Carry ==
  /\ \/ (\E p \in Page : WritePage(p)) /\ UNCHANGED dlen
     \/ SyncData /\ dlen' = len
     \/ WriteSuper /\ UNCHANGED dlen
  /\ UNCHANGED <<call, owed, acked, row, len, startup>>

\* The fsync of the superblock, and the return to the caller.
Finish == Return /\ dlen' = len /\ UNCHANGED <<row, len, startup>>

-----------------------------------------------------------------------------
(* recover() *)

\* DELETE FROM overflow WHERE epoch > committed, one SQLite transaction.
DeleteFuture ==
  /\ startup = "unrecovered"
  /\ row' = [k \in Key |-> IF k \in FutureRows THEN 0 ELSE row[k]]
  /\ startup' = "deleted"
  /\ UNCHANGED <<super, copies, dsuper, dcopies, tx, call, owed, acked, len, dlen>>

\* Mutant of Frontier: the last page of the newest generation is cut off.
Frontier_Short == Visible.meta.nextPage - 1

\* _reachable_bytes, in logical pages.
Frontier == Visible.meta.nextPage

TruncateTail ==
  /\ startup = "deleted"
  /\ len > Frontier
  /\ len' = Frontier
  /\ copies' = [p \in Page |-> IF p < Frontier THEN copies[p] ELSE [s \in Slot |-> Absent]]
  /\ startup' = "truncated"
  /\ UNCHANGED <<super, dsuper, dcopies, tx, call, owed, acked, row, dlen>>

NoTail ==
  /\ startup = "deleted"
  /\ len <= Frontier
  /\ startup' = "recovered"
  /\ UNCHANGED <<super, copies, dsuper, dcopies, tx, call, owed, acked, row, len, dlen>>

\* Mutant of SyncTail: the truncation is not synced.
SyncTail_NoFsync ==
  /\ startup = "truncated"
  /\ startup' = "recovered"
  /\ UNCHANGED <<super, copies, dsuper, dcopies, tx, call, owed, acked, row, len, dlen>>

SyncTail ==
  /\ startup = "truncated"
  /\ Fsync /\ dlen' = len
  /\ startup' = "recovered"
  /\ UNCHANGED <<super, copies, tx, call, owed, acked, row, len>>

Recover == DeleteFuture \/ TruncateTail \/ NoTail \/ SyncTail

-----------------------------------------------------------------------------
(* Faults *)

\* SIGKILL, in an insertion, in recover() or between calls.  SQLite rolls an
\* uncommitted transaction back; a new process starts unrecovered.
Killed ==
  /\ \/ ProcessCrash /\ UNCHANGED <<len, dlen>>
     \/ /\ "process" \in Faults /\ tx.phase = "idle" /\ startup # "unrecovered"
        /\ UNCHANGED <<super, copies, dsuper, dcopies, tx, len, dlen>>

\* Power loss: the file is as the device has it.
Unpowered == PowerLoss /\ len' = dlen /\ UNCHANGED dlen

\* A system call, SQLite or a failpoint raises: insert() rolls back an open
\* SQLite transaction and nothing else, and the process goes on.
Raised ==
  /\ "error" \in Faults
  /\ tx.phase # "idle"
  /\ tx' = NoTx
  /\ UNCHANGED <<super, copies, dsuper, dcopies, len, dlen>>

\* An insertion cut short in the primary is owed; one cut short in the
\* overflow path leaves nothing that recover() does not remove.
HybridFault ==
  /\ \/ (Killed \/ Unpowered) /\ startup' = "unrecovered"
     \/ Raised /\ UNCHANGED startup
  /\ owed' = IF call = NoKey \/ InOverflow THEN owed ELSE call
  /\ call' = NoKey
  /\ UNCHANGED <<acked, row>>

\* The file's length reaches the device with a page beyond it, or alone.
Flush ==
  /\ \/ /\ Writeback
        /\ dlen' = IF \E p \in Page : p >= dlen /\ dcopies'[p] # dcopies[p]
                   THEN CHOOSE n \in {p + 1 : p \in Page} :
                          n > dlen /\ dcopies'[n-1] # dcopies[n-1]
                   ELSE dlen
     \/ /\ "power" \in Faults /\ dlen # len
        /\ dlen' = len
        /\ dcopies' = [p \in Page |-> IF p < len THEN dcopies[p] ELSE [s \in Slot |-> Absent]]
        /\ UNCHANGED <<super, copies, dsuper, tx>>
  /\ UNCHANGED <<call, owed, acked, row, len, startup>>

-----------------------------------------------------------------------------
HybridInit ==
  /\ Init
  /\ row = [k \in Key |-> 0]
  /\ len = FirstMeta.nextPage /\ dlen = len
  /\ startup = "recovered"

HybridNext ==
  \/ \E k \in Key : \/ AdmitPrimary(k) \/ DuplicatePrimary(k)
                    \/ AdmitOverflow(k) \/ DuplicateOverflow(k)
  \/ Carry
  \/ Finish
  \/ Recover
  \/ HybridFault
  \/ Flush

HybridSpec == HybridInit /\ [][HybridNext]_hybridVars

\* A process that comes up recovers: the next mutation, or the recovery
\* worker, calls recover() and it runs on unless it is cut short.
FairHybridSpec == HybridSpec /\ WF_hybridVars(Recover)

-----------------------------------------------------------------------------
(* Properties *)

\* A key whose insert() returned is found from then on, in either store.
AckedKeysStay == acked \subseteq HybridMembers

\* audit(): the superblock counts the visible rows exactly, in every state a
\* fault can expose.
OverflowCountExact == Cardinality(VisibleRows) = Visible.meta.overflow

\* The epoch in the superblock decides which rows exist: one appears only when
\* its own insertion writes the superblock, never because another insertion
\* reaches the epoch of an abandoned row; and one disappears only with the
\* superblock that a power loss takes back, never by recover()'s DELETE.
RowsFollowCoordinator ==
  [][ \A k \in Key :
        LET was == RowVisible(k, Epoch(super))
            is  == RowVisible(k, Epoch(super))'
        IN  /\ ~was /\ is => k = call /\ tx.phase = "synced" /\ tx'.phase = "published"
            /\ was /\ ~is => Epoch(super)' = Epoch(dsuper) /\ Epoch(dsuper) < Epoch(super)
    ]_hybridVars

\* The two stores together behave as one set of keys: whatever is cut short,
\* a key appears only by its own insertion, when the superblock is written,
\* and disappears only with a power loss before that was durable.  An
\* abandoned row never resurfaces with a later epoch.
Store == INSTANCE KeyStore WITH
           members <- HybridMembers, durable <- DurableMembers,
           pending <- IF tx.phase \in {"writing", "synced"} THEN {call} ELSE {},
           VolatileCache <- "power" \in Faults

ImplementsKeyStore == Store!Spec

\* Recovery converges ("RepeatedRestartConverges"): when the faults stop, the
\* future rows and the tail of the file are gone, on the device too.
Clean == /\ FutureRows = {} /\ len <= Frontier
         /\ "power" \in Faults => dlen = len
RecoveryConverges ==
  <>[][~HybridFault]_hybridVars => (startup = "unrecovered" ~> Clean)
=============================================================================
