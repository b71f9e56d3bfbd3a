--------------------------- MODULE DurableHybrid ---------------------------
(***************************************************************************)
(* DurableHybridStore (storage/durable_hybrid.py): the table of            *)
(* PrimaryTable kept in SQLite tables, with an overflow table for what it  *)
(* does not take.  One transaction holds an insertion, its share of the    *)
(* migration and the routing row; a lookup is several SELECTs, each of     *)
(* what is committed when it runs.                                         *)
(*                                                                         *)
(* The rows of primary_slots and primary_stash of a generation stand on    *)
(* the pages PrimaryTable gives it: a generation's number is its base, and *)
(* a missing row an empty slot.                                            *)
(***************************************************************************)
EXTENDS PrimaryTable, Sequences

VARIABLES
  db,       \* what is committed: [img, meta, overflow]
  tx,       \* the insertion under way: its key, its stage, what it would commit
  reader    \* a lookup under way, or the last one

hvars == <<db, tx, reader>>

Empty  == [img |-> [p \in Page |-> Blank], meta |-> FirstMeta, overflow |-> {}]
NoTx   == [key |-> NoKey, stage |-> "none", db |-> Empty]
NoRead == [key |-> NoKey, meta |-> FirstMeta, at |-> 1, answer |-> "none",
           had |-> FALSE, moved |-> FALSE]

-----------------------------------------------------------------------------
(* Reading *)

\* Mutant of Contains: the overflow is looked at only between migrations.
Contains_NotMigrating(d, k) ==
  Found(d.img, d.meta, k) \/ (d.meta.old = NoGen /\ k \in d.overflow)

\* _lookup_tx: the current generation, the old one, and the overflow if the
\* routing row counts any row there.
Contains(d, k) == Found(d.img, d.meta, k) \/ (d.meta.overflow # 0 /\ k \in d.overflow)

Stored(d) == {k \in Key : Contains(d, k)}

\* The rows of the tables: where a key is, whoever looks for it.
PagesWith(d, k) == {p \in Page : d.img[p] # Blank /\ \E i \in DOMAIN d.img[p] : d.img[p][i] = k}
Copies(d, k)    == Cardinality(PagesWith(d, k)) + (IF k \in d.overflow THEN 1 ELSE 0)

\* The rows of primary_slots and primary_stash, those on one page and all.
Filled(d, p) == IF d.img[p] = Blank THEN {} ELSE {i \in DOMAIN d.img[p] : d.img[p][i] # NoKey}
Rows(d)      == UNION {{p} \X Filled(d, p) : p \in Page}

-----------------------------------------------------------------------------
(* Inserting *)

ToOverflow(d, k) ==
  [d EXCEPT !.overflow = @ \cup {k}, !.meta.overflow = @ + 1]

\* A key that found a place, or not: then it goes to the overflow table.
Routed(d, put, k) ==
  IF put.ok THEN [d EXCEPT !.img = put.view.img, !.meta.cur.rows = @ + 1]
            ELSE ToOverflow(d, k)

Admit(d, k) == Routed(d, Place([img |-> d.img, written |-> {}], d.meta.cur, k), k)

\* _insert_tx up to the migration.  A full table starts one, unless one is on:
\* then its current generation fills up, and the overflow after it.
Route(d, k) ==
  LET full == d.meta.old = NoGen /\ Backlog(d.meta)
      m    == IF full THEN StartMigration(d.meta) ELSE d.meta
  IN  Admit([d EXCEPT !.meta = [m EXCEPT !.live = @ + 1]], k)

\* Mutant of MoveRow: the migrated row stays where it was.
MoveRow_Copies(d, keys, i) ==
  LET gone == [d EXCEPT !.meta.cursor = @ + 1]
  IN  IF keys[i] = NoKey THEN gone
      ELSE Admit([gone EXCEPT !.meta.old.rows = @ - 1], keys[i])

\* One source slot: its row goes to the current generation or to the overflow.
MoveRow(d, keys, i) ==
  LET gone == [d EXCEPT !.meta.cursor = @ + 1]
  IN  IF keys[i] = NoKey THEN gone
      ELSE Admit([gone EXCEPT !.img[CursorPage(d.meta)] = [keys EXCEPT ![i] = NoKey],
                                 !.meta.old.rows = @ - 1], keys[i])

\* _migrate_step_tx, up to its completion test.
Swept(d) ==
  LET scan[n \in 0 .. MigrationBudget] ==
        IF n = 0 THEN d
        ELSE LET s == scan[n-1]
             IN  IF s.meta.cursor >= s.meta.limit THEN s
                 ELSE MoveRow(s, CursorKeys(s.img, s.meta), CursorSlot(s.meta))
  IN  IF d.meta.old = NoGen THEN d ELSE scan[MigrationBudget]

Orphans(d, g) == \E p \in PagesOf(g) : Filled(d, p) # {}

\* A migration that has scanned its source but left rows in it raises, and the
\* transaction is rolled back.
Completed(d, before) ==
  IF ~MigrationDone(d.meta) THEN d
  ELSE IF d.meta.old.rows # 0 \/ Orphans(d, d.meta.old) THEN before
  ELSE [d EXCEPT !.meta = EndMigration(d.meta)]

\* insert(): BEGIN IMMEDIATE, one writer at a time.  A duplicate raises.
BeginInsert(k) ==
  /\ tx = NoTx
  /\ ~Contains(db, k)
  /\ tx' = [key |-> k, stage |-> "route", db |-> Route(db, k)]
  /\ UNCHANGED <<db, reader>>

Migrating ==
  /\ tx.stage = "route"
  /\ tx' = [tx EXCEPT !.stage = "final", !.db = Completed(Swept(tx.db), db)]
  /\ UNCHANGED <<db, reader>>

\* What the reader's key goes through: history, for the property below.
Moves(d, e, k) == PagesWith(d, k) # PagesWith(e, k) \/ (k \in d.overflow) # (k \in e.overflow)

Commit ==
  /\ tx.stage = "final"
  /\ db' = tx.db
  /\ tx' = NoTx
  /\ reader' = [reader EXCEPT !.moved = @ \/ Moves(db, tx.db, reader.key)]

\* SIGKILL, or an exception: the next connection finds the transaction gone.
\* recover() then changes nothing; it audits.
WriterDies == tx # NoTx /\ tx' = NoTx /\ UNCHANGED <<db, reader>>

-----------------------------------------------------------------------------
(* A lookup by another connection *)

PagesRead(g, k) == IF g = NoGen THEN <<>>
                   ELSE <<Buckets(g, k)[1], Buckets(g, k)[2], StashPage(g)>>

\* Mutant of Places: the old generation's stash is not read.
Places_NoOldStash(m, k) ==
  PagesRead(m.cur, k) \o (IF m.old = NoGen THEN <<>>
                          ELSE <<Buckets(m.old, k)[1], Buckets(m.old, k)[2]>>)

\* The pages lookup() selects from, by the routing row it has read.
Places(m, k) == PagesRead(m.cur, k) \o PagesRead(m.old, k)

\* lookup(): the routing row first.
ReadMeta(k) ==
  /\ reader.answer # "reading"
  /\ reader' = [key |-> k, meta |-> db.meta, at |-> 1, answer |-> "reading",
                had |-> k \in Stored(db), moved |-> FALSE]
  /\ UNCHANGED <<db, tx>>

ProbePage ==
  LET pages == Places(reader.meta, reader.key)
  IN  /\ reader.answer = "reading"
      /\ reader.at <= Len(pages)
      /\ reader' = IF pages[reader.at] \in PagesWith(db, reader.key)
                   THEN [reader EXCEPT !.answer = "found"]
                   ELSE [reader EXCEPT !.at = @ + 1]
      /\ UNCHANGED <<db, tx>>

\* The overflow table last, and only if there was a row in it at the start.
ProbeOverflow ==
  /\ reader.answer = "reading"
  /\ reader.at > Len(Places(reader.meta, reader.key))
  /\ reader' = [reader EXCEPT !.answer =
                  IF reader.meta.overflow # 0 /\ reader.key \in db.overflow
                  THEN "found" ELSE "absent"]
  /\ UNCHANGED <<db, tx>>

-----------------------------------------------------------------------------

HInit == db = Empty /\ tx = NoTx /\ reader = NoRead

HNext ==
  \/ \E k \in Key : BeginInsert(k) \/ ReadMeta(k)
  \/ Migrating \/ Commit \/ WriterDies
  \/ ProbePage \/ ProbeOverflow

HSpec == HInit /\ [][HNext]_hvars

-----------------------------------------------------------------------------
(* Properties *)

\* audit(), which recover() raises on: every key has one row, the counters of
\* the routing row are those of the tables, no row is of a generation it does
\* not name, and the cursor is within its limit.
Audited(d) ==
  LET m    == d.meta
      live == PagesOf(m.cur) \cup PagesOf(m.old)
  IN  /\ \A k \in Key : Copies(d, k) <= 1
      /\ m.live = Cardinality({k \in Key : Copies(d, k) = 1})
      /\ m.overflow = Cardinality(d.overflow)
      /\ m.cur.rows + m.old.rows = Cardinality(Rows(d))
      /\ \A p \in Page : Filled(d, p) # {} => p \in live
      /\ IF m.old = NoGen THEN m.cursor = 0 /\ m.limit = 0 ELSE m.cursor <= m.limit

\* Whatever is committed passes the audit: a process that comes up after a
\* death, and calls recover(), never finds a store it refuses.
StoreAudits == Audited(db)

\* A lookup reads in several transactions (durable_hybrid.py:523): what it
\* finds is stored, and what it does not find of what was stored when it began
\* has been moved meanwhile by an insertion that evicted or migrated it.
MissesOnlyMovedKeys ==
  /\ reader.answer = "found" => reader.key \in Stored(db)
  /\ reader.answer = "absent" /\ reader.had => reader.moved

KS == INSTANCE KeyStore
      WITH VolatileCache <- FALSE, members <- Stored(db), durable <- {},
           pending <- IF tx = NoTx THEN {} ELSE {tx.key}

\* Primary, overflow and routing row together are one growing set of keys,
\* through migrations and deaths: an insertion shows whole or not at all.
ImplementsKeyStore == KS!Spec
=============================================================================
