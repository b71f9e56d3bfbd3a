---------------------------- MODULE PrimaryTable ----------------------------
(***************************************************************************)
(* The table every primary store of this repository keeps on its pages     *)
(* (storage/fixed_page_primary.py): a set of keys in a bounded cuckoo      *)
(* table, which doubles by migrating a fixed number of slots with every    *)
(* insertion.  Plan is what _prepare_insert computes from the committed    *)
(* image: the pages a transaction changes and the metadata it commits.     *)
(* FixedPagePrimary puts the pages in place, SegmentedPrimary behind a     *)
(* radix of extents.                                                       *)
(***************************************************************************)
EXTENDS DualCopy, Integers, FiniteSets, FiniteSetsExt

CONSTANTS
  Key,             \* the keys callers insert
  NoKey,           \* an empty slot (None)
  BucketSize, StashCapacity, MaxKicks,
  MigrationBudget, \* source slots scanned per insertion
  InitialCapacity,
  Alignment,       \* logical pages a new generation's base is rounded up to
  LoadNum, LoadDen,\* max_load as a fraction
  Hash1, Hash2,    \* [Key -> Nat]: the two bucket hashes
  Choice,          \* [Key -> {1, 2}]: the bucket an eviction starts from
  Victim           \* [Key -> [0 .. MaxKicks-1 -> slot]]: the slot it evicts

-----------------------------------------------------------------------------
(* Generations: base page, capacity in slots, rows.  Capacity 0 is "None". *)

NoGen == [base |-> 0, cap |-> 0, rows |-> 0]
GenerationPages(cap) == cap \div BucketSize + 1
StashPage(g) == g.base + g.cap \div BucketSize
PagesOf(g) == IF g = NoGen THEN {} ELSE g.base .. StashPage(g)
Threshold(cap) == (cap * LoadNum) \div LoadDen

\* What initialize() writes.  "overflow" is hybrid_overflow_rows: absent until
\* CrossStoreHybrid sets it, read as 0, and kept by every insertion here.
FirstMeta ==
  [cur |-> [base |-> 0, cap |-> InitialCapacity, rows |-> 0], old |-> NoGen,
   cursor |-> 0, limit |-> 0, nextPage |-> GenerationPages(InitialCapacity),
   live |-> 0, overflow |-> 0]

\* What initialize() checks of a configuration before it writes anything; in SQLite
\* (durable_hybrid.py) a table may do without a stash, on pages it has one.
ASSUME BoundsAssumption ==
  /\ BucketSize \in Nat \ {0} /\ StashCapacity \in Nat
  /\ MaxKicks \in Nat \ {0} /\ MigrationBudget \in Nat \ {0}
ASSUME CapacityAssumption ==
  /\ InitialCapacity \in Nat /\ InitialCapacity % BucketSize = 0
  /\ InitialCapacity \div BucketSize > 1
ASSUME LoadAssumption ==
  LoadNum \in Nat \ {0} /\ LoadDen \in Nat \ {0} /\ LoadNum < LoadDen

\* The keyed digests, and the slot they are reduced to.
ASSUME HashAssumption ==
  /\ Hash1 \in [Key -> Nat] /\ Hash2 \in [Key -> Nat]
  /\ Choice \in [Key -> {1, 2}]
  /\ Victim \in [Key -> [0 .. MaxKicks-1 -> 0 .. BucketSize-1]]

\* Pages are numbered from 0 without gaps, the first generation's among them;
\* None is no key, and no page.
ASSUME NoKeyAssumption     == NoKey \notin Key
ASSUME RowAssumption       == \A n \in {BucketSize, StashCapacity} :
                                Blank \notin [0 .. n-1 -> Key \cup {NoKey}]
ASSUME PagesAssumption     == /\ \A p \in Page : 0 .. p \subseteq Page
                              /\ GenerationPages(InitialCapacity) - 1 \in Page
ASSUME AlignmentAssumption == Alignment \in Nat \ {0}

\* _bucket_pair: the pages of a key's two buckets in a generation.
Buckets(g, k) ==
  LET count  == g.cap \div BucketSize
      first  == Hash1[k] % count
      second == Hash2[k] % count
  IN  <<g.base + first,
        g.base + (IF second = first THEN (second + 1) % count ELSE second)>>

\* A page that was never written reads as empty slots.
Slots(img, p, n) == IF img[p] = Blank THEN [i \in 0 .. n-1 |-> NoKey] ELSE img[p]
Bucket(img, p)   == Slots(img, p, BucketSize)
Stash(img, g)    == Slots(img, StashPage(g), StashCapacity)

\* _lookup_generation_tx
Holds(img, g, k) ==
  /\ g # NoGen
  /\ \/ \E p \in {Buckets(g, k)[1], Buckets(g, k)[2]}, i \in 0 .. BucketSize-1 :
           Bucket(img, p)[i] = k
     \/ \E i \in 0 .. StashCapacity-1 : Stash(img, g)[i] = k

\* Mutant of Found: a migrating store only looks into its new generation.
Found_NewOnly(img, m, k) == Holds(img, m.cur, k)

Found(img, m, k) == Holds(img, m.cur, k) \/ Holds(img, m.old, k)

-----------------------------------------------------------------------------
(* The transaction's view: the image it sees and the pages it rewrites.    *)

Put(v, p, keys) == [img |-> [v.img EXCEPT ![p] = keys], written |-> v.written \cup {p}]
Free(keys) == {i \in DOMAIN keys : keys[i] = NoKey}
Fill(v, p, keys, k) == Put(v, p, [keys EXCEPT ![Min(Free(keys))] = k])

OtherBucket(pair, p) == IF pair[1] = p THEN pair[2] ELSE pair[1]

\* One kick: the homeless key takes its victim's slot, and the victim is sent
\* to its other bucket.
Kick(s, g, keys, slot) ==
  [view |-> Put(s.view, s.at, [keys EXCEPT ![slot] = s.key]),
   key  |-> keys[slot],
   at   |-> IF keys[slot] = NoKey THEN s.at
                                  ELSE OtherBucket(Buckets(g, keys[slot]), s.at)]

\* The eviction chain, until a key is NoKey or the kicks run out.
Evict(v, g, k) ==
  LET kick[n \in 0 .. MaxKicks] ==
        IF n = 0
        THEN [view |-> v, key |-> k, at |-> Buckets(g, k)[Choice[k]]]
        ELSE LET next(s) == IF s.key = NoKey THEN s
                            ELSE Kick(s, g, Bucket(s.view.img, s.at), Victim[s.key][n-1])
             IN  next(kick[n-1])
  IN  kick[MaxKicks]

Placed(v) == [ok |-> TRUE, view |-> v]

\* What is left of the chain goes to the stash.
Settle(last, stash, g, otherwise) ==
  IF last.key = NoKey THEN Placed(last.view)
  ELSE IF Free(stash) # {} THEN Placed(Fill(last.view, StashPage(g), stash, last.key))
  ELSE [ok |-> FALSE, view |-> otherwise]

Overflow(last, g, otherwise) == Settle(last, Stash(last.view.img, g), g, otherwise)

\* _place_primary_tx: first bucket, second bucket, evictions, stash; or
\* failure, with the pages as they were.
PlaceIn(v, g, k, pair) ==
  IF Free(Bucket(v.img, pair[1])) # {} THEN Placed(Fill(v, pair[1], Bucket(v.img, pair[1]), k))
  ELSE IF Free(Bucket(v.img, pair[2])) # {} THEN Placed(Fill(v, pair[2], Bucket(v.img, pair[2]), k))
  ELSE Overflow(Evict(v, g, k), g, v)

Place(v, g, k) == PlaceIn(v, g, k, Buckets(g, k))

\* Mutant of StartMigration: the sweep ends before the stash.
StartMigration_NoStash(m) ==
  LET cap == 2 * m.cur.cap
  IN  [m EXCEPT !.old = m.cur,
                !.cur = [base |-> m.nextPage, cap |-> cap, rows |-> 0],
                !.cursor = 0,
                !.limit = m.cur.cap,
                !.nextPage = m.nextPage + GenerationPages(cap)]

\* _aligned_generation_base: since v0.33 a generation starts on a boundary.
Aligned(p) == ((p + Alignment - 1) \div Alignment) * Alignment

\* _start_migration_tx: the current generation becomes the old one and a
\* generation of twice its capacity is laid out after the last page.
StartMigration(m) ==
  LET cap  == 2 * m.cur.cap
      base == Aligned(m.nextPage)
  IN  [m EXCEPT !.old = m.cur,
                !.cur = [base |-> base, cap |-> cap, rows |-> 0],
                !.cursor = 0,
                !.limit = m.cur.cap + StashCapacity,
                !.nextPage = base + GenerationPages(cap)]

\* The slot the cursor is at: buckets in order, then the stash.
CursorPage(m) == IF m.cursor < m.old.cap THEN m.old.base + m.cursor \div BucketSize
                                         ELSE StashPage(m.old)
CursorSlot(m) == IF m.cursor < m.old.cap THEN m.cursor % BucketSize
                                         ELSE m.cursor - m.old.cap
CursorKeys(img, m) == IF m.cursor < m.old.cap THEN Bucket(img, CursorPage(m))
                                              ELSE Stash(img, m.old)

Moved(s, put) ==
  IF ~put.ok THEN [s EXCEPT !.ok = FALSE]
  ELSE [ok |-> TRUE, view |-> put.view,
        meta |-> [s.meta EXCEPT !.cursor = @ + 1, !.old.rows = @ - 1, !.cur.rows = @ + 1]]

\* Mutant of MoveKey: the migrated slot is copied, not moved.
MoveKey_Copies(s, keys, i) ==
  IF keys[i] = NoKey THEN [s EXCEPT !.meta.cursor = @ + 1]
  ELSE Moved(s, Place(s.view, s.meta.cur, keys[i]))

\* _delete_virtual_slot_tx and the placement of what it found.
MoveKey(s, keys, i) ==
  IF keys[i] = NoKey THEN [s EXCEPT !.meta.cursor = @ + 1]
  ELSE Moved(s, Place(Put(s.view, CursorPage(s.meta), [keys EXCEPT ![i] = NoKey]),
                      s.meta.cur, keys[i]))

MoveSlot(s) ==
  IF ~s.ok \/ s.meta.cursor >= s.meta.limit THEN s
  ELSE MoveKey(s, CursorKeys(s.view.img, s.meta), CursorSlot(s.meta))

\* _migrate_tx, up to its completion test: at most MigrationBudget slots.
Migrate(view, m) ==
  LET scan[n \in 0 .. MigrationBudget] ==
        IF n = 0 THEN [ok |-> TRUE, view |-> view, meta |-> m] ELSE MoveSlot(scan[n-1])
  IN  scan[IF m.old = NoGen THEN 0 ELSE MigrationBudget]

MigrationDone(m) == m.old # NoGen /\ m.cursor >= m.limit

Backlog(m) == m.cur.rows + 1 > Threshold(m.cur.cap)

\* The placement of the new key, and this insertion's share of the migration.
Counted(m) == [m EXCEPT !.cur.rows = @ + 1, !.live = @ + 1]
Sweep(put, m) == IF put.ok THEN Migrate(put.view, Counted(m))
                           ELSE [ok |-> FALSE, view |-> put.view, meta |-> m]
AttemptIn(img, m, k) == Sweep(Place([img |-> img, written |-> {}], m.cur, k), m)

\* The same, after starting a migration if the table is full.
Attempt(img, m, k) ==
  AttemptIn(img, IF m.old = NoGen /\ Backlog(m) THEN StartMigration(m) ELSE m, k)

Answer(a, m) == [outcome |-> a, changes |-> <<>>, meta |-> m]
EndMigration(m) == [m EXCEPT !.old = NoGen, !.cursor = 0, !.limit = 0]

\* "refused" is PrimaryAdmissionExhausted, "broken" the AssertionError of a
\* migration that completes with old rows left.
Conclude(try, m) ==
  IF ~try.ok THEN Answer("refused", m)
  ELSE IF MigrationDone(try.meta) /\ try.meta.old.rows # 0 THEN Answer("broken", m)
  ELSE [outcome |-> "commit",
        changes |-> [p \in try.view.written \cap Page |-> try.view.img[p]],
        meta    |-> IF MigrationDone(try.meta) THEN EndMigration(try.meta) ELSE try.meta]

\* _prepare_insert
Plan(img, m, k) ==
  IF Found(img, m, k) THEN Answer("duplicate", m)
  ELSE IF m.old # NoGen /\ Backlog(m) THEN Answer("refused", m)
  ELSE Conclude(Attempt(img, m, k), m)
=============================================================================
