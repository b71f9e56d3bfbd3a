# Durable Infinite Context: a TLA+ development

The repository grows one idea, an unbounded external memory with bounded work
per operation, through some forty versions.  Every version is a small program
(`storage/`, `state/`, `core/`, `rag/`), an experiment that measures it and
crashes it (`simulator/`, `benchmark/`, `run_*`, `verify_*`), and a written
verdict (`RESULTS_V0.*.md`).  This directory models the programs: what a store's
files hold, what every operation does to them, and what a killed process or a
power loss makes of an operation that was half done.  Of the experiments it
takes what they accept of a killed worker's store, as abstract specifications.

## 1. The system

### 1.1 Components

| Component | State | Operations | What makes it correct |
|---|---|---|---|
| Dual-copy page file (`storage/fixed_page_primary.py`, reused by every later primary) | two superblock slots, two copies of every page, epochs | begin, page writes, fsync, superblock write, fsync; read at the committed epoch | a reader sees the image before or after a transaction, never a mixture; what `insert()` returned for survives |
| Fixed-page primary, v0.24 (same file) | bucket and stash pages of the current and the old generation, migration cursor, counters | `insert`, `lookup`, `audit`, `recover` | no key twice, none lost, counters exact, migration ends before the table fills |
| Cross-store hybrid, v0.25 (`storage/cross_store_hybrid.py`), interruptible recovery, v0.26, persistence fault model, v0.27 | a fixed-page primary, a SQLite table of overflow rows `(key, epoch)`, the file's length | `insert`, `lookup`, `audit`, `recover` | a row belongs to the state iff its epoch is committed; recovery converges however often it is cut short |
| Segmented and radix primaries, v0.28-v0.31 (`storage/segmented_fixed_page_primary.py`, `radix_fixed_page_primary.py`) | a dual-copy radix of nodes, extents of page pairs, the committed end of the file | insert, map, audit, recover | extents are disjoint, the frontier covers what is reachable, the table's image changes whole |
| Reclaiming radix primaries, v0.32-v0.34 (`storage/reclaiming_radix_primary.py`, `generation_reclaiming_radix_primary.py`, `queued_generation_reclaiming_primary.py`) | lifecycle headers, chains of extents by owner, a free list, the retired generations | own, retire, reclaim step, reuse with scrubbing, insert, recover | each extent is on one chain; a live one is never reclaimed; a reused one never shows what it held |
| Retirement descriptors, v0.34-v0.38 (`storage/*_retirement_descriptor_primary.py`) | descriptors under incarnations, queue, free list, sidecar arena | retire, reclaim step, shrink, look a reference up, recover | a FIFO queue; a stale reference never resolves; the arena is as long as the superblock says |
| SQLite intent pipeline, v0.7-v0.12 (`storage/sqlite_recovery.py`, `process_store.py`, `multi_intent.py`, `topology_intent.py`, `growth_intent.py`) | canonical facts, materialised nodes, intents with phases, a queue | admit, promote, apply, invalidate, rebuild, repair, gated read | readers see a repaired snapshot or none; an admitted intent is applied once or refused |
| Subject heads, profiles and memberships, v0.13-v0.16 (`storage/predicate_schema.py`, `subject_heads.py`, `compositional_profile.py`, `normalized_membership.py`) | the pipeline's, a table of current assertions, a membership table, profiles in four forms | the pipeline's, adding and changing predicates, composed reads | the tables say what a scan would; what a read puts together is of one moment |
| Hash tables and overflow in SQLite, v0.16-v0.23 (`storage/hash_resize.py` ... `durable_hybrid.py`) | six in-memory tables; SQLite tables of slots, stash, overflow and one routing row | insert, lookup, migrate, audit, recover | the tables agree; an insertion shows whole or not at all, through migrations and deaths |
| In-memory cascade and recovery, v0.7-v0.8 (`state/cascade.py`, `dependencies.py`, `recovery.py`) | facts, dependency graph with edges both ways, materialised nodes, one journalled intent | upsert, delete, relate, rebuild any part; prepare, apply, invalidate, rebuild, recover | nothing derived is read stale; the graph ends as a new build; recovery is idempotent |
| In-memory facts (`core/storage.py`, `core/models.py`, `state/reconciliation.py`) | evidence, assertions, relations, locality indexes | record, replace, delete, reconcile, answer as of a recording | the indexes are those of a scan |
| Incremental cells, v0.2 (`state/incremental.py`) | one cell per key | record an assertion | the cell answers as a full reconciliation |
| Retrieval and planners (`rag/`) | postings of words, fragments and n-grams by subject | refresh one subject, resolve a question, adaptive search | kept up to date, the index is the one built from nothing; a plan finds what a scan finds |
| Experiments (`simulator/`, `benchmark/`, `run_*.py`, `verify_*.py`, `tests/`) | temporary directories | run, crash, compare | their oracles are the abstract specifications |

### 1.2 How they interact

A store is called by one writer at a time and reads and writes its file through
`os.pread`, `os.pwrite`, `os.fsync` and `os.ftruncate`; nothing is cached
between two calls.  An operation is computed from the committed image
(`_prepare_insert`, `_prepare_reclaim` and their like) and then carried out page
by page.  The hybrid calls the primary's methods and commits its SQLite rows
before the superblock that makes their epoch count.  The later primaries
override where a page is placed and keep the commit protocol; from v0.32 on an
insertion that completes a migration also retires the old generation.  The
SQLite pipeline has one writer transaction at a time, any number of processes
that drain it, and readers that see committed states between its phases; the
profile stores add tables to its transactions.  The address index is refreshed
by the maintainer of the facts, one subject at a time.

### 1.3 What is hard

* an operation is several system calls, and a process may die between any two;
* pages reach the device in any order between two fsyncs, and power may fail;
* nothing removes what an interrupted transaction has written, so the next one
  meets it;
* a key moves several times (evictions, migration steps) inside transactions
  that may each be cut short;
* the migration only advances with insertions, and must end before the new
  generation is full;
* extents, descriptors, page numbers and epochs are reused, and references to
  what they were survive;
* recovery itself may be interrupted and repeated;
* a read is several queries, or puts several tables together, while maintenance
  is between two of its transactions.

`PROJECT.json` lists each hazard with its line and the properties aimed at it.

## 2. Modules

| Module | What it is |
|---|---|
| `AtomicPages` | abstract: an image that a transaction replaces in one step, first visible, then durable |
| `KeyStore` | abstract: a set of keys that grows by one at a time |
| `RetirementQueue` | abstract: retired generations in a FIFO queue |
| `IntentLog` | abstract: a serial log of intents, each applied or refused |
| `DualCopy` | two copies under epochs: which one is read, which one is written |
| `DualCopyPages` | the page file and its commit protocol, for any pages and contents |
| `PrimaryTable`, `PrimaryTable_proofs` | the table as operators: placement, stash, migration, the plan of an insertion; lemmas on what a plan leaves |
| `FixedPagePrimary` | the v0.24 store: `PrimaryTable` over `DualCopyPages` |
| `CrossStoreHybrid`, `CrossStoreHybrid_proofs` | the v0.25 hybrid with v0.26 recovery and v0.27 power loss, over `FixedPagePrimary`; the theorems about the three |
| `SegmentedPrimary` | v0.30 to v0.34: `PrimaryTable` on logical pages mapped through a radix to extents that are chained, retired and used again |
| `RetirementArena`, `RetirementArena_proofs` | v0.34 to v0.38: descriptors of retired generations, their pool and its file; its theorems |
| `DurableHybrid`, `DurableHybrid_proofs` | v0.23: `PrimaryTable` and an overflow in SQLite transactions, with a concurrent lookup; its theorems |
| `Materialization` | facts, what is derived from them, invalidation and repair, as operators |
| `IntentPipeline`, `IntentPipeline_proofs` | the v0.12 queue, journal and processes, over `Materialization`; the theorems about both |
| `ProfileRows` | what is derived from subjects with several predicates, in the four forms of v0.13 to v0.16 |
| `SubjectProfile`, `SubjectProfile_proofs` | the four stores over `ProfileRows`, and composed reads; their theorems |
| `DependencyCascade` | the in-memory facts and what is derived from them, as operators |
| `CascadeRecovery` | the maintainer and the recovery coordinator over `DependencyCascade` |
| `IncrementalState` | the incrementally maintained cell, against `Reconciled` of `DependencyCascade` |
| `HashTables`, `HashTables_proofs` | the in-memory tables of v0.18 to v0.22, side by side; their theorems |
| `AddressIndex` | the fact store's locality indexes, the subject index, its maintenance, the planner and the search |
| `InMemory`, `InMemory_proofs` | the three parts a process keeps without durable state, side by side; the theorems about the cells, the index and `CascadeRecovery` |
| `MCFixedPagePrimary`, `MCCrossStoreHybrid`, `MCSegmentedPrimary`, `MCRetirementArena`, `MCDurableHybrid`, `MCIntentPipeline`, `MCSubjectProfile`, `MCCascadeRecovery`, `MCInMemory` | instances for TLC |

What composes what: `PrimaryTable` is instantiated by the three stores that keep
a table (`FixedPagePrimary` on pages, `DurableHybrid` in SQLite,
`SegmentedPrimary` behind a radix), `DualCopyPages` is extended by
`FixedPagePrimary` and that by `CrossStoreHybrid`; `DualCopy` is below everything
that has two copies; `InMemory` puts the three parts without durable state
side by side.  `AtomicPages` is implemented by `DualCopyPages` and by
`SegmentedPrimary`, `KeyStore` by both hybrids.

### 2.1 DualCopyPages

`super` and `copies` are what `pread` returns, `dsuper` and `dcopies` what the
device holds; an fsync makes the second equal to the first, `Writeback` lets
single pages through earlier, `PowerLoss` does the opposite.  A copy that does
not parse is `Absent` (epoch 0).  `ReadPage` is `_read_logical_page`,
`TargetSlot` is `_write_logical_page`'s choice of the copy to overwrite, and the
actions `BeginTx`, `WritePage`, `SyncData`, `WriteSuper`, `SyncSuper` are the
system calls of `insert()` in their order; pages are written in ascending
order, as the code's `sorted(tx.changes)` does.  `ProcessCrash` loses the
transaction and nothing else.

`Visible` is what `logical_snapshot()` would return, `Durable` what it would
return after a power loss.

### 2.2 PrimaryTable and FixedPagePrimary

`Plan(image, metadata, key)` is `_prepare_insert`: duplicate check, start of a
migration when the table is full, placement (first bucket, second bucket,
eviction chain, stash), and a share of the migration.  It is a pure function of
the committed image, as the code's is; its result is the set of pages a
transaction rewrites and the metadata it commits.  Hashes, the choice of the
first eviction and the victims are constants: any function will do, and the
instances take ones that collide.  `call` is the insertion that is running,
`owed` the last one a fault cut short, `acked` the keys `insert()` has returned
for; only the last two are history variables, and no guard but the caller's
reads them.

### 2.3 CrossStoreHybrid

`row[k]` is the epoch of a key's row in the SQLite table, `len` and `dlen` the
length of the file as `os.fstat` and as the device have it, in logical pages,
and `startup` how far this process's `recover()` has come.  A row is *visible*
when its epoch is at most the one in the superblock: the superblock is the
coordinator, and no transaction spans the two stores.  An insertion the primary
refuses takes the overflow path: its row is committed with the next epoch, and
the superblock is then written with no page before it, so the transaction
enters the page protocol at phase `"synced"` with no changes.

`insert()` recovers first, once in the life of a process (`startup =
"recovered"`): delete the rows of future epochs, cut the file back to what the
committed metadata reaches, fsync.  Each is a step of its own and each may be
the last one before a fault.  Three kinds of fault: `"process"` (killed),
`"power"` (the device's copies and length come back) and `"error"` (an
exception in the middle of `insert()`, after which the process goes on and
counts as recovered).

A refused insertion that started a migration has lengthened the file and
committed nothing; the tail stays until the next recovery, and the next
insertion finds the same pages again.

### 2.4 SegmentedPrimary

`file` holds the superblock's two slots and, for every pair of pages, two copies
with the kind of record they hold: a radix node, a page of the table, a
lifecycle header.  An operation (`op`) is a plan: the writes it will do, in
their order, and the metadata it commits.  `WriteStep` does one of them,
`Publish` the superblock, `Crash` loses the rest, and `owed` has the caller
repeat a call that was cut short.  `Insert` is `PrimaryTable`'s plan followed by
the mappings its pages need and, from v0.33 on, by the retirement of a
generation whose migration ended; `Materialize`, `RetireOwner` and `Reuse` are
the operations a caller may run by hand, `Reclaim` is `reclaim_step`.  The format
is in the superblock, so that one specification has all five releases.

A v0.30 node is JSON and may outgrow its page: the model counts the digits of
the pages a node names, and `Raised` ends the operation with what had been
written before the exception.  Two simplifications of the file: `OwnedExtent`
lengthens the file in two steps where the model has the pairs appear with their
first write, and the bound of page numbers by 64 bits is left out.  In formats 31
and 32 the segments mapped by hand are ones the table does not use, as in the
experiments.  v0.34's descriptors only take their place at the end of the file
here; `RetirementArena` is about what is in them.

`FrontierCovers` also says what v0.29 computed on paper
(`storage/segmented_extent_mapping.py`): what a fresh mapping may take of the end
of the file, and how many nodes the densest radix has.

### 2.5 RetirementArena

`file` is what the process reads, `disk` what the device has, each a superblock
and an arena of descriptors with its length.  A reference is a page and an
incarnation, and a read through one checks kind, identity and status.  `Retire`,
`Reclaim`, `Shrink` and `Recover` plan system calls that `Step` carries out one at
a time.  A power loss leaves any part of what had not been fsynced.  Each
behaviour has one kind of fault (section 5, *Two kinds of fault*).

Formats 34, 35 and 38 are checked.  v0.36 added no store (its candidate never
truncates anything), and v0.37 is v0.38 without `Shrink`; its lookup of a reference
has no bounds check (`segregated_retirement_descriptor_primary.py:714`), so that
between the superblock that empties the arena and the truncation a finished
descriptor may still be looked up, and `ReferencesResolveExactly` speaks of 35 and
38 only.  A migration of a generation without segments retires nothing, and is
here as any other insertion.

### 2.6 DurableHybrid

`db` is what is committed, `tx` the writer's transaction with its own view, and
`reader` a lookup by another connection: each of its SELECTs sees what is
committed when it runs (`durable_hybrid.py:523`), so it may miss a key that is
moved between two of them.  `MissesOnlyMovedKeys` says that this is all it may
miss.  The writer's death rolls its transaction back, and SQLite's own
durability is trusted.

### 2.7 Materialization and IntentPipeline

A fact is an assertion `(subject, object, evidence)` with the payload of its
evidence; the instances follow `bootstrap()`, which gives every assertion its
own evidence and one predicate to all.  Derived nodes are `state`, `support`,
`context` and `profile` of a subject; `Clean(f)` is what a full rebuild of the
facts `f` stores, with its edges.  `Affected` follows the edges that are stored,
not the ones that should be; `Repaired` rebuilds level by level.

In `IntentPipeline` every phase of maintenance is one SQLite transaction, so a
killed process loses only `pc`, its place in the program.  `recover()` keeps the
phase it has read in a local variable and moves it on itself, which is why `pc`
has the phases among its values: what the journal says may have changed since.
A reader's queries see one WAL snapshot, so a read is a predicate on a state
(`Blocked`, `Context`) and no action.  The earlier stores, v0.7 to v0.11, are
what this one inherits; where v0.12 or v0.11 corrected its predecessor (the read
keys taken again at promotion, the version looked at, the conflict recorded) the
older behaviour is a mutant.  The three edge steps of `affected_node_ids` reach
everything, since the longest path of derived nodes is state, support, context.
`IntentLog` is what a client may rely on: its intent is applied in its turn, or
refused because what it writes changed since it was admitted.

Left out: SQLite's lock timeout (a transaction that waits too long raises before
it has done anything), and `prepare()`, which the stores refuse since v0.10.

### 2.8 ProfileRows and SubjectProfile

The same pipeline with several predicates to a subject.  `release` is a variable
that never changes, so that one specification has the four stores: 13 scans the
assertions, 14 keeps the current assertion of each key in `heads`, 15 leaves the
evidence to the supports and a manifest to the profile, 16 puts the predicates in
the table `members`.  One process drains, a transaction at a time; what several
processes do to each other is `IntentPipeline`'s subject.  `PartialTx` is the
failpoint that leaves a node half rebuilt; which node of the lowest rank it
picks is left open.

`Composed(s, r)` is `read_composed_profile` on one snapshot, for all predicates or
for those named; `CleanComposed` is the oracle of the experiments, on the facts.

Bounds that are assumptions: one assertion more than `bootstrap()` makes to an
entity, one predicate that can be added, and, with `AddOnce`, added to an entity
once (section 5, *A predicate twice*).  Left out: a second `bootstrap()`, a
request for no predicate at all, counters and query plans.

### 2.9 DependencyCascade and CascadeRecovery

The in-memory ancestor of the pipeline has what the pipeline leaves out:
relations between assertions (`corrects`, `supersedes`, `contradicts`), cells
that are contested, many assertions to a key, evidence shared between them, and
a caller who rebuilds what it likes when it likes.  `facts` is the
`MemoryStore`, `derived` gives each node its status, its value and the edges it is
registered with, and `Rebuild(d, f, targets)` is
`CascadeMaterialization.rebuild`: the invalid targets and the invalid nodes below
them, in order, and then the retirement of what has no assertions left.  A
profile is what the subject's predicates and evidence make it.

`Mutate` is any operation of `CascadeMaintainer`, `RebuildSome` any rebuild
between two of them, of one node or of all that are invalid.  The coordinator's
phases are the actions `Prepare` to `Finish`; `PartialRebuild` is its failpoint,
which writes one node and leaves it `rebuilding`.  `Crash` brings up the durable
image: everything as it was, except that of the canonical write and its marker
one may be missing (recovery.py:75-78).  `restarted` is the `recovery_mode` of
the call that goes on.

The maintainer is not called while an intent is in flight: the coordinator says
it does not claim concurrent writers.  Left out: validity times and scopes, the
order inside a cell, trace counters, and predicates without a schema, over which
`reconcile` raises and leaves the node half rebuilt.  A tear of a later marker
is outside what the coordinator claims: without its affected list an intent
would leave its region invalid, and reads of it refused.

### 2.10 What is kept in memory: IncrementalState, HashTables, AddressIndex

`Record` is one round of `build_incremental` (`run_tradeoff_experiment.py`): an
assertion, what it says of earlier ones, and `Maintained`, the new cell of its
key by the cases of `apply_incremental_current_state`.  `AnswersAreReconciled` is
about the answer, as it is now and as it was at an earlier recording; the
evidence named with it and valid times are left out.

`HashTables` inserts the same keys into the six tables as the experiments do.
Hashes, the bucket an eviction starts from and each of its victims are digests of
their own in the code, and inputs here (`Setups`): `TablesAgree` has what the experiments'
envelopes assert of them and that they find the same keys, `KeysStay` that
an insertion, an eviction chain that fails included, loses none.

`AddressIndex` keeps a text as the count of its words.  The three dictionaries of
postings (words, fragments, n-grams) are one relation, since a feature has its
kind; logarithms are integer tables, and a question is its words, a predicate, its
type and the planner's limits.  What the search reads of the store and no index does
(object values, relations between assertions, contested cells) is any of `Asides`,
and `Sufficient` is `coverage_satisfied` over the assertions found: a question about
a relation wants one that corrects or supersedes, a contested cell two values, any
other question one assertion.  `IndexIsRebuilt` compares the index kept one subject at a
time with `build` from nothing, `PlansMatchScan` compares the resolution of a
question, and whether the search ends covered when its budget is doubled, with a
scan of everything.  Reading a
question's text, the order TF-IDF gives the passages, and filters by time are
left out.

## 3. Runs

Bounds.  *Tables on pages* (`primary_*`, `hybrid_power`): five keys with one-slot
buckets.  In the primary they go through two migrations (capacities 2, 4, 8);
three share both buckets and two one of these, so that insertions evict, the
stash is in use when the second migration begins and when it is swept, and a call
ends half-way through it.  In the hybrid four of them share both buckets until
the capacity is 8, so that the third goes to the stash and the fourth to the
overflow, while the migration from 4 to 8 is under way or after it; a fifth key
reaches the epoch an abandoned row carries.  `MaxEpoch` is one more than the
number of keys, and an insertion that is cut short uses up no epoch.

*Segments*: six keys, inserted in order, fill generations of 3, 5 and 9 pages on
segments of 4 pages, under a radix of 3 levels and fanout 2, in which a v0.30 node
has room for 3 digits; segments 6 and 7, which no generation reaches, are mapped
by hand in batches.  Budgets of 1 and 2 end a reclaim step in the midst of a chain
and at its end.  `MaxEpoch` is 5 or 6 where the caller does what it likes by hand,
12 in v0.33 and v0.34, enough to retire, reclaim and use again.  `MaxPair` bounds
the file and is never reached.

*Arena*: three descriptor pages and generations of two segments, with budgets of 1
and 2, and eight commits: enough to fill the arena, empty it and fill it again
under new incarnations.

*DurableHybrid*: six keys, capacities 4 and 8, five of which share both buckets;
keys with equal hashes and choices are interchangeable, hence the symmetry.

*Pipeline*: three intents, over two entities and three subjects, are the fewest of
which one can be refused because of a second while a third still waits; two
objects tell a change from the absence of one.  The runs stop when `MaxIntents`
are admitted and the queue is drained.  *Profiles*: three intents over two
entities, two subjects and two predicates, which can add a predicate, move it to
the other subject and delete it.

*Cascade*: two disagreeing assertions about one of two subjects, resting on one
piece of evidence; two mutations can move one to the other subject while the
first chain is partly rebuilt, or delete both.

*In memory*: five keys in every order of insertion, over hashes that collide and
wrap around, in one-slot buckets with a stash and in two-slot buckets without;
four assertions of which only the third may be about a multi-valued key, or three
whatever they are about (one more than the repository's test of a partial
correction needs: the fourth meets the cell that correction left); three
assertions with two pieces of evidence about two subjects whose names share a
fragment and an n-gram, four questions, and ten ways in which the assertions agree,
disagree or are related, of which nine have one disagreement or one relation, so that
it matters which pieces of evidence the budget lets through.  The three parts do not read each
other, so a behaviour exercises one of them.

Four runs end at a bound, where a real caller would go on: `segments_crash` and
`arena_crash` at `MaxEpoch`, `profiles_reads` at `MaxIntents`, `in_memory` when all is
inserted; so do the two that expect a violation.  They have `CHECK_DEADLOCK FALSE`;
the others are checked for deadlock.

| Run | Shows |
|---|---|
| `primary_power` | power loss at any step and arbitrary writeback, through two migrations: the page protocol implements `AtomicPages`, the table audits, membership is exact, each sweep keeps pace and takes the stash along, an insertion that is repeated rewrites every page it had left ahead, and what a reader sees outside the superblock's window is durable |
| `primary_reuse` | defect 1 of section 5 |
| `hybrid_power` | primary and overflow under power loss, the file's length included, implement one `KeyStore`; acknowledged keys stay; the count of the overflow is exact; a row appears and disappears only with the superblock; recovery converges, on the device too, however often it was cut short |
| `segments_crash` | five releases killed between any two writes: extents are on one chain each with headers that agree; live ones are not reclaimed; the committed frontier covers what is reached, without holes; behind the radix the table's pages implement `AtomicPages`, so that a reused extent shows nothing of what it held |
| `arena_crash` | the queue of retired generations implements `RetirementQueue`; its snapshot is valid after any faults and no operation meets a state it refuses; references resolve exactly while their generation waits; the file covers what is committed, on the device too |
| `durable_read` | the SQLite store audits after every death, implements `KeyStore`, and a concurrent lookup misses only what was moved under it |
| `intents_one` | one process, killed anywhere or stepping by hand: admitted reads are current, what is derived is clean, the queue implements `IntentLog` |
| `intents_live` | two processes that drain side by side: every intent ends |
| `intents_two` | defect 2 of section 5 |
| `profiles_reads` | four releases, reads at any moment: the tables of heads and memberships are those of a scan after every transaction, a composed profile that is returned is the one the facts give, the profile ends clean |
| `cascade_crash` | any mutations, direct or journalled, any part rebuilt at any time, crashes in every phase and the torn first write: trusted nodes are current, settled ones are a clean build |
| `in_memory` | every order of insertion into six tables, every history of a cell, every history of an index: the tables agree and lose nothing, the cell answers as reconciliation would, the index is the one built from nothing and its plans are a scan's |

A process death of the hybrid has no run of its own: it leaves what a power loss
leaves after everything has been written back, which `hybrid_power` contains.

Two specifications state fairness.  `FairHybridSpec` has weak fairness of
`Recover`: a process that comes up runs `recover()` on, as the next mutation or
the recovery worker calls it; `RecoveryConverges` is conditional on the faults
ending, since a process may be killed at every start.  `FairSpec` of the pipeline
has weak fairness of each worker's `Drain`: `drain_all` loops until the queue is
empty and is called again when its process has died; `EveryIntentEnds` assumes
that the kills end.  The other specifications state none: these stores are
sequential programs driven by their caller, and nothing is promised to happen
without a call.

## 4. Theorems

Of the page file the argument is one inductive invariant, `PagesInv`: superblock slots never
tie, no copy is more than one epoch ahead, every page that is ahead belongs to
the transaction in flight, those it has written hold what it will commit, and
the device differs from the page cache only in copies the committed image does
not read.  Atomicity alone is not inductive: that the next superblock commits
exactly the transaction depends on nothing else being ahead.

* `PagesInvariance`, `CommitAtomicity`, `DurableBeforeAckHolds`,
  `PagesImplementAtomicPages`: for every set of pages and contents, any number
  of epochs, one kind of fault (`SingleFault`), and `RetryFirst`.
* `PagesTyped`: types, with no assumption.
* `RetryIsIdempotent`, `InsertAtomicity`: the same of `FixedPagePrimary`, for
  any keys, hashes and table sizes.  `OwedInv` adds that what is left ahead is
  planned again by the insertion that is owed; it discharges the covering
  condition that `DualCopyPages` assumes of its caller.
* `StoreInvariance`, `StoreAlwaysAudits`, `StoreIsExact`: the table itself, for any
  keys, hashes, capacities, stash and pages, under `RetryFirst` and `SingleFault`.
  `StoreInv` adds to `OwedInv` that the table a reader sees is at rest
  (`TableInv`): every row is in one of the two buckets or the stash of its key,
  no key has two rows, behind the cursor of a migration there is nothing, and the
  counters are the rows of either generation.  Rows are counted as the set of
  places that hold one, with `Cardinality`; an eviction is a write that replaces
  one row by another, so a chain of any length keeps everything but the row it
  carries, and `Plan` takes a table at rest to a table at rest with one key more
  (`PrimaryTable_proofs`).  `AuditValid` is not inductive: it does not say where a
  row must be, which is what keeps a later lookup exact.
* `PacedInvariance`, `MigrationPaces`: a migration ends with nothing left behind
  and before the new generation is at its own threshold.  Two more hypotheses:
  `BudgetOutrunsLoad`, that sweeping `c + StashCapacity` slots takes fewer
  insertions than the load factor leaves between the thresholds of `c` and `2 c`,
  which a caller who picks a small budget can break (the code checks neither), and
  which the defaults (128, 0.50, stash 8, budget 8) satisfy: they need 17 insertions
  of the 64 there are; and `Page = Nat`, room in the file, without which a plan that
  needs a page beyond the bound is no plan.
* `CoordinatorDecides`: in the hybrid, a row appears only by its own insertion's
  superblock and disappears only with one that a power loss takes back, for any
  keys and tables and under process death and power loss.  Nothing is assumed of
  the caller; only exceptions are excluded (*Exceptions between the stores*).
  Its invariant says that a future row belongs to the insertion in flight or to a
  process that has not recovered.
* `HybridInvariance`, `AckedStay`, `OverflowIsCounted`, `HybridImplementsKeyStore`:
  the two stores together, under `RetryFirst`, `SingleFault` and no exceptions.
  `HybridInv` joins `RowInv`, the table at rest, the count of the visible rows, and
  the length of the file: no copy beyond the frontier of the committed image is
  ahead of what `recover()` will cut off, and in the midst of a recovery (`CutInv`)
  the pages an interrupted insertion left are either cut off or planned again.
  `DeviceInv` says the same of the image a power loss would bring back.  From it
  every step, recovery included, is a step of `KeyStore` or none.  That no key is
  in both stores is not needed, and false (section 5).
* `DurableInvariance`, `DurableAudits`, `ReadsMissOnlyMoved`,
  `DurableImplementsKeyStore`: the SQLite store, for any keys, hashes, capacities
  and budgets, with nothing assumed of its caller.  One hypothesis, `Page = Nat`:
  SQLite bounds neither a table's rows nor a generation's number, while in a finite
  set of pages a migration may find none.  `AtRest` says of a database what
  `TableInv` says of a page file, and besides that the overflow is disjoint from
  the table and counted, that no row stands where no generation is, and that the
  live count is the sum of the three.  In mid-transaction the live count is one
  ahead, so the lemmas about one moved slot (`SweepSlotKeeps`) keep the difference;
  a migrated row that finds no place is in the overflow by then.  A migration that
  ends has no row left (`CompletedKeeps`), so the rollback for that is never
  taken.  `ReaderInv` says for a lookup under way that a key that was stored and
  has not been moved is on a page still to be read, or in the overflow, which the
  routing row read at the start says is not empty.
* `ArenaInvariance`, `ArenaCovers`, `SnapshotsAreValid`, `ReferencesAreExact`,
  `ArenaImplementsQueue`: the descriptors of v0.34, v0.35, v0.37 and v0.38, for any
  number of owned segments, budgets, pages and commits, either kind of fault, and
  nothing but the named assumptions on the constants.  `Shape` describes a
  committed image by the queue and the free list as sequences of pages: each is
  linked from its head on, they share no page, from v0.35 on they are all the
  pages there are, the tail is the last of the queue.  `ArenaInv` says that file
  and device hold such an image each, what an operation has written so far
  (`OpInv`) are copies its readers do not see, or pages beyond the committed
  length, and that what a call left when it was cut short (`StaleIn`) is at places
  the same call, repeated, writes first.  A superblock then commits exactly the
  planned image (`SuperCommits`), in which the queue has moved as `Retired` or
  `Reclaimed` says.  `Chain` is a recursive function along the links;
  that it visits the pages of `Shape` in their order is shown by minimality
  (below).
* `RepairIsClean`: for any number of entities, any subjects and objects, an
  intent that fits the facts, and its effect: invalidating what is affected by
  it in `Clean` and repairing that gives `Clean` of the new facts.  The argument
  names the region an intent can damage by its shape (`Region`) and shows that
  what the edges reach is that region, that outside it the two full rebuilds
  agree, and that each level of the repair finds the level below it right.
* `PipelineTyped` and `SnapshotHolds`: for any number of processes and intents.
  The invariant: an intent's base is never ahead of the version it was read
  from, and while it is still equal the row it was admitted over is still there.
* `MaterializationIsClean` and `ReadsHold`: for one process (`OneProcess`; with two,
  defect 2 breaks both).  The invariant, `CleanInv`, carries the earlier facts
  through the phases: in the midst of an intent the derived rows are those of
  the facts before it, damaged only in its region, and `RepairIsClean` closes
  the cycle.  `QuietIsClean` alone is not inductive: it says nothing of the
  phases in between.
* `QueueImplementsLog`: for one process, the queue is `IntentLog`.  `LogInv` adds to
  `CleanInv` that the version of a row is the number of intents applied to it
  (`CountsHold`, with `Cardinality`: the finalized ones and the active one once it
  is past `prepared`), and that no intent in front of the active one still waits.
  Admission is then the log's, a promotion that conflicts refuses the intent whose
  turn it is, `ApplyTx` applies it, and invalidation, repair and finalization are
  not seen (`FinalizeTx` because one process deletes the row of a repaired intent
  only; with two it may end one that was never applied, which is defect 2).
* `IntentsAreRedone` and `RepairsAreTrusted`: in the cascade, for any facts,
  operations, rebuilds and crashes.  `RedoInv` says that the facts hold the
  write as soon as its marker is passed without a crash between, and rests on
  every operation being idempotent (`AppliedTwice`); `TrustInv` says that only
  the failpoint leaves a node half written, an affected one, and rests on a
  rebuild leaving none of its targets invalid (`RebuildSettles`).
* `TrustedIsClean` and `SettledMaterialization`: what is trusted is right, under
  the same freedom; the one hypothesis is that `None` is no subject.  `TrueInv` has
  two parts.  `Shape`: the three nodes of a key are registered together, the edges
  between nodes are those of that chain, no node is trusted above one that is not,
  and a profile stands alone; what an invalidation reaches is closed after two
  steps (`DownstreamCloses`) without a word about paths.  `Right`: what is trusted
  holds what `Clean` makes of the assertions and rests on them, what has
  assertions is registered, and what has none left is not trusted whole.  While
  the facts may be ahead of the invalidation (`prepared`, `canonical_applied`), `Right` is about the facts the intent was
  asked over; from the invalidation on it is about the present ones, because an
  operation changes what a node says only if the node is among those it doubts
  (`MarkedKeeps`, one lemma per kind of operation, from `DoubtKeeps`).  A rebuild
  takes a key's nodes in order, so each is made from a node that is right already,
  and what is retired had nothing to rest on (`RebuildKeeps`, `KeyRebuilt`).
  `FreshIsClean` is not inductive: it is silent while an intent's write is in the
  facts and its invalidation is not made yet.
* `IncrementsReconcile`: the cell kept by increments, for any history of assertions,
  values and relations; the one hypothesis is that `None` is no cell.  The
  invariant is not that the cell is the reconciled one (section 5, *Corrected
  support*), but that it has the status and the values that reconciling gives, and
  counts at least the assertions nothing replaced among its active ones (`CellTells`),
  through every case of `apply_incremental_current_state`.
* `ProfileRepairIsClean`, `IndexesFollow`, `ProfilesAreClean`, `ComposedReadsHold`: the
  four stores with several predicates, for any entities, subjects and predicates,
  and one hypothesis, `AddOnce`, which the code does not enforce (section 5,
  *A predicate twice*); TLC shows that `IndexesMatchCanonical` fails without it.
  `ProfileInv` has three parts.  `IntentsInv`: an intent whose base is still the
  version of what it writes fits the facts, so what it names as the old row is the
  old row; `AddOnce` is what makes this true of an addition, admitted over no
  snapshot.  `IndexInv`: heads and memberships are the scan's, because the keys of
  the old and the new row are all that an intent changes (`OthersStay`).
  `CleanInv`: in the midst of an intent the derived rows are those of the facts
  before it, except on the nodes it invalidated.  Outside those the two full
  rebuilds agree (`RegionAgrees`), for a profile by release: before 15 because all
  it quotes is unchanged, since then because its manifest is.  Each level of the
  repair finds the one below right (`LevelMends`).  For the reads: the supports
  among the invalidated nodes are those of the protected keys (`RegionWithin`), so
  a read that is let through puts together facets that are those of before and of
  after, and it takes the predicates that are live for the same whether a manifest
  of before or the membership table of now names them (`UnprotectedFacet`).
* `IndexFollowsFacts`: the locality indexes and the subject index, for any facts and
  texts, through every insertion, replacement, move and deletion (`IndexConstants`:
  assertions and subjects are finite in number, `None` is neither a text nor an
  assertion).  `IndexInv` gives both indexes in closed form as functions of the facts:
  a reference count is the number of places at which stored rows name the evidence
  (`Places`), the postings are the features of the profiles, subject by subject.  A
  call changes that form only at the subjects it refreshes (`TextReaches`,
  `RowReaches`), and the rebuild from nothing, a fold in an order nobody chooses,
  comes to the same form (`RebuiltIs`, `BuiltIs`).
* `PlansFollowScan`: for any such history and any question, limits and tables of
  logarithms.  `PlanConstants` adds what the code has: texts count words, a word's
  worth is positive, a word has finitely many fragments; and one thing it has only
  by its size, that the largest budget is no smaller than the number of pieces of
  evidence.  Without it the search may stop before it meets the pieces that cover
  the question, since `hard_filter` also lets through evidence that one assertion
  links to the subject and another to the predicate.  With it, the search ends covered
  exactly when the facts that have evidence suffice: what suffices of fewer
  assertions suffices of more (`SufficientGrows`), and by the last budget all that is
  allowed has been found (`SearchEnds`).  Sums are counted as sets of units
  (`Units`), so that a score by postings and a score by scanning are compared as
  sets; every word is worth to both the same or nothing (`HitsAreWorth`), what the
  planner counts twice as candidate and as exact score adds up to what the scan
  counts once (`ScoresAgree`), and within the limit no candidate is lost
  (`CandidatesAre`).

* `TablesAnswerAlike` and `TablesKeepKeys`: the six hash tables, for any keys, hashes,
  capacities, budgets and number of insertions; the one hypothesis is `HashConstants`:
  what the constructors demand of their arguments, that hashes, choices and victims
  are in their ranges, and that the first table has room for a row under its load.  What holds of linear probing is `Probed`:
  each key stands where its own probe comes to, over slots of other keys.  A new
  key goes to the first empty slot of its probe and disturbs no other, and a
  rehash is that, slot by slot.  In a migration (`Copying`) the two tables share
  exactly the keys of the slots before the cursor, so that at the end the counts
  agree and the raise for that is never taken.  `Pace` says that the cursor is the
  budget times the insertions since the migration began; with a budget that is
  enough, the new table then never is over its load (`MovingRoom`).  The cuckoo
  table (`CuckooInv`) has each key once, in a bucket of its pair or the stash, and
  its buckets are filled from the first slot on, which is what lets a lookup stop
  at the first empty one.  An eviction chain (`Chained`) keeps everything but the
  homeless key, and undoing its log from the end gives the table there was
  (`RollbackAppend`).  When all keys share two buckets, the keys a domain holds go
  one to one into its places (`LiesOnce`), so a domain that refuses is full, and a
  full one takes nothing (`FullRefuses`).  `TablesAgree` is not inductive: it
  counts keys and does not say where they stand.

What only TLC checks:

* liveness: `RecoveryConverges` and `EveryIntentEnds` (fairness and `ENABLED` are
  outside the prover's reach);
* everything about `SegmentedPrimary`.

Induction.  The library's induction theorems take an operator as a parameter and
cannot be used.  Where a recursive function has to be followed along its argument
(eviction chains, the slots of a sweep, the links of a chain, sums and folds) the induction is
stated over sets: a set of naturals that holds 0 and each successor of a
member holds every natural (`SetInduction`), from `WFMin`, that every non-empty
set of naturals has a least member.

## 5. What the code does not do

Two are runs.

**1. Abandoned pages** (`primary_reuse`).  `RetryFirst` is an assumption on the
caller: after a fault, the interrupted insertion is repeated before any other.
Nothing in the code enforces it.  Without it the store loses acknowledged keys: a
transaction cut short at epoch T+1 leaves copies stamped T+1; `recover()` removes
nothing; the next insertion, of another key, also commits T+1, and the abandoned
copies become part of the committed image.  `RESULTS_V0.24.md:14` asks that
"partially written page state must not become committed logical state".  The crash
matrix ends each case at recovery and never inserts again.  Every later primary
reads and writes pages in the same way, so `SegmentedPrimary` and
`RetirementArena` make the same assumption (`owed`).

**2. Two processes that drain** (`intents_two`).  The last transaction of
`recover()` deletes whatever row the journal holds (`sqlite_recovery.py:1061`),
without the phase check of the other phases.  A process that is slow there deletes
the next intent's row, and the trigger marks that intent done although it was
never applied.

The others were met while modelling and have no run; the models show them with
the constants given.

**A key in both stores.**  `CrossStoreHybridStore.insert()` asks the primary first
(`cross_store_hybrid.py:246`) and looks into the overflow only when the primary
refuses.  A key in the overflow that is inserted again after the table has grown
is admitted by the primary, as new; `audit()` (`:398-404`) calls the result
invalid.  It takes a table that grows to 16 with a row in the overflow.

**Exceptions between the stores.**  When anything raises between the SQLite commit
and the superblock write (`cross_store_hybrid.py:296`), the process goes on as
recovered, with a future row.  The next insertion's epoch makes the row visible,
uncounted: `OverflowCountExact` fails with `Faults = {"error"}`.
`RESULTS_V0.25.md:70` predicts that an abandoned row cannot resurrect; that holds
for killed processes (`RowsFollowCoordinator`, proved).

**Two kinds of fault.**  A process killed between the superblock write and its
fsync leaves a visible, volatile commit.  The insertion repeated is a duplicate
and returns without an fsync (`cross_store_hybrid.py:250`); a power loss then takes
back what was acknowledged: `AckedKeysStay` fails with `Faults = {"process",
"power"}`.  The code claims nothing there (the page file's docstring limits it to
process crashes, and v0.27 injects power loss alone), so the proofs have
`SingleFault` and the runs one kind of fault in a behaviour.

**Corrected support.**  An assertion that corrects one of two supports of a value
and agrees with that value is taken by the same-value fast path
(`incremental.py:102`), which looks at no relation: the corrected assertion stays
among the supports.  The comments at `:82-84` and `:128` send partially targeted
replacements to full reconciliation.  The answer itself is still right, now and
later (`AnswersAreReconciled`).

**None for a profile under repair.**  The docstring of `read_composed_profile`
(`compositional_profile.py:214-217`) says that reads block while maintenance
protects what they ask for; a profile whose node is invalid is answered with `None`
before that is looked at (`:234`, `normalized_membership.py:347`), as that of a
subject without predicates is.  `ComposedReadsAreClean` therefore says
nothing of a `None` before maintenance has settled.

**A predicate twice.**  `enqueue_predicate_addition` names the assertion it adds
after the entity and the predicate (`predicate_schema.py:98`) and admits it
without the one before (`:121`).  Added again after the entity has moved to another
subject, it replaces the assertion that is still with the old one, whose key
`_apply_canonical_tx` does not know of, so that its head goes on naming an
assertion of another subject; `subject_heads.py:43` says that the heads follow
every canonical mutation.  `IndexesMatchCanonical` fails with `AddOnce = FALSE`,
one entity, release 14 and five intents.  The experiments add each predicate once.

**A budget of one over the load.**  `_migrate_step` compares the new table's load
with the limit before it looks whether the scan is at its end
(`incremental_hash.py:203-207`).  A budget of `1/max_load` slots is enough when
`max_load` is a whole number of rows of the first table, and not otherwise: with
four slots, `max_load` 1/3 and a budget of three, an insertion raises in mid
migration, and the key is in the table all the same.  The defaults (128 slots, 0.5,
8) are far from it; `TablesAgree` has the condition.

## 6. Not modelled, and the plan

Not modelled: retrieval beyond the planner (the order TF-IDF gives, baselines,
filters by time, the older planner), since these are ranking functions without
state; the formats of pages and records beyond what parses, except where a
v0.30 node outgrows its page; validity times; SQLite's own durability and lock
timeouts; `lazy_generation_allocation` and `page_locality`, which measure and keep
nothing; fixtures, statistics and the verification of recorded results.

Left to prove: the properties of `SegmentedPrimary`.  Each operation of it writes
nodes, headers and pages of several segments before its superblock, in five
formats, and the invariant would have to say of every write which committed chain
or radix path it belongs to; TLC checks them with the bounds of section 3.
