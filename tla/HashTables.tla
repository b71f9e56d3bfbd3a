----------------------------- MODULE HashTables -----------------------------
(***************************************************************************)
(* The in-memory tables of v0.18 to v0.22, side by side as the experiments *)
(* run them on the same keys: open addressing that stops to resize         *)
(* (storage/hash_resize.py), the same with a bounded migration             *)
(* (incremental_hash.py), one that does not grow and a bounded cuckoo      *)
(* table (bounded_placement.py), the latter in a sequence of domains       *)
(* (bounded_escape.py), and one with an overflow table (rare_overflow.py). *)
(* Hash functions are inputs: any function of the sets given.              *)
(***************************************************************************)
EXTENDS Integers, Sequences, FiniteSets

CONSTANTS
  HashKey, NoKey,
  InitialCapacity,             \* of the two tables that grow
  LoadNum, LoadDen,            \* max_load
  LinearCapacity,              \* of the table that does not
  Domains,                     \* domain_count
  MaxKicks,
  Setups   \* the tables' other parameters and the hashes, as records of
           \* budget (migration_slot_budget), buckets, size and stash (the
           \* cuckoo table's), home ([HashKey -> Nat]: the linear hash) and, for
           \* each domain, pairs ([HashKey -> <<bucket, bucket>>]), choice ([HashKey
           \* -> {1, 2}]) and victim ([HashKey -> [kicks -> slot]])

\* What the constructors demand of their arguments, and that the first table has
\* room for a row under its load.
HashConstants ==
  /\ NoKey \notin HashKey /\ IsFiniteSet(HashKey)
  /\ InitialCapacity \in Nat \ {0} /\ LinearCapacity \in Nat \ {0}
  /\ LoadNum \in Nat \ {0} /\ LoadDen \in Nat \ {0} /\ LoadNum <= LoadDen
  /\ LoadDen <= InitialCapacity * LoadNum
  /\ Domains \in Nat \ {0} /\ MaxKicks \in Nat \ {0}
  /\ \A s \in Setups :
       /\ s.budget \in Nat \ {0} /\ s.buckets \in Nat \ {0, 1}
       /\ s.size \in Nat \ {0} /\ s.stash \in Nat
       /\ s.home \in [HashKey -> Nat]
       /\ \A d \in 1 .. Domains :
            /\ s.pairs[d] \in [HashKey -> (0 .. s.buckets - 1) \X (0 .. s.buckets - 1)]
            /\ s.choice[d] \in [HashKey -> {1, 2}]
            /\ s.victim[d] \in [HashKey -> [0 .. MaxKicks - 1 -> 0 .. s.size - 1]]

VARIABLES
  setup,                       \* the parameters of this run
  inserted,                    \* keys the driver has inserted
  stop,                        \* StopTheWorldHashIndex: its slots
  linear,                      \* FixedLinearProbeIndex: its slots
  inc,                         \* IncrementalHashIndex
  escape,                      \* BoundedDomainEscalationIndex: its domains
  rare,                        \* RareOverflowHybridIndex: [primary, overflow]
  last                         \* how the last insertion went

tvars == <<setup, inserted, stop, linear, inc, escape, rare, last>>

-----------------------------------------------------------------------------
(* Linear probing: a table is a function from slots 0 .. capacity-1. *)

Cap(t)        == Cardinality(DOMAIN t)
Size(t)       == Cardinality({i \in DOMAIN t : t[i] # NoKey})
EmptySlots(n) == [i \in 0 .. n-1 |-> NoKey]
At(t, k, i)   == (setup.home[k] + i) % Cap(t)

\* Where the probe for k ends: at k or at the first empty slot.  None: full.
Ends(t, k) == {i \in DOMAIN t : t[At(t, k, i)] \in {NoKey, k}}
Full(t, k) == Ends(t, k) = {}
Probe(t, k) == CHOOSE i \in Ends(t, k) : \A j \in Ends(t, k) : i <= j

Place(t, k)  == [t EXCEPT ![At(t, k, Probe(t, k))] = k]
Finds(t, k)  == ~Full(t, k) /\ t[At(t, k, Probe(t, k))] = k

OverLoad(rows, cap) == rows * LoadDen > cap * LoadNum

\* Mutant of Rehashed: rows keep their slots.
Rehashed_SameSlots(t) == [i \in 0 .. 2 * Cap(t) - 1 |-> IF i < Cap(t) THEN t[i] ELSE NoKey]

\* _resize: every row again, in slot order, into twice the slots.
Rehashed(t) ==
  LET go[n \in 0 .. Cap(t)] ==
        IF n = 0 THEN EmptySlots(2 * Cap(t))
        ELSE IF t[n-1] = NoKey THEN go[n-1] ELSE Place(go[n-1], t[n-1])
  IN  go[Cap(t)]

\* StopTheWorldHashIndex.insert: a key it has may still make it grow.
StopInsert(t, k) == Place(IF OverLoad(Size(t) + 1, Cap(t)) THEN Rehashed(t) ELSE t, k)

\* FixedLinearProbeIndex.insert: a full table refuses.
LinearInsert(t, k) == IF Full(t, k) THEN t ELSE Place(t, k)

-----------------------------------------------------------------------------
(* The incremental table: cur and old (<<>> for none), the cursor, the keys *)
(* copied so far, those there were to copy, and live_size.                  *)

NoOld == <<>>
FreshInc == [cur |-> EmptySlots(InitialCapacity), old |-> NoOld, cursor |-> 0,
             copied |-> 0, source |-> 0, live |-> 0]

IncFinds(s, k) == Finds(s.cur, k) \/ (s.old # NoOld /\ Finds(s.old, k))

\* _start_migration, when one more row would be too many.
Started(s) ==
  IF s.old # NoOld \/ ~OverLoad(s.live + 1, Cap(s.cur)) THEN s
  ELSE [s EXCEPT !.cur = EmptySlots(2 * Cap(s.cur)), !.old = s.cur, !.cursor = 0,
                 !.copied = 0, !.source = Size(s.cur)]

\* One source slot.  The row is copied: the old table stays as it was, and a
\* lookup that ends at an empty slot of it stays right.  The target is never
\* full then: an old table of C slots moves into 2C, at most C rows of its own
\* and fewer than C inserted since.
Copied(s) ==
  LET k    == s.old[s.cursor]
      next == [s EXCEPT !.cursor = @ + 1]
  IN  IF k = NoKey THEN next
      ELSE [next EXCEPT !.cur = Place(s.cur, k),
                        !.copied = IF Finds(s.cur, k) THEN @ ELSE @ + 1]

\* At most the budget of source slots.
Scanned(s) ==
  LET go[n \in 0 .. setup.budget] ==
        IF n = 0 THEN s
        ELSE IF go[n-1].cursor >= Cap(s.old) THEN go[n-1] ELSE Copied(go[n-1])
  IN  IF s.old = NoOld THEN s ELSE go[setup.budget]

\* What _migrate_step and insert assert when a migration ends.
MigrationExact(s) == s.copied = s.source /\ Size(s.cur) = s.live

\* The rest of _migrate_step.  The load is looked at before the end is.
Stepped(s) ==
  IF s.old = NoOld THEN [table |-> s, how |-> "ok"]
  ELSE IF OverLoad(Size(s.cur), Cap(s.cur)) THEN [table |-> s, how |-> "overloaded"]
  ELSE IF s.cursor < Cap(s.old) THEN [table |-> s, how |-> "ok"]
  ELSE IF ~MigrationExact(s) THEN [table |-> s, how |-> "broken"]
  ELSE [table |-> [s EXCEPT !.old = NoOld, !.cursor = 0, !.copied = 0, !.source = 0],
        how |-> "ok"]

\* IncrementalHashIndex.insert.  A raise undoes nothing: when the migration is
\* behind, the key is in the table all the same; when the table is full, not,
\* and a migration that has just been started stays.
IncInsert(s, k) ==
  LET begun == Started(s)
      put   == [begun EXCEPT !.cur = Place(begun.cur, k), !.live = @ + 1]
  IN  IF IncFinds(s, k) THEN [table |-> s, how |-> "duplicate"]
      ELSE IF Full(begun.cur, k) THEN [table |-> begun, how |-> "full"]
      ELSE Stepped(Scanned(put))

-----------------------------------------------------------------------------
(* The bounded cuckoo table: buckets and a stash. *)

FreshCuckoo == [bucket |-> [b \in 0 .. setup.buckets-1 |-> EmptySlots(setup.size)],
                stash |-> <<>>]

\* bucket_pair, per domain: each has hashes of its own.
Pair(d, k) == LET p == setup.pairs[d][k]
              IN  <<p[1], IF p[2] = p[1] THEN (p[2] + 1) % setup.buckets ELSE p[2]>>
Choice(d, k)    == setup.choice[d][k]
Victim(d, k, n) == setup.victim[d][k][n]

FirstEmpty(keys) == {i \in DOMAIN keys : keys[i] = NoKey /\ \A j \in 0 .. i-1 : keys[j] # NoKey}
\* The slots _first_empty looks at.
Inspected(keys) == IF FirstEmpty(keys) = {} THEN setup.size
                   ELSE 1 + (CHOOSE i \in FirstEmpty(keys) : TRUE)
PutFirst(c, b, k) == [c EXCEPT !.bucket[b][CHOOSE i \in FirstEmpty(c.bucket[b]) : TRUE] = k]

\* One turn of the relocation loop: s has the table, the homeless key, the
\* bucket it goes to, what rollback would undo, and the work so far.
Relocate(d, s, n) ==
  LET keys   == s.table.bucket[s.at]
      slot   == Victim(d, s.key, n)
      victim == keys[slot]
      pair   == Pair(d, victim)
      looked == s.work + Inspected(keys)
  IN  IF s.key = NoKey THEN s
      ELSE IF FirstEmpty(keys) # {}
           THEN [s EXCEPT !.table = PutFirst(s.table, s.at, s.key), !.key = NoKey,
                          !.work = looked]
      ELSE [table |-> [s.table EXCEPT !.bucket[s.at][slot] = s.key],
            key   |-> victim,
            at    |-> IF pair[1] = s.at THEN pair[2] ELSE pair[1],
            log   |-> Append(s.log, <<s.at, slot, victim>>),
            work  |-> looked + 1]

Undo(c, entry) == [c EXCEPT !.bucket[entry[1]][entry[2]] = entry[3]]

\* Mutant of RolledBack: the first eviction is undone first.
RolledBack_Forward(c, log) ==
  LET undone[n \in 0 .. Len(log)] == IF n = 0 THEN c ELSE Undo(undone[n-1], log[n])
  IN  undone[Len(log)]

\* The last eviction is undone first.
RolledBack(c, log) ==
  LET undone[n \in 0 .. Len(log)] ==
        IF n = 0 THEN c ELSE Undo(undone[n-1], log[Len(log) + 1 - n])
  IN  undone[Len(log)]

\* The end of insert: placed, stashed, or rolled back.
CuckooSettled(s) ==
  IF s.key = NoKey THEN [ok |-> TRUE, table |-> s.table, work |-> s.work]
  ELSE IF Len(s.table.stash) < setup.stash
       THEN [ok |-> TRUE, table |-> [s.table EXCEPT !.stash = Append(@, s.key)],
             work |-> s.work + 1]
  ELSE [ok |-> FALSE, table |-> RolledBack(s.table, s.log), work |-> s.work + Len(s.log)]

\* BoundedBucketCuckooIndex.insert, in domain d.
CuckooInsert(d, c, k) ==
  LET b1     == Pair(d, k)[1]
      b2     == Pair(d, k)[2]
      direct == Inspected(c.bucket[b1])
      both   == direct + Inspected(c.bucket[b2])
      start  == [table |-> c, key |-> k, at |-> Pair(d, k)[Choice(d, k)], log |-> <<>>,
                 work |-> both]
      kick[n \in 0 .. MaxKicks] == IF n = 0 THEN start ELSE Relocate(d, kick[n-1], n-1)
  IN  IF FirstEmpty(c.bucket[b1]) # {}
      THEN [ok |-> TRUE, table |-> PutFirst(c, b1, k), work |-> direct]
      ELSE IF FirstEmpty(c.bucket[b2]) # {}
      THEN [ok |-> TRUE, table |-> PutFirst(c, b2, k), work |-> both]
      ELSE CuckooSettled(kick[MaxKicks])

\* lookup: a bucket is read up to its first empty slot, then the stash.
CuckooFinds(d, c, k) ==
  \/ \E p \in {Pair(d, k)[1], Pair(d, k)[2]}, i \in 0 .. setup.size-1 :
        c.bucket[p][i] = k /\ \A j \in 0 .. i-1 : c.bucket[p][j] # NoKey
  \/ \E i \in DOMAIN c.stash : c.stash[i] = k

\* BoundedDomainEscalationIndex: the first domain that takes the key.
EscapeInsert(ds, k) ==
  LET try[d \in 0 .. Domains] ==
        IF d = 0 THEN [ok |-> FALSE, domains |-> ds, work |-> 0]
        ELSE IF try[d-1].ok THEN try[d-1]
        ELSE LET r == CuckooInsert(d, ds[d], k)
             IN  [ok |-> r.ok, domains |-> [try[d-1].domains EXCEPT ![d] = r.table],
                  work |-> try[d-1].work + r.work]
  IN  try[Domains]

EscapeFinds(ds, k) == \E d \in 1 .. Domains : CuckooFinds(d, ds[d], k)

\* RareOverflowHybridIndex, over a primary with the first domain's hashes.
RareInsert(r, k) ==
  LET put == CuckooInsert(1, r.primary, k)
  IN  [primary |-> put.table, overflow |-> IF put.ok THEN r.overflow ELSE r.overflow \cup {k}]

RareFinds(r, k) == CuckooFinds(1, r.primary, k) \/ k \in r.overflow

-----------------------------------------------------------------------------

TablesInit ==
  /\ setup \in Setups
  /\ inserted = {}
  /\ stop = EmptySlots(InitialCapacity)
  /\ linear = EmptySlots(LinearCapacity)
  /\ inc = FreshInc
  /\ escape = [d \in 1 .. Domains |-> FreshCuckoo]
  /\ rare = [primary |-> FreshCuckoo, overflow |-> {}]
  /\ last = [key |-> NoKey, how |-> "none", refused |-> FALSE, work |-> 0]

\* A driver inserts one key everywhere.
Insert(k) ==
  LET i == IncInsert(inc, k)
      e == EscapeInsert(escape, k)
  IN  /\ k \notin inserted
      /\ inserted' = inserted \cup {k}
      /\ stop' = StopInsert(stop, k)
      /\ linear' = LinearInsert(linear, k)
      /\ inc' = i.table
      /\ escape' = e.domains
      /\ rare' = RareInsert(rare, k)
      /\ last' = [key |-> k, how |-> i.how, refused |-> ~e.ok, work |-> e.work]
      /\ UNCHANGED setup

\* The tables that look for a key first may be given it again.
InsertAgain(k) ==
  /\ k \in inserted
  /\ stop' = StopInsert(stop, k)
  /\ inc' = IncInsert(inc, k).table
  /\ last' = IF IncInsert(inc, k).how = "duplicate" THEN last
             ELSE [last EXCEPT !.key = k, !.how = IncInsert(inc, k).how]
  /\ UNCHANGED <<setup, inserted, linear, escape, rare>>

TablesNext == \E k \in HashKey : Insert(k) \/ InsertAgain(k)

TablesSpec == TablesInit /\ [][TablesNext]_tvars

-----------------------------------------------------------------------------
(* What the experiments' envelopes assert of their tables at a checkpoint,  *)
(* over a sample of the keys they inserted; here over all keys.             *)

\* The load is bounded, and no row is held twice or missed.
ResizeEnvelope ==
  /\ Size(stop) = Cardinality(inserted)
  /\ ~OverLoad(Size(stop), Cap(stop))
  /\ \A k \in HashKey : Finds(stop, k) <=> k \in inserted

\* A key is in one of two generations, which take at most 1.5 times the room
\* of the newer.  With a budget of at least 1/max_load slots, and a max_load
\* that is a whole number of rows, a migration is over before its target is
\* over max_load (incremental_hash.py:204) and no insertion raises; with any
\* budget, what a migration ends with is all there was to move.  The key whose
\* insertion raised for being behind is found too.
IncrementalEnvelope ==
  /\ Cardinality({k \in HashKey : IncFinds(inc, k)}) = inc.live
  /\ \A k \in HashKey : IncFinds(inc, k) => k \in inserted
  /\ 2 * (Cap(inc.cur) + Cardinality(DOMAIN inc.old)) <= 3 * Cap(inc.cur)
  /\ setup.budget * LoadNum >= LoadDen /\ (InitialCapacity * LoadNum) % LoadDen = 0 =>
       /\ last.how \in {"none", "ok"}
       /\ inc.live = Cardinality(inserted)
  /\ last.how # "broken"

\* The linear table takes keys while it has room; the cuckoo table has the
\* keys it took and no other, whatever became of those it refused.
PlacementEnvelope ==
  /\ \A k \in HashKey : Finds(linear, k) => k \in inserted
  /\ Size(linear) = IF Cardinality(inserted) < LinearCapacity
                     THEN Cardinality(inserted) ELSE LinearCapacity
  /\ Cardinality({k \in HashKey : CuckooFinds(1, rare.primary, k)})
       = Cardinality(inserted) - Cardinality(rare.overflow)

\* A domain is tried when those before have refused; when all keys share two
\* buckets everywhere, the domains refuse only once they are full.
EscapeEnvelope ==
  LET admitted == {k \in HashKey : EscapeFinds(escape, k)}
      local    == 2 * setup.size + setup.stash
  IN  /\ admitted \subseteq inserted
      /\ \A k \in admitted :
            Cardinality({d \in 1 .. Domains : CuckooFinds(d, escape[d], k)}) = 1
      /\ (\A d \in 1 .. Domains, k \in HashKey : Pair(d, k) = <<0, 1>>)
           => Cardinality(admitted) = IF Cardinality(inserted) < Domains * local
                                      THEN Cardinality(inserted) ELSE Domains * local

\* A key is found where it was admitted and only there, so a primary hit
\* never asks the overflow table; a key missing is missing in both.
RareEnvelope ==
  /\ \A k \in inserted : CuckooFinds(1, rare.primary, k) <=> k \notin rare.overflow
  /\ \A k \in HashKey : RareFinds(rare, k) <=> k \in inserted
  /\ (\A k \in HashKey : Pair(1, k) = <<0, 1>>) /\ rare.overflow # {}
       => Cardinality(inserted \ rare.overflow) = 2 * setup.size + setup.stash

-----------------------------------------------------------------------------
(* Properties *)

\* The envelopes' assertions (hash_resize.py:219, incremental_hash.py:515,
\* bounded_placement.py:482, bounded_escape.py:306, rare_overflow.py:289) hold
\* after every insertion, whatever the hashes, during migrations and after
\* refusals: each lookup stops early, at an empty slot or a found key, and
\* still all tables answer alike.
TablesAgree ==
  /\ ResizeEnvelope
  /\ IncrementalEnvelope
  /\ PlacementEnvelope
  /\ EscapeEnvelope
  /\ RareEnvelope

\* A key one insertion has put into a table is there ever after: no eviction,
\* rollback, resize or migration loses another key than its own.  A domain
\* that refuses a key is as it was (bounded_escape.py:44), however its evictions
\* went, and the work of an insertion keeps the cap the table gives
\* (bounded_placement.py:199).
NoKeyIsLost ==
  \A k \in HashKey :
    /\ EscapeFinds(escape, k) => EscapeFinds(escape, k)'
    /\ Finds(linear, k) => Finds(linear, k)'
    /\ IncFinds(inc, k) => IncFinds(inc, k)'
    /\ Insert(k) =>
         /\ \A d \in 1 .. Domains :
               CuckooFinds(d, escape[d], k)' \/ escape'[d] = escape[d]
         /\ last'.work <= Domains * (setup.size * (2 + MaxKicks) + 2 * MaxKicks)

KeysStay == [][NoKeyIsLost]_tvars
=============================================================================
