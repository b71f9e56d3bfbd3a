--------------------------- MODULE RetirementArena ---------------------------
(***************************************************************************)
(* How the stores from v0.34 to v0.38 keep their queue of retired          *)
(* generations: a chain of dual-copy descriptors, two pages each, whose    *)
(* head, tail, count and free list are in the superblock.                  *)
(*                                                                         *)
(*   34  descriptors in the primary file, abandoned when finished          *)
(*   35  finished descriptors go to a free list and are reused under a     *)
(*       new incarnation                                                   *)
(*   37  descriptors in a sidecar file, the arena, emptied with the queue  *)
(*   38  and shortened while the free list starts with its last pair       *)
(*                                                                         *)
(* The segments of a generation are only counted here.  A page of the      *)
(* module is a pair of pages of the file.  An operation is planned from    *)
(* the committed image and carried out one system call at a time; faults   *)
(* come between any two.                                                   *)
(***************************************************************************)
EXTENDS DualCopy, Sequences, FiniteSetsExt

CONSTANTS
  Formats,       \* the versions of the store, a subset of {34, 35, 37, 38}
  OwnerCounts,   \* how many segments a retired generation may own
  Budgets,       \* the budgets reclaim_step is called with
  Faults,        \* which faults happen, one kind in a behaviour
  MaxEpoch       \* bound on the committed epoch

ASSUME FormatsAssumption     == Formats \subseteq {34, 35, 37, 38}
ASSUME OwnerCountsAssumption == OwnerCounts \subseteq Nat
ASSUME BudgetsAssumption     == Budgets \subseteq Nat \ {0}
ASSUME FaultsAssumption      == Faults \subseteq {"process", "power"}

VARIABLES
  file,    \* the superblock, the arena and its length, as reads return them
  disk,    \* the same on the devices
  op,      \* the operation in flight: its call, its steps to come, its metadata
  owed,    \* the call a fault cut short
  fault,   \* the kind of fault of this behaviour
  given    \* history: which generation each reference was published for

vars == <<file, disk, op, owed, fault, given>>

-----------------------------------------------------------------------------
(* References and descriptors *)

NoRef == [page |-> 0, inc |-> 0]                  \* a null page and incarnation
Ref(page, inc) == [page |-> page, inc |-> inc]

Queued(inc, gen, left) ==
  [inc |-> inc, status |-> "QUEUED", gen |-> gen, left |-> left, next |-> NoRef]
Freed(inc, next) ==
  [inc |-> inc, status |-> "FREE", gen |-> 0, left |-> 0, next |-> next]

NoCall == [kind |-> "none", arg |-> 0]
Idle   == [call |-> NoCall, todo |-> <<>>, meta |-> <<>>, epoch |-> 0]

Meta(f)        == MetaOf(f.super)
Payload(f, p)  == ReadPage(f.arena[p], Epoch(f.super))
Spare(f, p)    == 1 - NewestSlot(f.arena[p], Epoch(f.super))
InPrimary(m)   == m.format < 37                  \* no arena of its own

\* TaggedDescriptorIO.read: the newest committed copy, and then its identity.
Reads(f, ref, status) ==
  /\ ref.page \in Page
  /\ HasCommitted(f.arena[ref.page], Epoch(f.super))
  /\ Payload(f, ref.page).inc = ref.inc
  /\ Payload(f, ref.page).status = status

-----------------------------------------------------------------------------
(* Steps: the system calls of an operation, in order.                      *)

Write(p, s, data) == [do |-> "write", page |-> p, slot |-> s, data |-> data]
Resize(pairs)     == [do |-> "resize", pairs |-> pairs]
SyncArena         == [do |-> "sync arena"]
SyncPrimary       == [do |-> "sync primary"]
WriteSuper        == [do |-> "super"]

\* Mutant of Commit: the superblock goes out before what it refers to.
Commit_Early == <<WriteSuper, SyncPrimary>>

Commit == <<SyncPrimary, WriteSuper, SyncPrimary>>

\* The fsync of the arena before anything in the primary refers to it.
Settled(m) == IF InPrimary(m) THEN <<>> ELSE <<SyncArena>>

Plan(steps, meta) == [todo |-> steps, meta |-> meta]

-----------------------------------------------------------------------------
(* _enqueue_retirement_tx *)

Reusing(m) == m.fcount > 0

\* Mutant of NewRef: a reused descriptor keeps its incarnation.
NewRef_Same(f, m) ==
  IF Reusing(m) THEN m.free
  ELSE Ref(m.pairs, IF m.format < 37 THEN 1 ELSE m.inc)

\* The descriptor a retirement takes, under a new incarnation: one more than
\* the page's last (35), or the next of a counter in the superblock (37, 38).
NewRef(f, m) ==
  Ref(IF Reusing(m) THEN m.free.page ELSE m.pairs,
      IF m.format >= 37 THEN m.inc
      ELSE IF Reusing(m) THEN Payload(f, m.free.page).inc + 1
      ELSE 1)

TakeSteps(f, m, ref, row) ==
  IF Reusing(m) THEN <<Write(ref.page, Spare(f, ref.page), row)>>
  ELSE <<Resize(m.pairs + 1), Write(ref.page, 0, row)>>

LinkSteps(f, m, ref) ==
  IF m.tail = NoRef THEN <<>>
  ELSE <<Write(m.tail.page, Spare(f, m.tail.page),
               [Payload(f, m.tail.page) EXCEPT !.next = ref])>>

Enqueued(f, m, ref) ==
  [m EXCEPT !.gen    = @ + 1,
            !.head   = IF m.tail = NoRef THEN ref ELSE @,
            !.tail   = ref,
            !.count  = @ + 1,
            !.free   = IF Reusing(m) THEN Payload(f, m.free.page).next ELSE @,
            !.fcount = IF Reusing(m) THEN @ - 1 ELSE @,
            !.pairs  = IF Reusing(m) THEN @ ELSE @ + 1,
            !.inc    = IF m.format >= 37 THEN @ + 1 ELSE @]

\* An insertion that completes a migration retires the old generation; one
\* that owned no segment leaves nothing to reclaim, and to the queue that is
\* what every other insertion is: a commit that leaves it alone.
RetirePlan(f, m, count) ==
  IF count = 0 THEN Plan(Commit, [m EXCEPT !.gen = @ + 1])
  ELSE LET ref == NewRef(f, m)
       IN  Plan(TakeSteps(f, m, ref, Queued(ref.inc, m.gen, count))
                  \o LinkSteps(f, m, ref) \o Settled(m) \o Commit,
                Enqueued(f, m, ref))

-----------------------------------------------------------------------------
(* reclaim_step *)

Dequeued(m, row) ==
  [m EXCEPT !.head  = row.next,
            !.tail  = IF m.count = 1 THEN NoRef ELSE @,
            !.count = @ - 1]

\* The head still owns segments: its alternate copy, with fewer.
PartialPlan(f, m, row, budget) ==
  Plan(<<Write(m.head.page, Spare(f, m.head.page), [row EXCEPT !.left = @ - budget])>>
         \o Settled(m) \o Commit, m)

\* Mutant of EmptyPlan: the arena is truncated before the commit is durable.
EmptyPlan_TruncatesFirst(m, row) ==
  Plan(<<Resize(0), SyncArena>> \o Commit,
       [Dequeued(m, row) EXCEPT !.free = NoRef, !.fcount = 0, !.pairs = 0])

\* The last of the queue is finished (37, 38): every descriptor is
\* unreachable, so the arena is given up at once, after the commit.
EmptyPlan(m, row) ==
  Plan(Commit \o <<Resize(0), SyncArena>>,
       [Dequeued(m, row) EXCEPT !.free = NoRef, !.fcount = 0, !.pairs = 0])

\* Mutant of FreePlan: the freed descriptor forgets the rest of the free list.
FreePlan_LosesRest(f, m, row) ==
  Plan(<<Write(m.head.page, Spare(f, m.head.page), Freed(row.inc, NoRef))>>
         \o Settled(m) \o Commit,
       [Dequeued(m, row) EXCEPT !.free = m.head, !.fcount = @ + 1])

\* A finished descriptor becomes the head of the free list.
FreePlan(f, m, row) ==
  Plan(<<Write(m.head.page, Spare(f, m.head.page), Freed(row.inc, m.free))>>
         \o Settled(m) \o Commit,
       [Dequeued(m, row) EXCEPT !.free = m.head, !.fcount = @ + 1])

FinishedPlan(f, m, row) ==
  IF m.format = 34 THEN Plan(Commit, Dequeued(m, row))
  ELSE IF m.format >= 37 /\ m.count = 1 THEN EmptyPlan(m, row)
  ELSE FreePlan(f, m, row)

ReclaimPlan(f, m, budget) ==
  LET row == Payload(f, m.head.page)
  IN  IF row.left > budget THEN PartialPlan(f, m, row, budget)
                           ELSE FinishedPlan(f, m, row)

-----------------------------------------------------------------------------
(* shrink_retirement_arena_tail_step and recover *)

CanShrink(m) ==
  /\ m.format = 38
  /\ m.pairs > 0 /\ m.fcount > 0
  /\ m.free.page = m.pairs - 1

\* The last pair, when the free list starts with it, is given back.
ShrinkPlan(f, m) ==
  Plan(<<WriteSuper, SyncPrimary, Resize(m.pairs - 1), SyncArena>>,
       [m EXCEPT !.free   = Payload(f, m.free.page).next,
                 !.fcount = @ - 1,
                 !.pairs  = @ - 1])

\* What the superblock does not account for is cut off, without a commit.
RecoverPlan(m) ==
  Plan(<<Resize(m.pairs)>> \o <<IF InPrimary(m) THEN SyncPrimary ELSE SyncArena>>, m)

-----------------------------------------------------------------------------
(* What the operations check before they write: RuntimeError otherwise.    *)

CanRetire(f, m) ==
  /\ Reusing(m) => Reads(f, m.free, "FREE")
  /\ ~Reusing(m) => m.free = NoRef
  /\ m.tail = NoRef => m.count = 0
  /\ m.tail # NoRef => Reads(f, m.tail, "QUEUED") /\ Payload(f, m.tail.page).next = NoRef

CanReclaim(f, m) ==
  IF m.count = 0 THEN m.head = NoRef /\ m.tail = NoRef
  ELSE m.head # NoRef /\ Reads(f, m.head, "QUEUED")

ShrinkChecks(f, m) ==
  CanShrink(m) =>
    /\ m.count > 0
    /\ Reads(f, m.free, "FREE")
    /\ LET rest == Payload(f, m.free.page).next
       IN  rest # NoRef => rest.page < m.pairs - 1
    /\ m.head # NoRef /\ m.head.page < m.pairs - 1
    /\ m.tail # NoRef /\ m.tail.page < m.pairs - 1

CanRecover(f, m) == f.len >= m.pairs

-----------------------------------------------------------------------------
(* Operations *)

Call(kind, arg) == [kind |-> kind, arg |-> arg]

Start(call, plan) ==
  /\ op = Idle
  /\ op' = [call |-> call, todo |-> plan.todo, meta |-> plan.meta, epoch |-> Epoch(file.super)]
  /\ UNCHANGED <<file, disk, owed, fault, given>>

\* The caller repeats a call that a fault cut short before it calls again.
May(call) == owed \in {NoCall, call} /\ Epoch(file.super) < MaxEpoch

Retire == \E count \in OwnerCounts :
  /\ May(Call("retire", count))
  /\ CanRetire(file, Meta(file))
  /\ ~Reusing(Meta(file)) => Meta(file).pairs \in Page
  /\ Start(Call("retire", count), RetirePlan(file, Meta(file), count))

Reclaim == \E budget \in Budgets :
  /\ May(Call("reclaim", budget))
  /\ Meta(file).count > 0 /\ CanReclaim(file, Meta(file))
  /\ Start(Call("reclaim", budget), ReclaimPlan(file, Meta(file), budget))

Shrink == /\ May(Call("shrink", 0))
          /\ CanShrink(Meta(file)) /\ ShrinkChecks(file, Meta(file))
          /\ Start(Call("shrink", 0), ShrinkPlan(file, Meta(file)))

Recover == /\ CanRecover(file, Meta(file)) /\ file.len > Meta(file).pairs
           /\ Start(Call("recover", 0), RecoverPlan(Meta(file)))

Blanks     == [s \in Slot |-> Absent]
Cut(a, n)  == [p \in Page |-> IF p < n THEN a[p] ELSE Blanks]

\* One system call.  An operation returns when its last one is done.
Do(step, files, disks, refs) ==
  /\ op.todo # <<>> /\ Head(op.todo).do = step
  /\ file' = files /\ disk' = disks /\ given' = refs
  /\ op' = IF Tail(op.todo) = <<>> THEN Idle ELSE [op EXCEPT !.todo = Tail(@)]
  /\ owed' = IF Tail(op.todo) = <<>> /\ op.call = owed THEN NoCall ELSE owed
  /\ UNCHANGED fault

DoWrite ==
  LET w == Head(op.todo)
  IN  Do("write", [file EXCEPT !.arena[w.page][w.slot] =
                     [epoch |-> op.epoch + 1, data |-> w.data]], disk, given)

DoResize == Do("resize", [file EXCEPT !.len = Head(op.todo).pairs,
                                      !.arena = Cut(@, Head(op.todo).pairs)], disk, given)

\* A new tail is a reference the snapshots show from now on.
Published(m) ==
  given \cup IF m.tail \in {NoRef, Meta(file).tail} THEN {}
             ELSE {[ref |-> m.tail, gen |-> m.gen - 1]}

DoSuper == Do("super", [file EXCEPT !.super[1 - ActiveSlot(file.super)] =
                          [epoch |-> op.epoch + 1, meta |-> op.meta]], disk,
              Published(op.meta))

\* The devices matter only where power may fail.
Synced(image) == IF fault = "power" THEN image ELSE disk

DoSyncArena == Do("sync arena", file, Synced([file EXCEPT !.super = disk.super]), given)

\* One fsync covers the descriptors as well as long as they are in the file.
DoSyncPrimary ==
  Do("sync primary", file,
     Synced(IF InPrimary(Meta(file)) THEN file ELSE [disk EXCEPT !.super = file.super]), given)

-----------------------------------------------------------------------------
(* Faults *)

\* Whether the call in flight took effect decides what the caller owes.
CutShort(f) ==
  /\ op' = Idle
  /\ owed' = IF op.call.kind \in {"none", "recover"} THEN owed
             ELSE IF Epoch(f.super) > op.epoch THEN NoCall
             ELSE op.call
  /\ UNCHANGED <<fault, given>>

ProcessCrash ==
  /\ fault = "process"
  /\ op # Idle
  /\ CutShort(file)
  /\ UNCHANGED <<file, disk>>

\* The copies that were not fsynced.
Unsynced ==
  {d \in Page \X Slot : file.arena[d[1]][d[2]] # disk.arena[d[1]][d[2]]}

Remnant(sup, n, kept) ==
  [super |-> sup, len |-> n,
   arena |-> Cut([p \in Page |-> [s \in Slot |-> IF <<p, s>> \in kept THEN file.arena[p][s]
                                                                     ELSE disk.arena[p][s]]], n)]

\* Of what had not been fsynced, any part is on the device.
Survivors ==
  {Remnant(sup, n, kept) : sup \in {file.super, disk.super}, n \in {file.len, disk.len},
                           kept \in SUBSET Unsynced}

PowerLoss ==
  /\ fault = "power"
  /\ \E f \in Survivors : file' = f /\ disk' = f /\ CutShort(f)

-----------------------------------------------------------------------------
FirstMeta(format) ==
  [format |-> format, gen |-> 0, head |-> NoRef, tail |-> NoRef, count |-> 0,
   free |-> NoRef, fcount |-> 0, pairs |-> 0, inc |-> 1]

Init ==
  /\ \E format \in Formats :
       file = [super |-> [s \in Slot |-> [epoch |-> 1 - s, meta |-> FirstMeta(format)]],
               arena |-> [p \in Page |-> Blanks], len |-> 0]
  /\ disk = file /\ op = Idle /\ owed = NoCall
  /\ fault \in Faults /\ given = {}

Step == DoWrite \/ DoResize \/ DoSuper \/ DoSyncArena \/ DoSyncPrimary

Next == \/ Retire \/ Reclaim \/ Shrink \/ Recover
        \/ Step
        \/ ProcessCrash \/ PowerLoss

Spec == Init /\ [][Next]_vars

-----------------------------------------------------------------------------
(* Properties *)

\* The chain from a reference, as _arena_chain_snapshot walks it: the n-th
\* reference, null from where the chain ends or a read would raise.
Follow(f, status) ==
  [ref \in [page : Page, inc : Nat] |->
     IF Reads(f, ref, status) THEN Payload(f, ref.page).next ELSE NoRef]

Chain(f, first, status, n) ==
  LET at[i \in 0 .. n] == IF i = 0 THEN first ELSE Follow(f, status)[at[i-1]]
  IN  at[n]

InQueue(f, n) == Chain(f, Meta(f).head, "QUEUED", n)
InFree(f, n)  == Chain(f, Meta(f).free, "FREE", n)
QueueRefs(f)  == {InQueue(f, n) : n \in 0 .. Meta(f).count - 1}
FreeRefs(f)   == {InFree(f, n) : n \in 0 .. Meta(f).fcount - 1}
Pages(refs)   == {ref.page : ref \in refs}

\* What retirement_queue_snapshot checks: the queue and the free list are
\* chains of the committed lengths that end, and the tail is the queue's last.
SnapshotOf(f) ==
  LET m == Meta(f)
  IN  /\ NoRef \notin QueueRefs(f) \cup FreeRefs(f)
      /\ InQueue(f, m.count) = NoRef /\ InFree(f, m.fcount) = NoRef
      /\ m.tail = IF m.count = 0 THEN NoRef ELSE InQueue(f, m.count - 1)
      /\ Cardinality(Pages(QueueRefs(f))) = m.count /\ Cardinality(Pages(FreeRefs(f))) = m.fcount
      /\ Pages(QueueRefs(f)) \cap Pages(FreeRefs(f)) = {}

\* And from v0.35 on, of the pool: it is these descriptors, and no more.
ArenaSnapshotOf(f) ==
  LET m == Meta(f)
  IN  /\ m.format > 34 => Pages(QueueRefs(f)) \cup Pages(FreeRefs(f)) = 0 .. m.pairs - 1
      /\ m.format >= 37 /\ m.count = 0 => m.pairs = 0

\* retirement_queue_snapshot raises nothing, and what it lists is the whole
\* arena.  Nor does any operation run into a state it refuses, whichever
\* crashes there have been: the identities it reads through are those of the
\* descriptors.
SnapshotIsValid ==
  /\ SnapshotOf(file) /\ ArenaSnapshotOf(file)
  /\ op = Idle => LET m == Meta(file)
                  IN  CanRetire(file, m) /\ CanReclaim(file, m) /\ ShrinkChecks(file, m)

\* The arena is never shorter than the superblock says, on the device either:
\* a file is cut only after the superblock that forgets its end is durable.
ArenaCoversCommitted ==
  /\ CanRecover(file, Meta(file))
  /\ CanRecover(disk, Meta(disk))

\* retirement_descriptor_reference (35, 38): what a caller kept is looked up.
Resolves(f, ref) ==
  /\ Meta(f).format = 38 => ref.page < Meta(f).pairs
  /\ Reads(f, ref, "QUEUED")

\* A reference kept by a caller resolves if and only if the descriptor it was
\* published for still waits in the queue, whatever its page holds by now.
ReferencesResolveExactly ==
  Meta(file).format \in {35, 38} =>
    \A g \in given :
      Resolves(file, g.ref) <=>
        \E n \in 0 .. Meta(file).count - 1 :
          InQueue(file, n) = g.ref /\ Payload(file, g.ref.page).gen = g.gen

\* Behind the descriptors there is just a queue that retirements append to and
\* reclaim steps take from the front of, each of them whole or not at all.
Waiting(f, ref) ==
  IF Reads(f, ref, "QUEUED") THEN [gen |-> Payload(f, ref.page).gen, left |-> Payload(f, ref.page).left]
                             ELSE [gen |-> 0, left |-> 0]
QueueOf(f) ==
  [next |-> Meta(f).gen,
   rows |-> [i \in 1 .. Meta(f).count |-> Waiting(f, InQueue(f, i - 1))]]

Abstract == INSTANCE RetirementQueue WITH queue <- QueueOf(file), stable <- QueueOf(disk)

ImplementsRetirementQueue == Abstract!Spec
=============================================================================
