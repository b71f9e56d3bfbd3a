-------------------------- MODULE SegmentedPrimary --------------------------
(***************************************************************************)
(* The primary stores from v0.30 to v0.34: the table of PrimaryTable, on   *)
(* logical pages that are placed in a growing file.  A fixed-depth radix   *)
(* of dual-copy nodes maps each segment of Width logical pages to an       *)
(* extent of Width page pairs, taken from the end of the file.             *)
(*                                                                         *)
(*   30  extents are appended and never given up; a node is a JSON record, *)
(*       which may outgrow its page                                        *)
(*   31  the same with nodes of a fixed width                              *)
(*   32  extents taken by hand have a lifecycle header and are chained by  *)
(*       owner; a retired chain is unmapped in bounded steps, its extents  *)
(*       join a free list and are scrubbed when they are used again        *)
(*   33  the chains are those of the table's generations, which start on a *)
(*       segment boundary; one retired generation at a time                *)
(*   34  any number of them, in a queue (RetirementArena)                  *)
(*                                                                         *)
(* A pair of the module is two pages of the file.  An operation is planned *)
(* from the committed image and carried out one write at a time; the       *)
(* process may die between any two.  These stores make no claim about      *)
(* power loss, so the page cache and its fsyncs are left out.              *)
(***************************************************************************)
EXTENDS DualCopy, Sequences, SequencesExt

CONSTANTS
  Key, NoKey, BucketSize, StashCapacity, MaxKicks, MigrationBudget,
  InitialCapacity, LoadNum, LoadDen, Hash1, Hash2, Choice, Victim,
  Formats,          \* the versions of the store, a subset of 30 .. 34
  Width,            \* logical pages of a segment
  Fanout, Levels,   \* of the radix
  JsonRoom,         \* the digits a JSON node has room for in its edges
  Inserts,          \* the keys the caller inserts, in this order
  Budgets,          \* the budgets reclaim_step is called with
  Batches,          \* the segments mapped by hand (31, 32), as sequences
  MaxEpoch,         \* bound on the committed epoch of each version
  MaxPair           \* bound on the length of the file, in pairs

ASSUME FormatsAssumption == Formats \subseteq 30 .. 34
ASSUME WidthAssumption   == Width \in Nat \ {0}
ASSUME RadixAssumption   == Fanout \in Nat \ {0, 1} /\ Levels \in Nat \ {0} /\ JsonRoom \in Nat
ASSUME InsertsAssumption == Inserts \in Seq(Key)

VARIABLES
  file,    \* the superblock slots and the page pairs, as reads return them
  op,      \* the operation in flight
  owed     \* the call a crash cut short

vars == <<file, op, owed>>

Table(alignment) == INSTANCE PrimaryTable WITH Alignment <- alignment

-----------------------------------------------------------------------------
(* Pairs and copies.  A copy of another kind does not parse.               *)

Pair    == 0 .. MaxPair
NoPair  == 0                   \* the superblock's own, so never a pointer
Root    == 1
Segment == 0 .. Fanout ^ Levels - 1

Copy(epoch, kind, data) == [epoch |-> epoch, kind |-> kind, data |-> data]
Zeros == Copy(0, "none", Blank)
As(c, kind) == [s \in Slot |-> IF c[s].kind = kind THEN c[s] ELSE Absent]

Read(w, p, kind)  == ReadPage(As(w.pairs[p], kind), w.epoch)
Spare(w, p, kind) == 1 - NewestSlot(As(w.pairs[p], kind), w.epoch)
Parses(w, p, kind) == p \in Pair /\ HasCommitted(As(w.pairs[p], kind), w.epoch)

NoEdges == [d \in 0 .. Fanout - 1 |-> NoPair]
Header(status, gen, seg, next) == [status |-> status, gen |-> gen, seg |-> seg, next |-> next]
NoChain == [head |-> NoPair, count |-> 0]

-----------------------------------------------------------------------------
(* The writer's view: the file with the writes planned so far, the         *)
(* metadata it will commit, the radix nodes it has rewritten.              *)

Committing(f) ==
  [pairs |-> f.pairs, epoch |-> Epoch(f.super), meta |-> MetaOf(f.super),
   nodes |-> <<>>, todo |-> <<>>, ok |-> TRUE]

Write(p, s, copy) == [do |-> "write", pair |-> p, slot |-> s, copy |-> copy]
Resize(n)         == [do |-> "resize", pair |-> n]
WriteSuper        == [do |-> "super"]
Raise             == [do |-> "raise"]

Cut(pairs, n) == [p \in Pair |-> IF p < n THEN pairs[p] ELSE [s \in Slot |-> Zeros]]

Applied(pairs, step) ==
  IF step.do = "write" THEN [pairs EXCEPT ![step.pair][step.slot] = step.copy]
  ELSE IF step.do = "resize" THEN Cut(pairs, step.pair)
  ELSE pairs

\* An exception ends the operation; what it wrote stays written.
Fail(w)     == [w EXCEPT !.ok = FALSE]
Do(w, step) == IF w.ok THEN [w EXCEPT !.todo = Append(@, step), !.pairs = Applied(@, step)] ELSE w

\* Mutant of Grow: the frontier that is committed is the one before.
Grow_Stale(w, n) == Do(w, Resize(w.meta.next + n))

\* The file grows; the frontier is committed with the rest.
Grow(w, n) == Do([w EXCEPT !.meta.next = @ + n], Resize(w.meta.next + n))

-----------------------------------------------------------------------------
(* The radix *)

Digit(seg, depth) == (seg \div Fanout ^ (Levels - depth)) % Fanout

\* The writer reads its own nodes, and of the others the committed copy.
Edges(w, p)    == IF p \in DOMAIN w.nodes THEN w.nodes[p].edges ELSE Read(w, p, "node")
NodeSlot(w, p) == IF p \in DOMAIN w.nodes THEN w.nodes[p].slot ELSE Spare(w, p, "node")
Down(w, digit) == [p \in Pair |-> IF p = NoPair THEN NoPair ELSE Edges(w, p)[digit]]

\* The node of each depth on the way to a segment, and then its extent.
Path(w, seg) ==
  LET at[d \in 1 .. Levels + 1] ==
        IF d = 1 THEN Root ELSE Down(w, Digit(seg, d - 1))[at[d - 1]]
  IN  at

Mapped(w, seg) == Path(w, seg)[Levels + 1]

PutFixedNode(w, p, slot, edges) ==
  [Do(w, Write(p, slot, Copy(w.epoch + 1, "node", edges)))
     EXCEPT !.nodes = (p :> [slot |-> slot, edges |-> edges]) @@ @]

\* The JSON of a node names the page of each edge in decimal.
Digits(pair)    == IF 2 * pair < 10 THEN 1 ELSE IF 2 * pair < 100 THEN 2 ELSE 3
JsonSize(edges) ==
  MapThenSumSet(LAMBDA d : IF edges[d] = NoPair THEN 0 ELSE Digits(edges[d]), 0 .. Fanout - 1)

PutJsonNode(w, p, slot, edges) ==
  IF JsonSize(edges) > JsonRoom THEN Fail(w) ELSE PutFixedNode(w, p, slot, edges)

PutNode(w, p, slot, edges) ==
  IF w.meta.format = 30 THEN PutJsonNode(w, p, slot, edges) ELSE PutFixedNode(w, p, slot, edges)

\* The missing nodes under depth d, from the top: each is new, so slot 0.
PutChildren(w, seg, base, d, first) ==
  FoldLeft(LAMBDA v, c : PutNode(v, first + c - d - 1, 0,
                           [NoEdges EXCEPT ![Digit(seg, c)] =
                              IF c = Levels THEN base ELSE first + c - d]),
           w, [i \in 1 .. Levels - d |-> d + i])

\* The depth of the deepest node there is on the way to a segment.
Deepest(w, seg) == Max({d \in 1 .. Levels : Path(w, seg)[d] # NoPair})

\* The children first, then the edge to them in the deepest node.
Linked(w, seg, base, first) ==
  LET d == Deepest(w, seg)
      p == Path(w, seg)[d]
  IN  PutNode(PutChildren(w, seg, base, d, first), p, NodeSlot(w, p),
              [Edges(w, p) EXCEPT ![Digit(seg, d)] = IF d = Levels THEN base ELSE first])

\* _stage_mapping_to_base: the file grows by the nodes.
Stage(w, seg, base) ==
  LET missing == Levels - Deepest(w, seg)
  IN  Linked(IF missing = 0 THEN w ELSE Grow(w, missing), seg, base, w.meta.next)

\* _stage_unmap: nodes are never pruned.
Unmap(w, seg) ==
  LET leaf == Path(w, seg)[Levels]
  IN  PutNode(w, leaf, NodeSlot(w, leaf), [Edges(w, leaf) EXCEPT ![Digit(seg, Levels)] = NoPair])

-----------------------------------------------------------------------------
(* Extents *)

PutHeader(w, h, slot, header) == Do(w, Write(h, slot, Copy(w.epoch + 1, "header", header)))
Owning(m, seg) == Header("OWNED", m.ogen, seg, m.owner)
Owned(w, h) == [w EXCEPT !.meta.owner = h, !.meta.ocount = @ + 1]

\* The file grows by the extent and the nodes at once.
BareExtent(w, seg) ==
  Linked(Grow(w, Width + Levels - Deepest(w, seg)), seg, w.meta.next, w.meta.next + Width)

OwnedExtent(w, seg) ==
  LET h == w.meta.next
  IN  Stage(Owned(PutHeader(Grow(w, 1 + Width), h, 0, Owning(w.meta, seg)), h), seg, h + 1)

\* Mutant of Scrubbed: the retired pages stay in the extent.
Scrubbed_Not(w, h) == w

\* Every copy of the extent is zeroed in place, slot by slot.
Scrubbed(w, h) ==
  FoldLeft(LAMBDA v, i : Do(v, Write(h + 1 + (i \div 2), i % 2, Zeros)),
           w, [i \in 1 .. 2 * Width |-> i - 1])

Taken(w, h) == [w EXCEPT !.meta.free = Read(w, h, "header").next, !.meta.fcount = @ - 1]

\* The head of the free list, scrubbed, mapped and owned again.
ReusedExtent(w, seg) ==
  LET h == w.meta.free
  IN  IF ~Parses(w, h, "header") \/ Read(w, h, "header").status # "FREE" THEN Fail(w)
      ELSE Owned(Taken(PutHeader(Stage(Scrubbed(w, h), seg, h + 1), h,
                                 Spare(w, h, "header"), Owning(w.meta, seg)), h), h)

SegmentsOf(g) == {p \div Width : p \in Table(1)!PagesOf(g)}

\* _reserve_fresh_mapping
Reserve(w, seg) ==
  IF Mapped(w, seg) # NoPair THEN w
  ELSE IF w.meta.format < 33 THEN BareExtent(w, seg)
  ELSE IF seg \notin SegmentsOf(w.meta.table.cur) THEN Fail(w)
  ELSE IF w.meta.fcount > 0 THEN ReusedExtent(w, seg)
  ELSE OwnedExtent(w, seg)

\* _write_logical_page
PutPage(w, p, keys) ==
  LET at(v) == Mapped(v, p \div Width) + (p % Width)
      Put(v, q) == Do(v, Write(q, TargetSlot(As(v.pairs[q], "page"), v.epoch),
                               Copy(v.epoch + 1, "page", keys)))
      On(v) == IF v.ok THEN Put(v, at(v)) ELSE v
  IN  On(Reserve(w, p \div Width))

\* _read_logical_page: a page of a segment without extent is empty.
Image(w) ==
  LET page(base, p) == IF base = NoPair THEN Blank ELSE Read(w, base + (p % Width), "page")
  IN  [p \in Page |-> page(Mapped(w, p \div Width), p)]

-----------------------------------------------------------------------------
(* The generations of the table and their chains of extents.               *)

\* Mutant of AlignmentOf: generations are laid out back to back.
AlignmentOf_Never(format) == 1

AlignmentOf(format) == IF format < 33 THEN 1 ELSE Width

\* A migration starts: the owner chain so far is the old generation's.
HandOver(m) ==
  [m EXCEPT !.ogen = @ + 1, !.owner = NoPair, !.ocount = 0,
            !.old = [head |-> m.owner, count |-> m.ocount]]

Row(gen, chain) == [gen |-> gen, cursor |-> chain.head, left |-> chain.count]

\* It completes: the old chain waits to be reclaimed, since v0.34 behind a
\* descriptor of its own at the end of the file.
Retire(w) ==
  LET m       == w.meta
      queued  == IF m.old.count = 0 THEN w
                 ELSE [(IF m.format = 34 THEN Grow(w, 1) ELSE w)
                         EXCEPT !.meta.queue = Append(@, Row(m.ogen - 1, m.old))]
  IN  [queued EXCEPT !.meta.old = NoChain]

Starts(m, img, k) ==
  ~Table(1)!Found(img, m.table, k) /\ m.table.old = Table(1)!NoGen /\ Table(1)!Backlog(m.table)

\* One retired generation at a time, in v0.33.
MustDrain(m, img, k) == m.format = 33 /\ m.queue # <<>> /\ Starts(m, img, k)

\* The two ends of a migration, which may fall in one insertion.
Begun(w, starts) == IF starts THEN [w EXCEPT !.meta = HandOver(@)] ELSE w
Ended(w, ends)   == IF ends THEN Retire(w) ELSE w

Turned(w, starts, table) ==
  IF w.meta.format < 33 THEN w
  ELSE Ended(Begun(w, starts),
             (starts \/ w.meta.table.old # Table(1)!NoGen) /\ table.old = Table(1)!NoGen)

PutPages(w, changes) ==
  FoldLeft(LAMBDA v, p : IF v.ok /\ p \in DOMAIN changes THEN PutPage(v, p, changes[p]) ELSE v,
           w, [i \in 1 .. Max(Page) + 1 |-> i - 1])

\* insert: what the table changes, page by page.
Inserted(w, starts, plan) ==
  IF plan.outcome = "broken" THEN Fail(w)
  ELSE PutPages([Turned(w, starts, plan.meta) EXCEPT !.meta.table = plan.meta], plan.changes)

-----------------------------------------------------------------------------
(* Reclaiming *)

\* What reclaim_step checks of a segment before it gives it up.
Reclaimable(w, h, gen) ==
  /\ Parses(w, h, "header")
  /\ LET header == Read(w, h, "header")
     IN  /\ header.status = "OWNED" /\ header.gen = gen
         /\ Mapped(w, header.seg) = h + 1

\* Mutant of Unlinked: the extent is freed and stays mapped.
Unlinked_Mapped(w, h, header) ==
  [PutHeader(w, h, Spare(w, h, "header"),
             Header("FREE", header.gen, header.seg, w.meta.free))
     EXCEPT !.meta.free = h, !.meta.fcount = @ + 1,
            !.meta.queue[1].cursor = header.next, !.meta.queue[1].left = @ - 1]

Unlinked(w, h, header) ==
  [PutHeader(Unmap(w, header.seg), h, Spare(w, h, "header"),
             Header("FREE", header.gen, header.seg, w.meta.free))
     EXCEPT !.meta.free = h, !.meta.fcount = @ + 1,
            !.meta.queue[1].cursor = header.next, !.meta.queue[1].left = @ - 1]

ReclaimOne(w) ==
  LET row == Head(w.meta.queue)
  IN  IF ~w.ok \/ ~Reclaimable(w, row.cursor, row.gen) THEN Fail(w)
      ELSE Unlinked(w, row.cursor, Read(w, row.cursor, "header"))

Dequeued(w) == IF w.ok /\ Head(w.meta.queue).left = 0 THEN [w EXCEPT !.meta.queue = Tail(@)] ELSE w

\* reclaim_step: at most budget extents of the generation retired first.
Reclaimed(w, budget) ==
  Dequeued(FoldLeft(LAMBDA v, i : ReclaimOne(v),
                    w, [i \in 1 .. Min({budget, Head(w.meta.queue).left}) |-> i]))

\* The pages that go with them.
GivenUp(w, v) ==
  [p \in {q \in Page : Mapped(w, q \div Width) # NoPair /\ Mapped(v, q \div Width) = NoPair}
     |-> Blank]

-----------------------------------------------------------------------------
(* Operations *)

Call(kind, arg) == [kind |-> kind, arg |-> arg]
NoCall == Call("none", 0)
Idle   == [call |-> NoCall, todo |-> <<>>, meta |-> <<>>, changes |-> <<>>]

Plan(call, w, changes) == [call |-> call, view |-> w, changes |-> changes]
Now == Committing(file)

\* lookup: the pages of the table a key may be on, each by way of the radix.
Stored(m, img, k) == Table(1)!Found(img, m.table, k)

\* The caller's next key, unless the store refuses it.
NextKeys(m, img) ==
  {Inserts[n] : n \in {i \in DOMAIN Inserts :
     /\ ~Stored(m, img, Inserts[i])
     /\ \A j \in 1 .. i - 1 : Stored(m, img, Inserts[j])}}

InsertPlan(w, img, k) ==
  LET table == Table(AlignmentOf(w.meta.format))!Plan(img, w.meta.table, k)
  IN  IF MustDrain(w.meta, img, k) \/ table.outcome \in {"refused", "duplicate"} THEN {}
      ELSE {Plan(Call("insert", k), Inserted(w, Starts(w.meta, img, k), table), table.changes)}

InsertPlansOf(w, img) == UNION {InsertPlan(w, img, k) : k \in NextKeys(w.meta, img)}
InsertPlans == InsertPlansOf(Now, Image(Now))

ReclaimPlans ==
  {LET v == Reclaimed(Now, budget) IN Plan(Call("reclaim", budget), v, GivenUp(Now, v)) :
     budget \in IF Now.meta.queue = <<>> THEN {} ELSE Budgets}

\* What a caller maps, retires or reuses by hand, in the releases that leave it to callers.
ByHand(format, batches) == IF Now.meta.format = format THEN batches ELSE {}

Unmapped(batch) == \A i \in DOMAIN batch : Mapped(Now, batch[i]) = NoPair

\* materialize_segment_mappings (v0.31)
MapPlans ==
  {Plan(Call("map", b), FoldLeft(Reserve, Now, b), <<>>) : b \in ByHand(31, Batches)}

\* materialize_owned_segment_mappings (v0.32)
OwnPlans ==
  {Plan(Call("own", b), FoldLeft(OwnedExtent, Now, b), <<>>) :
     b \in ByHand(32, {b \in Batches : Unmapped(b)})}

\* retire_owner_generation (v0.32): one backlog at a time.
RetirePlans ==
  {Plan(Call("retire", b), [Now EXCEPT !.meta = Retire([Now EXCEPT !.meta = HandOver(@)]).meta], <<>>) :
     b \in ByHand(32, IF Now.meta.queue = <<>> /\ Now.meta.ocount > 0 THEN {<<>>} ELSE {})}

\* reuse_one_mapping (v0.32, scrubbing)
ReusePlans ==
  {Plan(Call("reuse", b), ReusedExtent(Now, b[1]), <<>>) :
     b \in ByHand(32, {b \in Batches : Len(b) = 1 /\ Unmapped(b) /\ Now.meta.fcount > 0})}

\* The caller repeats a call that a crash cut short before it calls again.
Start(plan) ==
  /\ op = Idle
  /\ owed \in {NoCall, plan.call}
  /\ Epoch(file.super) < MaxEpoch[Now.meta.format] /\ plan.view.meta.next <= MaxPair
  /\ op' = [call |-> plan.call, 
            todo |-> Append(plan.view.todo, IF plan.view.ok THEN WriteSuper ELSE Raise),
            meta |-> plan.view.meta, changes |-> plan.changes]
  /\ UNCHANGED <<file, owed>>

Insert      == \E plan \in InsertPlans : Start(plan)
Reclaim     == \E plan \in ReclaimPlans : Start(plan)
Materialize == \E plan \in MapPlans \cup OwnPlans : Start(plan)
RetireOwner == \E plan \in RetirePlans : Start(plan)
Reuse       == \E plan \in ReusePlans : Start(plan)

\* One write, or the ftruncate of a growing file.
WriteStep ==
  /\ op.todo # <<>> /\ Head(op.todo) \notin {WriteSuper, Raise}
  /\ file' = [file EXCEPT !.pairs = Applied(@, Head(op.todo))]
  /\ op' = [op EXCEPT !.todo = Tail(@)]
  /\ UNCHANGED owed

Publish ==
  /\ op.todo # <<>> /\ Head(op.todo) = WriteSuper
  /\ file' = [file EXCEPT !.super[1 - ActiveSlot(file.super)] =
                [epoch |-> Epoch(file.super) + 1, meta |-> op.meta]]
  /\ op' = Idle
  /\ owed' = NoCall

\* The operation fails: the caller sees an exception, and no superblock.
Raised ==
  /\ op.todo # <<>> /\ Head(op.todo) = Raise
  /\ op' = Idle
  /\ owed' = NoCall
  /\ UNCHANGED file

Crash ==
  /\ op # Idle
  /\ op' = Idle
  /\ owed' = op.call
  /\ UNCHANGED file

\* recover: the file is cut at the committed frontier.
Recover ==
  /\ op = Idle
  /\ file' = [file EXCEPT !.pairs = Cut(@, Now.meta.next)]
  /\ file' # file
  /\ UNCHANGED <<op, owed>>

FirstMeta(format) ==
  [format |-> format, table |-> Table(1)!FirstMeta, next |-> 2,
   ogen |-> 0, owner |-> NoPair, ocount |-> 0, old |-> NoChain, queue |-> <<>>,
   free |-> NoPair, fcount |-> 0]

FirstPair(p) ==
  [s \in Slot |-> IF p = Root /\ s = 0 THEN Copy(1, "node", NoEdges) ELSE Zeros]

Init ==
  /\ \E format \in Formats :
       file = [super |-> [s \in Slot |-> [epoch |-> 1 - s, meta |-> FirstMeta(format)]],
               pairs |-> [p \in Pair |-> FirstPair(p)]]
  /\ op = Idle /\ owed = NoCall

Next ==
  \/ Insert \/ Reclaim \/ Materialize \/ RetireOwner \/ Reuse
  \/ WriteStep \/ Publish \/ Raised
  \/ Crash \/ Recover

Spec == Init /\ [][Next]_vars

-----------------------------------------------------------------------------
(* Properties *)

\* The extents along a chain of headers, and where it ends.
Following(w) == [h \in Pair |-> IF Parses(w, h, "header") THEN Read(w, h, "header").next ELSE NoPair]
Along(w, first, n) ==
  LET at[i \in 0 .. n] == IF i = 0 THEN first ELSE Following(w)[at[i - 1]]
  IN  at

Chain(w, status, gen, first, n) ==
  [status |-> status, gen |-> gen, count |-> n,
   headers |-> {Along(w, first, n)[i] : i \in 0 .. n - 1}, end |-> Along(w, first, n)[n]]

OwnedChains(w) ==
  LET m == w.meta
  IN  {Chain(w, "OWNED", m.ogen, m.owner, m.ocount)}
        \cup (IF m.old = NoChain THEN {}
              ELSE {Chain(w, "OWNED", m.ogen - 1, m.old.head, m.old.count)})
        \cup {Chain(w, "OWNED", m.queue[i].gen, m.queue[i].cursor, m.queue[i].left) :
                i \in DOMAIN m.queue}
Chains(w) == OwnedChains(w) \cup {Chain(w, "FREE", 0, w.meta.free, w.meta.fcount)}

Intact(w, c) ==
  /\ c.end = NoPair /\ Cardinality(c.headers) = c.count
  /\ \A h \in c.headers :
       /\ Parses(w, h, "header")
       /\ Read(w, h, "header").status = c.status
       /\ c.status = "OWNED" => Read(w, h, "header").gen = c.gen

Held(w) == UNION {c.headers : c \in OwnedChains(w)}

\* Every extent is on exactly one chain: of a generation, which maps it, or
\* of the free list, which nothing maps.  So none is lost, freed twice, or
\* given to a second segment, wherever a reclaim or an insertion was cut short.
ExtentsAreAccounted ==
  op = Idle =>
    LET w == Now
    IN  /\ \A c \in Chains(w) : Intact(w, c)
        /\ \A c, d \in Chains(w) : c # d => c.headers \cap d.headers = {}
        /\ \A h \in Held(w) : Mapped(w, Read(w, h, "header").seg) = h + 1
        /\ w.meta.format > 32 =>
             \A seg \in Segment : Mapped(w, seg) # NoPair =>
               /\ Mapped(w, seg) - 1 \in Held(w)
               /\ Read(w, Mapped(w, seg) - 1, "header").seg = seg

MappedSegments(w) == {seg \in Segment : Mapped(w, seg) # NoPair}

\* generation_layout_snapshot: the segments of the generations in use.
LiveSegments(w) == SegmentsOf(w.meta.table.cur) \cup SegmentsOf(w.meta.table.old)

\* What waits to be reclaimed holds no page of the generations in use: the
\* boundary of a generation is the boundary of a segment.
LiveExtentsStay ==
  op = Idle /\ Now.meta.format > 32 =>
    LET w == Now
    IN  \A seg \in LiveSegments(w) \cap MappedSegments(w) : \A i \in DOMAIN w.meta.queue :
          Read(w, Mapped(w, seg) - 1, "header").gen # w.meta.queue[i].gen

\* The nodes the radix reaches, and the pairs of every extent.
NodesOf(w) == {Path(w, seg)[d] : seg \in Segment, d \in 1 .. Levels} \ {NoPair}
ExtentsOf(w) ==
  {Mapped(w, seg) .. Mapped(w, seg) + Width - 1 : seg \in MappedSegments(w)}
    \cup {h .. h + Width : h \in Chain(w, "FREE", 0, w.meta.free, w.meta.fcount).headers}

Reached(w) == NodesOf(w) \cup (UNION ExtentsOf(w)) \cup Held(w)

\* v0.34 never uses a descriptor again: one for every generation retired.
Descriptors(m) == IF m.format = 34 THEN m.ogen ELSE 0

\* What one fresh mapping takes of the end of the file, wherever its segment
\* is: an extent and the nodes of a path under the root (v0.29).
SparseNewNodes == Levels - 1
AllocationTail(format) == Width + (IF format > 31 THEN 1 ELSE 0) + SparseNewNodes

\* The nodes of the densest radix over so many segments.
DenseNodes(mapped) ==
  LET over(e) == (mapped + Fanout ^ e - 1) \div Fanout ^ e
  IN  IF mapped = 0 THEN 1 ELSE 1 + MapThenSumSet(over, 1 .. Levels - 1)

\* The segments the operation in flight may map.
FreshSegments(w) ==
  ({p \div Width : p \in DOMAIN op.changes}
     \cup IF op.call.kind \in {"map", "own"} THEN Range(op.call.arg) ELSE {})
  \ MappedSegments(w)

\* The committed frontier, which recover cuts the file at without looking at
\* the radix, is where what the radix and the chains reach ends; no two of
\* these overlap, and nothing before it is out of reach: no transaction that
\* was cut short leaves a hole behind.  The radix is no smaller than the
\* densest one, and what an operation may leave behind the frontier is bounded
\* by the segments it maps, not by how high they are.
FrontierCovers ==
  LET w == Now
  IN  /\ op = Idle =>
           /\ Reached(w) \subseteq 1 .. w.meta.next - 1
           /\ Cardinality((1 .. w.meta.next - 1) \ Reached(w)) <= Descriptors(w.meta)
           /\ \A x, y \in ExtentsOf(w) : x # y => x \cap y = {}
           /\ NodesOf(w) \cap UNION ExtentsOf(w) = {}
           /\ Cardinality(NodesOf(w)) >= DenseNodes(Cardinality(MappedSegments(w)))
      /\ op # Idle =>
           op.meta.next - w.meta.next
             <= Cardinality(FreshSegments(w)) * AllocationTail(w.meta.format)
                  + Descriptors(op.meta) - Descriptors(w.meta)

\* Behind the radix, the extents and their reuse there is the flat page file
\* of DualCopyPages: an image of the table's pages that an insertion changes
\* whole and that reclaiming changes only by blanking retired pages.
Gens       == [base : Nat, cap : Nat, rows : Nat]
TableMetas == [cur : Gens, old : Gens, cursor : Nat, limit : Nat, nextPage : Nat, live : Nat,
               overflow : Nat]
PageRows   == LET K == Key \cup {NoKey}
              IN  {Blank} \cup [0 .. BucketSize - 1 -> K] \cup [0 .. StashCapacity - 1 -> K]

Visible ==
  LET seen[w \in {Now}] == [pages |-> Image(w), meta |-> w.meta.table]
  IN  seen[Now]

Pages == INSTANCE AtomicPages WITH
           Data <- PageRows, Meta <- TableMetas, InitMeta <- Table(1)!FirstMeta,
           visible <- Visible,
           durable <- [pages |-> [p \in Page |-> Blank], meta |-> Table(1)!FirstMeta],
           pending <- IF op = Idle THEN {} ELSE {[changes |-> op.changes, meta |-> op.meta.table]},
           VolatileCache <- FALSE

ImplementsAtomicPages == Pages!Spec
=============================================================================
