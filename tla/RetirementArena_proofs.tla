----------------------- MODULE RetirementArena_proofs -----------------------
(***************************************************************************)
(* Proofs about RetirementArena, for every format, budget and number of    *)
(* segments, whatever the crashes.  The committed image of a file is a     *)
(* queue and a free list threaded through its descriptors (Shape).  Before *)
(* an operation commits it writes only copies that readers of that image   *)
(* do not see, and if it is cut short it leaves them at places that only   *)
(* the call repeated writes (StaleIn).                                     *)
(***************************************************************************)
EXTENDS RetirementArena, SequenceTheorems, FiniteSetTheorems, WellFoundedInduction, TLAPS

-----------------------------------------------------------------------------
(* The committed image *)

MetaOK(m) ==
  /\ m = [format |-> m.format, gen |-> m.gen, head |-> m.head, tail |-> m.tail,
          count |-> m.count, free |-> m.free, fcount |-> m.fcount, pairs |-> m.pairs,
          inc |-> m.inc]
  /\ m.format \in {34, 35, 37, 38}
  /\ m.gen \in Nat /\ m.count \in Nat /\ m.fcount \in Nat /\ m.pairs \in Nat
  /\ m.inc \in Nat /\ m.inc > 0
  /\ 0 .. m.pairs-1 \subseteq Page

RowOK(row) ==
  /\ row = [inc |-> row.inc, status |-> row.status, gen |-> row.gen, left |-> row.left,
            next |-> row.next]
  /\ row.inc \in Nat /\ row.inc > 0
  /\ row.gen \in Nat /\ row.left \in Nat

\* The reference to the n-th descriptor of a list q, null after the last.
RefAt(R, p)      == Ref(p, R[p].inc)
Link(R, q, n, i) == IF i < n THEN RefAt(R, q[i]) ELSE NoRef

Lists(m, n) == [0 .. n-1 -> 0 .. m.pairs-1]

\* The descriptors q are a list of that status, linked from first on.
Linked(R, n, q, first, status) ==
  /\ \A i, j \in 0 .. n-1 : q[i] = q[j] => i = j
  /\ first = Link(R, q, n, 0)
  /\ \A i \in 0 .. n-1 :
       /\ RowOK(R[q[i]])
       /\ R[q[i]].status = status
       /\ R[q[i]].next = Link(R, q, n, i + 1)

\* A queue q and a free list s, and from v0.35 on nothing else.
Shape(m, R, q, s) ==
  /\ q \in Lists(m, m.count) /\ Linked(R, m.count, q, m.head, "QUEUED")
  /\ s \in Lists(m, m.fcount) /\ Linked(R, m.fcount, s, m.free, "FREE")
  /\ m.tail = IF m.count = 0 THEN NoRef ELSE RefAt(R, q[m.count-1])
  /\ m.format > 34 => \A p \in 0 .. m.pairs-1 :
                        (\E i \in 0 .. m.count-1 : q[i] = p) \/ (\E i \in 0 .. m.fcount-1 : s[i] = p)
  /\ m.format >= 37 /\ m.count = 0 => m.pairs = 0
  /\ m.format = 34 => m.fcount = 0

Shaped(m, R) == \E q \in Lists(m, m.count), s \in Lists(m, m.fcount) : Shape(m, R, q, s)

SuperOK(sup) ==
  /\ sup = [s \in Slot |-> sup[s]]
  /\ \A s \in Slot : sup[s].epoch \in Nat
  /\ sup[0].epoch # sup[1].epoch

FileOK(f) ==
  /\ f = [super |-> f.super, arena |-> f.arena, len |-> f.len]
  /\ SuperOK(f.super)
  /\ f.arena = [p \in Page |-> [s \in Slot |-> f.arena[p][s]]]
  /\ \A p \in Page, s \in Slot : f.arena[p][s].epoch \in Nat
  /\ f.len \in Nat

Rows(f) == [p \in Page |-> Payload(f, p)]

Held(f) ==
  /\ FileOK(f)
  /\ MetaOK(Meta(f))
  /\ f.len >= Meta(f).pairs
  /\ \A p \in 0 .. Meta(f).pairs-1 : HasCommitted(f.arena[p], Epoch(f.super))
  /\ Shaped(Meta(f), Rows(f))
  /\ Meta(f).format < 37 => \A p \in Page : p >= Meta(f).pairs => ~HasCommitted(f.arena[p], Epoch(f.super))

-----------------------------------------------------------------------------
(* A call, and what it changes *)

Feasible(f, c) ==
  \/ c = NoCall
  \/ /\ c.kind = "retire" /\ c.arg \in OwnerCounts
     /\ ~Reusing(Meta(f)) => Meta(f).pairs \in Page
  \/ c.kind = "reclaim" /\ c.arg \in Budgets /\ Meta(f).count > 0
  \/ c = Call("shrink", 0) /\ CanShrink(Meta(f))

PlanOf(f, c) ==
  IF c.kind = "retire" THEN RetirePlan(f, Meta(f), c.arg)
  ELSE IF c.kind = "reclaim" THEN ReclaimPlan(f, Meta(f), c.arg)
  ELSE ShrinkPlan(f, Meta(f))

\* The descriptors a call writes.
Taken(f, c) ==
  LET m   == Meta(f)
      ref == NewRef(f, m)
      row == Queued(ref.inc, m.gen, c.arg)
  IN  [p \in {ref.page} \cup (IF m.tail = NoRef THEN {} ELSE {m.tail.page}) |->
         IF p = ref.page THEN row ELSE [Payload(f, p) EXCEPT !.next = ref]]

Drained(f, c) ==
  LET m   == Meta(f)
      row == Payload(f, m.head.page)
  IN  IF row.left > c.arg THEN [p \in {m.head.page} |-> [row EXCEPT !.left = @ - c.arg]]
      ELSE IF m.format = 34 \/ (m.format >= 37 /\ m.count = 1) THEN <<>>
      ELSE [p \in {m.head.page} |-> Freed(row.inc, m.free)]

Changes(f, c) ==
  IF c.kind = "retire" /\ c.arg > 0 THEN Taken(f, c)
  ELSE IF c.kind = "reclaim" THEN Drained(f, c)
  ELSE <<>>

\* Where: the copy that is not read, or the first of a new descriptor.
Target(f, p)   == IF p < Meta(f).pairs THEN Spare(f, p) ELSE 0
Writes(f, c)   == {Write(p, Target(f, p), Changes(f, c)[p]) : p \in DOMAIN Changes(f, c)}

StaleIn(f, c) == \A p \in Page, s \in Slot :
  f.arena[p][s].epoch > Epoch(f.super) => p \in DOMAIN Changes(f, c) /\ s = Target(f, p)

\* The reference a call publishes, and those published before.
NewGiven(f, c) ==
  IF c.kind = "retire" /\ c.arg > 0 THEN {[ref |-> NewRef(f, Meta(f)), gen |-> Meta(f).gen]} ELSE {}

Before(f, g) ==
  IF Meta(f).format >= 37 THEN g.ref.inc < Meta(f).inc
  ELSE g.ref.page < Meta(f).pairs /\ g.ref.inc <= Payload(f, g.ref.page).inc

Recorded(G, f, c) ==
  /\ \A g \in G : Before(f, g) \/ g \in NewGiven(f, c)
  /\ \A p \in 0 .. Meta(f).pairs-1 : Payload(f, p).status = "QUEUED" =>
       [ref |-> Ref(p, Payload(f, p).inc), gen |-> Payload(f, p).gen] \in G

Sound(G, f, c) == Held(f) /\ Feasible(f, c) /\ StaleIn(f, c) /\ Recorded(G, f, c)
Good(f, c)     == Sound(given, f, c)

\* No reference is published for two generations.
OneEach(G) ==
  /\ \A g \in G : g = [ref |-> g.ref, gen |-> g.gen] /\ g.ref \in [page : Page, inc : Nat]
  /\ \A g, h \in G : g.ref = h.ref => g.gen = h.gen

-----------------------------------------------------------------------------
(* The invariant *)

Alike(g, f) ==
  /\ g.super = f.super
  /\ \A p \in 0 .. Meta(f).pairs-1 :
       LET n == NewestSlot(f.arena[p], Epoch(f.super))
       IN  NewestSlot(g.arena[p], Epoch(f.super)) = n /\ g.arena[p][n] = f.arena[p][n]

\* The call whose repetition would overwrite what is ahead of the superblock.
Pending ==
  IF op = Idle \/ op.call.kind = "recover" THEN owed
  ELSE IF op.epoch = Epoch(file.super) THEN op.call
  ELSE NoCall

Cover(m) == IF InPrimary(m) THEN SyncPrimary ELSE SyncArena

Steps(W, n) == W \cup {Resize(n), SyncArena, SyncPrimary, WriteSuper}

\* The writes W, which may follow a resize to n pairs, are fsynced before the
\* superblock is written at step c; then it is fsynced, and the file cut.
Sorted(todo, W, m, n, c) ==
  /\ todo \in Seq(Steps(W, n)) /\ c \in 1 .. Len(todo)
  /\ todo[c] = WriteSuper
  /\ \A i \in 1 .. c-1 :
       \/ todo[i] \in W /\ \E l \in i+1 .. c-1 : todo[l] = Cover(m)
       \/ i = 1 /\ todo[i] = Resize(n) /\ \E l \in i+1 .. c-1 : todo[l] = Cover(m)
       \/ todo[i] \in {SyncPrimary, SyncArena}
  /\ \/ Len(todo) = c + 1 /\ todo[c+1] = SyncPrimary
     \/ /\ Len(todo) = c + 3 /\ ~InPrimary(m)
        /\ todo[c+1] = SyncPrimary /\ todo[c+2] = Resize(n) /\ todo[c+3] = SyncArena

\* What is not done yet is to come.
Ordered(m, c) ==
  /\ Sorted(op.todo, Writes(file, op.call), m, op.meta.pairs, c)
  /\ file.len >= op.meta.pairs \/ (c > 1 /\ op.todo[1] = Resize(op.meta.pairs))
  /\ \A w \in Writes(file, op.call) :
       \/ \E i \in 1 .. c-1 : op.todo[i] = w
       \/ file.arena[w.page][w.slot] = [epoch |-> op.epoch + 1, data |-> w.data]
  /\ fault = "power" => disk = file \/ \E l \in 1 .. c-1 : op.todo[l] = Cover(m)

Preparing ==
  /\ op.call.kind \in {"retire", "reclaim", "shrink"}
  /\ owed \in {NoCall, op.call}
  /\ op.epoch = Epoch(file.super)
  /\ op.meta = PlanOf(file, op.call).meta
  /\ op.meta.pairs > Meta(file).pairs \/ op.todo[1].do # "resize"
  /\ \E c \in 1 .. Len(op.todo) : Ordered(Meta(file), c)

Closing ==
  /\ op.call.kind \in {"retire", "reclaim", "shrink"}
  /\ owed \in {NoCall, op.call}
  /\ op.epoch \in Nat /\ op.epoch + 1 = Epoch(file.super)
  /\ \/ op.todo = <<SyncPrimary>>
     \/ /\ ~InPrimary(Meta(file))
        /\ LET r == Resize(Meta(file).pairs)
           IN  op.todo \in {<<SyncPrimary, r, SyncArena>>, <<r, SyncArena>>, <<SyncArena>>}

Recovering ==
  /\ op.call = Call("recover", 0)
  /\ LET m == Meta(file)
     IN  op.todo \in {<<Resize(m.pairs), Cover(m)>>, <<Cover(m)>>}

OpInv ==
  \/ op = Idle
  \/ /\ op = [call |-> op.call, todo |-> op.todo, meta |-> op.meta, epoch |-> op.epoch]
     /\ Preparing \/ Closing \/ Recovering

Ahead == Closing /\ op.todo[1] = SyncPrimary

\* The devices: behind by the superblock alone, or with the image readers see.
DiskInv ==
  /\ Ahead =>
       /\ disk = [file EXCEPT !.super = disk.super]
       /\ Epoch(disk.super) = op.epoch
       /\ Good(disk, op.call)
  /\ ~Ahead => Alike(disk, file) /\ Good(disk, Pending)
  /\ op = Idle \/ (op.todo[1].do = "resize" /\ ~Preparing) => disk = file

ArenaInv ==
  /\ fault \in {"process", "power"}
  /\ OneEach(given)
  /\ owed.kind \in {"none", "retire", "reclaim", "shrink"}
  /\ Good(file, Pending)
  /\ OpInv
  /\ fault = "process" => Held(disk) /\ Meta(disk) = FirstMeta(Meta(disk).format)
  /\ fault = "power" => DiskInv

-----------------------------------------------------------------------------
(* What an operation does to the committed image *)

\* The ends of the queue and of the free list, and that no descriptor is in
\* both.
LEMMA Ends ==
  ASSUME NEW m, NEW R, NEW q, NEW s, MetaOK(m), Shape(m, R, q, s)
  PROVE  /\ m.tail = NoRef <=> m.count = 0
         /\ m.count > 0 => /\ q[0] \in 0 .. m.pairs-1 /\ q[m.count-1] \in 0 .. m.pairs-1
                           /\ m.head = RefAt(R, q[0]) /\ m.tail = RefAt(R, q[m.count-1])
                           /\ m.head.page = q[0] /\ m.tail.page = q[m.count-1]
                           /\ R[q[m.count-1]].next = NoRef
         /\ m.fcount > 0 => s[0] \in 0 .. m.pairs-1 /\ m.free = RefAt(R, s[0]) /\ m.free.page = s[0]
         /\ m.fcount = 0 => m.free = NoRef
         /\ m.count = 0 => m.head = NoRef
         /\ \A i \in 0 .. m.count-1, j \in 0 .. m.fcount-1 : q[i] # s[j]
<1>1. /\ m.count \in Nat /\ m.fcount \in Nat
      /\ q \in [0 .. m.count-1 -> 0 .. m.pairs-1] /\ s \in [0 .. m.fcount-1 -> 0 .. m.pairs-1]
      /\ m.tail = IF m.count = 0 THEN NoRef ELSE RefAt(R, q[m.count-1])
  BY DEF MetaOK, Shape, Lists
<1>2. m.head = Link(R, q, m.count, 0) /\ m.free = Link(R, s, m.fcount, 0)
  BY DEF Shape, Linked
<1>3. \A i \in 0 .. m.count-1 : /\ RowOK(R[q[i]]) /\ R[q[i]].status = "QUEUED"
                                /\ R[q[i]].next = Link(R, q, m.count, i+1)
  BY DEF Shape, Linked
<1>4. \A i \in 0 .. m.fcount-1 : RowOK(R[s[i]]) /\ R[s[i]].status = "FREE"
  BY DEF Shape, Linked
<1>5. ASSUME m.count > 0
      PROVE  /\ q[0] \in 0 .. m.pairs-1 /\ q[m.count-1] \in 0 .. m.pairs-1
             /\ R[q[m.count-1]].inc > 0 /\ R[q[m.count-1]].next = NoRef
  <2>1. 0 \in 0 .. m.count-1 /\ m.count-1 \in 0 .. m.count-1
    BY <1>1, <1>5
  <2>2. R[q[m.count-1]].next = Link(R, q, m.count, m.count-1+1) /\ R[q[m.count-1]].inc > 0
    BY <1>3, <2>1 DEF RowOK
  <2> QED
    BY <1>1, <2>1, <2>2 DEF Link
<1>6. m.count > 0 => m.tail # NoRef
  BY <1>1, <1>5 DEF RefAt, Ref, NoRef
<1>7. m.fcount > 0 => s[0] \in 0 .. m.pairs-1
  BY <1>1
<1>8. \A i \in 0 .. m.count-1, j \in 0 .. m.fcount-1 : q[i] # s[j]
  BY <1>3, <1>4
<1> QED
  BY <1>1, <1>2, <1>5, <1>6, <1>7, <1>8 DEF Link, RefAt, Ref

\* A list does not change with rows that are not on it.
LEMMA ListKeeps ==
  ASSUME NEW R, NEW R2, NEW n \in Nat, NEW q, NEW first, NEW status,
         Linked(R, n, q, first, status), \A i \in 0 .. n-1 : R2[q[i]] = R[q[i]]
  PROVE  Linked(R2, n, q, first, status)
<1>1. \A i \in 0 .. n : Link(R2, q, n, i) = Link(R, q, n, i)
  BY DEF Link, RefAt
<1>2. 0 \in 0 .. n /\ \A i \in 0 .. n-1 : i + 1 \in 0 .. n
  OBVIOUS
<1> QED
  BY <1>1, <1>2 DEF Linked

\* Its first descriptor leaves a list.
LEMMA ListPops ==
  ASSUME NEW R, NEW n \in Nat, n > 0, NEW q, NEW first, NEW status,
         Linked(R, n, q, first, status)
  PROVE  /\ Linked(R, n-1, [i \in 0 .. n-2 |-> q[i+1]], R[q[0]].next, status)
         /\ \A i \in 0 .. n-2 : q[i+1] # q[0]
<1> DEFINE t == [i \in 0 .. n-2 |-> q[i+1]]
<1>1. \A i \in 0 .. n-2 : /\ i \in 0 .. n-1 /\ i+1 \in 0 .. n-1 /\ t[i] = q[i+1]
                          /\ q[i+1] # q[0]
  BY DEF Linked
<1>2. \A i \in 0 .. n-1 : Link(R, t, n-1, i) = Link(R, q, n, i+1)
  BY <1>1 DEF Link
<1>3. \A i, j \in 0 .. (n-1)-1 : t[i] = t[j] => i = j
  <2> SUFFICES ASSUME NEW i \in 0 .. (n-1)-1, NEW j \in 0 .. (n-1)-1, t[i] = t[j] PROVE i = j
    OBVIOUS
  <2>1. i+1 \in 0 .. n-1 /\ j+1 \in 0 .. n-1 /\ q[i+1] = q[j+1]
    BY <1>1
  <2>2. i + 1 = j + 1
    BY <2>1 DEF Linked
  <2> QED
    BY <2>2
<1>4. R[q[0]].next = Link(R, t, n-1, 0)
  <2>1. 0 \in 0 .. n-1
    OBVIOUS
  <2>2. R[q[0]].next = Link(R, q, n, 0+1)
    BY <2>1 DEF Linked
  <2> QED
    BY <1>2, <2>1, <2>2
<1>5. \A i \in 0 .. (n-1)-1 : RowOK(R[t[i]]) /\ R[t[i]].status = status
                              /\ R[t[i]].next = Link(R, t, n-1, i+1)
  <2> SUFFICES ASSUME NEW i \in 0 .. (n-1)-1
               PROVE  RowOK(R[t[i]]) /\ R[t[i]].status = status /\ R[t[i]].next = Link(R, t, n-1, i+1)
    OBVIOUS
  <2>1. i+1 \in 0 .. n-1 /\ t[i] = q[i+1]
    BY <1>1
  <2>2. /\ RowOK(R[q[i+1]]) /\ R[q[i+1]].status = status
        /\ R[q[i+1]].next = Link(R, q, n, (i+1)+1)
    BY <2>1 DEF Linked
  <2> QED
    BY <1>2, <2>1, <2>2
<1> QED
  BY <1>1, <1>3, <1>4, <1>5 DEF Linked

\* A descriptor becomes the first of a list.
LEMMA ListPushes ==
  ASSUME NEW R, NEW n \in Nat, NEW q, NEW first, NEW status, NEW p, NEW t,
         Linked(R, n, q, first, status), \A i \in 0 .. n-1 : q[i] # p,
         RowOK(R[p]), R[p].status = status, R[p].next = first,
         \A i \in 0 .. n : t[i] = IF i = 0 THEN p ELSE q[i-1]
  PROVE  Linked(R, n+1, t, RefAt(R, p), status)
<1>1. t[0] = p /\ \A i \in 1 .. n : i-1 \in 0 .. n-1 /\ t[i] = q[i-1]
  OBVIOUS
<1>2. \A i \in 0 .. n : Link(R, t, n+1, i+1) = Link(R, q, n, i)
  BY <1>1 DEF Link
<1>3. \A i, j \in 0 .. (n+1)-1 : t[i] = t[j] => i = j
  <2> SUFFICES ASSUME NEW i \in 0 .. n, NEW j \in 0 .. n, t[i] = t[j], i # j PROVE FALSE
    OBVIOUS
  <2>1. CASE i = 0
    <3>1. j \in 1 .. n
      BY <2>1
    <3> QED
      BY <1>1, <2>1, <3>1
  <2>2. CASE j = 0
    <3>1. i \in 1 .. n
      BY <2>2
    <3> QED
      BY <1>1, <2>2, <3>1
  <2>3. CASE i # 0 /\ j # 0
    <3>1. i \in 1 .. n /\ j \in 1 .. n
      BY <2>3
    <3>2. q[i-1] = q[j-1] /\ i-1 \in 0 .. n-1 /\ j-1 \in 0 .. n-1
      BY <1>1, <3>1
    <3>3. i - 1 = j - 1
      BY <3>2 DEF Linked
    <3> QED
      BY <3>1, <3>3
  <2> QED
    BY <2>1, <2>2, <2>3
<1>4. RefAt(R, p) = Link(R, t, n+1, 0)
  BY <1>1 DEF Link
<1>5. \A i \in 0 .. (n+1)-1 : RowOK(R[t[i]]) /\ R[t[i]].status = status
                              /\ R[t[i]].next = Link(R, t, n+1, i+1)
  <2> SUFFICES ASSUME NEW i \in 0 .. n
               PROVE  RowOK(R[t[i]]) /\ R[t[i]].status = status /\ R[t[i]].next = Link(R, t, n+1, i+1)
    OBVIOUS
  <2>1. R[t[i]].next = Link(R, q, n, i) /\ RowOK(R[t[i]]) /\ R[t[i]].status = status
    <3>1. CASE i = 0
      <4>1. first = Link(R, q, n, 0)
        BY DEF Linked
      <4> QED
        BY <1>1, <3>1, <4>1
    <3>2. CASE i # 0
      <4>1. i \in 1 .. n
        BY <3>2
      <4>2. t[i] = q[i-1] /\ i-1 \in 0 .. n-1
        BY <1>1, <4>1
      <4>3. /\ RowOK(R[q[i-1]]) /\ R[q[i-1]].status = status
            /\ R[q[i-1]].next = Link(R, q, n, (i-1)+1)
        BY <4>2 DEF Linked
      <4> QED
        BY <4>2, <4>3
    <3> QED
      BY <3>1, <3>2
  <2> QED
    BY <1>2, <2>1
<1> QED
  BY <1>3, <1>4, <1>5 DEF Linked

Relinked(row, ref) == [row EXCEPT !.next = ref]

\* A descriptor becomes the last of a list: the one before it is linked to it.
LEMMA ListAppends ==
  ASSUME NEW R, NEW R2, NEW n \in Nat, NEW q, NEW first, NEW status, NEW p, NEW t,
         Linked(R, n, q, first, status), \A i \in 0 .. n-1 : q[i] # p,
         RowOK(R2[p]), R2[p].status = status, R2[p].next = NoRef,
         \A i \in 0 .. n-2 : R2[q[i]] = R[q[i]],
         n > 0 => R2[q[n-1]] = Relinked(R[q[n-1]], RefAt(R2, p)),
         \A i \in 0 .. n : t[i] = IF i = n THEN p ELSE q[i]
  PROVE  Linked(R2, n+1, t, IF n = 0 THEN RefAt(R2, p) ELSE first, status)
<1>1. t[n] = p /\ \A i \in 0 .. n-1 : t[i] = q[i]
  OBVIOUS
<1>2. \A i \in 0 .. n-1 : /\ RowOK(R2[q[i]]) /\ R2[q[i]].status = status /\ R2[q[i]].inc = R[q[i]].inc
                          /\ R2[q[i]].next = IF i = n-1 THEN RefAt(R2, p) ELSE R[q[i]].next
  <2> SUFFICES ASSUME NEW i \in 0 .. n-1
               PROVE /\ RowOK(R2[q[i]]) /\ R2[q[i]].status = status /\ R2[q[i]].inc = R[q[i]].inc
                     /\ R2[q[i]].next = IF i = n-1 THEN RefAt(R2, p) ELSE R[q[i]].next
    OBVIOUS
  <2>1. RowOK(R[q[i]]) /\ R[q[i]].status = status
    BY DEF Linked
  <2>2. CASE i = n-1
    <3>1. R2[q[i]] = Relinked(R[q[i]], RefAt(R2, p))
      BY <2>2
    <3> QED
      BY <2>1, <2>2, <3>1 DEF RowOK, Relinked
  <2>3. CASE i # n-1
    <3>1. i \in 0 .. n-2
      BY <2>3
    <3> QED
      BY <2>1, <2>3, <3>1
  <2> QED
    BY <2>2, <2>3
<1>3. \A i \in 0 .. n-1 : RefAt(R2, q[i]) = RefAt(R, q[i])
  BY <1>2 DEF RefAt
<1>4. \A i \in 0 .. n-1 : Link(R2, t, n+1, i) = RefAt(R, q[i])
  BY <1>1, <1>3 DEF Link
<1>5. Link(R2, t, n+1, n) = RefAt(R2, p) /\ Link(R2, t, n+1, n+1) = NoRef
  BY <1>1 DEF Link
<1>6. \A i, j \in 0 .. (n+1)-1 : t[i] = t[j] => i = j
  <2> SUFFICES ASSUME NEW i \in 0 .. n, NEW j \in 0 .. n, t[i] = t[j], i # j PROVE FALSE
    OBVIOUS
  <2>1. (i = n \/ i \in 0 .. n-1) /\ (j = n \/ j \in 0 .. n-1)
    OBVIOUS
  <2> QED
    BY <1>1, <2>1 DEF Linked
<1>7. (IF n = 0 THEN RefAt(R2, p) ELSE first) = Link(R2, t, n+1, 0)
  <2>1. n > 0 => first = RefAt(R, q[0])
    BY DEF Linked, Link
  <2>2. n > 0 => 0 \in 0 .. n-1
    OBVIOUS
  <2> QED
    BY <1>4, <1>5, <2>1, <2>2
<1>8. \A i \in 0 .. (n+1)-1 : RowOK(R2[t[i]]) /\ R2[t[i]].status = status
                              /\ R2[t[i]].next = Link(R2, t, n+1, i+1)
  <2> SUFFICES ASSUME NEW i \in 0 .. n
               PROVE RowOK(R2[t[i]]) /\ R2[t[i]].status = status /\ R2[t[i]].next = Link(R2, t, n+1, i+1)
    OBVIOUS
  <2>1. CASE i = n
    BY <1>1, <1>5, <2>1
  <2>2. CASE i # n
    <3>1. i \in 0 .. n-1 /\ t[i] = q[i]
      BY <1>1, <2>2
    <3>2. i < n-1 => i+1 \in 0 .. n-1 /\ R[q[i]].next = RefAt(R, q[i+1])
      BY <3>1 DEF Linked, Link
    <3> QED
      BY <1>2, <1>4, <1>5, <3>1, <3>2
  <2> QED
    BY <2>1, <2>2
<1> QED
  BY <1>6, <1>7, <1>8 DEF Linked

\* R2 is what the descriptors read once the writes of the call are committed.
Overlaid(f, c, m2, R2) ==
  \A p \in 0 .. m2.pairs-1 :
    R2[p] = IF p \in DOMAIN Changes(f, c) THEN Changes(f, c)[p] ELSE Payload(f, p)

\* What an operation promises of the image it commits.
Commits(f, c, m2) ==
  /\ MetaOK(m2)
  /\ DOMAIN Changes(f, c) \subseteq 0 .. m2.pairs-1
  /\ m2.format = Meta(f).format
  /\ m2.pairs <= Meta(f).pairs + 1
  /\ m2.pairs > Meta(f).pairs => Meta(f).pairs \in DOMAIN Changes(f, c)
  /\ m2.format < 37 => m2.pairs >= Meta(f).pairs

\* And of its queue: it loses a generation at one end, gains one at the other,
\* or has one at the head with fewer segments left.
Same(R2, p2, R, p) == R2[p2].gen = R[p].gen /\ R2[p2].left = R[p].left

Moves(c, m, R, q, m2, R2, q2) ==
  \/ /\ \/ c.kind = "retire" /\ c.arg = 0 /\ m2.gen = m.gen + 1
        \/ c.kind = "shrink" /\ m2.gen = m.gen
     /\ m2.count = m.count
     /\ \A i \in 0 .. m.count-1 : Same(R2, q2[i], R, q[i])
  \/ /\ c.kind = "retire" /\ c.arg > 0 /\ m2.gen = m.gen + 1 /\ m2.count = m.count + 1
     /\ \A i \in 0 .. m.count-1 : Same(R2, q2[i], R, q[i])
     /\ R2[q2[m.count]].gen = m.gen /\ R2[q2[m.count]].left = c.arg
  \/ /\ c.kind = "reclaim" /\ m.count > 0 /\ R[q[0]].left > c.arg
     /\ m2.gen = m.gen /\ m2.count = m.count
     /\ R2[q2[0]].gen = R[q[0]].gen /\ R2[q2[0]].left = R[q[0]].left - c.arg
     /\ \A i \in 1 .. m.count-1 : Same(R2, q2[i], R, q[i])
  \/ /\ c.kind = "reclaim" /\ m.count > 0 /\ ~(R[q[0]].left > c.arg)
     /\ m2.gen = m.gen /\ m2.count = m.count-1
     /\ \A i \in 0 .. m.count-2 : Same(R2, q2[i], R, q[i+1])

Moved(f, c, m2, R2) ==
  \E q, s, q2, s2 : /\ Shape(Meta(f), Rows(f), q, s) /\ Shape(m2, R2, q2, s2)
                    /\ Moves(c, Meta(f), Rows(f), q, m2, R2, q2)

LEMMA RowsRead ==
  ASSUME NEW f, MetaOK(Meta(f))
  PROVE  \A p \in 0 .. Meta(f).pairs-1 : p \in Page /\ p \in Nat /\ Rows(f)[p] = Payload(f, p)
BY DEF MetaOK, Rows

\* The descriptor a retirement takes is in no list that stays, and its
\* incarnation is new.
LEMMA RetireTakes ==
  ASSUME NEW f, NEW c, Held(f), Feasible(f, c), c.kind = "retire", c.arg > 0,
         NEW q, NEW s, Shape(Meta(f), Rows(f), q, s)
  PROVE  LET m   == Meta(f)
             ref == NewRef(f, m)
             ch  == Changes(f, c)
             z   == q[m.count-1]
         IN  /\ ref = Ref(ref.page, ref.inc) /\ ref.inc \in Nat /\ ref.inc > 0
             /\ ref.page = IF m.fcount > 0 THEN s[0] ELSE m.pairs
             /\ ref.page \in Page /\ ref.page \in Nat
             /\ \A i \in 0 .. m.count-1 : q[i] # ref.page
             /\ DOMAIN ch = {ref.page} \cup (IF m.count = 0 THEN {} ELSE {z})
             /\ ch[ref.page] = Queued(ref.inc, m.gen, c.arg)
             /\ m.count > 0 => ch[z] = Relinked(Rows(f)[z], ref)
             /\ c.arg \in Nat
<1> DEFINE m == Meta(f)
           R == Rows(f)
           ref == NewRef(f, m)
           z == q[m.count-1]
<1>1. MetaOK(m) /\ c # NoCall /\ c.arg \in OwnerCounts /\ (m.fcount > 0 \/ m.pairs \in Page)
  BY DEF Held, Feasible, NoCall, Call, Reusing
<1>2. c.arg \in Nat
  BY <1>1, OwnerCountsAssumption
<1>3. \A p \in 0 .. m.pairs-1 : p \in Page /\ p \in Nat /\ R[p] = Payload(f, p)
  BY <1>1, RowsRead
<1>4. /\ m.tail = NoRef <=> m.count = 0
      /\ m.count > 0 => z \in 0 .. m.pairs-1 /\ m.tail.page = z
      /\ m.fcount > 0 => s[0] \in 0 .. m.pairs-1 /\ m.free.page = s[0]
      /\ \A i \in 0 .. m.count-1, j \in 0 .. m.fcount-1 : q[i] # s[j]
  BY <1>1, Ends
<1>5. m.pairs \in Nat /\ m.fcount \in Nat /\ m.count \in Nat /\ m.inc \in Nat /\ m.inc > 0
  BY <1>1 DEF MetaOK
<1>6. \A i \in 0 .. m.count-1 : q[i] \in 0 .. m.pairs-1
  BY DEF Shape, Lists
<1>7. m.fcount > 0 => R[s[0]].inc \in Nat /\ R[s[0]].inc > 0
  <2>1. m.fcount > 0 => 0 \in 0 .. m.fcount-1
    BY <1>5
  <2> QED
    BY <2>1 DEF Shape, Linked, RowOK
<1>8. /\ ref.page = IF m.fcount > 0 THEN s[0] ELSE m.pairs
      /\ ref.inc = IF m.format >= 37 THEN m.inc
                   ELSE IF m.fcount > 0 THEN R[s[0]].inc + 1 ELSE 1
      /\ ref = Ref(ref.page, ref.inc)
  BY <1>3, <1>4 DEF NewRef, Reusing, Ref
<1>9. ref.inc \in Nat /\ ref.inc > 0
  BY <1>5, <1>7, <1>8
<1>10. ref.page \in Page /\ ref.page \in Nat
  BY <1>1, <1>3, <1>4, <1>5, <1>8
<1>11. \A i \in 0 .. m.count-1 : q[i] # ref.page
  <2> SUFFICES ASSUME NEW i \in 0 .. m.count-1 PROVE q[i] # ref.page
    OBVIOUS
  <2>1. m.fcount > 0 => 0 \in 0 .. m.fcount-1
    BY <1>5
  <2>2. q[i] < m.pairs /\ (m.fcount > 0 => q[i] # s[0])
    BY <1>4, <1>5, <1>6, <2>1
  <2> QED
    BY <1>5, <1>8, <2>2
<1>12. Changes(f, c) = [p \in {ref.page} \cup (IF m.count = 0 THEN {} ELSE {z}) |->
         IF p = ref.page THEN Queued(ref.inc, m.gen, c.arg) ELSE [Payload(f, p) EXCEPT !.next = ref]]
  BY <1>4, <1>5 DEF Changes, Taken
<1>13. m.count > 0 => z # ref.page
  <2>1. m.count > 0 => m.count-1 \in 0 .. m.count-1
    BY <1>5
  <2> QED
    BY <1>11, <2>1
<1>14. m.count > 0 => R[z] = Payload(f, z)
  BY <1>3, <1>4
<1> HIDE DEF m, R, ref, z
<1>15. /\ DOMAIN Changes(f, c) = {ref.page} \cup (IF m.count = 0 THEN {} ELSE {z})
       /\ Changes(f, c)[ref.page] = Queued(ref.inc, m.gen, c.arg)
       /\ m.count > 0 => Changes(f, c)[z] = Relinked(R[z], ref)
  BY <1>12, <1>13, <1>14 DEF Relinked
<1> QED
  BY <1>2, <1>8, <1>9, <1>10, <1>11, <1>15 DEF m, R, ref, z

LEMMA RetireCommits ==
  ASSUME NEW f, NEW c, Held(f), Feasible(f, c), c.kind = "retire", c.arg > 0,
         NEW R2, Overlaid(f, c, PlanOf(f, c).meta, R2)
  PROVE  /\ Commits(f, c, PlanOf(f, c).meta) /\ Shaped(PlanOf(f, c).meta, R2)
         /\ Moved(f, c, PlanOf(f, c).meta, R2)
<1> DEFINE m == Meta(f)
           R == Rows(f)
           ref == NewRef(f, m)
           m2 == PlanOf(f, c).meta
<1>1. MetaOK(m) /\ \E q \in Lists(m, m.count), s \in Lists(m, m.fcount) : Shape(m, R, q, s)
  BY DEF Held, Shaped
<1>2. PICK q, s : Shape(m, R, q, s)
  BY <1>1
<1> DEFINE z == q[m.count-1]
           q2 == [i \in 0 .. m.count |-> IF i = m.count THEN ref.page ELSE q[i]]
           s2 == IF m.fcount > 0 THEN [i \in 0 .. m.fcount-2 |-> s[i+1]] ELSE s
<1>3. /\ m.count \in Nat /\ m.fcount \in Nat /\ m.pairs \in Nat /\ m.inc \in Nat /\ m.inc > 0 /\ m.gen \in Nat
      /\ m.format \in {34, 35, 37, 38} /\ 0 .. m.pairs-1 \subseteq Page
  BY <1>1 DEF MetaOK
<1>4. \A p \in 0 .. m.pairs-1 : p \in Page /\ p \in Nat /\ R[p] = Payload(f, p)
  BY <1>1, RowsRead
<1>5. /\ ref = Ref(ref.page, ref.inc) /\ ref.inc \in Nat /\ ref.inc > 0
      /\ ref.page = IF m.fcount > 0 THEN s[0] ELSE m.pairs
      /\ ref.page \in Page /\ ref.page \in Nat
      /\ \A i \in 0 .. m.count-1 : q[i] # ref.page
      /\ DOMAIN Changes(f, c) = {ref.page} \cup (IF m.count = 0 THEN {} ELSE {z})
      /\ Changes(f, c)[ref.page] = Queued(ref.inc, m.gen, c.arg)
      /\ m.count > 0 => Changes(f, c)[z] = Relinked(R[z], ref)
      /\ c.arg \in Nat
  BY <1>2, RetireTakes
<1>6. /\ m.tail = NoRef <=> m.count = 0
      /\ m.count > 0 => z \in 0 .. m.pairs-1
      /\ m.fcount > 0 => s[0] \in 0 .. m.pairs-1 /\ m.free.page = s[0]
      /\ m.fcount = 0 => m.free = NoRef
      /\ m.count = 0 => m.head = NoRef
      /\ \A i \in 0 .. m.count-1, j \in 0 .. m.fcount-1 : q[i] # s[j]
  BY <1>1, <1>2, Ends
<1>7. /\ q \in [0 .. m.count-1 -> 0 .. m.pairs-1] /\ s \in [0 .. m.fcount-1 -> 0 .. m.pairs-1]
      /\ Linked(R, m.count, q, m.head, "QUEUED") /\ Linked(R, m.fcount, s, m.free, "FREE")
      /\ m.format > 34 => \A p \in 0 .. m.pairs-1 :
           (\E i \in 0 .. m.count-1 : q[i] = p) \/ (\E i \in 0 .. m.fcount-1 : s[i] = p)
      /\ m.format = 34 => m.fcount = 0
  BY <1>2 DEF Shape, Lists
<1>8. m2 = Enqueued(f, m, ref)
  BY <1>5 DEF PlanOf, RetirePlan, Plan
<1>9. /\ m2.format = m.format /\ m2.gen = m.gen + 1 /\ m2.count = m.count + 1
      /\ m2.head = (IF m.count = 0 THEN ref ELSE m.head) /\ m2.tail = ref
      /\ m2.free = (IF m.fcount > 0 THEN R[s[0]].next ELSE m.free)
      /\ m2.fcount = (IF m.fcount > 0 THEN m.fcount-1 ELSE m.fcount)
      /\ m2.pairs = (IF m.fcount > 0 THEN m.pairs ELSE m.pairs+1)
      /\ m2.inc = (IF m.format >= 37 THEN m.inc+1 ELSE m.inc)
      /\ m2 = [format |-> m2.format, gen |-> m2.gen, head |-> m2.head, tail |-> m2.tail,
               count |-> m2.count, free |-> m2.free, fcount |-> m2.fcount, pairs |-> m2.pairs,
               inc |-> m2.inc]
  <2>1. m = [format |-> m.format, gen |-> m.gen, head |-> m.head, tail |-> m.tail,
             count |-> m.count, free |-> m.free, fcount |-> m.fcount, pairs |-> m.pairs,
             inc |-> m.inc]
    BY <1>1 DEF MetaOK
  <2>2. m.fcount > 0 => Payload(f, m.free.page) = R[s[0]]
    BY <1>4, <1>6
  <2> HIDE DEF m, R, ref, m2
  <2> QED
    BY <1>3, <1>6, <1>8, <2>1, <2>2 DEF Enqueued, Reusing
<1> HIDE DEF m, R, ref, m2
<1>10. /\ m2.pairs \in Nat /\ m2.count \in Nat /\ m2.fcount \in Nat
       /\ 0 .. m2.pairs-1 \subseteq Page /\ ref.page \in 0 .. m2.pairs-1
       /\ \A p \in 0 .. m.pairs-1 : p \in 0 .. m2.pairs-1
       /\ m2.pairs > m.pairs => ref.page = m.pairs
  BY <1>3, <1>5, <1>6, <1>9
<1>11. Commits(f, c, m2)
  <2>1. MetaOK(m2)
    BY <1>3, <1>9, <1>10 DEF MetaOK
  <2>2. DOMAIN Changes(f, c) \subseteq 0 .. m2.pairs-1
    BY <1>3, <1>5, <1>6, <1>10
  <2> QED
    BY <1>3, <1>5, <1>9, <1>10, <2>1, <2>2 DEF Commits, m
<1>12. \A p \in 0 .. m2.pairs-1 :
          R2[p] = IF p \in DOMAIN Changes(f, c) THEN Changes(f, c)[p] ELSE Payload(f, p)
  BY DEF Overlaid, m2
<1>13. R2[ref.page] = Queued(ref.inc, m.gen, c.arg)
  BY <1>5, <1>10, <1>12
<1>14. m.count > 0 => R2[z] = Relinked(R[z], ref)
  BY <1>5, <1>6, <1>10, <1>12
<1>15. \A p \in 0 .. m.pairs-1 : p # ref.page /\ (m.count > 0 => p # z) => R2[p] = R[p]
  <2> SUFFICES ASSUME NEW p \in 0 .. m.pairs-1, p # ref.page, m.count > 0 => p # z PROVE R2[p] = R[p]
    OBVIOUS
  <2>1. p \notin DOMAIN Changes(f, c)
    BY <1>3, <1>5
  <2> QED
    BY <1>4, <1>10, <1>12, <2>1
<1>16. Linked(R2, m.count+1, q2, IF m.count = 0 THEN RefAt(R2, ref.page) ELSE m.head, "QUEUED")
       /\ RefAt(R2, ref.page) = ref
  <2>1. /\ RowOK(R2[ref.page]) /\ R2[ref.page].status = "QUEUED" /\ R2[ref.page].next = NoRef
        /\ RefAt(R2, ref.page) = ref
    BY <1>3, <1>5, <1>13 DEF Queued, RowOK, RefAt, Ref
  <2>2. \A i \in 0 .. m.count-2 : R2[q[i]] = R[q[i]]
    <3> SUFFICES ASSUME NEW i \in 0 .. m.count-2 PROVE R2[q[i]] = R[q[i]]
      OBVIOUS
    <3>1. i \in 0 .. m.count-1 /\ m.count-1 \in 0 .. m.count-1 /\ i # m.count-1
      BY <1>3
    <3>2. q[i] # z /\ q[i] \in 0 .. m.pairs-1 /\ q[i] # ref.page
      BY <1>5, <1>7, <3>1 DEF Linked
    <3> QED
      BY <1>15, <3>2
  <2>3. m.count > 0 => R2[q[m.count-1]] = Relinked(R[q[m.count-1]], RefAt(R2, ref.page))
    BY <1>14, <2>1
  <2> QED
    <3>1. /\ m.count \in Nat /\ Linked(R, m.count, q, m.head, "QUEUED")
          /\ \A i \in 0 .. m.count-1 : q[i] # ref.page
          /\ RowOK(R2[ref.page]) /\ R2[ref.page].status = "QUEUED" /\ R2[ref.page].next = NoRef
          /\ \A i \in 0 .. m.count-2 : R2[q[i]] = R[q[i]]
          /\ m.count > 0 => R2[q[m.count-1]] = Relinked(R[q[m.count-1]], RefAt(R2, ref.page))
          /\ \A i \in 0 .. m.count : q2[i] = IF i = m.count THEN ref.page ELSE q[i]
      BY <1>3, <1>5, <1>7, <2>1, <2>2, <2>3
    <3> HIDE DEF q2
    <3>2. Linked(R2, m.count+1, q2, IF m.count = 0 THEN RefAt(R2, ref.page) ELSE m.head, "QUEUED")
      BY <3>1, ListAppends, ZenonT(30)
    <3> QED
      BY <2>1, <3>2
<1>17. Linked(R2, m2.fcount, s2, m2.free, "FREE") /\ s2 \in Lists(m2, m2.fcount)
       /\ \A i \in 0 .. m2.fcount-1 : s2[i] \in 0 .. m.pairs-1
  <2>1. CASE m.fcount > 0
    <3>1. /\ Linked(R, m.fcount-1, [i \in 0 .. m.fcount-2 |-> s[i+1]], R[s[0]].next, "FREE")
          /\ \A i \in 0 .. m.fcount-2 : s[i+1] # s[0]
      <4>1. m.fcount \in Nat /\ Linked(R, m.fcount, s, m.free, "FREE")
        BY <1>3, <1>7
      <4> QED
        BY <2>1, <4>1, ListPops
    <3>2. s2 = [i \in 0 .. m.fcount-2 |-> s[i+1]] /\ m2.fcount = m.fcount-1 /\ m2.free = R[s[0]].next
          /\ ref.page = s[0]
      BY <1>5, <1>9, <2>1
    <3>3. \A i \in 0 .. m.fcount-2 : i+1 \in 0 .. m.fcount-1 /\ s2[i] = s[i+1]
      BY <1>3, <3>2
    <3>4. \A i \in 0 .. m.fcount-2 : s2[i] \in 0 .. m.pairs-1 /\ R2[s2[i]] = R[s2[i]]
      <4> SUFFICES ASSUME NEW i \in 0 .. m.fcount-2 PROVE s2[i] \in 0 .. m.pairs-1 /\ R2[s2[i]] = R[s2[i]]
        OBVIOUS
      <4>1. i+1 \in 0 .. m.fcount-1 /\ s2[i] = s[i+1] /\ s[i+1] \in 0 .. m.pairs-1
        BY <1>7, <3>3
      <4>2. m.count > 0 => z # s[i+1]
        <5>1. m.count > 0 => m.count-1 \in 0 .. m.count-1
          BY <1>3
        <5> QED
          BY <1>6, <4>1, <5>1
      <4> QED
        BY <1>15, <3>1, <3>2, <4>1, <4>2
    <3>5. Linked(R2, m2.fcount, s2, m2.free, "FREE")
      <4>1. m.fcount-1 \in Nat /\ (m.fcount-1)-1 = m.fcount-2
        BY <1>3, <2>1
      <4>2. /\ m2.fcount \in Nat /\ Linked(R, m2.fcount, s2, m2.free, "FREE")
            /\ \A i \in 0 .. m2.fcount-1 : R2[s2[i]] = R[s2[i]]
        BY <3>1, <3>2, <3>4, <4>1
      <4> HIDE DEF s2
      <4> QED
        BY <4>2, ListKeeps
    <3>6. s2 \in [0 .. m.fcount-2 -> 0 .. m.pairs-1]
      BY <3>2, <3>4
    <3>7. m2.pairs = m.pairs /\ m2.fcount-1 = m.fcount-2
      BY <1>3, <1>9, <2>1
    <3> QED
      BY <3>4, <3>5, <3>6, <3>7 DEF Lists
  <2>2. CASE m.fcount = 0
    <3>1. s2 = s /\ m2.fcount = 0 /\ m2.free = m.free
      BY <1>3, <1>9, <2>2
    <3>3. 0 .. 0-1 = {}
      OBVIOUS
    <3>2. Linked(R2, 0, s, m.free, "FREE")
      <4>1. Linked(R, 0, s, m.free, "FREE") /\ 0 \in Nat /\ \A i \in 0 .. 0-1 : R2[s[i]] = R[s[i]]
        BY <1>7, <2>2, <3>3
      <4> QED
        BY <4>1, ListKeeps
    <3>4. s \in [0 .. 0-1 -> 0 .. m2.pairs-1]
      BY <1>7, <2>2, <3>3
    <3> QED
      BY <3>1, <3>2, <3>3, <3>4 DEF Lists
  <2> HIDE DEF s2
  <2> QED
    BY <1>3, <2>1, <2>2
<1>18. q2 \in Lists(m2, m2.count)
  <2>1. ASSUME NEW i \in 0 .. m.count PROVE q2[i] \in 0 .. m2.pairs-1
    <3>1. i # m.count => i \in 0 .. m.count-1
      BY <1>3
    <3>2. i # m.count => q[i] \in 0 .. m.pairs-1
      BY <1>7, <3>1
    <3> QED
      BY <1>10, <3>2
  <2>2. m2.count-1 = m.count
    BY <1>3, <1>9
  <2> QED
    BY <2>1, <2>2 DEF Lists
<1>19. ref = RefAt(R2, q2[m2.count-1]) /\ m2.count # 0
  BY <1>3, <1>9, <1>16
<1>20. m2.format > 34 => \A p \in 0 .. m2.pairs-1 :
         (\E i \in 0 .. m2.count-1 : q2[i] = p) \/ (\E i \in 0 .. m2.fcount-1 : s2[i] = p)
  <2> SUFFICES ASSUME m.format > 34, NEW p \in 0 .. m2.pairs-1
               PROVE  (\E i \in 0 .. m2.count-1 : q2[i] = p) \/ (\E i \in 0 .. m2.fcount-1 : s2[i] = p)
    BY <1>9
  <2>1. CASE p = ref.page
    <3>1. m.count \in 0 .. m2.count-1 /\ q2[m.count] = p
      BY <1>3, <1>9, <2>1
    <3> QED
      BY <3>1
  <2>2. CASE p # ref.page
    <3>1. p \in 0 .. m.pairs-1
      BY <1>3, <1>5, <1>9, <2>2
    <3>2. CASE \E i \in 0 .. m.count-1 : q[i] = p
      <4>1. PICK i \in 0 .. m.count-1 : q[i] = p
        BY <3>2
      <4>2. i \in 0 .. m2.count-1 /\ q2[i] = p
        BY <1>3, <1>9, <4>1
      <4> QED
        BY <4>2
    <3>3. CASE \E i \in 0 .. m.fcount-1 : s[i] = p
      <4>1. PICK i \in 0 .. m.fcount-1 : s[i] = p
        BY <3>3
      <4>2. m.fcount > 0 /\ i # 0
        BY <1>3, <1>5, <2>2, <4>1
      <4>3. /\ s2 = [j \in 0 .. m.fcount-2 |-> s[j+1]]
            /\ m2.fcount-1 = m.fcount-2
            /\ i-1 \in 0 .. m.fcount-2
            /\ (i-1)+1 = i
        <5>1. m2.fcount-1 = m.fcount-2 /\ i-1 \in 0 .. m.fcount-2 /\ (i-1)+1 = i
          BY <1>3, <1>9, <4>1, <4>2
        <5> QED
          BY <4>2, <5>1
      <4>4. i-1 \in 0 .. m2.fcount-1 /\ s2[i-1] = p
        BY <4>1, <4>3
      <4> QED
        BY <4>4
    <3> QED
      BY <1>7, <3>1, <3>2, <3>3
  <2> QED
    BY <2>1, <2>2
<1>21. Shape(m2, R2, q2, s2)
  <2>1. m2.format = 34 => m2.fcount = 0
    BY <1>3, <1>7, <1>9
  <2>2. Linked(R2, m2.count, q2, m2.head, "QUEUED")
    BY <1>9, <1>16
  <2> HIDE DEF q2, s2
  <2> QED
    BY <1>9, <1>17, <1>18, <1>19, <1>20, <2>1, <2>2 DEF Shape
<1>22. Moves(c, m, R, q, m2, R2, q2)
  <2>1. \A i \in 0 .. m.count-1 : Same(R2, q2[i], R, q[i])
    <3> SUFFICES ASSUME NEW i \in 0 .. m.count-1 PROVE Same(R2, q2[i], R, q[i])
      OBVIOUS
    <3>1. i \in 0 .. m.count /\ i # m.count /\ q2[i] = q[i]
      BY <1>3
    <3>2. q[i] \in 0 .. m.pairs-1 /\ q[i] # ref.page /\ RowOK(R[q[i]])
      BY <1>5, <1>7 DEF Linked
    <3>3. CASE q[i] = z
      <4>1. m.count > 0
        BY <1>3
      <4>2. R2[q[i]] = Relinked(R[q[i]], ref)
        BY <1>14, <3>3, <4>1
      <4> QED
        BY <3>1, <3>2, <4>2 DEF Same, Relinked, RowOK
    <3>4. CASE q[i] # z
      <4>1. R2[q[i]] = R[q[i]]
        BY <1>15, <3>2, <3>4
      <4> QED
        BY <3>1, <4>1 DEF Same
    <3> QED
      BY <3>3, <3>4
  <2>2. R2[q2[m.count]].gen = m.gen /\ R2[q2[m.count]].left = c.arg
    <3>1. m.count \in 0 .. m.count /\ q2[m.count] = ref.page
      BY <1>3
    <3> QED
      BY <1>13, <3>1 DEF Queued
  <2> QED
    BY <1>9, <2>1, <2>2 DEF Moves
<1>23. Moved(f, c, m2, R2)
  BY <1>2, <1>21, <1>22 DEF Moved, m, R
<1> QED
  BY <1>11, <1>17, <1>18, <1>21, <1>23 DEF Shaped, m2

\* Nor with the segments left, or the generations, of the rows on it.
LEMMA ListIgnores ==
  ASSUME NEW R, NEW R2, NEW n \in Nat, NEW q, NEW first, NEW status,
         Linked(R, n, q, first, status),
         \A i \in 0 .. n-1 : /\ RowOK(R2[q[i]]) /\ R2[q[i]].inc = R[q[i]].inc
                             /\ R2[q[i]].status = R[q[i]].status /\ R2[q[i]].next = R[q[i]].next
  PROVE  Linked(R2, n, q, first, status)
<1>1. \A i \in 0 .. n : Link(R2, q, n, i) = Link(R, q, n, i)
  BY DEF Link, RefAt
<1>2. 0 \in 0 .. n /\ \A i \in 0 .. n-1 : i + 1 \in 0 .. n
  OBVIOUS
<1> QED
  BY <1>1, <1>2 DEF Linked

\* Nothing on a list is out of the range of an empty one.
LEMMA EmptyList ==
  ASSUME NEW R, NEW q, NEW status
  PROVE  Linked(R, 0, q, NoRef, status) /\ \A i \in 0 .. 0-1 : FALSE
BY DEF Linked, Link

Drops(row, n) == [row EXCEPT !.left = @ - n]

\* The head, and what a reclaim step writes to it.
LEMMA ReclaimTakes ==
  ASSUME NEW f, NEW c, Held(f), Feasible(f, c), c.kind = "reclaim",
         NEW q, NEW s, Shape(Meta(f), Rows(f), q, s)
  PROVE  LET m   == Meta(f)
             row == Rows(f)[q[0]]
             ch  == Changes(f, c)
             m2  == PlanOf(f, c).meta
         IN  /\ m.count > 0 /\ m.head.page = q[0] /\ m.head = RefAt(Rows(f), q[0])
             /\ RowOK(row) /\ row.status = "QUEUED" /\ q[0] \in 0 .. m.pairs-1
             /\ row = Payload(f, m.head.page)
             /\ c.arg \in Nat /\ c.arg > 0
             /\ row.left > c.arg => /\ DOMAIN ch = {q[0]} /\ ch[q[0]] = Drops(row, c.arg) /\ m2 = m
             /\ row.left <= c.arg /\ (m.format = 34 \/ (m.format >= 37 /\ m.count = 1)) => DOMAIN ch = {}
             /\ row.left <= c.arg /\ m.format = 34 => m2 = Dequeued(m, row)
             /\ row.left <= c.arg /\ m.format >= 37 /\ m.count = 1 =>
                  m2 = [Dequeued(m, row) EXCEPT !.free = NoRef, !.fcount = 0, !.pairs = 0]
             /\ row.left <= c.arg /\ m.format # 34 /\ ~(m.format >= 37 /\ m.count = 1) =>
                  /\ DOMAIN ch = {q[0]} /\ ch[q[0]] = Freed(row.inc, m.free)
                  /\ m2 = [Dequeued(m, row) EXCEPT !.free = m.head, !.fcount = @ + 1]
<1> DEFINE m == Meta(f)
           row == Rows(f)[q[0]]
<1>1. MetaOK(m) /\ m.count > 0 /\ c.arg \in Budgets
  BY DEF Held, Feasible, NoCall, Call
<1>2. c.arg \in Nat /\ c.arg > 0 /\ m.count \in Nat
  BY <1>1, BudgetsAssumption DEF MetaOK
<1>3. /\ q[0] \in 0 .. m.pairs-1 /\ m.head.page = q[0] /\ m.head = RefAt(Rows(f), q[0])
  BY <1>1, Ends
<1>4. row = Payload(f, m.head.page)
  BY <1>1, <1>3, RowsRead
<1>5. RowOK(row) /\ row.status = "QUEUED" /\ row.left \in Nat
  <2>1. 0 \in 0 .. m.count-1
    BY <1>1, <1>2
  <2> QED
    BY <2>1 DEF Shape, Linked, RowOK
<1> HIDE DEF row
<1>6. Changes(f, c) = IF row.left > c.arg THEN [p \in {m.head.page} |-> Drops(row, c.arg)]
                      ELSE IF m.format = 34 \/ (m.format >= 37 /\ m.count = 1) THEN <<>>
                      ELSE [p \in {m.head.page} |-> Freed(row.inc, m.free)]
  BY <1>4 DEF Changes, Drained, Drops
<1>7. PlanOf(f, c) = IF row.left > c.arg THEN PartialPlan(f, m, row, c.arg) ELSE FinishedPlan(f, m, row)
  BY <1>4 DEF PlanOf, ReclaimPlan
<1>8. /\ row.left > c.arg => /\ DOMAIN Changes(f, c) = {q[0]} /\ Changes(f, c)[q[0]] = Drops(row, c.arg)
                             /\ PlanOf(f, c).meta = m
      /\ ~(row.left > c.arg) /\ (m.format = 34 \/ (m.format >= 37 /\ m.count = 1)) => DOMAIN Changes(f, c) = {}
      /\ ~(row.left > c.arg) /\ m.format = 34 => PlanOf(f, c).meta = Dequeued(m, row)
      /\ ~(row.left > c.arg) /\ m.format >= 37 /\ m.count = 1 =>
           PlanOf(f, c).meta = [Dequeued(m, row) EXCEPT !.free = NoRef, !.fcount = 0, !.pairs = 0]
      /\ ~(row.left > c.arg) /\ m.format # 34 /\ ~(m.format >= 37 /\ m.count = 1) =>
           /\ DOMAIN Changes(f, c) = {q[0]} /\ Changes(f, c)[q[0]] = Freed(row.inc, m.free)
           /\ PlanOf(f, c).meta = [Dequeued(m, row) EXCEPT !.free = m.head, !.fcount = @ + 1]
  <2> HIDE DEF m
  <2> QED
    BY <1>3, <1>6, <1>7 DEF PartialPlan, FinishedPlan, EmptyPlan, FreePlan, Plan
<1>9. ~(row.left > c.arg) <=> row.left <= c.arg
  BY <1>2, <1>5
<1> HIDE DEF m
<1> QED
  BY <1>1, <1>2, <1>3, <1>4, <1>5, <1>8, <1>9 DEF m, row

LEMMA ReclaimCommits ==
  ASSUME NEW f, NEW c, Held(f), Feasible(f, c), c.kind = "reclaim",
         NEW R2, Overlaid(f, c, PlanOf(f, c).meta, R2)
  PROVE  /\ Commits(f, c, PlanOf(f, c).meta) /\ Shaped(PlanOf(f, c).meta, R2)
         /\ Moved(f, c, PlanOf(f, c).meta, R2)
<1> DEFINE m == Meta(f)
           R == Rows(f)
           ch == Changes(f, c)
           m2 == PlanOf(f, c).meta
<1>1. MetaOK(m) /\ \E q \in Lists(m, m.count), s \in Lists(m, m.fcount) : Shape(m, R, q, s)
  BY DEF Held, Shaped
<1>2. PICK q, s : Shape(m, R, q, s)
  BY <1>1
<1> DEFINE row == R[q[0]]
<1>3. /\ m.count \in Nat /\ m.fcount \in Nat /\ m.pairs \in Nat /\ m.inc \in Nat /\ m.inc > 0 /\ m.gen \in Nat
      /\ m.format \in {34, 35, 37, 38} /\ 0 .. m.pairs-1 \subseteq Page
      /\ m = [format |-> m.format, gen |-> m.gen, head |-> m.head, tail |-> m.tail,
              count |-> m.count, free |-> m.free, fcount |-> m.fcount, pairs |-> m.pairs,
              inc |-> m.inc]
  BY <1>1 DEF MetaOK
<1>4. \A p \in 0 .. m.pairs-1 : p \in Page /\ p \in Nat /\ R[p] = Payload(f, p)
  BY <1>1, RowsRead
<1>5. /\ m.count > 0 /\ m.head = RefAt(R, q[0]) /\ RowOK(row) /\ row.status = "QUEUED"
      /\ q[0] \in 0 .. m.pairs-1 /\ c.arg \in Nat /\ c.arg > 0
      /\ row.left > c.arg => DOMAIN ch = {q[0]} /\ ch[q[0]] = Drops(row, c.arg) /\ m2 = m
      /\ row.left <= c.arg /\ (m.format = 34 \/ (m.format >= 37 /\ m.count = 1)) => DOMAIN ch = {}
      /\ row.left <= c.arg /\ m.format = 34 => m2 = Dequeued(m, row)
      /\ row.left <= c.arg /\ m.format >= 37 /\ m.count = 1 =>
           m2 = [Dequeued(m, row) EXCEPT !.free = NoRef, !.fcount = 0, !.pairs = 0]
      /\ row.left <= c.arg /\ m.format # 34 /\ ~(m.format >= 37 /\ m.count = 1) =>
           /\ DOMAIN ch = {q[0]} /\ ch[q[0]] = Freed(row.inc, m.free)
           /\ m2 = [Dequeued(m, row) EXCEPT !.free = m.head, !.fcount = @ + 1]
  BY <1>2, ReclaimTakes
<1>6. /\ m.tail = RefAt(R, q[m.count-1])
      /\ \A i \in 0 .. m.count-1, j \in 0 .. m.fcount-1 : q[i] # s[j]
  BY <1>1, <1>2, <1>5, Ends
<1>7. /\ q \in [0 .. m.count-1 -> 0 .. m.pairs-1] /\ s \in [0 .. m.fcount-1 -> 0 .. m.pairs-1]
      /\ Linked(R, m.count, q, m.head, "QUEUED") /\ Linked(R, m.fcount, s, m.free, "FREE")
      /\ m.format > 34 => \A p \in 0 .. m.pairs-1 :
           (\E i \in 0 .. m.count-1 : q[i] = p) \/ (\E i \in 0 .. m.fcount-1 : s[i] = p)
      /\ m.format = 34 => m.fcount = 0
  BY <1>2 DEF Shape, Lists
<1>8. \A p \in 0 .. m2.pairs-1 : R2[p] = IF p \in DOMAIN ch THEN ch[p] ELSE Payload(f, p)
  BY DEF Overlaid
<1>9. \A i \in 0 .. m.count-1 : RowOK(R[q[i]]) /\ R[q[i]].status = "QUEUED" /\ q[i] \in 0 .. m.pairs-1
  BY <1>7 DEF Linked
<1>10. m.format = Meta(f).format /\ m.pairs = Meta(f).pairs /\ ch = Changes(f, c) /\ row.left \in Nat
  BY <1>5 DEF RowOK
<1> DEFINE q2 == [i \in 0 .. m.count-2 |-> q[i+1]]
           s2 == [i \in 0 .. m.fcount |-> IF i = 0 THEN q[0] ELSE s[i-1]]
<1> HIDE DEF m, R, ch, m2
<1>11. Linked(R, m.count-1, q2, row.next, "QUEUED") /\ \A i \in 0 .. m.count-2 : q[i+1] # q[0]
  <2>1. m.count \in Nat /\ m.count > 0 /\ Linked(R, m.count, q, m.head, "QUEUED")
    BY <1>3, <1>5, <1>7
  <2> QED
    BY <2>1, ListPops
<1>12. \A i \in 0 .. m.count-2 : i+1 \in 0 .. m.count-1 /\ q2[i] = q[i+1] /\ q2[i] \in 0 .. m.pairs-1
  <2> SUFFICES ASSUME NEW i \in 0 .. m.count-2
               PROVE  i+1 \in 0 .. m.count-1 /\ q2[i] = q[i+1] /\ q2[i] \in 0 .. m.pairs-1
    OBVIOUS
  <2>1. i+1 \in 0 .. m.count-1 /\ q2[i] = q[i+1]
    BY <1>3
  <2> QED
    BY <1>9, <2>1
<1>13. q2 \in [0 .. m.count-2 -> 0 .. m.pairs-1]
  BY <1>12
<1>14. m.count # 1 => m.tail = RefAt(R, q2[m.count-2]) /\ m.count-2 \in 0 .. m.count-2
  <2>1. m.count # 1 => m.count-2 \in 0 .. m.count-2 /\ (m.count-2)+1 = m.count-1
    BY <1>3, <1>5
  <2> QED
    BY <1>6, <1>12, <2>1
<1>15. /\ m.count = 1 => 0 .. m.count-2 = {}
       /\ (m.count-1)-1 = m.count-2
  BY <1>3
<1>16. CASE row.left > c.arg
  <2>1. DOMAIN ch = {q[0]} /\ ch[q[0]] = Drops(row, c.arg) /\ m2 = m
    BY <1>5, <1>16
  <2>2. Commits(f, c, m2)
    BY <1>1, <1>3, <1>5, <1>10, <2>1 DEF Commits, m
  <2>3. \A p \in 0 .. m.pairs-1 :
          R2[p] = IF p = q[0] THEN Drops(row, c.arg) ELSE R[p]
    BY <1>4, <1>8, <2>1
  <2>4. \A p \in 0 .. m.pairs-1 : /\ RowOK(R[p]) => RowOK(R2[p])
                                  /\ RowOK(R[p]) => R2[p].inc = R[p].inc /\ R2[p].status = R[p].status
                                                    /\ R2[p].next = R[p].next
    <3>1. RowOK(Drops(row, c.arg)) /\ Drops(row, c.arg).inc = row.inc
          /\ Drops(row, c.arg).status = row.status /\ Drops(row, c.arg).next = row.next
      BY <1>5, <1>10, <1>16 DEF RowOK, Drops
    <3> QED
      BY <2>3, <3>1
  <2>5. Linked(R2, m.count, q, m.head, "QUEUED")
    <3>1. \A i \in 0 .. m.count-1 : /\ RowOK(R2[q[i]]) /\ R2[q[i]].inc = R[q[i]].inc
                             /\ R2[q[i]].status = R[q[i]].status /\ R2[q[i]].next = R[q[i]].next
      BY <1>9, <2>4
    <3> QED
      <4>1. /\ m.count \in Nat /\ Linked(R, m.count, q, m.head, "QUEUED")
            /\ \A i \in 0 .. m.count-1 :
                  /\ RowOK(R2[q[i]]) /\ R2[q[i]].inc = R[q[i]].inc
                  /\ R2[q[i]].status = R[q[i]].status /\ R2[q[i]].next = R[q[i]].next
        BY <1>3, <1>7, <3>1
      <4> QED
        BY <4>1, ListIgnores
  <2>6. Linked(R2, m.fcount, s, m.free, "FREE")
    <3>1. \A i \in 0 .. m.fcount-1 : s[i] \in 0 .. m.pairs-1 /\ RowOK(R[s[i]])
      BY <1>7 DEF Linked
    <3>2. \A i \in 0 .. m.fcount-1 : /\ RowOK(R2[s[i]]) /\ R2[s[i]].inc = R[s[i]].inc
                             /\ R2[s[i]].status = R[s[i]].status /\ R2[s[i]].next = R[s[i]].next
      BY <2>4, <3>1
    <3> QED
      <4>1. /\ m.fcount \in Nat /\ Linked(R, m.fcount, s, m.free, "FREE")
            /\ \A i \in 0 .. m.fcount-1 :
                  /\ RowOK(R2[s[i]]) /\ R2[s[i]].inc = R[s[i]].inc
                  /\ R2[s[i]].status = R[s[i]].status /\ R2[s[i]].next = R[s[i]].next
        BY <1>3, <1>7, <3>2
      <4> QED
        BY <4>1, ListIgnores
  <2>7. RefAt(R2, q[m.count-1]) = RefAt(R, q[m.count-1])
    <3>1. m.count-1 \in 0 .. m.count-1
      BY <1>3, <1>5
    <3> QED
      BY <1>9, <2>4, <3>1 DEF RefAt
  <2>8. Shape(m, R2, q, s)
    BY <1>2, <1>6, <2>5, <2>6, <2>7 DEF Shape
  <2>9. q \in Lists(m, m.count) /\ s \in Lists(m, m.fcount)
    BY <1>2 DEF Shape
  <2>10. Moves(c, m, R, q, m2, R2, q)
    <3>1. 0 \in 0 .. m.count-1
      BY <1>3, <1>5
    <3>2. R2[q[0]].gen = R[q[0]].gen /\ R2[q[0]].left = R[q[0]].left - c.arg
      BY <1>5, <2>3 DEF RowOK, Drops
    <3>3. \A i \in 1 .. m.count-1 : Same(R2, q[i], R, q[i])
      <4> SUFFICES ASSUME NEW i \in 1 .. m.count-1 PROVE Same(R2, q[i], R, q[i])
        OBVIOUS
      <4>1. i \in 0 .. m.count-1 /\ i # 0
        BY <1>3
      <4>2. q[i] # q[0] /\ q[i] \in 0 .. m.pairs-1
        BY <1>7, <3>1, <4>1 DEF Linked
      <4> QED
        BY <2>3, <4>2 DEF Same
    <3> QED
      BY <1>5, <1>16, <2>1, <3>2, <3>3 DEF Moves
  <2>11. Moved(f, c, m2, R2)
    BY <1>2, <2>1, <2>8, <2>10 DEF Moved, m, R
  <2> QED
    BY <2>1, <2>2, <2>8, <2>9, <2>11 DEF Shaped, m2
<1>17. CASE row.left <= c.arg /\ m.format = 34
  <2>1. DOMAIN ch = {} /\ m2 = Dequeued(m, row)
    BY <1>5, <1>17
  <2>2. /\ m2.format = m.format /\ m2.gen = m.gen /\ m2.head = row.next /\ m2.count = m.count-1
        /\ m2.tail = (IF m.count = 1 THEN NoRef ELSE m.tail)
        /\ m2.free = m.free /\ m2.fcount = m.fcount /\ m2.pairs = m.pairs /\ m2.inc = m.inc
        /\ m2 = [format |-> m2.format, gen |-> m2.gen, head |-> m2.head, tail |-> m2.tail,
               count |-> m2.count, free |-> m2.free, fcount |-> m2.fcount, pairs |-> m2.pairs,
               inc |-> m2.inc]
    BY <1>3, <2>1 DEF Dequeued
  <2>3. MetaOK(m2)
    BY <1>3, <1>5, <2>2 DEF MetaOK
  <2>4. Commits(f, c, m2)
    BY <1>3, <1>10, <2>1, <2>2, <2>3 DEF Commits
  <2>5. \A p \in 0 .. m.pairs-1 : R2[p] = R[p]
    BY <1>4, <1>8, <2>1, <2>2
  <2>6. Linked(R2, m2.count, q2, m2.head, "QUEUED")
    <3>1. m.count-1 \in Nat /\ \A i \in 0 .. (m.count-1)-1 : R2[q2[i]] = R[q2[i]]
      BY <1>3, <1>5, <1>12, <1>15, <2>5
    <3> HIDE DEF q2, row
    <3> QED
      BY <1>11, <2>2, <3>1, ListKeeps
  <2>7. Linked(R2, m.fcount, s, m.free, "FREE")
    <3>1. /\ m.fcount \in Nat /\ Linked(R, m.fcount, s, m.free, "FREE")
          /\ \A i \in 0 .. m.fcount-1 : R2[s[i]] = R[s[i]]
      BY <1>3, <1>7, <2>5
    <3> QED
      BY <3>1, ListKeeps
  <2>8. m2.tail = IF m2.count = 0 THEN NoRef ELSE RefAt(R2, q2[m2.count-1])
    BY <1>3, <1>12, <1>14, <1>15, <2>2, <2>5 DEF RefAt
  <2>9. q2 \in Lists(m2, m2.count) /\ s \in Lists(m2, m2.fcount)
    BY <1>7, <1>13, <1>15, <2>2 DEF Lists
  <2>10. Shape(m2, R2, q2, s)
    BY <1>7, <1>17, <2>2, <2>6, <2>7, <2>8, <2>9 DEF Shape
  <2>11. Moves(c, m, R, q, m2, R2, q2)
    <3>1. \A i \in 0 .. m.count-2 : R2[q2[i]] = R[q[i+1]]
      BY <1>12, <2>5
    <3>2. \A i \in 0 .. m.count-2 : Same(R2, q2[i], R, q[i+1])
      BY <3>1 DEF Same
    <3>3. ~(R[q[0]].left > c.arg)
      BY <1>5, <1>10, <1>17
    <3> HIDE DEF q2
    <3> QED
      BY <1>5, <2>2, <3>2, <3>3 DEF Moves
  <2>12. Moved(f, c, m2, R2)
    BY <1>2, <2>10, <2>11 DEF Moved, m, R
  <2> QED
    BY <2>4, <2>9, <2>10, <2>12 DEF Shaped, m2
<1>18. CASE row.left <= c.arg /\ m.format >= 37 /\ m.count = 1
  <2>1. DOMAIN ch = {} /\ m2 = [Dequeued(m, row) EXCEPT !.free = NoRef, !.fcount = 0, !.pairs = 0]
    BY <1>5, <1>18
  <2>2. /\ m2.format = m.format /\ m2.gen = m.gen /\ m2.head = row.next /\ m2.count = 0
        /\ m2.tail = NoRef /\ m2.free = NoRef /\ m2.fcount = 0 /\ m2.pairs = 0 /\ m2.inc = m.inc
        /\ m2 = [format |-> m2.format, gen |-> m2.gen, head |-> m2.head, tail |-> m2.tail,
               count |-> m2.count, free |-> m2.free, fcount |-> m2.fcount, pairs |-> m2.pairs,
               inc |-> m2.inc]
    <3>1. PICK d : d = Dequeued(m, row)
      OBVIOUS
    <3>2. /\ d.format = m.format /\ d.gen = m.gen /\ d.head = row.next /\ d.count = m.count-1
          /\ d.tail = (IF m.count = 1 THEN NoRef ELSE m.tail)
          /\ d.free = m.free /\ d.fcount = m.fcount /\ d.pairs = m.pairs /\ d.inc = m.inc
          /\ d = [format |-> d.format, gen |-> d.gen, head |-> d.head, tail |-> d.tail,
                  count |-> d.count, free |-> d.free, fcount |-> d.fcount, pairs |-> d.pairs,
                  inc |-> d.inc]
      BY <1>3, <3>1 DEF Dequeued
    <3>3. m2 = [d EXCEPT !.free = NoRef, !.fcount = 0, !.pairs = 0]
      BY <2>1, <3>1
    <3>4. d.count = 0 /\ d.tail = NoRef
      BY <1>18, <3>2
    <3> HIDE DEF row
    <3> QED
      BY <3>2, <3>3, <3>4
  <2>3. MetaOK(m2)
    BY <1>3, <2>2 DEF MetaOK
  <2>4. Commits(f, c, m2)
    BY <1>18, <1>3, <1>10, <2>1, <2>2, <2>3 DEF Commits
  <2>5. row.next = NoRef
    <3>1. Linked(R, 0, q2, row.next, "QUEUED")
      BY <1>11, <1>18
    <3> QED
      BY <3>1 DEF Linked, Link
  <2>6. Linked(R2, 0, q2, NoRef, "QUEUED") /\ Linked(R2, 0, q2, NoRef, "FREE")
    BY EmptyList
  <2>7. q2 \in Lists(m2, 0)
    BY <1>15, <1>18, <2>2 DEF Lists
  <2>8. \A p \in 0 .. m2.pairs-1 : FALSE
    BY <2>2
  <2>9. Shape(m2, R2, q2, q2)
    BY <1>18, <2>2, <2>5, <2>6, <2>7, <2>8 DEF Shape
  <2>10. Moves(c, m, R, q, m2, R2, q2)
    <3>1. \A i \in 0 .. m.count-2 : R2[q2[i]] = R[q[i+1]]
      BY <1>15, <1>18
    <3>2. \A i \in 0 .. m.count-2 : Same(R2, q2[i], R, q[i+1])
      BY <3>1 DEF Same
    <3>3. ~(R[q[0]].left > c.arg)
      BY <1>5, <1>10, <1>18
    <3> HIDE DEF q2
    <3> QED
      BY <1>5, <1>18, <2>2, <3>2, <3>3 DEF Moves
  <2>11. Moved(f, c, m2, R2)
    BY <1>2, <2>9, <2>10 DEF Moved, m, R
  <2> QED
    BY <2>2, <2>4, <2>7, <2>9, <2>11 DEF Shaped, m2
<1>19. CASE row.left <= c.arg /\ m.format # 34 /\ ~(m.format >= 37 /\ m.count = 1)
  <2>1. DOMAIN ch = {q[0]} /\ ch[q[0]] = Freed(row.inc, m.free)
        /\ m2 = [Dequeued(m, row) EXCEPT !.free = m.head, !.fcount = @ + 1]
    BY <1>5, <1>19
  <2>2. /\ m2.format = m.format /\ m2.gen = m.gen /\ m2.head = row.next /\ m2.count = m.count-1
        /\ m2.tail = (IF m.count = 1 THEN NoRef ELSE m.tail)
        /\ m2.free = m.head /\ m2.fcount = m.fcount+1 /\ m2.pairs = m.pairs /\ m2.inc = m.inc
        /\ m2 = [format |-> m2.format, gen |-> m2.gen, head |-> m2.head, tail |-> m2.tail,
               count |-> m2.count, free |-> m2.free, fcount |-> m2.fcount, pairs |-> m2.pairs,
               inc |-> m2.inc]
    BY <1>3, <2>1 DEF Dequeued
  <2>3. MetaOK(m2)
    BY <1>3, <1>5, <2>2 DEF MetaOK
  <2>4. Commits(f, c, m2)
    BY <1>3, <1>5, <1>10, <2>1, <2>2, <2>3 DEF Commits
  <2>5. \A p \in 0 .. m.pairs-1 : R2[p] = IF p = q[0] THEN Freed(row.inc, m.free) ELSE R[p]
    BY <1>4, <1>8, <2>1, <2>2
  <2>6. Linked(R2, m2.count, q2, m2.head, "QUEUED")
    <3>1. m.count-1 \in Nat /\ \A i \in 0 .. (m.count-1)-1 : R2[q2[i]] = R[q2[i]]
      <4>1. m.count-1 \in Nat /\ (m.count-1)-1 = m.count-2
        BY <1>3, <1>5
      <4>2. \A i \in 0 .. m.count-2 : R2[q2[i]] = R[q2[i]]
        <5> HIDE DEF row
        <5> QED
          BY <1>11, <1>12, <2>5
      <4> QED
        BY <4>1, <4>2
    <3> HIDE DEF q2, row
    <3> QED
      BY <1>11, <2>2, <3>1, ListKeeps
  <2>7. /\ RowOK(R2[q[0]]) /\ R2[q[0]].status = "FREE" /\ R2[q[0]].next = m.free
        /\ RefAt(R2, q[0]) = m.head
    BY <1>5, <2>5 DEF Freed, RowOK, RefAt
  <2>8. /\ \A i \in 0 .. m.fcount-1 : R2[s[i]] = R[s[i]]
        /\ \A i \in 0 .. m.fcount-1 : s[i] # q[0]
    <3> SUFFICES ASSUME NEW i \in 0 .. m.fcount-1 PROVE R2[s[i]] = R[s[i]] /\ s[i] # q[0]
      OBVIOUS
    <3>1. s[i] \in 0 .. m.pairs-1 /\ 0 \in 0 .. m.count-1
      BY <1>3, <1>5, <1>7
    <3>2. s[i] # q[0]
      BY <1>6, <3>1
    <3> QED
      BY <2>5, <3>1, <3>2
  <2>9. Linked(R2, m2.fcount, s2, m2.free, "FREE")
    <3>1. Linked(R2, m.fcount, s, m.free, "FREE")
      <4>1. /\ m.fcount \in Nat /\ Linked(R, m.fcount, s, m.free, "FREE")
            /\ \A i \in 0 .. m.fcount-1 : R2[s[i]] = R[s[i]]
        BY <1>3, <1>7, <2>8
      <4> QED
        BY <4>1, ListKeeps
    <3>2. \A i \in 0 .. m.fcount : s2[i] = IF i = 0 THEN q[0] ELSE s[i-1]
      OBVIOUS
    <3> HIDE DEF s2
    <3>3. Linked(R2, m.fcount+1, s2, RefAt(R2, q[0]), "FREE")
      <4>1. /\ m.fcount \in Nat /\ Linked(R2, m.fcount, s, m.free, "FREE")
            /\ \A i \in 0 .. m.fcount-1 : s[i] # q[0]
            /\ RowOK(R2[q[0]]) /\ R2[q[0]].status = "FREE" /\ R2[q[0]].next = m.free
            /\ \A i \in 0 .. m.fcount : s2[i] = IF i = 0 THEN q[0] ELSE s[i-1]
        BY <1>3, <2>7, <2>8, <3>1, <3>2
      <4> QED
        BY <4>1, ListPushes, ZenonT(30)
    <3> QED
      BY <2>2, <2>7, <3>3
  <2>10. m2.tail = IF m2.count = 0 THEN NoRef ELSE RefAt(R2, q2[m2.count-1])
    <3>1. m.count # 1 => R2[q2[m.count-2]] = R[q2[m.count-2]]
      BY <1>11, <1>12, <1>14, <2>5
    <3> HIDE DEF q2
    <3> QED
      BY <1>3, <1>14, <1>15, <2>2, <3>1 DEF RefAt
  <2>11. q2 \in Lists(m2, m2.count)
    BY <1>13, <1>15, <2>2 DEF Lists
  <2>12. s2 \in Lists(m2, m2.fcount)
    <3>1. ASSUME NEW i \in 0 .. m.fcount PROVE s2[i] \in 0 .. m.pairs-1
      <4>1. i # 0 => i-1 \in 0 .. m.fcount-1
        BY <1>3
      <4>2. i # 0 => s[i-1] \in 0 .. m.pairs-1
        BY <1>7, <4>1
      <4> QED
        BY <1>5, <4>2
    <3>2. m2.fcount-1 = m.fcount
      BY <1>3, <2>2
    <3> QED
      BY <2>2, <3>1, <3>2 DEF Lists
  <2>13. \A p \in 0 .. m2.pairs-1 :
           (\E i \in 0 .. m2.count-1 : q2[i] = p) \/ (\E i \in 0 .. m2.fcount-1 : s2[i] = p)
    <3> SUFFICES ASSUME NEW p \in 0 .. m.pairs-1
                 PROVE (\E i \in 0 .. m2.count-1 : q2[i] = p) \/ (\E i \in 0 .. m2.fcount-1 : s2[i] = p)
      BY <2>2
    <3>1. (\E i \in 0 .. m.count-1 : q[i] = p) \/ (\E i \in 0 .. m.fcount-1 : s[i] = p)
      BY <1>3, <1>7, <1>19
    <3>2. CASE p = q[0]
      <4>1. 0 \in 0 .. m2.fcount-1 /\ s2[0] = p
        BY <1>3, <2>2, <3>2
      <4> QED
        BY <4>1
    <3>3. ASSUME NEW i \in 0 .. m.count-1, q[i] = p, p # q[0] PROVE \E j \in 0 .. m2.count-1 : q2[j] = p
      <4>1. i-1 \in 0 .. m2.count-1 /\ i-1 \in 0 .. m.count-2 /\ (i-1)+1 = i
        BY <1>3, <2>2, <3>3
      <4>2. q2[i-1] = q[i]
        BY <4>1
      <4> QED
        BY <3>3, <4>1, <4>2
    <3>4. ASSUME NEW i \in 0 .. m.fcount-1, s[i] = p PROVE \E j \in 0 .. m2.fcount-1 : s2[j] = p
      <4>1. i+1 \in 0 .. m2.fcount-1 /\ i+1 \in 0 .. m.fcount /\ (i+1)-1 = i /\ i+1 # 0
        BY <1>3, <2>2, <3>4
      <4>2. s2[i+1] = s[i]
        BY <4>1
      <4> QED
        BY <3>4, <4>1, <4>2
    <3> QED
      BY <3>1, <3>2, <3>3, <3>4
  <2>14. m2.format >= 37 => m2.count # 0
    BY <1>3, <1>5, <1>19, <2>2
  <2>15. Shape(m2, R2, q2, s2)
    <3> HIDE DEF q2, s2, row
    <3> QED
      BY <1>19, <2>2, <2>6, <2>9, <2>10, <2>11, <2>12, <2>13, <2>14 DEF Shape
  <2>16. Moves(c, m, R, q, m2, R2, q2)
    <3>1. \A i \in 0 .. m.count-2 : R2[q2[i]] = R[q[i+1]]
      <4> HIDE DEF row
      <4> QED
        BY <1>11, <1>12, <2>5
    <3>2. \A i \in 0 .. m.count-2 : Same(R2, q2[i], R, q[i+1])
      BY <3>1 DEF Same
    <3>3. ~(R[q[0]].left > c.arg)
      BY <1>5, <1>10, <1>19
    <3> HIDE DEF q2
    <3> QED
      BY <1>5, <2>2, <3>2, <3>3 DEF Moves
  <2> HIDE DEF q2, s2
  <2>17. Moved(f, c, m2, R2)
    BY <1>2, <2>15, <2>16 DEF Moved, m, R
  <2> QED
    BY <2>4, <2>11, <2>12, <2>15, <2>17 DEF Shaped, m2
<1>20. row.left > c.arg \/ row.left <= c.arg
  BY <1>5, <1>10
<1> QED
  BY <1>16, <1>17, <1>18, <1>19, <1>20 DEF m2

\* An insertion that retires nothing leaves the lists alone.
LEMMA OtherCommits ==
  ASSUME NEW f, NEW c, Held(f), c.kind = "retire", c.arg = 0,
         NEW R2, Overlaid(f, c, PlanOf(f, c).meta, R2)
  PROVE  /\ Commits(f, c, PlanOf(f, c).meta) /\ Shaped(PlanOf(f, c).meta, R2)
         /\ Moved(f, c, PlanOf(f, c).meta, R2)
<1> DEFINE m == Meta(f)
           R == Rows(f)
           m2 == PlanOf(f, c).meta
<1>1. MetaOK(m) /\ \E q \in Lists(m, m.count), s \in Lists(m, m.fcount) : Shape(m, R, q, s)
  BY DEF Held, Shaped
<1>2. PICK q \in Lists(m, m.count), s \in Lists(m, m.fcount) : Shape(m, R, q, s)
  BY <1>1
<1>3. m2 = [m EXCEPT !.gen = @ + 1] /\ DOMAIN Changes(f, c) = {}
  BY DEF PlanOf, RetirePlan, Plan, Changes
<1>4. \A p \in 0 .. m.pairs-1 : p \in Page /\ p \in Nat /\ R[p] = Payload(f, p)
  BY <1>1, RowsRead
<1>5. \A p \in 0 .. m2.pairs-1 :
         R2[p] = IF p \in DOMAIN Changes(f, c) THEN Changes(f, c)[p] ELSE Payload(f, p)
  BY DEF Overlaid
<1>6. m.format = Meta(f).format /\ m.pairs = Meta(f).pairs
  OBVIOUS
<1> HIDE DEF m, R, m2
<1>7. /\ m2.format = m.format /\ m2.gen = m.gen + 1 /\ m2.head = m.head /\ m2.count = m.count
      /\ m2.tail = m.tail /\ m2.free = m.free /\ m2.fcount = m.fcount /\ m2.pairs = m.pairs
      /\ m2.inc = m.inc
      /\ m2 = [format |-> m2.format, gen |-> m2.gen, head |-> m2.head, tail |-> m2.tail,
               count |-> m2.count, free |-> m2.free, fcount |-> m2.fcount, pairs |-> m2.pairs,
               inc |-> m2.inc]
  BY <1>1, <1>3 DEF MetaOK
<1>8. MetaOK(m2) /\ m.pairs \in Nat /\ m.count \in Nat /\ m.fcount \in Nat
  BY <1>1, <1>7 DEF MetaOK
<1>9. Commits(f, c, m2)
  BY <1>3, <1>6, <1>7, <1>8 DEF Commits
<1>10. \A p \in 0 .. m.pairs-1 : R2[p] = R[p]
  BY <1>3, <1>4, <1>5, <1>7
<1>11. q \in [0 .. m.count-1 -> 0 .. m.pairs-1] /\ s \in [0 .. m.fcount-1 -> 0 .. m.pairs-1]
  BY <1>2 DEF Lists
<1>12. /\ Linked(R, m.count, q, m.head, "QUEUED") /\ \A i \in 0 .. m.count-1 : R2[q[i]] = R[q[i]]
       /\ Linked(R, m.fcount, s, m.free, "FREE") /\ \A i \in 0 .. m.fcount-1 : R2[s[i]] = R[s[i]]
  BY <1>2, <1>10, <1>11 DEF Shape
<1>13. Linked(R2, m.count, q, m.head, "QUEUED") /\ Linked(R2, m.fcount, s, m.free, "FREE")
  <2>1. Linked(R2, m.count, q, m.head, "QUEUED")
    BY <1>8, <1>12, ListKeeps
  <2>2. Linked(R2, m.fcount, s, m.free, "FREE")
    <3>1. /\ m.fcount \in Nat /\ Linked(R, m.fcount, s, m.free, "FREE")
          /\ \A i \in 0 .. m.fcount-1 : R2[s[i]] = R[s[i]]
      BY <1>8, <1>12
    <3> QED
      BY <3>1, ListKeeps
  <2> QED
    BY <2>1, <2>2
<1>14. m.count # 0 => RefAt(R2, q[m.count-1]) = RefAt(R, q[m.count-1])
  <2>1. m.count # 0 => m.count-1 \in 0 .. m.count-1
    BY <1>8
  <2> QED
    BY <1>12, <2>1 DEF RefAt
<1>15. q \in Lists(m2, m2.count) /\ s \in Lists(m2, m2.fcount)
  BY <1>7, <1>11 DEF Lists
<1>16. Shape(m2, R2, q, s)
  BY <1>2, <1>7, <1>13, <1>14, <1>15 DEF Shape
<1>17. Moves(c, m, R, q, m2, R2, q)
  <2>1. \A i \in 0 .. m.count-1 : Same(R2, q[i], R, q[i])
    BY <1>12 DEF Same
  <2> QED
    BY <1>7, <2>1 DEF Moves
<1>18. Moved(f, c, m2, R2)
  BY <1>2, <1>16, <1>17 DEF Moved, m, R
<1> QED
  BY <1>9, <1>15, <1>16, <1>18 DEF Shaped, m2

\* The last pair leaves the free list.
LEMMA ShrinkCommits ==
  ASSUME NEW f, NEW c, Held(f), c = Call("shrink", 0), CanShrink(Meta(f)),
         NEW R2, Overlaid(f, c, PlanOf(f, c).meta, R2)
  PROVE  /\ Commits(f, c, PlanOf(f, c).meta) /\ Shaped(PlanOf(f, c).meta, R2)
         /\ Moved(f, c, PlanOf(f, c).meta, R2)
<1> DEFINE m == Meta(f)
           R == Rows(f)
           m2 == PlanOf(f, c).meta
<1>1. MetaOK(m) /\ \E q \in Lists(m, m.count), s \in Lists(m, m.fcount) : Shape(m, R, q, s)
  BY DEF Held, Shaped
<1>2. PICK q \in Lists(m, m.count), s \in Lists(m, m.fcount) : Shape(m, R, q, s)
  BY <1>1
<1>3. /\ m2 = [m EXCEPT !.free = Payload(f, m.free.page).next, !.fcount = @ - 1, !.pairs = @ - 1]
      /\ DOMAIN Changes(f, c) = {}
  BY DEF PlanOf, ShrinkPlan, Plan, Changes, Call
<1>4. \A p \in 0 .. m.pairs-1 : p \in Page /\ p \in Nat /\ R[p] = Payload(f, p)
  BY <1>1, RowsRead
<1>5. \A p \in 0 .. m2.pairs-1 :
         R2[p] = IF p \in DOMAIN Changes(f, c) THEN Changes(f, c)[p] ELSE Payload(f, p)
  BY DEF Overlaid
<1>6. m.format = Meta(f).format /\ m.pairs = Meta(f).pairs
  OBVIOUS
<1>7. m.format = 38 /\ m.pairs > 0 /\ m.fcount > 0 /\ m.free.page = m.pairs-1
  BY DEF CanShrink
<1>8. m.pairs \in Nat /\ m.count \in Nat /\ m.fcount \in Nat /\ 0 .. m.pairs-1 \subseteq Page
  BY <1>1 DEF MetaOK
<1>9. /\ s[0] = m.pairs-1 /\ s[0] \in 0 .. m.pairs-1
      /\ \A i \in 0 .. m.count-1, j \in 0 .. m.fcount-1 : q[i] # s[j]
      /\ m.count > 0 => m.tail = RefAt(R, q[m.count-1])
  BY <1>1, <1>2, <1>7, Ends
<1>10. Payload(f, m.free.page) = R[s[0]]
  BY <1>4, <1>7, <1>9
<1> DEFINE s2 == [i \in 0 .. m.fcount-2 |-> s[i+1]]
<1> HIDE DEF m, R, m2
<1>11. /\ m2.format = m.format /\ m2.gen = m.gen /\ m2.head = m.head /\ m2.count = m.count
       /\ m2.tail = m.tail /\ m2.free = R[s[0]].next /\ m2.fcount = m.fcount-1 /\ m2.pairs = m.pairs-1
       /\ m2.inc = m.inc
       /\ m2 = [format |-> m2.format, gen |-> m2.gen, head |-> m2.head, tail |-> m2.tail,
               count |-> m2.count, free |-> m2.free, fcount |-> m2.fcount, pairs |-> m2.pairs,
               inc |-> m2.inc]
  BY <1>1, <1>3, <1>10 DEF MetaOK
<1>12. /\ m.pairs-1 \in Nat /\ m.fcount-1 \in Nat /\ 0 .. (m.pairs-1)-1 \subseteq 0 .. m.pairs-1
       /\ (m.fcount-1)-1 = m.fcount-2
       /\ \A p \in 0 .. m.pairs-1 : p # m.pairs-1 => p \in 0 .. (m.pairs-1)-1
  BY <1>7, <1>8
<1>13. MetaOK(m2)
  BY <1>1, <1>8, <1>11, <1>12 DEF MetaOK
<1>14. Commits(f, c, m2)
  BY <1>7, <1>3, <1>6, <1>8, <1>11, <1>13 DEF Commits
<1>15. \A p \in 0 .. m2.pairs-1 : R2[p] = R[p]
  BY <1>3, <1>4, <1>5, <1>11, <1>12
<1>16. \A i \in 0 .. m.count-1 : q[i] \in 0 .. m2.pairs-1
  <2> SUFFICES ASSUME NEW i \in 0 .. m.count-1 PROVE q[i] \in 0 .. m2.pairs-1
    OBVIOUS
  <2>1. q[i] \in 0 .. m.pairs-1 /\ 0 \in 0 .. m.fcount-1
    BY <1>2, <1>7, <1>8 DEF Lists
  <2>2. q[i] # s[0]
    BY <1>9, <2>1
  <2> QED
    BY <1>9, <1>11, <1>12, <2>1, <2>2
<1>17. Linked(R, m.fcount-1, s2, R[s[0]].next, "FREE") /\ \A i \in 0 .. m.fcount-2 : s[i+1] # s[0]
  <2>1. m.fcount \in Nat /\ m.fcount > 0 /\ Linked(R, m.fcount, s, m.free, "FREE")
    BY <1>2, <1>7, <1>8 DEF Shape
  <2> QED
    BY <2>1, ListPops
<1>18. \A i \in 0 .. m.fcount-2 : s2[i] \in 0 .. m2.pairs-1 /\ s2[i] = s[i+1] /\ i+1 \in 0 .. m.fcount-1
  <2> SUFFICES ASSUME NEW i \in 0 .. m.fcount-2
               PROVE  s2[i] \in 0 .. m2.pairs-1 /\ s2[i] = s[i+1] /\ i+1 \in 0 .. m.fcount-1
    OBVIOUS
  <2>1. s2[i] = s[i+1] /\ i+1 \in 0 .. m.fcount-1 /\ s[i+1] # s[0]
    BY <1>8, <1>17
  <2>2. s[i+1] \in 0 .. m.pairs-1
    BY <1>2, <2>1 DEF Lists
  <2> QED
    BY <1>9, <1>11, <1>12, <2>1, <2>2
<1>19. /\ Linked(R2, m.count, q, m.head, "QUEUED")
       /\ m.count > 0 => RefAt(R2, q[m.count-1]) = RefAt(R, q[m.count-1])
  <2>1. \A i \in 0 .. m.count-1 : R2[q[i]] = R[q[i]]
    BY <1>15, <1>16
  <2>2. m.count \in Nat /\ Linked(R, m.count, q, m.head, "QUEUED")
    BY <1>2, <1>8 DEF Shape
  <2>3. m.count > 0 => m.count-1 \in 0 .. m.count-1
    BY <1>8
  <2>4. Linked(R2, m.count, q, m.head, "QUEUED")
    BY <2>1, <2>2, ListKeeps
  <2> QED
    BY <2>1, <2>3, <2>4 DEF RefAt
<1>20. Linked(R2, m.fcount-1, s2, R[s[0]].next, "FREE")
  <2>1. /\ m.fcount-1 \in Nat /\ Linked(R, m.fcount-1, s2, R[s[0]].next, "FREE")
        /\ \A i \in 0 .. (m.fcount-1)-1 : R2[s2[i]] = R[s2[i]]
    BY <1>12, <1>15, <1>17, <1>18
  <2> HIDE DEF s2
  <2> QED
    BY <2>1, ListKeeps
<1>21. q \in Lists(m2, m2.count)
  <2>1. q \in [0 .. m.count-1 -> 0 .. m.pairs-1]
    BY <1>2 DEF Lists
  <2> QED
    BY <1>11, <1>16, <2>1 DEF Lists
<1>22. s2 \in Lists(m2, m2.fcount)
  BY <1>11, <1>12, <1>18 DEF Lists
<1>23. \A p \in 0 .. m2.pairs-1 :
         (\E i \in 0 .. m2.count-1 : q[i] = p) \/ (\E i \in 0 .. m2.fcount-1 : s2[i] = p)
  <2> SUFFICES ASSUME NEW p \in 0 .. m2.pairs-1
               PROVE  (\E i \in 0 .. m.count-1 : q[i] = p) \/ (\E i \in 0 .. m.fcount-2 : s2[i] = p)
    BY <1>11, <1>12
  <2>1. p \in 0 .. m.pairs-1 /\ p # s[0]
    BY <1>8, <1>9, <1>11
  <2>2. (\E i \in 0 .. m.count-1 : q[i] = p) \/ (\E i \in 0 .. m.fcount-1 : s[i] = p)
    BY <1>2, <1>7, <2>1 DEF Shape
  <2>3. ASSUME NEW i \in 0 .. m.fcount-1, s[i] = p PROVE \E j \in 0 .. m.fcount-2 : s2[j] = p
    <3>1. i # 0
      BY <2>1, <2>3
    <3>2. i-1 \in 0 .. m.fcount-2 /\ (i-1)+1 = i
      BY <1>8, <3>1
    <3>3. s2[i-1] = s[i]
      BY <3>2
    <3> QED
      BY <2>3, <3>2, <3>3
  <2> QED
    BY <2>2, <2>3
<1>24. m.count # 0
  BY <1>2, <1>7 DEF Shape
<1>25. m.count > 0 /\ m2.format # 34
  BY <1>7, <1>8, <1>11, <1>24
<1>26. Shape(m2, R2, q, s2)
  <2> HIDE DEF s2
  <2> QED
    BY <1>9, <1>11, <1>19, <1>20, <1>21, <1>22, <1>23, <1>24, <1>25 DEF Shape
<1> HIDE DEF s2
<1>27. Moves(c, m, R, q, m2, R2, q)
  <2>1. c.kind = "shrink"
    BY DEF Call
  <2>2. \A i \in 0 .. m.count-1 : Same(R2, q[i], R, q[i])
    BY <1>15, <1>16 DEF Same
  <2> QED
    BY <1>11, <2>1, <2>2 DEF Moves
<1>28. Moved(f, c, m2, R2)
  BY <1>2, <1>26, <1>27 DEF Moved, m, R
<1> QED
  BY <1>14, <1>21, <1>22, <1>26, <1>28 DEF Shaped, m2

\* Every operation commits an image of the same kind.
LEMMA CallCommits ==
  ASSUME NEW f, NEW c, Held(f), Feasible(f, c), c # NoCall,
         NEW R2, Overlaid(f, c, PlanOf(f, c).meta, R2)
  PROVE  /\ Commits(f, c, PlanOf(f, c).meta) /\ Shaped(PlanOf(f, c).meta, R2)
         /\ Moved(f, c, PlanOf(f, c).meta, R2)
<1>1. CASE c.kind = "retire"
  <2>1. c.arg \in OwnerCounts
    <3>1. Call("shrink", 0).kind = "shrink"
      BY DEF Call
    <3> QED
      BY <1>1, <3>1 DEF Feasible
  <2>3. c.arg \in Nat
    BY <2>1, OwnerCountsAssumption
  <2>2. c.arg = 0 \/ c.arg > 0
    BY <2>3
  <2> QED
    BY <1>1, <2>2, RetireCommits, OtherCommits
<1>2. CASE c.kind = "reclaim"
  BY <1>2, ReclaimCommits
<1>3. CASE c = Call("shrink", 0) /\ CanShrink(Meta(f))
  BY <1>3, ShrinkCommits
<1> QED
  BY <1>1, <1>2, <1>3 DEF Feasible

-----------------------------------------------------------------------------
(* Copies *)

LEMMA WriteHides ==
  ASSUME NEW e \in Nat, NEW c, NEW s \in Slot, NEW r,
         c = [t \in Slot |-> c[t]], \A t \in Slot : c[t].epoch \in Nat,
         HasCommitted(c, e), s = 1 - NewestSlot(c, e), r.epoch = e + 1
  PROVE  LET c2 == [c EXCEPT ![s] = r]
             n  == NewestSlot(c, e)
         IN  NewestSlot(c2, e) = n /\ c2[n] = c[n] /\ n \in Slot
BY DEF Slot, HasCommitted, NewestSlot, Committed

LEMMA AheadReads ==
  ASSUME NEW e \in Nat, NEW c, NEW s \in Slot, \A t \in Slot : c[t].epoch \in Nat,
         c[s].epoch = e + 1, c[1-s].epoch <= e
  PROVE  HasCommitted(c, e+1) /\ ReadPage(c, e+1) = c[s].data
BY DEF Slot, HasCommitted, NewestSlot, Committed, ReadPage

LEMMA NoneAhead ==
  ASSUME NEW e \in Nat, NEW c, \A t \in Slot : c[t].epoch \in Nat, \A t \in Slot : c[t].epoch <= e
  PROVE  /\ ReadPage(c, e+1) = ReadPage(c, e)
         /\ HasCommitted(c, e+1) <=> HasCommitted(c, e)
BY DEF Slot, HasCommitted, NewestSlot, Committed, ReadPage

LEMMA NewestRead ==
  ASSUME NEW c, NEW e
  PROVE  /\ NewestSlot(c, e) \in Slot
         /\ HasCommitted(c, e) <=> Committed(c, e, NewestSlot(c, e))
BY DEF Slot, HasCommitted, NewestSlot

LEMMA SuperAdvances ==
  ASSUME NEW sup, SuperOK(sup), NEW m
  PROVE  LET e    == Epoch(sup)
             sup2 == [sup EXCEPT ![1 - ActiveSlot(sup)] = [epoch |-> e + 1, meta |-> m]]
         IN  e \in Nat /\ SuperOK(sup2) /\ Epoch(sup2) = e + 1 /\ MetaOf(sup2) = m
BY DEF SuperOK, Slot, Epoch, ActiveSlot, MetaOf

\* Two files that are alike read alike.
LEMMA AlikeReads ==
  ASSUME NEW f, NEW g, Alike(g, f)
  PROVE  /\ Meta(g) = Meta(f) /\ Epoch(g.super) = Epoch(f.super)
         /\ \A p \in 0 .. Meta(f).pairs-1 :
              /\ Payload(g, p) = Payload(f, p) /\ Spare(g, p) = Spare(f, p)
              /\ HasCommitted(g.arena[p], Epoch(g.super)) <=> HasCommitted(f.arena[p], Epoch(f.super))
<1>1. Meta(g) = Meta(f) /\ Epoch(g.super) = Epoch(f.super)
  BY DEF Alike, Meta
<1>2. ASSUME NEW p \in 0 .. Meta(f).pairs-1
      PROVE  /\ Payload(g, p) = Payload(f, p) /\ Spare(g, p) = Spare(f, p)
             /\ HasCommitted(g.arena[p], Epoch(g.super)) <=> HasCommitted(f.arena[p], Epoch(f.super))
  <2> DEFINE e == Epoch(f.super)
             n == NewestSlot(f.arena[p], e)
  <2>1. NewestSlot(g.arena[p], e) = n /\ g.arena[p][n] = f.arena[p][n]
    BY DEF Alike
  <2> HIDE DEF n
  <2>2. NewestSlot(f.arena[p], e) = n
    BY DEF n
  <2>3. HasCommitted(g.arena[p], e) <=> HasCommitted(f.arena[p], e)
    BY <2>1, <2>2, NewestRead DEF Committed
  <2> QED
    BY <1>1, <2>1, <2>2, <2>3 DEF Payload, Spare, ReadPage
<1> QED
  BY <1>1, <1>2

\* And plan alike.
LEMMA AlikePlans ==
  ASSUME NEW f, NEW g, Held(f), Alike(g, f), NEW c, Feasible(f, c)
  PROVE  /\ Changes(g, c) = Changes(f, c) /\ Feasible(g, c) /\ NewGiven(g, c) = NewGiven(f, c)
         /\ c # NoCall => PlanOf(g, c) = PlanOf(f, c)
         /\ \A p \in Nat : Target(g, p) = Target(f, p)
<1> DEFINE m == Meta(f)
<1>1. MetaOK(m) /\ \E q \in Lists(m, m.count), s \in Lists(m, m.fcount) : Shape(m, Rows(f), q, s)
  BY DEF Held, Shaped
<1>2. PICK q, s : Shape(m, Rows(f), q, s)
  BY <1>1
<1>3. /\ m.tail # NoRef => m.tail.page \in 0 .. m.pairs-1
      /\ m.count > 0 => m.head.page \in 0 .. m.pairs-1
      /\ m.fcount > 0 => m.free.page \in 0 .. m.pairs-1
      /\ m.count \in Nat /\ m.fcount \in Nat /\ m.pairs \in Nat
  BY <1>1, <1>2, Ends DEF MetaOK
<1>4. /\ Meta(g) = m
      /\ \A p \in 0 .. m.pairs-1 : Payload(g, p) = Payload(f, p) /\ Spare(g, p) = Spare(f, p)
  BY AlikeReads
<1>5. \A p \in Nat : Target(g, p) = Target(f, p)
  BY <1>3, <1>4 DEF Target
<1>6. Feasible(g, c)
  BY <1>4 DEF Feasible
<1> DEFINE ref == NewRef(f, m)
<1>7. NewRef(g, m) = ref /\ (Reusing(m) => ref.page \in 0 .. m.pairs-1)
  BY <1>3, <1>4 DEF NewRef, Reusing, Ref
<1>8. NewGiven(g, c) = NewGiven(f, c)
  BY <1>4, <1>7 DEF NewGiven
<1> HIDE DEF m
<1>9. CASE c.kind = "retire"
  <2>1. Taken(g, c) = Taken(f, c)
    <3> DEFINE D == {ref.page} \cup (IF m.tail = NoRef THEN {} ELSE {m.tail.page})
               row == Queued(ref.inc, m.gen, c.arg)
    <3>1. \A p \in D : (IF p = ref.page THEN row ELSE [Payload(g, p) EXCEPT !.next = ref])
                       = (IF p = ref.page THEN row ELSE [Payload(f, p) EXCEPT !.next = ref])
      <4>1. \A p \in D : p # ref.page => Payload(g, p) = Payload(f, p)
        BY <1>3, <1>4
      <4> QED
        BY <4>1
    <3>2. Taken(f, c) = [p \in D |-> IF p = ref.page THEN row ELSE [Payload(f, p) EXCEPT !.next = ref]]
      BY DEF Taken, m
    <3>3. Taken(g, c) = [p \in D |-> IF p = ref.page THEN row ELSE [Payload(g, p) EXCEPT !.next = ref]]
      BY <1>4, <1>7 DEF Taken
    <3> HIDE DEF D, row, ref
    <3> QED
      BY <3>1, <3>2, <3>3
  <2>2. Changes(g, c) = Changes(f, c)
    BY <1>9, <2>1 DEF Changes
  <2>3. \A row : TakeSteps(g, m, ref, row) = TakeSteps(f, m, ref, row)
    <3>1. Reusing(m) => Spare(g, ref.page) = Spare(f, ref.page)
      BY <1>4, <1>7
    <3> HIDE DEF ref
    <3> QED
      BY <3>1 DEF TakeSteps
  <2>4. LinkSteps(g, m, ref) = LinkSteps(f, m, ref)
    <3>1. m.tail # NoRef => Spare(g, m.tail.page) = Spare(f, m.tail.page)
                            /\ Payload(g, m.tail.page) = Payload(f, m.tail.page)
      BY <1>3, <1>4
    <3> HIDE DEF ref
    <3> QED
      BY <3>1 DEF LinkSteps
  <2>5. Enqueued(g, m, ref) = Enqueued(f, m, ref)
    <3>1. Reusing(m) => Payload(g, m.free.page) = Payload(f, m.free.page)
      BY <1>3, <1>4 DEF Reusing
    <3> HIDE DEF ref
    <3> QED
      BY <3>1 DEF Enqueued
  <2>6. RetirePlan(g, m, c.arg) = RetirePlan(f, m, c.arg)
    <3> HIDE DEF ref
    <3>1. NewRef(f, m) = ref
      BY DEF ref
    <3> QED
      BY <1>7, <2>3, <2>4, <2>5, <3>1 DEF RetirePlan
  <2>7. PlanOf(g, c) = PlanOf(f, c)
    BY <1>4, <1>9, <2>6 DEF PlanOf, m
  <2> QED
    BY <1>5, <1>6, <1>8, <2>2, <2>7
<1>10. CASE c.kind = "reclaim"
  <2>1. m.count > 0
    BY <1>10 DEF Feasible, NoCall, Call, m
  <2>2. Payload(g, m.head.page) = Payload(f, m.head.page) /\ Spare(g, m.head.page) = Spare(f, m.head.page)
    BY <1>3, <1>4, <2>1
  <2>3. Changes(g, c) = Changes(f, c)
    BY <1>4, <1>10, <2>2 DEF Changes, Drained, m
  <2>4. PlanOf(g, c) = PlanOf(f, c)
    BY <1>4, <1>10, <2>2 DEF PlanOf, ReclaimPlan, PartialPlan, FinishedPlan, FreePlan, m
  <2> QED
    BY <1>5, <1>6, <1>8, <2>3, <2>4
<1>11. CASE c.kind # "retire" /\ c.kind # "reclaim"
  <2>1. Changes(g, c) = Changes(f, c)
    BY <1>11 DEF Changes
  <2>2. c # NoCall => PlanOf(g, c) = PlanOf(f, c)
    <3> SUFFICES ASSUME c # NoCall PROVE PlanOf(g, c) = PlanOf(f, c)
      OBVIOUS
    <3>1. m.fcount > 0
      BY <1>11 DEF Feasible, CanShrink, m
    <3>2. Payload(g, m.free.page) = Payload(f, m.free.page)
      BY <1>3, <1>4, <3>1
    <3> QED
      BY <1>4, <1>11, <3>2 DEF PlanOf, ShrinkPlan, m
  <2> QED
    BY <1>5, <1>6, <1>8, <2>1, <2>2
<1> QED
  BY <1>9, <1>10, <1>11

-----------------------------------------------------------------------------
(* Plans *)

\* A plan t that is still in order when its first step is done.
Resumed(t, todo, W, m, n, c) ==
  /\ Sorted(t, W, m, n, c-1) /\ t # <<>>
  /\ t[1] \in W \cup {SyncPrimary, SyncArena, WriteSuper}
  /\ \A i \in 2 .. c-1 : i-1 \in 1 .. (c-1)-1 /\ t[i-1] = todo[i]

LEMMA TailSorted ==
  ASSUME NEW todo, NEW W, NEW m, NEW n, NEW c, Sorted(todo, W, m, n, c), c > 1
  PROVE  Resumed(Tail(todo), todo, W, m, n, c)
<1>1. /\ todo \in Seq(Steps(W, n)) /\ c \in 1 .. Len(todo) /\ Len(todo) \in Nat
      /\ Len(todo) = c + 1 \/ Len(todo) = c + 3
  BY DEF Sorted
<1>2. /\ Tail(todo) \in Seq(Steps(W, n)) /\ Len(Tail(todo)) = Len(todo)-1
      /\ \A i \in 1 .. Len(todo)-1 : Tail(todo)[i] = todo[i+1]
  BY <1>1
<1> DEFINE t == Tail(todo)
<1>3. c-1 \in 1 .. Len(t) /\ t[c-1] = todo[c] /\ Len(t) = Len(todo)-1 /\ Len(t) > 0
  <2>1. c-1 \in 1 .. Len(todo)-1 /\ (c-1)+1 = c
    BY <1>1
  <2>2. Len(t) = Len(todo)-1 /\ \A i \in 1 .. Len(todo)-1 : t[i] = todo[i+1]
    BY <1>2
  <2> HIDE DEF t
  <2>3. t[c-1] = todo[(c-1)+1]
    BY <2>1, <2>2
  <2> QED
    BY <1>1, <2>1, <2>2, <2>3
<1>7. Len(t) = Len(todo)-1 /\ \A i \in 1 .. Len(todo)-1 : t[i] = todo[i+1]
  BY <1>2
<1> HIDE DEF t
<1>4. \A i \in 1 .. (c-1)-1 :
         \/ t[i] \in W /\ \E l \in i+1 .. (c-1)-1 : t[l] = Cover(m)
         \/ t[i] \in {SyncPrimary, SyncArena}
  <2> SUFFICES ASSUME NEW i \in 1 .. (c-1)-1
               PROVE  \/ t[i] \in W /\ \E l \in i+1 .. (c-1)-1 : t[l] = Cover(m)
                      \/ t[i] \in {SyncPrimary, SyncArena}
    OBVIOUS
  <2>1. i+1 \in 1 .. c-1 /\ i+1 # 1 /\ i \in 1 .. Len(todo)-1 /\ t[i] = todo[i+1]
    BY <1>1, <1>7
  <2>2. CASE todo[i+1] \in {SyncPrimary, SyncArena}
    BY <2>1, <2>2
  <2>3. CASE todo[i+1] \in W /\ \E l \in (i+1)+1 .. c-1 : todo[l] = Cover(m)
    <3>1. PICK l \in (i+1)+1 .. c-1 : todo[l] = Cover(m)
      BY <2>3
    <3>2. l-1 \in i+1 .. (c-1)-1 /\ l-1 \in 1 .. Len(todo)-1 /\ (l-1)+1 = l
      BY <1>1, <2>1, <3>1
    <3>3. t[l-1] = Cover(m)
      BY <1>2, <3>1, <3>2 DEF t
    <3> QED
      BY <2>1, <2>3, <3>2, <3>3
  <2> QED
    BY <2>1, <2>2, <2>3 DEF Sorted
<1>5. \/ Len(t) = (c-1) + 1 /\ t[(c-1)+1] = SyncPrimary
      \/ /\ Len(t) = (c-1) + 3 /\ ~InPrimary(m)
         /\ t[(c-1)+1] = SyncPrimary /\ t[(c-1)+2] = Resize(n) /\ t[(c-1)+3] = SyncArena
  <2>1. CASE Len(todo) = c + 1 /\ todo[c+1] = SyncPrimary
    <3>1. t[c] = todo[c+1] /\ (c-1)+1 = c /\ Len(t) = c
      BY <1>1, <1>2, <1>3, <2>1 DEF t
    <3> QED
      BY <2>1, <3>1
  <2>2. CASE /\ Len(todo) = c + 3 /\ ~InPrimary(m)
             /\ todo[c+1] = SyncPrimary /\ todo[c+2] = Resize(n) /\ todo[c+3] = SyncArena
    <3>1. /\ t[c] = todo[c+1] /\ t[c+1] = todo[c+2] /\ t[c+2] = todo[c+3]
          /\ (c-1)+1 = c /\ (c-1)+2 = c+1 /\ (c-1)+3 = c+2 /\ Len(t) = c+2
      BY <1>1, <1>2, <1>3, <2>2 DEF t
    <3> QED
      BY <2>2, <3>1
  <2> QED
    BY <2>1, <2>2 DEF Sorted
<1>6. Sorted(t, W, m, n, c-1)
  BY <1>2, <1>3, <1>4, <1>5 DEF Sorted, t
<1>8. t # <<>>
  BY <1>3
<1>9. t[1] \in W \cup {SyncPrimary, SyncArena, WriteSuper}
  <2>1. CASE c-1 = 1
    BY <1>1, <1>3, <2>1 DEF Sorted
  <2>2. CASE c-1 # 1
    <3>1. 1 \in 1 .. (c-1)-1
      BY <1>1, <1>3, <2>2
    <3> QED
      BY <1>4, <3>1
  <2> QED
    BY <2>1, <2>2
<1>10. \A i \in 2 .. c-1 : i-1 \in 1 .. (c-1)-1 /\ t[i-1] = todo[i]
  <2> SUFFICES ASSUME NEW i \in 2 .. c-1 PROVE i-1 \in 1 .. (c-1)-1 /\ t[i-1] = todo[i]
    OBVIOUS
  <2>1. i-1 \in 1 .. (c-1)-1 /\ i-1 \in 1 .. Len(todo)-1 /\ (i-1)+1 = i
    BY <1>1
  <2> QED
    BY <1>7, <2>1
<1> QED
  BY <1>6, <1>8, <1>9, <1>10 DEF t, Resumed

Opens(pre, W, n) ==
  /\ pre \in Seq(Steps(W, n)) /\ Len(pre) > 0
  /\ \A i \in 1 .. Len(pre) : pre[i] \in W \/ (i = 1 /\ pre[i] = Resize(n))

Opened(pre, todo, W, m, n, c) ==
  /\ Sorted(todo, W, m, n, c) /\ c > 1 /\ todo[1] = pre[1]
  /\ \A i \in 1 .. Len(pre) : i \in 1 .. c-1 /\ todo[i] = pre[i]

\* A plan that writes the descriptors, fsyncs them, and commits.
LEMMA WritesSort ==
  ASSUME NEW pre, NEW W, NEW m, NEW n, Opens(pre, W, n),
         NEW todo, todo = pre \o Settled(m) \o Commit
  PROVE  \E c \in 1 .. Len(todo) : Opened(pre, todo, W, m, n, c)
<1> DEFINE k == Len(pre)
<1>0. /\ pre \in Seq(Steps(W, n)) /\ Len(pre) > 0
      /\ \A i \in 1 .. Len(pre) : pre[i] \in W \/ (i = 1 /\ pre[i] = Resize(n))
  BY DEF Opens
<1>1. k \in Nat /\ k > 0
  BY <1>0
<1>2. CASE InPrimary(m)
  <2>1. Settled(m) = <<>> /\ Cover(m) = SyncPrimary
    BY <1>2 DEF Settled, Cover
  <2>2. /\ todo \in Seq(Steps(W, n)) /\ Len(todo) = k + 3
        /\ \A i \in 1 .. k : todo[i] = pre[i]
        /\ todo[k+1] = SyncPrimary /\ todo[k+2] = WriteSuper /\ todo[k+3] = SyncPrimary
    BY <1>0, <1>1, <2>1 DEF Commit, Steps
  <2> HIDE DEF k
  <2> DEFINE c == k + 2
  <2>3. \A i \in 1 .. c-1 : i \in 1 .. k \/ i = k+1
    BY <1>1
  <2>4. \A i \in 1 .. k : k+1 \in i+1 .. c-1
    BY <1>1
  <2>5. \A i \in 1 .. c-1 :
           \/ todo[i] \in W /\ \E l \in i+1 .. c-1 : todo[l] = Cover(m)
           \/ i = 1 /\ todo[i] = Resize(n) /\ \E l \in i+1 .. c-1 : todo[l] = Cover(m)
           \/ todo[i] \in {SyncPrimary, SyncArena}
    BY <1>0, <2>1, <2>2, <2>3, <2>4 DEF k
  <2>6. c \in 1 .. Len(todo) /\ c > 1 /\ Len(todo) = c+1 /\ todo[c] = WriteSuper /\ todo[c+1] = SyncPrimary
        /\ \A i \in 1 .. k : i \in 1 .. c-1
    <3>1. c+1 = k+3 /\ c \in 1 .. k+3 /\ c > 1 /\ \A i \in 1 .. k : i \in 1 .. c-1
      BY <1>1
    <3> QED
      BY <2>2, <3>1
  <2>7. 1 \in 1 .. k
    BY <1>1
  <2>8. Sorted(todo, W, m, n, c)
    <3> HIDE DEF c
    <3> QED
      BY <2>2, <2>5, <2>6 DEF Sorted
  <2> QED
    BY <2>2, <2>6, <2>7, <2>8 DEF k, Opened
<1>3. CASE ~InPrimary(m)
  <2>1. Settled(m) = <<SyncArena>> /\ Cover(m) = SyncArena
    BY <1>3 DEF Settled, Cover
  <2>2. /\ todo \in Seq(Steps(W, n)) /\ Len(todo) = k + 4
        /\ \A i \in 1 .. k : todo[i] = pre[i]
        /\ todo[k+1] = SyncArena /\ todo[k+2] = SyncPrimary /\ todo[k+3] = WriteSuper
        /\ todo[k+4] = SyncPrimary
    BY <1>0, <1>1, <2>1 DEF Commit, Steps
  <2> HIDE DEF k
  <2> DEFINE c == k + 3
  <2>3. \A i \in 1 .. c-1 : i \in 1 .. k \/ i = k+1 \/ i = k+2
    BY <1>1
  <2>4. \A i \in 1 .. k : k+1 \in i+1 .. c-1
    BY <1>1
  <2>5. \A i \in 1 .. c-1 :
           \/ todo[i] \in W /\ \E l \in i+1 .. c-1 : todo[l] = Cover(m)
           \/ i = 1 /\ todo[i] = Resize(n) /\ \E l \in i+1 .. c-1 : todo[l] = Cover(m)
           \/ todo[i] \in {SyncPrimary, SyncArena}
    BY <1>0, <2>1, <2>2, <2>3, <2>4 DEF k
  <2>6. c \in 1 .. Len(todo) /\ c > 1 /\ Len(todo) = c+1 /\ todo[c] = WriteSuper /\ todo[c+1] = SyncPrimary
        /\ \A i \in 1 .. k : i \in 1 .. c-1
    <3>1. c+1 = k+4 /\ c \in 1 .. k+4 /\ c > 1 /\ \A i \in 1 .. k : i \in 1 .. c-1
      BY <1>1
    <3> QED
      BY <2>2, <3>1
  <2>7. 1 \in 1 .. k
    BY <1>1
  <2>8. Sorted(todo, W, m, n, c)
    <3> HIDE DEF c
    <3> QED
      BY <2>2, <2>5, <2>6 DEF Sorted
  <2> QED
    BY <2>2, <2>6, <2>7, <2>8 DEF k, Opened
<1> QED
  BY <1>2, <1>3

\* A plan writes every descriptor it changes, in that order.
Planned(f, c, todo, n, k) ==
  /\ Sorted(todo, Writes(f, c), Meta(f), n, k)
  /\ n <= Meta(f).pairs \/ (k > 1 /\ todo[1] = Resize(n))
  /\ n > Meta(f).pairs \/ todo[1].do # "resize"
  /\ \A w \in Writes(f, c) : \E i \in 1 .. k-1 : todo[i] = w

LEMMA OneWrite ==
  ASSUME NEW f, NEW c, NEW p, NEW data, MetaOK(Meta(f)), p \in 0 .. Meta(f).pairs-1,
         DOMAIN Changes(f, c) = {p}, Changes(f, c)[p] = data,
         NEW todo, todo = <<Write(p, Spare(f, p), data)>> \o Settled(Meta(f)) \o Commit
  PROVE  \E k \in 1 .. Len(todo) : Planned(f, c, todo, Meta(f).pairs, k)
<1> DEFINE w == Write(p, Spare(f, p), data)
           m == Meta(f)
<1>1. Writes(f, c) = {w}
  <2>1. Target(f, p) = Spare(f, p)
    BY DEF Target, MetaOK
  <2> QED
    BY <2>1 DEF Writes
<1>2. w.do = "write" /\ m.pairs <= m.pairs
  BY DEF Write, MetaOK
<1> HIDE DEF w, m
<1>3. <<w>> \in Seq(Steps({w}, m.pairs)) /\ Len(<<w>>) = 1 /\ <<w>>[1] = w
  BY DEF Steps
<1>4. Opens(<<w>>, {w}, m.pairs)
  <2>1. \A i \in 1 .. Len(<<w>>) : <<w>>[i] \in {w} \/ (i = 1 /\ <<w>>[i] = Resize(m.pairs))
    BY <1>3
  <2> QED
    BY <1>3, <2>1 DEF Opens
<1>5. PICK k \in 1 .. Len(todo) : Opened(<<w>>, todo, {w}, m, m.pairs, k)
  <2>1. todo = <<w>> \o Settled(m) \o Commit
    BY DEF w, m
  <2> QED
    BY <1>4, <2>1, WritesSort
<1>6. 1 \in 1 .. k-1 /\ todo[1] = w /\ k > 1 /\ Sorted(todo, {w}, m, m.pairs, k)
  BY <1>3, <1>5 DEF Opened
<1>7. Planned(f, c, todo, m.pairs, k)
  BY <1>1, <1>2, <1>6 DEF Planned, m
<1> QED
  BY <1>7 DEF m

LEMMA NoWrite ==
  ASSUME NEW f, NEW c, DOMAIN Changes(f, c) = {}, NEW n, NEW rest, n <= Meta(f).pairs,
         rest = <<>> \/ (~InPrimary(Meta(f)) /\ rest = <<Resize(n), SyncArena>>),
         NEW todo, todo = Commit \o rest
  PROVE  \E k \in 1 .. Len(todo) : Planned(f, c, todo, n, k)
<1>1. Writes(f, c) = {}
  BY DEF Writes
<1>2. /\ todo \in Seq(Steps({}, n)) /\ Len(todo) = 3 + Len(rest)
      /\ todo[1] = SyncPrimary /\ todo[2] = WriteSuper /\ todo[3] = SyncPrimary
      /\ rest # <<>> => todo[4] = Resize(n) /\ todo[5] = SyncArena
  <2>1. CASE rest = <<>>
    BY <2>1 DEF Commit, Steps
  <2>2. CASE rest = <<Resize(n), SyncArena>>
    BY <2>2 DEF Commit, Steps
  <2> QED
    BY <2>1, <2>2
<1>3. (Len(todo) = 2 + 1) \/ (Len(todo) = 2 + 3 /\ ~InPrimary(Meta(f)) /\ rest # <<>>)
  <2>1. CASE rest = <<>>
    BY <1>2, <2>1
  <2>2. CASE ~InPrimary(Meta(f)) /\ rest = <<Resize(n), SyncArena>>
    <3>1. Len(rest) = 2 /\ rest # <<>>
      BY <2>2
    <3> QED
      BY <1>2, <2>2, <3>1
  <2> QED
    BY <2>1, <2>2
<1>4. Sorted(todo, {}, Meta(f), n, 2)
  <2>1. 2 \in 1 .. Len(todo) /\ \A i \in 1 .. 2-1 : i = 1
    BY <1>3
  <2> QED
    BY <1>2, <1>3, <2>1 DEF Sorted
<1>5. Planned(f, c, todo, n, 2)
  <2>1. SyncPrimary.do = "sync primary"
    BY DEF SyncPrimary
  <2>2. todo[1].do # "resize"
    BY <1>2, <2>1
  <2> QED
    BY <1>1, <1>4, <2>2 DEF Planned
<1>6. 2 \in 1 .. Len(todo)
  BY <1>3
<1> QED
  BY <1>5, <1>6

LEMMA RetireSorts ==
  ASSUME NEW f, NEW c, Held(f), Feasible(f, c), c.kind = "retire", c.arg > 0
  PROVE  \E k \in 1 .. Len(PlanOf(f, c).todo) :
           Planned(f, c, PlanOf(f, c).todo, PlanOf(f, c).meta.pairs, k)
<1> DEFINE m == Meta(f)
           R == Rows(f)
           ref == NewRef(f, m)
           n == PlanOf(f, c).meta.pairs
           row == Queued(ref.inc, m.gen, c.arg)
<1>1. MetaOK(m) /\ \E q \in Lists(m, m.count), s \in Lists(m, m.fcount) : Shape(m, R, q, s)
  BY DEF Held, Shaped
<1>2. PICK q, s : Shape(m, R, q, s)
  BY <1>1
<1> DEFINE z == q[m.count-1]
<1>3. /\ ref.page = IF m.fcount > 0 THEN s[0] ELSE m.pairs
      /\ ref.page \in Nat
      /\ DOMAIN Changes(f, c) = {ref.page} \cup (IF m.count = 0 THEN {} ELSE {z})
      /\ Changes(f, c)[ref.page] = row
      /\ m.count > 0 => Changes(f, c)[z] = Relinked(R[z], ref)
  <2>1. /\ ref = Ref(ref.page, ref.inc) /\ ref.inc \in Nat /\ ref.inc > 0
        /\ ref.page = IF m.fcount > 0 THEN s[0] ELSE m.pairs
        /\ ref.page \in Page /\ ref.page \in Nat
        /\ \A i \in 0 .. m.count-1 : q[i] # ref.page
        /\ DOMAIN Changes(f, c) = {ref.page} \cup (IF m.count = 0 THEN {} ELSE {z})
        /\ Changes(f, c)[ref.page] = Queued(ref.inc, m.gen, c.arg)
        /\ m.count > 0 => Changes(f, c)[z] = Relinked(R[z], ref)
        /\ c.arg \in Nat
    BY <1>2, RetireTakes
  <2> QED
    BY <2>1
<1>4. /\ m.tail = NoRef <=> m.count = 0
      /\ m.count > 0 => z \in 0 .. m.pairs-1 /\ m.tail.page = z
      /\ m.fcount > 0 => s[0] \in 0 .. m.pairs-1
      /\ m.count \in Nat /\ m.fcount \in Nat /\ m.pairs \in Nat
  BY <1>1, <1>2, Ends DEF MetaOK
<1>5. m.count > 0 => Payload(f, z) = R[z]
  BY <1>1, <1>4, RowsRead
<1>6. /\ PlanOf(f, c).todo = TakeSteps(f, m, ref, row) \o LinkSteps(f, m, ref) \o Settled(m) \o Commit
      /\ n = IF m.fcount > 0 THEN m.pairs ELSE m.pairs + 1
  <2>1. PlanOf(f, c) = Plan(TakeSteps(f, m, ref, row) \o LinkSteps(f, m, ref) \o Settled(m) \o Commit,
                            Enqueued(f, m, ref))
    BY <1>3 DEF PlanOf, RetirePlan
  <2>2. Enqueued(f, m, ref).pairs = IF m.fcount > 0 THEN m.pairs ELSE m.pairs + 1
    <3>1. m = [format |-> m.format, gen |-> m.gen, head |-> m.head, tail |-> m.tail,
               count |-> m.count, free |-> m.free, fcount |-> m.fcount, pairs |-> m.pairs,
               inc |-> m.inc]
      BY <1>1 DEF MetaOK
    <3> HIDE DEF m, ref
    <3> QED
      BY <3>1 DEF Enqueued, Reusing
  <2> QED
    BY <2>1, <2>2 DEF Plan
<1> DEFINE w1 == Write(ref.page, IF m.fcount > 0 THEN Spare(f, ref.page) ELSE 0, row)
           w2 == Write(z, Spare(f, z), Relinked(R[z], ref))
           take == TakeSteps(f, m, ref, row)
           link == LinkSteps(f, m, ref)
           W == Writes(f, c)
<1>7. W = {w1} \cup (IF m.count = 0 THEN {} ELSE {w2})
  <2>1. Target(f, ref.page) = IF m.fcount > 0 THEN Spare(f, ref.page) ELSE 0
    BY <1>3, <1>4 DEF Target
  <2>2. m.count > 0 => Target(f, z) = Spare(f, z)
    BY <1>4 DEF Target
  <2>3. \A p \in DOMAIN Changes(f, c) : Write(p, Target(f, p), Changes(f, c)[p]) = w1
                                        \/ (m.count > 0 /\ Write(p, Target(f, p), Changes(f, c)[p]) = w2)
    BY <1>3, <1>4, <2>1, <2>2
  <2>4. /\ ref.page \in DOMAIN Changes(f, c) /\ w1 = Write(ref.page, Target(f, ref.page), Changes(f, c)[ref.page])
        /\ m.count > 0 => z \in DOMAIN Changes(f, c) /\ w2 = Write(z, Target(f, z), Changes(f, c)[z])
    BY <1>3, <1>4, <2>1, <2>2
  <2> HIDE DEF m, ref, w1, w2, z
  <2> QED
    BY <1>4, <2>3, <2>4 DEF Writes
<1>8. take = IF m.fcount > 0 THEN <<w1>> ELSE <<Resize(n), w1>>
  BY <1>4, <1>6 DEF TakeSteps, Reusing
<1>9. link = IF m.count = 0 THEN <<>> ELSE <<w2>>
  BY <1>4, <1>5 DEF LinkSteps, Relinked
<1>10. w1.do = "write" /\ Resize(n).do = "resize" /\ w1 \in Steps(W, n) /\ Resize(n) \in Steps(W, n)
       /\ (m.count > 0 => w2 \in Steps(W, n) /\ w2 \in W) /\ w1 \in W
  BY <1>4, <1>7 DEF Write, Resize, Steps
<1> DEFINE pre == take \o link
<1> HIDE DEF m, R, ref, n, row, z, w1, w2, take, link, W
<1>11. /\ Opens(pre, W, n) /\ Len(pre) > 0
       /\ pre[1] = IF m.fcount > 0 THEN w1 ELSE Resize(n)
       /\ \A w \in W : \E i \in 1 .. Len(pre) : pre[i] = w
  <2>1. CASE m.fcount > 0 /\ m.count = 0
    <3>1. pre = <<w1>> \o <<>> /\ W = {w1}
      BY <1>7, <1>8, <1>9, <2>1
    <3>2. Len(pre) = 1 /\ pre[1] = w1 /\ pre \in Seq(Steps(W, n))
      BY <1>10, <3>1
    <3> HIDE DEF pre
    <3>3. 1 \in 1 .. Len(pre) /\ \A i \in 1 .. Len(pre) : i = 1
      BY <3>2
    <3>4. Opens(pre, W, n)
      BY <1>10, <3>1, <3>2, <3>3 DEF Opens
    <3>5. \A w \in W : \E i \in 1 .. Len(pre) : pre[i] = w
      BY <3>1, <3>2, <3>3
    <3>6. Len(pre) > 0 /\ pre[1] = IF m.fcount > 0 THEN w1 ELSE Resize(n)
      BY <2>1, <3>2
    <3> QED
      BY <3>4, <3>5, <3>6
  <2>2. CASE m.fcount > 0 /\ m.count # 0
    <3>1. pre = <<w1>> \o <<w2>> /\ W = {w1, w2} /\ m.count > 0
      BY <1>4, <1>7, <1>8, <1>9, <2>2
    <3>2. Len(pre) = 2 /\ pre[1] = w1 /\ pre[2] = w2 /\ pre \in Seq(Steps(W, n))
      BY <1>10, <3>1
    <3> HIDE DEF pre
    <3>3. 1 \in 1 .. Len(pre) /\ 2 \in 1 .. Len(pre) /\ \A i \in 1 .. Len(pre) : i = 1 \/ i = 2
      BY <3>2
    <3>4. Opens(pre, W, n)
      BY <1>10, <3>1, <3>2, <3>3 DEF Opens
    <3>5. \A w \in W : \E i \in 1 .. Len(pre) : pre[i] = w
      BY <3>1, <3>2, <3>3
    <3>6. Len(pre) > 0 /\ pre[1] = IF m.fcount > 0 THEN w1 ELSE Resize(n)
      BY <2>2, <3>2
    <3> QED
      BY <3>4, <3>5, <3>6
  <2>3. CASE m.fcount = 0 /\ m.count = 0
    <3>1. pre = <<Resize(n), w1>> \o <<>> /\ W = {w1}
      BY <1>7, <1>8, <1>9, <2>3
    <3>2. Len(pre) = 2 /\ pre[1] = Resize(n) /\ pre[2] = w1 /\ pre \in Seq(Steps(W, n))
      BY <1>10, <3>1
    <3> HIDE DEF pre
    <3>3. 1 \in 1 .. Len(pre) /\ 2 \in 1 .. Len(pre) /\ \A i \in 1 .. Len(pre) : i = 1 \/ i = 2
      BY <3>2
    <3>4. Opens(pre, W, n)
      BY <1>10, <3>1, <3>2, <3>3 DEF Opens
    <3>5. \A w \in W : \E i \in 1 .. Len(pre) : pre[i] = w
      BY <3>1, <3>2, <3>3
    <3>6. Len(pre) > 0 /\ pre[1] = IF m.fcount > 0 THEN w1 ELSE Resize(n)
      BY <2>3, <3>2
    <3> QED
      BY <3>4, <3>5, <3>6
  <2>4. CASE m.fcount = 0 /\ m.count # 0
    <3>1. pre = <<Resize(n), w1>> \o <<w2>> /\ W = {w1, w2} /\ m.count > 0
      BY <1>4, <1>7, <1>8, <1>9, <2>4
    <3>2. Len(pre) = 3 /\ pre[1] = Resize(n) /\ pre[2] = w1 /\ pre[3] = w2 /\ pre \in Seq(Steps(W, n))
      BY <1>10, <3>1
    <3> HIDE DEF pre
    <3>3. /\ 1 \in 1 .. Len(pre) /\ 2 \in 1 .. Len(pre) /\ 3 \in 1 .. Len(pre)
          /\ \A i \in 1 .. Len(pre) : i = 1 \/ i = 2 \/ i = 3
      BY <3>2
    <3>4. Opens(pre, W, n)
      BY <1>10, <3>1, <3>2, <3>3 DEF Opens
    <3>5. \A w \in W : \E i \in 1 .. Len(pre) : pre[i] = w
      BY <3>1, <3>2, <3>3
    <3>6. Len(pre) > 0 /\ pre[1] = IF m.fcount > 0 THEN w1 ELSE Resize(n)
      BY <2>4, <3>2
    <3> QED
      BY <3>4, <3>5, <3>6
  <2> QED
    BY <1>4, <2>1, <2>2, <2>3, <2>4
<1> HIDE DEF pre
<1> DEFINE todo == pre \o Settled(m) \o Commit
<1>12. PICK k \in 1 .. Len(todo) : Opened(pre, todo, W, m, n, k)
  <2>1. todo = pre \o Settled(m) \o Commit
    OBVIOUS
  <2> HIDE DEF todo
  <2> QED
    BY <1>11, <2>1, WritesSort
<1>13. todo = PlanOf(f, c).todo
  BY <1>6 DEF take, link, pre
<1> HIDE DEF todo
<1>14. /\ Sorted(todo, W, m, n, k) /\ k > 1 /\ todo[1] = pre[1]
       /\ \A i \in 1 .. Len(pre) : i \in 1 .. k-1 /\ todo[i] = pre[i]
  BY <1>12 DEF Opened
<1>15. \A w \in W : \E i \in 1 .. k-1 : todo[i] = w
  BY <1>11, <1>14
<1>16. /\ n <= m.pairs \/ (k > 1 /\ todo[1] = Resize(n))
       /\ n > m.pairs \/ todo[1].do # "resize"
  BY <1>4, <1>6, <1>10, <1>11, <1>14
<1>17. Planned(f, c, todo, n, k)
  BY <1>14, <1>15, <1>16 DEF Planned, m, W
<1> QED
  BY <1>12, <1>13, <1>17 DEF n

LEMMA PlanSorts ==
  ASSUME NEW f, NEW c, Held(f), Feasible(f, c), c # NoCall
  PROVE  \E k \in 1 .. Len(PlanOf(f, c).todo) :
           Planned(f, c, PlanOf(f, c).todo, PlanOf(f, c).meta.pairs, k)
<1> DEFINE m == Meta(f)
<1>1. /\ MetaOK(m) /\ m.pairs \in Nat /\ m.count \in Nat /\ m.format \in {34, 35, 37, 38}
      /\ m = [format |-> m.format, gen |-> m.gen, head |-> m.head, tail |-> m.tail,
              count |-> m.count, free |-> m.free, fcount |-> m.fcount, pairs |-> m.pairs,
              inc |-> m.inc]
  BY DEF Held, MetaOK
<1>2. CASE c.kind = "retire"
  <2>1. c.arg \in OwnerCounts
    <3>1. Call("shrink", 0).kind = "shrink"
      BY DEF Call
    <3> QED
      BY <1>2, <3>1 DEF Feasible
  <2>2. c.arg \in Nat
    BY <2>1, OwnerCountsAssumption
  <2>3. CASE c.arg = 0
    <3>1. DOMAIN Changes(f, c) = {}
      BY <1>2, <2>3 DEF Changes
    <3>2. PlanOf(f, c).todo = Commit /\ PlanOf(f, c).meta.pairs = m.pairs
      <4>1. PlanOf(f, c) = Plan(Commit, [m EXCEPT !.gen = @ + 1])
        BY <1>2, <2>3 DEF PlanOf, RetirePlan
      <4> HIDE DEF m
      <4> QED
        BY <1>1, <4>1 DEF Plan
    <3>3. \E k \in 1 .. Len(Commit) : Planned(f, c, Commit, m.pairs, k)
      <4>1. m.pairs <= m.pairs /\ Commit = Commit \o <<>>
        BY <1>1 DEF Commit
      <4> QED
        BY <3>1, <4>1, NoWrite
    <3> QED
      BY <3>2, <3>3
  <2> QED
    BY <1>2, <2>2, <2>3, RetireSorts
<1>3. CASE c.kind = "reclaim"
  <2>1. \E q \in Lists(m, m.count), s \in Lists(m, m.fcount) : Shape(m, Rows(f), q, s)
    BY DEF Held, Shaped
  <2>2. PICK q, s : Shape(m, Rows(f), q, s)
    BY <2>1
  <2> DEFINE row == Rows(f)[q[0]]
             h == m.head.page
             m2 == PlanOf(f, c).meta
  <2>3. /\ h = q[0] /\ h \in 0 .. m.pairs-1 /\ row = Payload(f, h)
        /\ c.arg \in Nat /\ row.left \in Nat
        /\ row.left > c.arg => DOMAIN Changes(f, c) = {h} /\ Changes(f, c)[h] = Drops(row, c.arg) /\ m2 = m
        /\ row.left <= c.arg /\ (m.format = 34 \/ (m.format >= 37 /\ m.count = 1)) => DOMAIN Changes(f, c) = {}
        /\ row.left <= c.arg /\ m.format = 34 => m2 = Dequeued(m, row)
        /\ row.left <= c.arg /\ m.format >= 37 /\ m.count = 1 =>
             m2 = [Dequeued(m, row) EXCEPT !.free = NoRef, !.fcount = 0, !.pairs = 0]
        /\ row.left <= c.arg /\ m.format # 34 /\ ~(m.format >= 37 /\ m.count = 1) =>
             /\ DOMAIN Changes(f, c) = {h} /\ Changes(f, c)[h] = Freed(row.inc, m.free)
             /\ m2 = [Dequeued(m, row) EXCEPT !.free = m.head, !.fcount = @ + 1]
    <3>1. /\ m.count > 0 /\ m.head.page = q[0] /\ m.head = RefAt(Rows(f), q[0])
          /\ RowOK(row) /\ row.status = "QUEUED" /\ q[0] \in 0 .. m.pairs-1
          /\ row = Payload(f, m.head.page)
          /\ c.arg \in Nat /\ c.arg > 0
          /\ row.left > c.arg =>
               DOMAIN Changes(f, c) = {q[0]} /\ Changes(f, c)[q[0]] = Drops(row, c.arg) /\ m2 = m
          /\ row.left <= c.arg /\ (m.format = 34 \/ (m.format >= 37 /\ m.count = 1)) =>
               DOMAIN Changes(f, c) = {}
          /\ row.left <= c.arg /\ m.format = 34 => m2 = Dequeued(m, row)
          /\ row.left <= c.arg /\ m.format >= 37 /\ m.count = 1 =>
               m2 = [Dequeued(m, row) EXCEPT !.free = NoRef, !.fcount = 0, !.pairs = 0]
          /\ row.left <= c.arg /\ m.format # 34 /\ ~(m.format >= 37 /\ m.count = 1) =>
               /\ DOMAIN Changes(f, c) = {q[0]} /\ Changes(f, c)[q[0]] = Freed(row.inc, m.free)
               /\ m2 = [Dequeued(m, row) EXCEPT !.free = m.head, !.fcount = @ + 1]
      BY <1>3, <2>2, ReclaimTakes
    <3> HIDE DEF row, m2, m
    <3> QED
      BY <3>1 DEF RowOK
  <2>4. PlanOf(f, c) = IF row.left > c.arg THEN PartialPlan(f, m, row, c.arg) ELSE FinishedPlan(f, m, row)
    BY <1>3, <2>3 DEF PlanOf, ReclaimPlan
  <2> HIDE DEF row, m2, h
  <2>5. Dequeued(m, row).pairs = m.pairs /\ Dequeued(m, row) = [Dequeued(m, row) EXCEPT !.pairs = m.pairs]
    <3> HIDE DEF m
    <3> QED
      BY <1>1 DEF Dequeued
  <2>6. CASE row.left > c.arg
    <3>1. /\ PlanOf(f, c).todo = <<Write(h, Spare(f, h), Drops(row, c.arg))>> \o Settled(m) \o Commit
          /\ m2.pairs = m.pairs
      BY <2>3, <2>4, <2>6 DEF PartialPlan, Plan, Drops, h
    <3>2. \E k \in 1 .. Len(PlanOf(f, c).todo) : Planned(f, c, PlanOf(f, c).todo, m.pairs, k)
      BY <1>1, <2>3, <2>6, <3>1, OneWrite
    <3> QED
      BY <3>1, <3>2 DEF m2
  <2>7. CASE row.left <= c.arg /\ m.format = 34
    <3>1. PlanOf(f, c).todo = Commit
      BY <2>3, <2>4, <2>7 DEF FinishedPlan, Plan
    <3>2. m2.pairs = m.pairs /\ m2.pairs <= m.pairs
      BY <1>1, <2>3, <2>5, <2>7
    <3>3. Commit = Commit \o <<>>
      BY DEF Commit
    <3>4. \E k \in 1 .. Len(Commit) : Planned(f, c, Commit, m2.pairs, k)
      BY <2>3, <2>7, <3>2, <3>3, NoWrite
    <3> QED
      BY <3>1, <3>4 DEF m2
  <2>8. CASE row.left <= c.arg /\ m.format >= 37 /\ m.count = 1
    <3>1. PlanOf(f, c).todo = Commit \o <<Resize(0), SyncArena>>
      BY <1>1, <2>3, <2>4, <2>8 DEF FinishedPlan, EmptyPlan, Plan
    <3>2. m2.pairs = 0
      <4>1. m2 = [Dequeued(m, row) EXCEPT !.free = NoRef, !.fcount = 0, !.pairs = 0]
        BY <2>3, <2>8
      <4>2. PICK d : d = Dequeued(m, row)
        OBVIOUS
      <4>3. d = [d EXCEPT !.pairs = m.pairs] /\ "pairs" \in DOMAIN d
        <5> HIDE DEF m
        <5> QED
          BY <1>1, <4>2 DEF Dequeued
      <4> QED
        BY <4>1, <4>2, <4>3
    <3>3. 0 <= m.pairs /\ ~InPrimary(m)
      BY <1>1, <2>8 DEF InPrimary
    <3>4. \E k \in 1 .. Len(Commit \o <<Resize(0), SyncArena>>) :
            Planned(f, c, Commit \o <<Resize(0), SyncArena>>, 0, k)
      BY <2>3, <2>8, <3>3, NoWrite
    <3> QED
      BY <3>1, <3>2, <3>4 DEF m2
  <2>9. CASE row.left <= c.arg /\ m.format # 34 /\ ~(m.format >= 37 /\ m.count = 1)
    <3>1. /\ PlanOf(f, c).todo = <<Write(h, Spare(f, h), Freed(row.inc, m.free))>> \o Settled(m) \o Commit
          /\ m2 = [Dequeued(m, row) EXCEPT !.free = m.head, !.fcount = @ + 1]
      BY <2>3, <2>4, <2>9 DEF FinishedPlan, FreePlan, Plan, h
    <3>2. m2.pairs = m.pairs
      BY <2>5, <3>1
    <3>3. /\ MetaOK(Meta(f)) /\ h \in 0 .. Meta(f).pairs-1
          /\ DOMAIN Changes(f, c) = {h} /\ Changes(f, c)[h] = Freed(row.inc, m.free)
          /\ PlanOf(f, c).todo = <<Write(h, Spare(f, h), Freed(row.inc, m.free))>> \o Settled(Meta(f)) \o Commit
      BY <1>1, <2>3, <2>9, <3>1
    <3>4. \E k \in 1 .. Len(PlanOf(f, c).todo) : Planned(f, c, PlanOf(f, c).todo, m.pairs, k)
      BY <3>3, OneWrite
    <3> QED
      BY <3>2, <3>4 DEF m2
  <2> QED
    BY <2>3, <2>6, <2>7, <2>8, <2>9
<1>4. CASE c = Call("shrink", 0) /\ CanShrink(m)
  <2>1. DOMAIN Changes(f, c) = {} /\ c.kind # "retire" /\ c.kind # "reclaim"
    BY <1>4 DEF Changes, Call
  <2>2. Writes(f, c) = {}
    BY <2>1 DEF Writes
  <2>3. m.format = 38 /\ m.pairs > 0 /\ ~InPrimary(m)
    BY <1>4 DEF CanShrink, InPrimary
  <2> DEFINE n == m.pairs-1
             todo == <<WriteSuper, SyncPrimary, Resize(n), SyncArena>>
  <2>4. PlanOf(f, c).todo = todo /\ PlanOf(f, c).meta.pairs = n
    <3>1. PICK d : d = [m EXCEPT !.free = Payload(f, m.free.page).next,
                                 !.fcount = @ - 1, !.pairs = @ - 1]
      OBVIOUS
    <3>2. PlanOf(f, c) = Plan(todo, d)
      BY <2>1, <3>1 DEF PlanOf, ShrinkPlan
    <3> HIDE DEF m
    <3>3. d.pairs = m.pairs - 1
      BY <1>1, <3>1
    <3> HIDE DEF todo
    <3> QED
      BY <3>2, <3>3 DEF Plan
  <2>5. /\ todo \in Seq(Steps({}, n)) /\ Len(todo) = 1 + 3 /\ todo[1] = WriteSuper
        /\ todo[1+1] = SyncPrimary /\ todo[1+2] = Resize(n) /\ todo[1+3] = SyncArena
    BY DEF Steps
  <2>6. n <= m.pairs
    BY <1>1
  <2> HIDE DEF todo, n
  <2>7. Sorted(todo, {}, m, n, 1)
    <3>1. 1 \in 1 .. Len(todo) /\ \A i \in 1 .. 1-1 : FALSE
      BY <2>5
    <3> QED
      BY <2>3, <2>5, <3>1 DEF Sorted
  <2>8. Planned(f, c, todo, n, 1) /\ 1 \in 1 .. Len(todo)
    BY <2>2, <2>5, <2>6, <2>7 DEF Planned, WriteSuper
  <2> QED
    BY <2>4, <2>8
<1> QED
  BY <1>2, <1>3, <1>4 DEF Feasible

-----------------------------------------------------------------------------
(* The commit *)

Committing(f, c) ==
  [f EXCEPT !.super[1 - ActiveSlot(f.super)] =
     [epoch |-> Epoch(f.super) + 1, meta |-> PlanOf(f, c).meta]]

\* The writes of the call are in the file, and the file is long enough.
Written(f, c) ==
  /\ f.len >= PlanOf(f, c).meta.pairs
  /\ \A p \in DOMAIN Changes(f, c) :
       f.arena[p][Target(f, p)] = [epoch |-> Epoch(f.super) + 1, data |-> Changes(f, c)[p]]

\* What a call writes are descriptors of the image it commits.
LEMMA CallChanges ==
  ASSUME NEW f, NEW c, Held(f), Feasible(f, c), c # NoCall
  PROVE  /\ Commits(f, c, PlanOf(f, c).meta)
         /\ \A p \in DOMAIN Changes(f, c) : /\ p \in Page /\ p \in Nat /\ Target(f, p) \in Slot
                                            /\ p \in 0 .. PlanOf(f, c).meta.pairs-1
<1> DEFINE m2 == PlanOf(f, c).meta
<1>1. PICK R2 : R2 = [p \in 0 .. m2.pairs-1 |->
                        IF p \in DOMAIN Changes(f, c) THEN Changes(f, c)[p] ELSE Payload(f, p)]
  OBVIOUS
<1>2. Overlaid(f, c, m2, R2)
  BY <1>1 DEF Overlaid
<1>3. Commits(f, c, m2)
  BY <1>2, CallCommits
<1>4. DOMAIN Changes(f, c) \subseteq 0 .. m2.pairs-1 /\ 0 .. m2.pairs-1 \subseteq Page
  BY <1>3 DEF Commits, MetaOK
<1>5. \A p \in Nat : Target(f, p) \in Slot
  BY NewestRead DEF Target, Spare, Slot
<1>6. \A p \in 0 .. m2.pairs-1 : p \in Nat
  OBVIOUS
<1> QED
  BY <1>3, <1>4, <1>5, <1>6

LEMMA CommitImage ==
  ASSUME NEW f, NEW c, Held(f), Feasible(f, c), c # NoCall, StaleIn(f, c), Written(f, c),
         NEW g, g = Committing(f, c)
  PROVE  /\ g = [super |-> g.super, arena |-> f.arena, len |-> f.len]
         /\ Epoch(g.super) = Epoch(f.super) + 1 /\ Epoch(f.super) \in Nat
         /\ Meta(g) = PlanOf(f, c).meta
         /\ Held(g) /\ StaleIn(g, NoCall)
         /\ Overlaid(f, c, Meta(g), Rows(g))
         /\ Commits(f, c, Meta(g)) /\ Moved(f, c, Meta(g), Rows(g))
<1> DEFINE m  == Meta(f)
           m2 == PlanOf(f, c).meta
           e  == Epoch(f.super)
           D  == DOMAIN Changes(f, c)
<1>1. /\ FileOK(f) /\ MetaOK(m) /\ f.len >= m.pairs
      /\ \A p \in 0 .. m.pairs-1 : HasCommitted(f.arena[p], e)
      /\ m.format < 37 => \A p \in Page : p >= m.pairs => ~HasCommitted(f.arena[p], e)
  BY DEF Held
<1>2. /\ f = [super |-> f.super, arena |-> f.arena, len |-> f.len]
      /\ SuperOK(f.super)
      /\ f.arena = [p \in Page |-> [s \in Slot |-> f.arena[p][s]]]
      /\ \A p \in Page, s \in Slot : f.arena[p][s].epoch \in Nat
      /\ f.len \in Nat
  BY <1>1 DEF FileOK
<1>3. /\ Commits(f, c, m2)
      /\ \A p \in D : p \in Page /\ p \in Nat /\ Target(f, p) \in Slot /\ p \in 0 .. m2.pairs-1
  BY CallChanges
<1>4. /\ MetaOK(m2) /\ m2.format = m.format /\ m2.pairs <= m.pairs + 1
      /\ m2.pairs > m.pairs => m.pairs \in D
      /\ m2.format < 37 => m2.pairs >= m.pairs
      /\ m2.pairs \in Nat /\ m.pairs \in Nat /\ 0 .. m2.pairs-1 \subseteq Page
  BY <1>1, <1>3 DEF Commits, MetaOK
<1> DEFINE sup2 == [f.super EXCEPT ![1 - ActiveSlot(f.super)] = [epoch |-> e + 1, meta |-> m2]]
<1>5. e \in Nat /\ SuperOK(sup2) /\ Epoch(sup2) = e + 1 /\ MetaOf(sup2) = m2
  BY <1>2, SuperAdvances
<1>6. g = [super |-> sup2, arena |-> f.arena, len |-> f.len]
  <2> HIDE DEF m2, e
  <2>1. g = [f EXCEPT !.super[1 - ActiveSlot(f.super)] = [epoch |-> e + 1, meta |-> m2]]
    BY DEF Committing, m2, e
  <2> QED
    BY <1>2, <2>1
<1> HIDE DEF m, m2, e, D, sup2
<1>7. /\ g.super = sup2 /\ g.arena = f.arena /\ g.len = f.len
      /\ g = [super |-> g.super, arena |-> g.arena, len |-> g.len]
      /\ Epoch(g.super) = e + 1 /\ Meta(g) = m2
  BY <1>5, <1>6 DEF Meta
<1>8. \A p \in Page, s \in Slot : f.arena[p][s].epoch > e => p \in D /\ s = Target(f, p)
  BY DEF StaleIn, e, D
<1>9. \A p \in D : f.arena[p][Target(f, p)] = [epoch |-> e + 1, data |-> Changes(f, c)[p]]
  BY DEF Written, D, e
<1>10. ASSUME NEW p \in D
       PROVE  HasCommitted(f.arena[p], e+1) /\ ReadPage(f.arena[p], e+1) = Changes(f, c)[p]
  <2> DEFINE s == Target(f, p)
  <2>1. p \in Page /\ s \in Slot /\ 1-s \in Slot /\ 1-s # s
    BY <1>3 DEF Slot
  <2>2. f.arena[p][s].epoch = e+1 /\ f.arena[p][s].data = Changes(f, c)[p]
    <3>1. f.arena[p][s] = [epoch |-> e + 1, data |-> Changes(f, c)[p]]
      BY <1>9
    <3> HIDE DEF s
    <3> QED
      BY <3>1
  <2>3. f.arena[p][1-s].epoch <= e
    BY <1>2, <1>5, <1>8, <2>1
  <2> HIDE DEF s
  <2>4. \A t \in Slot : f.arena[p][t].epoch \in Nat
    BY <1>2, <2>1
  <2> QED
    BY <1>5, <2>1, <2>2, <2>3, <2>4, AheadReads
<1>11. ASSUME NEW p \in Page, p \notin D
       PROVE  /\ HasCommitted(f.arena[p], e+1) <=> HasCommitted(f.arena[p], e)
              /\ ReadPage(f.arena[p], e+1) = ReadPage(f.arena[p], e)
              /\ \A s \in Slot : f.arena[p][s].epoch <= e
  <2>1. \A s \in Slot : f.arena[p][s].epoch \in Nat /\ f.arena[p][s].epoch <= e
    BY <1>2, <1>5, <1>8, <1>11
  <2> QED
    BY <1>5, <2>1, NoneAhead
<1>12. \A p \in 0 .. m2.pairs-1 : p \notin D => p \in 0 .. m.pairs-1
  BY <1>4
<1>13. \A p \in 0 .. m2.pairs-1 : HasCommitted(g.arena[p], e+1)
  BY <1>1, <1>4, <1>7, <1>10, <1>11, <1>12 DEF m, e
<1>14. Overlaid(f, c, m2, Rows(g))
  <2> SUFFICES ASSUME NEW p \in 0 .. m2.pairs-1
               PROVE  Rows(g)[p] = IF p \in D THEN Changes(f, c)[p] ELSE Payload(f, p)
    BY DEF Overlaid, D
  <2>1. p \in Page /\ Rows(g)[p] = ReadPage(f.arena[p], e+1)
    BY <1>4, <1>7 DEF Rows, Payload
  <2> QED
    BY <1>10, <1>11, <2>1 DEF Payload, e
<1>15. Shaped(m2, Rows(g)) /\ Moved(f, c, m2, Rows(g))
  BY <1>14, CallCommits DEF m2
<1>16. m2.format < 37 => \A p \in Page : p >= m2.pairs => ~HasCommitted(g.arena[p], e+1)
  <2> SUFFICES ASSUME m2.format < 37, NEW p \in Page, p >= m2.pairs
               PROVE  ~HasCommitted(g.arena[p], e+1)
    OBVIOUS
  <2>1. p \in Nat
    BY PageAssumption
  <2>2. p \notin D /\ p >= m.pairs
    BY <1>3, <1>4, <2>1
  <2> QED
    BY <1>1, <1>4, <1>7, <1>11, <2>2 DEF m, e
<1>17. Held(g)
  <2>1. FileOK(g)
    BY <1>2, <1>5, <1>7 DEF FileOK
  <2>2. g.len >= m2.pairs
    BY <1>7 DEF Written, m2
  <2> QED
    BY <1>4, <1>7, <1>13, <1>15, <1>16, <2>1, <2>2 DEF Held
<1>18. StaleIn(g, NoCall)
  <2> SUFFICES ASSUME NEW p \in Page, NEW s \in Slot PROVE ~(g.arena[p][s].epoch > e+1)
    BY <1>7 DEF StaleIn
  <2>1. CASE p \in D /\ s = Target(f, p)
    <3>1. f.arena[p][s] = [epoch |-> e + 1, data |-> Changes(f, c)[p]]
      BY <1>9, <2>1
    <3>2. f.arena[p][s].epoch = e + 1
      BY <3>1
    <3> QED
      BY <1>5, <1>7, <3>2
  <2>2. CASE ~(p \in D /\ s = Target(f, p))
    BY <1>2, <1>5, <1>7, <1>8, <2>2
  <2> QED
    BY <2>1, <2>2
<1>19. Commits(f, c, m2)
  BY <1>3
<1> QED
  BY <1>5, <1>6, <1>7, <1>14, <1>15, <1>17, <1>18, <1>19 DEF m2, e

-----------------------------------------------------------------------------
(* References *)

\* The reference a retirement publishes is new, and becomes the tail.
LEMMA NewRefIsNew ==
  ASSUME NEW f, NEW c, Held(f), Feasible(f, c), c.kind = "retire", c.arg > 0
  PROVE  LET m   == Meta(f)
             ref == NewRef(f, m)
             m2  == PlanOf(f, c).meta
         IN  /\ ref = Ref(ref.page, ref.inc) /\ ref.page \in Page /\ ref.inc \in Nat /\ ref.inc > 0
             /\ ref.page \in DOMAIN Changes(f, c)
             /\ Changes(f, c)[ref.page] = Queued(ref.inc, m.gen, c.arg)
             /\ \A p \in DOMAIN Changes(f, c) : p # ref.page =>
                  p \in 0 .. m.pairs-1 /\ Changes(f, c)[p] = Relinked(Rows(f)[p], ref) /\ RowOK(Rows(f)[p])
             /\ m.format >= 37 => ref.inc = m.inc /\ m2.inc = m.inc + 1
             /\ m.format < 37 =>
                  IF m.fcount > 0 THEN ref.inc = Payload(f, ref.page).inc + 1 /\ Payload(f, ref.page).inc \in Nat
                                  ELSE ref.page = m.pairs
             /\ m.tail # ref /\ m2.tail = ref /\ m2.gen = m.gen + 1
<1> DEFINE m   == Meta(f)
           R   == Rows(f)
           ref == NewRef(f, m)
           m2  == PlanOf(f, c).meta
<1>1. MetaOK(m) /\ \E q \in Lists(m, m.count), s \in Lists(m, m.fcount) : Shape(m, R, q, s)
  BY DEF Held, Shaped
<1>2. PICK q, s : Shape(m, R, q, s)
  BY <1>1
<1> DEFINE z == q[m.count-1]
<1>3. /\ ref = Ref(ref.page, ref.inc) /\ ref.inc \in Nat /\ ref.inc > 0
      /\ ref.page = IF m.fcount > 0 THEN s[0] ELSE m.pairs
      /\ ref.page \in Page /\ ref.page \in Nat
      /\ \A i \in 0 .. m.count-1 : q[i] # ref.page
      /\ DOMAIN Changes(f, c) = {ref.page} \cup (IF m.count = 0 THEN {} ELSE {z})
      /\ Changes(f, c)[ref.page] = Queued(ref.inc, m.gen, c.arg)
      /\ m.count > 0 => Changes(f, c)[z] = Relinked(R[z], ref)
      /\ c.arg \in Nat
  BY <1>2, RetireTakes
<1>4. /\ m.tail = NoRef <=> m.count = 0
      /\ m.count > 0 => z \in 0 .. m.pairs-1 /\ m.tail.page = z
      /\ m.fcount > 0 => s[0] \in 0 .. m.pairs-1 /\ m.free.page = s[0]
      /\ m.count \in Nat /\ m.fcount \in Nat /\ m.pairs \in Nat
  BY <1>1, <1>2, Ends DEF MetaOK
<1>5. m.count > 0 => RowOK(R[z]) /\ m.count-1 \in 0 .. m.count-1
  <2> SUFFICES ASSUME m.count > 0 PROVE RowOK(R[z]) /\ m.count-1 \in 0 .. m.count-1
    OBVIOUS
  <2>1. m.count-1 \in 0 .. m.count-1
    BY <1>4
  <2> QED
    BY <1>2, <2>1 DEF Shape, Linked
<1>6. /\ m = [format |-> m.format, gen |-> m.gen, head |-> m.head, tail |-> m.tail,
              count |-> m.count, free |-> m.free, fcount |-> m.fcount, pairs |-> m.pairs,
              inc |-> m.inc]
      /\ m.format \in {34, 35, 37, 38} /\ m.inc \in Nat /\ m.gen \in Nat
  BY <1>1 DEF MetaOK
<1>7. m2 = Enqueued(f, m, ref)
  <2>1. PlanOf(f, c).meta = RetirePlan(f, m, c.arg).meta /\ c.arg # 0
    BY <1>3 DEF PlanOf
  <2> QED
    BY <2>1 DEF RetirePlan, Plan
<1>8. /\ m.format >= 37 => ref.inc = m.inc
      /\ m.format < 37 =>
           IF m.fcount > 0 THEN ref.inc = Payload(f, ref.page).inc + 1 /\ Payload(f, ref.page).inc \in Nat
                           ELSE ref.page = m.pairs
  <2>1. m.fcount > 0 => RowOK(R[s[0]]) /\ R[s[0]] = Payload(f, s[0])
    <3> SUFFICES ASSUME m.fcount > 0 PROVE RowOK(R[s[0]]) /\ R[s[0]] = Payload(f, s[0])
      OBVIOUS
    <3>1. 0 \in 0 .. m.fcount-1 /\ s[0] \in 0 .. m.pairs-1
      BY <1>4
    <3>2. RowOK(R[s[0]])
      BY <1>2, <3>1 DEF Shape, Linked
    <3> QED
      BY <1>1, <3>1, <3>2, RowsRead
  <2>2. m.fcount > 0 => Payload(f, ref.page).inc \in Nat
    BY <1>3, <2>1 DEF RowOK
  <2> QED
    BY <1>3, <1>4, <1>6, <2>2 DEF NewRef, Reusing, Ref
<1> HIDE DEF m, ref, m2, R
<1>9. m2.tail = ref /\ m2.gen = m.gen + 1 /\ (m.format >= 37 => m2.inc = m.inc + 1)
  BY <1>6, <1>7 DEF Enqueued
<1>10. m.tail # ref
  BY <1>3, <1>4, <1>5 DEF Ref, NoRef
<1>11. \A p \in DOMAIN Changes(f, c) : p # ref.page =>
         p \in 0 .. m.pairs-1 /\ Changes(f, c)[p] = Relinked(R[p], ref) /\ RowOK(R[p])
  BY <1>3, <1>4, <1>5
<1>12. ref.page \in DOMAIN Changes(f, c)
  BY <1>3
<1> QED
  BY <1>3, <1>8, <1>9, <1>10, <1>11, <1>12 DEF m, ref, m2, R

\* Any other call changes no identity, and leaves the tail or clears it.
LEMMA OthersKeep ==
  ASSUME NEW f, NEW c, Held(f), Feasible(f, c), c # NoCall, ~(c.kind = "retire" /\ c.arg > 0)
  PROVE  LET m  == Meta(f)
             m2 == PlanOf(f, c).meta
         IN  /\ \A p \in DOMAIN Changes(f, c) :
                  /\ p \in 0 .. m.pairs-1 /\ Changes(f, c)[p].inc = Payload(f, p).inc
                  /\ Changes(f, c)[p].status = "QUEUED" => Payload(f, p).status = "QUEUED"
                                                           /\ Changes(f, c)[p].gen = Payload(f, p).gen
             /\ m2.tail \in {NoRef, m.tail} /\ m2.inc = m.inc /\ m2.pairs <= m.pairs
<1> DEFINE m  == Meta(f)
           R  == Rows(f)
           m2 == PlanOf(f, c).meta
<1>1. /\ MetaOK(m) /\ m.pairs \in Nat /\ m.count \in Nat
      /\ m = [format |-> m.format, gen |-> m.gen, head |-> m.head, tail |-> m.tail,
              count |-> m.count, free |-> m.free, fcount |-> m.fcount, pairs |-> m.pairs,
              inc |-> m.inc]
  BY DEF Held, MetaOK
<1>2. CASE c.kind = "retire"
  <2>1. c.arg \in OwnerCounts
    <3>1. Call("shrink", 0).kind = "shrink"
      BY DEF Call
    <3> QED
      BY <1>2, <3>1 DEF Feasible
  <2>2. c.arg = 0
    <3>1. c.arg \in Nat
      BY <2>1, OwnerCountsAssumption
    <3>2. ~(c.arg > 0)
      BY <1>2
    <3> QED
      BY <3>1, <3>2
  <2>3. DOMAIN Changes(f, c) = {}
    BY <1>2, <2>2 DEF Changes
  <2>4. m2 = [m EXCEPT !.gen = @ + 1]
    BY <1>2, <2>2 DEF PlanOf, RetirePlan, Plan
  <2> HIDE DEF m, m2
  <2>5. m2.tail = m.tail /\ m2.inc = m.inc /\ m2.pairs <= m.pairs
    BY <1>1, <2>4
  <2> QED
    BY <2>3, <2>5 DEF m, m2
<1>3. CASE c.kind = "reclaim"
  <2>1. \E q \in Lists(m, m.count), s \in Lists(m, m.fcount) : Shape(m, R, q, s)
    BY DEF Held, Shaped
  <2>2. PICK q, s : Shape(m, R, q, s)
    BY <2>1
  <2> DEFINE row == R[q[0]]
             ch  == Changes(f, c)
  <2>3. /\ m.count > 0 /\ m.head.page = q[0] /\ m.head = RefAt(R, q[0])
        /\ RowOK(row) /\ row.status = "QUEUED" /\ q[0] \in 0 .. m.pairs-1
        /\ row = Payload(f, m.head.page)
        /\ c.arg \in Nat /\ c.arg > 0
        /\ row.left > c.arg => DOMAIN ch = {q[0]} /\ ch[q[0]] = Drops(row, c.arg) /\ m2 = m
        /\ row.left <= c.arg /\ (m.format = 34 \/ (m.format >= 37 /\ m.count = 1)) => DOMAIN ch = {}
        /\ row.left <= c.arg /\ m.format = 34 => m2 = Dequeued(m, row)
        /\ row.left <= c.arg /\ m.format >= 37 /\ m.count = 1 =>
             m2 = [Dequeued(m, row) EXCEPT !.free = NoRef, !.fcount = 0, !.pairs = 0]
        /\ row.left <= c.arg /\ m.format # 34 /\ ~(m.format >= 37 /\ m.count = 1) =>
             /\ DOMAIN ch = {q[0]} /\ ch[q[0]] = Freed(row.inc, m.free)
             /\ m2 = [Dequeued(m, row) EXCEPT !.free = m.head, !.fcount = @ + 1]
    BY <1>3, <2>2, ReclaimTakes
  <2>4. row.left \in Nat /\ row = Payload(f, q[0])
    BY <2>3 DEF RowOK
  <2> HIDE DEF m, m2, row, ch, R
  <2>5. \A n : Drops(row, n).inc = row.inc /\ Drops(row, n).status = row.status /\ Drops(row, n).gen = row.gen
    <3>1. row = [inc |-> row.inc, status |-> row.status, gen |-> row.gen, left |-> row.left,
                 next |-> row.next]
      BY <2>3 DEF RowOK
    <3> QED
      BY <3>1 DEF Drops
  <2>6. \A r : Freed(row.inc, r).inc = row.inc /\ Freed(row.inc, r).status = "FREE"
    BY DEF Freed
  <2>7. \A p \in DOMAIN ch :
          /\ p \in 0 .. m.pairs-1 /\ ch[p].inc = Payload(f, p).inc
          /\ ch[p].status = "QUEUED" => Payload(f, p).status = "QUEUED" /\ ch[p].gen = Payload(f, p).gen
    BY <2>3, <2>4, <2>5, <2>6
  <2> DEFINE d == Dequeued(m, row)
  <2>8. /\ d = [format |-> d.format, gen |-> d.gen, head |-> d.head, tail |-> d.tail,
                count |-> d.count, free |-> d.free, fcount |-> d.fcount, pairs |-> d.pairs,
                inc |-> d.inc]
        /\ d.tail \in {NoRef, m.tail} /\ d.inc = m.inc /\ d.pairs = m.pairs
    <3>1. d = [m EXCEPT !.head = row.next, !.tail = IF m.count = 1 THEN NoRef ELSE @, !.count = @ - 1]
      BY DEF Dequeued
    <3> HIDE DEF d
    <3>2. d = [format |-> m.format, gen |-> m.gen, head |-> row.next,
               tail |-> IF m.count = 1 THEN NoRef ELSE m.tail, count |-> m.count - 1, free |-> m.free,
               fcount |-> m.fcount, pairs |-> m.pairs, inc |-> m.inc]
      BY <1>1, <3>1
    <3> QED
      BY <3>2
  <2> HIDE DEF d
  <2>9. m2.tail \in {NoRef, m.tail} /\ m2.inc = m.inc /\ m2.pairs <= m.pairs
    <3>1. CASE m2 = m
      BY <1>1, <3>1
    <3>2. CASE m2 = d
      BY <1>1, <2>8, <3>2
    <3>3. CASE m2 = [d EXCEPT !.free = NoRef, !.fcount = 0, !.pairs = 0]
      BY <1>1, <2>8, <3>3
    <3>4. CASE m2 = [d EXCEPT !.free = m.head, !.fcount = @ + 1]
      BY <1>1, <2>8, <3>4
    <3> QED
      BY <2>3, <2>4, <3>1, <3>2, <3>3, <3>4 DEF d
  <2> QED
    BY <2>7, <2>9 DEF m, m2, ch
<1>4. CASE c = Call("shrink", 0)
  <2>1. DOMAIN Changes(f, c) = {} /\ c.kind # "retire" /\ c.kind # "reclaim"
    BY <1>4 DEF Changes, Call
  <2>2. CanShrink(m)
    BY <1>4, <2>1 DEF Feasible
  <2>3. m2 = [m EXCEPT !.free = Payload(f, m.free.page).next, !.fcount = @ - 1, !.pairs = @ - 1]
    BY <2>1 DEF PlanOf, ShrinkPlan, Plan
  <2>4. m.pairs > 0
    BY <2>2 DEF CanShrink
  <2> HIDE DEF m, m2
  <2>5. m2.tail = m.tail /\ m2.inc = m.inc /\ m2.pairs <= m.pairs
    BY <1>1, <2>3, <2>4
  <2> QED
    BY <2>1, <2>5 DEF m, m2
<1> QED
  BY <1>2, <1>3, <1>4 DEF Feasible

NewGivenBy(m, m2) ==
  IF m2.tail \in {NoRef, m.tail} THEN {} ELSE {[ref |-> m2.tail, gen |-> m2.gen - 1]}

\* A commit publishes the reference of its new tail, if it has one.
LEMMA CommitPublishes ==
  ASSUME NEW f, NEW c, Held(f), Feasible(f, c), c # NoCall
  PROVE  NewGivenBy(Meta(f), PlanOf(f, c).meta) = NewGiven(f, c)
<1> DEFINE m   == Meta(f)
           ref == NewRef(f, m)
           m2  == PlanOf(f, c).meta
<1>1. CASE c.kind = "retire" /\ c.arg > 0
  <2>1. /\ ref = Ref(ref.page, ref.inc) /\ ref.inc \in Nat /\ ref.inc > 0
        /\ m.tail # ref /\ m2.tail = ref /\ m2.gen = m.gen + 1
    BY <1>1, NewRefIsNew
  <2>2. m.gen \in Nat
    BY DEF Held, MetaOK
  <2>3. NewGiven(f, c) = {[ref |-> ref, gen |-> m.gen]}
    BY <1>1 DEF NewGiven
  <2> HIDE DEF m, ref, m2
  <2>4. ref # NoRef /\ m2.gen - 1 = m.gen
    BY <2>1, <2>2 DEF Ref, NoRef
  <2>5. NewGivenBy(m, m2) = {[ref |-> ref, gen |-> m.gen]}
    BY <2>1, <2>4 DEF NewGivenBy
  <2> QED
    BY <2>3, <2>5 DEF m, m2
<1>2. CASE ~(c.kind = "retire" /\ c.arg > 0)
  <2>1. m2.tail \in {NoRef, m.tail}
    BY <1>2, OthersKeep
  <2>2. NewGiven(f, c) = {}
    BY <1>2 DEF NewGiven
  <2> QED
    BY <2>1, <2>2 DEF NewGivenBy
<1> QED
  BY <1>1, <1>2

LEMMA CommitRecords ==
  ASSUME NEW G, NEW f, NEW c, Sound(G, f, c), c # NoCall, OneEach(G),
         NEW g, Meta(g) = PlanOf(f, c).meta, Overlaid(f, c, Meta(g), Rows(g)), Commits(f, c, Meta(g)),
         NEW G2, G2 = G \cup NewGiven(f, c)
  PROVE  Recorded(G2, g, NoCall) /\ Recorded(G2, f, c) /\ OneEach(G2)
<1> DEFINE m   == Meta(f)
           ref == NewRef(f, m)
           m2  == Meta(g)
           D   == DOMAIN Changes(f, c)
<1>1. /\ Held(f) /\ Feasible(f, c) /\ MetaOK(m)
      /\ \A h \in G : Before(f, h) \/ h \in NewGiven(f, c)
      /\ \A p \in 0 .. m.pairs-1 : Payload(f, p).status = "QUEUED" =>
           [ref |-> Ref(p, Payload(f, p).inc), gen |-> Payload(f, p).gen] \in G
  BY DEF Sound, Recorded, Held
<1>2. /\ MetaOK(m2) /\ m2.format = m.format /\ m2.pairs <= m.pairs + 1
      /\ m2.pairs > m.pairs => m.pairs \in D
      /\ m2.format < 37 => m2.pairs >= m.pairs
      /\ D \subseteq 0 .. m2.pairs-1
  BY DEF Commits
<1>3. /\ m.pairs \in Nat /\ m2.pairs \in Nat /\ 0 .. m2.pairs-1 \subseteq Page /\ 0 .. m.pairs-1 \subseteq Page
      /\ m.inc \in Nat /\ m2.inc \in Nat /\ m.format \in {34, 35, 37, 38} /\ m.gen \in Nat
  BY <1>1, <1>2 DEF MetaOK
<1>4. \A p \in 0 .. m2.pairs-1 :
        Payload(g, p) = IF p \in D THEN Changes(f, c)[p] ELSE Payload(f, p)
  BY <1>2, RowsRead DEF Overlaid
<1>5. Recorded(G2, f, c)
  BY <1>1 DEF Recorded
<1>6. \A p \in 0 .. m2.pairs-1 : p \notin D => p \in 0 .. m.pairs-1
  BY <1>2, <1>3
<1>7. \A h \in G : h = [ref |-> h.ref, gen |-> h.gen] /\ h.ref \in [page : Page, inc : Nat]
  BY DEF OneEach
<1>7a. \A h \in G : h.ref.page \in Nat /\ h.ref.inc \in Nat
  BY <1>7, PageAssumption
<1>8. CASE c.kind = "retire" /\ c.arg > 0
  <2>1. /\ ref = Ref(ref.page, ref.inc) /\ ref.page \in Page /\ ref.inc \in Nat /\ ref.inc > 0
        /\ ref.page \in D
        /\ Changes(f, c)[ref.page] = Queued(ref.inc, m.gen, c.arg)
        /\ \A p \in D : p # ref.page =>
             p \in 0 .. m.pairs-1 /\ Changes(f, c)[p] = Relinked(Rows(f)[p], ref) /\ RowOK(Rows(f)[p])
        /\ m.format >= 37 => ref.inc = m.inc /\ m2.inc = m.inc + 1
        /\ m.format < 37 =>
             IF m.fcount > 0 THEN ref.inc = Payload(f, ref.page).inc + 1 /\ Payload(f, ref.page).inc \in Nat
                             ELSE ref.page = m.pairs
    BY <1>1, <1>8, NewRefIsNew
  <2>2. NewGiven(f, c) = {[ref |-> ref, gen |-> m.gen]}
    BY <1>8 DEF NewGiven
  <2> DEFINE new == [ref |-> ref, gen |-> m.gen]
  <2>3. \A p \in D : p # ref.page =>
          /\ p \in 0 .. m.pairs-1 /\ Changes(f, c)[p].inc = Payload(f, p).inc
          /\ Changes(f, c)[p].status = Payload(f, p).status
          /\ Changes(f, c)[p].gen = Payload(f, p).gen
          /\ Payload(f, p).inc \in Nat
    <3> SUFFICES ASSUME NEW p \in D, p # ref.page
                 PROVE  /\ p \in 0 .. m.pairs-1 /\ Changes(f, c)[p].inc = Payload(f, p).inc
                        /\ Changes(f, c)[p].status = Payload(f, p).status
                        /\ Changes(f, c)[p].gen = Payload(f, p).gen
                        /\ Payload(f, p).inc \in Nat
      OBVIOUS
    <3>1. p \in 0 .. m.pairs-1 /\ Changes(f, c)[p] = Relinked(Rows(f)[p], ref) /\ RowOK(Rows(f)[p])
      BY <2>1
    <3>2. Rows(f)[p] = Payload(f, p)
      BY <1>1, <3>1, RowsRead
    <3> HIDE DEF m, ref, m2, D
    <3> QED
      BY <3>1, <3>2 DEF RowOK, Relinked
  <2> HIDE DEF m, ref, m2, D
  <2>4. /\ Queued(ref.inc, m.gen, c.arg).inc = ref.inc /\ Queued(ref.inc, m.gen, c.arg).gen = m.gen
    BY DEF Queued
  <2>5. Payload(g, ref.page).inc = ref.inc /\ Payload(g, ref.page).gen = m.gen
        /\ ref.page \in 0 .. m2.pairs-1
    <3>1. ref.page \in 0 .. m2.pairs-1
      BY <1>2, <2>1
    <3> QED
      BY <1>4, <2>1, <2>4, <3>1
  <2>6. ASSUME NEW h \in G, Before(f, h)
        PROVE  Before(g, h) /\ h.ref # ref
    <3>1. CASE m.format >= 37
      BY <1>2, <1>3, <1>7a, <2>1, <2>6, <3>1 DEF Before, m, m2
    <3>2. CASE m.format < 37
      <4>1. h.ref.page < m.pairs /\ h.ref.inc <= Payload(f, h.ref.page).inc
        BY <1>3, <2>6, <3>2 DEF Before, m
      <4>2. h.ref.page < m2.pairs /\ h.ref.page \in 0 .. m2.pairs-1 /\ h.ref.page \in 0 .. m.pairs-1
        BY <1>2, <1>3, <1>7a, <3>2, <4>1
      <4>3. h.ref # ref
        BY <1>3, <1>7a, <2>1, <3>2, <4>1
      <4>4. h.ref.inc <= Payload(g, h.ref.page).inc
        <5>1. CASE h.ref.page = ref.page
          <6>1. ref.inc = Payload(f, ref.page).inc + 1 /\ Payload(f, ref.page).inc \in Nat
            BY <1>3, <1>7a, <2>1, <3>2, <4>1, <5>1
          <6> QED
            BY <1>7a, <2>1, <2>5, <4>1, <5>1, <6>1
        <5>2. CASE h.ref.page # ref.page
          <6>1. Payload(g, h.ref.page).inc = Payload(f, h.ref.page).inc
            BY <1>4, <2>3, <4>2, <5>2
          <6> QED
            BY <4>1, <6>1
        <5> QED
          BY <5>1, <5>2
      <4>5. ~(Meta(g).format >= 37)
        BY <1>2, <1>3, <3>2 DEF m2
      <4> QED
        BY <4>2, <4>3, <4>4, <4>5 DEF Before, m2
    <3> QED
      BY <1>3, <3>1, <3>2
  <2>7. Before(g, new)
    <3>1. CASE m.format >= 37
      BY <1>2, <1>3, <2>1, <3>1 DEF Before, m2
    <3>2. CASE m.format < 37
      <4>1. ~(Meta(g).format >= 37)
        BY <1>2, <1>3, <3>2 DEF m2
      <4>2. ref.page < m2.pairs /\ ref.inc <= Payload(g, ref.page).inc
        BY <1>3, <2>1, <2>5
      <4> QED
        BY <4>1, <4>2 DEF Before, m2
    <3> QED
      BY <1>3, <3>1, <3>2
  <2>8. \A h \in G2 : (h \in G /\ Before(f, h)) \/ h = new
    BY <1>1, <2>2
  <2>9. \A h \in G2 : Before(g, h)
    BY <2>6, <2>7, <2>8
  <2>10. ASSUME NEW p \in 0 .. m2.pairs-1, Payload(g, p).status = "QUEUED"
         PROVE  [ref |-> Ref(p, Payload(g, p).inc), gen |-> Payload(g, p).gen] \in G2
    <3>1. CASE p = ref.page
      BY <2>1, <2>2, <2>5, <3>1
    <3>2. CASE p # ref.page
      <4>1. p \in 0 .. m.pairs-1 /\ Payload(g, p).inc = Payload(f, p).inc
            /\ Payload(g, p).status = Payload(f, p).status /\ Payload(g, p).gen = Payload(f, p).gen
        BY <1>4, <1>6, <2>3, <3>2
      <4>2. [ref |-> Ref(p, Payload(f, p).inc), gen |-> Payload(f, p).gen] \in G
        BY <1>1, <2>10, <4>1
      <4> QED
        BY <4>1, <4>2
    <3> QED
      BY <3>1, <3>2
  <2>11. Recorded(G2, g, NoCall)
    BY <2>9, <2>10 DEF Recorded, m2
  <2>12. OneEach(G2)
    <3>1. new = [ref |-> new.ref, gen |-> new.gen] /\ new.ref \in [page : Page, inc : Nat]
      BY <2>1 DEF Ref
    <3>2. \A h \in G2 : h = [ref |-> h.ref, gen |-> h.gen] /\ h.ref \in [page : Page, inc : Nat]
      BY <1>7, <2>8, <3>1
    <3>3. \A h, k \in G : h.ref = k.ref => h.gen = k.gen
      BY DEF OneEach
    <3>4. new.ref = ref
      OBVIOUS
    <3> HIDE DEF new
    <3>5. \A h, k \in G2 : h.ref = k.ref => h.gen = k.gen
      BY <2>6, <2>8, <3>3, <3>4
    <3> QED
      BY <3>2, <3>5 DEF OneEach
  <2> QED
    BY <1>5, <2>11, <2>12
<1>9. CASE ~(c.kind = "retire" /\ c.arg > 0)
  <2>1. /\ \A p \in D :
             /\ p \in 0 .. m.pairs-1 /\ Changes(f, c)[p].inc = Payload(f, p).inc
             /\ Changes(f, c)[p].status = "QUEUED" => Payload(f, p).status = "QUEUED"
                                                      /\ Changes(f, c)[p].gen = Payload(f, p).gen
        /\ m2.inc = m.inc /\ m2.pairs <= m.pairs
    BY <1>1, <1>9, OthersKeep
  <2>2. NewGiven(f, c) = {} /\ G2 = G
    BY <1>9 DEF NewGiven
  <2> HIDE DEF m, m2, D
  <2>3. \A p \in 0 .. m2.pairs-1 :
          /\ p \in 0 .. m.pairs-1 /\ Payload(g, p).inc = Payload(f, p).inc
          /\ Payload(g, p).status = "QUEUED" => Payload(f, p).status = "QUEUED"
                                                /\ Payload(g, p).gen = Payload(f, p).gen
    BY <1>3, <1>4, <2>1
  <2>4. ASSUME NEW h \in G
        PROVE  Before(g, h)
    <3>1. Before(f, h)
      BY <1>1, <2>2
    <3>2. CASE m.format >= 37
      BY <1>2, <2>1, <3>1, <3>2 DEF Before, m, m2
    <3>3. CASE m.format < 37
      <4>1. h.ref.page < m.pairs /\ h.ref.inc <= Payload(f, h.ref.page).inc
        BY <3>1, <3>3, <1>3 DEF Before, m
      <4>2. h.ref.page < m2.pairs /\ h.ref.page \in 0 .. m2.pairs-1
        BY <1>2, <1>3, <1>7a, <3>3, <4>1
      <4>3. h.ref.inc <= Payload(g, h.ref.page).inc
        BY <2>3, <4>1, <4>2
      <4>4. ~(Meta(g).format >= 37)
        BY <1>2, <1>3, <3>3 DEF m2
      <4> QED
        BY <4>2, <4>3, <4>4 DEF Before, m2
    <3> QED
      BY <1>3, <3>2, <3>3
  <2>5. Recorded(G2, g, NoCall)
    BY <1>1, <2>2, <2>3, <2>4 DEF Recorded, m2
  <2> QED
    BY <1>5, <2>2, <2>5
<1> QED
  BY <1>8, <1>9

-----------------------------------------------------------------------------
(* Images that are alike *)

LEMMA AlikeBack ==
  ASSUME NEW f, NEW g, Alike(g, f)
  PROVE  Alike(f, g)
BY DEF Alike, Meta

LEMMA AlikeThrough ==
  ASSUME NEW f, NEW g, NEW h, Alike(g, f), Alike(h, g)
  PROVE  Alike(h, f)
<1> SUFFICES ASSUME NEW p \in 0 .. Meta(f).pairs-1
             PROVE  LET n == NewestSlot(f.arena[p], Epoch(f.super))
                    IN  NewestSlot(h.arena[p], Epoch(f.super)) = n /\ h.arena[p][n] = f.arena[p][n]
  BY DEF Alike
<1>1. g.super = f.super /\ h.super = f.super /\ Meta(g) = Meta(f)
  BY DEF Alike, Meta
<1>2. LET n == NewestSlot(f.arena[p], Epoch(f.super))
      IN  NewestSlot(g.arena[p], Epoch(f.super)) = n /\ g.arena[p][n] = f.arena[p][n]
  BY DEF Alike
<1>3. LET n == NewestSlot(g.arena[p], Epoch(g.super))
      IN  NewestSlot(h.arena[p], Epoch(g.super)) = n /\ h.arena[p][n] = g.arena[p][n]
  BY <1>1 DEF Alike
<1> QED
  BY <1>1, <1>2, <1>3

LEMMA ShapeKeeps ==
  ASSUME NEW m, MetaOK(m), NEW R, NEW q, NEW s, Shape(m, R, q, s),
         NEW R2, \A p \in 0 .. m.pairs-1 : R2[p] = R[p]
  PROVE  Shape(m, R2, q, s)
<1>1. /\ m.count \in Nat /\ m.fcount \in Nat
      /\ q \in [0 .. m.count-1 -> 0 .. m.pairs-1] /\ s \in [0 .. m.fcount-1 -> 0 .. m.pairs-1]
  BY DEF MetaOK, Shape, Lists
<1>2. /\ \A i \in 0 .. m.count-1 : R2[q[i]] = R[q[i]]
      /\ \A i \in 0 .. m.fcount-1 : R2[s[i]] = R[s[i]]
  BY <1>1
<1>3. Linked(R2, m.count, q, m.head, "QUEUED") /\ Linked(R2, m.fcount, s, m.free, "FREE")
  <2>1. Linked(R, m.count, q, m.head, "QUEUED") /\ Linked(R, m.fcount, s, m.free, "FREE")
    BY DEF Shape
  <2>2. Linked(R2, m.count, q, m.head, "QUEUED")
    BY <1>1, <1>2, <2>1, ListKeeps
  <2>3. Linked(R2, m.fcount, s, m.free, "FREE")
    BY <1>1, <1>2, <2>1, ListKeeps
  <2> QED
    BY <2>2, <2>3
<1>4. m.count # 0 => RefAt(R2, q[m.count-1]) = RefAt(R, q[m.count-1])
  <2>1. m.count # 0 => m.count-1 \in 0 .. m.count-1
    BY <1>1
  <2> QED
    BY <1>2, <2>1 DEF RefAt
<1> QED
  BY <1>3, <1>4 DEF Shape

\* What is sound of an image is sound of one that is alike.
LEMMA AlikeSound ==
  ASSUME NEW G, OneEach(G), NEW f, NEW c, Sound(G, f, c), NEW g, Alike(g, f), FileOK(g),
         g.len >= Meta(f).pairs,
         \A p \in Page, s \in Slot : g.arena[p][s].epoch > Epoch(f.super) =>
           p \in DOMAIN Changes(f, c) /\ s = Target(f, p),
         Meta(f).format < 37 =>
           \A p \in Page : p >= Meta(f).pairs => ~HasCommitted(g.arena[p], Epoch(f.super))
  PROVE  Sound(G, g, c)
<1> DEFINE m == Meta(f)
<1>1. Held(f) /\ Feasible(f, c) /\ StaleIn(f, c) /\ Recorded(G, f, c) /\ MetaOK(m)
  BY DEF Sound, Held
<1>2. /\ Changes(g, c) = Changes(f, c) /\ Feasible(g, c) /\ NewGiven(g, c) = NewGiven(f, c)
      /\ \A p \in Nat : Target(g, p) = Target(f, p)
  BY <1>1, AlikePlans
<1>3. /\ Meta(g) = m /\ Epoch(g.super) = Epoch(f.super)
      /\ \A p \in 0 .. m.pairs-1 :
           /\ Payload(g, p) = Payload(f, p)
           /\ HasCommitted(g.arena[p], Epoch(g.super)) <=> HasCommitted(f.arena[p], Epoch(f.super))
  BY AlikeReads
<1>4. Shaped(m, Rows(g))
  <2>1. \E q \in Lists(m, m.count), s \in Lists(m, m.fcount) : Shape(m, Rows(f), q, s)
    BY <1>1 DEF Held, Shaped
  <2>2. PICK q \in Lists(m, m.count), s \in Lists(m, m.fcount) : Shape(m, Rows(f), q, s)
    BY <2>1
  <2>3. \A p \in 0 .. m.pairs-1 : Rows(f)[p] = Payload(f, p)
    BY <1>1, RowsRead
  <2>4. \A p \in 0 .. m.pairs-1 : Rows(g)[p] = Payload(g, p)
    BY <1>1, <1>3, RowsRead
  <2>5. \A p \in 0 .. m.pairs-1 : Rows(g)[p] = Rows(f)[p]
    BY <1>3, <2>3, <2>4
  <2>6. Shape(m, Rows(g), q, s)
    BY <1>1, <2>2, <2>5, ShapeKeeps
  <2> QED
    BY <2>6 DEF Shaped
<1>5. Held(g)
  BY <1>1, <1>3, <1>4 DEF Held
<1>6. StaleIn(g, c)
  BY <1>2, <1>3, PageAssumption DEF StaleIn
<1>7. Recorded(G, g, c)
  <2>1. \A h \in G : h.ref.page \in Nat
    BY PageAssumption DEF OneEach
  <2>2. m.pairs \in Nat /\ m.format \in {34, 35, 37, 38}
    BY <1>1 DEF MetaOK
  <2>3. \A h \in G : Before(f, h) => Before(g, h)
    BY <1>3, <2>1, <2>2 DEF Before
  <2> QED
    BY <1>1, <1>2, <1>3, <2>3 DEF Recorded
<1> QED
  BY <1>2, <1>5, <1>6, <1>7 DEF Sound

Rewrite(f, p, s, data) == [f EXCEPT !.arena[p][s] = [epoch |-> Epoch(f.super) + 1, data |-> data]]

Rewritten(g, f, p, s, data) ==
  /\ g.super = f.super /\ g.len = f.len
  /\ g.arena[p][s] = [epoch |-> Epoch(f.super) + 1, data |-> data]
  /\ \A r \in Page, t \in Slot : ~(r = p /\ t = s) => g.arena[r][t] = f.arena[r][t]

\* One write of the call, to a copy that is not read.
LEMMA WriteSound ==
  ASSUME NEW G, OneEach(G), NEW f, NEW c, Sound(G, f, c), c # NoCall,
         NEW p \in DOMAIN Changes(f, c), NEW s, s = Target(f, p), NEW data,
         NEW g, g = Rewrite(f, p, s, data)
  PROVE  Alike(g, f) /\ Sound(G, g, c) /\ Rewritten(g, f, p, s, data)
<1> DEFINE m == Meta(f)
           e == Epoch(f.super)
           w == [epoch |-> e + 1, data |-> data]
<1>1. Held(f) /\ Feasible(f, c) /\ StaleIn(f, c) /\ Recorded(G, f, c) /\ MetaOK(m) /\ FileOK(f)
  BY DEF Sound, Held
<1>2. p \in Page /\ p \in Nat /\ s \in Slot
  BY <1>1, CallChanges
<1>3. /\ f = [super |-> f.super, arena |-> f.arena, len |-> f.len]
      /\ SuperOK(f.super)
      /\ f.arena = [q \in Page |-> [t \in Slot |-> f.arena[q][t]]]
      /\ \A q \in Page, t \in Slot : f.arena[q][t].epoch \in Nat
      /\ f.len \in Nat
  BY <1>1 DEF FileOK
<1>4. e \in Nat
  BY <1>3, SuperAdvances
<1> HIDE DEF e, m
<1>5. w.epoch = e + 1
  OBVIOUS
<1> HIDE DEF w
<1> DEFINE b == [f.arena EXCEPT ![p][s] = w]
<1>6. g = [super |-> f.super, arena |-> b, len |-> f.len]
  <2>1. g = [f EXCEPT !.arena[p][s] = w]
    BY DEF w, e, Rewrite
  <2> QED
    BY <1>3, <2>1
<1> HIDE DEF b
<1>7. /\ g.super = f.super /\ g.len = f.len /\ g = [super |-> g.super, arena |-> g.arena, len |-> g.len]
      /\ g.arena = b
  <2>1. g.super = f.super /\ g.len = f.len /\ g.arena = b
    BY <1>6
  <2> QED
    BY <1>6, <2>1
<1>8. /\ g.arena = [q \in Page |-> [t \in Slot |-> g.arena[q][t]]]
      /\ g.arena[p][s] = w
      /\ \A r \in Page, t \in Slot : ~(r = p /\ t = s) => g.arena[r][t] = f.arena[r][t]
      /\ g.arena[p] = [f.arena[p] EXCEPT ![s] = w]
      /\ \A r \in Page : r # p => g.arena[r] = f.arena[r]
  <2>1. PICK a : a = f.arena
    OBVIOUS
  <2>2. a = [q \in Page |-> [t \in Slot |-> a[q][t]]] /\ b = [a EXCEPT ![p][s] = w]
    BY <1>3, <2>1 DEF b
  <2>3. /\ b = [q \in Page |-> b[q]] /\ b[p] = [a[p] EXCEPT ![s] = w]
        /\ \A r \in Page : r # p => b[r] = a[r]
    BY <1>2, <2>2
  <2>4. \A q \in Page : a[q] = [t \in Slot |-> a[q][t]]
    BY <2>2
  <2>5. b[p] = [t \in Slot |-> b[p][t]] /\ b[p][s] = w /\ \A t \in Slot : t # s => b[p][t] = a[p][t]
    BY <1>2, <2>3, <2>4
  <2>6. \A q \in Page : b[q] = [t \in Slot |-> b[q][t]]
    <3> SUFFICES ASSUME NEW q \in Page PROVE b[q] = [t \in Slot |-> b[q][t]]
      OBVIOUS
    <3>1. CASE q = p
      BY <2>5, <3>1
    <3>2. CASE q # p
      BY <2>3, <2>4, <3>2
    <3> QED
      BY <3>1, <3>2
  <2>7. b = [q \in Page |-> [t \in Slot |-> b[q][t]]]
    BY <2>3, <2>6
  <2>8. \A r \in Page, t \in Slot : ~(r = p /\ t = s) => b[r][t] = a[r][t]
    BY <2>3, <2>5
  <2>9. g.arena = b /\ f.arena = a
    BY <1>7, <2>1
  <2>10. g.arena = [q \in Page |-> [t \in Slot |-> g.arena[q][t]]]
    BY <2>7, <2>9
  <2>11. g.arena[p][s] = w /\ g.arena[p] = [f.arena[p] EXCEPT ![s] = w]
    BY <2>3, <2>5, <2>9
  <2>12. \A r \in Page, t \in Slot : ~(r = p /\ t = s) => g.arena[r][t] = f.arena[r][t]
    BY <2>8, <2>9
  <2>13. \A r \in Page : r # p => g.arena[r] = f.arena[r]
    BY <2>3, <2>9
  <2> QED
    BY <2>10, <2>11, <2>12, <2>13
<1>9. FileOK(g)
  <2>1. \A q \in Page, t \in Slot : g.arena[q][t].epoch \in Nat
    <3> SUFFICES ASSUME NEW q \in Page, NEW t \in Slot PROVE g.arena[q][t].epoch \in Nat
      OBVIOUS
    <3>1. CASE q = p /\ t = s
      BY <1>4, <1>5, <1>8, <3>1
    <3>2. CASE ~(q = p /\ t = s)
      BY <1>3, <1>8, <3>2
    <3> QED
      BY <3>1, <3>2
  <2> QED
    BY <1>3, <1>7, <1>8, <2>1 DEF FileOK
<1>10. /\ m.pairs \in Nat /\ 0 .. m.pairs-1 \subseteq Page /\ f.len >= m.pairs
       /\ \A r \in 0 .. m.pairs-1 : HasCommitted(f.arena[r], e)
       /\ m.format < 37 => \A r \in Page : r >= m.pairs => ~HasCommitted(f.arena[r], e)
  BY <1>1 DEF Held, MetaOK, m, e
<1>11. Alike(g, f)
  <2> SUFFICES ASSUME NEW r \in 0 .. m.pairs-1
               PROVE  LET n == NewestSlot(f.arena[r], e)
                      IN  NewestSlot(g.arena[r], e) = n /\ g.arena[r][n] = f.arena[r][n]
    BY <1>7 DEF Alike, m, e
  <2>1. CASE r # p
    BY <1>8, <1>10, <2>1
  <2>2. CASE r = p
    <3>1. s = 1 - NewestSlot(f.arena[p], e)
      BY <1>10, <2>2 DEF Target, Spare, m, e
    <3>2. /\ f.arena[p] = [t \in Slot |-> f.arena[p][t]]
          /\ \A t \in Slot : f.arena[p][t].epoch \in Nat
          /\ HasCommitted(f.arena[p], e)
      <4>1. f.arena[p] = [t \in Slot |-> f.arena[p][t]]
        BY <1>2, <1>3
      <4>2. HasCommitted(f.arena[p], e)
        BY <1>10, <2>2
      <4> QED
        BY <1>2, <1>3, <4>1, <4>2
    <3>3. LET c2 == [f.arena[p] EXCEPT ![s] = w]
              n  == NewestSlot(f.arena[p], e)
          IN  NewestSlot(c2, e) = n /\ c2[n] = f.arena[p][n] /\ n \in Slot
      <4>1. PICK c1 : c1 = f.arena[p]
        OBVIOUS
      <4>2. /\ c1 = [t \in Slot |-> c1[t]] /\ \A t \in Slot : c1[t].epoch \in Nat
            /\ HasCommitted(c1, e) /\ s = 1 - NewestSlot(c1, e) /\ e \in Nat /\ s \in Slot /\ w.epoch = e + 1
        BY <1>2, <1>4, <1>5, <3>1, <3>2, <4>1
      <4>3. LET c2 == [c1 EXCEPT ![s] = w]
                n  == NewestSlot(c1, e)
            IN  NewestSlot(c2, e) = n /\ c2[n] = c1[n] /\ n \in Slot
        BY <4>2, WriteHides
      <4> QED
        BY <4>1, <4>3
    <3> QED
      BY <1>8, <2>2, <3>3
  <2> QED
    BY <2>1, <2>2
<1>12. \A r \in Page, t \in Slot : g.arena[r][t].epoch > e => r \in DOMAIN Changes(f, c) /\ t = Target(f, r)
  BY <1>1, <1>8 DEF StaleIn, e
<1>13. m.format < 37 => \A r \in Page : r >= m.pairs => ~HasCommitted(g.arena[r], e)
  <2> SUFFICES ASSUME m.format < 37, NEW r \in Page, r >= m.pairs PROVE ~HasCommitted(g.arena[r], e)
    OBVIOUS
  <2>1. ~HasCommitted(f.arena[r], e)
    BY <1>10
  <2>2. CASE r # p
    BY <1>8, <2>1, <2>2
  <2>3. CASE r = p
    <3>1. \A t \in Slot : g.arena[r][t] = f.arena[r][t] \/ g.arena[r][t].epoch = e + 1
      BY <1>5, <1>8, <2>3
    <3> QED
      BY <1>4, <2>1, <3>1 DEF HasCommitted, Committed, Slot
  <2> QED
    BY <2>2, <2>3
<1>14. Sound(G, g, c)
  <2>1. g.len >= Meta(f).pairs
    BY <1>7, <1>10 DEF m
  <2>2. /\ \A r \in Page, t \in Slot : g.arena[r][t].epoch > Epoch(f.super) =>
             r \in DOMAIN Changes(f, c) /\ t = Target(f, r)
        /\ Meta(f).format < 37 =>
             \A r \in Page : r >= Meta(f).pairs => ~HasCommitted(g.arena[r], Epoch(f.super))
    BY <1>12, <1>13 DEF m, e
  <2> QED
    BY <1>9, <1>11, <2>1, <2>2, AlikeSound
<1>15. Rewritten(g, f, p, s, data)
  BY <1>7, <1>8 DEF w, e, Rewritten
<1> QED
  BY <1>11, <1>14, <1>15

\* An image put together from two that are alike.
LEMMA PartSound ==
  ASSUME NEW G, OneEach(G), NEW f, NEW d, NEW c, Sound(G, f, c), Sound(G, d, c), Alike(d, f),
         NEW g, FileOK(g), g.super = f.super, g.len >= Meta(f).pairs,
         \A p \in Page, s \in Slot : \/ g.arena[p][s] \in {f.arena[p][s], d.arena[p][s]}
                                     \/ p >= Meta(f).pairs /\ g.arena[p][s] = Absent
  PROVE  Alike(g, f) /\ Sound(G, g, c)
<1> DEFINE m == Meta(f)
           e == Epoch(f.super)
<1>1. /\ Held(f) /\ Feasible(f, c) /\ StaleIn(f, c) /\ MetaOK(m) /\ FileOK(f)
      /\ Held(d) /\ StaleIn(d, c) /\ FileOK(d)
  BY DEF Sound, Held
<1>2. Meta(d) = m /\ Epoch(d.super) = e
  BY AlikeReads
<1>3. Changes(d, c) = Changes(f, c) /\ \A p \in Nat : Target(d, p) = Target(f, p)
  BY <1>1, AlikePlans
<1>4. /\ m.pairs \in Nat /\ 0 .. m.pairs-1 \subseteq Page
      /\ \A r \in 0 .. m.pairs-1 : HasCommitted(f.arena[r], e)
      /\ \A r \in 0 .. m.pairs-1 : HasCommitted(d.arena[r], e)
      /\ m.format < 37 => \A r \in Page : r >= m.pairs => ~HasCommitted(f.arena[r], e) /\ ~HasCommitted(d.arena[r], e)
      /\ \A p \in Page, s \in Slot : /\ f.arena[p][s].epoch \in Nat /\ d.arena[p][s].epoch \in Nat
                                     /\ g.arena[p][s].epoch \in Nat
      /\ SuperOK(f.super)
  BY <1>1, <1>2 DEF Held, MetaOK, FileOK
<1>5. e \in Nat
  BY <1>4, SuperAdvances
<1>6. \A p \in 0 .. m.pairs-1 : LET n == NewestSlot(f.arena[p], e)
                               IN  NewestSlot(d.arena[p], e) = n /\ d.arena[p][n] = f.arena[p][n]
  BY DEF Alike
<1>7. \A p \in Page, s \in Slot : \/ g.arena[p][s] = f.arena[p][s]
                                  \/ g.arena[p][s] = d.arena[p][s]
                                  \/ p >= m.pairs /\ g.arena[p][s].epoch = 0
  BY DEF Absent
<1> HIDE DEF m, e
<1>8. Alike(g, f)
  <2> SUFFICES ASSUME NEW r \in 0 .. m.pairs-1
               PROVE  LET n == NewestSlot(f.arena[r], e)
                      IN  NewestSlot(g.arena[r], e) = n /\ g.arena[r][n] = f.arena[r][n]
    BY DEF Alike, m, e
  <2>1. r \in Page /\ ~(r >= m.pairs)
    BY <1>4
  <2>2. \A s \in Slot : g.arena[r][s] = f.arena[r][s] \/ g.arena[r][s] = d.arena[r][s]
    BY <1>7, <2>1
  <2>3. LET n == NewestSlot(f.arena[r], e) IN NewestSlot(d.arena[r], e) = n /\ d.arena[r][n] = f.arena[r][n]
    BY <1>6
  <2>4. \A s \in Slot : f.arena[r][s].epoch \in Nat /\ d.arena[r][s].epoch \in Nat /\ g.arena[r][s].epoch \in Nat
    BY <1>4, <2>1
  <2>5. HasCommitted(f.arena[r], e) /\ HasCommitted(d.arena[r], e)
    BY <1>4
  <2> QED
    BY <1>5, <2>2, <2>3, <2>4, <2>5 DEF NewestSlot, Committed, HasCommitted, Slot
<1>9. \A p \in Page, s \in Slot : g.arena[p][s].epoch > e => p \in DOMAIN Changes(f, c) /\ s = Target(f, p)
  <2> SUFFICES ASSUME NEW p \in Page, NEW s \in Slot, g.arena[p][s].epoch > e
               PROVE  p \in DOMAIN Changes(f, c) /\ s = Target(f, p)
    OBVIOUS
  <2>1. p \in Nat
    BY PageAssumption
  <2>2. CASE g.arena[p][s] = f.arena[p][s]
    BY <1>1, <2>2 DEF StaleIn, e
  <2>3. CASE g.arena[p][s] = d.arena[p][s]
    BY <1>1, <1>2, <1>3, <2>1, <2>3 DEF StaleIn
  <2> QED
    BY <1>5, <1>7, <2>2, <2>3
<1>10. m.format < 37 => \A r \in Page : r >= m.pairs => ~HasCommitted(g.arena[r], e)
  <2> SUFFICES ASSUME m.format < 37, NEW r \in Page, r >= m.pairs PROVE ~HasCommitted(g.arena[r], e)
    OBVIOUS
  <2>1. ~HasCommitted(f.arena[r], e) /\ ~HasCommitted(d.arena[r], e)
    BY <1>4
  <2>2. \A s \in Slot : \/ g.arena[r][s] = f.arena[r][s] \/ g.arena[r][s] = d.arena[r][s]
                        \/ g.arena[r][s].epoch = 0
    BY <1>7
  <2> QED
    BY <2>1, <2>2 DEF HasCommitted, Committed, Slot
<1>11. Sound(G, g, c)
  BY <1>8, <1>9, <1>10, AlikeSound DEF m, e
<1> QED
  BY <1>8, <1>11

Trim(f, n) == [f EXCEPT !.len = n, !.arena = Cut(@, n)]

Trimmed(g, f, n) ==
  /\ g.super = f.super /\ g.len = n
  /\ \A p \in Page : p < n => g.arena[p] = f.arena[p]

\* The file cut or extended, to no less than the superblock accounts for.
LEMMA CutSound ==
  ASSUME NEW G, OneEach(G), NEW f, NEW c, Sound(G, f, c), NEW n \in Nat, n >= Meta(f).pairs,
         NEW g, g = Trim(f, n)
  PROVE  Alike(g, f) /\ Sound(G, g, c) /\ Trimmed(g, f, n)
<1>1. FileOK(f) /\ Meta(f).pairs \in Nat
  BY DEF Sound, Held, MetaOK
<1>2. /\ f = [super |-> f.super, arena |-> f.arena, len |-> f.len]
      /\ SuperOK(f.super)
      /\ f.arena = [p \in Page |-> [s \in Slot |-> f.arena[p][s]]]
      /\ \A p \in Page, s \in Slot : f.arena[p][s].epoch \in Nat
  BY <1>1 DEF FileOK
<1>3. g = [super |-> f.super, arena |-> Cut(f.arena, n), len |-> n]
  BY <1>2 DEF Trim
<1>4. g.super = f.super /\ g.len = n /\ g.arena = Cut(f.arena, n)
      /\ g = [super |-> g.super, arena |-> g.arena, len |-> g.len]
  BY <1>3
<1>5. \A p \in Page : f.arena[p] = [s \in Slot |-> f.arena[p][s]]
  BY <1>2
<1>6. \A p \in Page : g.arena[p] = IF p < n THEN f.arena[p] ELSE Blanks
  BY <1>4 DEF Cut
<1>7. \A p \in Page, s \in Slot : g.arena[p][s] = IF p < n THEN f.arena[p][s] ELSE Absent
  BY <1>6 DEF Blanks
<1>8. \A p \in Page : g.arena[p] = [s \in Slot |-> g.arena[p][s]]
  <2>1. Blanks = [s \in Slot |-> Blanks[s]]
    BY DEF Blanks
  <2> SUFFICES ASSUME NEW p \in Page PROVE g.arena[p] = [s \in Slot |-> g.arena[p][s]]
    OBVIOUS
  <2>2. CASE g.arena[p] = f.arena[p]
    BY <1>5, <2>2
  <2>3. CASE g.arena[p] = Blanks
    BY <2>1, <2>3
  <2> QED
    BY <1>6, <2>2, <2>3
<1>9. g.arena = [p \in Page |-> [s \in Slot |-> g.arena[p][s]]]
  <2>1. g.arena = [p \in Page |-> g.arena[p]]
    BY <1>4 DEF Cut
  <2> QED
    BY <1>8, <2>1
<1>10. FileOK(g)
  <2>1. \A p \in Page, s \in Slot : g.arena[p][s].epoch \in Nat
    <3> SUFFICES ASSUME NEW p \in Page, NEW s \in Slot PROVE g.arena[p][s].epoch \in Nat
      OBVIOUS
    <3>1. f.arena[p][s].epoch \in Nat /\ Absent.epoch \in Nat
      BY <1>2 DEF Absent
    <3>2. g.arena[p][s] \in {f.arena[p][s], Absent}
      BY <1>7
    <3> QED
      BY <3>1, <3>2
  <2> QED
    BY <1>2, <1>4, <1>9, <2>1 DEF FileOK
<1>11. \A p \in Page, s \in Slot : \/ g.arena[p][s] \in {f.arena[p][s], f.arena[p][s]}
                                   \/ p >= Meta(f).pairs /\ g.arena[p][s] = Absent
  BY <1>1, <1>7, PageAssumption
<1>12. Alike(f, f)
  BY DEF Alike
<1>13. Alike(g, f) /\ Sound(G, g, c)
  BY <1>4, <1>10, <1>11, <1>12, PartSound
<1> QED
  BY <1>4, <1>6, <1>13 DEF Trimmed

-----------------------------------------------------------------------------
(* Steps before the commit *)

LEMMA PreparingFacts ==
  ASSUME ArenaInv, Preparing, op # Idle
  PROVE  /\ op.call # NoCall /\ op.call.kind \notin {"none", "recover"} /\ Pending = op.call
         /\ Sound(given, file, op.call) /\ Held(file) /\ Feasible(file, op.call) /\ OneEach(given)
         /\ MetaOK(Meta(file)) /\ FileOK(file)
         /\ ~Ahead /\ ~Closing /\ ~Recovering
         /\ op = [call |-> op.call, todo |-> op.todo, meta |-> op.meta, epoch |-> op.epoch]
         /\ op.epoch \in Nat /\ fault \in {"process", "power"}
         /\ fault = "power" => Alike(disk, file) /\ Sound(given, disk, op.call) /\ FileOK(disk)
<1>1. op.call.kind \in {"retire", "reclaim", "shrink"} /\ op.epoch = Epoch(file.super)
  BY DEF Preparing
<1>2. op.call # NoCall /\ op.call.kind \notin {"none", "recover"}
  BY <1>1 DEF NoCall
<1>3. Pending = op.call
  BY <1>1, <1>2 DEF Pending
<1>4. Sound(given, file, op.call) /\ Held(file) /\ Feasible(file, op.call) /\ OneEach(given)
      /\ MetaOK(Meta(file)) /\ FileOK(file)
  BY <1>3 DEF ArenaInv, Good, Sound, Held
<1>5. op.epoch \in Nat
  BY <1>1, <1>4, SuperAdvances DEF FileOK
<1>6. ~Closing /\ ~Ahead
  BY <1>1, <1>5 DEF Closing, Ahead
<1>7. ~Recovering
  BY <1>1 DEF Recovering, Call
<1>8. op = [call |-> op.call, todo |-> op.todo, meta |-> op.meta, epoch |-> op.epoch]
  BY DEF ArenaInv, OpInv
<1>9. fault = "power" => Alike(disk, file) /\ Sound(given, disk, op.call) /\ FileOK(disk)
  BY <1>3, <1>6 DEF ArenaInv, DiskInv, Good, Sound, Held
<1>10. fault \in {"process", "power"}
  BY DEF ArenaInv
<1> QED
  BY <1>2, <1>3, <1>4, <1>5, <1>6, <1>7, <1>8, <1>9, <1>10

LEMMA StepKinds ==
  /\ SyncPrimary.do = "sync primary" /\ SyncArena.do = "sync arena" /\ WriteSuper.do = "super"
  /\ \A n : Resize(n).do = "resize"
  /\ \A p, s, data : Write(p, s, data).do = "write"
BY DEF SyncPrimary, SyncArena, WriteSuper, Resize, Write

Landed(f, w, e) == f.arena[w.page][w.slot] = [epoch |-> e + 1, data |-> w.data]

Returns ==
  /\ op' = IF Tail(op.todo) = <<>> THEN Idle ELSE [op EXCEPT !.todo = Tail(@)]
  /\ owed' = IF Tail(op.todo) = <<>> /\ op.call = owed THEN NoCall ELSE owed
  /\ fault' = fault

\* What a step before the superblock's does to the files.
Advances ==
  /\ Returns
  /\ Alike(file', file) /\ file'.len >= op.meta.pairs
  /\ \A w \in Writes(file, op.call) :
       w = op.todo[1] \/ Landed(file, w, op.epoch) => Landed(file', w, op.epoch)
  /\ fault = "power" => \/ disk' = file'
                        \/ op.todo[1].do \in {"write", "resize"}
                        \/ op.todo[1] # Cover(Meta(file)) /\ (disk = file => disk' = file')

\* It leaves the rest of the plan in order.
LEMMA PreparingAdvances ==
  ASSUME ArenaInv, Preparing, op # Idle, op.todo[1].do # "super", Advances
  PROVE  /\ op' = [op EXCEPT !.todo = Tail(op.todo)] /\ op' # Idle /\ owed' = owed
         /\ Preparing' /\ ~Ahead' /\ OpInv' /\ Pending' = op.call /\ op'.call = op.call
<1> DEFINE m == Meta(file)
           W == Writes(file, op.call)
           n == op.meta.pairs
           t == Tail(op.todo)
<1>1. /\ op.call # NoCall /\ op.call.kind \notin {"none", "recover"} /\ Pending = op.call
      /\ Sound(given, file, op.call) /\ Held(file) /\ Feasible(file, op.call) /\ OneEach(given)
      /\ MetaOK(m) /\ op = [call |-> op.call, todo |-> op.todo, meta |-> op.meta, epoch |-> op.epoch]
      /\ op.epoch \in Nat
  BY PreparingFacts
<1>2. /\ op.call.kind \in {"retire", "reclaim", "shrink"}
      /\ owed \in {NoCall, op.call}
      /\ op.epoch = Epoch(file.super)
      /\ op.meta = PlanOf(file, op.call).meta
      /\ n > m.pairs \/ op.todo[1].do # "resize"
  BY DEF Preparing
<1>3. PICK c \in 1 .. Len(op.todo) : Ordered(m, c)
  BY DEF Preparing
<1>4. /\ Sorted(op.todo, W, m, n, c)
      /\ \A w \in W : (\E i \in 1 .. c-1 : op.todo[i] = w) \/ Landed(file, w, op.epoch)
      /\ fault = "power" => disk = file \/ \E l \in 1 .. c-1 : op.todo[l] = Cover(m)
  BY <1>3 DEF Ordered, Landed
<1>5. c \in Nat /\ c > 1
  <2>1. c = 1 => op.todo[1] = WriteSuper
    BY <1>4 DEF Sorted
  <2>2. c # 1
    BY <2>1 DEF WriteSuper
  <2>3. c \in 1 .. Len(op.todo) /\ Len(op.todo) \in Nat
    BY <1>4 DEF Sorted
  <2> QED
    BY <2>2, <2>3
<1>6. /\ Sorted(t, W, m, n, c-1) /\ t # <<>>
      /\ t[1] \in W \cup {SyncPrimary, SyncArena, WriteSuper}
      /\ \A i \in 2 .. c-1 : i-1 \in 1 .. (c-1)-1 /\ t[i-1] = op.todo[i]
  <2>1. Sorted(op.todo, W, m, n, c) /\ c > 1
    BY <1>4, <1>5
  <2> HIDE DEF W, m, n
  <2>2. Resumed(Tail(op.todo), op.todo, W, m, n, c)
    BY <2>1, TailSorted
  <2> QED
    BY <2>2 DEF Resumed
<1>7. op' = [op EXCEPT !.todo = t] /\ owed' = owed
  BY <1>6 DEF Advances, Returns
<1> HIDE DEF t
<1>8. op' = [call |-> op.call, todo |-> t, meta |-> op.meta, epoch |-> op.epoch]
  BY <1>1, <1>7
<1>9. /\ op'.call = op.call /\ op'.todo = t /\ op'.meta = op.meta /\ op'.epoch = op.epoch
      /\ op' = [call |-> op'.call, todo |-> op'.todo, meta |-> op'.meta, epoch |-> op'.epoch]
      /\ op' # Idle
  <2>1. /\ op'.call = op.call /\ op'.todo = t /\ op'.meta = op.meta /\ op'.epoch = op.epoch
    <3>1. PICK o : o = [call |-> op.call, todo |-> t, meta |-> op.meta, epoch |-> op.epoch]
      OBVIOUS
    <3>2. o.call = op.call /\ o.todo = t /\ o.meta = op.meta /\ o.epoch = op.epoch
      BY <3>1
    <3>3. op' = o
      BY <1>8, <3>1
    <3> QED
      BY <3>2, <3>3
  <2>2. op' # Idle
    BY <1>1, <2>1 DEF Idle
  <2> QED
    BY <1>8, <2>1, <2>2
<1>10. /\ Meta(file') = m /\ Epoch(file'.super) = Epoch(file.super)
       /\ Changes(file', op.call) = Changes(file, op.call) /\ PlanOf(file', op.call) = PlanOf(file, op.call)
       /\ \A p \in Nat : Target(file', p) = Target(file, p)
  <2>1. Alike(file', file)
    BY DEF Advances
  <2> QED
    BY <1>1, <2>1, AlikeReads, AlikePlans
<1>11. Writes(file', op.call) = W
  <2>1. \A p \in DOMAIN Changes(file, op.call) : p \in Nat
    BY <1>1, CallChanges
  <2> QED
    BY <1>10, <2>1 DEF Writes
<1>12. \A w \in W : w.do = "write"
  BY DEF Writes, Write
<1>13. n > m.pairs \/ t[1].do # "resize"
  <2>1. t[1].do # "resize"
    BY <1>6, <1>12, StepKinds
  <2> QED
    BY <2>1
<1>14. c-1 \in 1 .. Len(t)
  BY <1>6 DEF Sorted
<1>15. ASSUME NEW w \in W
       PROVE  (\E i \in 1 .. (c-1)-1 : t[i] = w) \/ Landed(file', w, op.epoch)
  <2>1. CASE Landed(file, w, op.epoch) \/ w = op.todo[1]
    BY <2>1 DEF Advances
  <2>2. CASE w # op.todo[1] /\ \E i \in 1 .. c-1 : op.todo[i] = w
    <3>1. PICK i \in 1 .. c-1 : op.todo[i] = w
      BY <2>2
    <3>2. i \in 2 .. c-1
      BY <1>5, <2>2, <3>1
    <3> QED
      BY <1>6, <3>1, <3>2
  <2> QED
    BY <1>4, <2>1, <2>2
<1>16. ASSUME fault = "power", disk' # file'
       PROVE  \E l \in 1 .. (c-1)-1 : t[l] = Cover(m)
  <2>1. PICK l \in 2 .. c-1 : op.todo[l] = Cover(m)
    <3>1. CASE op.todo[1].do \in {"write", "resize"}
      <4>1. 1 \in 1 .. c-1
        BY <1>5
      <4>2. op.todo[1] \notin {SyncPrimary, SyncArena}
        BY <3>1, StepKinds
      <4>3. \E l \in 1+1 .. c-1 : op.todo[l] = Cover(m)
        <5> HIDE DEF W, m, n
        <5> QED
          BY <1>4, <4>1, <4>2 DEF Sorted
      <4> QED
        BY <4>3
    <3>2. CASE op.todo[1] # Cover(m) /\ (disk = file => disk' = file')
      <4>1. PICK l \in 1 .. c-1 : op.todo[l] = Cover(m)
        BY <1>4, <1>16, <3>2
      <4>2. l \in 2 .. c-1
        BY <1>5, <3>2, <4>1
      <4> QED
        BY <4>1, <4>2
    <3> QED
      BY <1>16, <3>1, <3>2 DEF Advances
  <2> QED
    BY <1>6, <2>1
<1>17. Ordered(m, c-1)'
  <2>1. Sorted(t, Writes(file', op.call), m, n, c-1)
    BY <1>6, <1>11
  <2>2. Meta(file)' = m
    BY <1>10
  <2>3. \A w \in Writes(file', op.call) :
          \/ \E i \in 1 .. (c-1)-1 : t[i] = w
          \/ file'.arena[w.page][w.slot] = [epoch |-> op.epoch + 1, data |-> w.data]
    BY <1>11, <1>15 DEF Landed
  <2>4. fault' = "power" => disk' = file' \/ \E l \in 1 .. (c-1)-1 : t[l] = Cover(m)
    BY <1>16 DEF Advances, Returns
  <2>5. file'.len >= op.meta.pairs
    BY DEF Advances
  <2> QED
    BY <1>9, <2>1, <2>2, <2>3, <2>4, <2>5 DEF Ordered
<1>18. Preparing'
  <2>1. \E d \in 1 .. Len(op'.todo) : Ordered(Meta(file), d)'
    BY <1>9, <1>10, <1>14, <1>17
  <2> QED
    BY <1>2, <1>7, <1>9, <1>10, <1>13, <2>1 DEF Preparing
<1>19. Pending' = op.call
  BY <1>1, <1>2, <1>9, <1>10 DEF Pending
<1>20. ~Ahead'
  BY <1>1, <1>2, <1>9, <1>10 DEF Ahead, Closing
<1>21. OpInv'
  BY <1>9, <1>18 DEF OpInv
<1> QED
  BY <1>7, <1>9, <1>18, <1>19, <1>20, <1>21 DEF t

\* And the files sound, if each is.
LEMMA PreparingKeeps ==
  ASSUME ArenaInv, Preparing, op # Idle, op.todo[1].do # "super", Advances, given' = given,
         Sound(given, file', op.call),
         fault = "power" => Alike(disk', file') /\ Sound(given, disk', op.call),
         fault = "process" => disk' = disk
  PROVE  ArenaInv'
<1>1. /\ op' # Idle /\ owed' = owed /\ Preparing' /\ ~Ahead' /\ OpInv' /\ Pending' = op.call
  BY PreparingAdvances
<1>2. fault' = fault
  BY DEF Advances, Returns
<1>3. /\ fault' \in {"process", "power"} /\ OneEach(given)' /\ owed'.kind \in {"none", "retire", "reclaim", "shrink"}
  BY <1>1, <1>2 DEF ArenaInv
<1>4. Good(file, Pending)'
  BY <1>1 DEF Good
<1>5. fault' = "process" => Held(disk)' /\ (Meta(disk) = FirstMeta(Meta(disk).format))'
  BY <1>2 DEF ArenaInv
<1>6. fault' = "power" => DiskInv'
  BY <1>1, <1>2 DEF DiskInv, Good
<1> QED
  BY <1>1, <1>3, <1>4, <1>5, <1>6 DEF ArenaInv

\* The call in flight has steps to come.
LEMMA InFlight ==
  ASSUME ArenaInv, op.todo # <<>>
  PROVE  /\ op # Idle /\ Head(op.todo) = op.todo[1]
         /\ \/ Preparing
            \/ Closing /\ op.todo[1].do \in {"sync primary", "resize", "sync arena"}
            \/ Recovering /\ op.todo[1].do \in {"sync primary", "resize", "sync arena"}
<1>1. op # Idle
  BY DEF Idle
<1>2. CASE Preparing
  <2>1. PICK c \in 1 .. Len(op.todo) : Ordered(Meta(file), c)
    BY <1>2 DEF Preparing
  <2>2. op.todo \in Seq(Steps(Writes(file, op.call), op.meta.pairs))
    BY <2>1 DEF Ordered, Sorted
  <2> QED
    BY <1>1, <1>2, <2>2
<1>3. CASE Closing
  <2>1. PICK r : r = Resize(Meta(file).pairs)
    OBVIOUS
  <2>2. op.todo \in {<<SyncPrimary>>, <<SyncPrimary, r, SyncArena>>, <<r, SyncArena>>, <<SyncArena>>}
    BY <1>3, <2>1 DEF Closing
  <2>3. Head(op.todo) = op.todo[1] /\ op.todo[1] \in {SyncPrimary, SyncArena, r}
    BY <2>2
  <2> QED
    BY <1>1, <1>3, <2>1, <2>3, StepKinds
<1>4. CASE Recovering
  <2>1. PICK r : r = Resize(Meta(file).pairs)
    OBVIOUS
  <2>2. op.todo \in {<<r, SyncPrimary>>, <<r, SyncArena>>, <<SyncPrimary>>, <<SyncArena>>}
    BY <1>4, <2>1 DEF Recovering, Cover
  <2>3. Head(op.todo) = op.todo[1] /\ op.todo[1] \in {SyncPrimary, SyncArena, r}
    BY <2>2
  <2> QED
    BY <1>1, <1>4, <2>1, <2>3, StepKinds
<1> QED
  BY <1>1, <1>2, <1>3, <1>4 DEF ArenaInv, OpInv

\* The first step of a plan, and whether the file is long enough.
LEMMA FirstStep ==
  ASSUME ArenaInv, Preparing, op # Idle
  PROVE  /\ op.todo[1].do = "write" => op.todo[1] \in Writes(file, op.call)
         /\ op.todo[1].do = "resize" => op.todo[1] = Resize(op.meta.pairs)
         /\ op.todo[1].do # "resize" => file.len >= op.meta.pairs
         /\ op.todo[1].do = "super" => Ordered(Meta(file), 1)
         /\ op.todo[1].do = "sync arena" => op.todo[1] = SyncArena
         /\ op.todo[1].do = "sync primary" => op.todo[1] = SyncPrimary
<1> DEFINE W == Writes(file, op.call)
           n == op.meta.pairs
<1>1. PICK c \in 1 .. Len(op.todo) : Ordered(Meta(file), c)
  BY DEF Preparing
<1>2. /\ Sorted(op.todo, W, Meta(file), n, c)
      /\ file.len >= n \/ (c > 1 /\ op.todo[1] = Resize(n))
  BY <1>1 DEF Ordered
<1>3. \A w \in W : w.do = "write"
  BY StepKinds DEF Writes
<1> HIDE DEF W, n
<1>4. CASE c = 1
  <2>1. op.todo[1] = WriteSuper
    BY <1>2, <1>4 DEF Sorted
  <2>2. op.todo[1].do = "super"
    BY <2>1, StepKinds
  <2> QED
    BY <1>1, <1>2, <1>4, <2>2 DEF n
<1>5. CASE c # 1
  <2>1. 1 \in 1 .. c-1
    BY <1>2, <1>5 DEF Sorted
  <2>2. op.todo[1] \in W \/ op.todo[1] = Resize(n) \/ op.todo[1] \in {SyncPrimary, SyncArena}
    BY <1>2, <2>1 DEF Sorted
  <2> QED
    BY <1>2, <1>3, <2>2, StepKinds DEF W, n
<1> QED
  BY <1>4, <1>5

LEMMA DoWriteKeeps ==
  ASSUME ArenaInv, DoWrite
  PROVE  ArenaInv' /\ Alike(file', file) /\ disk' = disk
<1> DEFINE w == op.todo[1]
<1>1. /\ op.todo # <<>> /\ Head(op.todo).do = "write" /\ Returns
      /\ file' = [file EXCEPT !.arena[Head(op.todo).page][Head(op.todo).slot] =
                    [epoch |-> op.epoch + 1, data |-> Head(op.todo).data]]
      /\ disk' = disk /\ given' = given
  BY DEF DoWrite, Do, Returns
<1>2. op # Idle /\ Head(op.todo) = w /\ Preparing
  BY <1>1, InFlight
<1>3. w \in Writes(file, op.call) /\ file.len >= op.meta.pairs
  BY <1>1, <1>2, FirstStep
<1>4. /\ op.call # NoCall /\ Sound(given, file, op.call) /\ Held(file) /\ Feasible(file, op.call)
      /\ OneEach(given)
      /\ fault = "power" => Alike(disk, file) /\ Sound(given, disk, op.call)
  BY <1>2, PreparingFacts
<1>5. PICK p \in DOMAIN Changes(file, op.call) : w = Write(p, Target(file, p), Changes(file, op.call)[p])
  BY <1>3 DEF Writes
<1>6. w.page = p /\ w.slot = Target(file, p) /\ w.data = Changes(file, op.call)[p]
  BY <1>5 DEF Write
<1>7. op.epoch = Epoch(file.super)
  BY <1>2 DEF Preparing
<1> HIDE DEF w
<1>8. /\ Alike(file', file) /\ Sound(given, file', op.call) /\ file'.len = file.len
      /\ file'.arena[w.page][w.slot] = [epoch |-> op.epoch + 1, data |-> w.data]
      /\ \A r \in Page, t \in Slot : ~(r = w.page /\ t = w.slot) => file'.arena[r][t] = file.arena[r][t]
  <2>1. PICK s, data : s = w.slot /\ data = w.data
    OBVIOUS
  <2>2. PICK g : g = file'
    OBVIOUS
  <2>3. g = Rewrite(file, p, s, data)
    BY <1>1, <1>2, <1>6, <1>7, <2>1, <2>2 DEF Rewrite
  <2>4. /\ Sound(given, file, op.call) /\ OneEach(given) /\ op.call # NoCall
        /\ s = Target(file, p)
    BY <1>4, <1>6, <2>1
  <2>5. Alike(g, file) /\ Sound(given, g, op.call) /\ Rewritten(g, file, p, s, data)
    BY <2>3, <2>4, WriteSound
  <2> QED
    BY <1>6, <1>7, <2>1, <2>2, <2>5 DEF Rewritten
<1>9. ASSUME NEW w2 \in Writes(file, op.call), w2 = w \/ Landed(file, w2, op.epoch)
      PROVE  Landed(file', w2, op.epoch)
  <2>1. CASE w2 = w
    BY <1>8, <2>1 DEF Landed
  <2>2. CASE w2 # w /\ Landed(file, w2, op.epoch)
    <3>1. PICK r \in DOMAIN Changes(file, op.call) :
            w2 = Write(r, Target(file, r), Changes(file, op.call)[r])
      BY DEF Writes
    <3>2. w2.page = r /\ w2.slot = Target(file, r)
      BY <3>1 DEF Write
    <3>3. r # p
      BY <1>5, <2>2, <3>1 DEF w
    <3>4. r \in Page /\ Target(file, r) \in Slot
      BY <1>4, CallChanges
    <3> QED
      BY <1>6, <1>8, <2>2, <3>2, <3>3, <3>4 DEF Landed
  <2> QED
    BY <1>9, <2>1, <2>2
<1>10. Advances
  <2>1. \A w2 \in Writes(file, op.call) :
          w2 = op.todo[1] \/ Landed(file, w2, op.epoch) => Landed(file', w2, op.epoch)
    BY <1>9 DEF w
  <2>2. file'.len >= op.meta.pairs
    BY <1>3, <1>8
  <2>3. op.todo[1].do \in {"write", "resize"}
    BY <1>1, <1>2 DEF w
  <2> QED
    BY <1>1, <1>8, <2>1, <2>2, <2>3 DEF Advances
<1>11. fault = "power" => Alike(disk', file') /\ Sound(given, disk', op.call)
  BY <1>1, <1>4, <1>8, AlikeBack, AlikeThrough
<1>12. op.todo[1].do # "super"
  BY <1>1, <1>2 DEF w
<1> QED
  BY <1>1, <1>2, <1>8, <1>10, <1>11, <1>12, PreparingKeeps

-----------------------------------------------------------------------------
(* Steps after the commit, and those of a recovery *)

\* What is left of such an operation, and what is left of it then.
LEMMA SettlingSteps ==
  ASSUME ArenaInv, Closing \/ Recovering
  PROVE  LET r == Resize(Meta(file).pairs)
             t == Tail(op.todo)
         IN  /\ op.todo # <<>>
             /\ op.todo[1] \in {SyncPrimary, SyncArena, r}
             /\ Closing => t \in {<<>>, <<r, SyncArena>>, <<SyncArena>>}
                           /\ (t # <<>> => ~InPrimary(Meta(file)))
                           /\ (t = <<>> => op.todo[1] # r)
                           /\ (t = <<r, SyncArena>> => op.todo[1] # r)
             /\ Recovering => /\ t \in {<<>>, <<Cover(Meta(file))>>}
                              /\ t = <<>> => op.todo[1] = Cover(Meta(file))
                              /\ t # <<>> => op.todo[1] = r
<1> DEFINE r == Resize(Meta(file).pairs)
<1>1. SyncPrimary # r /\ SyncArena # r /\ SyncArena # SyncPrimary
  BY StepKinds
<1> HIDE DEF r
<1>2. ASSUME Closing
      PROVE  \/ op.todo = <<SyncPrimary>>
             \/ ~InPrimary(Meta(file)) /\ op.todo \in {<<SyncPrimary, r, SyncArena>>, <<r, SyncArena>>, <<SyncArena>>}
  BY <1>2 DEF Closing, r
<1>3. ASSUME Recovering
      PROVE  op.todo \in {<<r, Cover(Meta(file))>>, <<Cover(Meta(file))>>}
  BY <1>3 DEF Recovering, r
<1>4. Cover(Meta(file)) \in {SyncPrimary, SyncArena}
  BY DEF Cover
<1>6. CASE Closing
  <2>1. CASE op.todo = <<SyncPrimary>>
    <3>1. Tail(op.todo) = <<>> /\ op.todo # <<>> /\ op.todo[1] = SyncPrimary
      BY <2>1
    <3> QED
      BY <1>1, <1>6, <3>1 DEF r, Closing, Recovering, Call
  <2>2. CASE op.todo = <<SyncPrimary, r, SyncArena>> /\ ~InPrimary(Meta(file))
    <3>1. Tail(op.todo) = <<r, SyncArena>> /\ op.todo # <<>> /\ op.todo[1] = SyncPrimary
      BY <2>2
    <3> QED
      BY <1>1, <1>6, <2>2, <3>1 DEF r, Closing, Recovering, Call
  <2>3. CASE op.todo = <<r, SyncArena>> /\ ~InPrimary(Meta(file))
    <3>1. Tail(op.todo) = <<SyncArena>> /\ op.todo # <<>> /\ op.todo[1] = r
      BY <2>3
    <3>2. <<SyncArena>> # <<>> /\ <<SyncArena>> # <<r, SyncArena>>
      OBVIOUS
    <3> QED
      BY <1>1, <1>6, <2>3, <3>1, <3>2 DEF r, Closing, Recovering, Call
  <2>4. CASE op.todo = <<SyncArena>>
    <3>1. Tail(op.todo) = <<>> /\ op.todo # <<>> /\ op.todo[1] = SyncArena
      BY <2>4
    <3> QED
      BY <1>1, <1>6, <3>1 DEF r, Closing, Recovering, Call
  <2> QED
    BY <1>2, <1>6, <2>1, <2>2, <2>3, <2>4
<1>7. CASE Recovering
  <2>1. PICK cov : cov = Cover(Meta(file))
    OBVIOUS
  <2>2. CASE op.todo = <<r, cov>>
    <3>1. Tail(op.todo) = <<cov>> /\ op.todo # <<>> /\ op.todo[1] = r
      BY <2>2
    <3>2. <<cov>> # <<>>
      OBVIOUS
    <3> QED
      BY <1>1, <1>7, <2>1, <3>1, <3>2 DEF r, Closing, Recovering, Call
  <2>3. CASE op.todo = <<cov>>
    <3>1. Tail(op.todo) = <<>> /\ op.todo # <<>> /\ op.todo[1] = cov
      BY <2>3
    <3> QED
      BY <1>1, <1>4, <1>7, <2>1, <3>1 DEF r, Closing, Recovering, Call
  <2> QED
    BY <1>3, <1>7, <2>1, <2>2, <2>3
<1> QED
  BY <1>6, <1>7

LEMMA SettlingFacts ==
  ASSUME ArenaInv, op # Idle, Closing \/ Recovering
  PROVE  /\ Sound(given, file, Pending) /\ OneEach(given) /\ ~Preparing
         /\ Held(file) /\ FileOK(file) /\ MetaOK(Meta(file))
         /\ op = [call |-> op.call, todo |-> op.todo, meta |-> op.meta, epoch |-> op.epoch]
         /\ Closing => /\ op.epoch # Epoch(file.super) /\ Pending = NoCall /\ owed \in {NoCall, op.call}
                       /\ op.call.kind \in {"retire", "reclaim", "shrink"}
         /\ Recovering => /\ op.call = Call("recover", 0) /\ op.call.kind = "recover" /\ Pending = owed
                          /\ op.call # owed
         /\ fault \in {"process", "power"}
<1>1. Sound(given, file, Pending) /\ OneEach(given) /\ Held(file) /\ FileOK(file) /\ MetaOK(Meta(file))
  BY DEF ArenaInv, Good, Sound, Held
<1>2. Epoch(file.super) \in Nat
  BY <1>1, SuperAdvances DEF FileOK
<1>3. op = [call |-> op.call, todo |-> op.todo, meta |-> op.meta, epoch |-> op.epoch]
  BY DEF ArenaInv, OpInv
<1>4. CASE Closing
  <2>1. /\ op.epoch # Epoch(file.super) /\ op.call.kind \in {"retire", "reclaim", "shrink"}
        /\ owed \in {NoCall, op.call}
    BY <1>2, <1>4 DEF Closing
  <2>2. ~Preparing /\ ~Recovering /\ Pending = NoCall
    BY <2>1 DEF Preparing, Recovering, Call, Pending
  <2> QED
    BY <1>1, <1>3, <2>1, <2>2 DEF ArenaInv
<1>5. CASE Recovering
  <2>1. op.call = Call("recover", 0) /\ op.call.kind = "recover"
    BY <1>5 DEF Recovering, Call
  <2>2. owed.kind \in {"none", "retire", "reclaim", "shrink"}
    BY DEF ArenaInv
  <2>3. ~Preparing /\ ~Closing /\ Pending = owed /\ op.call # owed
    BY <2>1, <2>2 DEF Preparing, Closing, Pending
  <2> QED
    BY <1>1, <1>3, <2>1, <2>3 DEF ArenaInv
<1> QED
  BY <1>4, <1>5

LEMMA SettlingKeeps ==
  ASSUME ArenaInv, op # Idle, Closing \/ Recovering, Returns, given' = given,
         Alike(file', file), Sound(given, file', Pending),
         fault = "power" => /\ Alike(disk', file') /\ Sound(given, disk', Pending)
                            /\ op.todo[1].do # "resize" => disk' = file',
         fault = "process" => disk' = disk
  PROVE  ArenaInv'
<1> DEFINE m == Meta(file)
           r == Resize(m.pairs)
           t == Tail(op.todo)
<1>1. Meta(file') = m /\ Epoch(file'.super) = Epoch(file.super)
  BY AlikeReads
<1>2. /\ op = [call |-> op.call, todo |-> op.todo, meta |-> op.meta, epoch |-> op.epoch]
      /\ Closing => /\ op.epoch # Epoch(file.super) /\ Pending = NoCall /\ owed \in {NoCall, op.call}
                    /\ op.call.kind \in {"retire", "reclaim", "shrink"}
      /\ Recovering => /\ op.call = Call("recover", 0) /\ op.call.kind = "recover" /\ Pending = owed
                       /\ op.call # owed
      /\ fault \in {"process", "power"}
      /\ OneEach(given)
  BY SettlingFacts
<1>3. /\ op.todo # <<>>
      /\ op.todo[1] \in {SyncPrimary, SyncArena, r}
      /\ Closing => t \in {<<>>, <<r, SyncArena>>, <<SyncArena>>}
                    /\ (t # <<>> => ~InPrimary(m))
                    /\ (t = <<>> => op.todo[1] # r)
                    /\ (t = <<r, SyncArena>> => op.todo[1] # r)
      /\ Recovering => /\ t \in {<<>>, <<Cover(m)>>}
                       /\ t = <<>> => op.todo[1] = Cover(m)
                       /\ t # <<>> => op.todo[1] = r
  BY SettlingSteps
<1>4. op' = IF t = <<>> THEN Idle ELSE [op EXCEPT !.todo = t]
  BY DEF Returns
<1>5. owed' = IF t = <<>> /\ op.call = owed THEN NoCall ELSE owed
  BY DEF Returns
<1>6. fault' = fault
  BY DEF Returns
<1>7. r.do = "resize" /\ SyncPrimary.do # "resize" /\ SyncArena.do # "resize" /\ SyncArena # SyncPrimary
      /\ r # SyncPrimary /\ r # SyncArena
  BY StepKinds
<1> HIDE DEF m, r, t
<1>8. OneEach(given)' /\ owed'.kind \in {"none", "retire", "reclaim", "shrink"}
      /\ fault' \in {"process", "power"}
  BY <1>2, <1>5, <1>6 DEF ArenaInv, NoCall
<1>9. CASE t = <<>>
  <2>1. op' = Idle /\ op'.call.kind = "none"
    BY <1>4, <1>9 DEF Idle, NoCall
  <2>2. Pending' = Pending
    BY <1>2, <1>5, <1>9, <2>1 DEF Pending
  <2>3. ~Ahead' /\ OpInv'
    BY <2>1 DEF Ahead, Closing, OpInv
  <2>4. op.todo[1].do # "resize"
    BY <1>3, <1>4, <1>7, <1>9 DEF Cover
  <2>5. fault' = "power" => DiskInv'
    BY <1>6, <2>2, <2>3, <2>4 DEF DiskInv, Good
  <2>6. Good(file, Pending)'
    BY <2>2 DEF Good
  <2>7. fault' = "process" => Held(disk)' /\ (Meta(disk) = FirstMeta(Meta(disk).format))'
    BY <1>6 DEF ArenaInv
  <2> QED
    BY <1>8, <2>3, <2>5, <2>6, <2>7 DEF ArenaInv
<1>10. CASE t # <<>>
  <2>1. op' = [call |-> op.call, todo |-> t, meta |-> op.meta, epoch |-> op.epoch] /\ owed' = owed
    BY <1>2, <1>4, <1>5, <1>10
  <2>2. op'.call = op.call /\ op'.todo = t /\ op'.meta = op.meta /\ op'.epoch = op.epoch
    <3>1. PICK o : o = [call |-> op.call, todo |-> t, meta |-> op.meta, epoch |-> op.epoch]
      OBVIOUS
    <3>2. o.call = op.call /\ o.todo = t /\ o.meta = op.meta /\ o.epoch = op.epoch
      BY <3>1
    <3> QED
      BY <2>1, <3>1, <3>2
  <2>3. op' # Idle
    BY <1>2, <2>2 DEF Idle, NoCall
  <2>4. Pending' = Pending
    BY <1>1, <1>2, <2>1, <2>2, <2>3 DEF Pending
  <2>5. t[1] # SyncPrimary \/ ~Closing
    BY <1>3, <1>7, <1>10
  <2>6. Closing => Closing'
    <3> SUFFICES ASSUME Closing PROVE Closing'
      OBVIOUS
    <3>1. t \in {<<r, SyncArena>>, <<SyncArena>>} /\ ~InPrimary(m)
      BY <1>3, <1>10
    <3>2. /\ op.call.kind \in {"retire", "reclaim", "shrink"} /\ owed \in {NoCall, op.call}
          /\ op.epoch + 1 = Epoch(file.super)
      BY DEF Closing
    <3> QED
      BY <1>1, <2>1, <2>2, <3>1, <3>2 DEF Closing, r
  <2>7. Recovering => Recovering'
    <3> SUFFICES ASSUME Recovering PROVE Recovering'
      OBVIOUS
    <3>1. t = <<Cover(m)>> /\ op.call = Call("recover", 0)
      BY <1>2, <1>3, <1>10
    <3> QED
      BY <1>1, <2>2, <3>1 DEF Recovering, m
  <2>8. OpInv'
    BY <2>1, <2>2, <2>6, <2>7 DEF OpInv
  <2>9. ~Ahead'
    <3>1. Recovering => ~Closing'
      BY <1>2, <2>2 DEF Closing
    <3> QED
      BY <2>2, <2>5, <3>1 DEF Ahead
  <2>10. t[1].do = "resize" => op.todo[1].do # "resize"
    <3>1. Closing => t[1] = SyncArena \/ t = <<r, SyncArena>>
      BY <1>3, <1>10
    <3>2. Recovering => t[1] = Cover(m)
      BY <1>3, <1>10
    <3> QED
      BY <1>3, <1>7, <3>1, <3>2 DEF Cover
  <2>11. fault' = "power" => DiskInv'
    BY <1>6, <2>2, <2>3, <2>4, <2>9, <2>10 DEF DiskInv, Good
  <2>12. Good(file, Pending)'
    BY <2>4 DEF Good
  <2>13. fault' = "process" => Held(disk)' /\ (Meta(disk) = FirstMeta(Meta(disk).format))'
    BY <1>6 DEF ArenaInv
  <2> QED
    BY <1>8, <2>8, <2>11, <2>12, <2>13 DEF ArenaInv
<1> QED
  BY <1>9, <1>10

LEMMA DoResizeKeeps ==
  ASSUME ArenaInv, DoResize
  PROVE  ArenaInv' /\ Alike(file', file) /\ disk' = disk
<1> DEFINE n == op.todo[1].pairs
<1>1. /\ op.todo # <<>> /\ Head(op.todo).do = "resize" /\ Returns
      /\ file' = [file EXCEPT !.len = Head(op.todo).pairs, !.arena = Cut(@, Head(op.todo).pairs)]
      /\ disk' = disk /\ given' = given
  BY DEF DoResize, Do, Returns
<1>2. op # Idle /\ Head(op.todo) = op.todo[1] /\ (Preparing \/ Closing \/ Recovering)
  BY <1>1, InFlight
<1>3. file' = Trim(file, n) /\ op.todo[1].do = "resize"
  BY <1>1, <1>2 DEF Trim
<1>4. ASSUME NEW c, Sound(given, file, c), OneEach(given), n \in Nat, n >= Meta(file).pairs
      PROVE  Alike(file', file) /\ Sound(given, file', c) /\ Trimmed(file', file, n)
  <2> HIDE DEF n
  <2> QED
    BY <1>3, <1>4, CutSound
<1>5. CASE Preparing
  <2>1. /\ op.call # NoCall /\ Sound(given, file, op.call) /\ Held(file) /\ Feasible(file, op.call)
        /\ OneEach(given)
        /\ fault = "power" => Alike(disk, file) /\ Sound(given, disk, op.call)
    BY <1>2, <1>5, PreparingFacts
  <2>2. op.todo[1] = Resize(op.meta.pairs) /\ op.meta = PlanOf(file, op.call).meta
        /\ op.meta.pairs > Meta(file).pairs
    BY <1>2, <1>3, <1>5, FirstStep DEF Preparing
  <2>3. n = op.meta.pairs
    BY <2>2 DEF Resize
  <2>4. /\ Commits(file, op.call, op.meta)
        /\ \A p \in DOMAIN Changes(file, op.call) : /\ p \in Page /\ p \in Nat /\ Target(file, p) \in Slot
                                                    /\ p \in 0 .. op.meta.pairs-1
    BY <2>1, <2>2, CallChanges
  <2>5. n \in Nat /\ Meta(file).pairs \in Nat
    BY <2>1, <2>3, <2>4 DEF Commits, MetaOK, Held
  <2> HIDE DEF n
  <2>6. /\ Alike(file', file) /\ Sound(given, file', op.call) /\ file'.len = n
        /\ \A p \in Page : p < n => file'.arena[p] = file.arena[p]
    BY <1>4, <2>1, <2>2, <2>3, <2>5 DEF Trimmed
  <2>7. ASSUME NEW w \in Writes(file, op.call), w = op.todo[1] \/ Landed(file, w, op.epoch)
        PROVE  Landed(file', w, op.epoch)
    <3>1. PICK p \in DOMAIN Changes(file, op.call) : w = Write(p, Target(file, p), Changes(file, op.call)[p])
      BY DEF Writes
    <3>2. w.page = p /\ w.do = "write"
      BY <3>1 DEF Write
    <3>3. w # op.todo[1]
      BY <1>3, <3>2
    <3>4. p \in Page /\ p < n
      BY <2>3, <2>4, <2>5
    <3> QED
      BY <2>6, <2>7, <3>2, <3>3, <3>4 DEF Landed
  <2>8. Advances
    <3>1. file'.len >= op.meta.pairs
      BY <2>3, <2>5, <2>6
    <3>2. \A w \in Writes(file, op.call) :
            w = op.todo[1] \/ Landed(file, w, op.epoch) => Landed(file', w, op.epoch)
      BY <2>7
    <3> QED
      BY <1>1, <1>3, <2>6, <3>1, <3>2 DEF Advances
  <2>9. fault = "power" => Alike(disk', file') /\ Sound(given, disk', op.call)
    BY <1>1, <2>1, <2>6, AlikeBack, AlikeThrough
  <2>10. op.todo[1].do # "super"
    BY <1>3
  <2> QED
    BY <1>1, <1>2, <1>5, <2>6, <2>8, <2>9, <2>10, PreparingKeeps
<1>6. CASE Closing \/ Recovering
  <2>1. /\ Sound(given, file, Pending) /\ OneEach(given) /\ ~Preparing /\ Held(file)
        /\ Meta(file).pairs \in Nat
    BY <1>2, <1>6, SettlingFacts DEF MetaOK
  <2>2. op.todo[1] = Resize(Meta(file).pairs)
    BY <1>3, <1>6, SettlingSteps, StepKinds
  <2>3. n = Meta(file).pairs
    BY <2>2 DEF Resize
  <2> HIDE DEF n
  <2>4. Alike(file', file) /\ Sound(given, file', Pending)
    BY <1>4, <2>1, <2>3
  <2>5. fault = "power" => disk' = file
    BY <1>1, <1>3, <2>1 DEF ArenaInv, DiskInv
  <2>6. fault = "power" => Alike(disk', file') /\ Sound(given, disk', Pending)
    BY <2>1, <2>4, <2>5, AlikeBack
  <2> QED
    BY <1>1, <1>2, <1>3, <1>6, <2>4, <2>6, SettlingKeeps
<1> QED
  BY <1>2, <1>5, <1>6

\* An fsync leaves a device with what it covers.
LEMMA SameSuper ==
  ASSUME NEW f, NEW d, FileOK(f), FileOK(d), d.super = f.super
  PROVE  [f EXCEPT !.super = d.super] = f /\ [d EXCEPT !.super = f.super] = d
<1>1. /\ f = [super |-> f.super, arena |-> f.arena, len |-> f.len]
      /\ d = [super |-> d.super, arena |-> d.arena, len |-> d.len]
  BY DEF FileOK
<1>2. [f EXCEPT !.super = d.super] = f
  BY <1>1
<1>3. [d EXCEPT !.super = f.super] = d
  BY <1>1
<1> QED
  BY <1>2, <1>3

\* An fsync while the operation prepares its commit.
LEMMA PreparingSyncs ==
  ASSUME ArenaInv, Preparing, op # Idle, Returns, given' = given, file' = file,
         op.todo[1].do \in {"sync primary", "sync arena"},
         fault = "power" => disk' = file \/ (disk' = disk /\ op.todo[1] # Cover(Meta(file))),
         fault = "process" => disk' = disk
  PROVE  ArenaInv'
<1>1. /\ Sound(given, file, op.call)
      /\ fault = "power" => Alike(disk, file) /\ Sound(given, disk, op.call)
  BY PreparingFacts
<1>2. Alike(file, file)
  BY DEF Alike
<1>3. file.len >= op.meta.pairs
  BY FirstStep
<1>4. \A w \in Writes(file, op.call) : w # op.todo[1]
  <2>1. ASSUME NEW w \in Writes(file, op.call) PROVE w.do = "write"
    <3>1. PICK p \in DOMAIN Changes(file, op.call) : w = Write(p, Target(file, p), Changes(file, op.call)[p])
      BY DEF Writes
    <3> QED
      BY <3>1, StepKinds
  <2> QED
    BY <2>1
<1>5. Advances
  BY <1>2, <1>3, <1>4 DEF Advances
<1>6. fault = "power" => Alike(disk', file') /\ Sound(given, disk', op.call)
  BY <1>1, <1>2
<1> QED
  BY <1>1, <1>5, <1>6, PreparingKeeps

LEMMA DoSyncArenaKeeps ==
  ASSUME ArenaInv, DoSyncArena
  PROVE  ArenaInv' /\ file' = file /\ disk' \in {disk, file}
<1>1. /\ op.todo # <<>> /\ Head(op.todo).do = "sync arena" /\ Returns
      /\ file' = file /\ given' = given
      /\ disk' = IF fault = "power" THEN [file EXCEPT !.super = disk.super] ELSE disk
  BY DEF DoSyncArena, Do, Returns, Synced
<1>2. op # Idle /\ op.todo[1].do = "sync arena" /\ (Preparing \/ Closing \/ Recovering)
  BY <1>1, InFlight
<1>3. ~Ahead
  BY <1>2, StepKinds DEF Ahead
<1>4. FileOK(file) /\ (fault = "power" => FileOK(disk) /\ disk.super = file.super)
  BY <1>3 DEF ArenaInv, DiskInv, Good, Sound, Held, Alike
<1>5. fault = "power" => disk' = file
  BY <1>1, <1>4, SameSuper
<1>6. Alike(file, file)
  BY DEF Alike
<1>7. CASE Preparing
  BY <1>1, <1>2, <1>5, <1>7, PreparingSyncs
<1>8. CASE Closing \/ Recovering
  <2>1. Sound(given, file, Pending)
    BY <1>2, <1>8, SettlingFacts
  <2> QED
    BY <1>1, <1>2, <1>5, <1>6, <1>8, <2>1, SettlingKeeps
<1> QED
  BY <1>2, <1>7, <1>8

LEMMA DoSyncPrimaryKeeps ==
  ASSUME ArenaInv, DoSyncPrimary
  PROVE  ArenaInv' /\ file' = file /\ disk' \in {disk, file}
<1>1. /\ op.todo # <<>> /\ Head(op.todo).do = "sync primary" /\ Returns
      /\ file' = file /\ given' = given
      /\ disk' = IF fault = "power"
                 THEN IF InPrimary(Meta(file)) THEN file ELSE [disk EXCEPT !.super = file.super]
                 ELSE disk
  BY DEF DoSyncPrimary, Do, Returns, Synced
<1>2. op # Idle /\ op.todo[1].do = "sync primary" /\ (Preparing \/ Closing \/ Recovering)
  BY <1>1, InFlight
<1>3. Alike(file, file)
  BY DEF Alike
<1>4. CASE Preparing
  <2>1. ~Ahead /\ FileOK(file) /\ (fault = "power" => FileOK(disk) /\ Alike(disk, file))
    BY <1>2, <1>4, PreparingFacts
  <2>2. op.todo[1] = SyncPrimary
    BY <1>2, <1>4, FirstStep
  <2>3. fault = "power" => disk' = file \/ (disk' = disk /\ ~InPrimary(Meta(file)))
    BY <1>1, <2>1, SameSuper DEF Alike
  <2>4. ~InPrimary(Meta(file)) => op.todo[1] # Cover(Meta(file))
    BY <2>2, StepKinds DEF Cover
  <2> QED
    BY <1>1, <1>2, <1>4, <2>3, <2>4, PreparingSyncs
<1>5. CASE Closing \/ Recovering
  <2>1. Sound(given, file, Pending) /\ FileOK(file)
    BY <1>2, <1>5, SettlingFacts
  <2>2. fault = "power" => disk' = file
    <3>1. CASE Closing
      <4>1. op.todo[1] = SyncPrimary
        BY <1>2, <1>5, SettlingSteps, StepKinds
      <4>2. Ahead
        BY <3>1, <4>1 DEF Ahead
      <4>3. fault = "power" => disk = [file EXCEPT !.super = disk.super]
        BY <4>2 DEF ArenaInv, DiskInv
      <4>4. fault = "power" => [disk EXCEPT !.super = file.super] = file
        <5>1. file = [super |-> file.super, arena |-> file.arena, len |-> file.len]
          BY <2>1 DEF FileOK
        <5>2. PICK d : d = disk
          OBVIOUS
        <5>3. fault = "power" => d = [super |-> d.super, arena |-> file.arena, len |-> file.len]
          BY <4>3, <5>1, <5>2
        <5>4. fault = "power" => [d EXCEPT !.super = file.super] = [super |-> file.super, arena |-> file.arena, len |-> file.len]
          BY <5>3
        <5> QED
          BY <5>1, <5>2, <5>4
      <4> QED
        BY <1>1, <4>4
    <3>2. CASE Recovering
      <4>1. op.todo \in {<<Resize(Meta(file).pairs), Cover(Meta(file))>>, <<Cover(Meta(file))>>}
        BY <3>2 DEF Recovering
      <4>2. op.todo[1] = Cover(Meta(file))
        <5>1. PICK r, cov : r = Resize(Meta(file).pairs) /\ cov = Cover(Meta(file))
          OBVIOUS
        <5>2. op.todo = <<r, cov>> \/ op.todo = <<cov>>
          BY <4>1, <5>1
        <5>3. op.todo[1] = r \/ op.todo[1] = cov
          BY <5>2
        <5> QED
          BY <1>2, <5>1, <5>3, StepKinds
      <4>3. InPrimary(Meta(file))
        BY <1>2, <4>2, StepKinds DEF Cover
      <4> QED
        BY <1>1, <4>3
    <3> QED
      BY <1>5, <3>1, <3>2
  <2> QED
    BY <1>1, <1>2, <1>3, <1>5, <2>1, <2>2, SettlingKeeps
<1> QED
  BY <1>2, <1>4, <1>5

-----------------------------------------------------------------------------
(* The commit, as a step *)

LEMMA TailOfTwo ==
  ASSUME NEW S, NEW s \in Seq(S), Len(s) = 2
  PROVE  Tail(s) = <<s[2]>>
<1> DEFINE u == Tail(s)
<1>1. u \in Seq(S) /\ Len(u) = Len(s)-1 /\ \A i \in 1 .. Len(s)-1 : u[i] = s[i+1]
  <2>1. s # <<>>
    OBVIOUS
  <2>2. Tail(s) \in Seq(S) /\ Len(Tail(s)) = Len(s)-1 /\ \A i \in 1 .. Len(Tail(s)) : Tail(s)[i] = s[i+1]
    BY <2>1, HeadTailProperties
  <2> QED
    BY <2>2
<1> HIDE DEF u
<1>2. PICK x : x = s[2]
  OBVIOUS
<1>3. Len(u) = 1 /\ u[1] = x
  <2>1. 1 \in 1 .. Len(s)-1 /\ 1+1 = 2
    OBVIOUS
  <2> QED
    BY <1>1, <1>2, <2>1
<1>4. x \in S
  BY <1>2, ElementOfSeq
<1>5. <<x>> \in Seq(S) /\ Len(<<x>>) = 1 /\ \A i \in 1 .. Len(u) : u[i] = <<x>>[i]
  BY <1>3, <1>4
<1>6. u = <<x>>
  BY <1>1, <1>3, <1>5, SeqEqual
<1> QED
  BY <1>2, <1>6 DEF u

LEMMA TailOfFour ==
  ASSUME NEW S, NEW s \in Seq(S), Len(s) = 4
  PROVE  Tail(s) = <<s[2], s[3], s[4]>>
<1> DEFINE u == Tail(s)
<1>1. u \in Seq(S) /\ Len(u) = Len(s)-1 /\ \A i \in 1 .. Len(s)-1 : u[i] = s[i+1]
  <2>1. s # <<>>
    OBVIOUS
  <2>2. Tail(s) \in Seq(S) /\ Len(Tail(s)) = Len(s)-1 /\ \A i \in 1 .. Len(Tail(s)) : Tail(s)[i] = s[i+1]
    BY <2>1, HeadTailProperties
  <2> QED
    BY <2>2
<1> HIDE DEF u
<1>2. PICK x, y, z : x = s[2] /\ y = s[3] /\ z = s[4]
  OBVIOUS
<1>3. Len(u) = 3 /\ u[1] = x /\ u[2] = y /\ u[3] = z
  <2>1. 1 \in 1 .. Len(s)-1 /\ 2 \in 1 .. Len(s)-1 /\ 3 \in 1 .. Len(s)-1 /\ 1+1 = 2 /\ 2+1 = 3 /\ 3+1 = 4
    OBVIOUS
  <2>2. u[1] = s[1+1] /\ u[2] = s[2+1] /\ u[3] = s[3+1]
    BY <1>1, <2>1
  <2>3. Len(u) = 3
    BY <1>1
  <2> QED
    BY <1>2, <2>1, <2>2, <2>3
<1>4. x \in S /\ y \in S /\ z \in S
  <2>1. 2 \in 1 .. Len(s) /\ 3 \in 1 .. Len(s) /\ 4 \in 1 .. Len(s)
    OBVIOUS
  <2>2. s[2] \in S /\ s[3] \in S /\ s[4] \in S
    BY <2>1, ElementOfSeq
  <2> QED
    BY <1>2, <2>2
<1> DEFINE t == <<x, y, z>>
<1>5. t \in Seq(S) /\ Len(t) = 3 /\ t[1] = x /\ t[2] = y /\ t[3] = z
  BY <1>4
<1> HIDE DEF t
<1>6. \A i \in 1 .. Len(u) : i = 1 \/ i = 2 \/ i = 3
  BY <1>3
<1>7. u = t
  BY <1>1, <1>3, <1>5, <1>6, SeqEqual
<1> QED
  BY <1>2, <1>7 DEF u, t

\* The superblock goes out when the image it commits is in the file.
LEMMA SuperCommits ==
  ASSUME ArenaInv, DoSuper
  PROVE  LET c == op.call
         IN  /\ c # NoCall /\ Sound(given, file, c) /\ Held(file) /\ Feasible(file, c)
             /\ OneEach(given) /\ op.meta = PlanOf(file, c).meta
             /\ Sorted(op.todo, Writes(file, c), Meta(file), op.meta.pairs, 1)
             /\ fault = "power" => disk = file
             /\ disk' = disk /\ file' = [super |-> file'.super, arena |-> file.arena, len |-> file.len]
             /\ Epoch(file'.super) = Epoch(file.super) + 1 /\ Epoch(file.super) \in Nat
             /\ Meta(file') = PlanOf(file, c).meta
             /\ Held(file') /\ StaleIn(file', NoCall)
             /\ Overlaid(file, c, Meta(file'), Rows(file'))
             /\ Commits(file, c, Meta(file')) /\ Moved(file, c, Meta(file'), Rows(file'))
<1> DEFINE c == op.call
           m2 == op.meta
<1>1. /\ op.todo # <<>> /\ Head(op.todo).do = "super"
      /\ file' = [file EXCEPT !.super[1 - ActiveSlot(file.super)] = [epoch |-> op.epoch + 1, meta |-> op.meta]]
      /\ disk' = disk
  BY DEF DoSuper, Do
<1>2. op # Idle /\ op.todo[1].do = "super" /\ Preparing
  BY <1>1, InFlight
<1>3. /\ c # NoCall /\ Sound(given, file, c) /\ Held(file) /\ Feasible(file, c) /\ OneEach(given)
      /\ op = [call |-> op.call, todo |-> op.todo, meta |-> op.meta, epoch |-> op.epoch]
      /\ op.epoch \in Nat /\ fault \in {"process", "power"}
  BY <1>2, PreparingFacts
<1>4. /\ c.kind \in {"retire", "reclaim", "shrink"} /\ owed \in {NoCall, c}
      /\ op.epoch = Epoch(file.super) /\ m2 = PlanOf(file, c).meta
  BY <1>2 DEF Preparing
<1>5. Ordered(Meta(file), 1) /\ file.len >= m2.pairs
  BY <1>2, FirstStep
<1>6. /\ Sorted(op.todo, Writes(file, c), Meta(file), m2.pairs, 1)
      /\ \A w \in Writes(file, c) : file.arena[w.page][w.slot] = [epoch |-> op.epoch + 1, data |-> w.data]
      /\ fault = "power" => disk = file
  BY <1>5 DEF Ordered
<1>7. Written(file, c)
  <2>1. ASSUME NEW p \in DOMAIN Changes(file, c)
        PROVE  file.arena[p][Target(file, p)] = [epoch |-> Epoch(file.super) + 1, data |-> Changes(file, c)[p]]
    <3>1. PICK w : w = Write(p, Target(file, p), Changes(file, c)[p])
      OBVIOUS
    <3>2. w \in Writes(file, c)
      BY <3>1 DEF Writes
    <3>3. w.page = p /\ w.slot = Target(file, p) /\ w.data = Changes(file, c)[p]
      BY <3>1 DEF Write
    <3> QED
      BY <1>4, <1>6, <3>2, <3>3
  <2> QED
    BY <1>4, <1>5, <2>1 DEF Written
<1>8. file' = Committing(file, c)
  BY <1>1, <1>4 DEF Committing
<1>9. StaleIn(file, c)
  BY <1>3 DEF Sound
<1> HIDE DEF c, m2
<1>10. /\ file' = [super |-> file'.super, arena |-> file.arena, len |-> file.len]
       /\ Epoch(file'.super) = Epoch(file.super) + 1 /\ Epoch(file.super) \in Nat
       /\ Meta(file') = PlanOf(file, c).meta
       /\ Held(file') /\ StaleIn(file', NoCall)
       /\ Overlaid(file, c, Meta(file'), Rows(file'))
       /\ Commits(file, c, Meta(file')) /\ Moved(file, c, Meta(file'), Rows(file'))
  BY <1>3, <1>7, <1>8, <1>9, CommitImage
<1> QED
  BY <1>1, <1>3, <1>4, <1>6, <1>10 DEF c, m2

LEMMA DoSuperKeeps ==
  ASSUME ArenaInv, DoSuper
  PROVE  ArenaInv'
<1> DEFINE c == op.call
           m2 == op.meta
           t == Tail(op.todo)
<1>1. /\ op.todo # <<>> /\ Head(op.todo).do = "super" /\ Returns
      /\ disk' = disk /\ given' = Published(op.meta)
  BY DEF DoSuper, Do, Returns
<1>2. op # Idle /\ op.todo[1].do = "super" /\ Preparing
  BY <1>1, InFlight
<1>3. /\ c # NoCall /\ Sound(given, file, c) /\ Held(file) /\ Feasible(file, c) /\ OneEach(given)
      /\ op = [call |-> op.call, todo |-> op.todo, meta |-> op.meta, epoch |-> op.epoch]
      /\ op.epoch \in Nat /\ fault \in {"process", "power"}
  BY <1>2, PreparingFacts
<1>4. /\ c.kind \in {"retire", "reclaim", "shrink"} /\ owed \in {NoCall, c}
      /\ op.epoch = Epoch(file.super) /\ m2 = PlanOf(file, c).meta
  BY <1>2 DEF Preparing
<1>6. /\ Sorted(op.todo, Writes(file, c), Meta(file), m2.pairs, 1)
      /\ fault = "power" => disk = file
  BY SuperCommits
<1>10. /\ file' = [super |-> file'.super, arena |-> file.arena, len |-> file.len]
       /\ Epoch(file'.super) = Epoch(file.super) + 1 /\ Epoch(file.super) \in Nat
       /\ Meta(file') = PlanOf(file, c).meta
       /\ Held(file') /\ StaleIn(file', NoCall)
       /\ Overlaid(file, c, Meta(file'), Rows(file'))
       /\ Commits(file, c, Meta(file'))
  BY SuperCommits
<1> HIDE DEF c, m2, t
<1>11. given' = given \cup NewGiven(file, c)
  <2>1. given' = given \cup NewGivenBy(Meta(file), PlanOf(file, c).meta)
    BY <1>1, <1>4 DEF Published, NewGivenBy, m2
  <2> QED
    BY <1>3, <2>1, CommitPublishes
<1>12. Recorded(given', file', NoCall) /\ Recorded(given', file, c) /\ OneEach(given')
  BY <1>3, <1>10, <1>11, CommitRecords
<1>13. Sound(given', file', NoCall)
  BY <1>10, <1>12 DEF Sound, Feasible
<1>14. Sound(given', file, c)
  BY <1>3, <1>12 DEF Sound
<1>15. InPrimary(Meta(file')) = InPrimary(Meta(file)) /\ Meta(file').pairs = m2.pairs
  BY <1>4, <1>10 DEF InPrimary, Commits
<1>16. \/ t = <<SyncPrimary>>
       \/ ~InPrimary(Meta(file)) /\ t = <<SyncPrimary, Resize(m2.pairs), SyncArena>>
  <2>1. /\ op.todo \in Seq(Steps(Writes(file, c), m2.pairs))
        /\ \/ Len(op.todo) = 2 /\ op.todo[2] = SyncPrimary
           \/ /\ Len(op.todo) = 4 /\ ~InPrimary(Meta(file))
              /\ op.todo[2] = SyncPrimary /\ op.todo[3] = Resize(m2.pairs) /\ op.todo[4] = SyncArena
    BY <1>6 DEF Sorted
  <2> QED
    BY <2>1, TailOfTwo, TailOfFour DEF t
<1>17. t # <<>> /\ t[1] = SyncPrimary
  BY <1>16
<1>18. op' = [call |-> c, todo |-> t, meta |-> m2, epoch |-> op.epoch] /\ owed' = owed /\ fault' = fault
  BY <1>1, <1>3, <1>17 DEF Returns, c, m2, t
<1>19. op'.call = c /\ op'.todo = t /\ op'.meta = m2 /\ op'.epoch = op.epoch
  <2>1. PICK o : o = [call |-> c, todo |-> t, meta |-> m2, epoch |-> op.epoch]
    OBVIOUS
  <2>2. o.call = c /\ o.todo = t /\ o.meta = m2 /\ o.epoch = op.epoch
    BY <2>1
  <2> QED
    BY <1>18, <2>1, <2>2
<1>20. op' # Idle
  BY <1>4, <1>19 DEF Idle, NoCall
<1>21. Closing'
  <2>1. \/ t = <<SyncPrimary>>
        \/ ~InPrimary(Meta(file')) /\ t = <<SyncPrimary, Resize(Meta(file').pairs), SyncArena>>
    BY <1>15, <1>16
  <2> QED
    BY <1>3, <1>4, <1>10, <1>18, <1>19, <2>1 DEF Closing
<1>22. Ahead'
  BY <1>17, <1>19, <1>21 DEF Ahead
<1>23. Pending' = NoCall
  BY <1>4, <1>10, <1>19, <1>20 DEF Pending
<1>24. OpInv'
  BY <1>18, <1>19, <1>21 DEF OpInv
<1>25. ASSUME fault = "power" PROVE DiskInv'
  <2>1. disk' = file
    BY <1>1, <1>6, <1>25
  <2>2. disk' = [file' EXCEPT !.super = disk'.super]
    <3>1. file = [super |-> file.super, arena |-> file.arena, len |-> file.len]
      BY <1>3 DEF Held, FileOK
    <3>2. PICK g : g = file'
      OBVIOUS
    <3>3. g = [super |-> g.super, arena |-> file.arena, len |-> file.len]
      BY <1>10, <3>2
    <3>4. [g EXCEPT !.super = file.super] = [super |-> file.super, arena |-> file.arena, len |-> file.len]
      BY <3>3
    <3> QED
      BY <2>1, <3>1, <3>2, <3>4
  <2>3. Epoch(disk'.super) = op'.epoch /\ Good(disk, op.call)'
    BY <1>4, <1>14, <1>19, <2>1 DEF Good
  <2>4. ~Preparing' /\ t[1].do # "resize"
    <3>1. op'.epoch # Epoch(file'.super)
      BY <1>4, <1>10, <1>19
    <3>2. ~Preparing'
      BY <3>1 DEF Preparing
    <3> QED
      BY <1>17, <3>2, StepKinds
  <2> QED
    BY <1>19, <1>20, <1>22, <2>2, <2>3, <2>4 DEF DiskInv
<1>26. Good(file, Pending)'
  BY <1>13, <1>23 DEF Good
<1>27. fault' = "process" => Held(disk)' /\ (Meta(disk) = FirstMeta(Meta(disk).format))'
  BY <1>1, <1>18 DEF ArenaInv
<1>28. OneEach(given)' /\ owed'.kind \in {"none", "retire", "reclaim", "shrink"} /\ fault' \in {"process", "power"}
  BY <1>3, <1>12, <1>18 DEF ArenaInv
<1> QED
  BY <1>18, <1>24, <1>25, <1>26, <1>27, <1>28 DEF ArenaInv

-----------------------------------------------------------------------------
(* An operation starts *)

\* Nothing pending is the least that can be: it leaves no copy ahead.
LEMMA GoodAny ==
  ASSUME NEW G, NEW f, NEW c, Sound(G, f, NoCall), Feasible(f, c)
  PROVE  Sound(G, f, c)
<1>1. Changes(f, NoCall) = <<>> /\ NewGiven(f, NoCall) = {}
  BY DEF Changes, NewGiven, NoCall
<1>2. DOMAIN Changes(f, NoCall) = {}
  BY <1>1
<1>3. Held(f) /\ StaleIn(f, NoCall) /\ Recorded(G, f, NoCall)
  BY DEF Sound
<1>4. StaleIn(f, c)
  BY <1>2, <1>3 DEF StaleIn
<1>5. Recorded(G, f, c)
  BY <1>1, <1>3 DEF Recorded
<1> QED
  BY <1>3, <1>4, <1>5 DEF Sound

LEMMA CallStarts ==
  ASSUME ArenaInv, NEW c, c.kind \in {"retire", "reclaim", "shrink"}, Feasible(file, c),
         owed \in {NoCall, c}, Start(c, PlanOf(file, c))
  PROVE  ArenaInv'
<1>1. PICK plan : plan = PlanOf(file, c)
  OBVIOUS
<1>2. /\ op = Idle /\ file' = file /\ disk' = disk /\ owed' = owed /\ fault' = fault /\ given' = given
      /\ op' = [call |-> c, todo |-> plan.todo, meta |-> plan.meta, epoch |-> Epoch(file.super)]
  BY <1>1 DEF Start
<1>3. /\ Sound(given, file, owed) /\ OneEach(given) /\ fault \in {"process", "power"}
      /\ owed.kind \in {"none", "retire", "reclaim", "shrink"}
      /\ fault = "power" => disk = file
  <2>1. Pending = owed
    BY <1>2 DEF Pending
  <2> QED
    BY <1>2, <2>1 DEF ArenaInv, Good, DiskInv
<1>4. Sound(given, file, c)
  BY <1>3, GoodAny
<1>5. Held(file) /\ c # NoCall /\ MetaOK(Meta(file)) /\ FileOK(file) /\ file.len >= Meta(file).pairs
  BY <1>4 DEF Sound, NoCall, Held
<1>6. PICK k \in 1 .. Len(plan.todo) : Planned(file, c, plan.todo, plan.meta.pairs, k)
  BY <1>1, <1>5, PlanSorts
<1>7. op'.call = c /\ op'.todo = plan.todo /\ op'.meta = plan.meta /\ op'.epoch = Epoch(file.super)
  <2>1. PICK o : o = [call |-> c, todo |-> plan.todo, meta |-> plan.meta, epoch |-> Epoch(file.super)]
    OBVIOUS
  <2>2. o.call = c /\ o.todo = plan.todo /\ o.meta = plan.meta /\ o.epoch = Epoch(file.super)
    BY <2>1
  <2> QED
    BY <1>2, <2>1, <2>2
<1>8. Epoch(file.super) \in Nat
  BY <1>5, SuperAdvances DEF FileOK
<1>9. op' # Idle
  BY <1>5, <1>7 DEF Idle, NoCall
<1>10. Ordered(Meta(file), k)'
  <2>1. /\ Sorted(plan.todo, Writes(file, c), Meta(file), plan.meta.pairs, k)
        /\ plan.meta.pairs <= Meta(file).pairs \/ (k > 1 /\ plan.todo[1] = Resize(plan.meta.pairs))
        /\ \A w \in Writes(file, c) : \E i \in 1 .. k-1 : plan.todo[i] = w
    BY <1>6 DEF Planned
  <2>2. file.len >= plan.meta.pairs \/ (k > 1 /\ plan.todo[1] = Resize(plan.meta.pairs))
    <3>1. PlanOf(file, c).meta.pairs \in Nat /\ file.len \in Nat /\ Meta(file).pairs \in Nat
      BY <1>4, <1>5, CallChanges DEF Sound, Commits, MetaOK, FileOK
    <3> QED
      BY <1>1, <1>5, <2>1, <3>1
  <2>3. fault' = "power" => disk' = file'
    BY <1>2, <1>3
  <2> QED
    BY <1>2, <1>7, <2>1, <2>2, <2>3 DEF Ordered
<1>11. Preparing'
  <2>1. plan.meta.pairs > Meta(file).pairs \/ plan.todo[1].do # "resize"
    BY <1>6 DEF Planned
  <2>2. \E l \in 1 .. Len(op'.todo) : Ordered(Meta(file), l)'
    BY <1>7, <1>10
  <2>3. owed' \in {NoCall, op'.call} /\ op'.epoch = Epoch(file'.super) /\ op'.call.kind \in {"retire", "reclaim", "shrink"}
    BY <1>2, <1>7
  <2>4. op'.meta = PlanOf(file', op'.call).meta
    BY <1>1, <1>2, <1>7
  <2>5. op'.meta.pairs > Meta(file').pairs \/ op'.todo[1].do # "resize"
    BY <1>2, <1>7, <2>1
  <2> QED
    BY <2>2, <2>3, <2>4, <2>5 DEF Preparing
<1>12. Pending' = c
  BY <1>2, <1>7, <1>9, <1>11 DEF Pending, Preparing
<1>13. ~Ahead'
  BY <1>2, <1>7, <1>8 DEF Ahead, Closing
<1>14. OpInv'
  BY <1>2, <1>7, <1>11 DEF OpInv
<1>15. Good(file, Pending)'
  BY <1>2, <1>4, <1>12 DEF Good
<1>16. fault' = "power" => DiskInv'
  <2> SUFFICES ASSUME fault' = "power" PROVE DiskInv'
    OBVIOUS
  <2>1. disk' = file' /\ file' = file
    BY <1>2, <1>3
  <2>2. Alike(disk', file')
    BY <2>1 DEF Alike
  <2>3. Good(disk, Pending)'
    BY <1>2, <1>4, <1>12, <2>1 DEF Good
  <2> QED
    BY <1>13, <2>1, <2>2, <2>3 DEF DiskInv
<1>17. fault' = "process" => Held(disk)' /\ (Meta(disk) = FirstMeta(Meta(disk).format))'
  BY <1>2 DEF ArenaInv
<1>18. OneEach(given)' /\ owed'.kind \in {"none", "retire", "reclaim", "shrink"} /\ fault' \in {"process", "power"}
  BY <1>2, <1>3
<1> QED
  BY <1>14, <1>15, <1>16, <1>17, <1>18 DEF ArenaInv

LEMMA RetireKeeps ==
  ASSUME ArenaInv, Retire
  PROVE  ArenaInv'
<1>1. PICK count \in OwnerCounts : /\ May(Call("retire", count))
                                   /\ ~Reusing(Meta(file)) => Meta(file).pairs \in Page
                                   /\ Start(Call("retire", count), RetirePlan(file, Meta(file), count))
  BY DEF Retire
<1>2. PICK c : c = Call("retire", count)
  OBVIOUS
<1>3. c.kind = "retire" /\ c.arg = count
  BY <1>2 DEF Call
<1>4. PlanOf(file, c) = RetirePlan(file, Meta(file), count)
  BY <1>3 DEF PlanOf
<1>5. Feasible(file, c)
  BY <1>1, <1>3 DEF Feasible
<1>6. owed \in {NoCall, c}
  BY <1>1, <1>2 DEF May
<1> QED
  BY <1>1, <1>2, <1>3, <1>4, <1>5, <1>6, CallStarts

LEMMA ReclaimKeeps ==
  ASSUME ArenaInv, Reclaim
  PROVE  ArenaInv'
<1>1. PICK budget \in Budgets : /\ May(Call("reclaim", budget)) /\ Meta(file).count > 0
                                /\ Start(Call("reclaim", budget), ReclaimPlan(file, Meta(file), budget))
  BY DEF Reclaim
<1>2. PICK c : c = Call("reclaim", budget)
  OBVIOUS
<1>3. c.kind = "reclaim" /\ c.arg = budget
  BY <1>2 DEF Call
<1>4. PlanOf(file, c) = ReclaimPlan(file, Meta(file), budget)
  BY <1>3 DEF PlanOf
<1>5. Feasible(file, c)
  BY <1>1, <1>3 DEF Feasible
<1>6. owed \in {NoCall, c}
  BY <1>1, <1>2 DEF May
<1> QED
  BY <1>1, <1>2, <1>3, <1>4, <1>5, <1>6, CallStarts

LEMMA ShrinkKeeps ==
  ASSUME ArenaInv, Shrink
  PROVE  ArenaInv'
<1>1. /\ May(Call("shrink", 0)) /\ CanShrink(Meta(file))
      /\ Start(Call("shrink", 0), ShrinkPlan(file, Meta(file)))
  BY DEF Shrink
<1>2. PICK c : c = Call("shrink", 0)
  OBVIOUS
<1>3. c.kind = "shrink"
  BY <1>2 DEF Call
<1>4. PlanOf(file, c) = ShrinkPlan(file, Meta(file))
  BY <1>3 DEF PlanOf
<1>5. Feasible(file, c)
  BY <1>1, <1>2 DEF Feasible
<1>6. owed \in {NoCall, c}
  BY <1>1, <1>2 DEF May
<1> QED
  BY <1>1, <1>2, <1>3, <1>4, <1>5, <1>6, CallStarts

LEMMA RecoverKeeps ==
  ASSUME ArenaInv, Recover
  PROVE  ArenaInv'
<1>1. PICK plan : plan = RecoverPlan(Meta(file))
  OBVIOUS
<1>2. PICK c : c = Call("recover", 0)
  OBVIOUS
<1>3. /\ op = Idle /\ file' = file /\ disk' = disk /\ owed' = owed /\ fault' = fault /\ given' = given
      /\ op' = [call |-> c, todo |-> plan.todo, meta |-> plan.meta, epoch |-> Epoch(file.super)]
  BY <1>1, <1>2 DEF Recover, Start
<1>4. /\ Sound(given, file, owed) /\ OneEach(given) /\ fault \in {"process", "power"}
      /\ owed.kind \in {"none", "retire", "reclaim", "shrink"}
      /\ fault = "power" => disk = file
  <2>1. Pending = owed
    BY <1>3 DEF Pending
  <2> QED
    BY <1>3, <2>1 DEF ArenaInv, Good, DiskInv
<1>5. op'.call = c /\ op'.todo = plan.todo /\ op'.meta = plan.meta /\ op'.epoch = Epoch(file.super)
  <2>1. PICK o : o = [call |-> c, todo |-> plan.todo, meta |-> plan.meta, epoch |-> Epoch(file.super)]
    OBVIOUS
  <2>2. o.call = c /\ o.todo = plan.todo /\ o.meta = plan.meta /\ o.epoch = Epoch(file.super)
    BY <2>1
  <2> QED
    BY <1>3, <2>1, <2>2
<1>6. c.kind = "recover"
  BY <1>2 DEF Call
<1>7. op' # Idle
  BY <1>5, <1>6 DEF Idle, NoCall
<1>8. plan.todo = <<Resize(Meta(file).pairs), Cover(Meta(file))>>
  <2>1. PICK r, x : r = Resize(Meta(file).pairs) /\ x = Cover(Meta(file))
    OBVIOUS
  <2>2. plan.todo = <<r>> \o <<x>>
    BY <1>1, <2>1 DEF RecoverPlan, Plan, Cover
  <2>3. <<r>> \o <<x>> = <<r, x>>
    <3>1. PICK a, b : a = <<r>> \o <<x>> /\ b = <<r, x>>
      OBVIOUS
    <3>2. a \in Seq({r, x}) /\ b \in Seq({r, x}) /\ Len(a) = 2 /\ Len(b) = 2
      BY <3>1
    <3>3. a[1] = r /\ a[2] = x /\ b[1] = r /\ b[2] = x
      BY <3>1
    <3>4. \A i \in 1 .. Len(a) : a[i] = b[i]
      BY <3>2, <3>3
    <3> QED
      BY <3>1, <3>2, <3>4, SeqEqual
  <2> QED
    BY <2>1, <2>2, <2>3
<1>9. Recovering'
  BY <1>2, <1>3, <1>5, <1>8 DEF Recovering
<1>10. Pending' = owed /\ ~Ahead'
  BY <1>3, <1>5, <1>6 DEF Pending, Ahead, Closing
<1>11. OpInv'
  BY <1>3, <1>5, <1>9 DEF OpInv
<1>12. Good(file, Pending)'
  BY <1>3, <1>4, <1>10 DEF Good
<1>13. fault' = "power" => DiskInv'
  <2> SUFFICES ASSUME fault' = "power" PROVE DiskInv'
    OBVIOUS
  <2>1. disk' = file' /\ file' = file
    BY <1>3, <1>4
  <2>2. Alike(disk', file')
    BY <2>1 DEF Alike
  <2>3. Good(disk, Pending)'
    BY <1>3, <1>4, <1>10, <2>1 DEF Good
  <2> QED
    BY <1>10, <2>1, <2>2, <2>3 DEF DiskInv
<1>14. fault' = "process" => Held(disk)' /\ (Meta(disk) = FirstMeta(Meta(disk).format))'
  BY <1>3 DEF ArenaInv
<1> QED
  BY <1>3, <1>4, <1>11, <1>12, <1>13, <1>14 DEF ArenaInv

-----------------------------------------------------------------------------
(* Faults *)

\* What the caller owes after a fault is what would repair the image left.
LEMMA Owes ==
  ASSUME ArenaInv, NEW f, CutShort(f), Epoch(file.super) \in Nat
  PROVE  /\ op' = Idle /\ fault' = fault /\ given' = given /\ Pending' = owed'
         /\ Epoch(f.super) = Epoch(file.super) => owed' = Pending
         /\ Ahead /\ Epoch(f.super) = op.epoch => owed' = op.call
         /\ owed'.kind \in {"none", "retire", "reclaim", "shrink"}
<1>0. owed.kind \in {"none", "retire", "reclaim", "shrink"} /\ NoCall.kind = "none"
  BY DEF ArenaInv, NoCall
<1>1. /\ op' = Idle /\ fault' = fault /\ given' = given
      /\ owed' = IF op.call.kind \in {"none", "recover"} THEN owed
                 ELSE IF Epoch(f.super) > op.epoch THEN NoCall
                 ELSE op.call
  BY DEF CutShort
<1>2. Pending' = owed'
  BY <1>1 DEF Pending
<1>3. CASE op = Idle
  <2>1. op.call.kind = "none" /\ Pending = owed /\ ~Ahead
    BY <1>3 DEF Idle, NoCall, Pending, Ahead, Closing
  <2> QED
    BY <1>0, <1>1, <1>2, <2>1
<1>4. CASE op # Idle /\ Preparing
  <2>1. Pending = op.call /\ op.call.kind \notin {"none", "recover"} /\ ~Ahead
        /\ op.epoch = Epoch(file.super) /\ op.call.kind \in {"retire", "reclaim", "shrink"}
    BY <1>4, PreparingFacts DEF Preparing
  <2> QED
    BY <1>0, <1>1, <1>2, <2>1
<1>5. CASE op # Idle /\ Closing
  <2>1. op.call.kind \in {"retire", "reclaim", "shrink"} /\ op.epoch + 1 = Epoch(file.super)
    BY <1>5 DEF Closing
  <2>2. op = [call |-> op.call, todo |-> op.todo, meta |-> op.meta, epoch |-> op.epoch]
    BY <1>5 DEF ArenaInv, OpInv
  <2>3. op.epoch \in Nat
    BY <1>5 DEF Closing
  <2>4. Pending = NoCall
    BY <1>5, <2>1, <2>3 DEF Pending
  <2> QED
    BY <1>0, <1>1, <1>2, <2>1, <2>3, <2>4
<1>6. CASE op # Idle /\ Recovering
  <2>1. op.call.kind = "recover"
    BY <1>6 DEF Recovering, Call
  <2>2. Pending = owed /\ ~Ahead
    BY <1>6, <2>1 DEF Pending, Ahead, Closing
  <2> QED
    BY <1>0, <1>1, <1>2, <2>1, <2>2
<1> QED
  BY <1>3, <1>4, <1>5, <1>6 DEF ArenaInv, OpInv

LEMMA ProcessCrashKeeps ==
  ASSUME ArenaInv, ProcessCrash
  PROVE  ArenaInv'
<1>1. fault = "process" /\ CutShort(file) /\ file' = file /\ disk' = disk
  BY DEF ProcessCrash
<1>2. Sound(given, file, Pending) /\ Epoch(file.super) \in Nat
  <2>1. Sound(given, file, Pending) /\ FileOK(file)
    BY DEF ArenaInv, Good, Sound, Held
  <2> QED
    BY <2>1, SuperAdvances DEF FileOK
<1>3. /\ op' = Idle /\ fault' = fault /\ given' = given /\ Pending' = Pending
      /\ owed'.kind \in {"none", "retire", "reclaim", "shrink"}
  BY <1>1, <1>2, Owes
<1>4. Good(file, Pending)'
  BY <1>1, <1>2, <1>3 DEF Good
<1> QED
  BY <1>1, <1>3, <1>4 DEF ArenaInv, OpInv

\* The arena of a file a power loss may leave.
Scraps(g, f, d) ==
  /\ FileOK(g) /\ g.super \in {f.super, d.super} /\ g.len \in {f.len, d.len}
  /\ \A p \in Page, s \in Slot : \/ g.arena[p][s] \in {f.arena[p][s], d.arena[p][s]}
                                 \/ p >= g.len /\ g.arena[p][s] = Absent

LEMMA SurvivorParts ==
  ASSUME FileOK(file), FileOK(disk), NEW g, g \in Survivors
  PROVE  Scraps(g, file, disk)
<1>1. PICK sup \in {file.super, disk.super}, n \in {file.len, disk.len}, kept \in SUBSET Unsynced :
        g = Remnant(sup, n, kept)
  BY DEF Survivors
<1>2. PICK a : a = [p \in Page |-> [s \in Slot |-> IF <<p, s>> \in kept THEN file.arena[p][s]
                                                   ELSE disk.arena[p][s]]]
  OBVIOUS
<1>3. g = [super |-> sup, len |-> n, arena |-> Cut(a, n)]
  BY <1>1, <1>2 DEF Remnant
<1>4. g.super = sup /\ g.len = n /\ g.arena = Cut(a, n)
      /\ g = [super |-> g.super, arena |-> g.arena, len |-> g.len]
  BY <1>3
<1>5. \A p \in Page : a[p] = [s \in Slot |-> a[p][s]]
  BY <1>2
<1>6. \A p \in Page, s \in Slot : a[p][s] \in {file.arena[p][s], disk.arena[p][s]}
  BY <1>2
<1>7. \A p \in Page : g.arena[p] = IF p < n THEN a[p] ELSE Blanks
  BY <1>4 DEF Cut
<1>8. \A p \in Page, s \in Slot : \/ g.arena[p][s] = a[p][s]
                                  \/ p >= n /\ g.arena[p][s] = Absent
  <2> SUFFICES ASSUME NEW p \in Page, NEW s \in Slot
               PROVE  g.arena[p][s] = a[p][s] \/ (p >= n /\ g.arena[p][s] = Absent)
    OBVIOUS
  <2>1. p \in Nat /\ n \in Nat
    BY PageAssumption DEF FileOK
  <2>2. Blanks[s] = Absent
    BY DEF Blanks
  <2> QED
    BY <1>7, <2>1, <2>2
<1>9. g.arena = [p \in Page |-> [s \in Slot |-> g.arena[p][s]]]
  <2>1. g.arena = [p \in Page |-> g.arena[p]]
    BY <1>4 DEF Cut
  <2>2. \A p \in Page : g.arena[p] = [s \in Slot |-> g.arena[p][s]]
    <3>1. Blanks = [s \in Slot |-> Blanks[s]]
      BY DEF Blanks
    <3> SUFFICES ASSUME NEW p \in Page PROVE g.arena[p] = [s \in Slot |-> g.arena[p][s]]
      OBVIOUS
    <3>2. CASE g.arena[p] = a[p]
      BY <1>5, <3>2
    <3>3. CASE g.arena[p] = Blanks
      BY <3>1, <3>3
    <3> QED
      BY <1>7, <3>2, <3>3
  <2> QED
    BY <2>1, <2>2
<1>10. \A p \in Page, s \in Slot : g.arena[p][s].epoch \in Nat
  <2> SUFFICES ASSUME NEW p \in Page, NEW s \in Slot PROVE g.arena[p][s].epoch \in Nat
    OBVIOUS
  <2>1. g.arena[p][s] \in {file.arena[p][s], disk.arena[p][s], Absent}
    BY <1>6, <1>8
  <2>2. file.arena[p][s].epoch \in Nat /\ disk.arena[p][s].epoch \in Nat /\ Absent.epoch \in Nat
    BY DEF FileOK, Absent
  <2> QED
    BY <2>1, <2>2
<1>11. SuperOK(sup) /\ n \in Nat
  BY DEF FileOK
<1>12. FileOK(g)
  BY <1>4, <1>9, <1>10, <1>11 DEF FileOK
<1>13. \A p \in Page, s \in Slot : \/ g.arena[p][s] \in {file.arena[p][s], disk.arena[p][s]}
                                   \/ p >= g.len /\ g.arena[p][s] = Absent
  <2> SUFFICES ASSUME NEW p \in Page, NEW s \in Slot
               PROVE  \/ g.arena[p][s] \in {file.arena[p][s], disk.arena[p][s]}
                      \/ p >= g.len /\ g.arena[p][s] = Absent
    OBVIOUS
  <2> QED
    BY <1>4, <1>6, <1>8
<1> QED
  BY <1>4, <1>12, <1>13 DEF Scraps

\* Whatever the power loss leaves is the image of before or after the call.
LEMMA PowerLossSound ==
  ASSUME ArenaInv, fault = "power", NEW g, Scraps(g, file, disk), CutShort(g)
  PROVE  /\ op' = Idle /\ fault' = fault /\ given' = given /\ Pending' = owed'
         /\ owed'.kind \in {"none", "retire", "reclaim", "shrink"}
         /\ Sound(given, g, owed')
         /\ Alike(g, file) \/ (Ahead /\ Alike(g, disk))
<1>1. Sound(given, file, Pending) /\ OneEach(given) /\ DiskInv
  BY DEF ArenaInv, Good
<1>2. Held(file) /\ FileOK(file) /\ MetaOK(Meta(file)) /\ file.len >= Meta(file).pairs
  BY <1>1 DEF Sound, Held
<1>3. Epoch(file.super) \in Nat
  BY <1>2, SuperAdvances DEF FileOK
<1>4. /\ op' = Idle /\ fault' = fault /\ given' = given /\ Pending' = owed'
      /\ Epoch(g.super) = Epoch(file.super) => owed' = Pending
      /\ Ahead /\ Epoch(g.super) = op.epoch => owed' = op.call
      /\ owed'.kind \in {"none", "retire", "reclaim", "shrink"}
  BY <1>3, Owes
<1>5. /\ FileOK(g) /\ g.super \in {file.super, disk.super} /\ g.len \in {file.len, disk.len}
      /\ \A p \in Page, s \in Slot : \/ g.arena[p][s] \in {file.arena[p][s], disk.arena[p][s]}
                                     \/ p >= g.len /\ g.arena[p][s] = Absent
  BY DEF Scraps
<1>6. file.len \in Nat /\ g.len \in Nat /\ \A p \in Page : p \in Nat
  BY <1>2, <1>5, PageAssumption DEF FileOK
<1>7. CASE ~Ahead
  <2>1. Alike(disk, file) /\ Sound(given, disk, Pending)
    BY <1>1, <1>7 DEF DiskInv, Good
  <2>2. disk.super = file.super /\ Meta(disk) = Meta(file) /\ disk.len >= Meta(file).pairs
    BY <2>1 DEF Alike, Meta, Sound, Held
  <2>3. g.super = file.super /\ g.len >= Meta(file).pairs
    BY <1>2, <1>5, <2>2
  <2>4. \A p \in Page, s \in Slot : \/ g.arena[p][s] \in {file.arena[p][s], disk.arena[p][s]}
                                    \/ p >= Meta(file).pairs /\ g.arena[p][s] = Absent
    <3>1. Meta(file).pairs \in Nat
      BY <1>2 DEF MetaOK
    <3>2. \A p \in Page : p >= g.len => p >= Meta(file).pairs
      BY <1>6, <2>3, <3>1
    <3> QED
      BY <1>5, <3>2
  <2>5. Alike(g, file) /\ Sound(given, g, Pending)
    BY <1>1, <1>5, <2>1, <2>3, <2>4, PartSound
  <2> QED
    BY <1>4, <2>3, <2>5
<1>8. CASE Ahead
  <2>1. disk = [file EXCEPT !.super = disk.super] /\ Epoch(disk.super) = op.epoch /\ Sound(given, disk, op.call)
    BY <1>1, <1>8 DEF DiskInv, Good
  <2>2. disk.arena = file.arena /\ disk.len = file.len
    <3>1. file = [super |-> file.super, arena |-> file.arena, len |-> file.len]
      BY <1>2 DEF FileOK
    <3>2. PICK d : d = disk
      OBVIOUS
    <3>3. d = [super |-> d.super, arena |-> file.arena, len |-> file.len]
      BY <2>1, <3>1, <3>2
    <3> QED
      BY <3>2, <3>3
  <2>3. \A p \in Page, s \in Slot : \/ g.arena[p][s] \in {file.arena[p][s], file.arena[p][s]}
                                    \/ p >= file.len /\ g.arena[p][s] = Absent
    BY <1>5, <2>2
  <2>4. CASE g.super = file.super
    <3>1. Alike(file, file)
      BY DEF Alike
    <3>2. g.len >= Meta(file).pairs
      BY <1>2, <1>5, <2>2
    <3>3. \A p \in Page, s \in Slot : \/ g.arena[p][s] \in {file.arena[p][s], file.arena[p][s]}
                                      \/ p >= Meta(file).pairs /\ g.arena[p][s] = Absent
      <4>1. Meta(file).pairs \in Nat
        BY <1>2 DEF MetaOK
      <4>2. \A p \in Page : p >= file.len => p >= Meta(file).pairs
        BY <1>2, <1>6, <4>1
      <4> QED
        BY <2>3, <4>2
    <3>4. Alike(g, file) /\ Sound(given, g, Pending)
      BY <1>1, <1>5, <2>4, <3>1, <3>2, <3>3, PartSound
    <3> QED
      BY <1>4, <2>4, <3>4
  <2>5. CASE g.super = disk.super
    <3>1. Alike(disk, disk)
      BY DEF Alike
    <3>0. disk.len >= Meta(disk).pairs /\ Meta(disk).pairs \in Nat
      BY <2>1 DEF Sound, Held, MetaOK
    <3>2. g.len >= Meta(disk).pairs
      BY <1>5, <2>2, <3>0
    <3>3. \A p \in Page, s \in Slot : \/ g.arena[p][s] \in {disk.arena[p][s], disk.arena[p][s]}
                                      \/ p >= Meta(disk).pairs /\ g.arena[p][s] = Absent
      <4>2. \A p \in Page : p >= file.len => p >= Meta(disk).pairs
        BY <1>6, <2>2, <3>0
      <4> QED
        BY <2>2, <2>3, <4>2
    <3>4. Alike(g, disk) /\ Sound(given, g, op.call)
      BY <1>1, <1>5, <2>1, <2>5, <3>1, <3>2, <3>3, PartSound
    <3> QED
      BY <1>4, <1>8, <2>1, <2>5, <3>4
  <2> QED
    BY <1>5, <2>4, <2>5
<1> QED
  BY <1>7, <1>8

LEMMA PowerLossKeeps ==
  ASSUME ArenaInv, PowerLoss
  PROVE  ArenaInv'
<1>1. fault = "power"
  BY DEF PowerLoss
<1>2. PICK g \in Survivors : file' = g /\ disk' = g /\ CutShort(g)
  BY DEF PowerLoss
<1>3. FileOK(file) /\ FileOK(disk) /\ OneEach(given)
  BY <1>1 DEF ArenaInv, DiskInv, Good, Sound, Held
<1>4. /\ op' = Idle /\ fault' = fault /\ given' = given /\ Pending' = owed'
      /\ owed'.kind \in {"none", "retire", "reclaim", "shrink"}
      /\ Sound(given, g, owed')
  BY <1>1, <1>2, <1>3, SurvivorParts, PowerLossSound
<1>5. Good(file, Pending)' /\ Good(disk, Pending)'
  BY <1>2, <1>4 DEF Good
<1>6. ~Ahead'
  BY <1>4 DEF Ahead, Closing, Idle, NoCall
<1>7. Alike(disk, file)'
  BY <1>2 DEF Alike
<1>8. DiskInv'
  BY <1>2, <1>5, <1>6, <1>7 DEF DiskInv
<1> QED
  BY <1>1, <1>3, <1>4, <1>5, <1>8 DEF ArenaInv, OpInv

LEMMA InitHolds ==
  ASSUME Init
  PROVE  ArenaInv
<1>1. PICK format \in Formats :
        file = [super |-> [s \in Slot |-> [epoch |-> 1 - s, meta |-> FirstMeta(format)]],
                arena |-> [p \in Page |-> Blanks], len |-> 0]
  BY DEF Init
<1>2. disk = file /\ op = Idle /\ owed = NoCall /\ fault \in {"process", "power"} /\ given = {}
  BY FaultsAssumption DEF Init
<1>3. PICK m : m = FirstMeta(format)
  OBVIOUS
<1>4. PICK sup : sup = [s \in Slot |-> [epoch |-> 1 - s, meta |-> m]]
  OBVIOUS
<1>5. file = [super |-> sup, arena |-> [p \in Page |-> Blanks], len |-> 0]
  BY <1>1, <1>3, <1>4
<1>6. /\ file.super = sup /\ file.arena = [p \in Page |-> Blanks] /\ file.len = 0
      /\ file = [super |-> file.super, arena |-> file.arena, len |-> file.len]
  BY <1>5
<1>7. sup[0] = [epoch |-> 1, meta |-> m] /\ sup[1] = [epoch |-> 0, meta |-> m]
  BY <1>4 DEF Slot
<1>8. sup[0].epoch = 1 /\ sup[1].epoch = 0 /\ sup[0].meta = m /\ sup[1].meta = m
  BY <1>7
<1>9. Epoch(sup) = 1 /\ MetaOf(sup) = m
  BY <1>8 DEF Epoch, MetaOf, ActiveSlot
<1>10. SuperOK(sup)
  BY <1>4, <1>8 DEF SuperOK, Slot
<1>11. \A p \in Page : file.arena[p] = Blanks
  BY <1>6
<1>12. \A s \in Slot : Blanks[s] = Absent /\ Blanks = [t \in Slot |-> Blanks[t]]
  BY DEF Blanks
<1>13. FileOK(file)
  <2>1. \A p \in Page : file.arena[p] = [s \in Slot |-> file.arena[p][s]]
    BY <1>11 DEF Blanks
  <2>2. file.arena = [p \in Page |-> [s \in Slot |-> file.arena[p][s]]]
    BY <1>6, <2>1
  <2>3. \A p \in Page, s \in Slot : file.arena[p][s].epoch \in Nat
    BY <1>11, <1>12 DEF Absent
  <2> QED
    BY <1>6, <1>10, <2>2, <2>3 DEF FileOK
<1>14. Meta(file) = m
  BY <1>6, <1>9 DEF Meta
<1>15. /\ m = [format |-> m.format, gen |-> m.gen, head |-> m.head, tail |-> m.tail, count |-> m.count,
               free |-> m.free, fcount |-> m.fcount, pairs |-> m.pairs, inc |-> m.inc]
       /\ m.format = format /\ m.gen = 0 /\ m.head = NoRef /\ m.tail = NoRef /\ m.count = 0
       /\ m.free = NoRef /\ m.fcount = 0 /\ m.pairs = 0 /\ m.inc = 1
  BY <1>3 DEF FirstMeta
<1>16. MetaOK(m)
  BY <1>15, FormatsAssumption DEF MetaOK
<1>17. Shaped(m, Rows(file))
  <2>1. PICK q : q = [i \in 0 .. 0-1 |-> 0]
    OBVIOUS
  <2>2. q \in Lists(m, 0)
    BY <2>1 DEF Lists
  <2>3. \A i \in 0 .. 0-1 : FALSE
    OBVIOUS
  <2>4. \A first, status : first = NoRef => Linked(Rows(file), 0, q, first, status)
    BY <2>3 DEF Linked, Link
  <2>5. \A p \in 0 .. m.pairs-1 : FALSE
    BY <1>15
  <2>6. Shape(m, Rows(file), q, q)
    BY <1>15, <2>2, <2>4, <2>5 DEF Shape
  <2> QED
    BY <1>15, <2>2, <2>6 DEF Shaped
<1>18. Held(file)
  <2>1. \A p \in 0 .. m.pairs-1 : FALSE
    BY <1>15
  <2>2. \A p \in Page : ~HasCommitted(file.arena[p], Epoch(file.super))
    <3>1. Blanks[0].epoch = 0 /\ Blanks[1].epoch = 0
      BY <1>12 DEF Absent, Slot
    <3> SUFFICES ASSUME NEW p \in Page PROVE ~HasCommitted(file.arena[p], Epoch(file.super))
      OBVIOUS
    <3>2. file.arena[p][0].epoch = 0 /\ file.arena[p][1].epoch = 0
      BY <1>11, <3>1
    <3> QED
      BY <3>2 DEF HasCommitted, Committed
  <2> QED
    BY <1>6, <1>13, <1>14, <1>15, <1>16, <1>17, <2>1, <2>2 DEF Held
<1>19. Sound(given, file, NoCall)
  <2>1. Feasible(file, NoCall)
    BY DEF Feasible
  <2>2. StaleIn(file, NoCall)
    BY <1>6, <1>9, <1>11, <1>12 DEF StaleIn, Absent
  <2>3. \A p \in 0 .. Meta(file).pairs-1 : FALSE
    BY <1>14, <1>15
  <2>4. Recorded(given, file, NoCall)
    BY <1>2, <2>3 DEF Recorded
  <2> QED
    BY <1>18, <2>1, <2>2, <2>4 DEF Sound
<1>20. Pending = NoCall /\ ~Ahead
  BY <1>2 DEF Pending, Ahead, Closing, Idle, NoCall
<1>21. Good(file, Pending) /\ Good(disk, Pending)
  BY <1>2, <1>19, <1>20 DEF Good
<1>22. Alike(disk, file)
  BY <1>2 DEF Alike
<1>23. DiskInv
  BY <1>2, <1>20, <1>21, <1>22 DEF DiskInv
<1>24. Meta(disk) = FirstMeta(Meta(disk).format) /\ Held(disk)
  BY <1>2, <1>3, <1>14, <1>15, <1>18
<1>25. OneEach(given) /\ owed.kind = "none"
  BY <1>2 DEF OneEach, NoCall
<1> QED
  BY <1>2, <1>21, <1>23, <1>24, <1>25 DEF ArenaInv, OpInv

-----------------------------------------------------------------------------
(* The invariant *)

\* Whatever operations are repeated and whichever faults there are, the
\* superblock in the file, and the one on the device, is that of a queue and
\* a free list whose descriptors are all there, and what a cut short call has
\* left ahead of it is what that call will overwrite when it is repeated.
THEOREM ArenaInvariance == Spec => []ArenaInv
<1>1. Init => ArenaInv
  BY InitHolds
<1>2. ArenaInv /\ [Next]_vars => ArenaInv'
  <2> SUFFICES ASSUME ArenaInv, [Next]_vars PROVE ArenaInv'
    OBVIOUS
  <2>1. CASE Retire
    BY <2>1, RetireKeeps
  <2>2. CASE Reclaim
    BY <2>2, ReclaimKeeps
  <2>3. CASE Shrink
    BY <2>3, ShrinkKeeps
  <2>4. CASE Recover
    BY <2>4, RecoverKeeps
  <2>5. CASE DoWrite
    BY <2>5, DoWriteKeeps
  <2>6. CASE DoResize
    BY <2>6, DoResizeKeeps
  <2>7. CASE DoSuper
    BY <2>7, DoSuperKeeps
  <2>8. CASE DoSyncArena
    BY <2>8, DoSyncArenaKeeps
  <2>9. CASE DoSyncPrimary
    BY <2>9, DoSyncPrimaryKeeps
  <2>10. CASE ProcessCrash
    BY <2>10, ProcessCrashKeeps
  <2>11. CASE PowerLoss
    BY <2>11, PowerLossKeeps
  <2>12. CASE UNCHANGED vars
    <3>1. /\ file' = file /\ disk' = disk /\ op' = op /\ owed' = owed /\ fault' = fault /\ given' = given
      BY <2>12 DEF vars
    <3>2. Preparing' <=> Preparing
      BY <3>1 DEF Preparing, Ordered
    <3>3. Closing' <=> Closing
      BY <3>1 DEF Closing
    <3>4. Recovering' <=> Recovering
      BY <3>1 DEF Recovering
    <3>5. Pending' = Pending
      BY <3>1 DEF Pending
    <3>6. Ahead' <=> Ahead
      BY <3>1, <3>3 DEF Ahead
    <3>7. DiskInv' <=> DiskInv
      BY <3>1, <3>2, <3>5, <3>6 DEF DiskInv, Good
    <3>8. OpInv' <=> OpInv
      BY <3>1, <3>2, <3>3, <3>4 DEF OpInv
    <3> QED
      BY <3>1, <3>5, <3>7, <3>8 DEF ArenaInv, Good
  <2> QED
    BY <2>1, <2>2, <2>3, <2>4, <2>5, <2>6, <2>7, <2>8, <2>9, <2>10, <2>11, <2>12 DEF Next, Step
<1> QED
  BY <1>1, <1>2, PTL DEF Spec

\* The arena is never shorter than the superblock says, in the file or on the
\* device, so recovery never finds descriptors missing.
THEOREM ArenaCovers == Spec => []ArenaCoversCommitted
<1>1. ArenaInv => ArenaCoversCommitted
  <2> SUFFICES ASSUME ArenaInv PROVE Held(file) /\ Held(disk)
    BY DEF ArenaCoversCommitted, CanRecover, Held
  <2> QED
    BY DEF ArenaInv, DiskInv, Good, Sound
<1> QED
  BY <1>1, ArenaInvariance, PTL

-----------------------------------------------------------------------------
(* What the queue and the free list are read as *)

\* Every nonempty set of naturals that a step leads through has all of them.
LEMMA SetInduction ==
  ASSUME NEW S, 0 \in S, \A n \in Nat : n \in S => n + 1 \in S
  PROVE  Nat \subseteq S
<1> DEFINE T == Nat \ S
           R == OpToRel(<, Nat)
<1>1. SUFFICES ASSUME T # {} PROVE FALSE
  OBVIOUS
<1>2. IsWellFoundedOn(R, Nat)
  BY NatLessThanWellFounded
<1>3. T \in SUBSET Nat
  OBVIOUS
<1> HIDE DEF R, T
<1>4. PICK x \in T : \A y \in T : ~(<<y, x>> \in R)
  BY <1>1, <1>2, <1>3, WFMin, Zenon
<1>5. x \in Nat /\ x \notin S /\ \A y \in T : ~(y < x)
  BY <1>3, <1>4 DEF R, OpToRel, T
<1>6. x # 0 /\ x - 1 \in Nat /\ (x - 1) + 1 = x
  BY <1>5
<1>7. x - 1 \in S
  BY <1>5, <1>6 DEF T
<1> QED
  BY <1>5, <1>6, <1>7

\* A descriptor on a list is read under the reference the list has for it.
LEMMA ListReads ==
  ASSUME NEW f, Held(f), NEW n \in Nat, NEW q \in Lists(Meta(f), n), NEW first, NEW status,
         Linked(Rows(f), n, q, first, status), NEW i \in 0 .. n-1,
         NEW ref, ref = RefAt(Rows(f), q[i])
  PROVE  /\ q[i] \in Page /\ q[i] \in 0 .. Meta(f).pairs-1
         /\ ref.page = q[i] /\ ref.inc = Payload(f, q[i]).inc /\ ref # NoRef /\ ref \in [page : Page, inc : Nat]
         /\ Reads(f, ref, status)
         /\ RowOK(Payload(f, q[i])) /\ Payload(f, q[i]).status = status
         /\ Payload(f, q[i]).next = Link(Rows(f), q, n, i+1)
         /\ Follow(f, status)[ref] = Link(Rows(f), q, n, i+1)
<1> DEFINE m == Meta(f)
           R == Rows(f)
<1>1. /\ MetaOK(m) /\ 0 .. m.pairs-1 \subseteq Page
      /\ \A p \in 0 .. m.pairs-1 : HasCommitted(f.arena[p], Epoch(f.super))
  BY DEF Held, MetaOK
<1>2. q[i] \in 0 .. m.pairs-1 /\ q[i] \in Page
  BY <1>1 DEF Lists
<1>3. R[q[i]] = Payload(f, q[i])
  BY <1>2 DEF Rows
<1>4. RowOK(R[q[i]]) /\ R[q[i]].status = status /\ R[q[i]].next = Link(R, q, n, i+1)
  BY DEF Linked
<1> HIDE DEF R, m
<1>5. PICK p, inc : p = q[i] /\ inc = R[q[i]].inc
  OBVIOUS
<1>6. ref = [page |-> p, inc |-> inc]
  BY <1>5 DEF RefAt, Ref, R
<1>7. ref.page = p /\ ref.inc = inc /\ inc \in Nat /\ inc > 0
  BY <1>4, <1>5, <1>6 DEF RowOK
<1>8. ref # NoRef
  BY <1>7 DEF NoRef
<1>9. ref \in [page : Page, inc : Nat]
  BY <1>2, <1>5, <1>6, <1>7
<1>10. Reads(f, ref, status)
  BY <1>1, <1>2, <1>3, <1>4, <1>5, <1>7 DEF Reads
<1>11. Follow(f, status)[ref] = Payload(f, ref.page).next
  BY <1>9, <1>10 DEF Follow
<1> QED
  BY <1>2, <1>3, <1>4, <1>5, <1>7, <1>8, <1>9, <1>10, <1>11 DEF R, m

\* The chain from a first reference is the list.
LEMMA ChainLinks ==
  ASSUME NEW f, Held(f), NEW n \in Nat, NEW q \in Lists(Meta(f), n), NEW first, NEW status,
         Linked(Rows(f), n, q, first, status), NEW i \in 0 .. n
  PROVE  Chain(f, first, status, i) = Link(Rows(f), q, n, i)
<1> DEFINE Run(h) == h = [j \in 0 .. i |-> IF j = 0 THEN first ELSE Follow(f, status)[h[j-1]]]
           at == CHOOSE h : Run(h)
           w == [j \in 0 .. i |-> Link(Rows(f), q, n, j)]
<1>1. Chain(f, first, status, i) = at[i]
  BY DEF Chain
<1>2. first = Link(Rows(f), q, n, 0)
  BY DEF Linked
<1>3. \A j \in 0 .. n-1 : Follow(f, status)[Link(Rows(f), q, n, j)] = Link(Rows(f), q, n, j+1)
  BY ListReads DEF Link
<1>4. \A j \in 0 .. i : w[j] = IF j = 0 THEN first ELSE Follow(f, status)[w[j-1]]
  <2> SUFFICES ASSUME NEW j \in 0 .. i, j # 0 PROVE w[j] = Follow(f, status)[w[j-1]]
    BY <1>2
  <2>1. j-1 \in 0 .. n-1 /\ j-1 \in 0 .. i /\ (j-1)+1 = j
    OBVIOUS
  <2> QED
    BY <1>3, <2>1
<1>5. Run(w)
  BY <1>4
<1>6. Run(at)
  BY <1>5
<1> HIDE DEF at
<1>7. \A j \in 0 .. i : at[j] = IF j = 0 THEN first ELSE Follow(f, status)[at[j-1]]
  BY <1>6
<1> DEFINE T == {j \in Nat : j <= i => at[j] = Link(Rows(f), q, n, j)}
<1>8. 0 \in T
  BY <1>2, <1>7
<1>9. ASSUME NEW j \in Nat, j \in T
      PROVE  j + 1 \in T
  <2> SUFFICES ASSUME j + 1 <= i PROVE at[j+1] = Link(Rows(f), q, n, j+1)
    OBVIOUS
  <2>1. j \in 0 .. n-1 /\ j+1 \in 0 .. i /\ (j+1)-1 = j /\ at[j] = Link(Rows(f), q, n, j)
    BY <1>9
  <2>2. at[j+1] = Follow(f, status)[at[j]]
    BY <1>7, <2>1
  <2> QED
    BY <1>3, <2>1, <2>2
<1> HIDE DEF T
<1>10. Nat \subseteq T
  BY <1>8, <1>9, SetInduction
<1> QED
  BY <1>1, <1>10 DEF T

\* As many pages as there are descriptors on a list.
Listed(q, n) == {q[i] : i \in 0 .. n-1}

LEMMA ListCounts ==
  ASSUME NEW n \in Nat, NEW S, NEW q \in [0 .. n-1 -> S],
         \A i, j \in 0 .. n-1 : q[i] = q[j] => i = j,
         NEW T, T = Listed(q, n)
  PROVE  Cardinality(T) = n
<1> DEFINE D == 0 .. n-1
<1>1. IsFiniteSet(D) /\ Cardinality(D) = n
  <2>1. n-1 \in Int /\ 0 \in Int /\ (0 > n-1 => n = 0) /\ (n-1)-0+1 = n
    OBVIOUS
  <2> QED
    BY <2>1, FS_Interval
<1>2. q \in [D -> T]
  BY DEF Listed
<1>3. IsInjective(q)
  BY DEF IsInjective
<1>4. \A t \in T : \E i \in D : q[i] = t
  BY DEF Listed
<1> HIDE DEF D
<1>5. q \in Bijection(D, T)
  BY <1>2, <1>3, <1>4 DEF Bijection, Injection, Surjection
<1>6. Cardinality(T) = Cardinality(D)
  BY <1>1, <1>5, FS_Bijection DEF ExistsBijection
<1> QED
  BY <1>1, <1>6

\* The queue and the free list, as reads follow them.
LEMMA ListsFollow ==
  ASSUME NEW f, Held(f)
  PROVE  \E q \in Lists(Meta(f), Meta(f).count), s \in Lists(Meta(f), Meta(f).fcount) :
           /\ Shape(Meta(f), Rows(f), q, s)
           /\ \A i \in 0 .. Meta(f).count : InQueue(f, i) = Link(Rows(f), q, Meta(f).count, i)
           /\ \A i \in 0 .. Meta(f).fcount : InFree(f, i) = Link(Rows(f), s, Meta(f).fcount, i)
<1>1. PICK q \in Lists(Meta(f), Meta(f).count), s \in Lists(Meta(f), Meta(f).fcount) :
        Shape(Meta(f), Rows(f), q, s)
  BY DEF Held, Shaped
<1>2. Meta(f).count \in Nat /\ Meta(f).fcount \in Nat
  BY DEF Held, MetaOK
<1>3. /\ Linked(Rows(f), Meta(f).count, q, Meta(f).head, "QUEUED")
      /\ Linked(Rows(f), Meta(f).fcount, s, Meta(f).free, "FREE")
  BY <1>1 DEF Shape
<1>4. \A i \in 0 .. Meta(f).count : InQueue(f, i) = Link(Rows(f), q, Meta(f).count, i)
  BY <1>2, <1>3, ChainLinks DEF InQueue
<1>5. \A i \in 0 .. Meta(f).fcount : InFree(f, i) = Link(Rows(f), s, Meta(f).fcount, i)
  BY <1>2, <1>3, ChainLinks DEF InFree
<1> QED
  BY <1>1, <1>4, <1>5

LEMMA SnapshotHolds ==
  ASSUME NEW f, Held(f)
  PROVE  SnapshotOf(f) /\ ArenaSnapshotOf(f)
<1> DEFINE m == Meta(f)
           R == Rows(f)
<1>1. PICK q \in Lists(m, m.count), s \in Lists(m, m.fcount) :
        /\ Shape(m, R, q, s)
        /\ \A i \in 0 .. m.count : InQueue(f, i) = Link(R, q, m.count, i)
        /\ \A i \in 0 .. m.fcount : InFree(f, i) = Link(R, s, m.fcount, i)
  BY ListsFollow
<1>2. MetaOK(m) /\ m.count \in Nat /\ m.fcount \in Nat /\ m.pairs \in Nat
  BY DEF Held, MetaOK
<1>3. /\ Linked(R, m.count, q, m.head, "QUEUED") /\ Linked(R, m.fcount, s, m.free, "FREE")
      /\ q \in [0 .. m.count-1 -> 0 .. m.pairs-1] /\ s \in [0 .. m.fcount-1 -> 0 .. m.pairs-1]
      /\ m.tail = IF m.count = 0 THEN NoRef ELSE RefAt(R, q[m.count-1])
      /\ m.format > 34 => \A p \in 0 .. m.pairs-1 :
                            (\E i \in 0 .. m.count-1 : q[i] = p) \/ (\E i \in 0 .. m.fcount-1 : s[i] = p)
      /\ m.format >= 37 /\ m.count = 0 => m.pairs = 0
  BY <1>1 DEF Shape, Lists
<1>4. \A i \in 0 .. m.count-1 : InQueue(f, i) = RefAt(R, q[i])
  <2>1. \A i \in 0 .. m.count-1 : i \in 0 .. m.count /\ i < m.count
    BY <1>2
  <2> QED
    BY <1>1, <2>1 DEF Link
<1>5. \A i \in 0 .. m.fcount-1 : InFree(f, i) = RefAt(R, s[i])
  <2>1. \A i \in 0 .. m.fcount-1 : i \in 0 .. m.fcount /\ i < m.fcount
    BY <1>2
  <2> QED
    BY <1>1, <2>1 DEF Link
<1>6. \A i \in 0 .. m.count-1 : RefAt(R, q[i]).page = q[i] /\ RefAt(R, q[i]) # NoRef
  <2>1. /\ Held(f) /\ m.count \in Nat /\ q \in Lists(Meta(f), m.count)
        /\ Linked(Rows(f), m.count, q, m.head, "QUEUED")
    BY <1>1, <1>2, <1>3 DEF R
  <2> SUFFICES ASSUME NEW i \in 0 .. m.count-1 PROVE RefAt(R, q[i]).page = q[i] /\ RefAt(R, q[i]) # NoRef
    OBVIOUS
  <2>2. PICK ref : ref = RefAt(Rows(f), q[i])
    OBVIOUS
  <2> QED
    BY <2>1, <2>2, ListReads DEF R
<1>16. \A i \in 0 .. m.fcount-1 : RefAt(R, s[i]).page = s[i] /\ RefAt(R, s[i]) # NoRef
  <2>1. /\ Held(f) /\ m.fcount \in Nat /\ s \in Lists(Meta(f), m.fcount)
        /\ Linked(Rows(f), m.fcount, s, m.free, "FREE")
    BY <1>1, <1>2, <1>3 DEF R
  <2> SUFFICES ASSUME NEW i \in 0 .. m.fcount-1 PROVE RefAt(R, s[i]).page = s[i] /\ RefAt(R, s[i]) # NoRef
    OBVIOUS
  <2>2. PICK ref : ref = RefAt(Rows(f), s[i])
    OBVIOUS
  <2> QED
    BY <2>1, <2>2, ListReads DEF R
<1>7. InQueue(f, m.count) = NoRef /\ InFree(f, m.fcount) = NoRef
  <2>1. m.count \in 0 .. m.count /\ m.fcount \in 0 .. m.fcount
    BY <1>2
  <2> QED
    BY <1>1, <1>2, <2>1 DEF Link
<1> HIDE DEF R
<1>8. Pages(QueueRefs(f)) = Listed(q, m.count) /\ Pages(FreeRefs(f)) = Listed(s, m.fcount)
  <2>1. QueueRefs(f) = {RefAt(R, q[i]) : i \in 0 .. m.count-1}
    BY <1>4 DEF QueueRefs
  <2>2. FreeRefs(f) = {RefAt(R, s[i]) : i \in 0 .. m.fcount-1}
    BY <1>5 DEF FreeRefs
  <2> QED
    BY <1>6, <1>16, <2>1, <2>2 DEF Pages, Listed
<1>9. NoRef \notin QueueRefs(f) \cup FreeRefs(f)
  BY <1>4, <1>5, <1>6, <1>16 DEF QueueRefs, FreeRefs
<1>10. m.tail = IF m.count = 0 THEN NoRef ELSE InQueue(f, m.count - 1)
  <2>1. m.count # 0 => m.count-1 \in 0 .. m.count-1
    BY <1>2
  <2> QED
    BY <1>3, <1>4, <2>1
<1>11. Cardinality(Pages(QueueRefs(f))) = m.count /\ Cardinality(Pages(FreeRefs(f))) = m.fcount
  <2>1. /\ \A i, j \in 0 .. m.count-1 : q[i] = q[j] => i = j
        /\ \A i, j \in 0 .. m.fcount-1 : s[i] = s[j] => i = j
    BY <1>3 DEF Linked
  <2>2. Cardinality(Pages(QueueRefs(f))) = m.count
    <3>1. PICK n, S, T : n = m.count /\ S = 0 .. m.pairs-1 /\ T = Pages(QueueRefs(f))
      OBVIOUS
    <3>2. /\ n \in Nat /\ q \in [0 .. n-1 -> S] /\ T = Listed(q, n)
          /\ \A i, j \in 0 .. n-1 : q[i] = q[j] => i = j
      BY <1>2, <1>3, <1>8, <2>1, <3>1
    <3>3. Cardinality(T) = n
      BY <3>2, ListCounts
    <3> QED
      BY <3>1, <3>3
  <2>3. Cardinality(Pages(FreeRefs(f))) = m.fcount
    <3>1. PICK n, S, T : n = m.fcount /\ S = 0 .. m.pairs-1 /\ T = Pages(FreeRefs(f))
      OBVIOUS
    <3>2. /\ n \in Nat /\ s \in [0 .. n-1 -> S] /\ T = Listed(s, n)
          /\ \A i, j \in 0 .. n-1 : s[i] = s[j] => i = j
      BY <1>2, <1>3, <1>8, <2>1, <3>1
    <3>3. Cardinality(T) = n
      BY <3>2, ListCounts
    <3> QED
      BY <3>1, <3>3
  <2> QED
    BY <2>2, <2>3
<1>12. \A i \in 0 .. m.count-1, j \in 0 .. m.fcount-1 : q[i] # s[j]
  BY <1>1, <1>2, Ends
<1>13. Pages(QueueRefs(f)) \cap Pages(FreeRefs(f)) = {}
  BY <1>8, <1>12 DEF Listed
<1>14. SnapshotOf(f)
  BY <1>7, <1>9, <1>10, <1>11, <1>13 DEF SnapshotOf
<1>15. m.format > 34 => Pages(QueueRefs(f)) \cup Pages(FreeRefs(f)) = 0 .. m.pairs - 1
  <2>1. \A p \in Pages(QueueRefs(f)) \cup Pages(FreeRefs(f)) : p \in 0 .. m.pairs-1
    BY <1>3, <1>8 DEF Listed
  <2>2. m.format > 34 => \A p \in 0 .. m.pairs-1 : p \in Pages(QueueRefs(f)) \cup Pages(FreeRefs(f))
    BY <1>3, <1>8 DEF Listed
  <2> QED
    BY <2>1, <2>2
<1> QED
  BY <1>3, <1>14, <1>15 DEF ArenaSnapshotOf

\* No operation refuses the committed image.
LEMMA ChecksHold ==
  ASSUME NEW f, Held(f), NEW m, m = Meta(f)
  PROVE  CanRetire(f, m) /\ CanReclaim(f, m) /\ ShrinkChecks(f, m)
<1> DEFINE R == Rows(f)
<1>1. PICK q \in Lists(m, m.count), s \in Lists(m, m.fcount) : Shape(m, R, q, s)
  BY DEF Held, Shaped
<1>2. MetaOK(m) /\ m.count \in Nat /\ m.fcount \in Nat /\ m.pairs \in Nat /\ m.format \in {34, 35, 37, 38}
  BY DEF Held, MetaOK
<1>3. /\ Linked(R, m.count, q, m.head, "QUEUED") /\ Linked(R, m.fcount, s, m.free, "FREE")
      /\ q \in [0 .. m.count-1 -> 0 .. m.pairs-1] /\ s \in [0 .. m.fcount-1 -> 0 .. m.pairs-1]
      /\ m.format >= 37 /\ m.count = 0 => m.pairs = 0
  BY <1>1 DEF Shape, Lists
<1>4. /\ m.tail = NoRef <=> m.count = 0
      /\ m.count > 0 => /\ q[0] \in 0 .. m.pairs-1 /\ q[m.count-1] \in 0 .. m.pairs-1
                        /\ m.head = RefAt(R, q[0]) /\ m.tail = RefAt(R, q[m.count-1])
                        /\ m.head.page = q[0] /\ m.tail.page = q[m.count-1]
                        /\ R[q[m.count-1]].next = NoRef
      /\ m.fcount > 0 => s[0] \in 0 .. m.pairs-1 /\ m.free = RefAt(R, s[0]) /\ m.free.page = s[0]
      /\ m.fcount = 0 => m.free = NoRef
      /\ m.count = 0 => m.head = NoRef
      /\ \A i \in 0 .. m.count-1, j \in 0 .. m.fcount-1 : q[i] # s[j]
  BY <1>1, <1>2, Ends
<1> HIDE DEF R
<1>5. \A i \in 0 .. m.count-1 : /\ Reads(f, RefAt(R, q[i]), "QUEUED") /\ RefAt(R, q[i]) # NoRef
                                /\ Payload(f, q[i]).next = Link(R, q, m.count, i+1)
  <2>1. /\ Held(f) /\ m.count \in Nat /\ q \in Lists(Meta(f), m.count)
        /\ Linked(Rows(f), m.count, q, m.head, "QUEUED")
    BY <1>1, <1>2, <1>3 DEF R
  <2> SUFFICES ASSUME NEW i \in 0 .. m.count-1 PROVE /\ Reads(f, RefAt(R, q[i]), "QUEUED") /\ RefAt(R, q[i]) # NoRef
                                /\ Payload(f, q[i]).next = Link(R, q, m.count, i+1)
    OBVIOUS
  <2>2. PICK ref : ref = RefAt(Rows(f), q[i])
    OBVIOUS
  <2> QED
    BY <2>1, <2>2, ListReads DEF R
<1>6. \A i \in 0 .. m.fcount-1 : /\ Reads(f, RefAt(R, s[i]), "FREE") /\ RefAt(R, s[i]).page = s[i]
                                 /\ Payload(f, s[i]).next = Link(R, s, m.fcount, i+1)
  <2>1. /\ Held(f) /\ m.fcount \in Nat /\ s \in Lists(Meta(f), m.fcount)
        /\ Linked(Rows(f), m.fcount, s, m.free, "FREE")
    BY <1>1, <1>2, <1>3 DEF R
  <2> SUFFICES ASSUME NEW i \in 0 .. m.fcount-1 PROVE /\ Reads(f, RefAt(R, s[i]), "FREE") /\ RefAt(R, s[i]).page = s[i]
                                 /\ Payload(f, s[i]).next = Link(R, s, m.fcount, i+1)
    OBVIOUS
  <2>2. PICK ref : ref = RefAt(Rows(f), s[i])
    OBVIOUS
  <2> QED
    BY <2>1, <2>2, ListReads DEF R
<1>7. m.fcount > 0 => Reads(f, m.free, "FREE")
  <2>1. m.fcount > 0 => 0 \in 0 .. m.fcount-1
    BY <1>2
  <2> QED
    BY <1>4, <1>6, <2>1
<1>8. m.count > 0 => /\ Reads(f, m.head, "QUEUED") /\ m.head # NoRef
                     /\ Reads(f, m.tail, "QUEUED") /\ m.tail # NoRef
                     /\ Payload(f, m.tail.page).next = NoRef
  <2> SUFFICES ASSUME m.count > 0
               PROVE  /\ Reads(f, m.head, "QUEUED") /\ m.head # NoRef
                      /\ Reads(f, m.tail, "QUEUED") /\ m.tail # NoRef
                      /\ Payload(f, m.tail.page).next = NoRef
    OBVIOUS
  <2>1. 0 \in 0 .. m.count-1 /\ m.count-1 \in 0 .. m.count-1 /\ ~((m.count-1)+1 < m.count)
    BY <1>2
  <2>2. Payload(f, q[m.count-1]).next = NoRef
    BY <1>5, <2>1 DEF Link
  <2> QED
    BY <1>4, <1>5, <2>1, <2>2
<1>9. CanRetire(f, m)
  <2>1. m.tail # NoRef => m.count > 0
    BY <1>2, <1>4
  <2>2. ~Reusing(m) => m.fcount = 0
    BY <1>2 DEF Reusing
  <2>3. Reusing(m) => Reads(f, m.free, "FREE")
    BY <1>7 DEF Reusing
  <2> QED
    BY <1>4, <1>8, <2>1, <2>2, <2>3 DEF CanRetire
<1>10. CanReclaim(f, m)
  <2>1. m.count # 0 => m.count > 0
    BY <1>2
  <2> QED
    BY <1>4, <1>8, <2>1 DEF CanReclaim
<1>11. ShrinkChecks(f, m)
  <2> SUFFICES ASSUME CanShrink(m)
               PROVE  /\ m.count > 0
                      /\ Reads(f, m.free, "FREE")
                      /\ LET rest == Payload(f, m.free.page).next
                         IN  rest # NoRef => rest.page < m.pairs - 1
                      /\ m.head # NoRef /\ m.head.page < m.pairs - 1
                      /\ m.tail # NoRef /\ m.tail.page < m.pairs - 1
    BY DEF ShrinkChecks
  <2>1. m.format = 38 /\ m.pairs > 0 /\ m.fcount > 0 /\ m.free.page = m.pairs-1
    BY DEF CanShrink
  <2>2. m.count > 0 /\ 0 \in 0 .. m.fcount-1 /\ 0 \in 0 .. m.count-1 /\ m.count-1 \in 0 .. m.count-1
    BY <1>2, <1>3, <2>1
  <2>3. m.free.page = s[0] /\ s[0] = m.pairs-1
    BY <1>4, <2>1
  <2>4. m.head.page < m.pairs-1 /\ m.tail.page < m.pairs-1
    <3>1. q[0] # s[0] /\ q[m.count-1] # s[0]
      BY <1>4, <2>2
    <3>2. q[0] \in 0 .. m.pairs-1 /\ q[m.count-1] \in 0 .. m.pairs-1 /\ m.head.page = q[0] /\ m.tail.page = q[m.count-1]
      BY <1>4, <2>2
    <3> QED
      BY <1>2, <2>3, <3>1, <3>2
  <2>5. PICK rest : rest = Payload(f, m.free.page).next
    OBVIOUS
  <2>6. rest # NoRef => rest.page < m.pairs-1
    <3>1. rest = IF 1 < m.fcount THEN RefAt(R, s[1]) ELSE NoRef
      BY <1>6, <2>2, <2>3, <2>5 DEF Link
    <3>2. CASE 1 < m.fcount
      <4>1. 1 \in 0 .. m.fcount-1 /\ s[1] \in 0 .. m.pairs-1
        BY <1>2, <1>3, <3>2
      <4>2. s[1] # s[0]
        BY <1>3, <2>2, <4>1 DEF Linked
      <4>3. rest.page = s[1]
        BY <1>6, <3>1, <3>2, <4>1
      <4> QED
        BY <1>2, <2>3, <4>1, <4>2, <4>3
    <3> QED
      BY <3>1, <3>2
  <2> QED
    BY <1>7, <1>8, <2>1, <2>2, <2>4, <2>5, <2>6
<1> QED
  BY <1>9, <1>10, <1>11

\* retirement_queue_snapshot raises nothing, and lists the whole arena: the
\* queue and the free list are chains that end, of the committed lengths, that
\* share no page; and no operation runs into a state it refuses.
THEOREM SnapshotsAreValid == Spec => []SnapshotIsValid
<1>1. ArenaInv => SnapshotIsValid
  <2> SUFFICES ASSUME ArenaInv PROVE SnapshotIsValid
    OBVIOUS
  <2>1. Held(file)
    BY DEF ArenaInv, Good, Sound
  <2> QED
    BY <2>1, SnapshotHolds, ChecksHold DEF SnapshotIsValid
<1> QED
  BY <1>1, ArenaInvariance, PTL

\* A reference resolves if and only if it is one the queue holds now.
LEMMA ResolvesWaiting ==
  ASSUME NEW f, Held(f), Meta(f).format \in {35, 38}, NEW ref \in [page : Page, inc : Nat]
  PROVE  Resolves(f, ref) <=> \E n \in 0 .. Meta(f).count - 1 : InQueue(f, n) = ref
<1> DEFINE m == Meta(f)
<1>1. PICK q \in Lists(m, m.count), s \in Lists(m, m.fcount) :
        /\ Shape(m, Rows(f), q, s)
        /\ \A i \in 0 .. m.count : InQueue(f, i) = Link(Rows(f), q, m.count, i)
  BY ListsFollow
<1>2. /\ m.count \in Nat /\ m.fcount \in Nat /\ m.pairs \in Nat
      /\ m.format < 37 => \A p \in Page : p >= m.pairs => ~HasCommitted(f.arena[p], Epoch(f.super))
  BY DEF Held, MetaOK
<1>3. /\ Linked(Rows(f), m.count, q, m.head, "QUEUED") /\ Linked(Rows(f), m.fcount, s, m.free, "FREE")
      /\ \A p \in 0 .. m.pairs-1 :
           (\E i \in 0 .. m.count-1 : q[i] = p) \/ (\E i \in 0 .. m.fcount-1 : s[i] = p)
  BY <1>1 DEF Shape
<1>4. \A i \in 0 .. m.count-1 : InQueue(f, i) = RefAt(Rows(f), q[i])
  <2>1. \A i \in 0 .. m.count-1 : i \in 0 .. m.count /\ i < m.count
    BY <1>2
  <2> QED
    BY <1>1, <2>1 DEF Link
<1>5. ASSUME NEW i \in 0 .. m.count-1, NEW r, r = RefAt(Rows(f), q[i])
      PROVE  /\ q[i] \in 0 .. m.pairs-1 /\ r.page = q[i] /\ r.inc = Payload(f, q[i]).inc
             /\ r \in [page : Page, inc : Nat] /\ Reads(f, r, "QUEUED")
  BY <1>2, <1>3, <1>5, ListReads
<1>6. ASSUME NEW i \in 0 .. m.fcount-1
      PROVE  Payload(f, s[i]).status = "FREE"
  BY <1>2, <1>3, <1>6, ListReads
<1>7. ASSUME Resolves(f, ref)
      PROVE  \E n \in 0 .. m.count - 1 : InQueue(f, n) = ref
  <2>1. /\ ref.page \in Page /\ HasCommitted(f.arena[ref.page], Epoch(f.super))
        /\ Payload(f, ref.page).inc = ref.inc /\ Payload(f, ref.page).status = "QUEUED"
        /\ m.format = 38 => ref.page < m.pairs
    BY <1>7 DEF Resolves, Reads
  <2>2. ref.page \in 0 .. m.pairs-1
    <3>1. PICK p : p = ref.page
      OBVIOUS
    <3>2. p \in Page /\ p \in Nat /\ HasCommitted(f.arena[p], Epoch(f.super))
      BY <2>1, <3>1, PageAssumption
    <3>3. p < m.pairs
      <4>1. CASE m.format = 38
        BY <2>1, <3>1, <4>1
      <4>2. CASE m.format = 35
        <5>1. ~(p >= m.pairs)
          BY <1>2, <3>2, <4>2
        <5> QED
          BY <1>2, <3>2, <5>1
      <4> QED
        BY <4>1, <4>2
    <3> QED
      BY <1>2, <3>1, <3>2, <3>3
  <2>3. PICK i \in 0 .. m.count-1 : q[i] = ref.page
    BY <1>3, <1>6, <2>1, <2>2
  <2>4. PICK r : r = RefAt(Rows(f), q[i])
    OBVIOUS
  <2>5. r.page = ref.page /\ r.inc = ref.inc /\ r \in [page : Page, inc : Nat]
    BY <1>5, <2>1, <2>3, <2>4
  <2>6. r = ref
    BY <2>5
  <2> QED
    BY <1>4, <2>4, <2>6
<1>8. ASSUME NEW n \in 0 .. m.count - 1, InQueue(f, n) = ref
      PROVE  Resolves(f, ref)
  <2>1. ref = RefAt(Rows(f), q[n])
    BY <1>4, <1>8
  <2>2. Reads(f, ref, "QUEUED") /\ ref.page \in 0 .. m.pairs-1
    BY <1>5, <2>1
  <2> QED
    BY <1>2, <2>2 DEF Resolves
<1> QED
  BY <1>7, <1>8

\* A reference a caller kept resolves if and only if the descriptor it was
\* published for still waits in the queue, whatever its page holds by now.
THEOREM ReferencesAreExact == Spec => []ReferencesResolveExactly
<1>1. ArenaInv => ReferencesResolveExactly
  <2> SUFFICES ASSUME ArenaInv, Meta(file).format \in {35, 38}, NEW g \in given
               PROVE  Resolves(file, g.ref) <=>
                        \E n \in 0 .. Meta(file).count - 1 :
                          InQueue(file, n) = g.ref /\ Payload(file, g.ref.page).gen = g.gen
    BY DEF ReferencesResolveExactly
  <2>1. Held(file) /\ Recorded(given, file, Pending) /\ OneEach(given)
    BY DEF ArenaInv, Good, Sound
  <2>2. g.ref \in [page : Page, inc : Nat]
    BY <2>1 DEF OneEach
  <2>3. Resolves(file, g.ref) <=> \E n \in 0 .. Meta(file).count - 1 : InQueue(file, n) = g.ref
    BY <2>1, <2>2, ResolvesWaiting
  <2>4. ASSUME Resolves(file, g.ref)
        PROVE  Payload(file, g.ref.page).gen = g.gen
    <3>1. PICK p, inc, gen : p = g.ref.page /\ inc = g.ref.inc /\ gen = Payload(file, p).gen
      OBVIOUS
    <3>2. /\ p \in Page /\ Payload(file, p).inc = inc /\ Payload(file, p).status = "QUEUED"
          /\ HasCommitted(file.arena[p], Epoch(file.super))
          /\ Meta(file).format = 38 => p < Meta(file).pairs
      BY <2>4, <3>1 DEF Resolves, Reads
    <3>3. p \in 0 .. Meta(file).pairs-1
      <4>1. /\ Meta(file).pairs \in Nat
            /\ Meta(file).format < 37 =>
                 \A r \in Page : r >= Meta(file).pairs => ~HasCommitted(file.arena[r], Epoch(file.super))
        BY <2>1 DEF Held, MetaOK
      <4> QED
        BY <3>2, <4>1, PageAssumption
    <3>4. PICK h : h = [ref |-> Ref(p, inc), gen |-> gen]
      OBVIOUS
    <3>5. h \in given
      BY <2>1, <3>1, <3>2, <3>3, <3>4 DEF Recorded
    <3>6. h.ref = g.ref /\ h.gen = gen
      <4>1. Ref(p, inc) = [page |-> p, inc |-> inc]
        BY DEF Ref
      <4>2. g.ref = [page |-> p, inc |-> inc]
        BY <2>2, <3>1
      <4> QED
        BY <3>4, <4>1, <4>2
    <3> QED
      BY <2>1, <3>1, <3>5, <3>6 DEF OneEach
  <2> QED
    BY <2>3, <2>4
<1> QED
  BY <1>1, ArenaInvariance, PTL

-----------------------------------------------------------------------------
(* The queue the descriptors stand for *)

\* What the abstract queue of an image is, in terms of its list.
Shows(m, R, q) ==
  [next |-> m.gen,
   rows |-> [i \in 1 .. m.count |-> [gen |-> R[q[i-1]].gen, left |-> R[q[i-1]].left]]]

LEMMA QueueIs ==
  ASSUME NEW f, Held(f), NEW q, NEW s, Shape(Meta(f), Rows(f), q, s)
  PROVE  QueueOf(f) = Shows(Meta(f), Rows(f), q)
<1>1. /\ Meta(f).count \in Nat
      /\ q \in Lists(Meta(f), Meta(f).count) /\ Linked(Rows(f), Meta(f).count, q, Meta(f).head, "QUEUED")
      /\ \A p \in 0 .. Meta(f).pairs-1 : Rows(f)[p] = Payload(f, p)
  BY RowsRead DEF Held, MetaOK, Shape
<1>2. ASSUME NEW i \in 1 .. Meta(f).count
      PROVE  Waiting(f, InQueue(f, i - 1)) =
               [gen |-> Rows(f)[q[i-1]].gen, left |-> Rows(f)[q[i-1]].left]
  <2>1. PICK j : j = i - 1
    OBVIOUS
  <2>2. j \in 0 .. Meta(f).count-1 /\ j \in 0 .. Meta(f).count /\ j < Meta(f).count
    BY <1>1, <2>1
  <2>3. PICK ref : ref = RefAt(Rows(f), q[j])
    OBVIOUS
  <2>4. InQueue(f, j) = ref
    <3>1. Chain(f, Meta(f).head, "QUEUED", j) = Link(Rows(f), q, Meta(f).count, j)
      BY <1>1, <2>2, ChainLinks
    <3> QED
      BY <2>2, <2>3, <3>1 DEF InQueue, Link
  <2>5. Reads(f, ref, "QUEUED") /\ ref.page = q[j] /\ q[j] \in 0 .. Meta(f).pairs-1
    BY <1>1, <2>2, <2>3, ListReads
  <2>6. Rows(f)[q[j]] = Payload(f, q[j])
    BY <1>1, <2>5
  <2> QED
    BY <2>1, <2>4, <2>5, <2>6 DEF Waiting
<1> QED
  BY <1>2 DEF QueueOf, Shows

\* Readers of images that are alike see the same queue.
LEMMA AlikeQueue ==
  ASSUME NEW f, NEW g, Held(f), Held(g), Alike(g, f)
  PROVE  QueueOf(g) = QueueOf(f)
<1>1. PICK q, s : Shape(Meta(f), Rows(f), q, s)
  BY DEF Held, Shaped
<1>2. MetaOK(Meta(f)) /\ Meta(g) = Meta(f)
  BY AlikeReads DEF Held
<1>3. \A p \in 0 .. Meta(f).pairs-1 : Rows(g)[p] = Rows(f)[p]
  BY <1>2, AlikeReads, RowsRead
<1>4. Shape(Meta(g), Rows(g), q, s)
  BY <1>1, <1>2, <1>3, ShapeKeeps
<1>5. QueueOf(f) = Shows(Meta(f), Rows(f), q) /\ QueueOf(g) = Shows(Meta(f), Rows(g), q)
  BY <1>1, <1>2, <1>4, QueueIs
<1>6. \A i \in 1 .. Meta(f).count : Rows(g)[q[i-1]] = Rows(f)[q[i-1]]
  <2> SUFFICES ASSUME NEW i \in 1 .. Meta(f).count PROVE Rows(g)[q[i-1]] = Rows(f)[q[i-1]]
    OBVIOUS
  <2>1. Meta(f).count \in Nat /\ q \in [0 .. Meta(f).count-1 -> 0 .. Meta(f).pairs-1]
    BY <1>1, <1>2 DEF MetaOK, Shape, Lists
  <2>2. i-1 \in 0 .. Meta(f).count-1
    BY <2>1
  <2> QED
    BY <1>3, <2>1, <2>2
<1> QED
  BY <1>5, <1>6 DEF Shows

\* Sequences that differ at one end: b has one element more than a, only its
\* first element differs, or it has lost that element.
Listing(a, n)      == a = [i \in 1 .. n |-> a[i]]
Lengthens(b, a, n) == Listing(b, n+1) /\ \A i \in 1 .. n : b[i] = a[i]
Reheads(b, a, n)   == Listing(b, n)   /\ \A i \in 2 .. n : b[i] = a[i]
Beheads(b, a, n)   == Listing(b, n-1) /\ \A i \in 1 .. n-1 : b[i] = a[i+1]

LEMMA AppendedAt ==
  ASSUME NEW n \in Nat, NEW a, Listing(a, n), NEW b, Lengthens(b, a, n)
  PROVE  b = Append(a, b[n+1])
<1> USE DEF Listing, Lengthens
<1>1. PICK S : (\A i \in 1 .. n : a[i] \in S) /\ b[n+1] \in S
  <2>1. PICK T : T = {a[i] : i \in 1 .. n} \cup {b[n+1]}
    OBVIOUS
  <2>2. (\A i \in 1 .. n : a[i] \in T) /\ b[n+1] \in T
    BY <2>1
  <2> QED
    BY <2>2
<1>0. \A i \in 1 .. n+1 : i # n+1 => i \in 1 .. n
  OBVIOUS
<1>2. \A i \in 1 .. n+1 : b[i] \in S
  <2> SUFFICES ASSUME NEW i \in 1 .. n+1 PROVE b[i] \in S
    OBVIOUS
  <2> QED
    BY <1>0, <1>1
<1>3. a \in Seq(S) /\ Len(a) = n
  BY <1>1
<1>4. b \in Seq(S) /\ Len(b) = n+1
  BY <1>2
<1>5. PICK c : c = Append(a, b[n+1])
  OBVIOUS
<1>6. c \in Seq(S) /\ Len(c) = n+1 /\ c[n+1] = b[n+1] /\ \A i \in 1 .. n : c[i] = a[i]
  BY <1>1, <1>3, <1>5
<1>7. \A i \in 1 .. n+1 : c[i] = b[i]
  <2> SUFFICES ASSUME NEW i \in 1 .. n+1 PROVE c[i] = b[i]
    OBVIOUS
  <2> QED
    BY <1>0, <1>6
<1> QED
  BY <1>4, <1>5, <1>6, <1>7, SeqEqual

LEMMA TakenAt ==
  ASSUME NEW n \in Nat, n > 0, NEW a, Listing(a, n), NEW b
  PROVE  /\ a # <<>> /\ Head(a) = a[1]
         /\ Beheads(b, a, n) => b = Tail(a)
         /\ Reheads(b, a, n) => b = <<b[1]>> \o Tail(a)
<1> USE DEF Listing, Beheads, Reheads
<1>1. PICK S : \A i \in 1 .. n : a[i] \in S
  <2>1. \A i \in 1 .. n : a[i] \in {a[j] : j \in 1 .. n}
    OBVIOUS
  <2> QED
    BY <2>1
<1>2. a \in Seq(S) /\ Len(a) = n
  BY <1>1
<1>3. a # <<>> /\ Head(a) = a[1]
  BY <1>2
<1>4. PICK t : t = Tail(a)
  OBVIOUS
<1>5. t \in Seq(S) /\ Len(t) = n-1 /\ \A i \in 1 .. n-1 : t[i] = a[i+1]
  BY <1>2, <1>3, <1>4, HeadTailProperties
<1>6. ASSUME Beheads(b, a, n)
      PROVE  b = t
  <2>1. \A i \in 1 .. n-1 : b[i] \in S
    <3> SUFFICES ASSUME NEW i \in 1 .. n-1 PROVE b[i] \in S
      OBVIOUS
    <3>1. i+1 \in 1 .. n
      OBVIOUS
    <3> QED
      BY <1>1, <1>6, <3>1
  <2>2. b \in Seq(S) /\ Len(b) = n-1
    BY <1>6, <2>1
  <2> QED
    BY <1>5, <1>6, <2>2, SeqEqual
<1>7. ASSUME Reheads(b, a, n)
      PROVE  b = <<b[1]>> \o t
  <2>1. PICK T : T = S \cup {b[1]}
    OBVIOUS
  <2>2. \A i \in 1 .. n : b[i] \in T
    <3> SUFFICES ASSUME NEW i \in 1 .. n PROVE b[i] \in T
      OBVIOUS
    <3>1. i # 1 => i \in 2 .. n
      OBVIOUS
    <3> QED
      BY <1>1, <1>7, <2>1, <3>1
  <2>3. b \in Seq(T) /\ Len(b) = n
    BY <1>7, <2>2
  <2>4. t \in Seq(T)
    BY <1>5, <2>1
  <2>5. PICK x : x = b[1]
    OBVIOUS
  <2>6. PICK c : c = <<x>> \o t
    OBVIOUS
  <2>7. c \in Seq(T) /\ Len(c) = n /\ c[1] = x /\ \A i \in 2 .. n : c[i] = t[i-1]
    BY <1>5, <2>1, <2>4, <2>5, <2>6
  <2>8. \A i \in 1 .. n : c[i] = b[i]
    <3> SUFFICES ASSUME NEW i \in 1 .. n, i # 1 PROVE c[i] = b[i]
      BY <2>5, <2>7
    <3>1. i \in 2 .. n /\ i-1 \in 1 .. n-1 /\ (i-1)+1 = i
      OBVIOUS
    <3> QED
      BY <1>5, <1>7, <2>7, <3>1
  <2> QED
    BY <2>3, <2>5, <2>6, <2>7, <2>8, SeqEqual
<1> QED
  BY <1>3, <1>4, <1>6, <1>7

\* The image a call commits shows the queue the abstract operation leaves.
LEMMA MovesQueue ==
  ASSUME NEW c, NEW m, NEW R, NEW q, NEW m2, NEW R2, NEW q2, m.count \in Nat, m.gen \in Nat,
         Moves(c, m, R, q, m2, R2, q2),
         NEW a, a = Shows(m, R, q), NEW b, b = Shows(m2, R2, q2)
  PROVE  \/ c.kind = "retire" /\ b = Abstract!Retired(a, c.arg)
         \/ c.kind = "reclaim" /\ a.rows # <<>> /\ b = Abstract!Reclaimed(a, c.arg)
         \/ c.kind = "shrink" /\ b = a
<1> DEFINE At(S, p) == [gen |-> S[p].gen, left |-> S[p].left]
<1>1. PICK ra : ra = [i \in 1 .. m.count |-> At(R, q[i-1])]
  OBVIOUS
<1>2. PICK rb : rb = [i \in 1 .. m2.count |-> At(R2, q2[i-1])]
  OBVIOUS
<1>3. a = [next |-> m.gen, rows |-> ra] /\ b = [next |-> m2.gen, rows |-> rb]
  BY <1>1, <1>2 DEF Shows
<1>4. a.next = m.gen /\ a.rows = ra /\ b.next = m2.gen /\ b.rows = rb
  BY <1>3
<1>5. ra = [i \in 1 .. m.count |-> ra[i]] /\ rb = [i \in 1 .. m2.count |-> rb[i]]
  BY <1>1, <1>2
<1>6. \A p, p2 : Same(R2, p2, R, p) => At(R2, p2) = At(R, p)
  BY DEF Same
<1>7. CASE /\ \/ c.kind = "retire" /\ c.arg = 0 /\ m2.gen = m.gen + 1
              \/ c.kind = "shrink" /\ m2.gen = m.gen
           /\ m2.count = m.count
           /\ \A i \in 0 .. m.count-1 : Same(R2, q2[i], R, q[i])
  <2>1. \A i \in 1 .. m.count : At(R2, q2[i-1]) = At(R, q[i-1])
    <3> SUFFICES ASSUME NEW i \in 1 .. m.count PROVE At(R2, q2[i-1]) = At(R, q[i-1])
      OBVIOUS
    <3>1. i-1 \in 0 .. m.count-1
      OBVIOUS
    <3>2. Same(R2, q2[i-1], R, q[i-1])
      BY <1>7, <3>1
    <3> QED
      BY <1>6, <3>2
  <2> HIDE DEF At
  <2>2. rb = ra
    BY <1>1, <1>2, <1>7, <2>1
  <2>3. CASE c.kind = "retire" /\ c.arg = 0 /\ m2.gen = m.gen + 1
    BY <1>3, <1>4, <2>2, <2>3 DEF Abstract!Retired
  <2>4. CASE c.kind = "shrink" /\ m2.gen = m.gen
    BY <1>3, <2>2, <2>4
  <2> QED
    BY <1>7, <2>3, <2>4
<1>8. CASE /\ c.kind = "retire" /\ c.arg > 0 /\ m2.gen = m.gen + 1 /\ m2.count = m.count + 1
           /\ \A i \in 0 .. m.count-1 : Same(R2, q2[i], R, q[i])
           /\ R2[q2[m.count]].gen = m.gen /\ R2[q2[m.count]].left = c.arg
  <2>1. PICK n : n = m.count
    OBVIOUS
  <2>2. \A i \in 1 .. n : rb[i] = ra[i]
    <3> SUFFICES ASSUME NEW i \in 1 .. n PROVE rb[i] = ra[i]
      OBVIOUS
    <3>1. i-1 \in 0 .. m.count-1 /\ i \in 1 .. m2.count /\ i \in 1 .. m.count
      BY <1>8, <2>1
    <3>2. At(R2, q2[i-1]) = At(R, q[i-1])
      BY <1>6, <1>8, <3>1
    <3> HIDE DEF At
    <3> QED
      BY <1>1, <1>2, <3>1, <3>2
  <2>3. rb[n+1] = [gen |-> m.gen, left |-> c.arg]
    <3>1. n+1 \in 1 .. m2.count /\ (n+1)-1 = m.count
      BY <1>8, <2>1
    <3>2. rb[n+1] = At(R2, q2[m.count])
      BY <1>2, <3>1
    <3> QED
      BY <1>8, <3>2
  <2>4. n \in Nat /\ Listing(ra, n) /\ Lengthens(rb, ra, n)
    BY <1>5, <1>8, <2>1, <2>2 DEF Listing, Lengthens
  <2>5. rb = Append(ra, rb[n+1])
    BY <2>4, AppendedAt
  <2>6. b = [next |-> a.next + 1, rows |-> Append(a.rows, [gen |-> a.next, left |-> c.arg])]
    BY <1>3, <1>4, <1>8, <2>3, <2>5
  <2>7. c.arg # 0
    BY <1>8
  <2> QED
    BY <1>8, <2>6, <2>7 DEF Abstract!Retired
<1>9. CASE /\ c.kind = "reclaim" /\ m.count > 0 /\ R[q[0]].left > c.arg
           /\ m2.gen = m.gen /\ m2.count = m.count
           /\ R2[q2[0]].gen = R[q[0]].gen /\ R2[q2[0]].left = R[q[0]].left - c.arg
           /\ \A i \in 1 .. m.count-1 : Same(R2, q2[i], R, q[i])
  <2>1. PICK n : n = m.count
    OBVIOUS
  <2>2. n \in Nat /\ n > 0 /\ 1 \in 1 .. n /\ 1-1 = 0
    BY <1>9, <2>1
  <2>3. \A i \in 2 .. n : rb[i] = ra[i]
    <3> SUFFICES ASSUME NEW i \in 2 .. n PROVE rb[i] = ra[i]
      OBVIOUS
    <3>1. i-1 \in 1 .. m.count-1 /\ i \in 1 .. m2.count /\ i \in 1 .. m.count
      BY <1>9, <2>1
    <3>2. At(R2, q2[i-1]) = At(R, q[i-1])
      BY <1>6, <1>9, <3>1
    <3> HIDE DEF At
    <3> QED
      BY <1>1, <1>2, <3>1, <3>2
  <2>4. ra[1] = At(R, q[0]) /\ rb[1] = At(R2, q2[0])
    <3> HIDE DEF At
    <3> QED
      BY <1>1, <1>2, <1>9, <2>1, <2>2
  <2>5. rb[1] = [ra[1] EXCEPT !.left = @ - c.arg] /\ ra[1].left > c.arg
    BY <1>9, <2>4
  <2>6. Listing(ra, n) /\ Reheads(rb, ra, n)
    BY <1>5, <1>9, <2>1, <2>3 DEF Listing, Reheads
  <2>7. ra # <<>> /\ Head(ra) = ra[1] /\ rb = <<rb[1]>> \o Tail(ra)
    BY <2>2, <2>6, TakenAt
  <2>8. rb = <<[Head(ra) EXCEPT !.left = @ - c.arg]>> \o Tail(ra)
    BY <2>5, <2>7
  <2>9. PICK rows : rows = <<[Head(ra) EXCEPT !.left = @ - c.arg]>> \o Tail(ra)
    OBVIOUS
  <2>10. Abstract!Reclaimed(a, c.arg) = [a EXCEPT !.rows = rows]
    <3>1. Head(a.rows).left > c.arg
      BY <1>4, <2>5, <2>7
    <3>2. Abstract!Reclaimed(a, c.arg)
            = [a EXCEPT !.rows = <<[Head(a.rows) EXCEPT !.left = @ - c.arg]>> \o Tail(a.rows)]
      BY ONLY <3>1 DEF Abstract!Reclaimed
    <3> QED
      BY <1>4, <2>9, <3>2
  <2>11. [a EXCEPT !.rows = rows] = [next |-> m.gen, rows |-> rows]
    BY <1>3
  <2> QED
    BY <1>3, <1>4, <1>9, <2>7, <2>8, <2>9, <2>10, <2>11
<1>10. CASE /\ c.kind = "reclaim" /\ m.count > 0 /\ ~(R[q[0]].left > c.arg)
            /\ m2.gen = m.gen /\ m2.count = m.count-1
            /\ \A i \in 0 .. m.count-2 : Same(R2, q2[i], R, q[i+1])
  <2>1. PICK n : n = m.count
    OBVIOUS
  <2>2. n \in Nat /\ n > 0 /\ 1 \in 1 .. n /\ 1-1 = 0
    BY <1>10, <2>1
  <2>3. \A i \in 1 .. n-1 : rb[i] = ra[i+1]
    <3> SUFFICES ASSUME NEW i \in 1 .. n-1 PROVE rb[i] = ra[i+1]
      OBVIOUS
    <3>1. i-1 \in 0 .. m.count-2 /\ i \in 1 .. m2.count /\ i+1 \in 1 .. m.count /\ (i-1)+1 = i /\ (i+1)-1 = i
      BY <1>10, <2>1
    <3>2. At(R2, q2[i-1]) = At(R, q[i])
      BY <1>6, <1>10, <3>1
    <3> HIDE DEF At
    <3> QED
      BY <1>1, <1>2, <3>1, <3>2
  <2>4. ra[1] = At(R, q[0])
    <3> HIDE DEF At
    <3> QED
      BY <1>1, <2>1, <2>2
  <2>5. ~(ra[1].left > c.arg)
    BY <1>10, <2>4
  <2>6. Listing(ra, n) /\ Beheads(rb, ra, n)
    BY <1>5, <1>10, <2>1, <2>3 DEF Listing, Beheads
  <2>7. ra # <<>> /\ Head(ra) = ra[1]
    BY <2>2, <2>6, TakenAt
  <2>8. rb = Tail(ra)
    BY <2>2, <2>6, TakenAt
  <2>9. PICK rows : rows = Tail(ra)
    OBVIOUS
  <2>10. Abstract!Reclaimed(a, c.arg) = [a EXCEPT !.rows = rows]
    BY <1>4, <2>5, <2>7, <2>9 DEF Abstract!Reclaimed
  <2>11. [a EXCEPT !.rows = rows] = [next |-> m.gen, rows |-> rows]
    BY <1>3
  <2> QED
    BY <1>3, <1>4, <1>10, <2>7, <2>8, <2>9, <2>10, <2>11
<1> QED
  BY <1>7, <1>8, <1>9, <1>10 DEF Moves

\* The superblock is the step that retires, or reclaims, or neither.
LEMMA SuperMoves ==
  ASSUME ArenaInv, DoSuper
  PROVE  [Abstract!Next]_Abstract!vars
<1> DEFINE c == op.call
<1>1. /\ c # NoCall /\ Held(file) /\ Feasible(file, c) /\ disk' = disk /\ Held(file')
      /\ Moved(file, c, Meta(file'), Rows(file'))
  BY SuperCommits
<1>2. PICK q, s, q2, s2 : /\ Shape(Meta(file), Rows(file), q, s) /\ Shape(Meta(file'), Rows(file'), q2, s2)
                          /\ Moves(c, Meta(file), Rows(file), q, Meta(file'), Rows(file'), q2)
  BY <1>1 DEF Moved
<1>3. PICK f : f = file'
  OBVIOUS
<1>4. QueueOf(file) = Shows(Meta(file), Rows(file), q) /\ QueueOf(f) = Shows(Meta(f), Rows(f), q2)
  BY <1>1, <1>2, <1>3, QueueIs
<1>5. Meta(file).count \in Nat /\ Meta(file).gen \in Nat
  BY <1>1 DEF Held, MetaOK
<1>6. \/ c.kind = "retire" /\ QueueOf(f) = Abstract!Retired(QueueOf(file), c.arg)
      \/ c.kind = "reclaim" /\ QueueOf(file).rows # <<>> /\ QueueOf(f) = Abstract!Reclaimed(QueueOf(file), c.arg)
      \/ c.kind = "shrink" /\ QueueOf(f) = QueueOf(file)
  BY <1>2, <1>3, <1>4, <1>5, MovesQueue
<1>7. c.kind = "retire" => c.arg \in OwnerCounts
  BY <1>1 DEF Feasible, Call
<1>8. c.kind = "reclaim" => c.arg \in Budgets
  BY <1>1 DEF Feasible, Call
<1>9. QueueOf(disk') = QueueOf(disk) /\ QueueOf(file') = QueueOf(f)
  BY <1>1, <1>3
<1> HIDE DEF c
<1>10. CASE c.kind = "retire" /\ QueueOf(f) = Abstract!Retired(QueueOf(file), c.arg)
  <2>1. Abstract!Retire
    BY <1>7, <1>9, <1>10 DEF Abstract!Retire
  <2> QED
    BY <2>1 DEF Abstract!Next
<1>11. CASE /\ c.kind = "reclaim" /\ QueueOf(file).rows # <<>>
            /\ QueueOf(f) = Abstract!Reclaimed(QueueOf(file), c.arg)
  <2>1. Abstract!Reclaim
    BY <1>8, <1>9, <1>11 DEF Abstract!Reclaim
  <2> QED
    BY <2>1 DEF Abstract!Next
<1>12. CASE QueueOf(f) = QueueOf(file)
  BY <1>9, <1>12 DEF Abstract!vars
<1> QED
  BY <1>6, <1>10, <1>11, <1>12

\* Any other step but a power loss leaves the queue, and hardens it or not.
LEMMA QueueStays ==
  ASSUME Held(file), Held(file'), Alike(file', file), disk' \in {disk, file}
  PROVE  [Abstract!Next]_Abstract!vars
<1>1. PICK f : f = file'
  OBVIOUS
<1>2. QueueOf(f) = QueueOf(file)
  BY <1>1, AlikeQueue
<1>3. QueueOf(file') = QueueOf(file)
  BY <1>1, <1>2
<1>4. CASE disk' = disk
  BY <1>3, <1>4 DEF Abstract!vars
<1>5. CASE disk' = file
  <2>1. QueueOf(disk') = QueueOf(file)
    BY <1>5
  <2>2. Abstract!Harden
    BY <1>3, <2>1 DEF Abstract!Harden
  <2> QED
    BY <2>2 DEF Abstract!Next
<1> QED
  BY <1>4, <1>5

LEMMA PowerLossMoves ==
  ASSUME ArenaInv, PowerLoss
  PROVE  [Abstract!Next]_Abstract!vars
<1>1. fault = "power"
  BY DEF PowerLoss
<1>2. PICK g \in Survivors : file' = g /\ disk' = g /\ CutShort(g)
  BY DEF PowerLoss
<1>3. FileOK(file) /\ FileOK(disk) /\ Held(file) /\ Held(disk)
  BY <1>1 DEF ArenaInv, DiskInv, Good, Sound, Held
<1>4. Held(g) /\ (Alike(g, file) \/ (Ahead /\ Alike(g, disk)))
  BY <1>1, <1>2, <1>3, SurvivorParts, PowerLossSound DEF Sound
<1>5. QueueOf(file') = QueueOf(g) /\ QueueOf(disk') = QueueOf(g)
  BY <1>2
<1>6. CASE Alike(g, file)
  <2>1. QueueOf(g) = QueueOf(file)
    BY <1>3, <1>4, <1>6, AlikeQueue
  <2>2. Abstract!Harden
    BY <1>5, <2>1 DEF Abstract!Harden
  <2> QED
    BY <2>2 DEF Abstract!Next
<1>7. CASE Alike(g, disk)
  <2>1. QueueOf(g) = QueueOf(disk)
    BY <1>3, <1>4, <1>7, AlikeQueue
  <2>2. Abstract!Lose
    BY <1>5, <2>1 DEF Abstract!Lose
  <2> QED
    BY <2>2 DEF Abstract!Next
<1> QED
  BY <1>4, <1>6, <1>7

\* The descriptors implement the queue: every step of a store, and every
\* crash, is a retirement, a reclaim step or none, whole or not at all, and a
\* power loss brings back the queue before or after the call it cut short.
THEOREM ArenaImplementsQueue == Spec => ImplementsRetirementQueue
<1>1. Init => Abstract!Init
  <2> SUFFICES ASSUME Init PROVE Abstract!Init
    OBVIOUS
  <2>1. ArenaInv
    BY InitHolds
  <2>2. disk = file
    BY DEF Init
  <2>3. Held(file)
    BY <2>1 DEF ArenaInv, Good, Sound
  <2>4. PICK q, s : Shape(Meta(file), Rows(file), q, s)
    BY <2>3 DEF Held, Shaped
  <2>5. Meta(file).gen = 0 /\ Meta(file).count = 0
    <3>1. PICK format \in Formats :
            file = [super |-> [t \in Slot |-> [epoch |-> 1 - t, meta |-> FirstMeta(format)]],
                    arena |-> [p \in Page |-> Blanks], len |-> 0]
      BY DEF Init
    <3>2. file.super = [t \in Slot |-> [epoch |-> 1 - t, meta |-> FirstMeta(format)]]
      BY <3>1
    <3>3. \A t \in Slot : file.super[t].meta = FirstMeta(format)
      BY <3>2
    <3>4. Meta(file) = FirstMeta(format)
      BY <3>3 DEF Meta, MetaOf, ActiveSlot, Slot
    <3> QED
      BY <3>4 DEF FirstMeta
  <2>6. QueueOf(file) = [next |-> 0, rows |-> <<>>]
    <3>1. QueueOf(file) = Shows(Meta(file), Rows(file), q)
      BY <2>3, <2>4, QueueIs
    <3> QED
      BY <2>5, <3>1 DEF Shows
  <2> QED
    BY <2>2, <2>6 DEF Abstract!Init
<1>2. ArenaInv /\ ArenaInv' /\ [Next]_vars => [Abstract!Next]_Abstract!vars
  <2> SUFFICES ASSUME ArenaInv, ArenaInv', [Next]_vars PROVE [Abstract!Next]_Abstract!vars
    OBVIOUS
  <2>1. Held(file) /\ Held(file')
    BY DEF ArenaInv, Good, Sound
  <2>2. Alike(file, file)
    BY DEF Alike
  <2>3. CASE Retire \/ Reclaim \/ Shrink \/ Recover \/ ProcessCrash \/ UNCHANGED vars
    <3>1. file' = file /\ disk' = disk
      BY <2>3 DEF Retire, Reclaim, Shrink, Recover, Start, ProcessCrash, vars
    <3> QED
      BY <2>1, <2>2, <3>1, QueueStays
  <2>4. CASE DoWrite
    BY <2>1, <2>4, DoWriteKeeps, QueueStays
  <2>5. CASE DoResize
    BY <2>1, <2>5, DoResizeKeeps, QueueStays
  <2>6. CASE DoSuper
    BY <2>6, SuperMoves
  <2>7. CASE DoSyncArena
    BY <2>1, <2>2, <2>7, DoSyncArenaKeeps, QueueStays
  <2>8. CASE DoSyncPrimary
    BY <2>1, <2>2, <2>8, DoSyncPrimaryKeeps, QueueStays
  <2>9. CASE PowerLoss
    BY <2>9, PowerLossMoves
  <2> QED
    BY <2>3, <2>4, <2>5, <2>6, <2>7, <2>8, <2>9 DEF Next, Step
<1> QED
  BY <1>1, <1>2, ArenaInvariance, PTL DEF Spec, ImplementsRetirementQueue, Abstract!Spec
=============================================================================
