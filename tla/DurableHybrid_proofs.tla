------------------------ MODULE DurableHybrid_proofs ------------------------
(***************************************************************************)
(* Proofs about DurableHybrid.  A transaction works on a copy of the       *)
(* tables, so everything rests on what Route, Swept and Completed make of  *)
(* a sound one (DbOK), and a lookup on where a key stays while no          *)
(* transaction moves it.                                                   *)
(***************************************************************************)
EXTENDS DurableHybrid, PrimaryTable_proofs, SequenceTheorems

\* No row is left on a page that no generation covers.
Tidy(img, m) ==
  \A p \in Page : p \notin PagesOf(m.cur) \cup PagesOf(m.old) /\ img[p] # Blank =>
                    \A i \in DOMAIN img[p] : img[p][i] = NoKey

\* The tables, in the midst of a transaction too.
TablesOK(img, m, over) ==
  /\ TableOK(img, m) /\ Unused(img, m) /\ Tidy(img, m)
  /\ over \subseteq Key /\ IsFiniteSet(over) /\ Cardinality(over) = m.overflow
  /\ over \cap Kept(img, m) = {}

IsDb(d) == d = [img |-> d.img, meta |-> d.meta, overflow |-> d.overflow]
DbOK(d) == IsDb(d) /\ TablesOK(d.img, d.meta, d.overflow)

Holding(d) == Kept(d.img, d.meta) \cup d.overflow
Total(m)   == m.cur.rows + m.old.rows + m.overflow

\* What a transaction has at its end.
AtRest(d) == DbOK(d) /\ d.meta.live = Total(d.meta)

\* The generations and the migration of n are those of m.
SameCourse(m, n) ==
  /\ n.cur.base = m.cur.base /\ n.cur.cap = m.cur.cap /\ n.old = m.old
  /\ PagesOf(n.cur) = PagesOf(m.cur)
  /\ n.cursor = m.cursor /\ n.limit = m.limit /\ n.nextPage = m.nextPage

-----------------------------------------------------------------------------
(* Counters, and rows that join *)

Recounts(n, m, l, o) == n = [m EXCEPT !.live = l, !.overflow = o]

\* The table does not depend on the counters of live keys and overflow rows.
LEMMA CountersAside ==
  ASSUME NEW img, NEW m, TableOK(img, m), NEW l \in Nat, NEW o \in Nat,
         NEW n, Recounts(n, m, l, o)
  PROVE  /\ TableOK(img, n) /\ Kept(img, n) = Kept(img, m)
         /\ n.cur = m.cur /\ n.old = m.old /\ n.cursor = m.cursor /\ n.limit = m.limit
         /\ n.nextPage = m.nextPage /\ n.live = l /\ n.overflow = o
<1>1. m \in Metas
  BY DEF TableOK, Formed
<1>2. /\ n \in Metas
      /\ n.cur = m.cur /\ n.old = m.old /\ n.cursor = m.cursor /\ n.limit = m.limit
      /\ n.nextPage = m.nextPage /\ n.live = l /\ n.overflow = o
  BY <1>1 DEF Metas, Recounts
<1> QED
  BY <1>2 DEF TableOK, Formed, Counts, Kept

LEMMA SameTidy ==
  ASSUME NEW img, NEW m, NEW n, PagesOf(n.cur) \cup PagesOf(n.old) = PagesOf(m.cur) \cup PagesOf(m.old),
         n.nextPage = m.nextPage
  PROVE  (Tidy(img, m) => Tidy(img, n)) /\ (Unused(img, m) => Unused(img, n))
BY DEF Tidy, Unused

\* Pages of the generations are rewritten, and no other.
LEMMA SpansTidy ==
  ASSUME NEW m, Formed(m), NEW v \in Views, NEW w, Spans(v, w, m), Tidy(v.img, m), Unused(v.img, m)
  PROVE  Tidy(w.img, m) /\ Unused(w.img, m)
<1>1. \A p \in Page : p \notin PagesOf(m.cur) \cup PagesOf(m.old) => w.img[p] = v.img[p]
  BY DEF Spans
<1>2. m.nextPage \in Nat
  BY DEF Formed, Metas
<1> QED
  BY <1>1, <1>2, SpansKeepsUnused DEF Tidy, Unused

\* A key that found no place joins the overflow.
LEMMA OverflowTakes ==
  ASSUME NEW d, DbOK(d), NEW k \in Key, k \notin Holding(d), NEW e, e = ToOverflow(d, k)
  PROVE  /\ DbOK(e) /\ Holding(e) = With(Holding(d), k) /\ Total(e.meta) = Total(d.meta) + 1
         /\ e.meta.live = d.meta.live /\ SameCourse(d.meta, e.meta)
<1>1. PICK img, m, over : img = d.img /\ m = d.meta /\ over = d.overflow
  OBVIOUS
<1>2. TablesOK(img, m, over) /\ d = [img |-> img, meta |-> m, overflow |-> over]
  BY <1>1 DEF DbOK, IsDb
<1>3. m \in Metas /\ m.live \in Nat /\ m.overflow \in Nat /\ m.cur \in Gens /\ m.old \in Gens
  BY <1>2 DEF TablesOK, TableOK, Formed, Metas
<1>4. PICK l, o, n : l = m.live /\ o = m.overflow + 1 /\ Recounts(n, m, l, o)
  BY DEF Recounts
<1>5. /\ TableOK(img, n) /\ Kept(img, n) = Kept(img, m)
      /\ n.cur = m.cur /\ n.old = m.old /\ n.cursor = m.cursor /\ n.limit = m.limit
      /\ n.nextPage = m.nextPage /\ n.live = m.live /\ n.overflow = m.overflow + 1
  <2>1. TableOK(img, m) /\ l \in Nat /\ o \in Nat /\ Recounts(n, m, l, o)
    BY <1>2, <1>3, <1>4 DEF TablesOK
  <2> QED
    BY <1>4, <2>1, CountersAside
<1>6. e = [img |-> img, meta |-> n, overflow |-> over \cup {k}]
  <2>1. n = [m EXCEPT !.overflow = m.overflow + 1]
    BY <1>3, <1>4 DEF Metas, Recounts
  <2> QED
    BY <1>2, <2>1 DEF ToOverflow
<1>7. k \notin over /\ k \notin Kept(img, m)
  BY <1>1 DEF Holding
<1>8. TablesOK(img, n, over \cup {k})
  <2>1. Tidy(img, n) /\ Unused(img, n)
    BY <1>2, <1>5, SameTidy DEF TablesOK
  <2>2. IsFiniteSet(over \cup {k}) /\ Cardinality(over \cup {k}) = m.overflow + 1
    BY <1>2, <1>7, FS_AddElement DEF TablesOK
  <2> QED
    BY <1>2, <1>5, <1>7, <2>1, <2>2 DEF TablesOK
<1>9. Total(n) = Total(m) + 1
  BY <1>3, <1>5 DEF Total, Gens
<1>10. e.img = img /\ e.meta = n /\ e.overflow = over \cup {k}
  BY <1>6
<1> QED
  BY <1>1, <1>5, <1>6, <1>8, <1>9, <1>10 DEF DbOK, IsDb, Holding, With, SameCourse

\* _place_primary_tx and its routing: the key is in the primary or in the
\* overflow, and nothing else has moved.
LEMMA AdmitKeeps ==
  ASSUME NEW d, DbOK(d), NEW k \in Key, k \notin Holding(d), NEW e, e = Admit(d, k)
  PROVE  /\ DbOK(e) /\ Holding(e) = With(Holding(d), k) /\ Total(e.meta) = Total(d.meta) + 1
         /\ e.meta.live = d.meta.live /\ SameCourse(d.meta, e.meta)
<1>1. PICK img, m, over : img = d.img /\ m = d.meta /\ over = d.overflow
  OBVIOUS
<1>2. TablesOK(img, m, over) /\ d = [img |-> img, meta |-> m, overflow |-> over]
  BY <1>1 DEF DbOK, IsDb
<1>3. /\ m \in Metas /\ m.live \in Nat /\ m.overflow \in Nat /\ m.cur \in Gens /\ m.old \in Gens
      /\ m.cur.rows \in Nat /\ m.old.rows \in Nat
      /\ Formed(m) /\ Laid(m.cur) /\ Sound(img, m.cur) /\ img \in [Page -> Pages]
  BY <1>2 DEF TablesOK, TableOK, Formed, Metas, Gens
<1>4. k \notin Kept(img, m) /\ k \notin Inside(img, m.cur) /\ k \notin over
  BY <1>1 DEF Holding, Kept
<1>5. PICK v : v = [img |-> img, written |-> {}]
  OBVIOUS
<1>6. v \in Views /\ v.img = img
  BY <1>3, <1>5 DEF Views
<1>7. PICK put : put = Place(v, m.cur, k)
  OBVIOUS
<1>8. e = Routed(d, put, k)
  BY <1>1, <1>5, <1>7 DEF Admit
<1>9. put.ok \in BOOLEAN /\ (put.ok => Grown(v, put.view, m.cur, k))
  BY <1>3, <1>4, <1>6, <1>7, PlaceGrows
<1>10. CASE ~put.ok
  <2>1. e = ToOverflow(d, k)
    BY <1>8, <1>10 DEF Routed
  <2> QED
    BY <2>1, OverflowTakes
<1>11. CASE put.ok
  <2>1. PICK w, n : w = put.view /\ n = Counted(m)
    OBVIOUS
  <2>2. /\ TableOK(w.img, n) /\ Kept(w.img, n) = With(Kept(img, m), k) /\ Spans(v, w, m)
        /\ PagesOf(n.cur) = PagesOf(m.cur) /\ n.old = m.old
        /\ n.cur.rows = m.cur.rows + 1 /\ n.cur.cap = m.cur.cap /\ n.cur.base = m.cur.base
        /\ n.cursor = m.cursor /\ n.limit = m.limit /\ n.nextPage = m.nextPage
        /\ n.live = m.live + 1 /\ n.overflow = m.overflow
    <3>1. /\ TableOK(img, m) /\ k \in Key /\ k \notin Kept(img, m) /\ v \in Views /\ v.img = img
          /\ Grown(v, w, m.cur, k) /\ n = Counted(m)
      BY <1>2, <1>4, <1>6, <1>9, <1>11, <2>1 DEF TablesOK
    <3> QED
      BY <3>1, RowAdded
  <2>3. PICK l, x, o : l = m.live /\ x = m.overflow /\ Recounts(o, n, l, x)
    BY DEF Recounts
  <2>4. /\ TableOK(w.img, o) /\ Kept(w.img, o) = Kept(w.img, n)
        /\ o.cur = n.cur /\ o.old = n.old /\ o.cursor = n.cursor /\ o.limit = n.limit
        /\ o.nextPage = n.nextPage /\ o.live = m.live /\ o.overflow = m.overflow
    <3>1. TableOK(w.img, n) /\ l \in Nat /\ x \in Nat /\ Recounts(o, n, l, x)
      BY <1>3, <2>2, <2>3
    <3>2. PICK i : i = w.img
      OBVIOUS
    <3> QED
      BY <2>3, <3>1, <3>2, CountersAside
  <2>5. o = [m EXCEPT !.cur.rows = @ + 1]
    BY <1>3, <2>1, <2>3 DEF Metas, Counted, Recounts
  <2>6. e = [img |-> w.img, meta |-> o, overflow |-> over]
    BY <1>2, <1>8, <1>11, <2>1, <2>5 DEF Routed
  <2>7. Tidy(w.img, o) /\ Unused(w.img, o)
    <3>1. Tidy(w.img, m) /\ Unused(w.img, m)
      BY <1>2, <1>3, <1>6, <2>2, SpansTidy DEF TablesOK
    <3>2. PagesOf(o.cur) \cup PagesOf(o.old) = PagesOf(m.cur) \cup PagesOf(m.old) /\ o.nextPage = m.nextPage
      BY <2>2, <2>4
    <3> QED
      BY <3>1, <3>2, SameTidy
  <2>8. TablesOK(w.img, o, over)
    BY <1>2, <1>4, <2>2, <2>4, <2>7 DEF TablesOK, With
  <2>9. Total(o) = Total(m) + 1
    BY <1>3, <2>2, <2>4 DEF Total
  <2>10. e.img = w.img /\ e.meta = o /\ e.overflow = over
    BY <2>6
  <2>11. SameCourse(m, o)
    BY <2>2, <2>4 DEF SameCourse
  <2> QED
    BY <1>1, <2>2, <2>4, <2>6, <2>8, <2>9, <2>10, <2>11 DEF DbOK, IsDb, Holding, With
<1> QED
  BY <1>9, <1>10, <1>11

-----------------------------------------------------------------------------
(* The sweep *)

Taken(n, m)  == n = [m EXCEPT !.cursor = @ + 1, !.old.rows = @ - 1]
Passed(n, m) == n = [m EXCEPT !.cursor = @ + 1]

\* The row at the cursor leaves the old generation.
LEMMA RowTaken ==
  ASSUME NEW img, NEW m, TableOK(img, m), m.old # NoGen, m.cursor < m.limit,
         NEW x \in Inside(img, m.old), NEW new \in [Page -> Pages],
         Sound(new, m.cur), Inside(new, m.cur) = Inside(img, m.cur),
         Sound(new, m.old), Inside(new, m.old) = Without(Inside(img, m.old), x),
         SweptTo(new, m.old, m.cursor + 1), NEW n, Taken(n, m)
  PROVE  /\ TableOK(new, n) /\ n.old # NoGen /\ Kept(new, n) = Without(Kept(img, m), x)
         /\ PagesOf(n.cur) = PagesOf(m.cur) /\ PagesOf(n.old) = PagesOf(m.old)
         /\ n.cur = m.cur /\ n.old.rows = m.old.rows - 1
         /\ n.nextPage = m.nextPage /\ n.live = m.live /\ n.overflow = m.overflow
<1>1. /\ m \in Metas /\ Laid(m.cur) /\ Laid(m.old) /\ Formed(m)
      /\ m.cursor \in Nat /\ m.limit \in Nat
      /\ m.cur.rows \in Nat /\ m.old.rows \in Nat
  BY DEF TableOK, Formed, Metas, Gens
<1>2. /\ IsFiniteSet(Inside(img, m.cur)) /\ Cardinality(Inside(img, m.cur)) = m.cur.rows
      /\ IsFiniteSet(Inside(img, m.old)) /\ Cardinality(Inside(img, m.old)) = m.old.rows
      /\ Inside(img, m.cur) \cap Inside(img, m.old) = {}
  BY DEF TableOK, Counts
<1>3. /\ IsFiniteSet(Inside(new, m.old)) /\ Cardinality(Inside(new, m.old)) = m.old.rows - 1
      /\ Inside(new, m.cur) \cap Inside(new, m.old) = {}
  <2>1. Inside(new, m.old) = Inside(img, m.old) \ {x} /\ x \in Inside(img, m.old)
    BY DEF Without
  <2>2. /\ IsFiniteSet(Inside(img, m.old) \ {x})
        /\ Cardinality(Inside(img, m.old) \ {x}) = m.old.rows - 1
    BY <1>2, <2>1, FS_RemoveElement
  <2> QED
    BY <1>2, <2>1, <2>2
<1>4. m.old.rows - 1 \in Nat
  BY <1>3, FS_CardinalityType
<1> DEFINE o == [m.old EXCEPT !.rows = @ - 1]
<1>5. /\ n.cur = m.cur /\ n.old = o /\ n.cursor = m.cursor + 1 /\ n.limit = m.limit
      /\ n.nextPage = m.nextPage /\ n.live = m.live /\ n.overflow = m.overflow
      /\ n = [cur |-> n.cur, old |-> n.old, cursor |-> n.cursor, limit |-> n.limit,
              nextPage |-> n.nextPage, live |-> n.live, overflow |-> n.overflow]
  BY <1>1 DEF Metas, Taken
<1>6. /\ Laid(o) /\ o.base = m.old.base /\ o.cap = m.old.cap /\ o.rows = m.old.rows - 1
      /\ StashPage(o) = StashPage(m.old) /\ PagesOf(o) = PagesOf(m.old) /\ o # NoGen
  BY <1>1, <1>4, Recounted
<1> HIDE DEF o
<1>7. Sound(new, o) /\ Inside(new, o) = Inside(new, m.old) /\ SweptTo(new, o, m.cursor + 1)
  BY <1>1, <1>6, SamePlace
<1>8. Formed(n)
  <2>1. n \in Metas
    <3>1. o \in Gens
      BY <1>6 DEF Laid
    <3> QED
      BY <1>1, <1>5, <3>1 DEF Metas
  <2> QED
    BY <1>1, <1>5, <1>6, <2>1 DEF Formed
<1>9. Counts(new, n)
  BY <1>2, <1>3, <1>5, <1>6, <1>7 DEF Counts
<1>10. TableOK(new, n)
  BY <1>5, <1>7, <1>8, <1>9 DEF TableOK
<1>11. Kept(new, n) = Without(Kept(img, m), x)
  BY <1>2, <1>5, <1>7 DEF Kept, Without
<1> QED
  BY <1>5, <1>6, <1>10, <1>11

\* The cursor passes an empty slot.
LEMMA SlotPassed ==
  ASSUME NEW img, NEW m, TableOK(img, m), m.old # NoGen, m.cursor < m.limit,
         CursorKeys(img, m)[CursorSlot(m)] = NoKey, NEW n, Passed(n, m)
  PROVE  /\ TableOK(img, n) /\ n.old = m.old /\ n.cur = m.cur
         /\ n.nextPage = m.nextPage /\ n.live = m.live /\ n.overflow = m.overflow
<1>1. m \in Metas /\ Formed(m) /\ m.cursor \in Nat /\ m.limit \in Nat
  BY DEF TableOK, Formed, Metas
<1>2. /\ n \in Metas /\ n.cur = m.cur /\ n.old = m.old /\ n.cursor = m.cursor + 1 /\ n.limit = m.limit
      /\ n.nextPage = m.nextPage /\ n.live = m.live /\ n.overflow = m.overflow
  BY <1>1 DEF Metas, Passed
<1>3. SweptTo(img, m.old, m.cursor + 1)
  BY PassSlot
<1>4. Formed(n)
  BY <1>1, <1>2 DEF Formed
<1> QED
  BY <1>2, <1>3, <1>4 DEF TableOK, Counts

\* The view without the row at the cursor.
Emptied(v, m) ==
  Put(v, CursorPage(m), [CursorKeys(v.img, m) EXCEPT ![CursorSlot(m)] = NoKey])

LEMMA EmptiedKeeps ==
  ASSUME NEW v \in Views, NEW m, TableOK(v.img, m), m.old # NoGen, m.cursor < m.limit,
         NEW x, x = CursorKeys(v.img, m)[CursorSlot(m)], x # NoKey, NEW u, u = Emptied(v, m)
  PROVE  /\ x \in Inside(v.img, m.old) /\ x \in Key
         /\ u \in Views /\ Rewrites(v, u, m.old)
         /\ Sound(u.img, m.old) /\ Inside(u.img, m.old) = Inside(v.img, m.old) \ {x}
         /\ Sound(u.img, m.cur) /\ Inside(u.img, m.cur) = Inside(v.img, m.cur)
         /\ SweptTo(u.img, m.old, m.cursor + 1)
<1> DEFINE keys == CursorKeys(v.img, m)
           i    == CursorSlot(m)
           w    == Put(v, CursorPage(m), [keys EXCEPT ![i] = NoKey])
<1>1. /\ keys[i] \in Inside(v.img, m.old) /\ keys[i] \in Key
      /\ w \in Views /\ Rewrites(v, w, m.old)
      /\ Sound(w.img, m.old) /\ Inside(w.img, m.old) = Inside(v.img, m.old) \ {keys[i]}
      /\ Sound(w.img, m.cur) /\ Inside(w.img, m.cur) = Inside(v.img, m.cur)
      /\ SweptTo(w.img, m.old, m.cursor + 1)
  BY TakeRow
<1>2. u = w /\ x = keys[i]
  BY DEF Emptied
<1> HIDE DEF w, keys, i
<1> QED
  BY <1>1, <1>2

\* A state s of the sweep of d: no key has gone or come.
Sweeping(s, d) ==
  /\ DbOK(s) /\ Holding(s) = Holding(d) /\ Total(s.meta) = Total(d.meta)
  /\ s.meta.live = d.meta.live /\ s.meta.old # NoGen

LEMMA SweepingOn ==
  ASSUME NEW d, NEW s, NEW t, Sweeping(s, d), Sweeping(t, s)
  PROVE  Sweeping(t, d)
BY DEF Sweeping

\* One source slot: its row is taken, and admitted again.
LEMMA MoveRowKeeps ==
  ASSUME NEW d, DbOK(d), d.meta.old # NoGen, d.meta.cursor < d.meta.limit,
         NEW e, e = MoveRow(d, CursorKeys(d.img, d.meta), CursorSlot(d.meta))
  PROVE  Sweeping(e, d)
<1>1. PICK img, m, over : img = d.img /\ m = d.meta /\ over = d.overflow
  OBVIOUS
<1>2. TablesOK(img, m, over) /\ d = [img |-> img, meta |-> m, overflow |-> over]
  BY <1>1 DEF DbOK, IsDb
<1>3. /\ m \in Metas /\ m.cur \in Gens /\ m.old \in Gens /\ m.cur.rows \in Nat /\ m.old.rows \in Nat
      /\ m.overflow \in Nat /\ m.cursor \in Nat /\ Formed(m) /\ img \in [Page -> Pages]
  BY <1>2 DEF TablesOK, TableOK, Formed, Metas, Gens
<1>4. PICK keys, i : keys = CursorKeys(img, m) /\ i = CursorSlot(m)
  OBVIOUS
<1>5. /\ TableOK(img, m) /\ Tidy(img, m) /\ Unused(img, m)
      /\ m.old # NoGen /\ m.cursor < m.limit
  BY <1>1, <1>2 DEF TablesOK
<1>6. e = MoveRow(d, keys, i)
  BY <1>1, <1>4
<1>7. CASE keys[i] = NoKey
  <2>1. PICK n : Passed(n, m)
    BY DEF Passed
  <2>2. /\ TableOK(img, n) /\ n.old = m.old /\ n.cur = m.cur
        /\ n.nextPage = m.nextPage /\ n.live = m.live /\ n.overflow = m.overflow
    BY <1>4, <1>5, <1>7, <2>1, SlotPassed
  <2>3. e = [img |-> img, meta |-> n, overflow |-> over]
    BY <1>2, <1>6, <1>7, <2>1 DEF MoveRow, Passed
  <2>4. Tidy(img, n) /\ Unused(img, n) /\ Kept(img, n) = Kept(img, m)
    BY <1>5, <2>2, SameTidy DEF Kept
  <2>5. TablesOK(img, n, over) /\ Total(n) = Total(m)
    BY <1>2, <2>2, <2>4 DEF TablesOK, Total
  <2>6. e.img = img /\ e.meta = n /\ e.overflow = over
    BY <2>3
  <2> QED
    BY <1>1, <1>5, <2>2, <2>3, <2>4, <2>5, <2>6 DEF Sweeping, DbOK, IsDb, Holding
<1>8. CASE keys[i] # NoKey
  <2>1. PICK x, v, u : /\ x = keys[i] /\ v = [img |-> img, written |-> {}]
                       /\ u = Put(v, CursorPage(m), [keys EXCEPT ![i] = NoKey])
    OBVIOUS
  <2>2. v \in Views /\ v.img = img
    BY <1>3, <2>1 DEF Views
  <2>3. /\ x \in Inside(img, m.old) /\ x \in Key
        /\ u \in Views /\ Rewrites(v, u, m.old)
        /\ Sound(u.img, m.old) /\ Inside(u.img, m.old) = Inside(img, m.old) \ {x}
        /\ Sound(u.img, m.cur) /\ Inside(u.img, m.cur) = Inside(img, m.cur)
        /\ SweptTo(u.img, m.old, m.cursor + 1)
    <3>1. /\ v \in Views /\ TableOK(v.img, m) /\ m.old # NoGen /\ m.cursor < m.limit
          /\ x = CursorKeys(v.img, m)[CursorSlot(m)] /\ x # NoKey /\ u = Emptied(v, m)
      BY <1>4, <1>5, <1>8, <2>1, <2>2 DEF Emptied
    <3> QED
      <4>1. /\ x \in Inside(v.img, m.old) /\ x \in Key
            /\ u \in Views /\ Rewrites(v, u, m.old)
            /\ Sound(u.img, m.old) /\ Inside(u.img, m.old) = Inside(v.img, m.old) \ {x}
            /\ Sound(u.img, m.cur) /\ Inside(u.img, m.cur) = Inside(v.img, m.cur)
            /\ SweptTo(u.img, m.old, m.cursor + 1)
        BY ONLY <3>1, EmptiedKeeps
      <4> QED
        BY <2>2, <4>1
  <2>4. PICK new, n : new = u.img /\ Taken(n, m)
    BY DEF Taken
  <2>5. /\ TableOK(new, n) /\ n.old # NoGen /\ Kept(new, n) = Without(Kept(img, m), x)
        /\ PagesOf(n.cur) = PagesOf(m.cur) /\ PagesOf(n.old) = PagesOf(m.old)
        /\ n.cur = m.cur /\ n.old.rows = m.old.rows - 1
        /\ n.nextPage = m.nextPage /\ n.live = m.live /\ n.overflow = m.overflow
    <3>1. /\ new \in [Page -> Pages] /\ x \in Inside(img, m.old)
          /\ Sound(new, m.cur) /\ Inside(new, m.cur) = Inside(img, m.cur)
          /\ Sound(new, m.old) /\ Inside(new, m.old) = Without(Inside(img, m.old), x)
          /\ SweptTo(new, m.old, m.cursor + 1) /\ Taken(n, m)
      BY <2>3, <2>4 DEF Views, Without
    <3>2. TableOK(img, m) /\ m.old # NoGen /\ m.cursor < m.limit
      BY <1>5
    <3> QED
      BY ONLY <3>1, <3>2, RowTaken
  <2>6. PICK g : g = [img |-> new, meta |-> n, overflow |-> over]
    OBVIOUS
  <2>7. e = Admit(g, x)
    <3>1. new = [img EXCEPT ![CursorPage(m)] = [keys EXCEPT ![i] = NoKey]]
      BY <2>1, <2>2, <2>4 DEF Put
    <3>2. g = [[d EXCEPT !.meta.cursor = @ + 1] EXCEPT
                  !.img[CursorPage(m)] = [keys EXCEPT ![i] = NoKey], !.meta.old.rows = @ - 1]
      <4>1. PICK p, page, m1 : /\ p = CursorPage(m) /\ page = [keys EXCEPT ![i] = NoKey]
                               /\ m1 = [m EXCEPT !.cursor = @ + 1]
        OBVIOUS
      <4>2. PICK gone : gone = [img |-> img, meta |-> m1, overflow |-> over]
        OBVIOUS
      <4>3. [d EXCEPT !.meta.cursor = @ + 1] = gone
        BY <1>2, <4>1, <4>2
      <4>4. n = [m1 EXCEPT !.old.rows = @ - 1]
        BY <1>3, <2>4, <4>1 DEF Taken, Metas
      <4>5. g = [gone EXCEPT !.img[p] = page, !.meta.old.rows = @ - 1]
        <5>1. new = [img EXCEPT ![p] = page]
          BY <3>1, <4>1
        <5>2. PICK h : h = [img |-> new, meta |-> m1, overflow |-> over]
          OBVIOUS
        <5>3. [gone EXCEPT !.img[p] = page] = h
          BY <4>2, <5>1, <5>2
        <5>4. g = [h EXCEPT !.meta.old.rows = @ - 1]
          BY <2>6, <4>4, <5>2
        <5>5. gone.meta = m1 /\ h.meta = m1
          BY <4>2, <5>2
        <5> QED
          BY <5>3, <5>4, <5>5
      <4> QED
        BY <4>1, <4>3, <4>5
    <3> QED
      BY <1>1, <1>6, <1>8, <2>1, <3>2 DEF MoveRow
  <2>8. g.img = new /\ g.meta = n /\ g.overflow = over
    BY <2>6
  <2>9. Tidy(new, n) /\ Unused(new, n)
    <3>1. Spans(v, u, m)
      BY <2>3 DEF Rewrites, Spans
    <3>2. Tidy(new, m) /\ Unused(new, m)
      BY <1>3, <1>5, <2>2, <2>4, <3>1, SpansTidy
    <3> QED
      BY <2>5, <3>2, SameTidy
  <2>10. x \in Kept(img, m)
    BY <2>3 DEF Kept
  <2>11. DbOK(g) /\ x \notin Holding(g)
    <3>1. TablesOK(new, n, over)
      BY <1>2, <2>5, <2>9 DEF TablesOK, Without
    <3>2. x \notin over
      BY <1>2, <2>10 DEF TablesOK
    <3> QED
      BY <2>5, <2>6, <2>8, <3>1, <3>2 DEF DbOK, IsDb, Holding, Without
  <2>12. /\ DbOK(e) /\ Holding(e) = With(Holding(g), x) /\ Total(e.meta) = Total(g.meta) + 1
         /\ e.meta.live = g.meta.live /\ SameCourse(g.meta, e.meta)
    BY <2>3, <2>7, <2>11, AdmitKeeps
  <2>13. Holding(e) = Holding(d)
    BY <1>1, <2>5, <2>8, <2>10, <2>12 DEF Holding, With, Without
  <2>14. Total(e.meta) = Total(m)
    BY <1>3, <2>5, <2>8, <2>12 DEF Total
  <2> QED
    BY <1>1, <2>5, <2>8, <2>12, <2>13, <2>14 DEF Sweeping, SameCourse
<1> QED
  BY <1>7, <1>8

SweepSlot(s) ==
  IF s.meta.cursor >= s.meta.limit THEN s
  ELSE MoveRow(s, CursorKeys(s.img, s.meta), CursorSlot(s.meta))

LEMMA SweepSlotKeeps ==
  ASSUME NEW d, NEW s, Sweeping(s, d)
  PROVE  Sweeping(SweepSlot(s), d)
<1>1. s.meta.cursor \in Nat /\ s.meta.limit \in Nat /\ DbOK(s) /\ s.meta.old # NoGen
  BY DEF Sweeping, DbOK, TablesOK, TableOK, Formed, Metas
<1>2. CASE s.meta.cursor >= s.meta.limit
  BY <1>2 DEF SweepSlot
<1>3. CASE s.meta.cursor < s.meta.limit
  <2>1. PICK t : t = MoveRow(s, CursorKeys(s.img, s.meta), CursorSlot(s.meta))
    OBVIOUS
  <2>2. Sweeping(t, s)
    BY <1>1, <1>3, <2>1, MoveRowKeeps
  <2>3. SweepSlot(s) = t
    BY <1>1, <1>3, <2>1 DEF SweepSlot
  <2> QED
    BY <2>2, <2>3, SweepingOn
<1> QED
  BY <1>1, <1>2, <1>3

\* A budget of slots: the tables have every key they had, in one place.
LEMMA SweptKeeps ==
  ASSUME NEW d, DbOK(d), d.meta.old # NoGen
  PROVE  Sweeping(Swept(d), d)
<1> DEFINE Run(f, l) == f = [n \in 0 .. l |-> IF n = 0 THEN d ELSE SweepSlot(f[n-1])]
           scan == CHOOSE f : Run(f, MigrationBudget)
           r == Swept(d)
<1>1. r = scan[MigrationBudget]
  BY DEF Swept, SweepSlot
<1> HIDE DEF r
<1>2. MigrationBudget \in Nat
  BY BoundsAssumption
<1>3. \E f : Run(f, MigrationBudget)
  <2> DEFINE S == {l \in Nat : \E f : Run(f, l)}
  <2>1. 0 \in S
    <3>1. Run([n \in 0 .. 0 |-> d], 0)
      OBVIOUS
    <3> QED
      BY <3>1
  <2>2. ASSUME NEW l \in Nat, l \in S
        PROVE  l + 1 \in S
    <3>1. PICK f : Run(f, l)
      BY <2>2
    <3> DEFINE h == [n \in 0 .. l+1 |-> IF n <= l THEN f[n] ELSE SweepSlot(f[l])]
    <3>2. \A n \in 0 .. l : f[n] = IF n = 0 THEN d ELSE SweepSlot(f[n-1])
      BY <3>1
    <3>3. \A n \in 0 .. l+1 : h[n] = IF n = 0 THEN d ELSE SweepSlot(h[n-1])
      BY <3>2
    <3>4. Run(h, l+1)
      BY <3>3
    <3> HIDE DEF h, Run
    <3> QED
      BY <3>4
  <2> HIDE DEF S
  <2>3. Nat \subseteq S
    BY <2>1, <2>2, SetInduction
  <2> QED
    BY <1>2, <2>3 DEF S
<1>4. \A n \in 0 .. MigrationBudget : scan[n] = IF n = 0 THEN d ELSE SweepSlot(scan[n-1])
  <2>1. Run(scan, MigrationBudget)
    BY <1>3
  <2> HIDE DEF scan
  <2> QED
    BY <2>1
<1> HIDE DEF scan, Run
<1> DEFINE T == {n \in Nat : n <= MigrationBudget => Sweeping(scan[n], d)}
<1>5. 0 \in T
  <2>1. scan[0] = d
    BY <1>2, <1>4
  <2>2. Sweeping(d, d)
    BY DEF Sweeping
  <2> QED
    BY <2>1, <2>2
<1>6. ASSUME NEW n \in Nat, n \in T
      PROVE  n + 1 \in T
  <2> SUFFICES ASSUME n + 1 <= MigrationBudget PROVE Sweeping(scan[n+1], d)
    OBVIOUS
  <2>1. Sweeping(scan[n], d)
    BY <1>2, <1>6
  <2>2. scan[n+1] = SweepSlot(scan[n])
    BY <1>2, <1>4
  <2> QED
    BY <2>1, <2>2, SweepSlotKeeps
<1> HIDE DEF T
<1>7. Nat \subseteq T
  BY <1>5, <1>6, SetInduction
<1> QED
  BY <1>1, <1>2, <1>7 DEF T, r

-----------------------------------------------------------------------------
(* The transaction *)

\* A sound page's rows are those of its cell.
LEMMA FilledCell ==
  ASSUME NEW d, NEW g, Laid(g), Sound(d.img, g), d.img \in [Page -> Pages], NEW p \in PagesOf(g)
  PROVE  /\ Filled(d, p) = {i \in Room(g, p) : Cell(d.img, g, p)[i] # NoKey}
         /\ \A k \in Key : p \in PagesWith(d, k) <=> \E i \in Room(g, p) : Cell(d.img, g, p)[i] = k
         /\ \A i \in Filled(d, p) : d.img[p][i] = Cell(d.img, g, p)[i]
<1>1. p \in Page
  BY DEF Laid
<1>2. PICK n : /\ n \in {BucketSize, StashCapacity} /\ Room(g, p) = 0 .. n-1
               /\ Cell(d.img, g, p) = Slots(d.img, p, n)
  <2>1. CASE p = StashPage(g)
    BY <2>1 DEF Room, Cell, Stash
  <2>2. CASE p # StashPage(g)
    BY <2>2 DEF Room, Cell, Bucket
  <2> QED
    BY <2>1, <2>2
<1>3. Cell(d.img, g, p) \in [0 .. n-1 -> Row]
  BY <1>2 DEF Sound
<1>4. CASE d.img[p] = Blank
  <2>1. Cell(d.img, g, p) = [i \in 0 .. n-1 |-> NoKey]
    BY <1>2, <1>4 DEF Slots
  <2> QED
    BY <1>1, <1>2, <1>4, <2>1, NoKeyAssumption DEF Filled, PagesWith
<1>5. CASE d.img[p] # Blank
  <2>1. Cell(d.img, g, p) = d.img[p]
    BY <1>2, <1>5 DEF Slots
  <2>2. DOMAIN d.img[p] = Room(g, p)
    BY <1>2, <1>3, <2>1
  <2> QED
    BY <1>1, <1>5, <2>1, <2>2 DEF Filled, PagesWith
<1> QED
  BY <1>4, <1>5

\* A migration that has scanned its source has moved every row, and the
\* transaction is not rolled back.
LEMMA CompletedKeeps ==
  ASSUME NEW d, DbOK(d), NEW before, NEW e, e = Completed(d, before)
  PROVE  /\ DbOK(e) /\ Holding(e) = Holding(d) /\ Total(e.meta) = Total(d.meta)
         /\ e.meta.live = d.meta.live
<1>1. PICK img, m, over : img = d.img /\ m = d.meta /\ over = d.overflow
  OBVIOUS
<1>2. TablesOK(img, m, over) /\ d = [img |-> img, meta |-> m, overflow |-> over]
  BY <1>1 DEF DbOK, IsDb
<1>3. /\ TableOK(img, m) /\ Tidy(img, m) /\ Unused(img, m) /\ img \in [Page -> Pages]
      /\ m \in Metas /\ m.cur.rows \in Nat /\ m.overflow \in Nat /\ m.cursor \in Nat /\ m.limit \in Nat
      /\ Sound(img, m.old) /\ Counts(img, m)
  BY <1>2 DEF TablesOK, TableOK, Formed, Metas, Gens
<1>4. CASE ~MigrationDone(m)
  BY <1>1, <1>4 DEF Completed
<1>5. CASE MigrationDone(m)
  <2>1. m.old # NoGen /\ m.cursor >= m.limit
    BY <1>5 DEF MigrationDone
  <2>2. Laid(m.old)
    BY <1>3, <2>1 DEF TableOK, Formed
  <2>3. PICK n : n = EndMigration(m)
    OBVIOUS
  <2>4. /\ m.old.rows = 0
        /\ TableOK(img, n) /\ n.old = NoGen /\ n.cur = m.cur /\ n.nextPage = m.nextPage
        /\ n.live = m.live /\ n.overflow = m.overflow
        /\ Kept(img, n) = Kept(img, m)
    BY <1>3, <2>1, <2>3, EndKeeps
  <2>5. Inside(img, m.old) = {}
    BY <1>3, <2>4, FS_EmptySet DEF Counts
  <2>6. \A p \in PagesOf(m.old) : Filled(d, p) = {}
    <3> SUFFICES ASSUME NEW p \in PagesOf(m.old) PROVE Filled(d, p) = {}
      OBVIOUS
    <3>1. Filled(d, p) = {i \in Room(m.old, p) : Cell(img, m.old, p)[i] # NoKey}
      <4>1. Laid(m.old) /\ Sound(d.img, m.old) /\ d.img \in [Page -> Pages] /\ p \in PagesOf(m.old)
        BY <1>1, <1>3, <2>2
      <4>2. Filled(d, p) = {i \in Room(m.old, p) : Cell(d.img, m.old, p)[i] # NoKey}
        BY ONLY <4>1, FilledCell
      <4> QED
        BY <1>1, <4>2
    <3>2. \A i \in Room(m.old, p) : Cell(img, m.old, p)[i] \in Row
      BY <1>3 DEF Sound
    <3>3. \A i \in Room(m.old, p) : Cell(img, m.old, p)[i] = NoKey
      BY <2>5, <3>2 DEF Inside, Row
    <3> QED
      BY <3>1, <3>3
  <2>7. e = [d EXCEPT !.meta = n]
    BY <1>1, <1>5, <2>3, <2>4, <2>6 DEF Completed, Orphans
  <2>8. e = [img |-> img, meta |-> n, overflow |-> over]
    BY <1>2, <2>7
  <2>9. Tidy(img, n) /\ Unused(img, n)
    <3>1. Unused(img, n)
      BY <1>3, <2>4 DEF Unused
    <3>2. ASSUME NEW p \in Page, p \in PagesOf(m.old), img[p] # Blank
          PROVE  \A i \in DOMAIN img[p] : img[p][i] = NoKey
      BY <1>1, <2>6, <3>2 DEF Filled
    <3>3. PagesOf(n.cur) = PagesOf(m.cur)
      BY <2>4
    <3> QED
      BY <1>3, <3>1, <3>2, <3>3 DEF Tidy
  <2>10. TablesOK(img, n, over)
    BY <1>2, <2>4, <2>9 DEF TablesOK
  <2>11. Total(n) = Total(m)
    BY <2>4 DEF Total, NoGen
  <2>12. e.img = img /\ e.meta = n /\ e.overflow = over
    BY <2>8
  <2> QED
    BY <1>1, <2>4, <2>8, <2>10, <2>11, <2>12 DEF DbOK, IsDb, Holding
<1> QED
  BY <1>4, <1>5

\* The routing of a new key, in a table that has room to grow.
LEMMA RouteKeeps ==
  ASSUME Page = Nat, NEW d, AtRest(d), NEW k \in Key, k \notin Holding(d), NEW e, e = Route(d, k)
  PROVE  AtRest(e) /\ Holding(e) = With(Holding(d), k)
<1>1. PICK img, m, over : img = d.img /\ m = d.meta /\ over = d.overflow
  OBVIOUS
<1>2. TablesOK(img, m, over) /\ d = [img |-> img, meta |-> m, overflow |-> over] /\ m.live = Total(m)
  BY <1>1 DEF AtRest, DbOK, IsDb
<1>3. /\ TableOK(img, m) /\ Tidy(img, m) /\ Unused(img, m)
      /\ m \in Metas /\ m.live \in Nat /\ m.overflow \in Nat /\ m.cur.rows \in Nat
  BY <1>2 DEF TablesOK, TableOK, Formed, Metas, Gens
<1>4. PICK n : n = Opened(m)
  OBVIOUS
<1>5. /\ TableOK(img, n) /\ Unused(img, n) /\ Kept(img, n) = Kept(img, m) /\ Tidy(img, n)
      /\ n.live = m.live /\ n.overflow = m.overflow /\ Total(n) = Total(m)
  <2>1. CASE m.old = NoGen /\ Backlog(m)
    <3>1. n = StartMigration(m)
      BY <1>4, <2>1 DEF Opened
    <3>2. n.nextPage - 1 \in Page
      <4>1. m.nextPage \in Nat /\ m.nextPage > 0 /\ n.nextPage \in Nat /\ m.nextPage <= n.nextPage
        BY <1>3, <3>1, StartsAbove DEF TableOK
      <4> QED
        BY <4>1
    <3>3. /\ TableOK(img, n) /\ Unused(img, n)
          /\ Kept(img, n) = Kept(img, m)
          /\ n.old = m.cur /\ n.cur.rows = 0
          /\ n.live = m.live /\ n.overflow = m.overflow
      BY <1>3, <2>1, <3>1, <3>2, StartKeeps
    <3>4. Tidy(img, n)
      BY <1>3, <2>1, <3>3 DEF Tidy, PagesOf
    <3>5. Total(n) = Total(m)
      BY <1>3, <2>1, <3>3 DEF Total, NoGen
    <3> QED
      BY <3>3, <3>4, <3>5
  <2>2. CASE ~(m.old = NoGen /\ Backlog(m))
    <3>1. n = m
      BY <1>4, <2>2 DEF Opened
    <3> QED
      BY <1>3, <3>1
  <2> QED
    BY <2>1, <2>2
<1>6. PICK l, o, x : l = m.live + 1 /\ o = m.overflow /\ Recounts(x, n, l, o)
  BY DEF Recounts
<1>7. /\ TableOK(img, x) /\ Kept(img, x) = Kept(img, n)
      /\ x.cur = n.cur /\ x.old = n.old /\ x.cursor = n.cursor /\ x.limit = n.limit
      /\ x.nextPage = n.nextPage /\ x.live = l /\ x.overflow = o
  <2>1. TableOK(img, n) /\ l \in Nat /\ o \in Nat /\ Recounts(x, n, l, o)
    BY <1>3, <1>5, <1>6
  <2> QED
    BY <2>1, CountersAside
<1>8. PICK f : f = [img |-> img, meta |-> x, overflow |-> over]
  OBVIOUS
<1>9. e = Admit(f, k)
  <2>1. n \in Metas
    BY <1>5 DEF TableOK, Formed
  <2>2. x = [n EXCEPT !.live = @ + 1]
    BY <1>5, <1>6, <2>1 DEF Recounts, Metas
  <2>3. f = [d EXCEPT !.meta = [n EXCEPT !.live = @ + 1]]
    BY <1>2, <1>8, <2>2
  <2> QED
    BY <1>1, <1>4, <2>3 DEF Route, Opened
<1>10. f.img = img /\ f.meta = x /\ f.overflow = over
  BY <1>8
<1>11. DbOK(f) /\ Holding(f) = Holding(d)
  <2>1. Tidy(img, x) /\ Unused(img, x)
    BY <1>5, <1>7, SameTidy
  <2>2. TablesOK(img, x, over)
    BY <1>2, <1>5, <1>6, <1>7, <2>1 DEF TablesOK
  <2> QED
    BY <1>1, <1>5, <1>7, <1>8, <1>10, <2>2 DEF DbOK, IsDb, Holding
<1>12. /\ DbOK(e) /\ Holding(e) = With(Holding(f), k) /\ Total(e.meta) = Total(f.meta) + 1
       /\ e.meta.live = f.meta.live
  BY <1>9, <1>11, AdmitKeeps
<1>13. Total(x) = Total(m)
  BY <1>5, <1>6, <1>7 DEF Total
<1> QED
  BY <1>2, <1>6, <1>7, <1>10, <1>11, <1>12, <1>13 DEF AtRest

\* The share of the migration, and its end.
LEMMA MigratedKeeps ==
  ASSUME NEW d, AtRest(d), NEW before, NEW e, e = Completed(Swept(d), before)
  PROVE  AtRest(e) /\ Holding(e) = Holding(d)
<1>1. PICK s : s = Swept(d)
  OBVIOUS
<1>2. /\ DbOK(s) /\ Holding(s) = Holding(d) /\ Total(s.meta) = Total(d.meta)
      /\ s.meta.live = d.meta.live
  <2>1. CASE d.meta.old = NoGen
    BY <1>1, <2>1 DEF Swept, AtRest
  <2>2. CASE d.meta.old # NoGen
    BY <1>1, <2>2, SweptKeeps DEF Sweeping, AtRest
  <2> QED
    BY <2>1, <2>2
<1>3. /\ DbOK(e) /\ Holding(e) = Holding(s) /\ Total(e.meta) = Total(s.meta)
      /\ e.meta.live = s.meta.live
  BY <1>1, <1>2, CompletedKeeps
<1> QED
  BY <1>2, <1>3 DEF AtRest

-----------------------------------------------------------------------------
(* Where a key is *)

\* Every row is on a page of a generation that the routing row names.
LEMMA RowsAreLive ==
  ASSUME NEW d, DbOK(d), NEW p \in Page, Filled(d, p) # {}
  PROVE  p \in PagesOf(d.meta.cur) \cup PagesOf(d.meta.old)
<1>1. Tidy(d.img, d.meta)
  BY DEF DbOK, TablesOK
<1> QED
  BY <1>1 DEF Tidy, Filled

LEMMA PagesOfKey ==
  ASSUME NEW d, DbOK(d), NEW k \in Key
  PROVE  /\ PagesWith(d, k) \subseteq PagesOf(d.meta.cur) \cup PagesOf(d.meta.old)
         /\ k \in Kept(d.img, d.meta) <=> PagesWith(d, k) # {}
         /\ \A p, q \in PagesWith(d, k) : p = q
         /\ PagesWith(d, k) \subseteq Home(d.meta.cur, k) \cup
                                      (IF d.meta.old = NoGen THEN {} ELSE Home(d.meta.old, k))
<1>1. PICK img, c, o : img = d.img /\ c = d.meta.cur /\ o = d.meta.old
  OBVIOUS
<1>2. /\ img \in [Page -> Pages] /\ Laid(c) /\ (o = NoGen \/ Laid(o))
      /\ Sound(img, c) /\ Sound(img, o) /\ Inside(img, c) \cap Inside(img, o) = {}
  BY <1>1 DEF DbOK, TablesOK, TableOK, Formed, Counts
<1>3. k # NoKey
  BY NoKeyAssumption
<1>4. PagesWith(d, k) \subseteq PagesOf(c) \cup PagesOf(o)
  <2> SUFFICES ASSUME NEW p \in PagesWith(d, k) PROVE p \in PagesOf(c) \cup PagesOf(o)
    OBVIOUS
  <2>1. p \in Page /\ Filled(d, p) # {}
    BY <1>3 DEF PagesWith, Filled
  <2> QED
    BY <1>1, <2>1, RowsAreLive
<1>5. ASSUME NEW g, Laid(g), Sound(img, g), NEW p \in PagesOf(g)
      PROVE  /\ p \in PagesWith(d, k) <=> \E i \in Room(g, p) : Cell(img, g, p)[i] = k
             /\ p \in PagesWith(d, k) => p \in Home(g, k) /\ k \in Inside(img, g)
  <2>1. Laid(g) /\ Sound(d.img, g) /\ d.img \in [Page -> Pages] /\ p \in PagesOf(g)
    BY <1>1, <1>2, <1>5
  <2>2. p \in PagesWith(d, k) <=> \E i \in Room(g, p) : Cell(d.img, g, p)[i] = k
    BY ONLY <2>1, FilledCell, k \in Key
  <2>3. p \in PagesWith(d, k) <=> \E i \in Room(g, p) : Cell(img, g, p)[i] = k
    BY <1>1, <2>2
  <2> QED
    BY <1>3, <1>5, <2>3 DEF Sound, Inside
<1>6. ASSUME NEW g, Laid(g), Sound(img, g), NEW p \in PagesOf(g), NEW q \in PagesOf(g),
             p \in PagesWith(d, k), q \in PagesWith(d, k)
      PROVE  p = q
  <2>1. /\ \E i \in Room(g, p) : Cell(img, g, p)[i] = k
        /\ \E i \in Room(g, q) : Cell(img, g, q)[i] = k
    BY <1>5, <1>6
  <2> QED
    BY <1>3, <1>6, <2>1 DEF Sound
<1>7. ~Laid(o) => o = NoGen /\ PagesOf(o) = {} /\ Inside(img, o) = {}
  BY <1>2 DEF PagesOf, Inside
<1>8. Laid(o) => o # NoGen
  BY Layout
<1>9. \A p, q \in PagesWith(d, k) : p = q
  <2> SUFFICES ASSUME NEW p \in PagesWith(d, k), NEW q \in PagesWith(d, k) PROVE p = q
    OBVIOUS
  <2>1. CASE p \in PagesOf(c) /\ q \in PagesOf(c)
    BY <1>2, <1>6, <2>1
  <2>2. CASE p \in PagesOf(o) /\ q \in PagesOf(o)
    BY <1>2, <1>6, <1>7, <2>2
  <2>3. CASE p \in PagesOf(c) /\ q \in PagesOf(o)
    <3>1. k \in Inside(img, c) /\ k \in Inside(img, o)
      BY <1>2, <1>5, <1>7, <2>3
    <3> QED
      BY <1>2, <3>1
  <2>4. CASE p \in PagesOf(o) /\ q \in PagesOf(c)
    <3>1. k \in Inside(img, c) /\ k \in Inside(img, o)
      BY <1>2, <1>5, <1>7, <2>4
    <3> QED
      BY <1>2, <3>1
  <2> QED
    BY <1>4, <2>1, <2>2, <2>3, <2>4
<1>10. k \in Kept(img, d.meta) <=> PagesWith(d, k) # {}
  <2>1. ASSUME k \in Kept(img, d.meta) PROVE PagesWith(d, k) # {}
    <3>1. PICK g : g \in {c, o} /\ k \in Inside(img, g)
      BY <1>1, <2>1 DEF Kept
    <3>2. Laid(g) /\ Sound(img, g)
      BY <1>2, <1>7, <3>1
    <3>3. PICK p \in PagesOf(g) : \E i \in Room(g, p) : Cell(img, g, p)[i] = k
      BY <3>1 DEF Inside
    <3>4. p \in PagesWith(d, k)
      BY <1>5, <3>2, <3>3
    <3> QED
      BY <3>4
  <2>2. ASSUME NEW p \in PagesWith(d, k) PROVE k \in Kept(img, d.meta)
    BY <1>1, <1>2, <1>4, <1>5, <1>7, <2>2 DEF Kept
  <2> QED
    BY <2>1, <2>2
<1>11. PagesWith(d, k) \subseteq Home(c, k) \cup (IF o = NoGen THEN {} ELSE Home(o, k))
  <2> SUFFICES ASSUME NEW p \in PagesWith(d, k)
               PROVE  p \in Home(c, k) \cup (IF o = NoGen THEN {} ELSE Home(o, k))
    OBVIOUS
  <2>1. CASE p \in PagesOf(c)
    BY <1>2, <1>5, <2>1
  <2>2. CASE p \in PagesOf(o)
    BY <1>2, <1>5, <1>7, <1>8, <2>2
  <2> QED
    BY <1>4, <2>1, <2>2
<1> QED
  BY <1>1, <1>4, <1>9, <1>10, <1>11

\* lookup() in one transaction is exact.
LEMMA StoredIsHeld ==
  ASSUME NEW d, DbOK(d)
  PROVE  Stored(d) = Holding(d)
<1>1. PICK img, m, over : img = d.img /\ m = d.meta /\ over = d.overflow
  OBVIOUS
<1>2. /\ TablesOK(img, m, over) /\ TableOK(img, m) /\ Formed(m)
      /\ Sound(img, m.cur) /\ Sound(img, m.old) /\ Laid(m.cur) /\ (m.old = NoGen \/ Laid(m.old))
      /\ over \subseteq Key /\ IsFiniteSet(over) /\ Cardinality(over) = m.overflow
  BY <1>1 DEF DbOK, TablesOK, TableOK, Formed
<1>3. over # {} => m.overflow # 0
  BY <1>2, FS_EmptySet
<1>4. \A k \in Key : Found(img, m, k) <=> k \in Kept(img, m)
  <2> SUFFICES ASSUME NEW k \in Key PROVE Found(img, m, k) <=> k \in Kept(img, m)
    OBVIOUS
  <2>1. Holds(img, m.cur, k) <=> k \in Inside(img, m.cur)
    BY <1>2, HoldsIsInside
  <2>2. Holds(img, m.old, k) <=> k \in Inside(img, m.old)
    BY <1>2, HoldsIsInside
  <2> QED
    BY <2>1, <2>2 DEF Found, Kept
<1>5. Kept(img, m) \subseteq Key
  BY DEF Kept, Inside
<1> QED
  BY <1>1, <1>2, <1>3, <1>4, <1>5 DEF Stored, Contains, Holding

-----------------------------------------------------------------------------
(* The audit *)

\* The rows of the tables are the keys of the two generations, one for one.
LEMMA RowKeys ==
  ASSUME NEW d, DbOK(d)
  PROVE  /\ \A r \in Rows(d) : d.img[r[1]][r[2]] \in Kept(d.img, d.meta)
         /\ \A r, q \in Rows(d) : d.img[r[1]][r[2]] = d.img[q[1]][q[2]] => r = q
         /\ \A k \in Kept(d.img, d.meta) : \E r \in Rows(d) : d.img[r[1]][r[2]] = k
<1>1. PICK img, c, o : img = d.img /\ c = d.meta.cur /\ o = d.meta.old
  OBVIOUS
<1>2. /\ img \in [Page -> Pages] /\ Laid(c) /\ (o = NoGen \/ Laid(o))
      /\ Sound(img, c) /\ Sound(img, o) /\ Kept(d.img, d.meta) = Inside(img, c) \cup Inside(img, o)
  BY <1>1 DEF DbOK, TablesOK, TableOK, Formed, Kept
<1>3. o = NoGen => PagesOf(o) = {} /\ Inside(img, o) = {}
  BY DEF PagesOf, Inside
<1>4. ASSUME NEW r \in Rows(d)
      PROVE  /\ r = <<r[1], r[2]>> /\ r[1] \in Page /\ r[2] \in Filled(d, r[1])
             /\ \E g \in {c, o} : /\ Laid(g) /\ Sound(img, g) /\ r[1] \in PagesOf(g)
                                  /\ r[2] \in Room(g, r[1]) /\ Cell(img, g, r[1])[r[2]] \in Key
                                  /\ d.img[r[1]][r[2]] = Cell(img, g, r[1])[r[2]]
  <2>1. PICK p \in Page : r \in {p} \X Filled(d, p)
    BY DEF Rows
  <2>2. r = <<r[1], r[2]>> /\ r[1] = p /\ r[2] \in Filled(d, p)
    BY <2>1
  <2>3. p \in PagesOf(c) \cup PagesOf(o)
    BY <1>1, <2>2, RowsAreLive
  <2>4. PICK g : g \in {c, o} /\ p \in PagesOf(g) /\ Laid(g) /\ Sound(img, g)
    BY <1>2, <1>3, <2>3
  <2>5. Laid(g) /\ Sound(d.img, g) /\ d.img \in [Page -> Pages] /\ p \in PagesOf(g)
    BY <1>1, <1>2, <2>4
  <2>6. /\ Filled(d, p) = {i \in Room(g, p) : Cell(d.img, g, p)[i] # NoKey}
        /\ \A i \in Filled(d, p) : d.img[p][i] = Cell(d.img, g, p)[i]
    BY ONLY <2>5, FilledCell
  <2>7. Cell(img, g, p)[r[2]] \in Key
    BY <1>1, <2>2, <2>4, <2>6 DEF Sound, Row
  <2> QED
    BY <1>1, <2>2, <2>4, <2>6, <2>7
<1>5. ASSUME NEW r \in Rows(d)
      PROVE  d.img[r[1]][r[2]] \in Kept(d.img, d.meta)
  BY <1>2, <1>4 DEF Inside
<1>6. ASSUME NEW r \in Rows(d)
      PROVE  d.img[r[1]][r[2]] \in Key /\ r[1] \in PagesWith(d, d.img[r[1]][r[2]])
  BY <1>4 DEF Filled, PagesWith
<1>7. ASSUME NEW r \in Rows(d), NEW q \in Rows(d), d.img[r[1]][r[2]] = d.img[q[1]][q[2]]
      PROVE  r = q
  <2>1. PICK k : k = d.img[r[1]][r[2]]
    OBVIOUS
  <2>2. k \in Key /\ r[1] \in PagesWith(d, k) /\ q[1] \in PagesWith(d, k)
    BY <1>6, <1>7, <2>1
  <2>3. r[1] = q[1]
    BY <2>2, PagesOfKey
  <2>4. PICK g : g \in {c, o} /\ Laid(g) /\ Sound(img, g) /\ r[1] \in PagesOf(g)
    BY <1>4
  <2>5. Laid(g) /\ Sound(d.img, g) /\ d.img \in [Page -> Pages] /\ r[1] \in PagesOf(g)
    BY <1>1, <1>2, <2>4
  <2>6. /\ Filled(d, r[1]) = {i \in Room(g, r[1]) : Cell(d.img, g, r[1])[i] # NoKey}
        /\ \A i \in Filled(d, r[1]) : d.img[r[1]][i] = Cell(d.img, g, r[1])[i]
    BY ONLY <2>5, FilledCell
  <2>7. /\ r[2] \in Room(g, r[1]) /\ q[2] \in Room(g, r[1])
        /\ Cell(img, g, r[1])[r[2]] = k /\ Cell(img, g, r[1])[q[2]] = k
    BY <1>1, <1>4, <1>7, <2>1, <2>3, <2>6
  <2>8. r[2] = q[2]
    BY <2>2, <2>4, <2>7, NoKeyAssumption DEF Sound
  <2> QED
    BY <1>4, <2>3, <2>8
<1>8. ASSUME NEW k \in Kept(d.img, d.meta)
      PROVE  \E r \in Rows(d) : d.img[r[1]][r[2]] = k
  <2>1. k \in Key
    BY DEF Kept, Inside
  <2>2. PICK p : p \in PagesWith(d, k)
    BY <2>1, PagesOfKey
  <2>3. PICK i \in DOMAIN d.img[p] : d.img[p][i] = k
    BY <2>2 DEF PagesWith
  <2>4. p \in Page /\ i \in Filled(d, p)
    BY <2>1, <2>2, <2>3, NoKeyAssumption DEF PagesWith, Filled
  <2>5. <<p, i>> \in Rows(d)
    BY <2>4 DEF Rows
  <2> QED
    BY <2>3, <2>5
<1> QED
  BY <1>5, <1>7, <1>8

LEMMA RowsAreCounted ==
  ASSUME NEW d, DbOK(d)
  PROVE  Cardinality(Rows(d)) = Cardinality(Kept(d.img, d.meta)) /\ IsFiniteSet(Kept(d.img, d.meta))
<1> DEFINE R == Rows(d)
           K == Kept(d.img, d.meta)
           key(r) == d.img[r[1]][r[2]]
<1>1. /\ \A r \in R : key(r) \in K
      /\ \A r, q \in R : key(r) = key(q) => r = q
      /\ \A k \in K : \E r \in R : key(r) = k
  BY RowKeys
<1>2. IsFiniteSet(K)
  BY FS_Union DEF DbOK, TablesOK, TableOK, Counts, Kept
<1> HIDE DEF R, K, key
<1> DEFINE h == [k \in K |-> CHOOSE r \in R : key(r) = k]
<1>3. \A k \in K : h[k] \in R /\ key(h[k]) = k
  BY <1>1
<1>4. h \in [K -> R] /\ DOMAIN h = K
  BY <1>3
<1> HIDE DEF h
<1>5. \A a, b \in K : h[a] = h[b] => a = b
  <2> SUFFICES ASSUME NEW a \in K, NEW b \in K, h[a] = h[b] PROVE a = b
    OBVIOUS
  <2>1. key(h[a]) = a /\ key(h[b]) = b
    BY <1>3
  <2> QED
    BY <2>1
<1>6. \A r \in R : \E k \in K : h[k] = r
  <2> SUFFICES ASSUME NEW r \in R PROVE \E k \in K : h[k] = r
    OBVIOUS
  <2>1. key(r) \in K
    BY <1>1
  <2>2. PICK k \in K : k = key(r)
    BY <2>1
  <2>3. h[k] \in R /\ key(h[k]) = key(r)
    BY <1>3, <2>2
  <2>4. h[k] = r
    BY <1>1, <2>3
  <2> QED
    BY <2>4
<1>7. h \in Bijection(K, R)
  BY <1>4, <1>5, <1>6 DEF Bijection, Injection, Surjection, IsInjective
<1>8. ExistsBijection(K, R)
  BY <1>7 DEF ExistsBijection
<1>9. Cardinality(R) = Cardinality(K)
  BY <1>2, <1>8, FS_Bijection
<1> QED
  BY <1>2, <1>9 DEF R, K

LEMMA CopiesOfKey ==
  ASSUME NEW d, DbOK(d), NEW k \in Key
  PROVE  Copies(d, k) <= 1 /\ (Copies(d, k) = 1 <=> k \in Holding(d))
<1> DEFINE W == PagesWith(d, k)
<1>1. /\ k \in Kept(d.img, d.meta) <=> W # {}
      /\ \A p, q \in W : p = q
  BY PagesOfKey
<1>2. d.overflow \cap Kept(d.img, d.meta) = {}
  BY DEF DbOK, TablesOK
<1> HIDE DEF W
<1>3. CASE W = {}
  <2>1. Cardinality(W) = 0
    BY <1>3, FS_EmptySet
  <2> QED
    BY <1>1, <1>3, <2>1 DEF Copies, Holding, W
<1>4. CASE W # {}
  <2>1. PICK p : W = {p}
    BY <1>1, <1>4
  <2>2. Cardinality(W) = 1
    BY <2>1, FS_Singleton
  <2>3. k \notin d.overflow
    BY <1>1, <1>2, <1>4
  <2> QED
    BY <1>1, <1>4, <2>2, <2>3 DEF Copies, Holding, W
<1> QED
  BY <1>3, <1>4

\* What a transaction leaves passes audit().
LEMMA RestIsAudited ==
  ASSUME NEW d, AtRest(d)
  PROVE  Audited(d)
<1> DEFINE m == d.meta
           K == Kept(d.img, m)
           over == d.overflow
<1>1. /\ DbOK(d) /\ Formed(m) /\ Counts(d.img, m)
      /\ m.cur.rows \in Nat /\ m.old.rows \in Nat /\ m.overflow \in Nat /\ m.live = Total(m)
      /\ over \subseteq Key /\ IsFiniteSet(over) /\ Cardinality(over) = m.overflow
      /\ over \cap K = {}
  BY DEF AtRest, DbOK, TablesOK, TableOK, Formed, Metas, Gens
<1>2. \A k \in Key : Copies(d, k) <= 1 /\ (Copies(d, k) = 1 <=> k \in Holding(d))
  BY <1>1, CopiesOfKey
<1>3. Cardinality(K) = m.cur.rows + m.old.rows
  <2>1. PICK A, B : A = Inside(d.img, m.cur) /\ B = Inside(d.img, m.old)
    OBVIOUS
  <2>2. /\ K = A \cup B /\ A \cap B = {} /\ IsFiniteSet(A) /\ IsFiniteSet(B)
        /\ Cardinality(A) = m.cur.rows /\ Cardinality(B) = m.old.rows
    BY <1>1, <2>1 DEF Counts, Kept
  <2>3. Cardinality(A \cup B) = Cardinality(A) + Cardinality(B) - Cardinality(A \cap B)
    BY <2>2, FS_Union
  <2>4. Cardinality(A \cap B) = 0
    BY <2>2, FS_EmptySet
  <2> QED
    BY <1>1, <2>2, <2>3, <2>4
<1>4. Cardinality(Rows(d)) = Cardinality(K) /\ IsFiniteSet(K)
  BY <1>1, RowsAreCounted
<1>5. Cardinality(Holding(d)) = m.live
  <2>1. Cardinality(K \cup over) = Cardinality(K) + Cardinality(over) - Cardinality(K \cap over)
    BY <1>1, <1>4, FS_Union
  <2>2. Cardinality(K \cap over) = 0
    BY <1>1, FS_EmptySet
  <2> QED
    BY <1>1, <1>3, <2>1, <2>2 DEF Holding, Total
<1>6. {k \in Key : Copies(d, k) = 1} = Holding(d)
  <2>1. Holding(d) \subseteq Key
    BY <1>1 DEF Holding, Kept, Inside
  <2> QED
    BY <1>2, <2>1
<1>7. \A p \in Page : Filled(d, p) # {} => p \in PagesOf(m.cur) \cup PagesOf(m.old)
  BY <1>1, RowsAreLive
<1>8. IF m.old = NoGen THEN m.cursor = 0 /\ m.limit = 0 ELSE m.cursor <= m.limit
  BY <1>1 DEF Formed
<1> QED
  BY <1>1, <1>2, <1>3, <1>4, <1>5, <1>6, <1>7, <1>8 DEF Audited

-----------------------------------------------------------------------------
(* The store *)

\* What is committed is at rest, and so is what the insertion under way would
\* commit, which holds its key besides.
StoreInv ==
  /\ AtRest(db)
  /\ tx # NoTx =>
       /\ tx = [key |-> tx.key, stage |-> tx.stage, db |-> tx.db]
       /\ tx.stage \in {"route", "final"} /\ tx.key \in Key /\ tx.key \notin Holding(db)
       /\ AtRest(tx.db) /\ Holding(tx.db) = With(Holding(db), tx.key)

\* A lookup that has not met a key that was stored, and that no insertion has
\* moved, still has it ahead of it: on a page it has yet to read, or in the
\* overflow table, which it knows not to be empty.
Ahead ==
  \/ \E i \in 1 .. Len(Places(reader.meta, reader.key)) :
        reader.at <= i /\ Places(reader.meta, reader.key)[i] \in PagesWith(db, reader.key)
  \/ reader.meta.overflow # 0 /\ reader.key \in db.overflow

ReaderInv ==
  /\ reader = [key |-> reader.key, meta |-> reader.meta, at |-> reader.at,
               answer |-> reader.answer, had |-> reader.had, moved |-> reader.moved]
  /\ reader.at \in Nat /\ reader.had \in BOOLEAN /\ reader.moved \in BOOLEAN
  /\ Len(Places(reader.meta, reader.key)) \in Nat
  /\ reader.answer # "none" => reader.key \in Key
  /\ reader.answer = "found" => reader.key \in Holding(db)
  /\ reader.answer = "absent" /\ reader.had => reader.moved
  /\ reader.answer = "reading" /\ reader.had /\ ~reader.moved => Ahead

DurableInv == StoreInv /\ ReaderInv

Listed(p, m, k) == \E i \in 1 .. Len(Places(m, k)) : Places(m, k)[i] = p

\* A lookup walks every page of the key in the generations it knows.
LEMMA PlacesOfKey ==
  ASSUME NEW m, NEW k
  PROVE  /\ Len(Places(m, k)) \in Nat
         /\ \A p : m.cur # NoGen /\ p \in Home(m.cur, k) => Listed(p, m, k)
         /\ \A p : m.old # NoGen /\ p \in Home(m.old, k) => Listed(p, m, k)
<1> DEFINE S == Home(m.cur, k) \cup Home(m.old, k)
<1>1. ASSUME NEW g, Home(g, k) \subseteq S
      PROVE  \E s \in Seq(S) : /\ PagesRead(g, k) = s
                               /\ g # NoGen => \A p \in Home(g, k) : \E i \in 1 .. Len(s) : s[i] = p
  <2>1. CASE g = NoGen
    <3>1. PagesRead(g, k) = <<>> /\ <<>> \in Seq(S)
      BY <2>1 DEF PagesRead
    <3> QED
      BY <2>1, <3>1
  <2>2. CASE g # NoGen
    <3>1. PICK x, y, z : x = Buckets(g, k)[1] /\ y = Buckets(g, k)[2] /\ z = StashPage(g)
      OBVIOUS
    <3>2. PagesRead(g, k) = <<x, y, z>> /\ Home(g, k) = {x, y, z}
      BY <2>2, <3>1 DEF PagesRead, Home
    <3>3. PICK s : s = <<x, y, z>>
      OBVIOUS
    <3> HIDE DEF S
    <3>4. s \in Seq(S) /\ Len(s) = 3 /\ s[1] = x /\ s[2] = y /\ s[3] = z
      BY <1>1, <3>2, <3>3
    <3>5. \A p \in {x, y, z} : \E i \in 1 .. Len(s) : s[i] = p
      BY <3>4
    <3> QED
      BY <3>2, <3>3, <3>4, <3>5
  <2> QED
    BY <2>1, <2>2
<1>2. PICK s \in Seq(S) : /\ PagesRead(m.cur, k) = s
                          /\ m.cur # NoGen => \A p \in Home(m.cur, k) : \E i \in 1 .. Len(s) : s[i] = p
  BY <1>1
<1>3. PICK t \in Seq(S) : /\ PagesRead(m.old, k) = t
                          /\ m.old # NoGen => \A p \in Home(m.old, k) : \E i \in 1 .. Len(t) : t[i] = p
  BY <1>1
<1> HIDE DEF S
<1>4. PICK u : u = s \o t
  OBVIOUS
<1>5. /\ Len(s) \in Nat /\ Len(t) \in Nat /\ Len(u) = Len(s) + Len(t)
      /\ \A i \in 1 .. Len(s) : u[i] = s[i]
      /\ \A i \in 1 .. Len(t) : u[Len(s) + i] = t[i]
  BY <1>4
<1>6. Places(m, k) = u
  BY <1>2, <1>3, <1>4 DEF Places
<1>7. ASSUME NEW p, m.cur # NoGen, p \in Home(m.cur, k)
      PROVE  \E i \in 1 .. Len(u) : u[i] = p
  <2>1. PICK i \in 1 .. Len(s) : s[i] = p
    BY <1>2, <1>7
  <2>2. i \in 1 .. Len(u) /\ u[i] = p
    BY <1>5, <2>1
  <2> QED
    BY <2>2
<1>8. ASSUME NEW p, m.old # NoGen, p \in Home(m.old, k)
      PROVE  \E i \in 1 .. Len(u) : u[i] = p
  <2>1. PICK i \in 1 .. Len(t) : t[i] = p
    BY <1>3, <1>8
  <2>2. Len(s) + i \in 1 .. Len(u) /\ u[Len(s) + i] = p
    BY <1>5, <2>1
  <2> QED
    BY <2>2
<1>9. ASSUME NEW p, \E i \in 1 .. Len(u) : u[i] = p
      PROVE  Listed(p, m, k)
  BY <1>6, <1>9 DEF Listed
<1>10. Len(Places(m, k)) \in Nat
  BY <1>5, <1>6
<1>11. ASSUME NEW p, m.cur # NoGen, p \in Home(m.cur, k)
       PROVE  Listed(p, m, k)
  BY <1>7, <1>9, <1>11
<1>12. ASSUME NEW p, m.old # NoGen, p \in Home(m.old, k)
       PROVE  Listed(p, m, k)
  BY <1>8, <1>9, <1>12
<1> QED
  BY ONLY <1>10, <1>11, <1>12

LEMMA DurableInit ==
  ASSUME HInit
  PROVE  DurableInv
<1> DEFINE img == [p \in Page |-> Blank]
<1>1. TableInv(img, FirstMeta) /\ Kept(img, FirstMeta) = {}
  BY FirstTable
<1> HIDE DEF img
<1>2. db = [img |-> img, meta |-> FirstMeta, overflow |-> {}] /\ tx = NoTx /\ reader = NoRead
  BY DEF HInit, Empty, img
<1>3. /\ FirstMeta.live = 0 /\ FirstMeta.cur.rows = 0 /\ FirstMeta.old.rows = 0
      /\ FirstMeta.overflow = 0
  BY DEF FirstMeta, NoGen
<1>4. TableOK(img, FirstMeta) /\ Unused(img, FirstMeta)
  BY <1>1 DEF TableInv
<1>5. Tidy(img, FirstMeta)
  BY DEF Tidy, img
<1>6. TablesOK(img, FirstMeta, {})
  BY <1>1, <1>3, <1>4, <1>5, FS_EmptySet DEF TablesOK
<1>7. AtRest(db)
  BY <1>2, <1>3, <1>6 DEF AtRest, DbOK, IsDb, Total
<1>8. ReaderInv
  <2>1. Len(Places(FirstMeta, NoKey)) \in Nat
    BY PlacesOfKey
  <2> QED
    BY <1>2, <2>1 DEF ReaderInv, NoRead
<1> QED
  BY <1>2, <1>7, <1>8 DEF DurableInv, StoreInv

\* The writer's steps keep the tables.
LEMMA WriterKeeps ==
  ASSUME Page = Nat, StoreInv, HNext
  PROVE  StoreInv'
<1>1. AtRest(db) /\ DbOK(db) /\ Stored(db) = Holding(db)
  BY StoredIsHeld DEF StoreInv, AtRest
<1>2. ASSUME NEW k \in Key, BeginInsert(k)
      PROVE  StoreInv'
  <2>1. PICK e : e = Route(db, k)
    OBVIOUS
  <2>2. tx' = [key |-> k, stage |-> "route", db |-> e] /\ db' = db
    BY <1>2, <2>1 DEF BeginInsert
  <2>3. k \notin Holding(db)
    BY <1>1, <1>2 DEF BeginInsert, Stored
  <2>4. AtRest(e) /\ Holding(e) = With(Holding(db), k)
    BY <1>1, <2>1, <2>3, RouteKeeps
  <2>5. tx'.key = k /\ tx'.stage = "route" /\ tx'.db = e
    BY <2>2
  <2> QED
    BY <1>1, <2>2, <2>3, <2>4, <2>5 DEF StoreInv
<1>3. CASE Migrating
  <2>1. tx # NoTx /\ tx.stage = "route"
    BY <1>3 DEF Migrating, NoTx
  <2>2. PICK k, d, e : k = tx.key /\ d = tx.db /\ e = Completed(Swept(d), db)
    OBVIOUS
  <2>3. tx = [key |-> k, stage |-> "route", db |-> d]
    BY <2>1, <2>2 DEF StoreInv
  <2>4. tx' = [key |-> k, stage |-> "final", db |-> e] /\ db' = db
    BY <1>3, <2>2, <2>3 DEF Migrating
  <2>5. AtRest(e) /\ Holding(e) = Holding(d)
    <3>1. AtRest(d)
      BY <2>1, <2>2 DEF StoreInv
    <3> QED
      BY <2>2, <3>1, MigratedKeeps
  <2>6. tx'.key = k /\ tx'.stage = "final" /\ tx'.db = e
    BY <2>4
  <2> QED
    BY <2>1, <2>2, <2>4, <2>5, <2>6 DEF StoreInv
<1>4. CASE Commit
  <2>1. tx # NoTx /\ db' = tx.db /\ tx' = NoTx
    BY <1>4 DEF Commit, NoTx
  <2> QED
    BY <2>1 DEF StoreInv
<1>5. CASE WriterDies
  BY <1>5 DEF WriterDies, StoreInv
<1>6. CASE ProbePage \/ ProbeOverflow \/ \E k \in Key : ReadMeta(k)
  <2>1. UNCHANGED <<db, tx>>
    BY <1>6 DEF ProbePage, ProbeOverflow, ReadMeta
  <2> QED
    BY <2>1 DEF StoreInv
<1> QED
  BY <1>2, <1>3, <1>4, <1>5, <1>6 DEF HNext

\* A lookup that begins has the key ahead of it, if it is stored.
LEMMA BeginsAhead ==
  ASSUME NEW d, DbOK(d), NEW k \in Key, k \in Holding(d)
  PROVE  \/ \E i \in 1 .. Len(Places(d.meta, k)) : Places(d.meta, k)[i] \in PagesWith(d, k)
         \/ d.meta.overflow # 0 /\ k \in d.overflow
<1>1. /\ Laid(d.meta.cur) /\ d.overflow \subseteq Key /\ IsFiniteSet(d.overflow)
      /\ Cardinality(d.overflow) = d.meta.overflow
  BY DEF DbOK, TablesOK, TableOK, Formed
<1>2. CASE k \in d.overflow
  BY <1>1, <1>2, FS_EmptySet
<1>3. CASE k \notin d.overflow
  <2>1. PICK p : p \in PagesWith(d, k)
    BY <1>3, PagesOfKey DEF Holding
  <2>2. p \in Home(d.meta.cur, k) \cup (IF d.meta.old = NoGen THEN {} ELSE Home(d.meta.old, k))
    BY <2>1, PagesOfKey
  <2>3. d.meta.cur # NoGen
    BY <1>1, Layout
  <2>4. \E i \in 1 .. Len(Places(d.meta, k)) : Places(d.meta, k)[i] = p
    <3>1. PICK m : m = d.meta
      OBVIOUS
    <3>2. /\ m.cur # NoGen /\ p \in Home(m.cur, k) => Listed(p, m, k)
          /\ m.old # NoGen /\ p \in Home(m.old, k) => Listed(p, m, k)
      BY PlacesOfKey
    <3>3. (m.cur # NoGen /\ p \in Home(m.cur, k)) \/ (m.old # NoGen /\ p \in Home(m.old, k))
      BY <2>2, <2>3, <3>1
    <3>4. \E i \in 1 .. Len(Places(m, k)) : Places(m, k)[i] = p
      BY ONLY <3>2, <3>3 DEF Listed
    <3> QED
      BY <3>1, <3>4
  <2> QED
    BY <2>1, <2>4
<1> QED
  BY <1>2, <1>3

LEMMA ReaderKeeps ==
  ASSUME StoreInv, StoreInv', ReaderInv, HNext
  PROVE  ReaderInv'
<1>1. /\ AtRest(db) /\ DbOK(db) /\ Stored(db) = Holding(db)
      /\ Formed(db.meta)
  BY StoredIsHeld DEF StoreInv, AtRest, DbOK, TablesOK, TableOK
<1>2. ASSUME NEW k \in Key, ReadMeta(k)
      PROVE  ReaderInv'
  <2>1. /\ UNCHANGED db
        /\ reader' = [key |-> k, meta |-> db.meta, at |-> 1, answer |-> "reading",
                      had |-> k \in Holding(db), moved |-> FALSE]
    BY <1>1, <1>2 DEF ReadMeta
  <2>2. /\ reader'.key = k /\ reader'.meta = db.meta /\ reader'.at = 1 /\ reader'.answer = "reading"
        /\ reader'.had = (k \in Holding(db)) /\ reader'.moved = FALSE
    BY <2>1
  <2>3. Len(Places(db.meta, k)) \in Nat
    BY PlacesOfKey
  <2>4. k \in Holding(db) => Ahead'
    <3> SUFFICES ASSUME k \in Holding(db) PROVE Ahead'
      OBVIOUS
    <3>1. PICK d : d = db
      OBVIOUS
    <3>2. DbOK(d) /\ k \in Key /\ k \in Holding(d)
      BY <1>1, <3>1
    <3>3. \/ \E i \in 1 .. Len(Places(d.meta, k)) : Places(d.meta, k)[i] \in PagesWith(d, k)
          \/ d.meta.overflow # 0 /\ k \in d.overflow
      BY ONLY <3>2, BeginsAhead
    <3> QED
      BY <2>1, <2>2, <3>1, <3>3 DEF Ahead
  <2>5. reader'.had \in BOOLEAN
    BY <2>2
  <2>6. /\ reader'.key \in Key /\ reader'.at \in Nat /\ reader'.moved \in BOOLEAN
        /\ Len(Places(reader'.meta, reader'.key)) \in Nat
        /\ reader'.had => Ahead'
    <3>1. reader'.had => Ahead'
      BY ONLY <2>2, <2>4, Zenon
    <3>2. Len(Places(reader'.meta, reader'.key)) \in Nat
      BY ONLY <2>2, <2>3, Zenon
    <3>3. reader'.key \in Key /\ reader'.at \in Nat
      BY <2>2
    <3>4. reader'.moved \in BOOLEAN
      BY <2>2
    <3> QED
      BY ONLY <3>1, <3>2, <3>3, <3>4, Zenon
  <2>7. reader' = [key |-> reader'.key, meta |-> reader'.meta, at |-> reader'.at,
                   answer |-> reader'.answer, had |-> reader'.had, moved |-> reader'.moved]
    BY <2>1, <2>2
  <2> QED
    BY <2>2, <2>5, <2>6, <2>7 DEF ReaderInv
<1>3. CASE ProbePage
  <2> DEFINE pages == Places(reader.meta, reader.key)
  <2>1. /\ UNCHANGED db /\ reader.answer = "reading" /\ reader.at <= Len(pages)
        /\ reader' = IF pages[reader.at] \in PagesWith(db, reader.key)
                     THEN [reader EXCEPT !.answer = "found"]
                     ELSE [reader EXCEPT !.at = @ + 1]
    BY <1>3 DEF ProbePage
  <2>2. reader.key \in Key /\ reader.at \in Nat /\ Len(pages) \in Nat
    BY <2>1 DEF ReaderInv
  <2>3. CASE pages[reader.at] \in PagesWith(db, reader.key)
    <3>1. reader.key \in Holding(db)
      BY <1>1, <2>2, <2>3, PagesOfKey DEF Holding
    <3>2. /\ reader' = [key |-> reader.key, meta |-> reader.meta, at |-> reader.at,
                        answer |-> "found", had |-> reader.had, moved |-> reader.moved]
      BY <2>1, <2>3 DEF ReaderInv
    <3>3. /\ reader'.key = reader.key /\ reader'.meta = reader.meta /\ reader'.at = reader.at
          /\ reader'.answer = "found" /\ reader'.had = reader.had /\ reader'.moved = reader.moved
      BY <3>2
    <3> QED
      BY <2>1, <2>2, <3>1, <3>2, <3>3 DEF ReaderInv
  <2>4. CASE pages[reader.at] \notin PagesWith(db, reader.key)
    <3>1. /\ reader' = [key |-> reader.key, meta |-> reader.meta, at |-> reader.at + 1,
                        answer |-> "reading", had |-> reader.had, moved |-> reader.moved]
      BY <2>1, <2>4 DEF ReaderInv
    <3>2. /\ reader'.key = reader.key /\ reader'.meta = reader.meta /\ reader'.at = reader.at + 1
          /\ reader'.answer = "reading" /\ reader'.had = reader.had /\ reader'.moved = reader.moved
      BY <3>1
    <3>3. Ahead => Ahead'
      <4>1. ASSUME NEW i \in 1 .. Len(pages), reader.at <= i, pages[i] \in PagesWith(db, reader.key)
            PROVE  reader.at + 1 <= i
        BY <2>2, <2>4, <4>1
      <4> QED
        BY <2>1, <3>2, <4>1 DEF Ahead
    <3> QED
      BY <2>1, <2>2, <3>1, <3>2, <3>3 DEF ReaderInv
  <2> QED
    BY <2>3, <2>4
<1>4. CASE ProbeOverflow
  <2> DEFINE here == reader.meta.overflow # 0 /\ reader.key \in db.overflow
  <2>1. /\ UNCHANGED db /\ reader.answer = "reading"
        /\ reader.at > Len(Places(reader.meta, reader.key))
        /\ reader' = [reader EXCEPT !.answer = IF here THEN "found" ELSE "absent"]
    BY <1>4 DEF ProbeOverflow
  <2>2. here => reader.key \in Holding(db)
    BY DEF Holding
  <2>3. Ahead => here
    BY <2>1 DEF Ahead, ReaderInv
  <2> HIDE DEF here
  <2>4. PICK a : a = IF here THEN "found" ELSE "absent"
    OBVIOUS
  <2>5. /\ reader' = [key |-> reader.key, meta |-> reader.meta, at |-> reader.at,
                      answer |-> a, had |-> reader.had, moved |-> reader.moved]
    BY <2>1, <2>4 DEF ReaderInv
  <2>6. /\ reader'.key = reader.key /\ reader'.meta = reader.meta /\ reader'.at = reader.at
        /\ reader'.answer = a /\ reader'.had = reader.had /\ reader'.moved = reader.moved
    BY <2>5
  <2>7. /\ a \in {"found", "absent"} /\ a = "found" => reader.key \in Holding(db)
        /\ a = "absent" => ~here
    BY <2>2, <2>4
  <2> QED
    BY <2>1, <2>3, <2>5, <2>6, <2>7 DEF ReaderInv
<1>5. CASE Commit
  <2>1. PICK d, e, k : d = db /\ e = tx.db /\ k = reader.key
    OBVIOUS
  <2>2. /\ db' = e /\ tx # NoTx
        /\ reader' = [reader EXCEPT !.moved = reader.moved \/ Moves(d, e, k)]
    BY <1>5, <2>1 DEF Commit, NoTx
  <2>3. Holding(d) \subseteq Holding(e)
    BY <2>1, <2>2 DEF StoreInv, With
  <2>4. PICK b \in BOOLEAN : b = (reader.moved \/ Moves(d, e, k))
    BY DEF Moves
  <2>5. reader' = [key |-> k, meta |-> reader.meta, at |-> reader.at,
                   answer |-> reader.answer, had |-> reader.had, moved |-> b]
    BY <2>1, <2>2, <2>4 DEF ReaderInv
  <2>6. /\ reader'.key = k /\ reader'.meta = reader.meta /\ reader'.at = reader.at
        /\ reader'.answer = reader.answer /\ reader'.had = reader.had /\ reader'.moved = b
    BY <2>5
  <2>7. ~b => ~reader.moved /\ (Ahead => Ahead')
    <3> SUFFICES ASSUME ~b PROVE ~reader.moved /\ (Ahead => Ahead')
      OBVIOUS
    <3>1. ~reader.moved /\ PagesWith(d, k) = PagesWith(e, k) /\ (k \in d.overflow <=> k \in e.overflow)
      BY <2>4 DEF Moves
    <3> QED
      BY <2>1, <2>2, <2>6, <3>1 DEF Ahead
  <2>8. reader.moved => b
    BY <2>4
  <2> QED
    BY <2>1, <2>2, <2>3, <2>4, <2>5, <2>6, <2>7, <2>8 DEF ReaderInv
<1>6. CASE Migrating \/ WriterDies \/ \E k \in Key : BeginInsert(k)
  <2>1. UNCHANGED <<db, reader>>
    BY <1>6 DEF Migrating, WriterDies, BeginInsert
  <2> QED
    BY <2>1 DEF ReaderInv, Ahead
<1> QED
  BY <1>2, <1>3, <1>4, <1>5, <1>6 DEF HNext

-----------------------------------------------------------------------------
(* Theorems.  SQLite gives the tables as many rows as they take: the pages   *)
(* of the model are all the numbers.                                         *)

\* Every step keeps the tables of the store, of the transaction under way, and
\* what a lookup may still miss.
THEOREM DurableInvariance ==
  ASSUME Page = Nat
  PROVE  HSpec => []DurableInv
<1>1. HInit => DurableInv
  BY DurableInit
<1>2. DurableInv /\ [HNext]_hvars => DurableInv'
  <2> SUFFICES ASSUME DurableInv, [HNext]_hvars PROVE DurableInv'
    OBVIOUS
  <2>1. CASE HNext
    <3>1. StoreInv /\ ReaderInv
      BY DEF DurableInv
    <3>2. StoreInv'
      BY <2>1, <3>1, WriterKeeps
    <3>3. ReaderInv'
      BY <2>1, <3>1, <3>2, ReaderKeeps
    <3> QED
      BY <3>2, <3>3 DEF DurableInv
  <2>2. CASE UNCHANGED hvars
    BY <2>2 DEF hvars, DurableInv, StoreInv, ReaderInv, Ahead
  <2> QED
    BY <2>1, <2>2
<1> QED
  BY <1>1, <1>2, PTL DEF HSpec

\* What is committed passes audit(), whenever the writer dies: the store that
\* recover() finds is never one it raises on, and no migration is rolled back
\* because it left rows behind.
THEOREM DurableAudits ==
  ASSUME Page = Nat
  PROVE  HSpec => []StoreAudits
<1>1. DurableInv => StoreAudits
  BY RestIsAudited DEF DurableInv, StoreInv, StoreAudits
<1> QED
  BY <1>1, DurableInvariance, PTL

\* A lookup, in as many transactions as it has pages, finds only what is
\* stored, and of what was stored when it began misses only what a committed
\* insertion has since evicted, migrated or sent to the overflow.
THEOREM ReadsMissOnlyMoved ==
  ASSUME Page = Nat
  PROVE  HSpec => []MissesOnlyMovedKeys
<1>1. DurableInv => MissesOnlyMovedKeys
  <2> SUFFICES ASSUME DurableInv PROVE MissesOnlyMovedKeys
    OBVIOUS
  <2>1. Stored(db) = Holding(db)
    BY StoredIsHeld DEF DurableInv, StoreInv, AtRest
  <2> QED
    BY <2>1 DEF DurableInv, ReaderInv, MissesOnlyMovedKeys
<1> QED
  BY <1>1, DurableInvariance, PTL

\* Primary, overflow and routing row together implement a set of keys that
\* grows by one whole insertion at a time.
THEOREM DurableImplementsKeyStore ==
  ASSUME Page = Nat
  PROVE  HSpec => ImplementsKeyStore
<1>1. HInit => KS!Init
  <2> SUFFICES ASSUME HInit PROVE KS!Init
    OBVIOUS
  <2>1. DbOK(db) /\ tx = NoTx
    BY DurableInit DEF DurableInv, StoreInv, AtRest, HInit
  <2>2. Stored(db) = {}
    <3>1. Kept(db.img, db.meta) = {} /\ db.overflow = {}
      BY FirstTable DEF HInit, Empty
    <3> QED
      BY <2>1, <3>1, StoredIsHeld DEF Holding
  <2> QED
    BY <2>1, <2>2 DEF KS!Init
<1>2. DurableInv /\ DurableInv' /\ [HNext]_hvars => [KS!Next]_KS!vars
  <2> SUFFICES ASSUME DurableInv, DurableInv', [HNext]_hvars PROVE [KS!Next]_KS!vars
    OBVIOUS
  <2>1. Stored(db) = Holding(db) /\ Stored(db') = Holding(db')
    BY StoredIsHeld DEF DurableInv, StoreInv, AtRest
  <2>2. ASSUME NEW k \in Key, BeginInsert(k)
        PROVE  KS!Begin(k)
    <3>1. tx = NoTx /\ tx' # NoTx /\ tx'.key = k /\ db' = db
      BY <2>2 DEF BeginInsert, NoTx
    <3> QED
      BY <3>1 DEF KS!Begin
  <2>3. CASE Migrating
    <3>1. tx # NoTx /\ tx.stage = "route" /\ db' = db
      BY <2>3 DEF Migrating, NoTx
    <3>2. PICK k, d, e : k = tx.key /\ d = tx.db /\ e = Completed(Swept(d), db)
      OBVIOUS
    <3>3. tx = [key |-> k, stage |-> "route", db |-> d]
      BY <3>1, <3>2 DEF DurableInv, StoreInv
    <3>4. tx' = [key |-> k, stage |-> "final", db |-> e]
      BY <2>3, <3>2, <3>3 DEF Migrating
    <3>5. tx' # NoTx /\ tx'.key = tx.key
      BY <3>2, <3>4 DEF NoTx
    <3> QED
      BY <3>1, <3>5 DEF KS!vars
  <2>4. CASE Commit
    <3>1. tx # NoTx /\ tx' = NoTx /\ db' = tx.db
      BY <2>4 DEF Commit, NoTx
    <3>2. Holding(db') = Holding(db) \cup {tx.key}
      BY <3>1 DEF DurableInv, StoreInv, With
    <3>3. KS!Show
      BY <2>1, <3>1, <3>2 DEF KS!Show
    <3> QED
      BY <3>3 DEF KS!Next
  <2>5. CASE WriterDies
    <3>1. KS!Abort
      BY <2>5 DEF WriterDies, KS!Abort
    <3> QED
      BY <3>1 DEF KS!Next
  <2>6. CASE ProbePage \/ ProbeOverflow \/ (\E k \in Key : ReadMeta(k)) \/ UNCHANGED hvars
    <3>1. UNCHANGED <<db, tx>>
      BY <2>6 DEF ProbePage, ProbeOverflow, ReadMeta, hvars
    <3> QED
      BY <3>1 DEF KS!vars
  <2> QED
    BY <2>2, <2>3, <2>4, <2>5, <2>6 DEF HNext, KS!Next
<1> QED
  BY <1>1, <1>2, DurableInvariance, PTL DEF HSpec, ImplementsKeyStore, KS!Spec
=============================================================================
