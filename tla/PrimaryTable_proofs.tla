------------------------- MODULE PrimaryTable_proofs -------------------------
(***************************************************************************)
(* Proofs about PrimaryTable: what a plan does to the table, whatever the  *)
(* keys hash to.  A generation is sound when every row of it is where      *)
(* lookup() looks for its key, and no key has two; every placement is a    *)
(* chain of writes that each replace one row, and keep it sound.           *)
(***************************************************************************)
EXTENDS PrimaryTable, Integers, FiniteSetTheorems, WellFoundedInduction, TLAPS

Row   == Key \cup {NoKey}
Pages == {Blank} \cup [0 .. BucketSize-1 -> Row] \cup [0 .. StashCapacity-1 -> Row]
Gens  == [base : Nat, cap : Nat, rows : Nat]
Metas == [cur : Gens, old : Gens, cursor : Nat, limit : Nat, nextPage : Nat, live : Nat,
          overflow : Nat]

\* The slots of a page of a generation, and what is in them.
Room(g, p)      == IF p = StashPage(g) THEN 0 .. StashCapacity-1 ELSE 0 .. BucketSize-1
Cell(img, g, p) == IF p = StashPage(g) THEN Stash(img, g) ELSE Bucket(img, p)

\* A generation that was laid out.
Laid(g) == /\ g \in Gens
           /\ g.cap % BucketSize = 0 /\ g.cap \div BucketSize > 1
           /\ PagesOf(g) \subseteq Page

Home(g, k) == {Buckets(g, k)[1], Buckets(g, k)[2], StashPage(g)}

Sound(img, g) ==
  /\ \A p \in PagesOf(g) : Cell(img, g, p) \in [Room(g, p) -> Row]
  /\ \A p \in PagesOf(g) : \A i \in Room(g, p) :
       Cell(img, g, p)[i] # NoKey => p \in Home(g, Cell(img, g, p)[i])
  /\ \A p, q \in PagesOf(g) : \A i \in Room(g, p), j \in Room(g, q) :
       Cell(img, g, p)[i] = Cell(img, g, q)[j] /\ Cell(img, g, p)[i] # NoKey
         => p = q /\ i = j

Inside(img, g) ==
  {k \in Key : \E p \in PagesOf(g) : \E i \in Room(g, p) : Cell(img, g, p)[i] = k}

-----------------------------------------------------------------------------
(* Arithmetic *)

LEMMA Multiples ==
  ASSUME NEW b \in Nat, NEW x \in Nat, NEW y \in Nat, x < y
  PROVE  x * b + b <= y * b
<1> DEFINE e == y - x - 1
<1>1. e \in Nat /\ y = x + 1 + e
  OBVIOUS
<1> HIDE DEF e
<1>2. e * b >= 0
  BY <1>1
<1>3. (x + 1 + e) * b = x * b + b + e * b
  BY <1>1
<1> QED
  BY <1>1, <1>2, <1>3

\* A slot's number determines its page and its place there.
LEMMA SlotNumbers ==
  ASSUME NEW b \in Nat \ {0}, NEW x \in Nat, NEW y \in Nat,
         NEW i \in 0 .. b-1, NEW j \in 0 .. b-1, x * b + i = y * b + j
  PROVE  x = y /\ i = j
<1>1. x * b \in Nat /\ y * b \in Nat
  OBVIOUS
<1>2. CASE x < y
  BY <1>1, <1>2, Multiples
<1>3. CASE y < x
  BY <1>1, <1>3, Multiples
<1> QED
  BY <1>2, <1>3

LEMMA Division ==
  ASSUME NEW b \in Nat \ {0}, NEW c \in Nat
  PROVE  /\ c \div b \in Nat /\ c % b \in 0 .. b-1
         /\ c = (c \div b) * b + (c % b)
OBVIOUS

\* The slots of a capacity that is a whole number of buckets.
LEMMA WholeBuckets ==
  ASSUME NEW b \in Nat \ {0}, NEW c \in Nat, c % b = 0
  PROVE  /\ c = (c \div b) * b
         /\ \A x \in Nat : x < c => x \div b < c \div b
         /\ \A x \in Nat, i \in 0 .. b-1 : x < c \div b => x * b + i < c
         /\ (2 * c) % b = 0 /\ (2 * c) \div b = 2 * (c \div b)
<1> DEFINE q == c \div b
<1>1. q \in Nat /\ c = q * b
  OBVIOUS
<1>2. ASSUME NEW x \in Nat, NEW i \in 0 .. b-1, x < q
      PROVE  x * b + i < c
  BY <1>1, <1>2, Multiples
<1>3. ASSUME NEW x \in Nat, x < c
      PROVE  x \div b < q
  <2>1. x \div b \in Nat /\ x % b \in 0 .. b-1 /\ x = (x \div b) * b + (x % b)
    BY Division
  <2>2. (x \div b) * b \in Nat
    BY <2>1
  <2>3. CASE q < x \div b
    BY <1>1, <1>3, <2>1, <2>2, <2>3, Multiples
  <2>4. CASE q = x \div b
    BY <1>1, <1>3, <2>1, <2>4
  <2> QED
    BY <1>1, <2>1, <2>3, <2>4
<1>4. (2 * c) % b = 0 /\ (2 * c) \div b = 2 * q
  <2> DEFINE d == 2 * c
  <2>0. d \in Nat /\ d = 2 * c
    OBVIOUS
  <2> HIDE DEF d
  <2>1. d \div b \in Nat /\ d % b \in 0 .. b-1 /\ d = (d \div b) * b + (d % b)
    BY <2>0, Division
  <2>2. (2 * q) * b = 2 * (q * b) /\ 2 * q \in Nat
    BY <1>1
  <2>3. (2 * q) * b + 0 = (d \div b) * b + (d % b)
    BY <1>1, <2>0, <2>1, <2>2
  <2>4. 2 * q = d \div b /\ 0 = d % b
    <3> DEFINE x == 2 * q
               y == d \div b
               j == d % b
               i == 0
    <3>1. x \in Nat /\ y \in Nat /\ i \in 0 .. b-1 /\ j \in 0 .. b-1 /\ x * b + i = y * b + j
      BY <2>1, <2>2, <2>3
    <3> HIDE DEF x, y, i, j
    <3>2. x = y /\ i = j
      BY <3>1, SlotNumbers
    <3> QED
      BY <3>2 DEF x, y, i, j
  <2> QED
    BY <2>0, <2>4
<1> QED
  BY <1>1, <1>2, <1>3, <1>4

\* A set of naturals that is not empty has a least element.
LEMMA LeastElement ==
  ASSUME NEW S \in SUBSET Nat, S # {}
  PROVE  Min(S) \in S /\ \A y \in S : Min(S) <= y
<1> DEFINE R == OpToRel(<, Nat)
<1>1. IsWellFoundedOn(R, Nat)
  BY NatLessThanWellFounded
<1> HIDE DEF R
<1>2. PICK x \in S : \A y \in S : ~(<<y, x>> \in R)
  BY <1>1, WFMin, Zenon
<1>3. \A y \in S : ~(y < x)
  BY <1>2 DEF R, OpToRel
<1>4. \A y \in S : x <= y
  BY <1>3
<1> QED
  BY <1>4 DEF Min

-----------------------------------------------------------------------------
(* Where things are *)

LEMMA Layout ==
  ASSUME NEW g, Laid(g)
  PROVE  /\ g # NoGen /\ g.base \in Nat /\ g.cap \in Nat /\ g.cap \div BucketSize \in Nat
         /\ StashPage(g) = g.base + g.cap \div BucketSize
         /\ PagesOf(g) = g.base .. StashPage(g)
         /\ StashPage(g) \in PagesOf(g)
<1>1. g.cap \in Nat /\ g.base \in Nat /\ g.cap \div BucketSize \in Nat /\ g.cap \div BucketSize > 1
  BY BoundsAssumption DEF Laid, Gens
<1>2. 0 \div BucketSize = 0
  BY BoundsAssumption
<1>3. g # NoGen
  BY <1>1, <1>2 DEF NoGen
<1> QED
  BY <1>1, <1>3 DEF PagesOf, StashPage

\* The two buckets of a key are pages of the generation before its stash.
LEMMA BucketPages ==
  ASSUME NEW g, Laid(g), NEW k \in Key
  PROVE  /\ Buckets(g, k)[1] \in PagesOf(g) \ {StashPage(g)}
         /\ Buckets(g, k)[2] \in PagesOf(g) \ {StashPage(g)}
         /\ Buckets(g, k) = <<Buckets(g, k)[1], Buckets(g, k)[2]>>
<1> DEFINE count  == g.cap \div BucketSize
           first  == Hash1[k] % count
           second == Hash2[k] % count
           other  == IF second = first THEN (second + 1) % count ELSE second
<1>1. count \in Nat \ {0} /\ g.base \in Nat
  BY Layout DEF Laid
<1>2. StashPage(g) = g.base + count /\ PagesOf(g) = g.base .. StashPage(g)
  BY Layout
<1>3. Hash1[k] \in Nat /\ Hash2[k] \in Nat
  BY HashAssumption
<1>4. Buckets(g, k) = <<g.base + first, g.base + other>>
  BY DEF Buckets
<1> HIDE DEF count
<1>5. first \in 0 .. count-1 /\ second \in 0 .. count-1
  BY <1>1, <1>3, Division
<1> HIDE DEF first, second
<1>6. (second + 1) % count \in 0 .. count-1
  BY <1>1, <1>5, Division
<1>7. other \in 0 .. count-1
  BY <1>5, <1>6
<1> HIDE DEF other
<1> QED
  BY <1>1, <1>2, <1>4, <1>5, <1>7

\* A page that holds an image of Pages reads as a function of its slots.
LEMMA BlankSlots ==
  ASSUME NEW img, NEW p, NEW n \in {BucketSize, StashCapacity},
         img[p] = Blank \/ img[p] \in [0 .. n-1 -> Row]
  PROVE  /\ Slots(img, p, n) \in [0 .. n-1 -> Row]
         /\ img[p] = Blank => \A i \in 0 .. n-1 : Slots(img, p, n)[i] = NoKey
         /\ img[p] # Blank => Slots(img, p, n) = img[p]
BY DEF Slots, Row

\* What is written reads back.
LEMMA WrittenSlots ==
  ASSUME NEW img, NEW p, NEW n \in {BucketSize, StashCapacity}, img[p] \in [0 .. n-1 -> Row]
  PROVE  Slots(img, p, n) = img[p]
BY RowAssumption DEF Slots, Row

\* The page of a generation in full, before the stash and at it.
LEMMA CellOf ==
  ASSUME NEW img, NEW g, NEW p
  PROVE  /\ p # StashPage(g) => Cell(img, g, p) = Bucket(img, p) /\ Room(g, p) = 0 .. BucketSize-1
         /\ p = StashPage(g) => Cell(img, g, p) = Stash(img, g) /\ Room(g, p) = 0 .. StashCapacity-1
BY DEF Cell, Room

-----------------------------------------------------------------------------
(* Writes *)

\* A generation depends on its own pages alone.
LEMMA Elsewhere ==
  ASSUME NEW img, NEW new, NEW g, g = NoGen \/ Laid(g),
         \A p \in PagesOf(g) : new[p] = img[p]
  PROVE  /\ \A p \in PagesOf(g) : Cell(new, g, p) = Cell(img, g, p)
         /\ Inside(new, g) = Inside(img, g)
         /\ Sound(img, g) => Sound(new, g)
<1>1. g = NoGen \/ StashPage(g) \in PagesOf(g)
  BY Layout
<1>2. \A p \in PagesOf(g) : Cell(new, g, p) = Cell(img, g, p)
  BY <1>1 DEF Cell, Stash, Bucket, Slots, PagesOf
<1>3. Inside(new, g) = Inside(img, g)
  BY <1>2 DEF Inside
<1>4. Sound(img, g) => Sound(new, g)
  BY <1>2 DEF Sound
<1> QED
  BY <1>2, <1>3, <1>4

Replaced(img, g, p, i, x) == [img EXCEPT ![p] = [Cell(img, g, p) EXCEPT ![i] = x]]

\* A set of keys that one key leaves and another joins; either may be no key.
Swapped(S, was, x) == (S \ {was}) \cup ({x} \ {NoKey})

\* One row of a sound generation replaced: the generation stays sound, loses
\* the key that was there and gains the one that came.
LEMMA ReplaceRow ==
  ASSUME NEW img \in [Page -> Pages], NEW g, Laid(g), Sound(img, g),
         NEW p \in PagesOf(g), NEW i \in Room(g, p), NEW x \in Row,
         x # NoKey => x \notin Inside(img, g) /\ p \in Home(g, x)
  PROVE  /\ Replaced(img, g, p, i, x) \in [Page -> Pages]
         /\ \A q \in PagesOf(g) : Cell(Replaced(img, g, p, i, x), g, q) =
              IF q = p THEN [Cell(img, g, p) EXCEPT ![i] = x] ELSE Cell(img, g, q)
         /\ Sound(Replaced(img, g, p, i, x), g)
         /\ Inside(Replaced(img, g, p, i, x), g) = Swapped(Inside(img, g), Cell(img, g, p)[i], x)
<1> DEFINE was  == Cell(img, g, p)
           row  == [was EXCEPT ![i] = x]
           new  == Replaced(img, g, p, i, x)
<1>0. new = [img EXCEPT ![p] = row]
  BY DEF Replaced
<1> HIDE DEF new
<1>1. was \in [Room(g, p) -> Row] /\ row \in [Room(g, p) -> Row] /\ p \in Page
  BY DEF Sound, Laid
<1>2. row \in Pages
  BY <1>1 DEF Room, Pages
<1> HIDE DEF row
<1>3. new \in [Page -> Pages] /\ new[p] = row /\ \A q \in PagesOf(g) : q # p => new[q] = img[q]
  BY <1>0, <1>1, <1>2 DEF Laid
<1>4. Cell(new, g, p) = row
  <2>1. CASE p = StashPage(g)
    BY <2>1, <1>1, <1>3, WrittenSlots DEF Cell, Stash, Room
  <2>2. CASE p # StashPage(g)
    BY <2>2, <1>1, <1>3, WrittenSlots DEF Cell, Bucket, Room
  <2> QED
    BY <2>1, <2>2
<1>5. ASSUME NEW q \in PagesOf(g), q # p
      PROVE  Cell(new, g, q) = Cell(img, g, q)
  BY <1>3, <1>5, Layout DEF Cell, Stash, Bucket, Slots
<1>6. \A q \in PagesOf(g) : \A j \in Room(g, q) :
        Cell(new, g, q)[j] = IF q = p /\ j = i THEN x ELSE Cell(img, g, q)[j]
  BY <1>1, <1>4, <1>5 DEF row
<1>7. \A q \in PagesOf(g) : Cell(new, g, q) \in [Room(g, q) -> Row]
  BY <1>1, <1>4, <1>5 DEF Sound
<1>8. \A q \in PagesOf(g) : \A j \in Room(g, q) : x # NoKey => Cell(img, g, q)[j] # x
  BY DEF Inside, Row
<1>9. Sound(new, g)
  <2>1. ASSUME NEW q \in PagesOf(g), NEW j \in Room(g, q), Cell(new, g, q)[j] # NoKey
        PROVE  q \in Home(g, Cell(new, g, q)[j])
    BY <2>1, <1>6 DEF Sound
  <2>2. ASSUME NEW q \in PagesOf(g), NEW r \in PagesOf(g), NEW j \in Room(g, q), NEW l \in Room(g, r),
               Cell(new, g, q)[j] = Cell(new, g, r)[l], Cell(new, g, q)[j] # NoKey
        PROVE  q = r /\ j = l
    <3>1. CASE q = p /\ j = i
      BY <2>2, <3>1, <1>6, <1>8
    <3>2. CASE r = p /\ l = i
      BY <2>2, <3>2, <1>6, <1>8
    <3>3. CASE ~(q = p /\ j = i) /\ ~(r = p /\ l = i)
      <4>1. Cell(img, g, q)[j] = Cell(img, g, r)[l] /\ Cell(img, g, q)[j] # NoKey
        BY <2>2, <3>3, <1>6
      <4> QED
        BY <4>1 DEF Sound
    <3> QED
      BY <3>1, <3>2, <3>3
  <2>3. \A q \in PagesOf(g) : \A j \in Room(g, q) :
          Cell(new, g, q)[j] # NoKey => q \in Home(g, Cell(new, g, q)[j])
    BY <2>1
  <2>4. \A q, r \in PagesOf(g) : \A j \in Room(g, q), l \in Room(g, r) :
          Cell(new, g, q)[j] = Cell(new, g, r)[l] /\ Cell(new, g, q)[j] # NoKey
            => q = r /\ j = l
    BY <2>2
  <2> QED
    BY <1>7, <2>3, <2>4, Zenon DEF Sound
<1>10. Inside(new, g) = (Inside(img, g) \ {was[i]}) \cup ({x} \ {NoKey})
  <2>1. ASSUME NEW k \in Inside(new, g)
        PROVE  k \in (Inside(img, g) \ {was[i]}) \cup ({x} \ {NoKey})
    <3>0. PICK q \in PagesOf(g) : \E j \in Room(g, q) : Cell(new, g, q)[j] = k
      BY DEF Inside
    <3>1. PICK j \in Room(g, q) : Cell(new, g, q)[j] = k
      BY <3>0
    <3>2. CASE q = p /\ j = i
      BY <3>1, <3>2, <1>6, NoKeyAssumption DEF Inside
    <3>3. CASE ~(q = p /\ j = i)
      <4>1. Cell(img, g, q)[j] = k /\ k \in Key
        BY <3>1, <3>3, <1>6 DEF Inside
      <4>2. k # was[i]
        BY <4>1, <3>3, NoKeyAssumption DEF Sound
      <4> QED
        BY <4>1, <4>2 DEF Inside
    <3> QED
      BY <3>2, <3>3
  <2>2. ASSUME NEW k \in Inside(img, g), k # was[i]
        PROVE  k \in Inside(new, g)
    <3>0. PICK q \in PagesOf(g) : \E j \in Room(g, q) : Cell(img, g, q)[j] = k
      BY DEF Inside
    <3>1. PICK j \in Room(g, q) : Cell(img, g, q)[j] = k
      BY <3>0
    <3>2. ~(q = p /\ j = i)
      BY <3>1, <2>2
    <3>3. Cell(new, g, q)[j] = k
      BY <3>1, <3>2, <1>6
    <3> QED
      BY <3>3 DEF Inside
  <2>3. x # NoKey => x \in Inside(new, g)
    BY <1>6 DEF Inside, Row
  <2> QED
    BY <2>1, <2>2, <2>3
<1> QED
  BY <1>3, <1>4, <1>5, <1>9, <1>10 DEF row, new, Swapped
-----------------------------------------------------------------------------
(* Induction, stated of a set: the provers cannot instantiate an operator. *)

LEMMA SetInduction ==
  ASSUME NEW S, 0 \in S, \A n \in Nat : n \in S => n + 1 \in S
  PROVE  Nat \subseteq S
<1> DEFINE T == Nat \ S
<1>1. SUFFICES ASSUME T # {} PROVE FALSE
  OBVIOUS
<1> DEFINE x == Min(T)
<1>2. x \in T /\ \A y \in T : x <= y
  BY <1>1, LeastElement
<1> HIDE DEF x
<1>3. x \in Nat /\ x \notin S /\ x # 0
  BY <1>2
<1>4. x - 1 \in Nat /\ x - 1 \in S
  BY <1>2, <1>3
<1> QED
  BY <1>3, <1>4

-----------------------------------------------------------------------------
(* Placement *)

Views == [img : [Page -> Pages], written : SUBSET Page]

\* w is v with pages of g rewritten, all of them listed.
Rewrites(v, w, g) ==
  /\ w \in Views
  /\ v.written \subseteq w.written /\ w.written \subseteq v.written \cup PagesOf(g)
  /\ \A p \in Page : w.img[p] # v.img[p] => p \in w.written \cap PagesOf(g)

\* w is v with one key more in g.
Grown(v, w, g, k) ==
  /\ Rewrites(v, w, g)
  /\ Sound(w.img, g)
  /\ Inside(w.img, g) = Inside(v.img, g) \cup {k}

LEMMA RewritesOn ==
  ASSUME NEW g, NEW u \in Views, NEW v, NEW w, Rewrites(u, v, g), Rewrites(v, w, g)
  PROVE  Rewrites(u, w, g)
BY DEF Rewrites, Views

LEMMA PutRewrites ==
  ASSUME NEW g, Laid(g), NEW v \in Views, NEW p \in PagesOf(g), NEW keys,
         [v.img EXCEPT ![p] = keys] \in [Page -> Pages]
  PROVE  Rewrites(v, Put(v, p, keys), g) /\ Put(v, p, keys).img = [v.img EXCEPT ![p] = keys]
BY DEF Rewrites, Views, Put, Laid

\* The first free slot of a page of its own takes the key.
LEMMA FillGrows ==
  ASSUME NEW v \in Views, NEW g, Laid(g), Sound(v.img, g),
         NEW k \in Key, k \notin Inside(v.img, g), NEW p \in PagesOf(g), p \in Home(g, k),
         Free(Cell(v.img, g, p)) # {}
  PROVE  Grown(v, Fill(v, p, Cell(v.img, g, p), k), g, k)
<1> DEFINE keys == Cell(v.img, g, p)
           i    == Min(Free(keys))
           new  == Replaced(v.img, g, p, i, k)
<1>1. keys \in [Room(g, p) -> Row] /\ Room(g, p) \subseteq Nat
  BY BoundsAssumption DEF Sound, Room
<1>2. i \in Room(g, p) /\ keys[i] = NoKey
  <2>1. Free(keys) \subseteq Room(g, p) /\ Free(keys) \in SUBSET Nat
    BY <1>1 DEF Free
  <2>2. i \in Free(keys)
    BY <2>1, LeastElement
  <2> QED
    BY <2>1, <2>2 DEF Free
<1>3. k # NoKey /\ k \in Row
  BY NoKeyAssumption DEF Row
<1>4. v.img \in [Page -> Pages]
  BY DEF Views
<1> HIDE DEF i
<1>5. /\ new \in [Page -> Pages] /\ Sound(new, g)
      /\ Inside(new, g) = Swapped(Inside(v.img, g), keys[i], k)
  BY <1>2, <1>3, <1>4, ReplaceRow
<1>6. NoKey \notin Inside(v.img, g)
  BY NoKeyAssumption DEF Inside
<1>7. Inside(new, g) = Inside(v.img, g) \cup {k}
  BY <1>2, <1>3, <1>5, <1>6 DEF Swapped
<1>8. Fill(v, p, keys, k) = Put(v, p, [keys EXCEPT ![i] = k])
  BY DEF Fill, i
<1>9. new = [v.img EXCEPT ![p] = [keys EXCEPT ![i] = k]]
  BY DEF Replaced
<1> DEFINE row == [keys EXCEPT ![i] = k]
<1> HIDE DEF keys, row, new
<1>10. Rewrites(v, Put(v, p, row), g) /\ Put(v, p, row).img = new
  BY <1>5, <1>9, PutRewrites DEF row
<1> QED
  BY <1>5, <1>7, <1>8, <1>10 DEF Grown, keys, row
\* A state of the eviction chain that began with v and the homeless key k: the
\* generation is sound, and the key in hand is the one it lacks.
Chained(s, v, g, k) ==
  /\ Rewrites(v, s.view, g)
  /\ Sound(s.view.img, g)
  /\ s.key \in Row \ Inside(s.view.img, g)
  /\ s.key # NoKey => s.at \in {Buckets(g, s.key)[1], Buckets(g, s.key)[2]}
  /\ Inside(s.view.img, g) \cup ({s.key} \ {NoKey}) = Inside(v.img, g) \cup {k}

\* One kick hands the chain on to the victim.
LEMMA KickKeeps ==
  ASSUME NEW v \in Views, NEW g, Laid(g), NEW k \in Key, NEW s, Chained(s, v, g, k),
         s.key # NoKey, NEW slot \in 0 .. BucketSize-1
  PROVE  Chained(Kick(s, g, Bucket(s.view.img, s.at), slot), v, g, k)
<1> DEFINE img    == s.view.img
           p      == s.at
           keys   == Cell(img, g, p)
           victim == keys[slot]
           new    == Replaced(img, g, p, slot, s.key)
           t      == Kick(s, g, Bucket(s.view.img, s.at), slot)
<1>1. s.key \in Key /\ s.view \in Views /\ img \in [Page -> Pages]
  BY DEF Chained, Row, Rewrites, Views
<1>2. /\ p \in PagesOf(g) /\ p # StashPage(g) /\ p \in Home(g, s.key)
      /\ Bucket(img, p) = keys /\ Room(g, p) = 0 .. BucketSize-1
  BY <1>1, BucketPages DEF Chained, Home, Cell, Room
<1>3. keys \in [Room(g, p) -> Row] /\ victim \in Row
  BY <1>2 DEF Chained, Sound
<1>4. /\ new \in [Page -> Pages] /\ Sound(new, g)
      /\ Inside(new, g) = Swapped(Inside(img, g), victim, s.key)
  <2>1. /\ Sound(img, g) /\ s.key \in Row /\ s.key \notin Inside(img, g)
        /\ slot \in Room(g, p) /\ p \in PagesOf(g) /\ p \in Home(g, s.key)
    BY <1>2 DEF Chained
  <2> QED
    BY <1>1, <2>1, ReplaceRow
<1>5. victim # NoKey => victim \in Inside(img, g) /\ p \in {Buckets(g, victim)[1], Buckets(g, victim)[2]}
  BY <1>2, <1>3 DEF Chained, Sound, Inside, Row, Home
<1>6. NoKey \notin Inside(img, g) /\ s.key \notin Inside(img, g)
  BY NoKeyAssumption DEF Inside, Chained
<1>7. /\ t.view = Put(s.view, p, [keys EXCEPT ![slot] = s.key])
      /\ t.key = victim
      /\ victim # NoKey => t.at = OtherBucket(Buckets(g, victim), p)
  BY <1>2 DEF Kick
<1> HIDE DEF t, keys, victim
<1>8. t.view.img = new /\ Rewrites(s.view, t.view, g)
  <2> DEFINE row == [keys EXCEPT ![slot] = s.key]
  <2>1. new = [s.view.img EXCEPT ![p] = row] /\ t.view = Put(s.view, p, row)
    BY <1>7 DEF keys, Replaced
  <2> HIDE DEF row
  <2> QED
    BY <1>1, <1>2, <1>4, <2>1, PutRewrites
<1>9. Rewrites(v, t.view, g)
  BY <1>1, <1>8, RewritesOn DEF Chained
<1>10. victim # NoKey => t.at \in {Buckets(g, victim)[1], Buckets(g, victim)[2]}
  BY <1>5, <1>7 DEF OtherBucket
<1> HIDE DEF new
<1>11. Inside(new, g) \cup ({victim} \ {NoKey}) = Inside(v.img, g) \cup {k}
  BY <1>4, <1>5, <1>6 DEF Chained, Swapped
<1>12. victim \notin Inside(new, g)
  BY <1>4, <1>5, <1>6 DEF Swapped
<1>13. Chained(t, v, g, k)
  BY <1>3, <1>4, <1>7, <1>8, <1>9, <1>10, <1>11, <1>12 DEF Chained
<1> QED
  BY <1>13 DEF t

\* Wherever the chain ends, it is a chain.
LEMMA EvictIsChained ==
  ASSUME NEW v \in Views, NEW g, Laid(g), Sound(v.img, g),
         NEW k \in Key, k \notin Inside(v.img, g)
  PROVE  Chained(Evict(v, g, k), v, g, k)
<1> DEFINE Next1(s, n) == IF s.key = NoKey THEN s
                          ELSE Kick(s, g, Bucket(s.view.img, s.at), Victim[s.key][n-1])
           first == [view |-> v, key |-> k, at |-> Buckets(g, k)[Choice[k]]]
           Run(f, m) == f = [n \in 0 .. m |-> IF n = 0 THEN first ELSE Next1(f[n-1], n)]
           kick == CHOOSE f : Run(f, MaxKicks)
<1>1. Evict(v, g, k) = kick[MaxKicks]
  BY DEF Evict
<1>2. Chained(first, v, g, k)
  <2>1. Rewrites(v, v, g)
    BY DEF Rewrites, Views
  <2>2. Buckets(g, k)[Choice[k]] \in {Buckets(g, k)[1], Buckets(g, k)[2]}
    BY HashAssumption
  <2> HIDE DEF first
  <2>3. first.view = v /\ first.key = k /\ first.at = Buckets(g, k)[Choice[k]]
    BY DEF first
  <2> QED
    BY <2>1, <2>2, <2>3, NoKeyAssumption DEF Chained, Row
<1>3. ASSUME NEW s, NEW n \in 1 .. MaxKicks, Chained(s, v, g, k)
      PROVE  Chained(Next1(s, n), v, g, k)
  <2>1. CASE s.key = NoKey
    BY <1>3, <2>1
  <2>2. CASE s.key # NoKey
    <3>1. Victim[s.key][n-1] \in 0 .. BucketSize-1
      <4>1. s.key \in Key /\ n - 1 \in 0 .. MaxKicks-1
        BY <1>3, <2>2, BoundsAssumption DEF Chained, Row
      <4>2. Victim[s.key] \in [0 .. MaxKicks-1 -> 0 .. BucketSize-1]
        BY <4>1, HashAssumption
      <4> QED
        BY ONLY <4>1, <4>2
    <3> QED
      BY <1>3, <2>2, <3>1, KickKeeps
  <2> QED
    BY <2>1, <2>2
<1> HIDE DEF Next1, first
<1>4. \E f : Run(f, MaxKicks)
  <2> DEFINE S == {m \in Nat : \E f : Run(f, m)}
  <2>1. 0 \in S
    <3>1. Run([n \in 0 .. 0 |-> first], 0)
      OBVIOUS
    <3> QED
      BY <3>1
  <2>2. ASSUME NEW m \in Nat, m \in S
        PROVE  m + 1 \in S
    <3>1. PICK f : Run(f, m)
      BY <2>2
    <3> DEFINE h == [n \in 0 .. m+1 |-> IF n <= m THEN f[n] ELSE Next1(f[m], m+1)]
    <3>2. \A n \in 0 .. m : f[n] = IF n = 0 THEN first ELSE Next1(f[n-1], n)
      BY <3>1
    <3>3. \A n \in 0 .. m+1 : h[n] = IF n = 0 THEN first ELSE Next1(h[n-1], n)
      BY <3>2
    <3>4. Run(h, m+1)
      BY <3>3
    <3> HIDE DEF h, Run
    <3> QED
      BY <3>4
  <2> HIDE DEF S
  <2>3. Nat \subseteq S
    BY <2>1, <2>2, SetInduction
  <2> QED
    BY <2>3, BoundsAssumption DEF S
<1>5. Run(kick, MaxKicks)
  BY <1>4
<1> HIDE DEF kick
<1>6. \A n \in 0 .. MaxKicks : kick[n] = IF n = 0 THEN first ELSE Next1(kick[n-1], n)
  BY <1>5
<1> DEFINE T == {n \in Nat : n <= MaxKicks => Chained(kick[n], v, g, k)}
<1>7. 0 \in T
  BY <1>2, <1>6, BoundsAssumption
<1>8. ASSUME NEW n \in Nat, n \in T
      PROVE  n + 1 \in T
  <2> SUFFICES ASSUME n + 1 <= MaxKicks PROVE Chained(kick[n+1], v, g, k)
    OBVIOUS
  <2>1. Chained(kick[n], v, g, k) /\ n + 1 \in 1 .. MaxKicks
    BY <1>8, BoundsAssumption
  <2>2. kick[n+1] = Next1(kick[n], n+1)
    BY <1>6, <2>1, BoundsAssumption
  <2> QED
    BY <1>3, <2>1, <2>2
<1> HIDE DEF T
<1>9. Nat \subseteq T
  BY <1>7, <1>8, SetInduction
<1> QED
  BY <1>1, <1>9, BoundsAssumption DEF T
\* A placement either takes the key in or leaves everything as it was.
LEMMA PlaceGrows ==
  ASSUME NEW v \in Views, NEW g, Laid(g), Sound(v.img, g),
         NEW k \in Key, k \notin Inside(v.img, g)
  PROVE  /\ Place(v, g, k) = [ok |-> Place(v, g, k).ok, view |-> Place(v, g, k).view]
         /\ Place(v, g, k).ok \in BOOLEAN
         /\ Place(v, g, k).ok => Grown(v, Place(v, g, k).view, g, k)
         /\ ~Place(v, g, k).ok => Place(v, g, k).view = v
<1> DEFINE pair == Buckets(g, k)
           last == Evict(v, g, k)
           r    == Place(v, g, k)
           Fine(t) == /\ t = [ok |-> t.ok, view |-> t.view] /\ t.ok \in BOOLEAN
                      /\ t.ok => Grown(v, t.view, g, k)
                      /\ ~t.ok => t.view = v
<1>1. ASSUME NEW w, Grown(v, w, g, k)
      PROVE  Fine(Placed(w))
  BY <1>1 DEF Placed
<1>2. /\ pair[1] \in PagesOf(g) \ {StashPage(g)} /\ pair[2] \in PagesOf(g) \ {StashPage(g)}
      /\ pair[1] \in Home(g, k) /\ pair[2] \in Home(g, k) /\ StashPage(g) \in PagesOf(g)
  BY BucketPages, Layout DEF Home
<1>3. ASSUME NEW p \in {pair[1], pair[2]}, Free(Bucket(v.img, p)) # {}
      PROVE  Fine(Placed(Fill(v, p, Bucket(v.img, p), k)))
  <2>1. Bucket(v.img, p) = Cell(v.img, g, p) /\ p \in PagesOf(g) /\ p \in Home(g, k)
    BY <1>2, <1>3 DEF Cell
  <2>2. Grown(v, Fill(v, p, Bucket(v.img, p), k), g, k)
    BY <1>3, <2>1, FillGrows
  <2> QED
    BY <1>1, <2>2
<1>4. Fine(Overflow(last, g, v))
  <2>1. Chained(last, v, g, k)
    BY EvictIsChained
  <2> HIDE DEF last
  <2>2. CASE last.key = NoKey
    <3>1. Grown(v, last.view, g, k)
      BY <2>1, <2>2 DEF Chained, Grown
    <3>2. Overflow(last, g, v) = Placed(last.view)
      BY <2>2 DEF Overflow, Settle
    <3> QED
      BY <1>1, <3>1, <3>2
  <2>3. CASE last.key # NoKey /\ Free(Stash(last.view.img, g)) # {}
    <3> DEFINE w == Fill(last.view, StashPage(g), Stash(last.view.img, g), last.key)
               q == StashPage(g)
    <3>1. /\ last.view \in Views /\ Sound(last.view.img, g) /\ last.key \in Key
          /\ last.key \notin Inside(last.view.img, g) /\ q \in PagesOf(g)
          /\ q \in Home(g, last.key)
      BY <1>2, <2>1, <2>3 DEF Chained, Rewrites, Row, Home
    <3>2. Stash(last.view.img, g) = Cell(last.view.img, g, q) /\ Free(Cell(last.view.img, g, q)) # {}
      BY <2>3 DEF Cell
    <3> HIDE DEF q
    <3>3. Grown(last.view, Fill(last.view, q, Cell(last.view.img, g, q), last.key), g, last.key)
      BY <3>1, <3>2, FillGrows
    <3>4. Grown(last.view, w, g, last.key)
      BY <3>2, <3>3 DEF q
    <3> HIDE DEF w
    <3>5. Rewrites(v, w, g) /\ Sound(w.img, g) /\ Inside(w.img, g) = Inside(last.view.img, g) \cup {last.key}
      BY <2>1, <3>1, <3>4, RewritesOn DEF Chained, Grown
    <3>6. Inside(w.img, g) = Inside(v.img, g) \cup {k}
      BY <2>1, <2>3, <3>5 DEF Chained
    <3>7. Grown(v, w, g, k)
      BY <3>5, <3>6 DEF Grown
    <3>8. Overflow(last, g, v) = Placed(w)
      BY <2>3 DEF Overflow, Settle, w
    <3> QED
      BY <1>1, <3>7, <3>8
  <2>4. CASE last.key # NoKey /\ Free(Stash(last.view.img, g)) = {}
    BY <2>4 DEF Overflow, Settle
  <2> QED
    BY <2>2, <2>3, <2>4
<1>5. r = PlaceIn(v, g, k, pair)
  BY DEF Place
<1> HIDE DEF Fine, pair, last
<1>6. Fine(r)
  BY <1>3, <1>4, <1>5 DEF PlaceIn, last
<1> QED
  BY <1>6 DEF Fine

-----------------------------------------------------------------------------
(* The table: a generation, and while it migrates the one before it *)

\* The number of a slot of a generation, in the order the cursor takes.
Number(g, p, i) == IF p = StashPage(g) THEN g.cap + i ELSE (p - g.base) * BucketSize + i

\* What the cursor has passed is empty.
SweptTo(img, g, cursor) ==
  \A p \in PagesOf(g) : \A i \in Room(g, p) :
    Cell(img, g, p)[i] # NoKey => cursor <= Number(g, p, i)

\* The layout that the metadata describes.
Formed(m) ==
  /\ m \in Metas
  /\ Laid(m.cur) /\ StashPage(m.cur) < m.nextPage
  /\ IF m.old = NoGen THEN m.cursor = 0 /\ m.limit = 0
     ELSE /\ Laid(m.old) /\ StashPage(m.old) < m.cur.base
          /\ m.limit = m.old.cap + StashCapacity /\ m.cursor <= m.limit

\* The rows of the two generations, as the metadata counts them.
Counts(img, m) ==
  /\ IsFiniteSet(Inside(img, m.cur)) /\ Cardinality(Inside(img, m.cur)) = m.cur.rows
  /\ IsFiniteSet(Inside(img, m.old)) /\ Cardinality(Inside(img, m.old)) = m.old.rows
  /\ Inside(img, m.cur) \cap Inside(img, m.old) = {}

Kept(img, m) == Inside(img, m.cur) \cup Inside(img, m.old)

\* What every placement and every migrated slot keeps.
TableOK(img, m) ==
  /\ img \in [Page -> Pages]
  /\ Formed(m)
  /\ Sound(img, m.cur) /\ Sound(img, m.old)
  /\ Counts(img, m)
  /\ SweptTo(img, m.old, m.cursor)

\* The pages that no generation has used.
Unused(img, m) == \A p \in Page : m.nextPage <= p => img[p] = Blank

\* lookup() finds what is in the table, and nothing else.
LEMMA HoldsIsInside ==
  ASSUME NEW img, NEW g, g = NoGen \/ Laid(g), Sound(img, g), NEW k \in Key
  PROVE  Holds(img, g, k) <=> k \in Inside(img, g)
<1>1. CASE g = NoGen
  BY <1>1 DEF Holds, Inside, PagesOf
<1>2. CASE Laid(g)
  <2>0. g # NoGen /\ StashPage(g) \in PagesOf(g)
    BY <1>2, Layout
  <2>1. /\ Buckets(g, k)[1] \in PagesOf(g) \ {StashPage(g)}
        /\ Buckets(g, k)[2] \in PagesOf(g) \ {StashPage(g)}
    BY <1>2, BucketPages
  <2>2. ASSUME k \in Inside(img, g)
        PROVE  Holds(img, g, k)
    <3>1. PICK p \in PagesOf(g) : \E i \in Room(g, p) : Cell(img, g, p)[i] = k
      BY <2>2 DEF Inside
    <3>2. p \in Home(g, k)
      BY <3>1, NoKeyAssumption DEF Sound
    <3> QED
      BY <2>0, <2>1, <3>1, <3>2 DEF Holds, Home, Cell, Room
  <2>3. ASSUME Holds(img, g, k)
        PROVE  k \in Inside(img, g)
    <3>1. CASE \E p \in {Buckets(g, k)[1], Buckets(g, k)[2]}, i \in 0 .. BucketSize-1 :
                 Bucket(img, p)[i] = k
      BY <2>1, <3>1 DEF Inside, Cell, Room
    <3>2. CASE \E i \in 0 .. StashCapacity-1 : Stash(img, g)[i] = k
      BY <2>0, <3>2 DEF Inside, Cell, Room
    <3> QED
      BY <2>3, <3>1, <3>2 DEF Holds
  <2> QED
    BY <2>2, <2>3
<1> QED
  BY <1>1, <1>2
\* The two generations have no page in common.
LEMMA GenerationsApart ==
  ASSUME NEW m, Formed(m)
  PROVE  /\ PagesOf(m.cur) \cap PagesOf(m.old) = {}
         /\ \A p \in PagesOf(m.cur) \cup PagesOf(m.old) : p \in Page /\ p < m.nextPage
<1>1. /\ PagesOf(m.cur) = m.cur.base .. StashPage(m.cur) /\ PagesOf(m.cur) \subseteq Page
      /\ StashPage(m.cur) \in Nat /\ m.cur.base \in Nat /\ m.nextPage \in Nat
      /\ m.cur.base <= StashPage(m.cur)
  BY Layout DEF Formed, Laid, Metas
<1>2. CASE m.old = NoGen
  BY <1>1, <1>2 DEF Formed, PagesOf
<1>3. CASE m.old # NoGen
  <2>1. /\ PagesOf(m.old) = m.old.base .. StashPage(m.old) /\ PagesOf(m.old) \subseteq Page
        /\ StashPage(m.old) \in Nat /\ m.old.base \in Nat
    BY <1>3, Layout DEF Formed, Laid
  <2> QED
    BY <1>1, <1>3, <2>1 DEF Formed
<1> QED
  BY <1>2, <1>3

\* Everything about a generation but its count is a matter of where it lies.
LEMMA SamePlace ==
  ASSUME NEW g, NEW h, Laid(g), Laid(h), h.base = g.base, h.cap = g.cap, NEW img
  PROVE  /\ PagesOf(h) = PagesOf(g) /\ StashPage(h) = StashPage(g)
         /\ Inside(img, h) = Inside(img, g)
         /\ Sound(img, g) => Sound(img, h)
         /\ \A n \in Nat : SweptTo(img, g, n) => SweptTo(img, h, n)
<1>1. StashPage(h) = StashPage(g) /\ PagesOf(h) = PagesOf(g)
  BY Layout DEF StashPage
<1>2. \A p : Room(h, p) = Room(g, p) /\ Cell(img, h, p) = Cell(img, g, p)
  BY <1>1 DEF Room, Cell, Stash
<1>3. \A k : Home(h, k) = Home(g, k)
  BY <1>1 DEF Home, Buckets
<1>4. \A p, i : Number(h, p, i) = Number(g, p, i)
  BY <1>1 DEF Number
<1>5. Inside(img, h) = Inside(img, g)
  BY <1>1, <1>2 DEF Inside
<1>6. Sound(img, g) => Sound(img, h)
  BY <1>1, <1>2, <1>3 DEF Sound
<1>7. ASSUME NEW n \in Nat, SweptTo(img, g, n) PROVE SweptTo(img, h, n)
  BY <1>1, <1>2, <1>4, <1>7 DEF SweptTo
<1> QED
  BY <1>1, <1>5, <1>6, <1>7

\* The cursor is at one slot of the old generation.
LEMMA CursorCell ==
  ASSUME NEW m, Formed(m), m.old # NoGen, m.cursor < m.limit, NEW img
  PROVE  /\ CursorPage(m) \in PagesOf(m.old)
         /\ CursorSlot(m) \in Room(m.old, CursorPage(m))
         /\ CursorKeys(img, m) = Cell(img, m.old, CursorPage(m))
         /\ \A p \in PagesOf(m.old) : \A i \in Room(m.old, p) :
              /\ Number(m.old, p, i) \in Nat
              /\ Number(m.old, p, i) < m.limit
              /\ Number(m.old, p, i) = m.cursor => p = CursorPage(m) /\ i = CursorSlot(m)
<1> DEFINE g == m.old
           b == BucketSize
           n == m.cursor
           count == g.cap \div b
<1>1. /\ Laid(g) /\ b \in Nat \ {0} /\ n \in Nat /\ g.cap \in Nat /\ g.cap % b = 0
      /\ m.limit = g.cap + StashCapacity /\ StashCapacity \in Nat
  BY BoundsAssumption DEF Formed, Metas, Laid, Gens
<1>2. /\ g.base \in Nat /\ count \in Nat /\ StashPage(g) = g.base + count
      /\ PagesOf(g) = g.base .. (g.base + count)
  BY <1>1, Layout
<1>3. /\ g.cap = count * b
      /\ \A x \in Nat : x < g.cap => x \div b < count
      /\ \A x \in Nat, i \in 0 .. b-1 : x < count => x * b + i < g.cap
  BY <1>1, WholeBuckets
<1>4. n \div b \in Nat /\ n % b \in 0 .. b-1 /\ n = (n \div b) * b + (n % b)
  BY <1>1, Division
<1> HIDE DEF count, b
<1>5. ASSUME NEW p \in PagesOf(g), p # StashPage(g), NEW i \in 0 .. b-1
      PROVE  /\ p - g.base \in Nat /\ p - g.base < count
             /\ Number(g, p, i) = (p - g.base) * b + i /\ Number(g, p, i) \in Nat
             /\ Number(g, p, i) < g.cap
  <2>1. p - g.base \in Nat /\ p - g.base < count
    BY <1>2, <1>5
  <2>2. Number(g, p, i) = (p - g.base) * b + i
    BY <1>5 DEF Number, b
  <2>3. (p - g.base) * b + i < g.cap
    BY <1>3, <2>1
  <2>4. (p - g.base) * b + i \in Nat
    BY <1>1, <2>1
  <2> QED
    BY <2>1, <2>2, <2>3, <2>4
<1>6. ASSUME NEW i \in 0 .. StashCapacity-1
      PROVE  Number(g, StashPage(g), i) = g.cap + i
  BY DEF Number
<1>7. CASE n < g.cap
  <2>1. /\ CursorPage(m) = g.base + n \div b /\ CursorSlot(m) = n % b
        /\ CursorKeys(img, m) = Bucket(img, CursorPage(m))
    BY <1>7 DEF CursorPage, CursorSlot, CursorKeys, b
  <2>2. n \div b < count
    BY <1>1, <1>3, <1>7
  <2>3. CursorPage(m) \in PagesOf(g) /\ CursorPage(m) # StashPage(g) /\ CursorPage(m) - g.base = n \div b
    BY <1>2, <1>4, <2>1, <2>2
  <2>4. CursorSlot(m) \in Room(g, CursorPage(m)) /\ CursorKeys(img, m) = Cell(img, g, CursorPage(m))
    BY <1>4, <2>1, <2>3 DEF Room, Cell, b
  <2>5. ASSUME NEW p \in PagesOf(g), NEW i \in Room(g, p)
        PROVE  /\ Number(g, p, i) \in Nat /\ Number(g, p, i) < m.limit
               /\ Number(g, p, i) = n => p = CursorPage(m) /\ i = CursorSlot(m)
    <3>1. CASE p = StashPage(g)
      <4>1. i \in 0 .. StashCapacity-1 /\ Number(g, p, i) = g.cap + i
        BY <1>6, <3>1 DEF Room
      <4> QED
        BY <1>1, <1>7, <4>1
    <3>2. CASE p # StashPage(g)
      <4>1. i \in 0 .. b-1
        BY <3>2 DEF Room, b
      <4>2. /\ p - g.base \in Nat /\ Number(g, p, i) = (p - g.base) * b + i
            /\ Number(g, p, i) \in Nat /\ Number(g, p, i) < g.cap
        BY <1>5, <3>2, <4>1
      <4>3. ASSUME Number(g, p, i) = n
            PROVE  p = CursorPage(m) /\ i = CursorSlot(m)
        <5> DEFINE x == p - g.base
                   y == n \div b
                   j == n % b
        <5>1. x \in Nat /\ y \in Nat /\ j \in 0 .. b-1 /\ x * b + i = y * b + j
          BY <1>4, <4>2, <4>3
        <5> HIDE DEF x, y, j
        <5>2. x = y /\ i = j
          BY <1>1, <4>1, <5>1, SlotNumbers
        <5>3. x = y /\ i = CursorSlot(m)
          BY <2>1, <5>2 DEF j
        <5>4. p - g.base = CursorPage(m) - g.base
          BY <2>3, <5>3 DEF x, y
        <5> QED
          BY <1>2, <2>3, <5>3, <5>4
      <4> QED
        BY <1>1, <4>2, <4>3
    <3> QED
      BY <3>1, <3>2
  <2> QED
    BY <2>3, <2>4, <2>5
<1>8. CASE g.cap <= n
  <2>1. /\ CursorPage(m) = StashPage(g) /\ CursorSlot(m) = n - g.cap
        /\ CursorKeys(img, m) = Stash(img, g)
    BY <1>1, <1>8 DEF CursorPage, CursorSlot, CursorKeys
  <2>2. CursorPage(m) \in PagesOf(g) /\ CursorSlot(m) \in Room(g, CursorPage(m))
        /\ CursorKeys(img, m) = Cell(img, g, CursorPage(m))
    <3>1. StashPage(g) \in PagesOf(g)
      BY <1>2
    <3>2. n - g.cap \in 0 .. StashCapacity-1
      BY <1>1, <1>8
    <3>3. Room(g, StashPage(g)) = 0 .. StashCapacity-1 /\ Cell(img, g, StashPage(g)) = Stash(img, g)
      BY DEF Room, Cell
    <3> QED
      BY <2>1, <3>1, <3>2, <3>3
  <2>3. ASSUME NEW p \in PagesOf(g), NEW i \in Room(g, p)
        PROVE  /\ Number(g, p, i) \in Nat /\ Number(g, p, i) < m.limit
               /\ Number(g, p, i) = n => p = CursorPage(m) /\ i = CursorSlot(m)
    <3>1. CASE p = StashPage(g)
      <4>1. i \in 0 .. StashCapacity-1 /\ Number(g, p, i) = g.cap + i
        BY <1>6, <3>1 DEF Room
      <4> QED
        BY <1>1, <2>1, <3>1, <4>1
    <3>2. CASE p # StashPage(g)
      <4>1. i \in 0 .. b-1
        BY <3>2 DEF Room, b
      <4> QED
        BY <1>1, <1>5, <1>8, <3>2, <4>1
    <3> QED
      BY <3>1, <3>2
  <2> QED
    BY <2>2, <2>3
<1> QED
  BY <1>1, <1>7, <1>8
-----------------------------------------------------------------------------
(* Migration *)

\* w is v with pages of the two generations rewritten, all of them listed.
Spans(v, w, m) ==
  LET pages == PagesOf(m.cur) \cup PagesOf(m.old)
  IN  /\ w \in Views
      /\ v.written \subseteq w.written /\ w.written \subseteq v.written \cup pages
      /\ \A p \in Page : w.img[p] # v.img[p] => p \in w.written \cap pages

\* Metadata that differs in the cursor and in how the rows are shared.
SameTable(m, n) ==
  /\ n.cur.base = m.cur.base /\ n.cur.cap = m.cur.cap
  /\ n.old.base = m.old.base /\ n.old.cap = m.old.cap
  /\ n.limit = m.limit /\ n.nextPage = m.nextPage /\ n.live = m.live /\ n.overflow = m.overflow
  /\ n.cur.rows + n.old.rows = m.cur.rows + m.old.rows

\* A placement in the current generation does not touch the old one.
LEMMA OldStays ==
  ASSUME NEW m, Formed(m), NEW v \in Views, NEW w, Rewrites(v, w, m.cur),
         Sound(v.img, m.old)
  PROVE  /\ Sound(w.img, m.old) /\ Inside(w.img, m.old) = Inside(v.img, m.old)
         /\ \A n \in Nat : SweptTo(v.img, m.old, n) => SweptTo(w.img, m.old, n)
         /\ Spans(v, w, m)
<1>1. \A p \in PagesOf(m.old) : w.img[p] = v.img[p]
  BY GenerationsApart DEF Rewrites
<1>2. m.old = NoGen \/ Laid(m.old)
  BY DEF Formed
<1>3. /\ \A p \in PagesOf(m.old) : Cell(w.img, m.old, p) = Cell(v.img, m.old, p)
      /\ Inside(w.img, m.old) = Inside(v.img, m.old)
      /\ Sound(w.img, m.old)
  BY <1>1, <1>2, Elsewhere
<1>4. \A n \in Nat : SweptTo(v.img, m.old, n) => SweptTo(w.img, m.old, n)
  BY <1>3 DEF SweptTo
<1>5. Spans(v, w, m)
  BY DEF Rewrites, Spans
<1> QED
  BY <1>3, <1>4, <1>5

\* The row at the cursor taken out.
LEMMA TakeRow ==
  ASSUME NEW v \in Views, NEW m, TableOK(v.img, m), m.old # NoGen, m.cursor < m.limit,
         NEW keys, keys = CursorKeys(v.img, m), NEW i, i = CursorSlot(m), keys[i] # NoKey,
         NEW u, u = Put(v, CursorPage(m), [keys EXCEPT ![i] = NoKey])
  PROVE  /\ keys[i] \in Inside(v.img, m.old) /\ keys[i] \in Key
         /\ u \in Views /\ Rewrites(v, u, m.old)
         /\ Sound(u.img, m.old) /\ Inside(u.img, m.old) = Inside(v.img, m.old) \ {keys[i]}
         /\ Sound(u.img, m.cur) /\ Inside(u.img, m.cur) = Inside(v.img, m.cur)
         /\ SweptTo(u.img, m.old, m.cursor + 1)
<1> DEFINE p == CursorPage(m)
           g == m.old
<1>1. /\ Formed(m) /\ Laid(g) /\ Laid(m.cur) /\ Sound(v.img, g) /\ Sound(v.img, m.cur)
      /\ v.img \in [Page -> Pages] /\ m.cursor \in Nat /\ SweptTo(v.img, g, m.cursor)
  BY DEF TableOK, Formed, Metas
<1>2. /\ p \in PagesOf(g) /\ i \in Room(g, p) /\ keys = Cell(v.img, g, p)
      /\ \A q \in PagesOf(g) : \A j \in Room(g, q) :
           Number(g, q, j) \in Nat /\ (Number(g, q, j) = m.cursor => q = p /\ j = i)
  BY <1>1, CursorCell
<1>3. keys[i] \in Key /\ keys[i] \in Inside(v.img, g)
  BY <1>1, <1>2 DEF Sound, Inside, Row
<1> DEFINE new == Replaced(v.img, g, p, i, NoKey)
<1> HIDE DEF p, g
<1>4. NoKey \in Row /\ (NoKey # NoKey => NoKey \notin Inside(v.img, g) /\ p \in Home(g, NoKey))
  BY DEF Row
<1>5. /\ new \in [Page -> Pages] /\ Sound(new, g)
      /\ Inside(new, g) = Swapped(Inside(v.img, g), Cell(v.img, g, p)[i], NoKey)
      /\ \A q \in PagesOf(g) :
           Cell(new, g, q) = IF q = p THEN [Cell(v.img, g, p) EXCEPT ![i] = NoKey] ELSE Cell(v.img, g, q)
  <2>1. p \in PagesOf(g) /\ i \in Room(g, p)
    BY <1>2
  <2> QED
    BY <1>1, <2>1, <1>4, ReplaceRow
<1> DEFINE row == [keys EXCEPT ![i] = NoKey]
<1>6. new = [v.img EXCEPT ![p] = row]
  BY <1>2 DEF Replaced
<1>7. u = Put(v, p, row)
  BY DEF p
<1> HIDE DEF new, row
<1>8. Rewrites(v, u, g) /\ u.img = new /\ u \in Views
  <2>1. [v.img EXCEPT ![p] = row] \in [Page -> Pages] /\ Laid(g) /\ p \in PagesOf(g)
    BY <1>1, <1>2, <1>5, <1>6
  <2>2. Rewrites(v, Put(v, p, row), g) /\ Put(v, p, row).img = [v.img EXCEPT ![p] = row]
    BY <2>1, PutRewrites
  <2> QED
    BY <1>6, <1>7, <2>2 DEF Rewrites
<1>9. Inside(new, g) = Inside(v.img, g) \ {keys[i]}
  BY <1>2, <1>5 DEF Swapped
<1>10. \A q \in PagesOf(m.cur) : u.img[q] = v.img[q]
  BY <1>1, <1>8, GenerationsApart DEF Rewrites, g
<1>11. Sound(u.img, m.cur) /\ Inside(u.img, m.cur) = Inside(v.img, m.cur)
  BY <1>1, <1>10, Elsewhere
<1>12. SweptTo(u.img, g, m.cursor + 1)
  <2> SUFFICES ASSUME NEW q \in PagesOf(g), NEW j \in Room(g, q), Cell(u.img, g, q)[j] # NoKey
               PROVE  m.cursor + 1 <= Number(g, q, j)
    BY DEF SweptTo
  <2>1. Cell(v.img, g, p) \in [Room(g, p) -> Row]
    BY <1>1, <1>2 DEF Sound
  <2>2. ~(q = p /\ j = i) /\ Cell(v.img, g, q)[j] # NoKey
    BY <1>2, <1>5, <1>8, <2>1
  <2>3. m.cursor <= Number(g, q, j) /\ Number(g, q, j) # m.cursor /\ Number(g, q, j) \in Nat
    BY <1>1, <1>2, <2>2 DEF SweptTo
  <2> QED
    BY <1>1, <2>3
<1> QED
  BY <1>3, <1>5, <1>8, <1>9, <1>11, <1>12 DEF g

\* A slot that is empty is passed.
LEMMA PassSlot ==
  ASSUME NEW img, NEW m, TableOK(img, m), m.old # NoGen, m.cursor < m.limit,
         CursorKeys(img, m)[CursorSlot(m)] = NoKey
  PROVE  SweptTo(img, m.old, m.cursor + 1)
<1>1. Formed(m) /\ m.cursor \in Nat /\ SweptTo(img, m.old, m.cursor)
  BY DEF TableOK, Formed, Metas
<1>2. /\ CursorKeys(img, m) = Cell(img, m.old, CursorPage(m))
      /\ \A q \in PagesOf(m.old) : \A j \in Room(m.old, q) :
           /\ Number(m.old, q, j) \in Nat
           /\ Number(m.old, q, j) = m.cursor => q = CursorPage(m) /\ j = CursorSlot(m)
  BY <1>1, CursorCell
<1> SUFFICES ASSUME NEW q \in PagesOf(m.old), NEW j \in Room(m.old, q), Cell(img, m.old, q)[j] # NoKey
             PROVE  m.cursor + 1 <= Number(m.old, q, j)
  BY DEF SweptTo
<1>3. m.cursor <= Number(m.old, q, j) /\ Number(m.old, q, j) # m.cursor /\ Number(m.old, q, j) \in Nat
  BY <1>1, <1>2 DEF SweptTo
<1> QED
  BY <1>1, <1>3
\* A generation whose rows are counted anew is laid out as before.
LEMMA Recounted ==
  ASSUME NEW g, Laid(g), NEW r \in Nat
  PROVE  LET h == [g EXCEPT !.rows = r]
         IN  /\ Laid(h) /\ h.base = g.base /\ h.cap = g.cap /\ h.rows = r
             /\ StashPage(h) = StashPage(g) /\ PagesOf(h) = PagesOf(g) /\ h # NoGen
<1> DEFINE h == [g EXCEPT !.rows = r]
<1>1. h \in Gens /\ h.base = g.base /\ h.cap = g.cap /\ h.rows = r
  BY DEF Laid, Gens
<1> HIDE DEF h
<1>2. StashPage(h) = StashPage(g)
  BY <1>1 DEF StashPage
<1>3. g # NoGen /\ g.cap # 0
  <2>1. 0 \div BucketSize = 0 /\ g.cap \div BucketSize # 0
    BY BoundsAssumption DEF Laid, Gens
  <2> QED
    BY <2>1, Layout
<1>4. h # NoGen
  BY <1>1, <1>3 DEF NoGen
<1>5. PagesOf(h) = PagesOf(g)
  BY <1>1, <1>2, <1>3, <1>4 DEF PagesOf
<1>6. Laid(h)
  BY <1>1, <1>5 DEF Laid
<1> QED
  BY <1>1, <1>2, <1>4, <1>5, <1>6 DEF h

With(S, x)    == S \cup {x}
Without(S, x) == S \ {x}
OneMoved(m)   == [m EXCEPT !.cursor = @ + 1, !.old.rows = @ - 1, !.cur.rows = @ + 1]

\* One row has gone from the old generation to the current one.
LEMMA RowMoved ==
  ASSUME NEW img, NEW m, TableOK(img, m), m.old # NoGen, m.cursor < m.limit,
         NEW x \in Inside(img, m.old), NEW new \in [Page -> Pages],
         Sound(new, m.cur), Inside(new, m.cur) = With(Inside(img, m.cur), x),
         Sound(new, m.old), Inside(new, m.old) = Without(Inside(img, m.old), x),
         SweptTo(new, m.old, m.cursor + 1), NEW n, n = OneMoved(m)
  PROVE  /\ TableOK(new, n) /\ n.old # NoGen /\ SameTable(m, n) /\ n.cursor = m.cursor + 1
         /\ Kept(new, n) = Kept(img, m)
         /\ PagesOf(n.cur) = PagesOf(m.cur) /\ PagesOf(n.old) = PagesOf(m.old)
<1>1. /\ m \in Metas /\ Laid(m.cur) /\ Laid(m.old) /\ Formed(m)
      /\ m.cursor \in Nat /\ m.limit \in Nat
      /\ m.cur.rows \in Nat /\ m.old.rows \in Nat
  BY DEF TableOK, Formed, Metas, Gens
<1>2. /\ IsFiniteSet(Inside(img, m.cur)) /\ Cardinality(Inside(img, m.cur)) = m.cur.rows
      /\ IsFiniteSet(Inside(img, m.old)) /\ Cardinality(Inside(img, m.old)) = m.old.rows
      /\ Inside(img, m.cur) \cap Inside(img, m.old) = {}
  BY DEF TableOK, Counts
<1>3. /\ IsFiniteSet(Inside(new, m.cur)) /\ Cardinality(Inside(new, m.cur)) = m.cur.rows + 1
      /\ IsFiniteSet(Inside(new, m.old)) /\ Cardinality(Inside(new, m.old)) = m.old.rows - 1
      /\ Inside(new, m.cur) \cap Inside(new, m.old) = {}
  BY <1>2, FS_AddElement, FS_RemoveElement DEF With, Without
<1>4. m.old.rows - 1 \in Nat
  BY <1>3, FS_CardinalityType
<1> DEFINE c == [m.cur EXCEPT !.rows = @ + 1]
           o == [m.old EXCEPT !.rows = @ - 1]
<1>5. /\ n.cur = c /\ n.old = o /\ n.cursor = m.cursor + 1 /\ n.limit = m.limit
      /\ n.nextPage = m.nextPage /\ n.live = m.live /\ n.overflow = m.overflow
      /\ n = [cur |-> n.cur, old |-> n.old, cursor |-> n.cursor, limit |-> n.limit,
              nextPage |-> n.nextPage, live |-> n.live, overflow |-> n.overflow]
  BY <1>1 DEF Metas, OneMoved
<1>6. /\ Laid(c) /\ c.base = m.cur.base /\ c.cap = m.cur.cap /\ c.rows = m.cur.rows + 1
      /\ StashPage(c) = StashPage(m.cur) /\ PagesOf(c) = PagesOf(m.cur)
  BY <1>1, Recounted
<1>7. /\ Laid(o) /\ o.base = m.old.base /\ o.cap = m.old.cap /\ o.rows = m.old.rows - 1
      /\ StashPage(o) = StashPage(m.old) /\ PagesOf(o) = PagesOf(m.old) /\ o # NoGen
  BY <1>1, <1>4, Recounted
<1> HIDE DEF c, o
<1>8. Sound(new, c) /\ Inside(new, c) = Inside(new, m.cur)
  BY <1>1, <1>6, SamePlace
<1>9. Sound(new, o) /\ Inside(new, o) = Inside(new, m.old) /\ SweptTo(new, o, m.cursor + 1)
  BY <1>1, <1>7, SamePlace
<1>10. Formed(n)
  <2>1. n \in Metas
    <3>1. c \in Gens /\ o \in Gens
      BY <1>6, <1>7 DEF Laid
    <3> QED
      BY <1>1, <1>5, <3>1 DEF Metas
  <2> QED
    BY <1>1, <1>5, <1>6, <1>7, <2>1 DEF Formed
<1>11. Counts(new, n)
  BY <1>3, <1>5, <1>6, <1>7, <1>8, <1>9 DEF Counts
<1>12. TableOK(new, n)
  BY <1>5, <1>8, <1>9, <1>10, <1>11 DEF TableOK
<1>13. SameTable(m, n)
  BY <1>1, <1>5, <1>6, <1>7 DEF SameTable
<1>14. Kept(new, n) = Kept(img, m)
  BY <1>2, <1>5, <1>8, <1>9 DEF Kept, With, Without
<1> QED
  BY <1>5, <1>6, <1>7, <1>12, <1>13, <1>14

\* A state of the scan that began with the view v and the metadata m.
Scanned(s, v, m) ==
  /\ s = [ok |-> s.ok, view |-> s.view, meta |-> s.meta] /\ s.ok \in BOOLEAN
  /\ s.ok => /\ s.view \in Views
             /\ TableOK(s.view.img, s.meta) /\ s.meta.old # NoGen
             /\ Spans(v, s.view, m) /\ SameTable(m, s.meta)
             /\ PagesOf(s.meta.cur) = PagesOf(m.cur) /\ PagesOf(s.meta.old) = PagesOf(m.old)
             /\ Kept(s.view.img, s.meta) = Kept(v.img, m)

LEMMA SpansOn ==
  ASSUME NEW m, NEW n, PagesOf(n.cur) = PagesOf(m.cur), PagesOf(n.old) = PagesOf(m.old),
         NEW u \in Views, NEW v, NEW w, Spans(u, v, m), Spans(v, w, n)
  PROVE  Spans(u, w, m)
BY DEF Spans, Views

LEMMA SameTableOn ==
  ASSUME NEW l, NEW m, NEW n, SameTable(l, m), SameTable(m, n)
  PROVE  SameTable(l, n)
BY DEF SameTable

\* One source slot.
LEMMA MoveSlotKeeps ==
  ASSUME NEW v \in Views, NEW m, NEW s, Scanned(s, v, m)
  PROVE  /\ Scanned(MoveSlot(s), v, m)
         /\ MoveSlot(s).ok => /\ s.ok
                              /\ MoveSlot(s).meta.cursor =
                                   IF s.meta.cursor < s.meta.limit THEN s.meta.cursor + 1
                                                                   ELSE s.meta.cursor
<1> DEFINE img  == s.view.img
           n    == s.meta
           keys == CursorKeys(img, n)
           i    == CursorSlot(n)
           x    == keys[i]
<1>1. CASE ~s.ok \/ n.cursor >= n.limit
  <2>1. MoveSlot(s) = s
    BY <1>1 DEF MoveSlot
  <2>2. s.ok => n.cursor \in Nat /\ n.limit \in Nat
    BY DEF Scanned, TableOK, Formed, Metas
  <2> QED
    BY <1>1, <2>1, <2>2
<1>2. CASE s.ok /\ ~(n.cursor >= n.limit)
  <2>1. /\ s.view \in Views /\ TableOK(img, n) /\ n.old # NoGen /\ Spans(v, s.view, m)
        /\ SameTable(m, n) /\ PagesOf(n.cur) = PagesOf(m.cur) /\ PagesOf(n.old) = PagesOf(m.old)
        /\ Kept(img, n) = Kept(v.img, m)
    BY <1>2 DEF Scanned
  <2>2. /\ Formed(n) /\ n \in Metas /\ n.cursor \in Nat /\ n.limit \in Nat /\ n.cursor < n.limit
        /\ Laid(n.cur) /\ Sound(img, n.cur) /\ Sound(img, n.old)
        /\ Inside(img, n.cur) \cap Inside(img, n.old) = {}
    BY <1>2, <2>1 DEF TableOK, Formed, Metas, Counts
  <2>3. MoveSlot(s) = MoveKey(s, keys, i)
    BY <1>2, <2>2 DEF MoveSlot
  <2>4. CASE x = NoKey
    <3> DEFINE n1 == [n EXCEPT !.cursor = @ + 1]
               t  == [s EXCEPT !.meta.cursor = @ + 1]
    <3>1. MoveSlot(s) = t
      BY <2>3, <2>4 DEF MoveKey
    <3>2. t.ok /\ t.view = s.view /\ t.meta = n1 /\ t = [ok |-> t.ok, view |-> t.view, meta |-> t.meta]
      BY <1>2 DEF Scanned
    <3>3. /\ n1.cursor = n.cursor + 1 /\ n1 \in Metas /\ n1.cur = n.cur /\ n1.old = n.old
          /\ n1.limit = n.limit /\ n1.nextPage = n.nextPage /\ n1.live = n.live
          /\ n1.overflow = n.overflow
      BY <2>2 DEF Metas
    <3>4. SweptTo(img, n.old, n.cursor + 1)
      BY <2>1, <2>2, <2>4, PassSlot
    <3> HIDE DEF n1, t, n, img
    <3>5. TableOK(img, n1)
      BY <2>1, <2>2, <3>3, <3>4 DEF TableOK, Formed, Counts
    <3>6. SameTable(m, n1) /\ Kept(img, n1) = Kept(img, n)
      BY <2>1, <3>3 DEF SameTable, Kept
    <3>7. t.view.img = img
      BY <3>2 DEF img
    <3> QED
      BY <1>2, <2>1, <2>2, <3>1, <3>2, <3>3, <3>5, <3>6, <3>7 DEF Scanned, n
  <2>5. CASE x # NoKey
    <3> DEFINE u   == Put(s.view, CursorPage(n), [keys EXCEPT ![i] = NoKey])
               put == Place(u, n.cur, x)
               n1  == [n EXCEPT !.cursor = @ + 1, !.old.rows = @ - 1, !.cur.rows = @ + 1]
    <3>1. MoveSlot(s) = Moved(s, put)
      BY <2>3, <2>5 DEF MoveKey
    <3>2. /\ x \in Inside(img, n.old) /\ x \in Key
          /\ u \in Views /\ Rewrites(s.view, u, n.old)
          /\ Sound(u.img, n.old) /\ Inside(u.img, n.old) = Inside(img, n.old) \ {x}
          /\ Sound(u.img, n.cur) /\ Inside(u.img, n.cur) = Inside(img, n.cur)
          /\ SweptTo(u.img, n.old, n.cursor + 1)
      BY <2>1, <2>2, <2>5, TakeRow
    <3> HIDE DEF u, x
    <3>3. x \notin Inside(u.img, n.cur)
      BY <2>2, <3>2
    <3>4. put.ok \in BOOLEAN /\ (put.ok => Grown(u, put.view, n.cur, x))
      BY <2>2, <3>2, <3>3, PlaceGrows
    <3> HIDE DEF put
    <3>5. CASE ~put.ok
      <4>1. MoveSlot(s) = [s EXCEPT !.ok = FALSE]
        BY <3>1, <3>5 DEF Moved
      <4> QED
        BY <4>1 DEF Scanned
    <3>6. CASE put.ok
      <4> DEFINE w == put.view
      <4>1. Rewrites(u, w, n.cur) /\ Sound(w.img, n.cur) /\ Inside(w.img, n.cur) = Inside(img, n.cur) \cup {x}
        BY <3>2, <3>4, <3>6 DEF Grown
      <4>2. /\ Sound(w.img, n.old) /\ Inside(w.img, n.old) = Inside(img, n.old) \ {x}
            /\ SweptTo(w.img, n.old, n.cursor + 1) /\ Spans(u, w, n) /\ w \in Views
        BY <2>2, <3>2, <4>1, OldStays DEF Rewrites
      <4>3. w.img \in [Page -> Pages]
        BY <4>2 DEF Views
      <4>4. MoveSlot(s) = [ok |-> TRUE, view |-> w, meta |-> n1]
        BY <3>1, <3>6 DEF Moved
      <4> HIDE DEF w
      <4>5. /\ TableOK(w.img, n1) /\ n1.old # NoGen /\ SameTable(n, n1) /\ n1.cursor = n.cursor + 1
            /\ Kept(w.img, n1) = Kept(img, n)
            /\ PagesOf(n1.cur) = PagesOf(n.cur) /\ PagesOf(n1.old) = PagesOf(n.old)
        <5>1. n1 = OneMoved(n)
          BY DEF OneMoved
        <5>2. /\ TableOK(img, n) /\ n.old # NoGen /\ n.cursor < n.limit
              /\ x \in Inside(img, n.old) /\ w.img \in [Page -> Pages]
              /\ Sound(w.img, n.cur) /\ Inside(w.img, n.cur) = With(Inside(img, n.cur), x)
              /\ Sound(w.img, n.old) /\ Inside(w.img, n.old) = Without(Inside(img, n.old), x)
              /\ SweptTo(w.img, n.old, n.cursor + 1)
          BY <2>1, <2>2, <3>2, <4>1, <4>2, <4>3 DEF With, Without
        <5> HIDE DEF img, n, n1
        <5>3. TableOK(w.img, n1) /\ n1.old # NoGen /\ SameTable(n, n1) /\ n1.cursor = n.cursor + 1
          BY ONLY <5>1, <5>2, RowMoved
        <5>4. Kept(w.img, n1) = Kept(img, n)
          BY ONLY <5>1, <5>2, RowMoved
        <5>5. PagesOf(n1.cur) = PagesOf(n.cur)
          BY ONLY <5>1, <5>2, RowMoved
        <5>6. PagesOf(n1.old) = PagesOf(n.old)
          BY ONLY <5>1, <5>2, RowMoved
        <5> QED
          BY <5>3, <5>4, <5>5, <5>6
      <4>6. Spans(s.view, w, n)
        BY <3>2, <4>2 DEF Spans, Rewrites, Views
      <4> HIDE DEF n1
      <4>7. Spans(v, w, m) /\ SameTable(m, n1)
        BY <2>1, <4>5, <4>6, SpansOn, SameTableOn
      <4> QED
        BY <1>2, <2>1, <2>2, <4>2, <4>4, <4>5, <4>7 DEF Scanned
    <3> QED
      BY <3>4, <3>5, <3>6
  <2> QED
    BY <2>4, <2>5
<1> QED
  BY <1>1, <1>2
\* The migration loop as a run: it starts where it is called, and every step
\* takes one source slot.
LEMMA MigrateRuns ==
  ASSUME NEW v, NEW m
  PROVE  LET first == [ok |-> TRUE, view |-> v, meta |-> m]
         IN  \E scan : /\ \A n \in 0 .. MigrationBudget :
                            scan[n] = IF n = 0 THEN first ELSE MoveSlot(scan[n-1])
                       /\ Migrate(v, m) = scan[IF m.old = NoGen THEN 0 ELSE MigrationBudget]
<1> DEFINE first == [ok |-> TRUE, view |-> v, meta |-> m]
           Run(f, l) == f = [n \in 0 .. l |-> IF n = 0 THEN first ELSE MoveSlot(f[n-1])]
           scan == CHOOSE f : Run(f, MigrationBudget)
           r == Migrate(v, m)
<1>1. r = scan[IF m.old = NoGen THEN 0 ELSE MigrationBudget]
  BY DEF Migrate
<1> HIDE DEF r
<1>2. MigrationBudget \in Nat
  BY BoundsAssumption
<1>3. \E f : Run(f, MigrationBudget)
  <2> DEFINE S == {l \in Nat : \E f : Run(f, l)}
  <2> HIDE DEF first
  <2>1. 0 \in S
    <3>1. Run([n \in 0 .. 0 |-> first], 0)
      OBVIOUS
    <3> QED
      BY <3>1
  <2>2. ASSUME NEW l \in Nat, l \in S
        PROVE  l + 1 \in S
    <3>1. PICK f : Run(f, l)
      BY <2>2
    <3> DEFINE h == [n \in 0 .. l+1 |-> IF n <= l THEN f[n] ELSE MoveSlot(f[l])]
    <3>2. \A n \in 0 .. l : f[n] = IF n = 0 THEN first ELSE MoveSlot(f[n-1])
      BY <3>1
    <3>3. \A n \in 0 .. l+1 : h[n] = IF n = 0 THEN first ELSE MoveSlot(h[n-1])
      BY <3>2
    <3>4. Run(h, l+1)
      BY <3>3
    <3> HIDE DEF h, Run
    <3> QED
      BY <3>4
  <2> HIDE DEF S
  <2>3. Nat \subseteq S
    BY <2>1, <2>2, SetInduction
  <2> QED
    BY <1>2, <2>3 DEF S
<1>4. \A n \in 0 .. MigrationBudget : scan[n] = IF n = 0 THEN first ELSE MoveSlot(scan[n-1])
  <2>1. Run(scan, MigrationBudget)
    BY <1>3
  <2> HIDE DEF scan
  <2> QED
    BY <2>1
<1> HIDE DEF scan
<1> HIDE DEF first, Run
<1> QED
  BY <1>1, <1>4 DEF first, r

\* A bounded share of the migration, as far as it gets.
LEMMA MigrateKeeps ==
  ASSUME NEW v \in Views, NEW m, TableOK(v.img, m)
  PROVE  LET r == Migrate(v, m)
         IN  /\ r.ok \in BOOLEAN
             /\ m.old = NoGen => r = [ok |-> TRUE, view |-> v, meta |-> m]
             /\ m.old # NoGen => /\ Scanned(r, v, m)
                                 /\ r.ok => r.meta.cursor =
                                      IF m.cursor + MigrationBudget <= m.limit
                                      THEN m.cursor + MigrationBudget ELSE m.limit
<1> DEFINE first == [ok |-> TRUE, view |-> v, meta |-> m]
           r == Migrate(v, m)
<1>1. PICK scan :
        /\ \A n \in 0 .. MigrationBudget :
             scan[n] = IF n = 0 THEN first ELSE MoveSlot(scan[n-1])
        /\ r = scan[IF m.old = NoGen THEN 0 ELSE MigrationBudget]
  BY MigrateRuns
<1> HIDE DEF r
<1>2. MigrationBudget \in Nat
  BY BoundsAssumption
<1>4. \A n \in 0 .. MigrationBudget : scan[n] = IF n = 0 THEN first ELSE MoveSlot(scan[n-1])
  BY <1>1
<1>5. scan[0] = first
  <2> HIDE DEF first
  <2>1. 0 \in 0 .. MigrationBudget
    BY <1>2
  <2> QED
    BY <1>4, <2>1
<1>6. ASSUME m.old = NoGen
      PROVE  r = first
  BY <1>1, <1>5, <1>6
<1>7. ASSUME m.old # NoGen
      PROVE  /\ Scanned(r, v, m)
             /\ r.ok => r.meta.cursor = IF m.cursor + MigrationBudget <= m.limit
                                        THEN m.cursor + MigrationBudget ELSE m.limit
  <2>1. m.cursor \in Nat /\ m.limit \in Nat /\ m.cursor <= m.limit
    BY <1>7 DEF TableOK, Formed, Metas
  <2> DEFINE Reached(n) == IF m.cursor + n <= m.limit THEN m.cursor + n ELSE m.limit
             T == {n \in Nat : n <= MigrationBudget =>
                     Scanned(scan[n], v, m) /\ (scan[n].ok => scan[n].meta.cursor = Reached(n))}
  <2>2. 0 \in T
    <3>1. Scanned(first, v, m)
      BY <1>7 DEF Scanned, Spans, SameTable
    <3>2. first.meta.cursor = Reached(0)
      BY <2>1
    <3> HIDE DEF first
    <3> QED
      BY <1>5, <3>1, <3>2
  <2>3. ASSUME NEW n \in Nat, n \in T
        PROVE  n + 1 \in T
    <3> DEFINE s == scan[n]
               t == scan[n+1]
    <3> SUFFICES ASSUME n + 1 <= MigrationBudget
                 PROVE  Scanned(t, v, m) /\ (t.ok => t.meta.cursor = Reached(n+1))
      OBVIOUS
    <3>1. Scanned(s, v, m) /\ (s.ok => s.meta.cursor = Reached(n))
      BY <1>2, <2>3
    <3>2. t = MoveSlot(s)
      BY <1>2, <1>4
    <3> HIDE DEF s, t
    <3>3. /\ Scanned(t, v, m)
          /\ t.ok => /\ s.ok
                     /\ t.meta.cursor = IF s.meta.cursor < s.meta.limit THEN s.meta.cursor + 1
                                                                        ELSE s.meta.cursor
      BY <3>1, <3>2, MoveSlotKeeps
    <3>4. s.ok => s.meta.limit = m.limit
      BY <3>1 DEF Scanned, SameTable
    <3> QED
      BY <2>1, <3>1, <3>3, <3>4
  <2> HIDE DEF T
  <2>4. Nat \subseteq T
    BY <2>2, <2>3, SetInduction
  <2>5. Scanned(r, v, m) /\ (r.ok => r.meta.cursor = Reached(MigrationBudget))
    BY <1>1, <1>2, <1>7, <2>4 DEF T
  <2> QED
    BY <2>5
<1>8. m.old = NoGen => r = [ok |-> TRUE, view |-> v, meta |-> m]
  BY <1>6
<1>9. r.ok \in BOOLEAN
  <2>1. CASE m.old = NoGen
    <3>1. r = [ok |-> TRUE, view |-> v, meta |-> m]
      BY <1>8, <2>1
    <3>2. r.ok = TRUE
      BY <3>1
    <3> QED
      BY <3>2, Zenon
  <2>2. CASE m.old # NoGen
    <3>1. Scanned(r, v, m)
      BY <1>7, <2>2
    <3> QED
      BY <3>1 DEF Scanned
  <2> QED
    BY <2>1, <2>2
<1> HIDE DEF first
<1> QED
  BY <1>7, <1>8, <1>9 DEF r

\* The migration loop takes no page, whatever it finds.
LEMMA MigrateTakesNoPage ==
  ASSUME NEW v, NEW m, DOMAIN m = DOMAIN FirstMeta
  PROVE  Migrate(v, m).meta.nextPage = m.nextPage
<1> DEFINE first == [ok |-> TRUE, view |-> v, meta |-> m]
           Same(s) == /\ s = [ok |-> s.ok, view |-> s.view, meta |-> s.meta]
                      /\ DOMAIN s.meta = DOMAIN m /\ s.meta.nextPage = m.nextPage
<1>1. PICK scan :
        /\ \A n \in 0 .. MigrationBudget :
             scan[n] = IF n = 0 THEN first ELSE MoveSlot(scan[n-1])
        /\ Migrate(v, m) = scan[IF m.old = NoGen THEN 0 ELSE MigrationBudget]
  BY MigrateRuns
<1>2. MigrationBudget \in Nat
  BY BoundsAssumption
<1>3. {"cursor", "nextPage", "old", "cur"} \subseteq DOMAIN m
  BY DEF FirstMeta
<1>4. ASSUME NEW s, Same(s)
      PROVE  Same(MoveSlot(s))
  <2> DEFINE keys == CursorKeys(s.view.img, s.meta)
             i    == CursorSlot(s.meta)
             next == [s EXCEPT !.meta.cursor = @ + 1]
  <2>1. Same(s) /\ Same(next)
    BY <1>3, <1>4
  <2>2. ASSUME NEW put
        PROVE  Same(Moved(s, put))
    <3>1. CASE ~put.ok
      BY <1>4, <3>1 DEF Moved
    <3>2. CASE put.ok
      BY <1>3, <1>4, <3>2 DEF Moved
    <3> QED
      BY <3>1, <3>2
  <2> HIDE DEF Same, next
  <2>3. MoveSlot(s) = IF ~s.ok \/ s.meta.cursor >= s.meta.limit THEN s ELSE MoveKey(s, keys, i)
    BY DEF MoveSlot
  <2> HIDE DEF keys, i
  <2> QED
    BY <2>1, <2>2, <2>3 DEF MoveKey, next
<1>5. Same(first)
  OBVIOUS
<1> HIDE DEF first, Same
<1> DEFINE T == {n \in Nat : n <= MigrationBudget => Same(scan[n])}
<1>6. 0 \in T
  <2>1. scan[0] = first
    BY <1>1, <1>2
  <2> QED
    BY <1>5, <2>1
<1>7. ASSUME NEW n \in Nat, n \in T
      PROVE  n + 1 \in T
  <2> SUFFICES ASSUME n + 1 <= MigrationBudget PROVE Same(scan[n+1])
    OBVIOUS
  <2>1. scan[n+1] = MoveSlot(scan[n]) /\ Same(scan[n])
    BY <1>1, <1>2, <1>7
  <2> QED
    BY <1>4, <2>1
<1> HIDE DEF T
<1>8. Nat \subseteq T
  BY <1>6, <1>7, SetInduction
<1>9. Same(scan[IF m.old = NoGen THEN 0 ELSE MigrationBudget])
  BY <1>2, <1>8 DEF T
<1> QED
  BY <1>1, <1>9 DEF Same

-----------------------------------------------------------------------------
(* The start of a migration *)

LEMMA AlignedAbove ==
  ASSUME NEW p \in Nat
  PROVE  Aligned(p) \in Nat /\ p <= Aligned(p)
<1> DEFINE a == Alignment
           x == p + a - 1
<1>1. a \in Nat \ {0} /\ x \in Nat
  BY AlignmentAssumption
<1>2. Aligned(p) = (x \div a) * a
  BY DEF Aligned
<1>3. x = p + a - 1
  OBVIOUS
<1> HIDE DEF a, x
<1>4. x \div a \in Nat /\ x % a \in 0 .. a-1 /\ x = (x \div a) * a + (x % a)
  BY <1>1, Division
<1>5. (x \div a) * a \in Nat
  BY <1>1, <1>4
<1> QED
  BY <1>1, <1>2, <1>3, <1>4, <1>5

\* A migration that starts only lengthens the file.
LEMMA StartsAbove ==
  ASSUME NEW m, Formed(m)
  PROVE  /\ m.nextPage \in Nat /\ m.nextPage > 0
         /\ StartMigration(m).nextPage \in Nat /\ m.nextPage <= StartMigration(m).nextPage
<1>1. m \in Metas /\ m.nextPage \in Nat /\ m.nextPage > 0 /\ m.cur.cap \in Nat
  BY Layout DEF Formed, Laid, Metas, Gens
<1>2. /\ Aligned(m.nextPage) \in Nat /\ m.nextPage <= Aligned(m.nextPage)
      /\ (2 * m.cur.cap) \div BucketSize \in Nat
  BY <1>1, AlignedAbove, BoundsAssumption
<1>3. StartMigration(m).nextPage = Aligned(m.nextPage) + ((2 * m.cur.cap) \div BucketSize + 1)
  BY <1>1 DEF StartMigration, GenerationPages, Metas
<1> QED
  BY <1>1, <1>2, <1>3

\* A new generation is empty, and lies beyond every page in use.
LEMMA StartKeeps ==
  ASSUME NEW img, NEW m, TableOK(img, m), Unused(img, m), m.old = NoGen,
         StartMigration(m).nextPage - 1 \in Page
  PROVE  LET n == StartMigration(m)
         IN  /\ TableOK(img, n) /\ Unused(img, n) /\ n.old # NoGen /\ n.cursor = 0
             /\ Kept(img, n) = Kept(img, m) /\ m.nextPage <= n.nextPage
             /\ n.old = m.cur /\ n.cur.rows = 0 /\ n.cur.cap = 2 * m.cur.cap
             /\ n.live = m.live /\ n.overflow = m.overflow
<1> DEFINE n    == StartMigration(m)
           base == Aligned(m.nextPage)
           cap  == 2 * m.cur.cap
           g    == [base |-> base, cap |-> cap, rows |-> 0]
<1>1. /\ m \in Metas /\ Laid(m.cur) /\ m.cur.cap \in Nat /\ m.nextPage \in Nat
      /\ StashPage(m.cur) < m.nextPage /\ Sound(img, m.cur) /\ Counts(img, m)
      /\ img \in [Page -> Pages] /\ m.cur \in Gens
  BY DEF TableOK, Formed, Metas, Gens
<1>2. /\ base \in Nat /\ m.nextPage <= base
  BY <1>1, AlignedAbove
<1>3. /\ cap \in Nat /\ cap % BucketSize = 0 /\ cap \div BucketSize = 2 * (m.cur.cap \div BucketSize)
      /\ m.cur.cap \div BucketSize \in Nat /\ m.cur.cap \div BucketSize > 1
  <2> DEFINE c == m.cur.cap
             b == BucketSize
  <2>1. c \in Nat /\ b \in Nat \ {0} /\ c % b = 0 /\ c \div b > 1 /\ cap = 2 * c
    BY <1>1, BoundsAssumption DEF Laid
  <2> HIDE DEF b, c, cap
  <2>2. (2 * c) % b = 0 /\ (2 * c) \div b = 2 * (c \div b)
    BY <2>1, WholeBuckets
  <2>3. c \div b \in Nat
    BY <2>1, Division
  <2> QED
    BY <2>1, <2>2, <2>3 DEF b, c
<1>4. /\ n.cur = g /\ n.old = m.cur /\ n.cursor = 0 /\ n.limit = m.cur.cap + StashCapacity
      /\ n.nextPage = base + GenerationPages(cap) /\ n.live = m.live /\ n.overflow = m.overflow
      /\ n = [cur |-> n.cur, old |-> n.old, cursor |-> n.cursor, limit |-> n.limit,
              nextPage |-> n.nextPage, live |-> n.live, overflow |-> n.overflow]
  <2> HIDE DEF g, base, cap
  <2>1. n = [m EXCEPT !.old = m.cur, !.cur = g, !.cursor = 0, !.limit = m.cur.cap + StashCapacity,
                      !.nextPage = base + GenerationPages(cap)]
    BY DEF StartMigration, g, base, cap
  <2> HIDE DEF n
  <2>2. m = [cur |-> m.cur, old |-> m.old, cursor |-> m.cursor, limit |-> m.limit,
             nextPage |-> m.nextPage, live |-> m.live, overflow |-> m.overflow]
    BY <1>1 DEF Metas
  <2>3. n = [cur |-> g, old |-> m.cur, cursor |-> 0, limit |-> m.cur.cap + StashCapacity,
             nextPage |-> base + GenerationPages(cap), live |-> m.live, overflow |-> m.overflow]
    BY <2>1, <2>2
  <2> QED
    BY <2>3
<1>5. /\ GenerationPages(cap) = cap \div BucketSize + 1 /\ StashPage(g) = base + cap \div BucketSize
      /\ cap \div BucketSize \in Nat /\ cap \div BucketSize > 1
      /\ g.base = base /\ g.cap = cap /\ g.rows = 0 /\ g \in Gens
  BY <1>2, <1>3 DEF GenerationPages, StashPage, Gens
<1>6. n.nextPage = StashPage(g) + 1 /\ n.nextPage \in Nat
  BY <1>2, <1>4, <1>5
<1> HIDE DEF n, base, cap, g
<1>7. g # NoGen
  <2>1. 0 \div BucketSize = 0
    BY BoundsAssumption
  <2> QED
    BY <1>5, <2>1 DEF NoGen
<1>8. PagesOf(g) = base .. StashPage(g)
  BY <1>5, <1>7 DEF PagesOf
<1>9. \A p \in PagesOf(g) : p \in Page /\ m.nextPage <= p /\ p \in Nat
  <2>1. StashPage(g) \in Page /\ StashPage(g) \in Nat
    BY <1>2, <1>5, <1>6 DEF n
  <2>2. 0 .. StashPage(g) \subseteq Page
    BY <2>1, PagesAssumption
  <2> QED
    BY <1>1, <1>2, <1>8, <2>1, <2>2
<1>10. Laid(g)
  BY <1>3, <1>5, <1>9 DEF Laid
<1>11. \A p \in PagesOf(g) : img[p] = Blank
  BY <1>9 DEF Unused
<1>12. \A p \in PagesOf(g) : /\ Cell(img, g, p) \in [Room(g, p) -> Row]
                             /\ \A i \in Room(g, p) : Cell(img, g, p)[i] = NoKey
  <2> SUFFICES ASSUME NEW p \in PagesOf(g)
               PROVE  /\ Cell(img, g, p) \in [Room(g, p) -> Row]
                      /\ \A i \in Room(g, p) : Cell(img, g, p)[i] = NoKey
    OBVIOUS
  <2>1. CASE p = StashPage(g)
    BY <1>11, <2>1, BlankSlots DEF Cell, Room, Stash
  <2>2. CASE p # StashPage(g)
    BY <1>11, <2>2, BlankSlots DEF Cell, Room, Bucket
  <2> QED
    BY <2>1, <2>2
<1>13. Sound(img, g) /\ Inside(img, g) = {}
  BY <1>12, NoKeyAssumption DEF Sound, Inside
<1>14. Formed(n)
  <2>1. n.old # NoGen
    BY <1>1, <1>4, Layout
  <2>2. n \in Metas
    BY <1>1, <1>4, <1>5, <1>6, BoundsAssumption DEF Metas
  <2>3. StashPage(n.cur) < n.nextPage /\ Laid(n.cur) /\ Laid(n.old)
    <3>1. StashPage(g) \in Nat /\ StashPage(g) < n.nextPage
      BY <1>2, <1>5, <1>6
    <3> QED
      BY <1>1, <1>4, <1>10, <3>1
  <2>4. StashPage(n.old) < n.cur.base
    BY <1>1, <1>2, <1>4, <1>5, Layout
  <2>5. n.limit = n.old.cap + StashCapacity /\ n.cursor <= n.limit
    BY <1>1, <1>4, BoundsAssumption
  <2> QED
    BY <2>1, <2>2, <2>3, <2>4, <2>5 DEF Formed
<1>15. Inside(img, NoGen) = {}
  BY DEF Inside, PagesOf
<1>16. Counts(img, n)
  BY <1>1, <1>4, <1>5, <1>13, FS_EmptySet DEF Counts
<1>17. SweptTo(img, n.old, n.cursor)
  <2> SUFFICES ASSUME NEW p \in PagesOf(m.cur), NEW i \in Room(m.cur, p)
               PROVE  0 <= Number(m.cur, p, i)
    BY <1>4 DEF SweptTo
  <2>1. m.cur.base <= p /\ p \in Nat /\ m.cur.base \in Nat /\ i \in Nat
    <3>1. Laid(m.cur) /\ p \in PagesOf(m.cur)
      BY <1>1
    <3>2. i \in Nat
      BY BoundsAssumption DEF Room
    <3> QED
      BY ONLY <3>1, <3>2, Layout
  <2>2. p - m.cur.base \in Nat
    BY <2>1
  <2>3. (p - m.cur.base) * BucketSize \in Nat
    BY <2>2, BoundsAssumption
  <2> QED
    BY <1>1, <2>1, <2>3 DEF Number
<1>18. TableOK(img, n)
  BY <1>1, <1>4, <1>13, <1>14, <1>16, <1>17 DEF TableOK
<1>19. Unused(img, n) /\ m.nextPage <= n.nextPage
  <2>1. m.nextPage <= n.nextPage
    BY <1>1, <1>2, <1>5, <1>6
  <2>2. \A p \in Page : n.nextPage <= p => m.nextPage <= p
    BY <1>1, <1>6, <2>1, PageAssumption
  <2> QED
    BY <2>1, <2>2 DEF Unused
<1>20. Kept(img, n) = Kept(img, m)
  BY <1>4, <1>13, <1>15 DEF Kept
<1>21. n.old # NoGen
  BY <1>1, <1>4, Layout
<1> QED
  BY <1>4, <1>5, <1>18, <1>19, <1>20, <1>21 DEF n, cap
-----------------------------------------------------------------------------
(* The plan of an insertion *)

\* A table at rest: what is committed between two insertions.
TableInv(img, m) ==
  /\ TableOK(img, m)
  /\ Unused(img, m)
  /\ m.live = m.cur.rows + m.old.rows
  /\ m.old # NoGen => m.cursor < m.limit

\* A key placed in the current generation, and counted.
LEMMA RowAdded ==
  ASSUME NEW img, NEW m, TableOK(img, m), NEW k \in Key, k \notin Kept(img, m),
         NEW v \in Views, v.img = img, NEW w, Grown(v, w, m.cur, k),
         NEW n, n = Counted(m)
  PROVE  /\ TableOK(w.img, n) /\ Kept(w.img, n) = With(Kept(img, m), k) /\ Spans(v, w, m)
         /\ PagesOf(n.cur) = PagesOf(m.cur) /\ n.old = m.old
         /\ n.cur.rows = m.cur.rows + 1 /\ n.cur.cap = m.cur.cap /\ n.cur.base = m.cur.base
         /\ n.cursor = m.cursor /\ n.limit = m.limit /\ n.nextPage = m.nextPage
         /\ n.live = m.live + 1 /\ n.overflow = m.overflow
<1>1. /\ m \in Metas /\ Laid(m.cur) /\ Formed(m) /\ m.cursor \in Nat
      /\ m.cur.rows \in Nat /\ m.live \in Nat /\ Sound(img, m.old) /\ SweptTo(img, m.old, m.cursor)
  BY DEF TableOK, Formed, Metas, Gens
<1>2. /\ IsFiniteSet(Inside(img, m.cur)) /\ Cardinality(Inside(img, m.cur)) = m.cur.rows
      /\ IsFiniteSet(Inside(img, m.old)) /\ Cardinality(Inside(img, m.old)) = m.old.rows
      /\ Inside(img, m.cur) \cap Inside(img, m.old) = {}
  BY DEF TableOK, Counts
<1>3. /\ Rewrites(v, w, m.cur) /\ Sound(w.img, m.cur)
      /\ Inside(w.img, m.cur) = Inside(img, m.cur) \cup {k}
  BY DEF Grown
<1>4. /\ Sound(w.img, m.old) /\ Inside(w.img, m.old) = Inside(img, m.old)
      /\ SweptTo(w.img, m.old, m.cursor) /\ Spans(v, w, m)
  BY <1>1, <1>3, OldStays
<1>5. /\ IsFiniteSet(Inside(w.img, m.cur)) /\ Cardinality(Inside(w.img, m.cur)) = m.cur.rows + 1
      /\ Inside(w.img, m.cur) \cap Inside(w.img, m.old) = {}
  BY <1>2, <1>3, <1>4, FS_AddElement DEF Kept
<1> DEFINE c == [m.cur EXCEPT !.rows = @ + 1]
<1>6. /\ n.cur = c /\ n.old = m.old /\ n.cursor = m.cursor /\ n.limit = m.limit
      /\ n.nextPage = m.nextPage /\ n.live = m.live + 1 /\ n.overflow = m.overflow
      /\ n = [cur |-> n.cur, old |-> n.old, cursor |-> n.cursor, limit |-> n.limit,
              nextPage |-> n.nextPage, live |-> n.live, overflow |-> n.overflow]
  BY <1>1 DEF Metas, Counted
<1>7. /\ Laid(c) /\ c.base = m.cur.base /\ c.cap = m.cur.cap /\ c.rows = m.cur.rows + 1
      /\ StashPage(c) = StashPage(m.cur) /\ PagesOf(c) = PagesOf(m.cur)
  BY <1>1, Recounted
<1> HIDE DEF c
<1>8. Sound(w.img, c) /\ Inside(w.img, c) = Inside(w.img, m.cur)
  BY <1>1, <1>3, <1>7, SamePlace
<1>9. Formed(n)
  <2>1. n \in Metas
    <3>1. c \in Gens
      BY <1>7 DEF Laid
    <3> QED
      BY <1>1, <1>6, <3>1 DEF Metas
  <2> QED
    BY <1>1, <1>6, <1>7, <2>1 DEF Formed
<1>10. TableOK(w.img, n)
  <2>1. w.img \in [Page -> Pages]
    BY <1>3 DEF Rewrites, Views
  <2>2. Counts(w.img, n)
    BY <1>2, <1>4, <1>5, <1>6, <1>7, <1>8 DEF Counts
  <2> QED
    BY <1>4, <1>6, <1>8, <1>9, <2>1, <2>2 DEF TableOK
<1>11. Kept(w.img, n) = With(Kept(img, m), k)
  BY <1>3, <1>4, <1>6, <1>8 DEF Kept, With
<1> QED
  BY <1>4, <1>6, <1>7, <1>10, <1>11

\* Pages that no generation covers are not written.
LEMMA SpansKeepsUnused ==
  ASSUME NEW m, Formed(m), NEW v, NEW w, Spans(v, w, m), NEW n \in Nat, m.nextPage <= n,
         \A p \in Page : n <= p => v.img[p] = Blank
  PROVE  \A p \in Page : n <= p => w.img[p] = Blank
<1>1. m.nextPage \in Nat
  BY DEF Formed, Metas
<1>2. ASSUME NEW p \in Page, n <= p
      PROVE  p \notin PagesOf(m.cur) \cup PagesOf(m.old)
  BY <1>1, <1>2, GenerationsApart, PageAssumption
<1> QED
  BY <1>2 DEF Spans

\* The placement of a new key and this insertion's share of the migration.
LEMMA AttemptKeeps ==
  ASSUME NEW img, NEW m, TableOK(img, m), Unused(img, m), NEW k \in Key, k \notin Kept(img, m)
  PROVE  LET r == AttemptIn(img, m, k)
         IN  /\ r.ok \in BOOLEAN
             /\ r.ok => /\ r.view \in Views /\ TableOK(r.view.img, r.meta)
                        /\ Unused(r.view.img, r.meta)
                        /\ Kept(r.view.img, r.meta) = With(Kept(img, m), k)
                        /\ \A p \in Page : r.view.img[p] # img[p] => p \in r.view.written
                        /\ \A p \in r.view.written : p < m.nextPage
                        /\ SameTable(Counted(m), r.meta)
                        /\ r.meta.old = NoGen <=> m.old = NoGen
                        /\ m.old = NoGen => r.meta = Counted(m)
                        /\ m.old # NoGen => r.meta.cursor =
                             IF m.cursor + MigrationBudget <= m.limit
                             THEN m.cursor + MigrationBudget ELSE m.limit
<1> DEFINE v0  == [img |-> img, written |-> {}]
           put == Place(v0, m.cur, k)
           n   == Counted(m)
           r   == AttemptIn(img, m, k)
<1>1. /\ img \in [Page -> Pages] /\ Formed(m) /\ Laid(m.cur) /\ Sound(img, m.cur)
      /\ k \notin Inside(img, m.cur) /\ m.nextPage \in Nat
  BY DEF TableOK, Formed, Kept, Metas
<1>2. v0 \in Views /\ v0.img = img /\ v0.written = {}
  BY <1>1 DEF Views
<1>3. r = Sweep(put, m)
  BY DEF AttemptIn
<1> HIDE DEF v0, r
<1>4. put.ok \in BOOLEAN /\ (put.ok => Grown(v0, put.view, m.cur, k))
  BY <1>1, <1>2, PlaceGrows
<1> HIDE DEF put
<1>5. CASE ~put.ok
  <2>1. r = [ok |-> FALSE, view |-> put.view, meta |-> m]
    BY <1>3, <1>5 DEF Sweep
  <2>2. r.ok = FALSE
    BY <2>1
  <2> QED
    BY <2>2 DEF r
<1>6. CASE put.ok
  <2> DEFINE w == put.view
  <2>1. r = Migrate(w, n)
    BY <1>3, <1>6 DEF Sweep
  <2>2. Grown(v0, w, m.cur, k)
    BY <1>4, <1>6
  <2>3. n = Counted(m)
    OBVIOUS
  <2> HIDE DEF w, n
  <2>4. TableOK(w.img, n) /\ Spans(v0, w, m) /\ PagesOf(n.cur) = PagesOf(m.cur)
    BY <1>2, <2>2, <2>3, RowAdded
  <2>5. Kept(w.img, n) = With(Kept(img, m), k)
    BY <1>2, <2>2, <2>3, RowAdded
  <2>6. n.old = m.old /\ n.cursor = m.cursor /\ n.limit = m.limit /\ n.nextPage = m.nextPage
    BY <1>2, <2>2, <2>3, RowAdded
  <2>7. w \in Views /\ \A p \in Page : w.img[p] # img[p] => p \in w.written
    BY <1>2, <2>4 DEF Spans
  <2>12. \A p \in w.written : p < m.nextPage
    BY <1>1, <1>2, <2>4, GenerationsApart DEF Spans
  <2>8. \A p \in Page : m.nextPage <= p => w.img[p] = Blank
    BY <1>1, <1>2, <2>4, SpansKeepsUnused DEF Unused
  <2>9. /\ r.ok \in BOOLEAN
        /\ n.old = NoGen => r = [ok |-> TRUE, view |-> w, meta |-> n]
        /\ n.old # NoGen => /\ Scanned(r, w, n)
                            /\ r.ok => r.meta.cursor =
                                 IF n.cursor + MigrationBudget <= n.limit
                                 THEN n.cursor + MigrationBudget ELSE n.limit
    BY <2>1, <2>4, <2>7, MigrateKeeps
  <2>10. CASE m.old = NoGen
    <3>1. r.ok = TRUE /\ r.view = w /\ r.meta = n
      BY <2>6, <2>9, <2>10
    <3>2. Unused(r.view.img, r.meta) /\ SameTable(n, r.meta)
      BY <2>6, <2>8, <3>1 DEF Unused, SameTable
    <3> QED
      BY <2>3, <2>4, <2>5, <2>6, <2>7, <2>12, <2>9, <2>10, <3>1, <3>2 DEF r
  <2>11. CASE m.old # NoGen
    <3> SUFFICES ASSUME r.ok
                 PROVE  /\ r.view \in Views /\ TableOK(r.view.img, r.meta)
                        /\ Unused(r.view.img, r.meta)
                        /\ Kept(r.view.img, r.meta) = With(Kept(img, m), k)
                        /\ \A p \in Page : r.view.img[p] # img[p] => p \in r.view.written
                        /\ \A p \in r.view.written : p < m.nextPage
                        /\ SameTable(n, r.meta) /\ r.meta.old # NoGen
      BY <2>3, <2>6, <2>9, <2>11 DEF r
    <3>1. /\ r.view \in Views /\ TableOK(r.view.img, r.meta) /\ r.meta.old # NoGen
          /\ Spans(w, r.view, n) /\ SameTable(n, r.meta)
      BY <2>6, <2>9, <2>11 DEF Scanned
    <3>2. Kept(r.view.img, r.meta) = Kept(w.img, n)
      BY <2>6, <2>9, <2>11 DEF Scanned
    <3>3. Unused(r.view.img, r.meta)
      <4>1. Formed(n) /\ r.meta.nextPage = m.nextPage
        BY <2>4, <2>6, <3>1 DEF TableOK, SameTable
      <4>2. \A p \in Page : m.nextPage <= p => r.view.img[p] = Blank
        BY <1>1, <2>6, <2>8, <3>1, <4>1, SpansKeepsUnused
      <4> QED
        BY <4>1, <4>2 DEF Unused
    <3>4. \A p \in Page : r.view.img[p] # img[p] => p \in r.view.written
      BY <2>7, <3>1 DEF Spans
    <3>5. \A p \in r.view.written : p < m.nextPage
      <4>1. Formed(n)
        BY <2>4 DEF TableOK
      <4>2. \A p \in PagesOf(n.cur) \cup PagesOf(n.old) : p < n.nextPage
        BY <4>1, GenerationsApart
      <4> QED
        BY <2>6, <2>12, <3>1, <4>2 DEF Spans
    <3> QED
      BY <2>5, <3>1, <3>2, <3>3, <3>4, <3>5
  <2> QED
    BY <2>10, <2>11
<1> QED
  BY <1>4, <1>5, <1>6

\* A migration that has come to its end has emptied the old generation.
LEMMA EndKeeps ==
  ASSUME NEW img, NEW m, TableOK(img, m), m.old # NoGen, m.cursor >= m.limit
  PROVE  LET n == EndMigration(m)
         IN  /\ m.old.rows = 0
             /\ TableOK(img, n) /\ n.old = NoGen /\ n.cur = m.cur /\ n.nextPage = m.nextPage
             /\ n.live = m.live /\ n.overflow = m.overflow
             /\ Kept(img, n) = Kept(img, m)
<1> DEFINE n == EndMigration(m)
           z == [m EXCEPT !.cursor = 0]
<1>1. /\ m \in Metas /\ Formed(m) /\ Laid(m.old) /\ Laid(m.cur) /\ img \in [Page -> Pages]
      /\ m.cursor \in Nat /\ m.limit = m.old.cap + StashCapacity /\ m.old.cap \in Nat
      /\ Sound(img, m.cur) /\ Counts(img, m) /\ SweptTo(img, m.old, m.cursor)
  BY DEF TableOK, Formed, Metas, Gens
<1>2. z \in Metas /\ z.old = m.old /\ z.cur = m.cur /\ z.cursor = 0 /\ z.limit = m.limit /\ z.nextPage = m.nextPage
  BY <1>1 DEF Metas
<1> HIDE DEF z
<1>3. Formed(z) /\ z.cursor < z.limit /\ z.old # NoGen
  <2>1. m.old.cap > 0
    <3>1. /\ BucketSize \in Nat \ {0} /\ m.old.cap \div BucketSize > 1
          /\ m.old.cap \in Nat /\ m.old.cap % BucketSize = 0
      BY <1>1, BoundsAssumption DEF Laid
    <3>2. PICK b \in Nat \ {0}, c \in Nat : b = BucketSize /\ c = m.old.cap
      BY <3>1
    <3>3. \A x \in Nat, i \in 0 .. b-1 : x < c \div b => x * b + i < c
      BY <3>1, <3>2, WholeBuckets
    <3>4. 0 \in 0 .. b-1 /\ 0 < c \div b
      BY <3>1, <3>2
    <3>5. 0 * b + 0 < c
      BY <3>3, <3>4
    <3> QED
      BY <3>2, <3>5
  <2>2. z.cursor < z.limit
    BY <1>1, <1>2, <2>1, BoundsAssumption
  <2>3. z.old # NoGen
    BY <1>2
  <2>4. Formed(z)
    <3>1. z.cursor <= z.limit /\ z.old # NoGen /\ m.limit \in Nat
      BY <1>1, <2>3, BoundsAssumption, <1>2
    <3> QED
      BY <1>1, <1>2, <3>1 DEF Formed
  <2> QED
    BY <2>2, <2>3, <2>4
<1>4. \A p \in PagesOf(m.old) : \A i \in Room(m.old, p) :
        Number(m.old, p, i) \in Nat /\ Number(m.old, p, i) < m.limit
  <2>1. \A p \in PagesOf(z.old) : \A i \in Room(z.old, p) :
          Number(z.old, p, i) \in Nat /\ Number(z.old, p, i) < z.limit
    BY <1>3, CursorCell
  <2> QED
    BY <1>2, <2>1
<1>5. \A p \in PagesOf(m.old) : \A i \in Room(m.old, p) : Cell(img, m.old, p)[i] = NoKey
  <2> SUFFICES ASSUME NEW p \in PagesOf(m.old), NEW i \in Room(m.old, p),
                      Cell(img, m.old, p)[i] # NoKey
               PROVE  FALSE
    OBVIOUS
  <2>1. m.cursor <= Number(m.old, p, i)
    BY <1>1 DEF SweptTo
  <2>2. Number(m.old, p, i) \in Nat /\ Number(m.old, p, i) < m.limit
    BY <1>4
  <2>3. m.limit \in Nat
    BY <1>1 DEF Metas
  <2> QED
    BY <1>1, <2>1, <2>2, <2>3
<1>6. Inside(img, m.old) = {}
  BY <1>5, NoKeyAssumption DEF Inside
<1>7. m.old.rows = 0
  BY <1>1, <1>6, FS_EmptySet DEF Counts
<1>8. /\ n \in Metas /\ n.old = NoGen /\ n.cur = m.cur /\ n.cursor = 0 /\ n.limit = 0
      /\ n.nextPage = m.nextPage /\ n.live = m.live /\ n.overflow = m.overflow
  BY <1>1 DEF EndMigration, Metas, Gens, NoGen
<1> HIDE DEF n
<1>9. Inside(img, NoGen) = {} /\ Sound(img, NoGen) /\ SweptTo(img, NoGen, 0)
  BY DEF Inside, Sound, SweptTo, PagesOf
<1>10. Counts(img, n)
  BY <1>1, <1>8, <1>9, FS_EmptySet DEF Counts, NoGen
<1>11. Formed(n)
  BY <1>1, <1>8 DEF Formed
<1>12. TableOK(img, n)
  BY <1>1, <1>8, <1>9, <1>10, <1>11 DEF TableOK
<1>13. Kept(img, n) = Kept(img, m)
  BY <1>6, <1>8, <1>9 DEF Kept
<1> QED
  BY <1>7, <1>8, <1>12, <1>13 DEF n

\* A placement and its sweep take no page: the plan's are those of the
\* generation it starts, if it starts one.
LEMMA AttemptTakesNoPage ==
  ASSUME NEW img, NEW m, DOMAIN m = DOMAIN FirstMeta, NEW k
  PROVE  AttemptIn(img, m, k).meta.nextPage = m.nextPage
<1> DEFINE put == Place([img |-> img, written |-> {}], m.cur, k)
<1>1. AttemptIn(img, m, k) = Sweep(put, m)
  BY DEF AttemptIn
<1> HIDE DEF put
<1>2. DOMAIN Counted(m) = DOMAIN FirstMeta /\ Counted(m).nextPage = m.nextPage
  BY DEF Counted, FirstMeta
<1>3. Migrate(put.view, Counted(m)).meta.nextPage = m.nextPage
  BY <1>2, MigrateTakesNoPage
<1> QED
  BY <1>1, <1>3 DEF Sweep

\* The image a transaction publishes.
Applied(img, ch) == [p \in Page |-> IF p \in DOMAIN ch THEN ch[p] ELSE img[p]]

\* The metadata of the attempt: that of the table, or of one that starts to
\* migrate.
Opened(m) == IF m.old = NoGen /\ Backlog(m) THEN StartMigration(m) ELSE m

\* A migration that is started, if the table is full, changes no row.
LEMMA OpenKeeps ==
  ASSUME NEW img, NEW m, TableInv(img, m), Opened(m).nextPage - 1 \in Page
  PROVE  LET n == Opened(m)
         IN  /\ TableOK(img, n) /\ Unused(img, n) /\ Kept(img, n) = Kept(img, m)
             /\ n.live = m.live /\ n.overflow = m.overflow
             /\ n.old # NoGen => n.cursor < n.limit
             /\ n.live = n.cur.rows + n.old.rows
             /\ n.old = NoGen => n = m /\ ~Backlog(m)
             /\ m.old = NoGen /\ n.old # NoGen =>
                  n.cursor = 0 /\ n.old = m.cur /\ n.cur.cap = 2 * m.cur.cap
             /\ m.old # NoGen => n = m
<1> DEFINE n == Opened(m)
<1>1. /\ TableOK(img, m) /\ Unused(img, m) /\ Formed(m) /\ m \in Metas
      /\ m.old # NoGen => m.cursor < m.limit
      /\ m.live = m.cur.rows + m.old.rows
      /\ m.cur.rows \in Nat /\ m.old.rows \in Nat
  BY DEF TableInv, TableOK, Formed, Metas, Gens
<1> HIDE DEF n
<1>2. CASE m.old = NoGen /\ Backlog(m)
  <2>1. n = StartMigration(m)
    BY <1>2 DEF n, Opened
  <2>2. /\ TableOK(img, n) /\ Unused(img, n) /\ n.old # NoGen /\ n.cursor = 0
        /\ Kept(img, n) = Kept(img, m)
        /\ n.old = m.cur /\ n.cur.rows = 0 /\ n.cur.cap = 2 * m.cur.cap
        /\ n.live = m.live /\ n.overflow = m.overflow
    BY <1>1, <1>2, <2>1, StartKeeps DEF n
  <2>3. n.cursor < n.limit
    BY <2>2, BoundsAssumption DEF TableOK, Formed, Laid, Gens
  <2> QED
    BY <1>1, <1>2, <2>2, <2>3 DEF n, NoGen
<1>3. CASE ~(m.old = NoGen /\ Backlog(m))
  <2>1. n = m
    BY <1>3 DEF n, Opened
  <2> QED
    BY <1>1, <1>3, <2>1 DEF n
<1> QED
  BY <1>2, <1>3

\* What an insertion that commits makes of the table.
Inserts(img, m, k, new, n) ==
  /\ TableInv(new, n)
  /\ Kept(new, n) = With(Kept(img, m), k)
  /\ k \notin Kept(img, m)
  /\ n.live = m.live + 1 /\ n.overflow = m.overflow /\ n.nextPage = Opened(m).nextPage

\* _prepare_insert: a stored key is a duplicate; an absent one, if the plan
\* commits and its pages suffice, joins the table, and nothing else does; and
\* a migration does not end over rows it has not moved.
LEMMA PlanKeeps ==
  ASSUME NEW img, NEW m, TableInv(img, m), NEW k \in Key
  PROVE  LET p == Plan(img, m, k)
         IN  /\ p.outcome = "duplicate" <=> k \in Kept(img, m)
             /\ p.outcome = "commit" /\ p.meta.nextPage - 1 \in Page =>
                  /\ Inserts(img, m, k, Applied(img, p.changes), p.meta)
                  /\ DOMAIN p.changes \subseteq {q \in Page : q < p.meta.nextPage}
             /\ Opened(m).nextPage - 1 \in Page => p.outcome # "broken"
<1> DEFINE p == Plan(img, m, k)
           n == Opened(m)
           r == AttemptIn(img, n, k)
           done == MigrationDone(r.meta)
<1>1. /\ TableOK(img, m) /\ Unused(img, m) /\ Formed(m) /\ m \in Metas
      /\ m.old # NoGen => m.cursor < m.limit
      /\ m.live = m.cur.rows + m.old.rows
      /\ m.cur.rows \in Nat /\ m.old.rows \in Nat /\ m.cursor \in Nat /\ m.limit \in Nat
  BY DEF TableInv, TableOK, Formed, Metas, Gens
<1>2. Found(img, m, k) <=> k \in Kept(img, m)
  <2>1. Laid(m.cur) /\ (m.old = NoGen \/ Laid(m.old)) /\ Sound(img, m.cur) /\ Sound(img, m.old)
    BY <1>1 DEF TableOK, Formed
  <2> QED
    BY <2>1, HoldsIsInside DEF Found, Kept
<1>3. /\ Found(img, m, k) => p = Answer("duplicate", m)
      /\ ~Found(img, m, k) => p = Answer("refused", m) \/ p = Conclude(r, m)
  BY DEF Plan, Attempt, Opened
<1>4. Conclude(r, m).outcome \in {"refused", "broken", "commit"} /\ Answer("refused", m).outcome = "refused"
  BY DEF Conclude, Answer
<1>5. p.outcome = "duplicate" <=> k \in Kept(img, m)
  BY <1>2, <1>3, <1>4 DEF Answer
<1> HIDE DEF p, r, n
<1>6. DOMAIN n = DOMAIN FirstMeta /\ n.nextPage = Opened(m).nextPage
  BY <1>1 DEF n, Opened, StartMigration, Metas, FirstMeta
<1>7. r.meta.nextPage = n.nextPage
  BY <1>6, AttemptTakesNoPage DEF r
<1>8. ASSUME n.nextPage - 1 \in Page
      PROVE  /\ TableOK(img, n) /\ Unused(img, n) /\ Kept(img, n) = Kept(img, m)
             /\ n.live = m.live /\ n.overflow = m.overflow
             /\ n.old # NoGen => n.cursor < n.limit
             /\ n.live = n.cur.rows + n.old.rows
  BY <1>8, OpenKeeps DEF n
<1>9. ASSUME n.nextPage - 1 \in Page, k \notin Kept(img, m), r.ok
      PROVE  /\ r.view \in Views /\ TableOK(r.view.img, r.meta) /\ Unused(r.view.img, r.meta)
             /\ Kept(r.view.img, r.meta) = With(Kept(img, m), k)
             /\ \A q \in Page : r.view.img[q] # img[q] => q \in r.view.written
             /\ \A q \in r.view.written : q < n.nextPage
             /\ r.meta.live = m.live + 1 /\ r.meta.overflow = m.overflow
             /\ r.meta.live = r.meta.cur.rows + r.meta.old.rows
  <2>1. TableOK(img, n) /\ Unused(img, n) /\ k \notin Kept(img, n)
    BY <1>8, <1>9
  <2>2. /\ r.view \in Views /\ TableOK(r.view.img, r.meta) /\ Unused(r.view.img, r.meta)
        /\ Kept(r.view.img, r.meta) = With(Kept(img, n), k)
        /\ \A q \in Page : r.view.img[q] # img[q] => q \in r.view.written
        /\ \A q \in r.view.written : q < n.nextPage
        /\ SameTable(Counted(n), r.meta)
    BY <1>9, <2>1, AttemptKeeps DEF r
  <2>3. /\ n \in Metas /\ n.cur.rows \in Nat /\ n.old.rows \in Nat
    BY <2>1 DEF TableOK, Formed, Metas, Gens
  <2>4. /\ Counted(n).live = n.live + 1 /\ Counted(n).overflow = n.overflow
        /\ Counted(n).cur.rows = n.cur.rows + 1 /\ Counted(n).old = n.old
    BY <2>3 DEF Counted, Metas, Gens
  <2> QED
    BY <1>8, <1>9, <2>2, <2>3, <2>4 DEF SameTable
<1>10. ASSUME n.nextPage - 1 \in Page
       PROVE  p.outcome # "broken"
  <2> SUFFICES ASSUME p = Conclude(r, m), k \notin Kept(img, m), r.ok, done
               PROVE  r.meta.old.rows = 0
    BY <1>2, <1>3 DEF Conclude, Answer
  <2>1. TableOK(r.view.img, r.meta) /\ r.meta.old # NoGen /\ r.meta.cursor >= r.meta.limit
    BY <1>9, <1>10 DEF MigrationDone
  <2> QED
    BY <2>1, EndKeeps
<1>11. ASSUME p.outcome = "commit", p.meta.nextPage - 1 \in Page
       PROVE  /\ Inserts(img, m, k, Applied(img, p.changes), p.meta)
              /\ DOMAIN p.changes \subseteq {q \in Page : q < p.meta.nextPage}
  <2>1. /\ k \notin Kept(img, m) /\ r.ok
        /\ p.changes = [q \in r.view.written \cap Page |-> r.view.img[q]]
        /\ p.meta = IF done THEN EndMigration(r.meta) ELSE r.meta
    BY <1>2, <1>3, <1>11 DEF Conclude, Answer
  <2> HIDE DEF done
  <2>2. p.meta.nextPage = n.nextPage
    BY <1>7, <2>1 DEF EndMigration
  <2> DEFINE w == r.view.img
  <2>3. /\ r.view \in Views /\ TableOK(w, r.meta) /\ Unused(w, r.meta)
        /\ Kept(w, r.meta) = With(Kept(img, m), k)
        /\ \A q \in Page : w[q] # img[q] => q \in r.view.written
        /\ \A q \in r.view.written : q < n.nextPage
        /\ r.meta.live = m.live + 1 /\ r.meta.overflow = m.overflow
        /\ r.meta.live = r.meta.cur.rows + r.meta.old.rows
    BY <1>9, <1>11, <2>1, <2>2
  <2>4. Applied(img, p.changes) = w
    <3>1. w \in [Page -> Pages] /\ DOMAIN p.changes = r.view.written \cap Page
      BY <2>1, <2>3 DEF Views
    <3>2. \A q \in Page : (IF q \in DOMAIN p.changes THEN p.changes[q] ELSE img[q]) = w[q]
      BY <2>1, <2>3, <3>1
    <3> QED
      BY <3>1, <3>2 DEF Applied
  <2> HIDE DEF w
  <2>7. DOMAIN p.changes \subseteq {q \in Page : q < p.meta.nextPage}
    BY <2>1, <2>2, <2>3
  <2>5. CASE done
    <3>1. r.meta.old # NoGen /\ r.meta.cursor >= r.meta.limit /\ p.meta = EndMigration(r.meta)
      BY <2>1, <2>5 DEF done, MigrationDone
    <3>2. /\ r.meta.old.rows = 0
          /\ TableOK(w, p.meta) /\ p.meta.old = NoGen /\ p.meta.cur = r.meta.cur
          /\ p.meta.nextPage = r.meta.nextPage
          /\ p.meta.live = r.meta.live /\ p.meta.overflow = r.meta.overflow
          /\ Kept(w, p.meta) = Kept(w, r.meta)
      BY <2>3, <3>1, EndKeeps
    <3>3. p.meta.live = p.meta.cur.rows + p.meta.old.rows
      BY <2>3, <3>2 DEF NoGen
    <3>4. Unused(w, p.meta)
      BY <2>3, <3>2 DEF Unused
    <3>5. TableInv(w, p.meta)
      BY <3>2, <3>3, <3>4 DEF TableInv
    <3> QED
      BY <1>6, <1>7, <2>1, <2>2, <2>3, <2>4, <2>7, <3>2, <3>5 DEF Inserts
  <2>6. CASE ~done
    <3>1. p.meta = r.meta
      BY <2>1, <2>6
    <3>2. r.meta.old # NoGen => r.meta.cursor < r.meta.limit
      BY <2>3, <2>6 DEF done, MigrationDone, TableOK, Formed, Metas
    <3>3. TableInv(w, r.meta)
      BY <2>3, <3>2 DEF TableInv
    <3> QED
      BY <1>6, <1>7, <2>1, <2>2, <2>3, <2>4, <2>7, <3>1, <3>3 DEF Inserts
  <2> QED
    BY <2>1, <2>5, <2>6
<1> QED
  BY <1>5, <1>6, <1>10, <1>11 DEF p

\* initialize() leaves an empty table.
LEMMA FirstTable ==
  ASSUME NEW img, img = [p \in Page |-> Blank]
  PROVE  TableInv(img, FirstMeta) /\ Kept(img, FirstMeta) = {}
<1> DEFINE m == FirstMeta
           g == [base |-> 0, cap |-> InitialCapacity, rows |-> 0]
           b == InitialCapacity \div BucketSize
<1>1. /\ m.cur = g /\ m.old = NoGen /\ m.cursor = 0 /\ m.limit = 0 /\ m.live = 0
      /\ m.nextPage = b + 1
  BY DEF FirstMeta, GenerationPages
<1>2. b \in Nat /\ b > 1 /\ InitialCapacity \in Nat /\ g \in Gens /\ NoGen \in Gens
  BY CapacityAssumption, BoundsAssumption DEF Gens, NoGen
<1>3. m \in Metas
  BY <1>1, <1>2 DEF Metas, FirstMeta, GenerationPages
<1>4. g # NoGen
  BY <1>2, BoundsAssumption DEF NoGen
<1>5. StashPage(g) = b /\ PagesOf(g) = 0 .. b
  BY <1>2, <1>4 DEF StashPage, PagesOf
<1>6. 0 .. b \subseteq Page
  <2>1. b \in Page
    BY <1>2, PagesAssumption DEF GenerationPages
  <2> QED
    BY <2>1, PagesAssumption
<1> HIDE DEF m, g
<1>7. Laid(g)
  BY <1>2, <1>5, <1>6, CapacityAssumption DEF Laid, g
<1> HIDE DEF b
<1>8. img \in [Page -> Pages] /\ \A p \in Page : img[p] = Blank
  BY DEF Pages
<1>9. \A p \in PagesOf(g) : Cell(img, g, p) = [i \in Room(g, p) |-> NoKey]
  BY <1>5, <1>6, <1>8 DEF Cell, Room, Stash, Bucket, Slots
<1>10. Inside(img, g) = {} /\ Sound(img, g)
  BY <1>9, NoKeyAssumption DEF Inside, Sound, Row
<1>11. Inside(img, NoGen) = {} /\ Sound(img, NoGen) /\ SweptTo(img, NoGen, 0)
  BY DEF Inside, Sound, SweptTo, PagesOf
<1>12. g.rows = 0 /\ NoGen.rows = 0
  BY DEF g, NoGen
<1>13. Counts(img, m)
  BY <1>1, <1>10, <1>11, <1>12, FS_EmptySet DEF Counts
<1>14. Formed(m)
  BY <1>1, <1>2, <1>3, <1>5, <1>7 DEF Formed
<1>15. TableOK(img, m) /\ Unused(img, m)
  BY <1>1, <1>8, <1>10, <1>11, <1>13, <1>14 DEF TableOK, Unused
<1> QED
  BY <1>1, <1>10, <1>11, <1>12, <1>15 DEF TableInv, Kept, m

\* The count of overflow rows is no business of the table.
LEMMA OverflowCounted ==
  ASSUME NEW img, NEW m, TableInv(img, m), NEW n, n = [m EXCEPT !.overflow = @ + 1]
  PROVE  /\ TableInv(img, n) /\ Kept(img, n) = Kept(img, m)
         /\ m.overflow \in Nat /\ n.overflow = m.overflow + 1 /\ n.nextPage = m.nextPage
<1>1. /\ n \in Metas /\ n.cur = m.cur /\ n.old = m.old /\ n.cursor = m.cursor
      /\ n.limit = m.limit /\ n.nextPage = m.nextPage /\ n.live = m.live
      /\ m.overflow \in Nat /\ n.overflow = m.overflow + 1
  BY DEF TableInv, TableOK, Formed, Metas
<1>2. Formed(n)
  BY <1>1 DEF TableInv, TableOK, Formed
<1>3. TableOK(img, n)
  BY <1>1, <1>2 DEF TableInv, TableOK, Counts
<1> QED
  BY <1>1, <1>3 DEF TableInv, Unused, Kept

-----------------------------------------------------------------------------
(* Pace *)

\* The budget outruns the load: a generation of capacity c that starts to
\* migrate at its threshold is swept, c + StashCapacity slots at
\* MigrationBudget an insertion, before the generation of twice its capacity
\* is at its own.
BudgetOutrunsLoad ==
  \A c, j \in Nat : c >= InitialCapacity /\ j * MigrationBudget < c + StashCapacity
                     => Threshold(c) + j + 1 <= Threshold(2 * c)

\* j insertions into a migration.
PaceInv(m) ==
  IF m.old = NoGen
  THEN m.cur.cap >= InitialCapacity /\ m.cur.rows <= Threshold(m.cur.cap)
  ELSE /\ m.old.cap >= InitialCapacity /\ m.cur.cap = 2 * m.old.cap
       /\ \E j \in Nat : /\ m.cursor = j * MigrationBudget
                          /\ m.live <= Threshold(m.old.cap) + j

LEMMA ThresholdIsNat ==
  ASSUME NEW c \in Nat
  PROVE  Threshold(c) \in Nat
<1> DEFINE x == c * LoadNum
<1>1. x \in Nat /\ LoadDen \in Nat \ {0}
  BY LoadAssumption
<1> HIDE DEF x
<1>2. x \div LoadDen \in Nat
  BY <1>1, Division
<1> QED
  BY <1>2 DEF Threshold, x

\* A table in step never has a backlog while it migrates.
LEMMA PaceIsKept ==
  ASSUME BudgetOutrunsLoad, NEW img, NEW m, TableInv(img, m), PaceInv(m), m.old # NoGen
  PROVE  ~Backlog(m)
<1>1. /\ m.cur.rows \in Nat /\ m.old.rows \in Nat /\ m.old.cap \in Nat
      /\ m.live = m.cur.rows + m.old.rows
      /\ m.cursor < m.limit /\ m.limit = m.old.cap + StashCapacity
  BY DEF TableInv, TableOK, Formed, Metas, Gens
<1>2. PICK j \in Nat : m.cursor = j * MigrationBudget /\ m.live <= Threshold(m.old.cap) + j
  BY DEF PaceInv
<1>3. Threshold(m.old.cap) + j + 1 <= Threshold(m.cur.cap)
  BY <1>1, <1>2 DEF BudgetOutrunsLoad, PaceInv
<1>4. Threshold(m.old.cap) \in Nat /\ Threshold(m.cur.cap) \in Nat
  BY <1>1, ThresholdIsNat DEF PaceInv
<1> QED
  BY <1>1, <1>2, <1>3, <1>4 DEF Backlog

\* An insertion that commits keeps the table in step.
LEMMA PlanPaces ==
  ASSUME BudgetOutrunsLoad, NEW img, NEW m, TableInv(img, m), PaceInv(m), NEW k \in Key,
         Plan(img, m, k).outcome = "commit", Plan(img, m, k).meta.nextPage - 1 \in Page
  PROVE  PaceInv(Plan(img, m, k).meta)
<1> DEFINE p == Plan(img, m, k)
           n == Opened(m)
           r == AttemptIn(img, n, k)
<1>1. k \notin Kept(img, m) /\ p.meta.nextPage = n.nextPage
  BY PlanKeeps DEF Inserts
<1>2. /\ TableOK(img, n) /\ Unused(img, n) /\ Kept(img, n) = Kept(img, m)
      /\ n.live = m.live /\ n.live = n.cur.rows + n.old.rows
      /\ n.old # NoGen => n.cursor < n.limit
      /\ n.old = NoGen => n = m /\ ~Backlog(m)
      /\ m.old = NoGen /\ n.old # NoGen =>
           n.cursor = 0 /\ n.old = m.cur /\ n.cur.cap = 2 * m.cur.cap
      /\ m.old # NoGen => n = m
  BY <1>1, OpenKeeps
<1>3. r.ok /\ p.meta = IF MigrationDone(r.meta) THEN EndMigration(r.meta) ELSE r.meta
  BY DEF Plan, Attempt, Opened, Conclude, Answer
<1> HIDE DEF p, n, r
<1>4. /\ TableOK(r.view.img, r.meta) /\ SameTable(Counted(n), r.meta)
      /\ r.meta.old = NoGen <=> n.old = NoGen
      /\ n.old = NoGen => r.meta = Counted(n)
      /\ n.old # NoGen => r.meta.cursor = IF n.cursor + MigrationBudget <= n.limit
                                          THEN n.cursor + MigrationBudget ELSE n.limit
  BY <1>1, <1>2, <1>3, AttemptKeeps DEF r
<1>5. /\ n.cur.rows \in Nat /\ n.old.rows \in Nat /\ n.cursor \in Nat /\ n.limit \in Nat
      /\ n.cur.cap \in Nat /\ n.old.cap \in Nat /\ n \in Metas
      /\ r.meta.cur.rows \in Nat /\ r.meta.old.rows \in Nat
      /\ MigrationBudget \in Nat /\ InitialCapacity \in Nat
      /\ n.old # NoGen => n.limit = n.old.cap + StashCapacity
  BY <1>2, <1>4, BoundsAssumption, CapacityAssumption DEF TableOK, Formed, Metas, Gens
<1>6. /\ Counted(n).cur.cap = n.cur.cap /\ Counted(n).old = n.old /\ Counted(n).cursor = n.cursor
      /\ Counted(n).cur.rows = n.cur.rows + 1 /\ Counted(n).live = n.live + 1
      /\ Counted(n).limit = n.limit
  BY <1>5 DEF Counted, Metas, Gens
<1>7. CASE n.old = NoGen
  <2>1. p.meta = Counted(n)
    BY <1>3, <1>4, <1>7 DEF MigrationDone
  <2>2. n.cur.cap >= InitialCapacity /\ n.cur.rows + 1 <= Threshold(n.cur.cap)
    BY <1>2, <1>5, <1>7, ThresholdIsNat DEF PaceInv, Backlog
  <2> QED
    BY <1>6, <1>7, <2>1, <2>2 DEF PaceInv, p
<1>8. CASE n.old # NoGen
  <2> DEFINE c == n.old.cap
  <2>1. c >= InitialCapacity /\ n.cur.cap = 2 * c
    BY <1>2, <1>8 DEF PaceInv
  <2>2. \E j \in Nat : n.cursor = j * MigrationBudget /\ n.live <= Threshold(c) + j
    <3>1. CASE m.old = NoGen
      <4>1. n.cursor = 0 * MigrationBudget /\ m.cur.rows <= Threshold(c) /\ m.old.rows = 0
        BY <1>2, <1>5, <1>8, <3>1 DEF PaceInv, NoGen
      <4>2. m.cur.rows \in Nat /\ Threshold(c) \in Nat /\ m.live = m.cur.rows + m.old.rows
        BY <1>5, ThresholdIsNat DEF TableInv, TableOK, Formed, Metas, Gens
      <4>3. n.live <= Threshold(c) + 0
        <5>1. n.live = m.cur.rows + 0
          BY <1>2, <4>1, <4>2
        <5> QED
          BY <4>1, <4>2, <5>1
      <4> QED
        BY <4>1, <4>3
    <3>2. CASE m.old # NoGen
      BY <1>2, <3>2 DEF PaceInv
    <3> QED
      BY <3>1, <3>2
  <2> HIDE DEF c
  <2>3. PICK j \in Nat : n.cursor = j * MigrationBudget /\ n.live <= Threshold(c) + j
    BY <2>2
  <2>4. c \in Nat /\ Threshold(c) \in Nat /\ Threshold(2 * c) \in Nat /\ 2 * c \in Nat
    BY <1>5, ThresholdIsNat DEF c
  <2>5. Threshold(c) + j + 1 <= Threshold(2 * c)
    <3>1. j * MigrationBudget < c + StashCapacity
      BY <1>2, <1>5, <1>8, <2>3 DEF c
    <3> QED
      BY <2>1, <2>3, <2>4, <3>1 DEF BudgetOutrunsLoad
  <2>6. (j + 1) * MigrationBudget = n.cursor + MigrationBudget
    BY <1>5, <2>3
  <2>7. /\ r.meta.live = n.live + 1 /\ r.meta.cur.cap = 2 * c /\ r.meta.old.cap = c
        /\ r.meta.limit = n.limit /\ r.meta.cur.rows <= n.live + 1 /\ r.meta.old # NoGen
    BY <1>2, <1>4, <1>5, <1>6, <1>8, <2>1 DEF SameTable, c
  <2>8. CASE r.meta.cursor >= r.meta.limit
    <3>1. p.meta = EndMigration(r.meta)
      BY <1>3, <2>7, <2>8 DEF MigrationDone
    <3>2. p.meta.old = NoGen /\ p.meta.cur = r.meta.cur
      <4>1. r.meta \in Metas
        BY <1>4 DEF TableOK, Formed
      <4> QED
        BY <3>1, <4>1 DEF EndMigration, Metas
    <3>3. r.meta.cur.rows <= Threshold(2 * c) /\ 2 * c >= InitialCapacity
      BY <1>2, <1>5, <2>1, <2>3, <2>4, <2>5, <2>7
    <3> QED
      BY <2>7, <3>2, <3>3 DEF PaceInv, p
  <2>9. CASE r.meta.cursor < r.meta.limit
    <3>1. p.meta = r.meta
      BY <1>3, <1>4, <1>5, <2>7, <2>9 DEF MigrationDone, TableOK, Formed, Metas
    <3>2. r.meta.cursor = (j + 1) * MigrationBudget
      BY <1>4, <1>5, <1>8, <2>6, <2>7, <2>9
    <3>3. r.meta.live <= Threshold(c) + (j + 1)
      BY <1>2, <1>5, <2>3, <2>4, <2>7
    <3> QED
      BY <2>1, <2>3, <2>7, <3>1, <3>2, <3>3 DEF PaceInv, p
  <2> QED
    BY <1>4, <1>5, <2>7, <2>8, <2>9 DEF TableOK, Formed, Metas
<1> QED
  BY <1>7, <1>8 DEF p
=============================================================================
