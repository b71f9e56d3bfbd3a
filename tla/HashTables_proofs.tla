-------------------------- MODULE HashTables_proofs --------------------------
(***************************************************************************)
(* The tables of v0.18 to v0.22, for any keys, hashes, capacities and      *)
(* budgets the constructors take (HashConstants).                          *)
(*                                                                         *)
(* Linear probing rests on one fact, Probed: a key is where its own probe  *)
(* comes to first.  A lookup may then stop at the first empty slot, and a  *)
(* table has as many rows as keys.  A migration keeps it in both tables    *)
(* (Copying), and Pace ties the cursor to the insertions since it began.   *)
(*                                                                         *)
(* A cuckoo table (CuckooInv) has each key once, in a bucket of its pair   *)
(* or the stash, and buckets filled from their first slot on.  In mid       *)
(* relocation (Chained) it has every key but the homeless one, and undoing *)
(* the log gives what there was.                                           *)
(***************************************************************************)
EXTENDS InMemory, FunctionTheorems, FiniteSetTheorems, SequenceTheorems, WellFoundedInduction,
        TLAPS

\* A set of naturals has a least member.
LEMMA Least ==
  ASSUME NEW S, S \subseteq Nat, S # {}
  PROVE  \E x \in S : \A y \in S : x <= y
<1> DEFINE R == OpToRel(<, Nat)
<1>1. IsWellFoundedOn(R, Nat)
  BY NatLessThanWellFounded
<1> HIDE DEF R
<1>2. PICK x \in S : \A y \in S : ~(<<y, x>> \in R)
  BY <1>1, WFMin, Zenon
<1>3. \A y \in S : ~(y < x)
  BY <1>2 DEF R, OpToRel
<1>4. \A y \in S : x <= y
  BY <1>3
<1> QED
  BY <1>4

\* A set of naturals that holds 0 and each successor holds every natural.
LEMMA UpFromZero ==
  ASSUME NEW S, 0 \in S, \A n \in Nat : n \in S => n + 1 \in S
  PROVE  Nat \subseteq S
<1> DEFINE T == Nat \ S
<1>1. SUFFICES ASSUME T # {} PROVE FALSE
  OBVIOUS
<1>2. PICK x \in T : \A y \in T : x <= y
  BY <1>1, Least
<1>3. x \in Nat /\ x # 0
  BY <1>2
<1>4. x - 1 \in Nat /\ x - 1 \in S
  BY <1>2, <1>3
<1> QED
  BY <1>2, <1>3, <1>4

-----------------------------------------------------------------------------
(* Arithmetic *)

\* A multiple of c that is less than c away from nothing is nothing.
LEMMA NoMultiple ==
  ASSUME NEW c \in Nat, c > 0, NEW e \in Int, c * e < c, c * e > -c
  PROVE  e = 0
<1>1. CASE e >= 1
  <2>1. c * (e - 1) >= 0 /\ c * (e - 1) = c * e - c
    BY <1>1
  <2> QED
    BY <2>1
<1>2. CASE e <= -1
  <2>1. c * (-1 - e) >= 0 /\ c * (-1 - e) = -c - c * e
    BY <1>2
  <2> QED
    BY <2>1
<1> QED
  BY <1>1, <1>2

\* The remainder of a multiple of c and less than c is the latter.
LEMMA Remainder ==
  ASSUME NEW c \in Nat, c > 0, NEW q \in Int, NEW j \in 0 .. c-1
  PROVE  (q * c + j) % c = j
<1> DEFINE x == q * c + j
<1>1. x \in Int
  OBVIOUS
<1>2. x = c * (x \div c) + (x % c) /\ x % c \in 0 .. c-1 /\ x \div c \in Int
  BY <1>1
<1> DEFINE d == x \div c
           m == x % c
<1>3. m \in 0 .. c-1 /\ d \in Int /\ q * c + j = c * d + m
  BY <1>2
<1> HIDE DEF d, m
<1>4. c * (q - d) = m - j
  BY <1>3
<1>5. q - d = 0
  BY <1>3, <1>4, NoMultiple
<1> QED
  BY <1>3, <1>5 DEF m

-----------------------------------------------------------------------------
(* Linear probing.  s is a setup, t a table: what an invariant says of them is *)
(* said of both, so that it can be said of a next state.                        *)

Table(t) == \E c \in Nat \ {0} : t \in [0 .. c-1 -> HashKey \cup {NoKey}]

Keys(t) == {t[i] : i \in DOMAIN t} \ {NoKey}

Spot(s, t, k, i) == (s.home[k] + i) % Cap(t)

\* The probe for k comes to slot j, over slots of other keys.
Comes(s, t, k, j) ==
  \E i \in DOMAIN t : /\ Spot(s, t, k, i) = j
                      /\ \A n \in 0 .. i-1 : t[Spot(s, t, k, n)] \notin {NoKey, k}

\* Every key is where its probe comes to.
Probed(s, t) == Table(t) /\ \A j \in DOMAIN t : t[j] # NoKey => Comes(s, t, t[j], j)

\* What the constructors demand, a setup at a time.
LEMMA SetupParts ==
  ASSUME HashConstants, NEW s \in Setups
  PROVE  /\ s.budget \in Nat /\ s.budget > 0
         /\ s.buckets \in Nat /\ s.buckets > 1
         /\ s.size \in Nat /\ s.size > 0
         /\ s.stash \in Nat
         /\ \A k \in HashKey : s.home[k] \in Nat
         /\ \A d \in 1 .. Domains, k \in HashKey :
              /\ s.pairs[d][k] \in (0 .. s.buckets-1) \X (0 .. s.buckets-1)
              /\ s.choice[d][k] \in {1, 2}
              /\ \A n \in 0 .. MaxKicks-1 : s.victim[d][k][n] \in 0 .. s.size-1
<1>1. /\ s.budget \in Nat \ {0} /\ s.buckets \in Nat \ {0, 1}
      /\ s.size \in Nat \ {0} /\ s.stash \in Nat
      /\ s.home \in [HashKey -> Nat]
      /\ \A d \in 1 .. Domains :
           /\ s.pairs[d] \in [HashKey -> (0 .. s.buckets - 1) \X (0 .. s.buckets - 1)]
           /\ s.choice[d] \in [HashKey -> {1, 2}]
           /\ s.victim[d] \in [HashKey -> [0 .. MaxKicks - 1 -> 0 .. s.size - 1]]
  BY DEF HashConstants
<1>2. \A d \in 1 .. Domains, k \in HashKey :
        /\ s.pairs[d][k] \in (0 .. s.buckets-1) \X (0 .. s.buckets-1)
        /\ s.choice[d][k] \in {1, 2}
  BY <1>1
<1>3. ASSUME NEW d \in 1 .. Domains, NEW k \in HashKey, NEW n \in 0 .. MaxKicks-1
      PROVE  s.victim[d][k][n] \in 0 .. s.size-1
  <2>1. s.victim[d][k] \in [0 .. MaxKicks-1 -> 0 .. s.size-1]
    BY <1>1
  <2> QED
    BY <2>1
<1> QED
  BY <1>1, <1>2, <1>3

\* A table has slots 0 to Cap - 1.
LEMMA TableShape ==
  ASSUME NEW t, Table(t)
  PROVE  /\ Cap(t) \in Nat /\ Cap(t) > 0
         /\ DOMAIN t = 0 .. Cap(t)-1 /\ IsFiniteSet(DOMAIN t)
         /\ t \in [DOMAIN t -> HashKey \cup {NoKey}]
<1>1. PICK c \in Nat \ {0} : t \in [0 .. c-1 -> HashKey \cup {NoKey}]
  BY DEF Table
<1>2. DOMAIN t = 0 .. c-1
  BY <1>1
<1>3. IsFiniteSet(0 .. c-1) /\ Cardinality(0 .. c-1) = c
  <2>1. 0 \in Int /\ c - 1 \in Int /\ ~(0 > c - 1)
    OBVIOUS
  <2> QED
    BY <2>1, FS_Interval
<1> QED
  BY <1>1, <1>2, <1>3 DEF Cap

\* A probe stays in the table.
LEMMA SpotIn ==
  ASSUME HashConstants, NEW s \in Setups, NEW t, Table(t), NEW k \in HashKey, NEW i \in Nat
  PROVE  Spot(s, t, k, i) \in DOMAIN t
<1>1. Cap(t) \in Nat /\ Cap(t) > 0 /\ DOMAIN t = 0 .. Cap(t)-1
  BY TableShape
<1>2. s.home[k] \in Nat
  BY SetupParts
<1>3. PICK x \in Nat : x = s.home[k] + i
  BY <1>2
<1>4. PICK c \in Nat : c = Cap(t)
  BY <1>1
<1>5. x % c \in 0 .. c-1
  BY <1>1, <1>4
<1>6. Spot(s, t, k, i) = x % c
  BY <1>3, <1>4 DEF Spot
<1> QED
  BY <1>1, <1>4, <1>5, <1>6

\* A probe comes to every slot.
LEMMA ProbeCovers ==
  ASSUME HashConstants, NEW s \in Setups, NEW t, Table(t), NEW k \in HashKey, NEW j \in DOMAIN t
  PROVE  \E i \in DOMAIN t : Spot(s, t, k, i) = j
<1> DEFINE c == Cap(t)
           h == s.home[k]
           r == h % c
           q == h \div c
<1>1. c \in Nat /\ c > 0 /\ DOMAIN t = 0 .. c-1
  BY TableShape
<1>2. h \in Nat
  BY SetupParts
<1> HIDE DEF c, h
<1>3. r \in 0 .. c-1 /\ q \in Int /\ h = c * q + r
  BY <1>1, <1>2
<1> HIDE DEF r, q
<1>4. CASE j >= r
  <2>1. j - r \in 0 .. c-1 /\ h + (j - r) = q * c + j
    BY <1>1, <1>3, <1>4
  <2>2. (h + (j - r)) % c = j
    BY <1>1, <1>3, <2>1, Remainder
  <2> QED
    BY <1>1, <2>1, <2>2 DEF Spot, c, h
<1>5. CASE j < r
  <2>1. j - r + c \in 0 .. c-1 /\ h + (j - r + c) = (q + 1) * c + j /\ q + 1 \in Int
    BY <1>1, <1>3, <1>5
  <2>2. (h + (j - r + c)) % c = j
    BY <1>1, <1>3, <2>1, Remainder
  <2> QED
    BY <1>1, <2>1, <2>2 DEF Spot, c, h
<1> QED
  BY <1>1, <1>3, <1>4, <1>5

\* Where the probe ends, when it does.
LEMMA ProbeIs ==
  ASSUME HashConstants, setup \in Setups, NEW t, Table(t), NEW k \in HashKey, ~Full(t, k)
  PROVE  /\ Probe(t, k) \in DOMAIN t
         /\ t[Spot(setup, t, k, Probe(t, k))] \in {NoKey, k}
         /\ \A n \in 0 .. Probe(t, k)-1 : t[Spot(setup, t, k, n)] \notin {NoKey, k}
<1> DEFINE E == Ends(t, k)
<1>1. DOMAIN t = 0 .. Cap(t)-1 /\ Cap(t) \in Nat
  BY TableShape
<1>2. E = {i \in DOMAIN t : t[Spot(setup, t, k, i)] \in {NoKey, k}}
  BY DEF Ends, At, Spot
<1>3. E \subseteq Nat /\ E # {}
  BY <1>1, <1>2 DEF Full
<1>4. Probe(t, k) = CHOOSE i \in E : \A j \in E : i <= j
  BY DEF Probe
<1> HIDE DEF E
<1>5. \E i \in E : \A j \in E : i <= j
  BY <1>3, Least
<1>6. Probe(t, k) \in E /\ \A j \in E : Probe(t, k) <= j
  BY <1>4, <1>5
<1>7. \A n \in 0 .. Probe(t, k)-1 : n \in DOMAIN t /\ n \notin E
  BY <1>1, <1>2, <1>6
<1> QED
  BY <1>2, <1>6, <1>7

\* Where the probe comes to is where it ends.
LEMMA ComesIsProbe ==
  ASSUME HashConstants, setup \in Setups, NEW t, Table(t), NEW k \in HashKey, NEW j \in DOMAIN t,
         Comes(setup, t, k, j), t[j] \in {NoKey, k}
  PROVE  ~Full(t, k) /\ Spot(setup, t, k, Probe(t, k)) = j
<1>1. PICK i \in DOMAIN t : /\ Spot(setup, t, k, i) = j
                            /\ \A n \in 0 .. i-1 : t[Spot(setup, t, k, n)] \notin {NoKey, k}
  BY DEF Comes
<1>2. i \in Ends(t, k)
  BY <1>1 DEF Ends, At, Spot
<1>3. ~Full(t, k)
  BY <1>2 DEF Full
<1> DEFINE p == Probe(t, k)
<1>4. /\ p \in DOMAIN t /\ t[Spot(setup, t, k, p)] \in {NoKey, k}
      /\ \A n \in 0 .. p-1 : t[Spot(setup, t, k, n)] \notin {NoKey, k}
  BY <1>3, ProbeIs
<1> HIDE DEF p
<1>5. DOMAIN t \subseteq Nat
  BY TableShape
<1>6. ~(p < i) /\ ~(i < p)
  BY <1>1, <1>4, <1>5
<1> QED
  BY <1>1, <1>3, <1>4, <1>5, <1>6 DEF p

\* No key is in two slots.
LEMMA KeyOnce ==
  ASSUME HashConstants, NEW s \in Setups, NEW t, Probed(s, t),
         NEW i \in DOMAIN t, NEW j \in DOMAIN t, t[i] = t[j], t[i] # NoKey
  PROVE  i = j
<1> DEFINE k == t[i]
<1>1. Table(t) /\ DOMAIN t \subseteq Nat
  BY TableShape DEF Probed
<1>2. PICK m \in DOMAIN t : /\ Spot(s, t, k, m) = i
                            /\ \A n \in 0 .. m-1 : t[Spot(s, t, k, n)] \notin {NoKey, k}
  BY DEF Probed, Comes
<1>3. PICK l \in DOMAIN t : /\ Spot(s, t, k, l) = j
                            /\ \A n \in 0 .. l-1 : t[Spot(s, t, k, n)] \notin {NoKey, k}
  BY DEF Probed, Comes
<1>4. m \in Nat /\ l \in Nat /\ t[Spot(s, t, k, m)] = k /\ t[Spot(s, t, k, l)] = k
  BY <1>1, <1>2, <1>3
<1> HIDE DEF k
<1>5. ~(m < l) /\ ~(l < m)
  BY <1>2, <1>3, <1>4
<1>6. m = l
  BY <1>4, <1>5
<1> QED
  BY <1>2, <1>3, <1>6

\* A lookup finds the keys that are in the table.
LEMMA FindsKept ==
  ASSUME HashConstants, setup \in Setups, NEW t, Probed(setup, t), NEW k \in HashKey
  PROVE  Finds(t, k) <=> k \in Keys(t)
<1>1. Table(t) /\ k # NoKey
  BY DEF Probed, HashConstants
<1>2. ASSUME Finds(t, k) PROVE k \in Keys(t)
  <2>1. ~Full(t, k) /\ t[Spot(setup, t, k, Probe(t, k))] = k
    BY <1>2 DEF Finds, At, Spot
  <2>2. Probe(t, k) \in Nat
    BY <1>1, <2>1, ProbeIs, TableShape
  <2>3. Spot(setup, t, k, Probe(t, k)) \in DOMAIN t
    BY <1>1, <2>2, SpotIn
  <2> QED
    BY <1>1, <2>1, <2>3 DEF Keys
<1>3. ASSUME k \in Keys(t) PROVE Finds(t, k)
  <2>1. PICK j \in DOMAIN t : t[j] = k
    BY <1>3 DEF Keys
  <2>2. Comes(setup, t, k, j)
    BY <1>1, <2>1 DEF Probed
  <2>3. ~Full(t, k) /\ Spot(setup, t, k, Probe(t, k)) = j
    BY <1>1, <2>1, <2>2, ComesIsProbe
  <2> QED
    BY <2>1, <2>3 DEF Finds, At, Spot
<1> QED
  BY <1>2, <1>3

\* A placement adds its key, to the first empty slot its probe comes to.
LEMMA PlaceKeeps ==
  ASSUME HashConstants, setup \in Setups, NEW t, Probed(setup, t), NEW k \in HashKey, ~Full(t, k)
  PROVE  /\ Probed(setup, Place(t, k))
         /\ Keys(Place(t, k)) = Keys(t) \cup {k}
         /\ DOMAIN Place(t, k) = DOMAIN t /\ Cap(Place(t, k)) = Cap(t)
<1>1. Table(t) /\ k # NoKey
  BY DEF Probed, HashConstants
<1> DEFINE q == Probe(t, k)
           p == Spot(setup, t, k, q)
           u == Place(t, k)
<1>2. /\ q \in DOMAIN t /\ t[p] \in {NoKey, k}
      /\ \A n \in 0 .. q-1 : t[Spot(setup, t, k, n)] \notin {NoKey, k}
  BY <1>1, ProbeIs
<1>3. DOMAIN t \subseteq Nat
  BY <1>1, TableShape
<1>4. p \in DOMAIN t
  BY <1>1, <1>2, <1>3, SpotIn
<1>5. u = [t EXCEPT ![p] = k]
  BY DEF Place, At, Spot
<1>6. PICK c \in Nat \ {0} : t \in [0 .. c-1 -> HashKey \cup {NoKey}]
  BY <1>1 DEF Table
<1> HIDE DEF q, p, u
<1>7. u \in [0 .. c-1 -> HashKey \cup {NoKey}] /\ DOMAIN u = DOMAIN t
  BY <1>4, <1>5, <1>6
<1>8. Table(u) /\ Cap(u) = Cap(t)
  BY <1>7 DEF Table, Cap
<1>9. \A x, n : Spot(setup, u, x, n) = Spot(setup, t, x, n)
  BY <1>8 DEF Spot
<1>10. u[p] = k /\ \A j \in DOMAIN t : j # p => u[j] = t[j]
  BY <1>4, <1>5, <1>6
<1>11. Keys(u) = Keys(t) \cup {k}
  <2>1. \A x : x \in Keys(u) => x \in Keys(t) \cup {k}
    BY <1>7, <1>10 DEF Keys
  <2>2. k \in Keys(u)
    BY <1>1, <1>4, <1>7, <1>10 DEF Keys
  <2>3. \A x : x \in Keys(t) => x \in Keys(u)
    <3> SUFFICES ASSUME NEW j \in DOMAIN t, t[j] # NoKey PROVE t[j] \in Keys(u)
      BY DEF Keys
    <3>1. CASE j = p
      BY <1>2, <2>2, <3>1
    <3>2. CASE j # p
      BY <1>7, <1>10, <3>2 DEF Keys
    <3> QED
      BY <3>1, <3>2
  <2> QED
    BY <2>1, <2>2, <2>3
<1>12. ASSUME NEW j \in DOMAIN u, u[j] # NoKey
       PROVE  Comes(setup, u, u[j], j)
  <2>1. CASE j = p
    <3>1. \A n \in 0 .. q-1 : u[Spot(setup, u, k, n)] \notin {NoKey, k}
      <4> SUFFICES ASSUME NEW n \in 0 .. q-1 PROVE u[Spot(setup, u, k, n)] \notin {NoKey, k}
        OBVIOUS
      <4>1. t[Spot(setup, t, k, n)] \notin {NoKey, k} /\ n \in Nat
        BY <1>2, <1>3
      <4>2. Spot(setup, t, k, n) # p /\ Spot(setup, t, k, n) \in DOMAIN t
        BY <1>1, <1>2, <4>1, SpotIn
      <4> QED
        BY <1>9, <1>10, <4>1, <4>2
    <3> QED
      BY <1>2, <1>7, <1>9, <1>10, <2>1, <3>1 DEF Comes, p
  <2>2. CASE j # p
    <3> DEFINE x == t[j]
    <3>1. j \in DOMAIN t /\ u[j] = x /\ x # NoKey /\ x \in HashKey
      BY <1>6, <1>7, <1>10, <1>12, <2>2
    <3>2. PICK i \in DOMAIN t : /\ Spot(setup, t, x, i) = j
                                /\ \A n \in 0 .. i-1 : t[Spot(setup, t, x, n)] \notin {NoKey, x}
      BY <3>1 DEF Probed, Comes
    <3>3. t[p] = k => u = t
      BY <1>5, <1>6, <1>4
    <3>4. CASE t[p] = k
      BY <3>1, <3>3, <3>4 DEF Probed
    <3>5. CASE t[p] = NoKey
      <4>1. ~(x = k)
        <5> SUFFICES ASSUME x = k PROVE FALSE
          OBVIOUS
        <5>1. Comes(setup, t, k, j) /\ t[j] = k
          BY <3>1, <3>2 DEF Comes
        <5>2. Spot(setup, t, k, Probe(t, k)) = j
          BY <1>1, <3>1, <5>1, ComesIsProbe
        <5> QED
          BY <2>2, <5>2 DEF p, q
      <4>2. ASSUME NEW n \in 0 .. i-1
            PROVE  u[Spot(setup, u, x, n)] \notin {NoKey, x}
        <5>1. t[Spot(setup, t, x, n)] \notin {NoKey, x} /\ n \in Nat
          BY <1>3, <3>2
        <5>2. Spot(setup, t, x, n) # p /\ Spot(setup, t, x, n) \in DOMAIN t
          BY <1>1, <3>1, <3>5, <5>1, SpotIn
        <5> QED
          BY <1>9, <1>10, <5>1, <5>2
      <4> HIDE DEF x
      <4> QED
        BY <1>7, <1>9, <3>1, <3>2, <4>2 DEF Comes
    <3> QED
      BY <1>2, <3>4, <3>5
  <2> QED
    BY <2>1, <2>2
<1> QED
  BY <1>7, <1>8, <1>11, <1>12 DEF Probed, u

\* A table has as many rows as keys, and at most one a slot.
LEMMA SizeIsKeys ==
  ASSUME HashConstants, NEW s \in Setups, NEW t, Probed(s, t)
  PROVE  /\ Size(t) = Cardinality(Keys(t)) /\ IsFiniteSet(Keys(t)) /\ Keys(t) \subseteq HashKey
         /\ Size(t) \in Nat /\ Size(t) <= Cap(t)
<1>1. Table(t) /\ IsFiniteSet(DOMAIN t) /\ t \in [DOMAIN t -> HashKey \cup {NoKey}]
  BY TableShape DEF Probed
<1> DEFINE R == {i \in DOMAIN t : t[i] # NoKey}
           f == [i \in R |-> t[i]]
<1>2. IsFiniteSet(R) /\ Cardinality(R) <= Cardinality(DOMAIN t)
  BY <1>1, FS_Subset
<1>3. f \in [R -> Keys(t)] /\ \A y \in Keys(t) : \E x \in R : f[x] = y
  BY DEF Keys
<1>4. \A i, j \in R : f[i] = f[j] => i = j
  BY KeyOnce
<1>5. ExistsBijection(R, Keys(t))
  <2> HIDE DEF R, f
  <2>1. f \in Surjection(R, Keys(t)) /\ f \in Injection(R, Keys(t))
    BY <1>3, <1>4, Fun_IsInj, Fun_IsSurj
  <2>2. f \in Bijection(R, Keys(t))
    BY <2>1, Fun_IsBij
  <2> QED
    BY <2>2 DEF ExistsBijection
<1>6. IsFiniteSet(Keys(t)) /\ Cardinality(Keys(t)) = Cardinality(R)
  <2> HIDE DEF R, f
  <2> QED
    BY <1>2, <1>5, FS_Bijection
<1>7. Cardinality(R) \in Nat
  BY <1>2, FS_CardinalityType
<1>8. Keys(t) \subseteq HashKey
  BY <1>1 DEF Keys
<1> QED
  BY <1>2, <1>6, <1>7, <1>8 DEF Size, Cap

\* A table with fewer rows than slots takes any key; one that takes none is full.
LEMMA RoomLeft ==
  ASSUME HashConstants, setup \in Setups, NEW t, Probed(setup, t), NEW k \in HashKey
  PROVE  /\ Size(t) < Cap(t) => ~Full(t, k)
         /\ Full(t, k) => Size(t) = Cap(t) /\ k \notin Keys(t)
<1>1. Table(t) /\ DOMAIN t = 0 .. Cap(t)-1 /\ IsFiniteSet(DOMAIN t)
  BY TableShape DEF Probed
<1>2. ASSUME Full(t, k) PROVE Size(t) = Cap(t) /\ k \notin Keys(t)
  <2>1. \A j \in DOMAIN t : t[j] \notin {NoKey, k}
    <3> SUFFICES ASSUME NEW j \in DOMAIN t PROVE t[j] \notin {NoKey, k}
      OBVIOUS
    <3>1. PICK i \in DOMAIN t : Spot(setup, t, k, i) = j
      BY <1>1, ProbeCovers
    <3> QED
      BY <1>2, <3>1 DEF Full, Ends, At, Spot
  <2>2. {i \in DOMAIN t : t[i] # NoKey} = DOMAIN t
    BY <2>1
  <2> QED
    BY <2>1, <2>2 DEF Size, Cap, Keys
<1>3. Size(t) \in Nat /\ Cap(t) \in Nat
  BY <1>1, TableShape, SizeIsKeys
<1> QED
  BY <1>2, <1>3

\* An empty table.
LEMMA EmptyProbed ==
  ASSUME NEW n \in Nat, n > 0, NEW s
  PROVE  /\ Probed(s, EmptySlots(n)) /\ Keys(EmptySlots(n)) = {} /\ Cap(EmptySlots(n)) = n
<1> DEFINE t == EmptySlots(n)
<1>1. t \in [0 .. n-1 -> HashKey \cup {NoKey}] /\ DOMAIN t = 0 .. n-1
      /\ \A i \in DOMAIN t : t[i] = NoKey
  BY DEF EmptySlots
<1>2. Cardinality(0 .. n-1) = n
  <2>1. 0 \in Int /\ n - 1 \in Int /\ ~(0 > n - 1)
    OBVIOUS
  <2> QED
    BY <2>1, FS_Interval
<1> HIDE DEF t
<1>3. Table(t)
  BY <1>1 DEF Table
<1>4. Probed(s, t)
  BY <1>1, <1>3 DEF Probed
<1>5. Keys(t) = {}
  BY <1>1 DEF Keys
<1> QED
  BY <1>1, <1>2, <1>4, <1>5 DEF t, Cap

\* The keys of the first n slots.
Before(t, n) == {t[i] : i \in {j \in DOMAIN t : j < n}} \ {NoKey}

\* Before a slot, before the next one, before all of them.
LEMMA BeforeNext ==
  ASSUME NEW t, Table(t)
  PROVE  /\ Before(t, 0) = {} /\ Before(t, Cap(t)) = Keys(t)
         /\ \A n \in DOMAIN t : Before(t, n+1) = IF t[n] = NoKey THEN Before(t, n)
                                                 ELSE Before(t, n) \cup {t[n]}
         /\ \A n \in Nat : Before(t, n) \subseteq Keys(t) /\ IsFiniteSet(Before(t, n))
                           /\ Cardinality(Before(t, n)) \in Nat
                           /\ Cardinality(Before(t, n)) <= n
<1>1. DOMAIN t = 0 .. Cap(t)-1 /\ Cap(t) \in Nat
  BY TableShape
<1>2. Before(t, 0) = {} /\ Before(t, Cap(t)) = Keys(t)
  <2>1. {j \in DOMAIN t : j < 0} = {} /\ {j \in DOMAIN t : j < Cap(t)} = DOMAIN t
    BY <1>1
  <2> QED
    BY <2>1 DEF Before, Keys
<1>3. ASSUME NEW n \in DOMAIN t
      PROVE  Before(t, n+1) = IF t[n] = NoKey THEN Before(t, n) ELSE Before(t, n) \cup {t[n]}
  <2>1. {j \in DOMAIN t : j < n+1} = {j \in DOMAIN t : j < n} \cup {n}
    BY <1>1
  <2>2. {t[i] : i \in {j \in DOMAIN t : j < n} \cup {n}} = {t[i] : i \in {j \in DOMAIN t : j < n}} \cup {t[n]}
    OBVIOUS
  <2> QED
    BY <2>1, <2>2 DEF Before
<1>4. \A n \in Nat : Before(t, n) \subseteq Keys(t)
  BY DEF Before, Keys
<1>5. ASSUME NEW n \in Nat
      PROVE  /\ IsFiniteSet(Before(t, n)) /\ Cardinality(Before(t, n)) \in Nat
             /\ Cardinality(Before(t, n)) <= n
  <2> DEFINE J == {j \in DOMAIN t : j < n /\ t[j] # NoKey}
             f == [j \in J |-> t[j]]
  <2>1. J \subseteq 0 .. n-1
    BY <1>1
  <2>2. IsFiniteSet(0 .. n-1) /\ Cardinality(0 .. n-1) = n
    <3>1. 0 \in Int /\ n - 1 \in Int /\ (0 > n - 1 => n = 0)
      OBVIOUS
    <3> QED
      BY <3>1, FS_Interval
  <2>3. f \in [J -> Before(t, n)] /\ \A y \in Before(t, n) : \E x \in J : f[x] = y
    BY DEF Before
  <2> HIDE DEF J, f
  <2>4. IsFiniteSet(J) /\ Cardinality(J) <= n
    BY <2>1, <2>2, FS_Subset
  <2>5. f \in Surjection(J, Before(t, n))
    BY <2>3, Fun_IsSurj
  <2>6. IsFiniteSet(Before(t, n)) /\ Cardinality(Before(t, n)) <= Cardinality(J)
    BY <2>4, <2>5, FS_Surjection
  <2>7. Cardinality(J) \in Nat /\ Cardinality(Before(t, n)) \in Nat
    BY <2>4, <2>6, FS_CardinalityType
  <2> QED
    BY <2>4, <2>6, <2>7
<1> QED
  BY <1>2, <1>3, <1>4, <1>5

\* A table that is put into twice the slots keeps its keys.
LEMMA RehashedKeeps ==
  ASSUME HashConstants, setup \in Setups, NEW t, Probed(setup, t)
  PROVE  /\ Probed(setup, Rehashed(t)) /\ Keys(Rehashed(t)) = Keys(t)
         /\ Cap(Rehashed(t)) = 2 * Cap(t)
<1> DEFINE C == Cap(t)
           first == EmptySlots(2 * C)
           Add(u, n) == IF t[n-1] = NoKey THEN u ELSE Place(u, t[n-1])
           Run(f, m) == f = [n \in 0 .. m |-> IF n = 0 THEN first ELSE Add(f[n-1], n)]
           go == CHOOSE f : Run(f, C)
           Good(u, n) == Probed(setup, u) /\ Keys(u) = Before(t, n) /\ Cap(u) = 2 * C
<1>1. Rehashed(t) = go[C]
  <2>1. Rehashed(t) = (CHOOSE f : f = [n \in 0 .. Cap(t) |->
                         IF n = 0 THEN EmptySlots(2 * Cap(t))
                         ELSE IF t[n-1] = NoKey THEN f[n-1] ELSE Place(f[n-1], t[n-1])])[Cap(t)]
    BY DEF Rehashed
  <2> QED
    BY <2>1
<1>2. Table(t) /\ C \in Nat /\ C > 0 /\ DOMAIN t = 0 .. C-1 /\ t \in [DOMAIN t -> HashKey \cup {NoKey}]
  BY TableShape DEF Probed
<1>3. Good(first, 0)
  <2>1. 2 * C \in Nat /\ 2 * C > 0
    BY <1>2
  <2> HIDE DEF C
  <2>2. Probed(setup, first) /\ Keys(first) = {} /\ Cap(first) = 2 * C
    BY <2>1, EmptyProbed
  <2> QED
    BY <1>2, <2>2, BeforeNext
<1>4. ASSUME NEW u, NEW n \in 1 .. C, Good(u, n-1)
      PROVE  Good(Add(u, n), n)
  <2>1. n - 1 \in DOMAIN t /\ n - 1 \in Nat /\ (n - 1) + 1 = n
    BY <1>2
  <2>2. Before(t, n) = IF t[n-1] = NoKey THEN Before(t, n-1) ELSE Before(t, n-1) \cup {t[n-1]}
    BY <1>2, <2>1, BeforeNext
  <2>3. CASE t[n-1] = NoKey
    BY <1>4, <2>2, <2>3
  <2>4. CASE t[n-1] # NoKey
    <3>1. t[n-1] \in HashKey
      BY <1>2, <2>1, <2>4
    <3>2. Size(u) = Cardinality(Before(t, n-1)) /\ Cardinality(Before(t, n-1)) <= n - 1
      BY <1>2, <1>4, <2>1, SizeIsKeys, BeforeNext
    <3>3. Size(u) \in Nat /\ Size(u) < Cap(u)
      BY <1>2, <1>4, <3>2, SizeIsKeys
    <3>4. ~Full(u, t[n-1])
      BY <1>4, <3>1, <3>3, RoomLeft
    <3>5. /\ Probed(setup, Place(u, t[n-1])) /\ Keys(Place(u, t[n-1])) = Keys(u) \cup {t[n-1]}
          /\ Cap(Place(u, t[n-1])) = Cap(u)
      BY <1>4, <3>1, <3>4, PlaceKeeps
    <3> QED
      BY <1>4, <2>2, <2>4, <3>5
  <2> QED
    BY <2>3, <2>4
<1> HIDE DEF Add, first, C, Good
<1>5. \E f : Run(f, C)
  <2> DEFINE S == {m \in Nat : \E f : Run(f, m)}
  <2>1. 0 \in S
    <3>1. Run([n \in 0 .. 0 |-> first], 0)
      OBVIOUS
    <3> QED
      BY <3>1
  <2>2. ASSUME NEW m \in Nat, m \in S
        PROVE  m + 1 \in S
    <3>1. PICK f : Run(f, m)
      BY <2>2
    <3> DEFINE h == [n \in 0 .. m+1 |-> IF n <= m THEN f[n] ELSE Add(f[m], m+1)]
    <3>2. \A n \in 0 .. m : f[n] = IF n = 0 THEN first ELSE Add(f[n-1], n)
      BY <3>1
    <3>3. \A n \in 0 .. m+1 : h[n] = IF n = 0 THEN first ELSE Add(h[n-1], n)
      BY <3>2
    <3>4. Run(h, m+1)
      BY <3>3
    <3> HIDE DEF h, Run
    <3> QED
      BY <3>4
  <2> HIDE DEF S
  <2>3. Nat \subseteq S
    BY <2>1, <2>2, UpFromZero
  <2> QED
    BY <1>2, <2>3 DEF S
<1>6. Run(go, C)
  BY <1>5
<1> HIDE DEF go
<1>7. \A n \in 0 .. C : go[n] = IF n = 0 THEN first ELSE Add(go[n-1], n)
  BY <1>6
<1> DEFINE T == {n \in Nat : n <= C => Good(go[n], n)}
<1>8. 0 \in T
  BY <1>2, <1>3, <1>7
<1>9. ASSUME NEW n \in Nat, n \in T
      PROVE  n + 1 \in T
  <2> SUFFICES ASSUME n + 1 <= C PROVE Good(go[n+1], n+1)
    OBVIOUS
  <2>1. Good(go[n], n) /\ n + 1 \in 1 .. C /\ (n + 1) - 1 = n
    BY <1>2, <1>9
  <2>2. go[n+1] = Add(go[n], n+1)
    BY <1>2, <1>7, <2>1
  <2> QED
    BY <1>4, <2>1, <2>2
<1> HIDE DEF T
<1>10. Nat \subseteq T
  BY <1>8, <1>9, UpFromZero
<1>11. Good(go[C], C)
  BY <1>2, <1>10 DEF T
<1> QED
  BY <1>1, <1>2, <1>11, BeforeNext DEF Good, C

\* One row more, in a table that was not over its load or in one of twice the slots.
LEMMA LoadGrows ==
  ASSUME NEW n \in Nat, NEW c \in Nat, c > 0, NEW a \in Nat, NEW d \in Nat, d > 0, a <= d
  PROVE  /\ (n + 1) * d <= c * a => n < c
         /\ n * d <= c * a /\ d <= c * a => (n + 1) * d <= (2 * c) * a
         /\ d <= c * a => d <= (2 * c) * a
         /\ \A m \in Nat : m <= n /\ n * d <= c * a => m * d <= c * a
<1>1. ASSUME (n + 1) * d <= c * a PROVE n < c
  <2>1. c * a <= c * d
    <3>1. c * (d - a) >= 0 /\ c * (d - a) = c * d - c * a
      OBVIOUS
    <3> QED
      BY <3>1
  <2>2. ASSUME c <= n PROVE FALSE
    <3>1. (n - c) * d >= 0 /\ (n + 1) * d = (n - c) * d + c * d + d
      BY <2>2
    <3> QED
      BY <1>1, <2>1, <3>1
  <2> QED
    BY <2>2
<1>2. (n + 1) * d = n * d + d /\ (2 * c) * a = c * a + c * a /\ c * a >= 0
  OBVIOUS
<1>3. ASSUME NEW m \in Nat, m <= n, n * d <= c * a PROVE m * d <= c * a
  <2>1. (n - m) * d >= 0 /\ (n - m) * d = n * d - m * d
    BY <1>3
  <2> QED
    BY <1>3, <2>1
<1>4. n * d \in Nat /\ c * a \in Nat
  OBVIOUS
<1> QED
  BY <1>1, <1>2, <1>3, <1>4

\* What the constants of the load are.
LEMMA LoadParts ==
  ASSUME HashConstants
  PROVE  /\ LoadNum \in Nat /\ LoadNum > 0 /\ LoadDen \in Nat /\ LoadDen > 0 /\ LoadNum <= LoadDen
         /\ InitialCapacity \in Nat /\ InitialCapacity > 0 /\ LoadDen <= InitialCapacity * LoadNum
         /\ LinearCapacity \in Nat /\ LinearCapacity > 0
         /\ NoKey \notin HashKey /\ IsFiniteSet(HashKey)
         /\ Domains \in Nat /\ Domains > 0 /\ MaxKicks \in Nat /\ MaxKicks > 0
BY DEF HashConstants

\* The table that stops to resize holds the keys of S and is not over its load.
StopInv(s, t, S) ==
  /\ Probed(s, t) /\ Keys(t) = S
  /\ ~OverLoad(Size(t), Cap(t)) /\ LoadDen <= Cap(t) * LoadNum

\* Its insertion adds the key, wherever that was.
LEMMA StopKeeps ==
  ASSUME HashConstants, setup \in Setups, NEW t, NEW S, StopInv(setup, t, S), NEW k \in HashKey
  PROVE  StopInv(setup, StopInsert(t, k), S \cup {k})
<1> DEFINE u == IF OverLoad(Size(t) + 1, Cap(t)) THEN Rehashed(t) ELSE t
<1>1. Probed(setup, t) /\ Keys(t) = S /\ Cap(t) \in Nat /\ Cap(t) > 0 /\ Size(t) \in Nat
      /\ Size(t) = Cardinality(S) /\ IsFiniteSet(S)
  BY SizeIsKeys, TableShape DEF StopInv, Probed
<1>2. Size(t) * LoadDen <= Cap(t) * LoadNum /\ LoadDen <= Cap(t) * LoadNum
  BY <1>1, LoadParts DEF StopInv, OverLoad
<1>3. Probed(setup, u) /\ Keys(u) = S
  BY <1>1, RehashedKeeps
<1>4. Cap(u) = IF (Size(t) + 1) * LoadDen > Cap(t) * LoadNum THEN 2 * Cap(t) ELSE Cap(t)
  BY <1>1, RehashedKeeps DEF OverLoad
<1>5. StopInsert(t, k) = Place(u, k)
  BY DEF StopInsert
<1> HIDE DEF u
<1>6. Size(u) = Size(t)
  BY <1>1, <1>3, SizeIsKeys
<1>7. Cap(u) \in Nat /\ Cap(u) > 0
  BY <1>3, TableShape DEF Probed
<1>8. (Size(u) + 1) * LoadDen <= Cap(u) * LoadNum /\ LoadDen <= Cap(u) * LoadNum
  <2>1. CASE (Size(t) + 1) * LoadDen > Cap(t) * LoadNum
    BY <1>1, <1>2, <1>4, <1>6, <2>1, LoadParts, LoadGrows
  <2>2. CASE ~((Size(t) + 1) * LoadDen > Cap(t) * LoadNum)
    BY <1>1, <1>2, <1>4, <1>6, <2>2, LoadParts
  <2> QED
    BY <2>1, <2>2
<1>9. Size(u) < Cap(u)
  BY <1>1, <1>6, <1>7, <1>8, LoadParts, LoadGrows
<1>10. ~Full(u, k)
  BY <1>3, <1>9, RoomLeft
<1> DEFINE v == Place(u, k)
<1>11. Probed(setup, v) /\ Keys(v) = S \cup {k} /\ Cap(v) = Cap(u)
  BY <1>3, <1>10, PlaceKeeps
<1> HIDE DEF v
<1>12. Size(v) \in Nat /\ Size(v) <= Size(u) + 1
  BY <1>1, <1>6, <1>11, SizeIsKeys, FS_AddElement
<1>13. Size(v) * LoadDen <= Cap(v) * LoadNum
  <2>1. Size(u) + 1 \in Nat
    BY <1>1, <1>6
  <2> QED
    BY <1>7, <1>8, <1>11, <1>12, <2>1, LoadParts, LoadGrows
<1>14. ~OverLoad(Size(v), Cap(v))
  BY <1>7, <1>11, <1>12, <1>13, LoadParts DEF OverLoad
<1> QED
  BY <1>5, <1>8, <1>11, <1>14 DEF StopInv, v

\* The smaller of two numbers.
Least2(m, n) == IF m < n THEN m ELSE n

\* The table that does not grow holds keys of S, as many as fit.
LinearInv(s, t, S) ==
  /\ Probed(s, t) /\ Keys(t) \subseteq S /\ Cap(t) = LinearCapacity
  /\ IsFiniteSet(S) /\ Size(t) = Least2(Cardinality(S), LinearCapacity)

\* Its insertion adds a new key or finds no slot, and loses none.
LEMMA LinearKeeps ==
  ASSUME HashConstants, setup \in Setups, NEW t, NEW S, LinearInv(setup, t, S),
         NEW k \in HashKey, k \notin S
  PROVE  /\ LinearInv(setup, LinearInsert(t, k), S \cup {k})
         /\ Keys(t) \subseteq Keys(LinearInsert(t, k))
<1>1. /\ Probed(setup, t) /\ Keys(t) \subseteq S /\ Cap(t) = LinearCapacity
      /\ IsFiniteSet(S) /\ Size(t) = Least2(Cardinality(S), LinearCapacity)
  BY DEF LinearInv
<1>2. /\ IsFiniteSet(S \cup {k}) /\ Cardinality(S) \in Nat
      /\ Cardinality(S \cup {k}) = Cardinality(S) + 1
  BY <1>1, FS_AddElement, FS_CardinalityType
<1>3. LinearCapacity \in Nat
  BY LoadParts
<1>4. CASE Full(t, k)
  <2>1. Size(t) = LinearCapacity
    BY <1>1, <1>4, RoomLeft
  <2>2. Size(t) = Least2(Cardinality(S \cup {k}), LinearCapacity)
    BY <1>1, <1>2, <1>3, <2>1 DEF Least2
  <2> QED
    BY <1>1, <1>2, <1>4, <2>2 DEF LinearInsert, LinearInv
<1>5. CASE ~Full(t, k)
  <2> DEFINE u == Place(t, k)
  <2>1. Probed(setup, u) /\ Keys(u) = Keys(t) \cup {k} /\ Cap(u) = LinearCapacity
    BY <1>1, <1>5, PlaceKeeps
  <2>2. LinearInsert(t, k) = u
    BY <1>5 DEF LinearInsert
  <2> HIDE DEF u
  <2>3. Size(u) = Cardinality(Keys(t) \cup {k}) /\ Size(u) <= LinearCapacity
    BY <2>1, SizeIsKeys
  <2>4. Size(t) = Cardinality(Keys(t)) /\ IsFiniteSet(Keys(t)) /\ Size(t) \in Nat
    BY <1>1, SizeIsKeys
  <2>5. Size(u) = Size(t) + 1
    BY <1>1, <2>3, <2>4, FS_AddElement
  <2>6. Size(u) = Least2(Cardinality(S \cup {k}), LinearCapacity)
    BY <1>1, <1>2, <1>3, <2>3, <2>4, <2>5 DEF Least2
  <2> QED
    BY <1>1, <1>2, <2>1, <2>2, <2>6 DEF LinearInv
<1> QED
  BY <1>4, <1>5

-----------------------------------------------------------------------------
(* The incremental table. *)

IncShape(x) == x = [cur |-> x.cur, old |-> x.old, cursor |-> x.cursor, copied |-> x.copied,
                    source |-> x.source, live |-> x.live]

IncKeys(x) == Keys(x.cur) \cup Keys(x.old)

\* What has come since the migration began.
New(x) == x.live - x.source

\* In a migration the new table has what has come since and what was copied.
Copying(s, x) ==
  /\ IncShape(x) /\ Probed(s, x.cur) /\ Probed(s, x.old)
  /\ Cap(x.cur) = 2 * Cap(x.old)
  /\ x.cursor \in 0 .. Cap(x.old)
  /\ x.source = Size(x.old)
  /\ x.copied = Cardinality(Before(x.old, x.cursor))
  /\ Keys(x.cur) \cap Keys(x.old) = Before(x.old, x.cursor)
  /\ x.live = Cardinality(Keys(x.cur) \cup Keys(x.old))
  /\ ~OverLoad(x.source, Cap(x.old)) /\ LoadDen <= Cap(x.old) * LoadNum

\* Each insertion since has scanned the budget, until the end was reached.
Pace(s, x) ==
  \/ x.cursor = New(x) * s.budget
  \/ x.cursor = Cap(x.old) /\ Cap(x.old) <= New(x) * s.budget

\* The budget is enough, and the load a whole number of rows.
Enough(s) == s.budget * LoadNum >= LoadDen /\ (InitialCapacity * LoadNum) % LoadDen = 0

Moving(s, x) ==
  /\ Copying(s, x) /\ Pace(s, x)
  /\ Enough(s) => x.cursor < Cap(x.old) /\ x.source * LoadDen = Cap(x.old) * LoadNum

Idle(s, x) ==
  /\ IncShape(x) /\ Probed(s, x.cur) /\ x.old = NoOld /\ x.live = Size(x.cur)
  /\ ~OverLoad(x.live, Cap(x.cur)) /\ LoadDen <= Cap(x.cur) * LoadNum
  /\ Enough(s) => \E r \in Nat : r * LoadDen = Cap(x.cur) * LoadNum

IncInv(s, x) == Idle(s, x) \/ Moving(s, x)

\* No table has no keys, and is none of those there are.
LEMMA NoOldKeys ==
  /\ Keys(NoOld) = {} /\ Cardinality(DOMAIN NoOld) = 0
  /\ \A s, t : Probed(s, t) => t # NoOld
<1>1. DOMAIN NoOld = {}
  BY DEF NoOld
<1>2. Keys(NoOld) = {}
  BY <1>1 DEF Keys
<1>3. ASSUME NEW s, NEW t, Probed(s, t) PROVE t # NoOld
  <2>1. DOMAIN t = 0 .. Cap(t)-1 /\ Cap(t) \in Nat /\ Cap(t) > 0
    BY <1>3, TableShape DEF Probed
  <2>2. 0 \in DOMAIN t
    BY <2>1
  <2> QED
    BY <1>1, <2>2
<1> QED
  BY <1>1, <1>2, <1>3, FS_EmptySet

\* How many rows there are in the midst of a migration.
LEMMA CopyingSizes ==
  ASSUME HashConstants, NEW s \in Setups, NEW x, Copying(s, x)
  PROVE  /\ Cap(x.old) \in Nat /\ Cap(x.old) > 0 /\ x.cursor \in Nat
         /\ x.copied \in Nat /\ x.source \in Nat /\ x.live \in Nat /\ New(x) \in Nat
         /\ x.copied <= x.cursor /\ x.copied <= x.source
         /\ Size(x.cur) = New(x) + x.copied
         /\ x.cursor = Cap(x.old) => x.copied = x.source /\ Keys(x.old) \subseteq Keys(x.cur)
                                     /\ Size(x.cur) = x.live
<1>1. Table(x.old) /\ Cap(x.old) \in Nat /\ Cap(x.old) > 0 /\ x.cursor \in Nat
  BY TableShape DEF Copying, Probed
<1> DEFINE A == Keys(x.cur)
           B == Keys(x.old)
           F == Before(x.old, x.cursor)
<1>2. /\ F \subseteq B /\ IsFiniteSet(F) /\ Cardinality(F) \in Nat
      /\ Cardinality(F) <= x.cursor
  BY <1>1, BeforeNext
<1>3. x.cursor = Cap(x.old) => F = B
  BY <1>1, BeforeNext
<1>4. /\ Size(x.cur) = Cardinality(A) /\ IsFiniteSet(A) /\ Size(x.cur) \in Nat
      /\ x.source = Cardinality(B) /\ IsFiniteSet(B) /\ x.source \in Nat
  BY SizeIsKeys DEF Copying
<1>5. A \cap B = F /\ x.live = Cardinality(A \cup B) /\ x.copied = Cardinality(F)
  BY DEF Copying
<1> HIDE DEF A, B, F
<1>6. x.live = Cardinality(A) + Cardinality(B) - Cardinality(F)
  BY <1>4, <1>5, FS_Union
<1>7. Cardinality(F) <= Cardinality(B) /\ Cardinality(F) <= Cardinality(A)
  BY <1>2, <1>4, <1>5, FS_Subset
<1>8. x.live \in Nat /\ New(x) \in Nat /\ Size(x.cur) = New(x) + x.copied
  BY <1>2, <1>4, <1>5, <1>6, <1>7 DEF New
<1>9. x.cursor = Cap(x.old) => x.copied = x.source /\ B \subseteq A /\ Size(x.cur) = x.live
  BY <1>2, <1>3, <1>4, <1>5, <1>6
<1> QED
  BY <1>1, <1>2, <1>4, <1>5, <1>7, <1>8, <1>9 DEF A, B

\* A source slot is copied.
LEMMA CopiedKeeps ==
  ASSUME HashConstants, setup \in Setups, NEW x, Copying(setup, x),
         x.cursor < Cap(x.old), New(x) <= Cap(x.old)
  PROVE  /\ Copying(setup, Copied(x)) /\ Copied(x).cursor = x.cursor + 1
         /\ Copied(x).old = x.old /\ Copied(x).source = x.source /\ Copied(x).live = x.live
         /\ IncKeys(Copied(x)) = IncKeys(x)
<1> DEFINE k == x.old[x.cursor]
           n == x.cursor
           y == Copied(x)
           u == IF k = NoKey THEN x.cur ELSE Place(x.cur, k)
<1>1. /\ Cap(x.old) \in Nat /\ x.cursor \in Nat /\ x.copied \in Nat /\ New(x) \in Nat
      /\ x.copied <= x.cursor /\ Size(x.cur) = New(x) + x.copied
  BY CopyingSizes
<1>2. /\ IncShape(x) /\ Probed(setup, x.cur) /\ Probed(setup, x.old)
      /\ Cap(x.cur) = 2 * Cap(x.old) /\ x.copied = Cardinality(Before(x.old, n))
      /\ Keys(x.cur) \cap Keys(x.old) = Before(x.old, n)
      /\ x.live = Cardinality(Keys(x.cur) \cup Keys(x.old))
  BY DEF Copying
<1>3. Table(x.old) /\ DOMAIN x.old = 0 .. Cap(x.old)-1 /\ x.old \in [DOMAIN x.old -> HashKey \cup {NoKey}]
  BY <1>2, TableShape DEF Probed
<1>4. n \in DOMAIN x.old /\ k \in HashKey \cup {NoKey} /\ (k # NoKey => k \in Keys(x.old))
  BY <1>1, <1>3 DEF Keys
<1>5. Before(x.old, n+1) = IF k = NoKey THEN Before(x.old, n) ELSE Before(x.old, n) \cup {k}
  BY <1>3, <1>4, BeforeNext
<1>6. k # NoKey => k \notin Before(x.old, n)
  <2> SUFFICES ASSUME k # NoKey, NEW i \in DOMAIN x.old, i < n, x.old[i] = k PROVE FALSE
    BY DEF Before
  <2>1. i = n
    BY <1>2, <1>4, KeyOnce
  <2> QED
    BY <1>1, <1>3, <2>1
<1>7. k # NoKey => k \notin Keys(x.cur)
  BY <1>2, <1>4, <1>6
<1>8. k # NoKey => ~Full(x.cur, k)
  <2>1. Size(x.cur) < Cap(x.cur)
    BY <1>1, <1>2
  <2> QED
    BY <1>2, <1>4, <2>1, RoomLeft
<1>9. /\ Probed(setup, u) /\ Cap(u) = Cap(x.cur)
      /\ Keys(u) = IF k = NoKey THEN Keys(x.cur) ELSE Keys(x.cur) \cup {k}
  BY <1>2, <1>4, <1>8, PlaceKeeps
<1>10. k # NoKey => ~Finds(x.cur, k)
  BY <1>2, <1>4, <1>7, FindsKept
<1>11. y = [x EXCEPT !.cursor = n + 1, !.cur = u,
                     !.copied = IF k = NoKey THEN x.copied ELSE x.copied + 1]
  <2>1. CASE k = NoKey
    BY <1>2, <2>1 DEF Copied, IncShape
  <2>2. CASE k # NoKey
    BY <1>2, <1>10, <2>2 DEF Copied, IncShape
  <2> QED
    BY <2>1, <2>2
<1> HIDE DEF u, y
<1>12. /\ y.cur = u /\ y.old = x.old /\ y.cursor = n + 1 /\ y.source = x.source /\ y.live = x.live
       /\ y.copied = IF k = NoKey THEN x.copied ELSE x.copied + 1
       /\ IncShape(y)
  BY <1>2, <1>11 DEF IncShape
<1>13. IsFiniteSet(Before(x.old, n)) /\ Cardinality(Before(x.old, n)) \in Nat
  BY <1>1, <1>3, BeforeNext
<1>14. y.copied = Cardinality(Before(x.old, n+1))
  <2> DEFINE F == Before(x.old, n)
             G == Before(x.old, n+1)
  <2>1. IsFiniteSet(F) /\ G = (IF k = NoKey THEN F ELSE F \cup {k}) /\ (k # NoKey => k \notin F)
    BY <1>5, <1>6, <1>13
  <2>2. x.copied = Cardinality(F) /\ y.copied = IF k = NoKey THEN x.copied ELSE x.copied + 1
    BY <1>2, <1>12
  <2> HIDE DEF F, G, k
  <2>3. Cardinality(G) = IF k = NoKey THEN Cardinality(F) ELSE Cardinality(F) + 1
    BY <2>1, FS_AddElement
  <2>4. y.copied = Cardinality(G)
    BY <2>2, <2>3
  <2> QED
    BY <2>4 DEF G
<1>15. Keys(u) \cap Keys(x.old) = Before(x.old, n+1)
  BY <1>2, <1>4, <1>5, <1>9
<1>16. Keys(u) \cup Keys(x.old) = Keys(x.cur) \cup Keys(x.old)
  BY <1>4, <1>9
<1>17. n + 1 \in 0 .. Cap(x.old)
  BY <1>1
<1>18. x.source = Size(x.old) /\ ~OverLoad(x.source, Cap(x.old)) /\ LoadDen <= Cap(x.old) * LoadNum
  BY DEF Copying
<1>19. Copying(setup, y)
  BY <1>2, <1>9, <1>12, <1>14, <1>15, <1>16, <1>17, <1>18 DEF Copying
<1> QED
  BY <1>12, <1>16, <1>19 DEF y, IncKeys

\* A migration scans its share.
LEMMA ScannedKeeps ==
  ASSUME HashConstants, setup \in Setups, NEW x, Copying(setup, x),
         x.cursor < Cap(x.old) => New(x) <= Cap(x.old)
  PROVE  /\ Copying(setup, Scanned(x))
         /\ Scanned(x).cursor = Least2(x.cursor + setup.budget, Cap(x.old))
         /\ Scanned(x).old = x.old /\ Scanned(x).source = x.source /\ Scanned(x).live = x.live
         /\ IncKeys(Scanned(x)) = IncKeys(x)
<1> DEFINE C == Cap(x.old)
           B == setup.budget
           Add(u) == IF u.cursor >= C THEN u ELSE Copied(u)
           Run(f, m) == f = [n \in 0 .. m |-> IF n = 0 THEN x ELSE Add(f[n-1])]
           go == CHOOSE f : Run(f, B)
           Good(u, n) == /\ Copying(setup, u) /\ u.cursor = Least2(x.cursor + n, C)
                         /\ u.old = x.old /\ u.source = x.source /\ u.live = x.live
                         /\ IncKeys(u) = IncKeys(x)
<1>1. Scanned(x) = go[B]
  <2>1. x.old # NoOld
    BY NoOldKeys DEF Copying
  <2>2. Scanned(x) = (CHOOSE f : f = [n \in 0 .. setup.budget |->
                        IF n = 0 THEN x
                        ELSE IF f[n-1].cursor >= Cap(x.old) THEN f[n-1] ELSE Copied(f[n-1])])[setup.budget]
    BY <2>1 DEF Scanned
  <2> QED
    BY <2>2
<1>2. C \in Nat /\ C > 0 /\ x.cursor \in Nat /\ x.cursor <= C /\ B \in Nat
  BY CopyingSizes, SetupParts DEF Copying
<1>3. Good(x, 0)
  BY <1>2 DEF Least2
<1>4. ASSUME NEW u, NEW n \in Nat, Good(u, n)
      PROVE  Good(Add(u), n + 1)
  <2>1. u.cursor \in Nat /\ u.cursor <= C /\ Cap(u.old) = C /\ New(u) = New(x)
    BY <1>2, <1>4 DEF Least2, New
  <2>2. CASE u.cursor >= C
    BY <1>2, <1>4, <2>1, <2>2 DEF Least2
  <2>3. CASE u.cursor < C
    <3>1. x.cursor < C /\ u.cursor = x.cursor + n
      BY <1>2, <1>4, <2>3 DEF Least2
    <3>2. New(u) <= Cap(u.old) /\ u.cursor < Cap(u.old)
      BY <2>1, <2>3, <3>1
    <3> DEFINE w == Copied(u)
    <3>3. /\ Copying(setup, w) /\ w.cursor = u.cursor + 1 /\ w.old = u.old
          /\ w.source = u.source /\ w.live = u.live /\ IncKeys(w) = IncKeys(u)
      BY <1>4, <3>2, CopiedKeeps
    <3>4. Add(u) = w
      <4>1. ~(u.cursor >= C)
        BY <1>2, <2>1, <2>3
      <4> QED
        BY <4>1
    <3> HIDE DEF w, Add, C
    <3>5. w.cursor = Least2(x.cursor + (n + 1), C)
      BY <1>2, <2>1, <2>3, <3>1, <3>3 DEF Least2
    <3> QED
      BY <1>4, <3>3, <3>4, <3>5
  <2> QED
    BY <1>2, <2>1, <2>2, <2>3
<1> HIDE DEF Add, C, B, Good
<1>5. \E f : Run(f, B)
  <2> DEFINE S == {m \in Nat : \E f : Run(f, m)}
  <2>1. 0 \in S
    <3>1. Run([n \in 0 .. 0 |-> x], 0)
      OBVIOUS
    <3> QED
      BY <3>1
  <2>2. ASSUME NEW m \in Nat, m \in S
        PROVE  m + 1 \in S
    <3>1. PICK f : Run(f, m)
      BY <2>2
    <3> DEFINE h == [n \in 0 .. m+1 |-> IF n <= m THEN f[n] ELSE Add(f[m])]
    <3>2. \A n \in 0 .. m : f[n] = IF n = 0 THEN x ELSE Add(f[n-1])
      BY <3>1
    <3>3. \A n \in 0 .. m+1 : h[n] = IF n = 0 THEN x ELSE Add(h[n-1])
      BY <3>2
    <3>4. Run(h, m+1)
      BY <3>3
    <3> HIDE DEF h, Run
    <3> QED
      BY <3>4
  <2> HIDE DEF S
  <2>3. Nat \subseteq S
    BY <2>1, <2>2, UpFromZero
  <2> QED
    BY <1>2, <2>3 DEF S
<1>6. Run(go, B)
  BY <1>5
<1> HIDE DEF go
<1>7. \A n \in 0 .. B : go[n] = IF n = 0 THEN x ELSE Add(go[n-1])
  BY <1>6
<1> DEFINE T == {n \in Nat : n <= B => Good(go[n], n)}
<1>8. 0 \in T
  BY <1>2, <1>3, <1>7
<1>9. ASSUME NEW n \in Nat, n \in T
      PROVE  n + 1 \in T
  <2> SUFFICES ASSUME n + 1 <= B PROVE Good(go[n+1], n+1)
    OBVIOUS
  <2>1. Good(go[n], n) /\ n + 1 \in 0 .. B /\ (n + 1) - 1 = n /\ n + 1 # 0
    BY <1>2, <1>9
  <2>2. go[n+1] = Add(go[n])
    BY <1>7, <2>1
  <2> QED
    BY <1>4, <2>1, <2>2
<1> HIDE DEF T
<1>10. Nat \subseteq T
  BY <1>8, <1>9, UpFromZero
<1>11. Good(go[B], B)
  BY <1>2, <1>10 DEF T
<1> QED
  BY <1>1, <1>11 DEF Good, C, B

\* A new key is put into the new table.
LEMMA PutKeeps ==
  ASSUME HashConstants, setup \in Setups, NEW x, Copying(setup, x),
         NEW k \in HashKey, k \notin IncKeys(x), ~Full(x.cur, k),
         NEW z, z = [x EXCEPT !.cur = Place(x.cur, k), !.live = @ + 1]
  PROVE  /\ Copying(setup, z) /\ IncKeys(z) = IncKeys(x) \cup {k} /\ New(z) = New(x) + 1
         /\ z.old = x.old /\ z.cursor = x.cursor /\ z.source = x.source
<1>1. /\ IncShape(x) /\ Probed(setup, x.cur) /\ Probed(setup, x.old)
      /\ Keys(x.cur) \cap Keys(x.old) = Before(x.old, x.cursor)
      /\ x.live = Cardinality(Keys(x.cur) \cup Keys(x.old))
  BY DEF Copying
<1>2. PICK u : u = Place(x.cur, k)
  OBVIOUS
<1>3. Probed(setup, u) /\ Keys(u) = Keys(x.cur) \cup {k} /\ Cap(u) = Cap(x.cur)
  BY <1>1, <1>2, PlaceKeeps
<1>4. z = [x EXCEPT !.cur = u, !.live = x.live + 1]
  BY <1>2
<1>5. /\ z.cur = u /\ z.old = x.old /\ z.cursor = x.cursor /\ z.source = x.source
      /\ z.copied = x.copied /\ z.live = x.live + 1 /\ IncShape(z)
  BY <1>1, <1>4 DEF IncShape
<1>6. k \notin Keys(x.cur) \cup Keys(x.old)
  BY DEF IncKeys
<1>7. Keys(u) \cap Keys(x.old) = Before(x.old, x.cursor)
  BY <1>1, <1>3, <1>6
<1>8. Cardinality(Keys(u) \cup Keys(x.old)) = x.live + 1
  <2>1. Keys(u) \cup Keys(x.old) = (Keys(x.cur) \cup Keys(x.old)) \cup {k}
    BY <1>3
  <2>2. IsFiniteSet(Keys(x.cur)) /\ IsFiniteSet(Keys(x.old))
    BY <1>1, SizeIsKeys
  <2>3. IsFiniteSet(Keys(x.cur) \cup Keys(x.old))
    BY <2>2, FS_Union
  <2> QED
    BY <1>1, <1>6, <2>1, <2>3, FS_AddElement
<1>9. x.live \in Nat /\ x.source \in Nat
  BY CopyingSizes
<1>10. Copying(setup, z)
  BY <1>1, <1>3, <1>5, <1>7, <1>8 DEF Copying
<1>11. IncKeys(z) = IncKeys(x) \cup {k}
  BY <1>3, <1>5 DEF IncKeys
<1> QED
  BY <1>5, <1>9, <1>10, <1>11 DEF New

\* A table at rest is idle until one more row would be too many: then it moves.
LEMMA StartedKeeps ==
  ASSUME HashConstants, setup \in Setups, NEW x, IncInv(setup, x)
  PROVE  /\ IncKeys(Started(x)) = IncKeys(x) /\ Started(x).live = x.live
         /\ \/ Moving(setup, Started(x))
            \/ Idle(setup, Started(x)) /\ ~OverLoad(x.live + 1, Cap(x.cur)) /\ Started(x) = x
<1>1. CASE Moving(setup, x)
  <2>1. x.old # NoOld
    BY <1>1, NoOldKeys DEF Moving, Copying
  <2> QED
    BY <1>1, <2>1 DEF Started
<1>2. CASE Idle(setup, x) /\ ~OverLoad(x.live + 1, Cap(x.cur))
  BY <1>2 DEF Started
<1>3. CASE Idle(setup, x) /\ OverLoad(x.live + 1, Cap(x.cur))
  <2> DEFINE y == Started(x)
             t == EmptySlots(2 * Cap(x.cur))
  <2>1. /\ IncShape(x) /\ Probed(setup, x.cur) /\ x.old = NoOld /\ x.live = Size(x.cur)
        /\ ~OverLoad(x.live, Cap(x.cur)) /\ LoadDen <= Cap(x.cur) * LoadNum
        /\ Enough(setup) => \E r \in Nat : r * LoadDen = Cap(x.cur) * LoadNum
    BY <1>3 DEF Idle
  <2>2. y = [x EXCEPT !.cur = t, !.old = x.cur, !.cursor = 0, !.copied = 0, !.source = Size(x.cur)]
    BY <1>3, <2>1 DEF Started
  <2>3. Table(x.cur) /\ Cap(x.cur) \in Nat /\ Cap(x.cur) > 0
    BY <2>1, TableShape DEF Probed
  <2>4. Probed(setup, t) /\ Keys(t) = {} /\ Cap(t) = 2 * Cap(x.cur)
    <3>1. 2 * Cap(x.cur) \in Nat /\ 2 * Cap(x.cur) > 0
      BY <2>3
    <3> QED
      BY <3>1, EmptyProbed
  <2>5. x.live \in Nat /\ x.live = Cardinality(Keys(x.cur))
    BY <2>1, SizeIsKeys
  <2> HIDE DEF t, y
  <2>6. /\ y.cur = t /\ y.old = x.cur /\ y.cursor = 0 /\ y.copied = 0 /\ y.source = Size(x.cur)
        /\ y.live = x.live /\ IncShape(y)
    BY <2>1, <2>2 DEF IncShape
  <2>7. Before(x.cur, 0) = {} /\ Cardinality({}) = 0
    BY <2>3, BeforeNext, FS_EmptySet
  <2>8. Keys(t) \cap Keys(x.cur) = {} /\ Keys(t) \cup Keys(x.cur) = Keys(x.cur)
    BY <2>4
  <2>9. 0 \in 0 .. Cap(x.cur)
    BY <2>3
  <2>10. Copying(setup, y)
    BY <2>1, <2>4, <2>5, <2>6, <2>7, <2>8, <2>9 DEF Copying
  <2>11. New(y) = 0 /\ Pace(setup, y)
    <3>1. y.live = x.live /\ y.source = x.live /\ y.cursor = 0 /\ setup.budget \in Nat
      BY <2>1, <2>6, SetupParts
    <3>2. New(y) = 0
      BY <2>5, <3>1 DEF New
    <3>3. y.cursor = New(y) * setup.budget
      BY <3>1, <3>2
    <3> QED
      BY <3>2, <3>3 DEF Pace
  <2>12. ASSUME Enough(setup)
         PROVE  y.cursor < Cap(y.old) /\ y.source * LoadDen = Cap(y.old) * LoadNum
    <3>1. PICK r \in Nat : r * LoadDen = Cap(x.cur) * LoadNum
      BY <2>1, <2>12
    <3>2. PICK n \in Nat : n = x.live
      BY <2>5
    <3>3. n * LoadDen <= r * LoadDen /\ r * LoadDen < (n + 1) * LoadDen
      BY <1>3, <2>1, <2>3, <3>1, <3>2, LoadParts DEF OverLoad
    <3>4. n = r
      <4> DEFINE d == LoadDen
      <4>1. d \in Nat /\ d > 0 /\ n * d <= r * d /\ r * d < (n + 1) * d
        BY <3>3, LoadParts
      <4> HIDE DEF d
      <4>2. ASSUME n > r PROVE FALSE
        <5>1. (n - r - 1) * d >= 0 /\ n * d = (n - r - 1) * d + r * d + d
          BY <4>1, <4>2
        <5> QED
          BY <4>1, <5>1
      <4>3. ASSUME r > n PROVE FALSE
        <5>1. (r - n - 1) * d >= 0 /\ r * d = (r - n - 1) * d + (n + 1) * d
          BY <4>1, <4>3
        <5> QED
          BY <4>1, <5>1
      <4> QED
        BY <4>2, <4>3
    <3> QED
      BY <2>1, <2>3, <2>6, <3>1, <3>2, <3>4
  <2>13. Moving(setup, y)
    BY <2>10, <2>11, <2>12 DEF Moving
  <2>14. IncKeys(y) = IncKeys(x)
    BY <2>1, <2>6, <2>8, NoOldKeys DEF IncKeys
  <2> QED
    BY <2>6, <2>13, <2>14 DEF y
<1> QED
  BY <1>1, <1>2, <1>3 DEF IncInv

\* The numbers of one insertion: n rows came before it, b slots are scanned a time.
LEMMA PaceGrows ==
  ASSUME NEW n \in Nat, NEW b \in Nat, b > 0, NEW c \in Nat, c > 0, NEW p \in Nat, p <= c,
         p = n * b \/ (p = c /\ c <= n * b)
  PROVE  /\ p < c => n + 1 <= c
         /\ \/ Least2(p + b, c) = (n + 1) * b
            \/ Least2(p + b, c) = c /\ c <= (n + 1) * b
<1>1. (n + 1) * b = n * b + b /\ n * b \in Nat
  OBVIOUS
<1>2. n <= n * b
  <2>1. n * (b - 1) >= 0 /\ n * (b - 1) = n * b - n
    OBVIOUS
  <2> QED
    BY <2>1
<1>3. PICK m \in Nat : m = n * b
  BY <1>1
<1> QED
  BY <1>1, <1>2, <1>3 DEF Least2

\* With enough budget the rows since are fewer than those that move.
LEMMA EnoughPace ==
  ASSUME NEW n \in Nat, NEW b \in Nat, NEW c \in Nat, NEW r \in Nat,
         NEW a \in Nat, a > 0, NEW d \in Nat, d > 0, a <= d,
         b * a >= d, r * d = c * a, n * b < c
  PROVE  n < r /\ r <= c /\ \A m \in Nat : m <= 2 * r => m * d <= (2 * c) * a
<1>1. r <= c
  <2> SUFFICES ASSUME c < r PROVE FALSE
    OBVIOUS
  <2>1. (r - c - 1) * d >= 0 /\ (r - c - 1) * d = r * d - c * d - d
    OBVIOUS
  <2>2. c * (d - a) >= 0 /\ c * (d - a) = c * d - c * a
    OBVIOUS
  <2> QED
    BY <2>1, <2>2
<1>2. n < r
  <2> SUFFICES ASSUME r <= n PROVE FALSE
    OBVIOUS
  <2>1. (n - r) * d >= 0 /\ (n - r) * d = n * d - r * d
    OBVIOUS
  <2>2. n * (b * a - d) >= 0 /\ n * (b * a - d) = (n * b) * a - n * d
    OBVIOUS
  <2>3. (c - n * b - 1) * a >= 0 /\ (c - n * b - 1) * a = c * a - (n * b) * a - a
    OBVIOUS
  <2> QED
    BY <2>1, <2>2, <2>3
<1>3. ASSUME NEW m \in Nat, m <= 2 * r PROVE m * d <= (2 * c) * a
  <2>1. (2 * r - m) * d >= 0 /\ (2 * r - m) * d = 2 * (r * d) - m * d /\ (2 * c) * a = 2 * (c * a)
    BY <1>3
  <2> QED
    BY <2>1
<1> QED
  BY <1>1, <1>2, <1>3

\* The end of an insertion during a migration: it goes on, or it is over and exact.
LEMMA SteppedKeeps ==
  ASSUME HashConstants, setup \in Setups, NEW w, Copying(setup, w), Pace(setup, w),
         Enough(setup) => /\ w.source * LoadDen = Cap(w.old) * LoadNum
                          /\ ~OverLoad(Size(w.cur), Cap(w.cur))
  PROVE  /\ IncInv(setup, Stepped(w).table) /\ IncKeys(Stepped(w).table) = IncKeys(w)
         /\ Stepped(w).how \in {"ok", "overloaded"}
         /\ Enough(setup) => Stepped(w).how = "ok"
<1>1. /\ IncShape(w) /\ Probed(setup, w.cur) /\ w.old # NoOld /\ Cap(w.cur) = 2 * Cap(w.old)
      /\ LoadDen <= Cap(w.old) * LoadNum /\ w.cursor <= Cap(w.old)
  BY NoOldKeys DEF Copying
<1>2. /\ Cap(w.old) \in Nat /\ Cap(w.old) > 0 /\ w.cursor \in Nat /\ w.source \in Nat
      /\ w.cursor = Cap(w.old) => w.copied = w.source /\ Keys(w.old) \subseteq Keys(w.cur)
                                  /\ Size(w.cur) = w.live
  BY CopyingSizes
<1>3. CASE OverLoad(Size(w.cur), Cap(w.cur))
  <2>1. Stepped(w) = [table |-> w, how |-> "overloaded"] /\ ~Enough(setup)
    BY <1>1, <1>3 DEF Stepped
  <2>2. Moving(setup, w)
    BY <2>1 DEF Moving
  <2> QED
    BY <2>1, <2>2 DEF IncInv
<1>4. CASE ~OverLoad(Size(w.cur), Cap(w.cur)) /\ w.cursor < Cap(w.old)
  <2>1. Stepped(w) = [table |-> w, how |-> "ok"]
    BY <1>1, <1>4 DEF Stepped
  <2>2. Moving(setup, w)
    BY <1>4 DEF Moving
  <2> QED
    BY <2>1, <2>2 DEF IncInv
<1>5. CASE ~OverLoad(Size(w.cur), Cap(w.cur)) /\ ~(w.cursor < Cap(w.old))
  <2>1. w.cursor = Cap(w.old)
    BY <1>1, <1>2, <1>5
  <2>2. MigrationExact(w)
    BY <1>2, <2>1 DEF MigrationExact
  <2>3. PICK v : v = [w EXCEPT !.old = NoOld, !.cursor = 0, !.copied = 0, !.source = 0]
    OBVIOUS
  <2>4. Stepped(w) = [table |-> v, how |-> "ok"]
    BY <1>1, <1>5, <2>2, <2>3 DEF Stepped
  <2>5. v.cur = w.cur /\ v.old = NoOld /\ v.live = w.live /\ IncShape(v)
    BY <1>1, <2>3 DEF IncShape
  <2>6. LoadDen <= Cap(w.cur) * LoadNum
    BY <1>1, <1>2, LoadParts, LoadGrows
  <2>7. ASSUME Enough(setup) PROVE \E r \in Nat : r * LoadDen = Cap(w.cur) * LoadNum
    <3>1. w.source * LoadDen = Cap(w.old) * LoadNum
      BY <2>7
    <3>2. 2 * w.source \in Nat /\ (2 * w.source) * LoadDen = (2 * Cap(w.old)) * LoadNum
      BY <1>2, <3>1, LoadParts
    <3> QED
      BY <1>1, <3>2
  <2>8. Idle(setup, v)
    BY <1>1, <1>2, <1>5, <2>1, <2>5, <2>6, <2>7 DEF Idle
  <2>9. IncKeys(v) = IncKeys(w)
    BY <1>2, <2>1, <2>5, NoOldKeys DEF IncKeys
  <2> QED
    BY <2>4, <2>8, <2>9 DEF IncInv
<1> QED
  BY <1>3, <1>4, <1>5

\* In mid migration a budget that is enough leaves room for one more.
LEMMA MovingRoom ==
  ASSUME HashConstants, setup \in Setups, NEW x, Moving(setup, x), Enough(setup)
  PROVE  /\ New(x) < x.source /\ Size(x.cur) < Cap(x.cur)
         /\ \A m \in Nat : m <= 2 * x.source => ~OverLoad(m, Cap(x.cur))
<1>1. /\ Cap(x.old) \in Nat /\ Cap(x.old) > 0 /\ x.cursor \in Nat /\ x.copied \in Nat
      /\ x.source \in Nat /\ New(x) \in Nat /\ x.copied <= x.source
      /\ Size(x.cur) = New(x) + x.copied
  BY CopyingSizes DEF Moving
<1>2. x.cursor < Cap(x.old) /\ x.source * LoadDen = Cap(x.old) * LoadNum
      /\ Cap(x.cur) = 2 * Cap(x.old)
  BY DEF Moving, Copying
<1>3. New(x) * setup.budget < Cap(x.old)
  BY <1>1, <1>2 DEF Moving, Pace
<1>4. setup.budget * LoadNum >= LoadDen /\ setup.budget \in Nat
  BY SetupParts DEF Enough
<1>5. /\ New(x) < x.source /\ x.source <= Cap(x.old)
      /\ \A m \in Nat : m <= 2 * x.source => m * LoadDen <= (2 * Cap(x.old)) * LoadNum
  <2> DEFINE n == New(x)
             b == setup.budget
             c == Cap(x.old)
             r == x.source
  <2>1. /\ n \in Nat /\ b \in Nat /\ c \in Nat /\ r \in Nat
        /\ b * LoadNum >= LoadDen /\ r * LoadDen = c * LoadNum /\ n * b < c
    BY <1>1, <1>2, <1>3, <1>4
  <2>2. LoadNum \in Nat /\ LoadNum > 0 /\ LoadDen \in Nat /\ LoadDen > 0 /\ LoadNum <= LoadDen
    BY LoadParts
  <2> HIDE DEF n, b, c, r
  <2>3. n < r /\ r <= c /\ \A m \in Nat : m <= 2 * r => m * LoadDen <= (2 * c) * LoadNum
    BY <2>1, <2>2, EnoughPace
  <2> QED
    BY <2>3 DEF n, c, r
<1>6. \A m \in Nat : m <= 2 * x.source => ~OverLoad(m, Cap(x.cur))
  <2> SUFFICES ASSUME NEW m \in Nat, m <= 2 * x.source PROVE ~(m * LoadDen > Cap(x.cur) * LoadNum)
    BY DEF OverLoad
  <2>1. m * LoadDen <= Cap(x.cur) * LoadNum
    BY <1>2, <1>5
  <2>2. m * LoadDen \in Int /\ Cap(x.cur) * LoadNum \in Int
    BY <1>1, <1>2, LoadParts
  <2> QED
    BY <2>1, <2>2
<1> QED
  BY <1>1, <1>2, <1>5, <1>6

\* A lookup in both tables finds the keys there are, each counted once.
LEMMA IncFindsKept ==
  ASSUME HashConstants, setup \in Setups, NEW x, IncInv(setup, x)
  PROVE  /\ \A k \in HashKey : IncFinds(x, k) <=> k \in IncKeys(x)
         /\ IncKeys(x) \subseteq HashKey /\ Cardinality(IncKeys(x)) = x.live
         /\ 2 * (Cap(x.cur) + Cardinality(DOMAIN x.old)) <= 3 * Cap(x.cur)
<1>1. CASE Idle(setup, x)
  <2>1. Probed(setup, x.cur) /\ x.old = NoOld /\ x.live = Size(x.cur)
    BY <1>1 DEF Idle
  <2>2. IncKeys(x) = Keys(x.cur)
    BY <2>1, NoOldKeys DEF IncKeys
  <2>3. \A k \in HashKey : IncFinds(x, k) <=> k \in IncKeys(x)
    BY <2>1, <2>2, FindsKept DEF IncFinds
  <2>4. Size(x.cur) = Cardinality(Keys(x.cur)) /\ Keys(x.cur) \subseteq HashKey
    BY <2>1, SizeIsKeys
  <2>5. Cap(x.cur) \in Nat /\ Cardinality(DOMAIN x.old) = 0
    BY <2>1, NoOldKeys, TableShape DEF Probed
  <2> QED
    BY <2>1, <2>2, <2>3, <2>4, <2>5
<1>2. CASE Moving(setup, x)
  <2>1. /\ Probed(setup, x.cur) /\ Probed(setup, x.old) /\ x.old # NoOld
        /\ x.live = Cardinality(IncKeys(x)) /\ Cap(x.cur) = 2 * Cap(x.old)
    BY <1>2, NoOldKeys DEF Moving, Copying, IncKeys
  <2>2. \A k \in HashKey : IncFinds(x, k) <=> k \in IncKeys(x)
    BY <2>1, FindsKept DEF IncFinds, IncKeys
  <2>3. Keys(x.cur) \subseteq HashKey /\ Keys(x.old) \subseteq HashKey
    BY <2>1, SizeIsKeys
  <2>4. Cap(x.old) \in Nat /\ Cardinality(DOMAIN x.old) = Cap(x.old)
    BY <2>1, TableShape DEF Probed, Cap
  <2> QED
    BY <2>1, <2>2, <2>3, <2>4 DEF IncKeys
<1> QED
  BY <1>1, <1>2 DEF IncInv

\* An insertion adds its key or changes nothing, and raises only for want of budget.
LEMMA IncInsertKeeps ==
  ASSUME HashConstants, setup \in Setups, NEW x, IncInv(setup, x), NEW k \in HashKey,
         NEW r, r = IncInsert(x, k)
  PROVE  /\ IncInv(setup, r.table)
         /\ k \in IncKeys(x) => r = [table |-> x, how |-> "duplicate"]
         /\ k \notin IncKeys(x) =>
              /\ r.how \in {"full", "overloaded", "ok"}
              /\ Enough(setup) => r.how = "ok"
              /\ IncKeys(r.table) = IF r.how = "full" THEN IncKeys(x) ELSE IncKeys(x) \cup {k}
<1>1. CASE k \in IncKeys(x)
  <2>1. r = [table |-> x, how |-> "duplicate"]
    BY <1>1, IncFindsKept DEF IncInsert
  <2> QED
    BY <1>1, <2>1
<1>2. CASE k \notin IncKeys(x)
  <2>1. PICK y : y = Started(x)
    OBVIOUS
  <2>2. /\ IncKeys(y) = IncKeys(x) /\ y.live = x.live
        /\ \/ Moving(setup, y)
           \/ Idle(setup, y) /\ ~OverLoad(x.live + 1, Cap(x.cur)) /\ y = x
    BY <2>1, StartedKeeps
  <2>3. PICK z : z = [y EXCEPT !.cur = Place(y.cur, k), !.live = @ + 1]
    OBVIOUS
  <2>4. ~IncFinds(x, k)
    BY <1>2, IncFindsKept
  <2>5. r = IF Full(y.cur, k) THEN [table |-> y, how |-> "full"] ELSE Stepped(Scanned(z))
    BY <2>1, <2>3, <2>4 DEF IncInsert
  <2>6. IncInv(setup, y)
    BY <2>2 DEF IncInv
  <2>7. CASE Idle(setup, y) /\ ~OverLoad(y.live + 1, Cap(y.cur))
    <3>1. /\ IncShape(y) /\ Probed(setup, y.cur) /\ y.old = NoOld /\ y.live = Size(y.cur)
          /\ LoadDen <= Cap(y.cur) * LoadNum
          /\ Enough(setup) => \E n \in Nat : n * LoadDen = Cap(y.cur) * LoadNum
      BY <2>7 DEF Idle
    <3>2. Cap(y.cur) \in Nat /\ Cap(y.cur) > 0 /\ Size(y.cur) \in Nat
      BY <3>1, TableShape, SizeIsKeys DEF Probed
    <3>3. (Size(y.cur) + 1) * LoadDen <= Cap(y.cur) * LoadNum
      BY <2>7, <3>1, <3>2, LoadParts DEF OverLoad
    <3>4. Size(y.cur) < Cap(y.cur)
      BY <3>2, <3>3, LoadParts, LoadGrows
    <3>5. ~Full(y.cur, k)
      BY <3>1, <3>4, RoomLeft
    <3>6. PICK u : u = Place(y.cur, k)
      OBVIOUS
    <3>7. Probed(setup, u) /\ Keys(u) = Keys(y.cur) \cup {k} /\ Cap(u) = Cap(y.cur)
      BY <3>1, <3>5, <3>6, PlaceKeeps
    <3>8. z.cur = u /\ z.old = NoOld /\ z.live = y.live + 1 /\ IncShape(z)
      BY <2>3, <3>1, <3>6 DEF IncShape
    <3>9. k \notin Keys(y.cur)
      BY <1>2, <2>2 DEF IncKeys
    <3>10. Size(u) = Size(y.cur) + 1
      <4>1. Size(u) = Cardinality(Keys(y.cur) \cup {k}) /\ Size(y.cur) = Cardinality(Keys(y.cur))
            /\ IsFiniteSet(Keys(y.cur))
        BY <3>1, <3>7, SizeIsKeys
      <4> QED
        BY <3>9, <4>1, FS_AddElement
    <3>11. Idle(setup, z)
      BY <2>7, <3>1, <3>7, <3>8, <3>10 DEF Idle
    <3>12. r = [table |-> z, how |-> "ok"]
      BY <2>5, <3>5, <3>8 DEF Scanned, Stepped
    <3>13. IncKeys(z) = IncKeys(x) \cup {k}
      BY <2>2, <3>1, <3>7, <3>8, NoOldKeys DEF IncKeys
    <3> QED
      BY <1>2, <3>11, <3>12, <3>13 DEF IncInv
  <2>8. CASE Moving(setup, y) /\ Full(y.cur, k)
    <3>1. r = [table |-> y, how |-> "full"]
      BY <2>5, <2>8
    <3>2. ~Enough(setup)
      <4> SUFFICES ASSUME Enough(setup) PROVE FALSE
        OBVIOUS
      <4>1. Size(y.cur) < Cap(y.cur) /\ Probed(setup, y.cur)
        BY <2>8, MovingRoom DEF Moving, Copying
      <4> QED
        BY <2>8, <4>1, RoomLeft
    <3> QED
      BY <1>2, <2>2, <2>6, <3>1, <3>2
  <2>9. CASE Moving(setup, y) /\ ~Full(y.cur, k)
    <3>1. Copying(setup, y) /\ Pace(setup, y)
      BY <2>9 DEF Moving
    <3>2. k \notin IncKeys(y)
      BY <1>2, <2>2
    <3>3. /\ Copying(setup, z) /\ IncKeys(z) = IncKeys(y) \cup {k} /\ New(z) = New(y) + 1
          /\ z.old = y.old /\ z.cursor = y.cursor /\ z.source = y.source
      BY <2>3, <2>9, <3>1, <3>2, PutKeeps
    <3>4. /\ Cap(y.old) \in Nat /\ Cap(y.old) > 0 /\ y.cursor \in Nat /\ New(y) \in Nat
          /\ y.cursor <= Cap(y.old) /\ setup.budget \in Nat /\ setup.budget > 0
      BY <3>1, CopyingSizes, SetupParts DEF Copying
    <3>5. /\ y.cursor < Cap(y.old) => New(y) + 1 <= Cap(y.old)
          /\ \/ Least2(y.cursor + setup.budget, Cap(y.old)) = (New(y) + 1) * setup.budget
             \/ /\ Least2(y.cursor + setup.budget, Cap(y.old)) = Cap(y.old)
                /\ Cap(y.old) <= (New(y) + 1) * setup.budget
      <4> DEFINE n == New(y)
                 b == setup.budget
                 c == Cap(y.old)
                 p == y.cursor
      <4>1. /\ n \in Nat /\ b \in Nat /\ b > 0 /\ c \in Nat /\ c > 0 /\ p \in Nat /\ p <= c
            /\ p = n * b \/ (p = c /\ c <= n * b)
        BY <3>1, <3>4 DEF Pace
      <4> HIDE DEF n, b, c, p
      <4>2. /\ p < c => n + 1 <= c
            /\ \/ Least2(p + b, c) = (n + 1) * b
               \/ Least2(p + b, c) = c /\ c <= (n + 1) * b
        BY <4>1, PaceGrows
      <4> QED
        BY <4>2 DEF n, b, c, p
    <3>6. PICK w : w = Scanned(z)
      OBVIOUS
    <3>7. /\ Copying(setup, w) /\ w.cursor = Least2(z.cursor + setup.budget, Cap(z.old))
          /\ w.old = z.old /\ w.source = z.source /\ w.live = z.live /\ IncKeys(w) = IncKeys(z)
      <4>1. z.cursor < Cap(z.old) => New(z) <= Cap(z.old)
        BY <3>3, <3>5
      <4> QED
        BY <3>3, <3>6, <4>1, ScannedKeeps
    <3>8. New(w) = New(y) + 1
      BY <3>3, <3>7 DEF New
    <3>9. Pace(setup, w)
      BY <3>3, <3>5, <3>7, <3>8 DEF Pace
    <3>10. ASSUME Enough(setup)
           PROVE  /\ w.source * LoadDen = Cap(w.old) * LoadNum
                  /\ ~OverLoad(Size(w.cur), Cap(w.cur))
      <4>1. y.source * LoadDen = Cap(y.old) * LoadNum
        BY <2>9, <3>10 DEF Moving
      <4>2. New(y) < y.source /\ \A m \in Nat : m <= 2 * y.source => ~OverLoad(m, Cap(y.cur))
        BY <2>9, <3>10, MovingRoom
      <4>3. /\ Size(w.cur) = New(w) + w.copied /\ w.copied <= w.source /\ New(w) \in Nat
            /\ w.copied \in Nat /\ w.source \in Nat
        BY <3>7, CopyingSizes
      <4>4. Size(w.cur) \in Nat /\ Size(w.cur) <= 2 * y.source
        BY <3>3, <3>4, <3>7, <3>8, <4>2, <4>3
      <4>5. Cap(w.cur) = Cap(y.cur)
        BY <3>1, <3>3, <3>7 DEF Copying
      <4> QED
        BY <3>3, <3>7, <4>1, <4>2, <4>4, <4>5
    <3>11. /\ IncInv(setup, Stepped(w).table) /\ IncKeys(Stepped(w).table) = IncKeys(w)
           /\ Stepped(w).how \in {"ok", "overloaded"}
           /\ Enough(setup) => Stepped(w).how = "ok"
      BY <3>7, <3>9, <3>10, SteppedKeeps
    <3>12. r = Stepped(w)
      BY <2>5, <2>9, <3>6
    <3> QED
      BY <1>2, <2>2, <3>3, <3>7, <3>11, <3>12
  <2> QED
    BY <2>2, <2>7, <2>8, <2>9
<1> QED
  BY <1>1, <1>2

-----------------------------------------------------------------------------
(* The cuckoo table.  Domain d has hashes of its own. *)

PairOf(s, d, k) == LET p == s.pairs[d][k]
                   IN  <<p[1], IF p[2] = p[1] THEN (p[2] + 1) % s.buckets ELSE p[2]>>

InBucket(c, k) == \E b \in DOMAIN c.bucket : \E i \in DOMAIN c.bucket[b] : c.bucket[b][i] = k
InStash(c, k)  == \E i \in DOMAIN c.stash : c.stash[i] = k
Held(c)        == {k \in HashKey : InBucket(c, k) \/ InStash(c, k)}

CuckooTable(s, c) ==
  /\ c = [bucket |-> c.bucket, stash |-> c.stash]
  /\ c.bucket \in [0 .. s.buckets-1 -> [0 .. s.size-1 -> HashKey \cup {NoKey}]]
  /\ c.stash \in Seq(HashKey) /\ Len(c.stash) <= s.stash

\* A bucket is filled from its first slot on.
Packed(s, c) ==
  \A b \in 0 .. s.buckets-1, i, j \in 0 .. s.size-1 :
    c.bucket[b][i] # NoKey /\ j < i => c.bucket[b][j] # NoKey

\* A key is in a bucket of its pair.
Owned(s, d, c) ==
  \A b \in 0 .. s.buckets-1, i \in 0 .. s.size-1 :
    c.bucket[b][i] # NoKey =>
      b = PairOf(s, d, c.bucket[b][i])[1] \/ b = PairOf(s, d, c.bucket[b][i])[2]

\* No key is in two places.
Once(s, c) ==
  /\ \A a, b \in 0 .. s.buckets-1, i, j \in 0 .. s.size-1 :
       c.bucket[a][i] = c.bucket[b][j] /\ c.bucket[a][i] # NoKey => a = b /\ i = j
  /\ \A i, j \in DOMAIN c.stash : c.stash[i] = c.stash[j] => i = j
  /\ \A b \in 0 .. s.buckets-1, i \in 0 .. s.size-1, j \in DOMAIN c.stash :
       c.bucket[b][i] # c.stash[j]

CuckooInv(s, d, c) == CuckooTable(s, c) /\ Packed(s, c) /\ Owned(s, d, c) /\ Once(s, c)

\* The two buckets of a key.
LEMMA PairIs ==
  ASSUME HashConstants, setup \in Setups, NEW d \in 1 .. Domains, NEW k \in HashKey
  PROVE  /\ Pair(d, k) = PairOf(setup, d, k)
         /\ Pair(d, k)[1] \in 0 .. setup.buckets-1 /\ Pair(d, k)[2] \in 0 .. setup.buckets-1
<1> DEFINE p == setup.pairs[d][k]
           n == setup.buckets
<1>1. p \in (0 .. n-1) \X (0 .. n-1) /\ n \in Nat /\ n > 1
  BY SetupParts
<1>2. Pair(d, k) = <<p[1], IF p[2] = p[1] THEN (p[2] + 1) % n ELSE p[2]>>
  BY DEF Pair
<1>3. PairOf(setup, d, k) = <<p[1], IF p[2] = p[1] THEN (p[2] + 1) % n ELSE p[2]>>
  BY DEF PairOf
<1> HIDE DEF p, n
<1>4. p[1] \in 0 .. n-1 /\ p[2] \in 0 .. n-1
  BY <1>1
<1>5. (p[2] + 1) % n \in 0 .. n-1
  BY <1>1, <1>4
<1> QED
  BY <1>2, <1>3, <1>4, <1>5 DEF n

\* An empty cuckoo table.
LEMMA FreshCuckooInv ==
  ASSUME HashConstants, setup \in Setups, NEW d
  PROVE  CuckooInv(setup, d, FreshCuckoo) /\ Held(FreshCuckoo) = {}
<1> DEFINE c == FreshCuckoo
<1>1. setup.buckets \in Nat /\ setup.size \in Nat /\ setup.stash \in Nat /\ NoKey \notin HashKey
  BY SetupParts, LoadParts
<1>2. /\ c.bucket = [b \in 0 .. setup.buckets-1 |-> [i \in 0 .. setup.size-1 |-> NoKey]]
      /\ c.stash = <<>> /\ c = [bucket |-> c.bucket, stash |-> c.stash]
  BY DEF FreshCuckoo, EmptySlots
<1> HIDE DEF c
<1>3. c.stash \in Seq(HashKey) /\ Len(c.stash) = 0 /\ DOMAIN c.stash = {}
  BY <1>2
<1>4. c.bucket \in [0 .. setup.buckets-1 -> [0 .. setup.size-1 -> HashKey \cup {NoKey}]]
  BY <1>2
<1>5. \A b \in 0 .. setup.buckets-1, i \in 0 .. setup.size-1 : c.bucket[b][i] = NoKey
  BY <1>2
<1>6. CuckooTable(setup, c)
  BY <1>1, <1>2, <1>3, <1>4 DEF CuckooTable
<1>7. Packed(setup, c) /\ Owned(setup, d, c) /\ Once(setup, c)
  BY <1>3, <1>5 DEF Packed, Owned, Once
<1>8. Held(c) = {}
  <2>1. DOMAIN c.bucket = 0 .. setup.buckets-1
        /\ \A b \in 0 .. setup.buckets-1 : DOMAIN c.bucket[b] = 0 .. setup.size-1
    BY <1>4
  <2>2. \A k : InBucket(c, k) => k = NoKey
    BY <1>5, <2>1 DEF InBucket
  <2>3. \A k : ~InStash(c, k)
    BY <1>3 DEF InStash
  <2> QED
    BY <1>1, <2>2, <2>3 DEF Held
<1> QED
  BY <1>6, <1>7, <1>8 DEF CuckooInv, c

\* A lookup finds the keys that are held.
LEMMA CuckooFindsHeld ==
  ASSUME HashConstants, setup \in Setups, NEW d \in 1 .. Domains, NEW c, CuckooInv(setup, d, c),
         NEW k \in HashKey
  PROVE  CuckooFinds(d, c, k) <=> k \in Held(c)
<1> DEFINE B == 0 .. setup.buckets-1
           Z == 0 .. setup.size-1
<1>1. c.bucket \in [B -> [Z -> HashKey \cup {NoKey}]] /\ k # NoKey /\ Z \subseteq Nat
  BY SetupParts, LoadParts DEF CuckooInv, CuckooTable
<1>2. Pair(d, k) = PairOf(setup, d, k) /\ Pair(d, k)[1] \in B /\ Pair(d, k)[2] \in B
  BY PairIs
<1>3. CuckooFinds(d, c, k) =>  k \in Held(c)
  BY <1>1, <1>2 DEF CuckooFinds, Held, InBucket, InStash
<1>4. ASSUME NEW b \in B, NEW i \in Z, c.bucket[b][i] = k PROVE CuckooFinds(d, c, k)
  <2>1. b \in {Pair(d, k)[1], Pair(d, k)[2]}
    BY <1>1, <1>2, <1>4 DEF CuckooInv, Owned
  <2>2. \A j \in 0 .. i-1 : c.bucket[b][j] # NoKey
    <3>1. \A j \in 0 .. i-1 : j \in Z /\ j < i
      BY <1>1, SetupParts
    <3> QED
      BY <1>1, <1>4, <3>1 DEF CuckooInv, Packed
  <2> QED
    BY <1>4, <2>1, <2>2 DEF CuckooFinds
<1>5. k \in Held(c) => CuckooFinds(d, c, k)
  BY <1>1, <1>4 DEF Held, InBucket, InStash, CuckooFinds
<1> QED
  BY <1>3, <1>5

\* A key replaces what was in a slot all before which are taken.
LEMMA SetKeeps ==
  ASSUME HashConstants, setup \in Setups, NEW d \in 1 .. Domains, NEW c, CuckooInv(setup, d, c),
         NEW b \in 0 .. setup.buckets-1, NEW i \in 0 .. setup.size-1,
         \A j \in 0 .. i-1 : c.bucket[b][j] # NoKey,
         NEW k \in HashKey, k \notin Held(c), b \in {PairOf(setup, d, k)[1], PairOf(setup, d, k)[2]},
         NEW u, u = [c EXCEPT !.bucket[b][i] = k]
  PROVE  /\ CuckooInv(setup, d, u) /\ u.stash = c.stash
         /\ Held(u) = (Held(c) \ {c.bucket[b][i]}) \cup {k}
         /\ Undo(u, <<b, i, c.bucket[b][i]>>) = c
<1> DEFINE B == 0 .. setup.buckets-1
           Z == 0 .. setup.size-1
           old == c.bucket[b][i]
<1>1. /\ c = [bucket |-> c.bucket, stash |-> c.stash]
      /\ c.bucket \in [B -> [Z -> HashKey \cup {NoKey}]]
      /\ c.stash \in Seq(HashKey) /\ Len(c.stash) <= setup.stash
  BY DEF CuckooInv, CuckooTable
<1>2. k # NoKey /\ NoKey \notin HashKey
  BY LoadParts
<1>3. /\ u.bucket = [c.bucket EXCEPT ![b][i] = k] /\ u.stash = c.stash
      /\ u = [bucket |-> u.bucket, stash |-> u.stash]
  BY <1>1
<1>4. u.bucket \in [B -> [Z -> HashKey \cup {NoKey}]]
  BY <1>1, <1>3
<1>5. /\ u.bucket[b][i] = k
      /\ \A a \in B, j \in Z : a # b \/ j # i => u.bucket[a][j] = c.bucket[a][j]
  BY <1>1, <1>3
<1>6. CuckooTable(setup, u)
  BY <1>1, <1>3, <1>4 DEF CuckooTable
<1>7. \A a \in B, j \in Z : c.bucket[a][j] # k
  BY <1>1 DEF Held, InBucket
<1>8. \A j \in DOMAIN c.stash : c.stash[j] # k
  BY <1>1 DEF Held, InStash
<1>9. Packed(setup, u)
  <2> SUFFICES ASSUME NEW a \in B, NEW m \in Z, NEW j \in Z, u.bucket[a][m] # NoKey, j < m
               PROVE  u.bucket[a][j] # NoKey
    BY DEF Packed
  <2>1. CASE a = b /\ j = i
    BY <1>2, <1>5, <2>1
  <2>2. CASE a = b /\ m = i /\ j # i
    <3>1. j \in 0 .. i-1
      BY <2>2, SetupParts
    <3> QED
      BY <1>5, <2>2, <3>1
  <2>3. CASE (a # b \/ j # i) /\ (a # b \/ m # i)
    BY <1>5, <2>3 DEF CuckooInv, Packed
  <2> QED
    BY <2>1, <2>2, <2>3
<1>10. Owned(setup, d, u)
  <2> SUFFICES ASSUME NEW a \in B, NEW j \in Z, u.bucket[a][j] # NoKey
               PROVE  a = PairOf(setup, d, u.bucket[a][j])[1] \/ a = PairOf(setup, d, u.bucket[a][j])[2]
    BY DEF Owned
  <2>1. CASE a = b /\ j = i
    BY <1>5, <2>1
  <2>2. CASE a # b \/ j # i
    BY <1>5, <2>2 DEF CuckooInv, Owned
  <2> QED
    BY <2>1, <2>2
<1>11. Once(setup, u)
  <2>1. ASSUME NEW a \in B, NEW e \in B, NEW m \in Z, NEW j \in Z,
               u.bucket[a][m] = u.bucket[e][j], u.bucket[a][m] # NoKey
        PROVE  a = e /\ m = j
    <3>1. CASE a = b /\ m = i
      BY <1>5, <1>7, <2>1, <3>1
    <3>2. CASE e = b /\ j = i
      BY <1>5, <1>7, <2>1, <3>2
    <3>3. CASE (a # b \/ m # i) /\ (e # b \/ j # i)
      BY <1>5, <2>1, <3>3 DEF CuckooInv, Once
    <3> QED
      BY <3>1, <3>2, <3>3
  <2>2. \A m, j \in DOMAIN u.stash : u.stash[m] = u.stash[j] => m = j
    BY <1>3 DEF CuckooInv, Once
  <2>3. \A a \in B, m \in Z, j \in DOMAIN u.stash : u.bucket[a][m] # u.stash[j]
    BY <1>3, <1>5, <1>8 DEF CuckooInv, Once
  <2> QED
    BY <2>1, <2>2, <2>3 DEF Once
<1>12. Held(u) = (Held(c) \ {old}) \cup {k}
  <2> DEFINE In(w, x) == \E a \in B, j \in Z : w.bucket[a][j] = x
  <2>7. DOMAIN c.bucket = B /\ \A a \in B : DOMAIN c.bucket[a] = Z
    BY <1>1
  <2>8. DOMAIN u.bucket = B /\ \A a \in B : DOMAIN u.bucket[a] = Z
    BY <1>4
  <2>9. \A x : (InBucket(c, x) <=> In(c, x)) /\ (InBucket(u, x) <=> In(u, x))
    BY <2>7, <2>8 DEF InBucket
  <2>10. \A x : InStash(u, x) <=> InStash(c, x)
    BY <1>3 DEF InStash
  <2>1. \A x \in HashKey : x \in Held(c) <=> (\E a \in B, j \in Z : c.bucket[a][j] = x) \/ InStash(c, x)
    BY <2>9 DEF Held
  <2>2. \A x \in HashKey : x \in Held(u) <=> (\E a \in B, j \in Z : u.bucket[a][j] = x) \/ InStash(c, x)
    BY <2>9, <2>10 DEF Held
  <2>3. k \in Held(u)
    BY <1>5, <2>2
  <2>4. ASSUME NEW x \in Held(c), x # old PROVE x \in Held(u)
    BY <1>5, <2>1, <2>2, <2>4 DEF Held
  <2>5. ASSUME NEW x \in Held(u), x # k PROVE x \in Held(c) /\ x # old
    <3>1. x \in HashKey
      BY DEF Held
    <3>2. CASE \E a \in B, j \in Z : u.bucket[a][j] = x
      <4>1. PICK a \in B, j \in Z : u.bucket[a][j] = x
        BY <3>2
      <4>2. (a # b \/ j # i) /\ c.bucket[a][j] = x
        BY <1>5, <2>5, <4>1
      <4>3. x # old
        BY <1>2, <3>1, <4>2 DEF CuckooInv, Once
      <4> QED
        BY <2>1, <3>1, <4>2, <4>3
    <3>3. CASE InStash(c, x)
      <4>1. x # old
        BY <3>3 DEF InStash, CuckooInv, Once
      <4> QED
        BY <2>1, <3>1, <3>3, <4>1
    <3> QED
      BY <2>2, <3>1, <3>2, <3>3
  <2>6. Held(u) \subseteq HashKey /\ Held(c) \subseteq HashKey
    BY DEF Held
  <2> QED
    BY <2>3, <2>4, <2>5
<1>13. Undo(u, <<b, i, old>>) = c
  <2>1. PICK w : w = [u EXCEPT !.bucket[b][i] = old]
    OBVIOUS
  <2>2. w.bucket = [u.bucket EXCEPT ![b][i] = old] /\ w = [bucket |-> w.bucket, stash |-> c.stash]
    BY <1>3, <2>1
  <2>3. w.bucket \in [B -> [Z -> HashKey \cup {NoKey}]]
    <3>1. old \in HashKey \cup {NoKey} /\ b \in B /\ i \in Z
      BY <1>1
    <3> HIDE DEF B, Z, old
    <3> QED
      BY <1>4, <2>2, <3>1
  <2>4. \A a \in B : w.bucket[a] = c.bucket[a]
    <3> SUFFICES ASSUME NEW a \in B PROVE w.bucket[a] = c.bucket[a]
      OBVIOUS
    <3>1. \A j \in Z : w.bucket[a][j] = c.bucket[a][j]
      BY <1>4, <1>5, <2>2
    <3>2. w.bucket[a] \in [Z -> HashKey \cup {NoKey}] /\ c.bucket[a] \in [Z -> HashKey \cup {NoKey}]
      BY <1>1, <2>3
    <3> HIDE DEF Z
    <3> QED
      BY <3>1, <3>2
  <2>5. w.bucket = c.bucket
    <3> HIDE DEF B, Z
    <3> QED
      BY <1>1, <2>3, <2>4
  <2> QED
    BY <1>1, <2>1, <2>2, <2>5 DEF Undo
<1> QED
  BY <1>3, <1>6, <1>9, <1>10, <1>11, <1>12, <1>13 DEF CuckooInv

\* The first empty slot of a bucket, and what is looked at to find it.
LEMMA FirstEmptyIs ==
  ASSUME HashConstants, setup \in Setups, NEW keys,
         keys \in [0 .. setup.size-1 -> HashKey \cup {NoKey}]
  PROVE  /\ FirstEmpty(keys) = {} => \A i \in 0 .. setup.size-1 : keys[i] # NoKey
         /\ FirstEmpty(keys) # {} =>
              \E i \in 0 .. setup.size-1 :
                /\ i = CHOOSE j \in FirstEmpty(keys) : TRUE
                /\ keys[i] = NoKey /\ \A j \in 0 .. i-1 : keys[j] # NoKey
         /\ Inspected(keys) \in Nat /\ Inspected(keys) <= setup.size
<1> DEFINE Z == 0 .. setup.size-1
           E == {i \in Z : keys[i] = NoKey}
<1>1. setup.size \in Nat /\ DOMAIN keys = Z
  BY SetupParts
<1>2. FirstEmpty(keys) = {i \in Z : keys[i] = NoKey /\ \A j \in 0 .. i-1 : keys[j] # NoKey}
  BY <1>1 DEF FirstEmpty
<1>3. E # {} => FirstEmpty(keys) # {}
  <2> SUFFICES ASSUME E # {} PROVE FirstEmpty(keys) # {}
    OBVIOUS
  <2>1. E \subseteq Nat
    BY <1>1
  <2> HIDE DEF E
  <2>2. PICK i \in E : \A j \in E : i <= j
    BY <2>1, Least
  <2>3. \A j \in 0 .. i-1 : keys[j] # NoKey
    <3> SUFFICES ASSUME NEW j \in 0 .. i-1 PROVE keys[j] # NoKey
      OBVIOUS
    <3>1. i \in Nat /\ i < setup.size
      BY <1>1 DEF E
    <3>2. j \in Z /\ ~(i <= j)
      BY <1>1, <3>1
    <3>3. j \notin E
      BY <2>2, <3>2
    <3> QED
      BY <3>2, <3>3 DEF E
  <2> QED
    BY <1>2, <2>2, <2>3 DEF E
<1>4. FirstEmpty(keys) # {} => \E i \in Z : /\ i = CHOOSE j \in FirstEmpty(keys) : TRUE
                                            /\ keys[i] = NoKey /\ \A j \in 0 .. i-1 : keys[j] # NoKey
  <2> SUFFICES ASSUME FirstEmpty(keys) # {}
               PROVE  LET i == CHOOSE j \in FirstEmpty(keys) : TRUE
                      IN  i \in Z /\ keys[i] = NoKey /\ \A j \in 0 .. i-1 : keys[j] # NoKey
    OBVIOUS
  <2>1. (CHOOSE j \in FirstEmpty(keys) : TRUE) \in FirstEmpty(keys)
    OBVIOUS
  <2> QED
    BY <1>2, <2>1
<1>5. Inspected(keys) \in Nat /\ Inspected(keys) <= setup.size
  <2>1. CASE FirstEmpty(keys) = {}
    BY <1>1, <2>1 DEF Inspected
  <2>2. CASE FirstEmpty(keys) # {}
    <3>1. PICK i \in Z : i = CHOOSE j \in FirstEmpty(keys) : TRUE
      BY <1>4, <2>2
    <3>2. Inspected(keys) = 1 + i
      BY <2>2, <3>1 DEF Inspected
    <3> QED
      BY <1>1, <3>2
  <2> QED
    BY <2>1, <2>2
<1> QED
  BY <1>3, <1>4, <1>5

\* A key is put into the first empty slot.
LEMMA PutFirstKeeps ==
  ASSUME HashConstants, setup \in Setups, NEW d \in 1 .. Domains, NEW c, CuckooInv(setup, d, c),
         NEW b \in 0 .. setup.buckets-1, FirstEmpty(c.bucket[b]) # {},
         NEW k \in HashKey, k \notin Held(c), b \in {PairOf(setup, d, k)[1], PairOf(setup, d, k)[2]}
  PROVE  /\ CuckooInv(setup, d, PutFirst(c, b, k)) /\ Held(PutFirst(c, b, k)) = Held(c) \cup {k}
         /\ PutFirst(c, b, k).stash = c.stash
<1>1. c.bucket[b] \in [0 .. setup.size-1 -> HashKey \cup {NoKey}]
  BY DEF CuckooInv, CuckooTable
<1>2. PICK i \in 0 .. setup.size-1 : /\ i = CHOOSE j \in FirstEmpty(c.bucket[b]) : TRUE
                                    /\ c.bucket[b][i] = NoKey
                                    /\ \A j \in 0 .. i-1 : c.bucket[b][j] # NoKey
  BY <1>1, FirstEmptyIs
<1>3. PICK u : u = [c EXCEPT !.bucket[b][i] = k]
  OBVIOUS
<1>4. PutFirst(c, b, k) = u
  BY <1>2, <1>3 DEF PutFirst
<1>5. /\ CuckooInv(setup, d, u) /\ u.stash = c.stash
      /\ Held(u) = (Held(c) \ {c.bucket[b][i]}) \cup {k}
  <2>1. \A j \in 0 .. i-1 : c.bucket[b][j] # NoKey
    BY <1>2
  <2>2. /\ HashConstants /\ setup \in Setups /\ d \in 1 .. Domains /\ CuckooInv(setup, d, c)
        /\ b \in 0 .. setup.buckets-1 /\ i \in 0 .. setup.size-1
        /\ k \in HashKey /\ k \notin Held(c)
        /\ b \in {PairOf(setup, d, k)[1], PairOf(setup, d, k)[2]}
        /\ u = [c EXCEPT !.bucket[b][i] = k]
    BY <1>3
  <2>3. /\ CuckooInv(setup, d, u) /\ u.stash = c.stash
        /\ Held(u) = (Held(c) \ {c.bucket[b][i]}) \cup {k}
        /\ Undo(u, <<b, i, c.bucket[b][i]>>) = c
    BY ONLY <2>1, <2>2, SetKeeps
  <2> QED
    BY <2>3
<1>6. NoKey \notin Held(c)
  BY LoadParts DEF Held
<1> QED
  BY <1>2, <1>4, <1>5, <1>6

\* What is undone, an entry at a time.
LEMMA RollbackIs ==
  ASSUME NEW c, NEW log, Len(log) \in Nat
  PROVE  \E f : /\ RolledBack(c, log) = f[Len(log)] /\ f[0] = c
                /\ \A n \in 1 .. Len(log) : f[n] = Undo(f[n-1], log[Len(log) + 1 - n])
<1> DEFINE L == Len(log)
           Add(u, n) == Undo(u, log[L + 1 - n])
           Run(f, m) == f = [n \in 0 .. m |-> IF n = 0 THEN c ELSE Add(f[n-1], n)]
           go == CHOOSE f : Run(f, L)
<1>1. RolledBack(c, log) = go[L]
  <2>1. RolledBack(c, log) = (CHOOSE f : f = [n \in 0 .. Len(log) |->
                               IF n = 0 THEN c ELSE Undo(f[n-1], log[Len(log) + 1 - n])])[Len(log)]
    BY DEF RolledBack
  <2> QED
    BY <2>1
<1> HIDE DEF Add
<1>2. \E f : Run(f, L)
  <2> DEFINE S == {m \in Nat : \E f : Run(f, m)}
  <2>1. 0 \in S
    <3>1. Run([n \in 0 .. 0 |-> c], 0)
      OBVIOUS
    <3> QED
      BY <3>1
  <2>2. ASSUME NEW m \in Nat, m \in S
        PROVE  m + 1 \in S
    <3>1. PICK f : Run(f, m)
      BY <2>2
    <3> DEFINE h == [n \in 0 .. m+1 |-> IF n <= m THEN f[n] ELSE Add(f[m], m+1)]
    <3>2. \A n \in 0 .. m : f[n] = IF n = 0 THEN c ELSE Add(f[n-1], n)
      BY <3>1
    <3>3. \A n \in 0 .. m+1 : h[n] = IF n = 0 THEN c ELSE Add(h[n-1], n)
      BY <3>2
    <3>4. Run(h, m+1)
      BY <3>3
    <3> HIDE DEF h, Run
    <3> QED
      BY <3>4
  <2> HIDE DEF S
  <2>3. Nat \subseteq S
    BY <2>1, <2>2, UpFromZero
  <2> QED
    BY <2>3 DEF S
<1>3. Run(go, L)
  BY <1>2
<1> HIDE DEF go
<1>4. \A n \in 0 .. L : go[n] = IF n = 0 THEN c ELSE Add(go[n-1], n)
  BY <1>3
<1>5. go[0] = c /\ \A n \in 1 .. L : go[n] = Undo(go[n-1], log[L + 1 - n])
  BY <1>4 DEF Add
<1> QED
  BY <1>1, <1>5

\* Nothing to undo.
LEMMA RollbackNone ==
  ASSUME NEW c
  PROVE  RolledBack(c, <<>>) = c
<1>1. PICK none : none = <<>>
  OBVIOUS
<1>2. Len(none) = 0 /\ Len(none) \in Nat
  BY <1>1
<1>3. PICK h : RolledBack(c, none) = h[Len(none)] /\ h[0] = c
  BY <1>2, RollbackIs
<1> QED
  BY <1>1, <1>2, <1>3

\* The last entry is undone first.
LEMMA RollbackAppend ==
  ASSUME NEW c, NEW T, NEW log \in Seq(T), NEW e \in T
  PROVE  /\ RolledBack(c, Append(log, e)) = RolledBack(Undo(c, e), log)
         /\ RolledBack(c, <<>>) = c
<1> DEFINE L == Len(log)
           more == Append(log, e)
<1>1. L \in Nat /\ Len(more) = L + 1 /\ more[L+1] = e /\ \A n \in 1 .. L : more[n] = log[n]
  OBVIOUS
<1> HIDE DEF more, L
<1>2. PICK f : /\ RolledBack(c, more) = f[L+1] /\ f[0] = c
               /\ \A n \in 1 .. L+1 : f[n] = Undo(f[n-1], more[L + 1 + 1 - n])
  <2>1. Len(more) \in Nat
    BY <1>1
  <2>2. PICK f : /\ RolledBack(c, more) = f[Len(more)] /\ f[0] = c
                 /\ \A n \in 1 .. Len(more) : f[n] = Undo(f[n-1], more[Len(more) + 1 - n])
    BY <2>1, RollbackIs
  <2> QED
    BY <1>1, <2>2
<1>3. PICK u : u = Undo(c, e)
  OBVIOUS
<1>4. PICK g : /\ RolledBack(u, log) = g[L] /\ g[0] = u
               /\ \A n \in 1 .. L : g[n] = Undo(g[n-1], log[L + 1 - n])
  BY <1>1, RollbackIs DEF L
<1> DEFINE S == {n \in Nat : n <= L => f[n+1] = g[n]}
<1>5. 0 \in S
  <2>1. f[1] = Undo(f[0], more[L + 1])
    <3>1. 1 \in 1 .. L+1 /\ 1 - 1 = 0 /\ L + 1 + 1 - 1 = L + 1
      BY <1>1
    <3> QED
      BY <1>2, <3>1
  <2> QED
    BY <1>1, <1>2, <1>3, <1>4, <2>1
<1>6. ASSUME NEW n \in Nat, n \in S PROVE n + 1 \in S
  <2> SUFFICES ASSUME n + 1 <= L PROVE f[n+1+1] = g[n+1]
    OBVIOUS
  <2>1. f[n+1] = g[n]
    BY <1>1, <1>6
  <2>2. f[n+1+1] = Undo(f[n+1], more[L - n])
    <3>1. n+1+1 \in 1 .. L+1 /\ (n+1+1) - 1 = n+1 /\ L + 1 + 1 - (n+1+1) = L - n
      BY <1>1
    <3> QED
      BY <1>2, <3>1
  <2>3. g[n+1] = Undo(g[n], log[L - n])
    <3>1. n+1 \in 1 .. L /\ (n+1) - 1 = n /\ L + 1 - (n+1) = L - n
      BY <1>1
    <3> QED
      BY <1>4, <3>1
  <2>4. more[L - n] = log[L - n]
    BY <1>1
  <2> QED
    BY <2>1, <2>2, <2>3, <2>4
<1> HIDE DEF S
<1>7. Nat \subseteq S
  BY <1>5, <1>6, UpFromZero
<1>8. f[L+1] = g[L]
  BY <1>1, <1>7 DEF S
<1>9. RolledBack(c, <<>>) = c
  BY RollbackNone
<1> QED
  BY <1>2, <1>3, <1>4, <1>8, <1>9 DEF more

Entries(s) == (0 .. s.buckets-1) \X (0 .. s.size-1) \X HashKey

\* After n turns of relocating for k in c: where the homeless key may go, what
\* is held, and what a rollback would make of it.
Chained(s, d, c, k, t, n) ==
  /\ t = [table |-> t.table, key |-> t.key, at |-> t.at, log |-> t.log, work |-> t.work]
  /\ CuckooInv(s, d, t.table) /\ t.table.stash = c.stash
  /\ t.work \in Nat /\ t.work <= 2 * s.size + n * (s.size + 1)
  /\ t.log \in Seq(Entries(s)) /\ Len(t.log) <= n
  /\ t.key = NoKey => Held(t.table) = Held(c) \cup {k}
  /\ t.key # NoKey =>
       /\ t.key \in HashKey /\ t.key \notin Held(t.table)
       /\ Held(t.table) \cup {t.key} = Held(c) \cup {k}
       /\ t.at \in 0 .. s.buckets-1
       /\ t.at \in {PairOf(s, d, t.key)[1], PairOf(s, d, t.key)[2]}
       /\ RolledBack(t.table, t.log) = c

\* The slot of the victim.
LEMMA VictimIs ==
  ASSUME HashConstants, setup \in Setups, NEW d \in 1 .. Domains, NEW k \in HashKey,
         NEW n \in Nat, n < MaxKicks
  PROVE  Victim(d, k, n) \in 0 .. setup.size-1
<1>1. n \in 0 .. MaxKicks-1
  BY DEF HashConstants
<1> QED
  BY <1>1, SetupParts DEF Victim

\* A victim gives its slot to the homeless key and is homeless itself.
LEMMA EvictKeeps ==
  ASSUME HashConstants, setup \in Setups, NEW d \in 1 .. Domains, NEW t,
         CuckooInv(setup, d, t), NEW a \in 0 .. setup.buckets-1, NEW i \in 0 .. setup.size-1,
         FirstEmpty(t.bucket[a]) = {}, NEW k \in HashKey, k \notin Held(t),
         a \in {PairOf(setup, d, k)[1], PairOf(setup, d, k)[2]},
         NEW v, v = t.bucket[a][i], NEW u, u = [t EXCEPT !.bucket[a][i] = k]
  PROVE  /\ CuckooInv(setup, d, u) /\ u.stash = t.stash /\ Undo(u, <<a, i, v>>) = t
         /\ v \in HashKey /\ v \notin Held(u) /\ Held(u) \cup {v} = Held(t) \cup {k}
         /\ a \in {PairOf(setup, d, v)[1], PairOf(setup, d, v)[2]}
<1>1. t.bucket \in [0 .. setup.buckets-1 -> [0 .. setup.size-1 -> HashKey \cup {NoKey}]]
  BY DEF CuckooInv, CuckooTable
<1>2. \A j \in 0 .. setup.size-1 : t.bucket[a][j] # NoKey
  BY <1>1, FirstEmptyIs
<1>3. \A j \in 0 .. i-1 : t.bucket[a][j] # NoKey
  <2>1. \A j \in 0 .. i-1 : j \in 0 .. setup.size-1
    BY SetupParts
  <2> QED
    BY <1>2, <2>1
<1>4. v \in HashKey /\ v # NoKey
  <2>1. t.bucket[a] \in [0 .. setup.size-1 -> HashKey \cup {NoKey}]
    BY <1>1
  <2>2. t.bucket[a][i] \in HashKey \cup {NoKey} /\ t.bucket[a][i] # NoKey
    BY <1>2, <2>1
  <2> QED
    BY <2>2
<1>5. v \in Held(t)
  BY <1>1, <1>4 DEF Held, InBucket
<1>6. /\ HashConstants /\ setup \in Setups /\ d \in 1 .. Domains /\ CuckooInv(setup, d, t)
      /\ a \in 0 .. setup.buckets-1 /\ i \in 0 .. setup.size-1 /\ k \in HashKey /\ k \notin Held(t)
      /\ a \in {PairOf(setup, d, k)[1], PairOf(setup, d, k)[2]}
      /\ u = [t EXCEPT !.bucket[a][i] = k]
  OBVIOUS
<1>7. /\ CuckooInv(setup, d, u) /\ u.stash = t.stash
      /\ Held(u) = (Held(t) \ {t.bucket[a][i]}) \cup {k}
      /\ Undo(u, <<a, i, t.bucket[a][i]>>) = t
  BY ONLY <1>3, <1>6, SetKeeps
<1>8. v # k
  BY <1>5
<1>9. a \in {PairOf(setup, d, v)[1], PairOf(setup, d, v)[2]}
  BY <1>4 DEF CuckooInv, Owned
<1> QED
  BY <1>4, <1>5, <1>7, <1>8, <1>9

\* A turn of the relocation.
LEMMA RelocateKeeps ==
  ASSUME HashConstants, setup \in Setups, NEW d \in 1 .. Domains, NEW c, NEW k, NEW n \in Nat,
         n < MaxKicks, NEW t, Chained(setup, d, c, k, t, n)
  PROVE  Chained(setup, d, c, k, Relocate(d, t, n), n + 1)
<1>1. setup.size \in Nat /\ setup.buckets \in Nat /\ NoKey \notin HashKey
  BY SetupParts, LoadParts
<1>2. PICK z \in Nat : z = setup.size
  BY <1>1
<1>3. PICK m \in Nat : m = n * (z + 1)
  <2>1. n * (z + 1) \in Nat
    BY <1>2
  <2> QED
    BY <2>1
<1>4. (n + 1) * (z + 1) = m + z + 1
  <2>1. n \in Nat /\ z \in Nat
    BY <1>2
  <2>2. (n + 1) * (z + 1) = n * (z + 1) + (z + 1)
    BY ONLY <2>1
  <2> QED
    BY <1>3, <2>2
<1>5. /\ CuckooInv(setup, d, t.table) /\ t.table.stash = c.stash
      /\ t.work \in Nat /\ t.work <= 2 * z + m /\ t.log \in Seq(Entries(setup)) /\ Len(t.log) <= n
  BY <1>2, <1>3 DEF Chained
<1>8. t = [table |-> t.table, key |-> t.key, at |-> t.at, log |-> t.log, work |-> t.work]
  BY DEF Chained
<1>6. CASE t.key = NoKey
  <2>1. Relocate(d, t, n) = t
    BY <1>6 DEF Relocate
  <2>2. t.work <= 2 * setup.size + (n + 1) * (setup.size + 1)
    <3>1. t.work <= 2 * z + (m + z + 1)
      BY <1>5
    <3> QED
      BY <1>2, <1>4, <3>1
  <2>3. Len(t.log) <= n + 1
    BY <1>5
  <2> QED
    BY <1>5, <1>6, <1>8, <2>1, <2>2, <2>3 DEF Chained
<1>7. CASE t.key # NoKey
  <2>1. /\ t.key \in HashKey /\ t.key \notin Held(t.table)
        /\ Held(t.table) \cup {t.key} = Held(c) \cup {k} /\ t.at \in 0 .. setup.buckets-1
        /\ t.at \in {PairOf(setup, d, t.key)[1], PairOf(setup, d, t.key)[2]}
        /\ RolledBack(t.table, t.log) = c
    BY <1>7 DEF Chained
  <2>2. PICK keys : keys = t.table.bucket[t.at]
    OBVIOUS
  <2>3. keys \in [0 .. setup.size-1 -> HashKey \cup {NoKey}]
    BY <1>5, <2>1, <2>2 DEF CuckooInv, CuckooTable
  <2>4. PICK looked \in Nat : looked = t.work + Inspected(keys) /\ looked <= 2 * z + (m + z)
    <3>1. Inspected(keys) \in Nat /\ Inspected(keys) <= z
      BY <1>2, <2>3, FirstEmptyIs
    <3> QED
      BY <1>5, <3>1
  <2>5. looked + 1 <= 2 * setup.size + (n + 1) * (setup.size + 1)
    <3>1. looked + 1 <= 2 * z + (m + z + 1)
      BY <2>4
    <3> QED
      BY <1>2, <1>4, <3>1
  <2>6. looked <= 2 * setup.size + (n + 1) * (setup.size + 1)
    <3>1. looked <= 2 * z + (m + z + 1)
      BY <2>4
    <3> QED
      BY <1>2, <1>4, <3>1
  <2>7. CASE FirstEmpty(keys) # {}
    <3>1. PICK p : p = PutFirst(t.table, t.at, t.key)
      OBVIOUS
    <3>2. PICK r : r = [t EXCEPT !.table = p, !.key = NoKey, !.work = looked]
      OBVIOUS
    <3>3. Relocate(d, t, n) = r
      BY <1>7, <2>2, <2>4, <2>7, <3>1, <3>2 DEF Relocate
    <3>4. CuckooInv(setup, d, p) /\ Held(p) = Held(t.table) \cup {t.key} /\ p.stash = t.table.stash
      <4>1. /\ HashConstants /\ setup \in Setups /\ d \in 1 .. Domains /\ CuckooInv(setup, d, t.table)
            /\ t.at \in 0 .. setup.buckets-1 /\ FirstEmpty(t.table.bucket[t.at]) # {}
            /\ t.key \in HashKey /\ t.key \notin Held(t.table)
            /\ t.at \in {PairOf(setup, d, t.key)[1], PairOf(setup, d, t.key)[2]}
        BY <1>5, <2>1, <2>2, <2>7
      <4>2. /\ CuckooInv(setup, d, PutFirst(t.table, t.at, t.key))
            /\ Held(PutFirst(t.table, t.at, t.key)) = Held(t.table) \cup {t.key}
            /\ PutFirst(t.table, t.at, t.key).stash = t.table.stash
        BY ONLY <4>1, PutFirstKeeps
      <4> QED
        BY <3>1, <4>2
    <3>5. PICK a, l : a = t.at /\ l = t.log
      OBVIOUS
    <3>6. r = [table |-> p, key |-> NoKey, at |-> a, log |-> l, work |-> looked]
      BY ONLY <1>8, <3>2, <3>5
    <3>7. /\ r = [table |-> r.table, key |-> r.key, at |-> r.at, log |-> r.log, work |-> r.work]
          /\ r.table = p /\ r.key = NoKey /\ r.log = l /\ r.work = looked
      BY ONLY <3>6
    <3>8. l \in Seq(Entries(setup)) /\ Len(l) <= n + 1
      <4>1. l \in Seq(Entries(setup)) /\ Len(l) <= n
        BY <1>5, <3>5
      <4>2. Len(l) \in Nat
        BY ONLY <4>1
      <4> QED
        BY <4>1, <4>2
    <3>9. p.stash = c.stash /\ Held(p) = Held(c) \cup {k}
      BY <1>5, <2>1, <3>4
    <3> QED
      BY <2>4, <2>6, <3>3, <3>4, <3>7, <3>8, <3>9 DEF Chained
  <2>8. CASE FirstEmpty(keys) = {}
    <3>1. PICK i \in 0 .. setup.size-1 : i = Victim(d, t.key, n)
      BY <2>1, VictimIs
    <3>2. PICK v : v = keys[i]
      OBVIOUS
    <3>3. PICK u : u = [t.table EXCEPT !.bucket[t.at][i] = t.key]
      OBVIOUS
    <3>4. PICK a : a = IF Pair(d, v)[1] = t.at THEN Pair(d, v)[2] ELSE Pair(d, v)[1]
      OBVIOUS
    <3>5. Relocate(d, t, n) = [table |-> u, key |-> v, at |-> a,
                               log |-> Append(t.log, <<t.at, i, v>>), work |-> looked + 1]
      BY <1>7, <2>2, <2>4, <2>8, <3>1, <3>2, <3>3, <3>4 DEF Relocate
    <3>6. /\ CuckooInv(setup, d, u) /\ u.stash = t.table.stash /\ Undo(u, <<t.at, i, v>>) = t.table
          /\ v \in HashKey /\ v \notin Held(u) /\ Held(u) \cup {v} = Held(t.table) \cup {t.key}
          /\ t.at \in {PairOf(setup, d, v)[1], PairOf(setup, d, v)[2]}
      <4>1. /\ HashConstants /\ setup \in Setups /\ d \in 1 .. Domains /\ CuckooInv(setup, d, t.table)
            /\ t.at \in 0 .. setup.buckets-1 /\ FirstEmpty(t.table.bucket[t.at]) = {}
            /\ i \in 0 .. setup.size-1 /\ t.key \in HashKey /\ t.key \notin Held(t.table)
            /\ t.at \in {PairOf(setup, d, t.key)[1], PairOf(setup, d, t.key)[2]}
            /\ v = t.table.bucket[t.at][i]
        BY <1>5, <2>1, <2>2, <2>8, <3>2
      <4>2. PICK w, x, b : w = t.table /\ x = t.key /\ b = t.at
        OBVIOUS
      <4>3. /\ HashConstants /\ setup \in Setups /\ d \in 1 .. Domains /\ CuckooInv(setup, d, w)
            /\ b \in 0 .. setup.buckets-1 /\ FirstEmpty(w.bucket[b]) = {}
            /\ i \in 0 .. setup.size-1 /\ x \in HashKey /\ x \notin Held(w)
            /\ b \in {PairOf(setup, d, x)[1], PairOf(setup, d, x)[2]}
            /\ v = w.bucket[b][i] /\ u = [w EXCEPT !.bucket[b][i] = x]
        BY <3>3, <4>1, <4>2
      <4>4. /\ CuckooInv(setup, d, u) /\ u.stash = w.stash /\ Undo(u, <<b, i, v>>) = w
            /\ v \in HashKey /\ v \notin Held(u) /\ Held(u) \cup {v} = Held(w) \cup {x}
            /\ b \in {PairOf(setup, d, v)[1], PairOf(setup, d, v)[2]}
        BY ONLY <4>3, EvictKeeps
      <4> QED
        BY <4>2, <4>4
    <3>7. a \in 0 .. setup.buckets-1 /\ a \in {PairOf(setup, d, v)[1], PairOf(setup, d, v)[2]}
      BY <3>4, <3>6, PairIs
    <3>8. PICK e : e = <<t.at, i, v>>
      OBVIOUS
    <3>9. e \in Entries(setup)
      BY <2>1, <3>6, <3>8 DEF Entries
    <3>10. PICK l : l = Append(t.log, e)
      OBVIOUS
    <3>11. l \in Seq(Entries(setup)) /\ Len(l) <= n + 1
      <4> HIDE DEF Entries
      <4> QED
        BY <1>5, <3>9, <3>10
    <3>12. RolledBack(u, l) = c
      <4>1. PICK T : T = Entries(setup)
        OBVIOUS
      <4>2. PICK log \in Seq(T) : log = t.log
        BY <1>5, <4>1
      <4>3. e \in T
        BY <3>9, <4>1
      <4>4. /\ RolledBack(u, Append(log, e)) = RolledBack(Undo(u, e), log)
            /\ RolledBack(u, <<>>) = u
        BY ONLY <4>2, <4>3, RollbackAppend
      <4> QED
        BY <2>1, <3>6, <3>8, <3>10, <4>2, <4>4
    <3>13. PICK r : r = Relocate(d, t, n)
      OBVIOUS
    <3>14. /\ r.table = u /\ r.key = v /\ r.at = a /\ r.log = l /\ r.work = looked + 1
           /\ r = [table |-> r.table, key |-> r.key, at |-> r.at, log |-> r.log, work |-> r.work]
      BY <3>5, <3>8, <3>10, <3>13
    <3>15. v # NoKey /\ Held(u) \cup {v} = Held(c) \cup {k} /\ u.stash = c.stash /\ looked + 1 \in Nat
      <4>1. v # NoKey
        BY <1>1, <3>6
      <4>2. Held(u) \cup {v} = Held(c) \cup {k}
        BY <2>1, <3>6
      <4>3. u.stash = c.stash /\ looked + 1 \in Nat
        BY <1>5, <2>4, <3>6
      <4> QED
        BY <4>1, <4>2, <4>3
    <3> QED
      BY <2>5, <3>6, <3>7, <3>11, <3>12, <3>13, <3>14, <3>15 DEF Chained
  <2> QED
    BY <2>7, <2>8
<1> QED
  BY <1>6, <1>7

\* The state after the last turn.
LEMMA KicksChain ==
  ASSUME HashConstants, setup \in Setups, NEW d \in 1 .. Domains, NEW c, NEW k, NEW start,
         Chained(setup, d, c, k, start, 0)
  PROVE  Chained(setup, d, c, k,
                 (CHOOSE f : f = [n \in 0 .. MaxKicks |->
                    IF n = 0 THEN start ELSE Relocate(d, f[n-1], n-1)])[MaxKicks], MaxKicks)
<1> DEFINE Add(t, n) == Relocate(d, t, n)
           Run(f, m) == f = [n \in 0 .. m |-> IF n = 0 THEN start ELSE Add(f[n-1], n-1)]
           go == CHOOSE f : Run(f, MaxKicks)
<1>1. MaxKicks \in Nat
  BY DEF HashConstants
<1>2. ASSUME NEW n \in Nat, n < MaxKicks, NEW t, Chained(setup, d, c, k, t, n)
      PROVE  Chained(setup, d, c, k, Add(t, n), n + 1)
  BY <1>2, RelocateKeeps
<1>3. go = CHOOSE f : f = [n \in 0 .. MaxKicks |->
                             IF n = 0 THEN start ELSE Relocate(d, f[n-1], n-1)]
  OBVIOUS
<1> HIDE DEF Add
<1>4. \E f : Run(f, MaxKicks)
  <2> DEFINE S == {m \in Nat : \E f : Run(f, m)}
  <2>1. 0 \in S
    <3>1. Run([n \in 0 .. 0 |-> start], 0)
      OBVIOUS
    <3> QED
      BY <3>1
  <2>2. ASSUME NEW m \in Nat, m \in S
        PROVE  m + 1 \in S
    <3>1. PICK f : Run(f, m)
      BY <2>2
    <3> DEFINE h == [n \in 0 .. m+1 |-> IF n <= m THEN f[n] ELSE Add(f[m], m)]
    <3>2. \A n \in 0 .. m : f[n] = IF n = 0 THEN start ELSE Add(f[n-1], n-1)
      BY <3>1
    <3>3. \A n \in 0 .. m+1 : h[n] = IF n = 0 THEN start ELSE Add(h[n-1], n-1)
      BY <3>2
    <3>4. Run(h, m+1)
      BY <3>3
    <3> HIDE DEF h, Run
    <3> QED
      BY <3>4
  <2> HIDE DEF S
  <2>3. Nat \subseteq S
    BY <2>1, <2>2, UpFromZero
  <2> QED
    BY <1>1, <2>3 DEF S
<1>5. Run(go, MaxKicks)
  BY <1>4
<1> HIDE DEF go
<1>6. \A n \in 0 .. MaxKicks : go[n] = IF n = 0 THEN start ELSE Add(go[n-1], n-1)
  BY <1>5
<1> DEFINE T == {n \in Nat : n <= MaxKicks => Chained(setup, d, c, k, go[n], n)}
<1>7. 0 \in T
  <2>1. go[0] = start
    BY <1>1, <1>6
  <2> QED
    BY <2>1
<1>8. ASSUME NEW n \in Nat, n \in T PROVE n + 1 \in T
  <2> SUFFICES ASSUME n + 1 <= MaxKicks PROVE Chained(setup, d, c, k, go[n+1], n+1)
    OBVIOUS
  <2>1. go[n+1] = Add(go[n], n)
    <3>1. n+1 \in 0 .. MaxKicks /\ n+1 # 0 /\ (n+1)-1 = n
      BY <1>1
    <3> QED
      BY <1>6, <3>1
  <2>2. n < MaxKicks /\ Chained(setup, d, c, k, go[n], n)
    BY <1>1, <1>8
  <2> QED
    BY <1>2, <2>1, <2>2
<1> HIDE DEF T
<1>9. Nat \subseteq T
  BY <1>7, <1>8, UpFromZero
<1>10. Chained(setup, d, c, k, go[MaxKicks], MaxKicks)
  BY <1>1, <1>9 DEF T
<1> QED
  BY <1>3, <1>10

\* A key goes to the stash.
LEMMA StashKeeps ==
  ASSUME HashConstants, setup \in Setups, NEW d, NEW t, CuckooInv(setup, d, t),
         Len(t.stash) < setup.stash, NEW k \in HashKey, k \notin Held(t),
         NEW u, u = [t EXCEPT !.stash = Append(@, k)]
  PROVE  CuckooInv(setup, d, u) /\ Held(u) = Held(t) \cup {k}
<1>1. /\ t = [bucket |-> t.bucket, stash |-> t.stash]
      /\ t.bucket \in [0 .. setup.buckets-1 -> [0 .. setup.size-1 -> HashKey \cup {NoKey}]]
      /\ t.stash \in Seq(HashKey) /\ setup.stash \in Nat
  BY SetupParts DEF CuckooInv, CuckooTable
<1>2. PICK l \in Nat : l = Len(t.stash) /\ DOMAIN t.stash = 1 .. l
  BY <1>1
<1>3. /\ u.bucket = t.bucket /\ u.stash = Append(t.stash, k)
      /\ u = [bucket |-> u.bucket, stash |-> u.stash]
  BY <1>1
<1>4. /\ u.stash \in Seq(HashKey) /\ Len(u.stash) = l + 1 /\ DOMAIN u.stash = 1 .. l + 1
      /\ u.stash[l + 1] = k /\ \A j \in 1 .. l : u.stash[j] = t.stash[j]
  BY <1>1, <1>2, <1>3
<1>5. CuckooTable(setup, u)
  <2>1. Len(u.stash) <= setup.stash
    BY <1>1, <1>2, <1>4
  <2> QED
    BY <1>1, <1>3, <1>4, <2>1 DEF CuckooTable
<1>6. Packed(setup, u) /\ Owned(setup, d, u)
  BY <1>3 DEF CuckooInv, Packed, Owned
<1>7. \A j \in 1 .. l : t.stash[j] # k
  BY <1>2 DEF Held, InStash
<1>8. \A b \in 0 .. setup.buckets-1, i \in 0 .. setup.size-1 : t.bucket[b][i] # k
  BY <1>1 DEF Held, InBucket
<1>9. Once(setup, u)
  <2>1. \A i, j \in DOMAIN u.stash : u.stash[i] = u.stash[j] => i = j
    <3> SUFFICES ASSUME NEW i \in 1 .. l + 1, NEW j \in 1 .. l + 1, u.stash[i] = u.stash[j]
                 PROVE  i = j
      BY <1>4
    <3>1. (i \in 1 .. l \/ i = l + 1) /\ (j \in 1 .. l \/ j = l + 1)
      BY <1>2
    <3>2. CASE i \in 1 .. l /\ j \in 1 .. l
      BY <1>2, <1>4, <3>2 DEF CuckooInv, Once
    <3> QED
      BY <1>4, <1>7, <3>1, <3>2
  <2>2. \A b \in 0 .. setup.buckets-1, i \in 0 .. setup.size-1, j \in DOMAIN u.stash :
          u.bucket[b][i] # u.stash[j]
    <3> SUFFICES ASSUME NEW b \in 0 .. setup.buckets-1, NEW i \in 0 .. setup.size-1,
                        NEW j \in 1 .. l + 1
                 PROVE  u.bucket[b][i] # u.stash[j]
      BY <1>4
    <3>1. j \in 1 .. l \/ j = l + 1
      BY <1>2
    <3>2. CASE j \in 1 .. l
      BY <1>2, <1>3, <1>4, <3>2 DEF CuckooInv, Once
    <3> QED
      BY <1>3, <1>4, <1>8, <3>1, <3>2
  <2> QED
    BY <1>3, <2>1, <2>2 DEF CuckooInv, Once
<1>10. Held(u) = Held(t) \cup {k}
  <2>1. \A x : InBucket(u, x) <=> InBucket(t, x)
    BY <1>3 DEF InBucket
  <2>2. \A x : InStash(u, x) <=> InStash(t, x) \/ x = k
    <3> SUFFICES ASSUME NEW x PROVE InStash(u, x) <=> InStash(t, x) \/ x = k
      OBVIOUS
    <3>1. InStash(u, x) <=> \E j \in 1 .. l + 1 : u.stash[j] = x
      BY <1>4 DEF InStash
    <3>2. InStash(t, x) <=> \E j \in 1 .. l : t.stash[j] = x
      BY <1>2 DEF InStash
    <3>3. \A j \in 1 .. l + 1 : j \in 1 .. l \/ j = l + 1
      BY <1>2
    <3>4. l + 1 \in 1 .. l + 1 /\ \A j \in 1 .. l : j \in 1 .. l + 1
      BY <1>2
    <3> QED
      BY <1>4, <3>1, <3>2, <3>3, <3>4
  <2> QED
    BY <2>1, <2>2 DEF Held
<1> QED
  BY <1>5, <1>6, <1>9, <1>10 DEF CuckooInv

WorkCap(s) == s.size * (2 + MaxKicks) + 2 * MaxKicks

\* What an insertion of k into c has made: it took the key, or c is as it was and
\* neither a bucket of k nor the stash has room.
Took(s, d, c, k, r) ==
  /\ r.ok \in BOOLEAN /\ r.work \in Nat /\ r.work <= WorkCap(s)
  /\ r.ok => CuckooInv(s, d, r.table) /\ Held(r.table) = Held(c) \cup {k}
  /\ ~r.ok =>
       /\ r.table = c /\ Len(c.stash) >= s.stash
       /\ \A b \in {PairOf(s, d, k)[1], PairOf(s, d, k)[2]}, i \in 0 .. s.size-1 :
            c.bucket[b][i] # NoKey

\* The end of an insertion whose buckets were full.
LEMMA SettledKeeps ==
  ASSUME HashConstants, setup \in Setups, NEW d \in 1 .. Domains, NEW c, NEW k \in HashKey,
         NEW t, Chained(setup, d, c, k, t, MaxKicks),
         \A b \in {PairOf(setup, d, k)[1], PairOf(setup, d, k)[2]}, i \in 0 .. setup.size-1 :
           c.bucket[b][i] # NoKey
  PROVE  Took(setup, d, c, k, CuckooSettled(t))
<1>1. MaxKicks \in Nat \ {0} /\ setup.size \in Nat
  BY SetupParts DEF HashConstants
<1>2. PICK m \in Nat \ {0} : m = MaxKicks
  BY <1>1
<1>3. PICK z \in Nat : z = setup.size
  BY <1>1
<1>4. PICK p \in Nat : p = z * m
  <2>1. z * m \in Nat
    BY <1>2, <1>3
  <2> QED
    BY <2>1
<1>5. WorkCap(setup) = 2 * z + p + 2 * m
  <2>1. z * (2 + m) = 2 * z + z * m
    BY <1>2, <1>3
  <2> QED
    BY <1>2, <1>3, <1>4, <2>1 DEF WorkCap
<1>6. MaxKicks * (setup.size + 1) = p + m
  <2>1. m * (z + 1) = z * m + m
    BY <1>2, <1>3
  <2> QED
    BY <1>2, <1>3, <1>4, <2>1
<1>7. /\ CuckooInv(setup, d, t.table) /\ t.table.stash = c.stash
      /\ t.work \in Nat /\ t.work <= 2 * z + (p + m) /\ Len(t.log) \in Nat /\ Len(t.log) <= m
  <2>1. t.log \in Seq(Entries(setup)) /\ Len(t.log) <= m
    BY <1>2 DEF Chained
  <2>2. Len(t.log) \in Nat
    BY ONLY <2>1
  <2>3. CuckooInv(setup, d, t.table) /\ t.table.stash = c.stash /\ t.work \in Nat
    BY DEF Chained
  <2>4. t.work <= 2 * setup.size + MaxKicks * (setup.size + 1)
    BY DEF Chained
  <2> QED
    BY <1>3, <1>6, <2>1, <2>2, <2>3, <2>4
<1>8. PICK r : r = CuckooSettled(t)
  OBVIOUS
<1>9. CASE t.key = NoKey
  <2>1. r.ok = TRUE /\ r.table = t.table /\ r.work = t.work
    BY <1>8, <1>9 DEF CuckooSettled
  <2>2. Held(t.table) = Held(c) \cup {k}
    BY <1>9 DEF Chained
  <2>3. t.work <= WorkCap(setup)
    BY <1>5, <1>7
  <2> QED
    BY <1>7, <1>8, <2>1, <2>2, <2>3 DEF Took
<1>10. CASE t.key # NoKey
  <2>1. /\ t.key \in HashKey /\ t.key \notin Held(t.table)
        /\ Held(t.table) \cup {t.key} = Held(c) \cup {k} /\ RolledBack(t.table, t.log) = c
    BY <1>10 DEF Chained
  <2>2. CASE Len(t.table.stash) < setup.stash
    <3>1. PICK u : u = [t.table EXCEPT !.stash = Append(@, t.key)]
      OBVIOUS
    <3>2. r.ok = TRUE /\ r.table = u /\ r.work = t.work + 1
      BY <1>8, <1>10, <2>2, <3>1 DEF CuckooSettled
    <3>3. CuckooInv(setup, d, u) /\ Held(u) = Held(t.table) \cup {t.key}
      <4>1. /\ HashConstants /\ setup \in Setups /\ CuckooInv(setup, d, t.table)
            /\ Len(t.table.stash) < setup.stash /\ t.key \in HashKey /\ t.key \notin Held(t.table)
        BY <1>7, <2>1, <2>2
      <4>2. PICK w : w = t.table
        OBVIOUS
      <4>3. u = [w EXCEPT !.stash = Append(@, t.key)]
        BY <3>1, <4>2
      <4>4. /\ HashConstants /\ setup \in Setups /\ CuckooInv(setup, d, w)
            /\ Len(w.stash) < setup.stash /\ t.key \in HashKey /\ t.key \notin Held(w)
        BY <4>1, <4>2
      <4>5. CuckooInv(setup, d, u) /\ Held(u) = Held(w) \cup {t.key}
        BY ONLY <4>3, <4>4, StashKeeps
      <4> QED
        BY <4>2, <4>5
    <3>4. t.work + 1 \in Nat /\ t.work + 1 <= WorkCap(setup)
      BY <1>5, <1>7
    <3> QED
      BY <1>8, <2>1, <3>2, <3>3, <3>4 DEF Took
  <2>3. CASE ~(Len(t.table.stash) < setup.stash)
    <3>1. r.ok = FALSE /\ r.table = c /\ r.work = t.work + Len(t.log)
      BY <1>8, <1>10, <2>1, <2>3 DEF CuckooSettled
    <3>2. t.work + Len(t.log) \in Nat /\ t.work + Len(t.log) <= WorkCap(setup)
      BY <1>5, <1>7
    <3>3. Len(c.stash) >= setup.stash
      <4>1. setup.stash \in Nat /\ Len(t.table.stash) \in Nat
        BY <1>7, SetupParts DEF CuckooInv, CuckooTable
      <4> QED
        BY <1>7, <2>3, <4>1
    <3> QED
      BY <1>8, <3>1, <3>2, <3>3 DEF Took
  <2> QED
    BY <2>2, <2>3
<1> QED
  BY <1>9, <1>10

\* An insertion of a key the table does not hold.
LEMMA CuckooInsertKeeps ==
  ASSUME HashConstants, setup \in Setups, NEW d \in 1 .. Domains, NEW c, CuckooInv(setup, d, c),
         NEW k \in HashKey, k \notin Held(c)
  PROVE  Took(setup, d, c, k, CuckooInsert(d, c, k))
<1>1. MaxKicks \in Nat \ {0} /\ setup.size \in Nat /\ NoKey \notin HashKey
  BY SetupParts, LoadParts DEF HashConstants
<1>2. PICK z \in Nat : z = setup.size
  BY <1>1
<1>3. WorkCap(setup) >= 2 * z
  <2>1. PICK m \in Nat : m = MaxKicks
    BY <1>1
  <2>2. PICK p \in Nat : p = z * m
    <3>1. z * m \in Nat
      BY <2>1
    <3> QED
      BY <3>1
  <2>3. z * (2 + m) = 2 * z + z * m
    <3>1. z \in Int /\ m \in Int
      BY <1>2, <2>1
    <3> QED
      BY ONLY <3>1
  <2> QED
    BY <1>2, <2>1, <2>2, <2>3 DEF WorkCap
<1>4. WorkCap(setup) \in Nat
  <2>1. z * (2 + MaxKicks) \in Nat
    BY <1>1, <1>2
  <2> QED
    BY <1>1, <1>2, <2>1 DEF WorkCap
<1>5. PICK b1, b2 : b1 = Pair(d, k)[1] /\ b2 = Pair(d, k)[2]
  OBVIOUS
<1>6. /\ b1 = PairOf(setup, d, k)[1] /\ b2 = PairOf(setup, d, k)[2]
      /\ b1 \in 0 .. setup.buckets-1 /\ b2 \in 0 .. setup.buckets-1
  BY <1>5, PairIs
<1>7. PICK direct, both : /\ direct = Inspected(c.bucket[b1])
                          /\ both = direct + Inspected(c.bucket[b2])
  OBVIOUS
<1>8. \A b \in {b1, b2} : c.bucket[b] \in [0 .. setup.size-1 -> HashKey \cup {NoKey}]
  BY <1>6 DEF CuckooInv, CuckooTable
<1>9. direct \in Nat /\ both \in Nat /\ direct <= z /\ both <= 2 * z
  <2>1. /\ Inspected(c.bucket[b1]) \in Nat /\ Inspected(c.bucket[b1]) <= z
        /\ Inspected(c.bucket[b2]) \in Nat /\ Inspected(c.bucket[b2]) <= z
    BY <1>2, <1>8, FirstEmptyIs
  <2> QED
    BY <1>2, <1>7, <2>1
<1>10. ASSUME NEW b \in {b1, b2}, FirstEmpty(c.bucket[b]) # {}, NEW w \in Nat, w <= 2 * z,
              NEW r, r = [ok |-> TRUE, table |-> PutFirst(c, b, k), work |-> w]
       PROVE  Took(setup, d, c, k, r)
  <2>1. /\ CuckooInv(setup, d, PutFirst(c, b, k)) /\ Held(PutFirst(c, b, k)) = Held(c) \cup {k}
        /\ PutFirst(c, b, k).stash = c.stash
    <3>1. /\ HashConstants /\ setup \in Setups /\ d \in 1 .. Domains /\ CuckooInv(setup, d, c)
          /\ b \in 0 .. setup.buckets-1 /\ FirstEmpty(c.bucket[b]) # {}
          /\ k \in HashKey /\ k \notin Held(c)
          /\ b \in {PairOf(setup, d, k)[1], PairOf(setup, d, k)[2]}
      BY <1>6, <1>10
    <3> QED
      BY ONLY <3>1, PutFirstKeeps
  <2>2. w <= WorkCap(setup)
    BY <1>2, <1>3, <1>4, <1>10
  <2>3. r.ok = TRUE /\ r.table = PutFirst(c, b, k) /\ r.work = w
    BY <1>10
  <2> QED
    BY <2>1, <2>2, <2>3 DEF Took
<1>11. CASE FirstEmpty(c.bucket[b1]) # {}
  <2>1. PICK r : r = [ok |-> TRUE, table |-> PutFirst(c, b1, k), work |-> direct]
    OBVIOUS
  <2>2. CuckooInsert(d, c, k) = r
    BY <1>5, <1>7, <1>11, <2>1 DEF CuckooInsert
  <2>3. b1 \in {b1, b2} /\ direct <= 2 * z
    BY <1>2, <1>9
  <2>4. Took(setup, d, c, k, r)
    BY <1>9, <1>10, <1>11, <2>1, <2>3
  <2> QED
    BY <2>2, <2>4
<1>12. CASE FirstEmpty(c.bucket[b1]) = {} /\ FirstEmpty(c.bucket[b2]) # {}
  <2>1. PICK r : r = [ok |-> TRUE, table |-> PutFirst(c, b2, k), work |-> both]
    OBVIOUS
  <2>2. CuckooInsert(d, c, k) = r
    BY <1>5, <1>7, <1>12, <2>1 DEF CuckooInsert
  <2>3. Took(setup, d, c, k, r)
    BY <1>9, <1>10, <1>12, <2>1
  <2> QED
    BY <2>2, <2>3
<1>13. CASE FirstEmpty(c.bucket[b1]) = {} /\ FirstEmpty(c.bucket[b2]) = {}
  <2>1. PICK start : start = [table |-> c, key |-> k, at |-> Pair(d, k)[Choice(d, k)],
                              log |-> <<>>, work |-> both]
    OBVIOUS
  <2>2. PICK t : t = (CHOOSE f : f = [n \in 0 .. MaxKicks |->
                    IF n = 0 THEN start ELSE Relocate(d, f[n-1], n-1)])[MaxKicks]
    OBVIOUS
  <2>3. CuckooInsert(d, c, k) = CuckooSettled(t)
    BY <1>5, <1>7, <1>13, <2>1, <2>2 DEF CuckooInsert
  <2>4. /\ start.table = c /\ start.key = k /\ start.log = <<>> /\ start.work = both
        /\ start.at = Pair(d, k)[Choice(d, k)]
        /\ start = [table |-> start.table, key |-> start.key, at |-> start.at,
                    log |-> start.log, work |-> start.work]
    BY <2>1
  <2>5. start.at \in {b1, b2}
    <3>1. Choice(d, k) = 1 \/ Choice(d, k) = 2
      BY SetupParts DEF Choice
    <3> QED
      BY <1>5, <2>4, <3>1
  <2>6. Chained(setup, d, c, k, start, 0)
    <3>1. RolledBack(c, <<>>) = c
      BY RollbackNone
    <3>2. start.log \in Seq(Entries(setup)) /\ Len(start.log) = 0
      BY <2>4
    <3>3. start.work <= 2 * setup.size + 0 * (setup.size + 1)
      BY <1>2, <1>9, <2>4
    <3>4. k # NoKey
      BY <1>1
    <3> QED
      BY <1>6, <1>9, <2>4, <2>5, <3>1, <3>2, <3>3, <3>4 DEF Chained
  <2>7. Chained(setup, d, c, k, t, MaxKicks)
    BY <2>2, <2>6, KicksChain
  <2>8. \A b \in {PairOf(setup, d, k)[1], PairOf(setup, d, k)[2]}, i \in 0 .. setup.size-1 :
          c.bucket[b][i] # NoKey
    BY <1>6, <1>8, <1>13, FirstEmptyIs
  <2> QED
    BY <2>3, <2>7, <2>8, SettledKeeps
<1> QED
  BY <1>11, <1>12, <1>13

-----------------------------------------------------------------------------
(* What a domain has room for, when all keys share its first two buckets. *)

Together(s, d) == \A k \in HashKey : PairOf(s, d, k) = <<0, 1>>

Local(s) == 2 * s.size + s.stash

FullDomain(s, c) ==
  /\ Len(c.stash) >= s.stash
  /\ \A b \in {0, 1}, i \in 0 .. s.size-1 : c.bucket[b][i] # NoKey

\* The two buckets and the stash, numbered from 0 on.
Lies(s, c, n, k) ==
  \/ n < s.size /\ c.bucket[0][n] = k
  \/ n >= s.size /\ n < 2 * s.size /\ c.bucket[1][n - s.size] = k
  \/ n >= 2 * s.size /\ n - 2 * s.size + 1 \in DOMAIN c.stash /\ c.stash[n - 2 * s.size + 1] = k

\* Every key held has one place of its own there.
LEMMA LiesOnce ==
  ASSUME HashConstants, setup \in Setups, NEW d \in 1 .. Domains, NEW c, CuckooInv(setup, d, c),
         Together(setup, d)
  PROVE  /\ \A k \in Held(c) : \E n \in 0 .. Local(setup)-1 : Lies(setup, c, n, k)
         /\ \A n \in 0 .. Local(setup)-1 :
              \A k, l : Lies(setup, c, n, k) /\ Lies(setup, c, n, l) => k = l
         /\ \A m, n \in 0 .. Local(setup)-1, k \in HashKey :
              Lies(setup, c, m, k) /\ Lies(setup, c, n, k) => m = n
         /\ FullDomain(setup, c) =>
              \A n \in 0 .. Local(setup)-1 : \E k \in Held(c) : Lies(setup, c, n, k)
<1>1. PICK z \in Nat : z = setup.size /\ z > 0
  BY SetupParts
<1>2. PICK q \in Nat : q = setup.stash
  BY SetupParts
<1>3. PICK t : t = c.stash
  OBVIOUS
<1>4. /\ t \in Seq(HashKey) /\ Len(t) <= q
      /\ c.bucket \in [0 .. setup.buckets-1 -> [0 .. z-1 -> HashKey \cup {NoKey}]]
  BY <1>1, <1>2, <1>3 DEF CuckooInv, CuckooTable
<1>5. PICK l \in Nat : l = Len(t) /\ DOMAIN t = 1 .. l /\ l <= q
  <2>1. Len(t) \in Nat /\ DOMAIN t = 1 .. Len(t)
    BY <1>4
  <2> QED
    BY <1>4, <2>1
<1>6. 0 \in 0 .. setup.buckets-1 /\ 1 \in 0 .. setup.buckets-1 /\ NoKey \notin HashKey
  BY SetupParts, LoadParts
<1>7. PICK u, v : u = c.bucket[0] /\ v = c.bucket[1]
  OBVIOUS
<1>8. u \in [0 .. z-1 -> HashKey \cup {NoKey}] /\ v \in [0 .. z-1 -> HashKey \cup {NoKey}]
  BY <1>4, <1>6, <1>7
<1>9. \A n, k : Lies(setup, c, n, k) <=>
        \/ n < z /\ u[n] = k
        \/ n >= z /\ n < 2 * z /\ v[n - z] = k
        \/ n >= 2 * z /\ n - 2 * z + 1 \in 1 .. l /\ t[n - 2 * z + 1] = k
  BY <1>1, <1>3, <1>5, <1>7 DEF Lies
<1>10. Local(setup) = 2 * z + q
  BY <1>1, <1>2 DEF Local
<1>11. /\ \A i, j \in 0 .. z-1 : u[i] = u[j] /\ u[i] # NoKey => i = j
       /\ \A i, j \in 0 .. z-1 : v[i] = v[j] /\ v[i] # NoKey => i = j
       /\ \A i, j \in 0 .. z-1 : u[i] = v[j] => u[i] = NoKey
       /\ \A i, j \in 1 .. l : t[i] = t[j] => i = j
       /\ \A i \in 0 .. z-1, j \in 1 .. l : u[i] # t[j] /\ v[i] # t[j]
  <2>1. Once(setup, c)
    BY DEF CuckooInv
  <2>2. \A a, b \in {0, 1}, i, j \in 0 .. z-1 :
          c.bucket[a][i] = c.bucket[b][j] /\ c.bucket[a][i] # NoKey => a = b /\ i = j
    BY <1>1, <1>6, <2>1 DEF Once
  <2>3. \A i, j \in 1 .. l : t[i] = t[j] => i = j
    BY <1>3, <1>5, <2>1 DEF Once
  <2>4. \A b \in {0, 1}, i \in 0 .. z-1, j \in 1 .. l : c.bucket[b][i] # t[j]
    <3>1. \A b \in 0 .. setup.buckets-1, i \in 0 .. setup.size-1, j \in DOMAIN c.stash :
            c.bucket[b][i] # c.stash[j]
      BY ONLY <2>1 DEF Once
    <3>2. DOMAIN c.stash = 1 .. l /\ setup.size = z /\ t = c.stash
      BY <1>1, <1>3, <1>5
    <3>3. 0 \in 0 .. setup.buckets-1 /\ 1 \in 0 .. setup.buckets-1
      BY <1>6
    <3> QED
      BY ONLY <3>1, <3>2, <3>3
  <2> QED
    BY <1>7, <2>2, <2>3, <2>4
<1>12. ASSUME NEW k \in Held(c) PROVE \E n \in 0 .. 2 * z + q - 1 : Lies(setup, c, n, k)
  <2>1. k \in HashKey /\ (InBucket(c, k) \/ InStash(c, k))
    BY DEF Held
  <2>2. CASE InStash(c, k)
    <3>1. PICK j \in 1 .. l : t[j] = k
      BY <1>3, <1>5, <2>2 DEF InStash
    <3>2. PICK n \in 0 .. 2 * z + q - 1 : n = 2 * z + j - 1 /\ n >= 2 * z /\ n - 2 * z + 1 = j
      <4>1. 2 * z + j - 1 \in 0 .. 2 * z + q - 1
        BY <1>5
      <4> QED
        BY <4>1
    <3>3. Lies(setup, c, n, k)
      BY <1>9, <3>1, <3>2
    <3> QED
      BY <3>3
  <2>3. CASE InBucket(c, k)
    <3>1. PICK b \in 0 .. setup.buckets-1, i \in 0 .. z-1 : c.bucket[b][i] = k
      <4>1. DOMAIN c.bucket = 0 .. setup.buckets-1
            /\ \A b \in 0 .. setup.buckets-1 : DOMAIN c.bucket[b] = 0 .. z-1
        BY <1>4
      <4> QED
        BY <2>3, <4>1 DEF InBucket
    <3>2. b = PairOf(setup, d, k)[1] \/ b = PairOf(setup, d, k)[2]
      BY <1>1, <1>6, <2>1, <3>1 DEF CuckooInv, Owned
    <3>3. PairOf(setup, d, k) = <<0, 1>>
      BY <2>1 DEF Together
    <3>4. b = 0 \/ b = 1
      BY <3>2, <3>3
    <3>5. CASE b = 0
      <4>1. i \in 0 .. 2 * z + q - 1 /\ i < z
        BY <1>1
      <4>2. Lies(setup, c, i, k)
        BY <1>7, <1>9, <3>1, <3>5, <4>1
      <4> QED
        BY <4>1, <4>2
    <3>6. CASE b = 1
      <4>1. PICK n \in 0 .. 2 * z + q - 1 : n >= z /\ n < 2 * z /\ n - z = i
        <5>1. z + i \in 0 .. 2 * z + q - 1 /\ z + i >= z /\ z + i < 2 * z /\ (z + i) - z = i
          BY <1>1
        <5> QED
          BY <5>1
      <4>2. Lies(setup, c, n, k)
        BY <1>7, <1>9, <3>1, <3>6, <4>1
      <4> QED
        BY <4>2
    <3> QED
      BY <3>4, <3>5, <3>6
  <2> QED
    BY <2>1, <2>2, <2>3
<1>13. ASSUME NEW n \in 0 .. 2 * z + q - 1, NEW k, NEW m,
              Lies(setup, c, n, k), Lies(setup, c, n, m)
       PROVE  k = m
  <2>1. n \in Int /\ (n < z \/ (n >= z /\ n < 2 * z) \/ n >= 2 * z) /\ z < 2 * z
    BY <1>1
  <2> QED
    BY <1>1, <1>9, <1>13, <2>1
<1>14. ASSUME NEW m \in 0 .. 2 * z + q - 1, NEW n \in 0 .. 2 * z + q - 1, NEW k \in HashKey,
              Lies(setup, c, m, k), Lies(setup, c, n, k)
       PROVE  m = n
  <2>1. ASSUME NEW x \in 0 .. 2 * z + q - 1, Lies(setup, c, x, k)
        PROVE  \/ x \in 0 .. z-1 /\ u[x] = k
               \/ x - z \in 0 .. z-1 /\ v[x - z] = k
               \/ x - 2 * z + 1 \in 1 .. l /\ t[x - 2 * z + 1] = k
    BY <1>1, <1>9, <2>1
  <2>2. /\ \/ m \in 0 .. z-1 /\ u[m] = k
           \/ m - z \in 0 .. z-1 /\ v[m - z] = k
           \/ m - 2 * z + 1 \in 1 .. l /\ t[m - 2 * z + 1] = k
        /\ \/ n \in 0 .. z-1 /\ u[n] = k
           \/ n - z \in 0 .. z-1 /\ v[n - z] = k
           \/ n - 2 * z + 1 \in 1 .. l /\ t[n - 2 * z + 1] = k
    BY <1>14, <2>1
  <2>3. k # NoKey
    BY <1>6
  <2>4. \/ m = n
        \/ m - z = n - z
        \/ m - 2 * z + 1 = n - 2 * z + 1
    BY <1>11, <2>2, <2>3
  <2> QED
    BY <2>4
<1>15. ASSUME FullDomain(setup, c), NEW n \in 0 .. 2 * z + q - 1
       PROVE  \E k \in Held(c) : Lies(setup, c, n, k)
  <2>1. /\ \A i \in 0 .. z-1 : u[i] # NoKey /\ v[i] # NoKey
        /\ l = q
    <3>1. Len(c.stash) >= setup.stash
          /\ \A b \in {0, 1}, i \in 0 .. setup.size-1 : c.bucket[b][i] # NoKey
      BY <1>15 DEF FullDomain
    <3> QED
      BY <1>1, <1>2, <1>3, <1>5, <1>7, <3>1
  <2>2. DOMAIN c.bucket = 0 .. setup.buckets-1 /\ DOMAIN u = 0 .. z-1 /\ DOMAIN v = 0 .. z-1
    BY <1>4, <1>8
  <2>3. CASE n < z
    <3>1. n \in 0 .. z-1 /\ u[n] \in HashKey
      BY <1>8, <2>1, <2>3
    <3>2. u[n] \in Held(c)
      BY <1>6, <1>7, <2>2, <3>1 DEF Held, InBucket
    <3>3. Lies(setup, c, n, u[n])
      BY <1>9, <2>3
    <3> QED
      BY <3>2, <3>3
  <2>4. CASE n >= z /\ n < 2 * z
    <3>1. n - z \in 0 .. z-1
      BY <2>4
    <3>2. v[n - z] \in HashKey
      BY <1>8, <2>1, <3>1
    <3>3. v[n - z] \in Held(c)
      BY <1>6, <1>7, <2>2, <3>1, <3>2 DEF Held, InBucket
    <3>4. Lies(setup, c, n, v[n - z])
      BY <1>9, <2>4
    <3> QED
      BY <3>3, <3>4
  <2>5. CASE n >= 2 * z
    <3>1. PICK j \in 1 .. l : j = n - 2 * z + 1
      BY <2>1, <2>5
    <3>2. t[j] \in HashKey
      BY <1>4, <1>5
    <3>3. t[j] \in Held(c)
      BY <1>3, <1>5, <3>2 DEF Held, InStash
    <3>4. Lies(setup, c, n, t[j])
      BY <1>9, <2>5, <3>1
    <3> QED
      BY <3>3, <3>4
  <2> QED
    BY <2>3, <2>4, <2>5
<1> QED
  BY <1>10, <1>12, <1>13, <1>14, <1>15

\* It holds at most as many keys as there are places, and as many when it is full.
LEMMA HeldCount ==
  ASSUME HashConstants, setup \in Setups, NEW d \in 1 .. Domains, NEW c, CuckooInv(setup, d, c),
         Together(setup, d)
  PROVE  /\ Cardinality(Held(c)) <= Local(setup)
         /\ FullDomain(setup, c) => Cardinality(Held(c)) = Local(setup)
<1> DEFINE A == 0 .. Local(setup)-1
           H == Held(c)
           f == [k \in H |-> CHOOSE n \in A : Lies(setup, c, n, k)]
<1>1. /\ \A k \in H : \E n \in A : Lies(setup, c, n, k)
      /\ \A n \in A : \A k, l : Lies(setup, c, n, k) /\ Lies(setup, c, n, l) => k = l
      /\ \A m, n \in A, k \in HashKey : Lies(setup, c, m, k) /\ Lies(setup, c, n, k) => m = n
      /\ FullDomain(setup, c) => \A n \in A : \E k \in H : Lies(setup, c, n, k)
  BY LiesOnce
<1>2. IsFiniteSet(A) /\ Cardinality(A) = Local(setup)
  <2>1. Local(setup) \in Nat /\ Local(setup) > 0
    BY SetupParts DEF Local
  <2>2. 0 \in Int /\ Local(setup) - 1 \in Int /\ ~(0 > Local(setup) - 1)
    BY <2>1
  <2> QED
    BY <2>1, <2>2, FS_Interval
<1>3. H \subseteq HashKey
  BY DEF Held
<1> HIDE DEF A, H
<1>4. f \in [H -> A] /\ \A k \in H : Lies(setup, c, f[k], k)
  BY <1>1
<1>5. f \in Injection(H, A)
  <2> HIDE DEF f
  <2>1. \A k, l \in H : f[k] = f[l] => k = l
    BY <1>1, <1>4
  <2> QED
    BY <1>4, <2>1, Fun_IsInj
<1>6. FullDomain(setup, c) => f \in Surjection(H, A)
  <2> SUFFICES ASSUME FullDomain(setup, c) PROVE f \in Surjection(H, A)
    OBVIOUS
  <2> HIDE DEF f
  <2>1. ASSUME NEW n \in A PROVE \E k \in H : f[k] = n
    <3>1. PICK k \in H : Lies(setup, c, n, k)
      BY <1>1
    <3>2. f[k] \in A /\ Lies(setup, c, f[k], k) /\ k \in HashKey
      BY <1>3, <1>4
    <3>3. f[k] = n
      BY <1>1, <3>1, <3>2
    <3> QED
      BY <3>3
  <2> QED
    BY <1>4, <2>1, Fun_IsSurj
<1> HIDE DEF f
<1> QED
  BY <1>2, <1>5, <1>6, FS_Injection DEF H

\* A full domain takes no other key.
LEMMA FullRefuses ==
  ASSUME HashConstants, setup \in Setups, NEW d \in 1 .. Domains, NEW c, CuckooInv(setup, d, c),
         Together(setup, d), FullDomain(setup, c), NEW k, k \notin Held(c), NEW u
  PROVE  ~(CuckooInv(setup, d, u) /\ Held(u) = Held(c) \cup {k})
<1> SUFFICES ASSUME CuckooInv(setup, d, u), Held(u) = Held(c) \cup {k} PROVE FALSE
  OBVIOUS
<1>1. Cardinality(Held(c)) = Local(setup) /\ Cardinality(Held(u)) <= Local(setup)
  BY HeldCount
<1>2. IsFiniteSet(Held(c))
  <2>1. Held(c) \in SUBSET HashKey /\ IsFiniteSet(HashKey)
    BY LoadParts DEF Held
  <2> QED
    BY <2>1, FS_Subset
<1>3. Cardinality(Held(u)) = Cardinality(Held(c)) + 1
  BY <1>2, FS_AddElement
<1>4. Local(setup) \in Nat
  BY SetupParts DEF Local
<1> QED
  BY <1>1, <1>3, <1>4

-----------------------------------------------------------------------------
(* The domains, and the overflow table. *)

Admitted(ds) == {k \in HashKey : \E d \in 1 .. Domains : k \in Held(ds[d])}

\* After n domains: one of them took k, or none has changed.
Tried(s, ds, k, x, n) ==
  /\ x.ok \in BOOLEAN /\ x.work \in Nat /\ x.work <= n * WorkCap(s)
  /\ ~x.ok => /\ x.domains = ds
              /\ \A d \in 1 .. n : d <= Domains /\ Together(s, d) => FullDomain(s, ds[d])
  /\ x.ok => \E a \in 1 .. Domains : \E t :
               /\ CuckooInv(s, a, t) /\ Held(t) = Held(ds[a]) \cup {k}
               /\ x.domains = [ds EXCEPT ![a] = t]

\* One more domain is tried.
TryNext(x, ds, k, d) ==
  IF x.ok THEN x
  ELSE LET r == CuckooInsert(d, ds[d], k)
       IN  [ok |-> r.ok, domains |-> [x.domains EXCEPT ![d] = r.table], work |-> x.work + r.work]

\* A cap is a number.
LEMMA CapIsNat ==
  ASSUME HashConstants, NEW s \in Setups
  PROVE  WorkCap(s) \in Nat
<1>1. s.size \in Nat /\ MaxKicks \in Nat
  BY SetupParts, LoadParts
<1>2. s.size * (2 + MaxKicks) \in Nat
  BY <1>1
<1> QED
  BY <1>1, <1>2 DEF WorkCap

\* A domain takes the key or leaves it to the next.
LEMMA TryKeeps ==
  ASSUME HashConstants, setup \in Setups, NEW ds, ds = [d \in 1 .. Domains |-> ds[d]],
         \A d \in 1 .. Domains : CuckooInv(setup, d, ds[d]),
         NEW k \in HashKey, \A d \in 1 .. Domains : k \notin Held(ds[d]),
         NEW n \in Nat, n < Domains, NEW x, Tried(setup, ds, k, x, n)
  PROVE  Tried(setup, ds, k, TryNext(x, ds, k, n + 1), n + 1)
<1>1. PICK w \in Nat : w = WorkCap(setup)
  BY CapIsNat
<1>2. PICK m \in Nat : m = n * w
  <2>1. n * w \in Nat
    BY <1>1
  <2> QED
    BY <2>1
<1>3. (n + 1) * WorkCap(setup) = m + w
  <2>1. n \in Int /\ w \in Int
    BY <1>1
  <2>2. (n + 1) * w = n * w + w
    BY ONLY <2>1
  <2> QED
    BY <1>1, <1>2, <2>2
<1>4. x.ok \in BOOLEAN /\ x.work \in Nat /\ x.work <= m
  BY <1>1, <1>2 DEF Tried
<1>5. CASE x.ok
  <2>1. TryNext(x, ds, k, n + 1) = x
    BY <1>5 DEF TryNext
  <2>2. x.work <= (n + 1) * WorkCap(setup)
    BY <1>1, <1>2, <1>3, <1>4
  <2> QED
    BY <1>4, <1>5, <2>1, <2>2 DEF Tried
<1>6. CASE ~x.ok
  <2>1. PICK d \in 1 .. Domains : d = n + 1
    BY LoadParts
  <2>2. PICK r : r = CuckooInsert(d, ds[d], k)
    OBVIOUS
  <2>3. Took(setup, d, ds[d], k, r)
    BY <2>2, CuckooInsertKeeps
  <2>4. PICK t : t = r.table
    OBVIOUS
  <2>5. x.domains = ds
    BY <1>6 DEF Tried
  <2>6. PICK y : y = TryNext(x, ds, k, d)
    OBVIOUS
  <2>7. y.ok = r.ok /\ y.domains = [ds EXCEPT ![d] = t] /\ y.work = x.work + r.work
    BY <1>6, <2>2, <2>4, <2>5, <2>6 DEF TryNext
  <2>8. y.ok \in BOOLEAN /\ y.work \in Nat /\ y.work <= (n + 1) * WorkCap(setup)
    <3>1. r.ok \in BOOLEAN /\ r.work \in Nat /\ r.work <= w
      BY <1>1, <2>3 DEF Took
    <3> QED
      BY <1>1, <1>2, <1>3, <1>4, <2>7, <3>1
  <2>9. ASSUME ~y.ok
        PROVE  /\ y.domains = ds
               /\ \A e \in 1 .. n + 1 : e <= Domains /\ Together(setup, e) => FullDomain(setup, ds[e])
    <3>1. /\ t = ds[d] /\ Len(ds[d].stash) >= setup.stash
          /\ \A b \in {PairOf(setup, d, k)[1], PairOf(setup, d, k)[2]}, i \in 0 .. setup.size-1 :
               ds[d].bucket[b][i] # NoKey
      BY <2>3, <2>4, <2>7, <2>9 DEF Took
    <3>2. y.domains = ds
      BY <2>7, <3>1
    <3>3. Together(setup, d) => FullDomain(setup, ds[d])
      <4> SUFFICES ASSUME Together(setup, d) PROVE FullDomain(setup, ds[d])
        OBVIOUS
      <4>1. PairOf(setup, d, k) = <<0, 1>>
        BY DEF Together
      <4> QED
        BY <3>1, <4>1 DEF FullDomain
    <3>4. \A e \in 1 .. n : e <= Domains /\ Together(setup, e) => FullDomain(setup, ds[e])
      BY <1>6 DEF Tried
    <3>5. \A e \in 1 .. n + 1 : e \in 1 .. n \/ e = d
      BY <2>1
    <3> QED
      BY <3>2, <3>3, <3>4, <3>5
  <2>10. ASSUME y.ok
         PROVE  \E a \in 1 .. Domains : \E u :
                  /\ CuckooInv(setup, a, u) /\ Held(u) = Held(ds[a]) \cup {k}
                  /\ y.domains = [ds EXCEPT ![a] = u]
    <3>1. CuckooInv(setup, d, t) /\ Held(t) = Held(ds[d]) \cup {k}
      BY <2>3, <2>4, <2>7, <2>10 DEF Took
    <3> QED
      BY <2>7, <3>1
  <2>11. Tried(setup, ds, k, y, n + 1)
    BY <2>8, <2>9, <2>10 DEF Tried
  <2> QED
    BY <2>1, <2>6, <2>11
<1> QED
  BY <1>4, <1>5, <1>6

\* All domains are tried.
LEMMA EscapeInsertKeeps ==
  ASSUME HashConstants, setup \in Setups, NEW ds, ds = [d \in 1 .. Domains |-> ds[d]],
         \A d \in 1 .. Domains : CuckooInv(setup, d, ds[d]),
         NEW k \in HashKey, \A d \in 1 .. Domains : k \notin Held(ds[d])
  PROVE  Tried(setup, ds, k, EscapeInsert(ds, k), Domains)
<1> DEFINE start == [ok |-> FALSE, domains |-> ds, work |-> 0]
           Add(x, n) == TryNext(x, ds, k, n)
           Run(f, m) == f = [n \in 0 .. m |-> IF n = 0 THEN start ELSE Add(f[n-1], n)]
           go == CHOOSE f : Run(f, Domains)
<1>1. Domains \in Nat
  BY LoadParts
<1>2. ASSUME NEW n \in Nat, n < Domains, NEW x, Tried(setup, ds, k, x, n)
      PROVE  Tried(setup, ds, k, Add(x, n + 1), n + 1)
  BY <1>2, TryKeeps
<1>3. EscapeInsert(ds, k) = go[Domains]
  BY DEF EscapeInsert, TryNext
<1> HIDE DEF Add
<1>4. Tried(setup, ds, k, start, 0)
  <2>1. PICK x : x = start
    OBVIOUS
  <2>2. x.ok = FALSE /\ x.domains = ds /\ x.work = 0
    BY <2>1
  <2>3. PICK w \in Nat : w = WorkCap(setup)
    BY CapIsNat
  <2>4. x.work <= 0 * WorkCap(setup)
    BY <2>2, <2>3
  <2>5. \A d : d \notin 1 .. 0
    OBVIOUS
  <2>6. x.ok \in BOOLEAN /\ x.work \in Nat
    <3>1. x.ok \in BOOLEAN
      BY <2>2, Zenon
    <3>2. x.work \in Nat
      BY <2>2, SMT
    <3> QED
      BY <3>1, <3>2
  <2>7. Tried(setup, ds, k, x, 0)
    BY <2>2, <2>4, <2>5, <2>6 DEF Tried
  <2> QED
    BY <2>1, <2>7
<1> HIDE DEF start
<1>5. \E f : Run(f, Domains)
  <2> DEFINE S == {m \in Nat : \E f : Run(f, m)}
  <2>1. 0 \in S
    <3>1. Run([n \in 0 .. 0 |-> start], 0)
      OBVIOUS
    <3> QED
      BY <3>1
  <2>2. ASSUME NEW m \in Nat, m \in S
        PROVE  m + 1 \in S
    <3>1. PICK f : Run(f, m)
      BY <2>2
    <3> DEFINE h == [n \in 0 .. m+1 |-> IF n <= m THEN f[n] ELSE Add(f[m], m+1)]
    <3>2. \A n \in 0 .. m : f[n] = IF n = 0 THEN start ELSE Add(f[n-1], n)
      BY <3>1
    <3>3. \A n \in 0 .. m+1 : h[n] = IF n = 0 THEN start ELSE Add(h[n-1], n)
      BY <3>2
    <3>4. Run(h, m+1)
      BY <3>3
    <3> HIDE DEF h, Run
    <3> QED
      BY <3>4
  <2> HIDE DEF S
  <2>3. Nat \subseteq S
    BY <2>1, <2>2, UpFromZero
  <2> QED
    BY <1>1, <2>3 DEF S
<1>6. Run(go, Domains)
  BY <1>5
<1> HIDE DEF go
<1>7. \A n \in 0 .. Domains : go[n] = IF n = 0 THEN start ELSE Add(go[n-1], n)
  BY <1>6
<1> DEFINE T == {n \in Nat : n <= Domains => Tried(setup, ds, k, go[n], n)}
<1>8. 0 \in T
  <2>1. go[0] = start
    BY <1>1, <1>7
  <2> QED
    BY <1>4, <2>1
<1>9. ASSUME NEW n \in Nat, n \in T PROVE n + 1 \in T
  <2> SUFFICES ASSUME n + 1 <= Domains PROVE Tried(setup, ds, k, go[n+1], n+1)
    OBVIOUS
  <2>1. go[n+1] = Add(go[n], n + 1)
    <3>1. n+1 \in 0 .. Domains /\ n+1 # 0 /\ (n+1)-1 = n
      BY <1>1
    <3> QED
      BY <1>7, <3>1
  <2>2. Tried(setup, ds, k, go[n], n) /\ n < Domains
    BY <1>1, <1>9
  <2> QED
    BY <1>2, <2>1, <2>2
<1> HIDE DEF T
<1>10. Nat \subseteq T
  BY <1>8, <1>9, UpFromZero
<1>11. Tried(setup, ds, k, go[Domains], Domains)
  BY <1>1, <1>10 DEF T
<1> QED
  BY <1>3, <1>11

\* Each domain has keys of its own; when they share two buckets everywhere, all
\* keys are admitted or every domain is full.
EscapeInv(s, ds, S) ==
  /\ ds = [d \in 1 .. Domains |-> ds[d]]
  /\ \A d \in 1 .. Domains : CuckooInv(s, d, ds[d]) /\ Held(ds[d]) \subseteq S
  /\ \A d, e \in 1 .. Domains : d # e => Held(ds[d]) \cap Held(ds[e]) = {}
  /\ (\A d \in 1 .. Domains : Together(s, d)) =>
       S \subseteq Admitted(ds) \/ \A d \in 1 .. Domains : FullDomain(s, ds[d])

\* An insertion loses no key of a domain, and changes one that admits it only.
LEMMA EscapeKeeps ==
  ASSUME HashConstants, setup \in Setups, NEW ds, NEW S, EscapeInv(setup, ds, S),
         NEW k \in HashKey, k \notin S, NEW e, e = EscapeInsert(ds, k)
  PROVE  /\ EscapeInv(setup, e.domains, S \cup {k})
         /\ \A d \in 1 .. Domains : /\ Held(ds[d]) \subseteq Held(e.domains[d])
                                    /\ k \in Held(e.domains[d]) \/ e.domains[d] = ds[d]
         /\ e.work \in Nat /\ e.work <= Domains * WorkCap(setup)
<1>1. /\ ds = [d \in 1 .. Domains |-> ds[d]]
      /\ \A d \in 1 .. Domains : CuckooInv(setup, d, ds[d]) /\ Held(ds[d]) \subseteq S
      /\ \A a, d \in 1 .. Domains : a # d => Held(ds[a]) \cap Held(ds[d]) = {}
      /\ (\A d \in 1 .. Domains : Together(setup, d)) =>
           S \subseteq Admitted(ds) \/ \A d \in 1 .. Domains : FullDomain(setup, ds[d])
  BY DEF EscapeInv
<1>2. \A d \in 1 .. Domains : k \notin Held(ds[d])
  BY <1>1
<1>3. Tried(setup, ds, k, e, Domains)
  <2>1. Tried(setup, ds, k, EscapeInsert(ds, k), Domains)
    BY <1>1, <1>2, EscapeInsertKeeps
  <2> QED
    BY <2>1
<1>4. e.ok \in BOOLEAN /\ e.work \in Nat /\ e.work <= Domains * WorkCap(setup)
  BY <1>3 DEF Tried
<1>5. CASE ~e.ok
  <2>1. /\ e.domains = ds
        /\ \A d \in 1 .. Domains : d <= Domains /\ Together(setup, d) => FullDomain(setup, ds[d])
    BY <1>3, <1>5 DEF Tried
  <2>2. \A d \in 1 .. Domains : d <= Domains
    BY LoadParts
  <2>3. EscapeInv(setup, ds, S \cup {k})
    BY <1>1, <2>1, <2>2 DEF EscapeInv
  <2> QED
    BY <1>4, <2>1, <2>3
<1>6. CASE e.ok
  <2>1. PICK a \in 1 .. Domains :
               \E t : /\ CuckooInv(setup, a, t) /\ Held(t) = Held(ds[a]) \cup {k}
                      /\ e.domains = [ds EXCEPT ![a] = t]
    BY <1>3, <1>6 DEF Tried
  <2>11. PICK t : /\ CuckooInv(setup, a, t) /\ Held(t) = Held(ds[a]) \cup {k}
                  /\ e.domains = [ds EXCEPT ![a] = t]
    BY <2>1
  <2>2. PICK u : u = e.domains
    OBVIOUS
  <2>3. u[a] = t /\ \A d \in 1 .. Domains : d # a => u[d] = ds[d]
    BY <1>1, <2>11, <2>2
  <2>4. u = [d \in 1 .. Domains |-> u[d]]
    BY <1>1, <2>11, <2>2
  <2>5. \A d \in 1 .. Domains : CuckooInv(setup, d, u[d]) /\ Held(u[d]) \subseteq S \cup {k}
    BY <1>1, <2>11, <2>3
  <2>6. \A b, d \in 1 .. Domains : b # d => Held(u[b]) \cap Held(u[d]) = {}
    <3> SUFFICES ASSUME NEW b \in 1 .. Domains, NEW d \in 1 .. Domains, b # d,
                        NEW x \in Held(u[b]), x \in Held(u[d])
                 PROVE  FALSE
      OBVIOUS
    <3>1. CASE b = a
      <4>1. u[d] = ds[d] /\ x \in Held(ds[a]) \cup {k}
        BY <2>11, <2>3, <3>1
      <4> QED
        BY <1>1, <1>2, <3>1, <4>1
    <3>2. CASE d = a
      <4>1. u[b] = ds[b] /\ x \in Held(ds[a]) \cup {k}
        BY <2>11, <2>3, <3>2
      <4> QED
        BY <1>1, <1>2, <3>2, <4>1
    <3>3. CASE b # a /\ d # a
      BY <1>1, <2>3, <3>3
    <3> QED
      BY <3>1, <3>2, <3>3
  <2>7. \A d \in 1 .. Domains : /\ Held(ds[d]) \subseteq Held(u[d])
                                /\ k \in Held(u[d]) \/ u[d] = ds[d]
    BY <2>11, <2>3
  <2>8. Admitted(ds) \cup {k} \subseteq Admitted(u)
    <3>1. k \in Held(u[a])
      BY <2>11, <2>3
    <3> QED
      BY <2>7, <3>1 DEF Admitted
  <2>9. ASSUME \A d \in 1 .. Domains : Together(setup, d)
        PROVE  S \cup {k} \subseteq Admitted(u)
    <3>1. ~FullDomain(setup, ds[a])
      <4> SUFFICES ASSUME FullDomain(setup, ds[a]) PROVE FALSE
        OBVIOUS
      <4>1. CuckooInv(setup, a, ds[a]) /\ Together(setup, a) /\ k \notin Held(ds[a])
        BY <1>1, <1>2, <2>9
      <4> QED
        BY <2>11, <4>1, FullRefuses
    <3>2. S \subseteq Admitted(ds)
      BY <1>1, <2>9, <3>1
    <3> QED
      BY <2>8, <3>2
  <2>10. EscapeInv(setup, u, S \cup {k})
    BY <2>4, <2>5, <2>6, <2>9 DEF EscapeInv
  <2> QED
    BY <1>4, <2>2, <2>7, <2>10
<1> QED
  BY <1>4, <1>5, <1>6

\* Full domains hold as many keys as they have room for.
LEMMA EscapeCount ==
  ASSUME HashConstants, setup \in Setups, NEW ds,
         \A d \in 1 .. Domains : CuckooInv(setup, d, ds[d]),
         \A d, e \in 1 .. Domains : d # e => Held(ds[d]) \cap Held(ds[e]) = {},
         \A d \in 1 .. Domains : Together(setup, d)
  PROVE  /\ Cardinality(Admitted(ds)) <= Domains * Local(setup)
         /\ (\A d \in 1 .. Domains : FullDomain(setup, ds[d]))
              => Cardinality(Admitted(ds)) = Domains * Local(setup)
<1> DEFINE Upto(n) == {k \in HashKey : \E d \in 1 .. n : k \in Held(ds[d])}
           All == \A d \in 1 .. Domains : FullDomain(setup, ds[d])
           P(n) == /\ Cardinality(Upto(n)) <= n * Local(setup)
                   /\ All => Cardinality(Upto(n)) = n * Local(setup)
           T == {n \in Nat : n <= Domains => P(n)}
<1>1. PICK l \in Nat : l = Local(setup)
  <2>1. Local(setup) \in Nat
    BY SetupParts DEF Local
  <2> QED
    BY <2>1
<1>2. 0 \in T
  <2>1. Upto(0) = {}
    OBVIOUS
  <2>2. Cardinality(Upto(0)) = 0
    BY <2>1, FS_EmptySet
  <2>3. 0 * Local(setup) = 0
    BY <1>1
  <2> HIDE DEF Upto, All
  <2> QED
    BY <2>2, <2>3
<1>3. ASSUME NEW n \in Nat, n \in T PROVE n + 1 \in T
  <2> SUFFICES ASSUME n + 1 <= Domains PROVE P(n + 1)
    OBVIOUS
  <2>1. PICK d \in 1 .. Domains : d = n + 1
    BY LoadParts
  <2>2. P(n)
    BY <1>3, <2>1, LoadParts
  <2>3. PICK A, B : A = Upto(n) /\ B = Held(ds[d])
    OBVIOUS
  <2>4. Upto(n + 1) = A \cup B
    <3>1. \A e \in 1 .. n + 1 : e \in 1 .. n \/ e = d
      BY <2>1
    <3>2. \A e \in 1 .. n : e \in 1 .. n + 1
      OBVIOUS
    <3>3. d \in 1 .. n + 1
      BY <2>1
    <3>4. B \subseteq HashKey
      BY <2>3 DEF Held
    <3> QED
      BY <2>3, <3>1, <3>2, <3>3, <3>4
  <2>5. A \cap B = {}
    <3>1. \A e \in 1 .. n : e \in 1 .. Domains /\ e # d
      BY <2>1, LoadParts
    <3> QED
      BY <2>3, <3>1
  <2>6. IsFiniteSet(A) /\ IsFiniteSet(B)
    <3>1. A \in SUBSET HashKey /\ B \in SUBSET HashKey
      BY <2>3 DEF Held
    <3>2. IsFiniteSet(HashKey)
      BY LoadParts
    <3> QED
      BY ONLY <3>1, <3>2, FS_Subset
  <2>7. Cardinality(A \cup B) = Cardinality(A) + Cardinality(B)
    <3>1. Cardinality(A \cup B) = Cardinality(A) + Cardinality(B) - Cardinality(A \cap B)
      BY ONLY <2>6, FS_Union
    <3>2. Cardinality(A \cap B) = 0
      BY <2>5, FS_EmptySet
    <3>3. Cardinality(A) \in Nat /\ Cardinality(B) \in Nat
      BY ONLY <2>6, FS_CardinalityType
    <3> QED
      BY <3>1, <3>2, <3>3
  <2>8. Cardinality(B) <= l /\ (All => Cardinality(B) = l)
    BY <1>1, <2>3, HeldCount
  <2>9. Cardinality(A) <= n * l /\ (All => Cardinality(A) = n * l)
    BY <1>1, <2>2, <2>3
  <2>10. (n + 1) * l = n * l + l
    <3>1. n \in Int /\ l \in Int
      BY <1>1
    <3> QED
      BY ONLY <3>1
  <2>11. Cardinality(A) \in Nat /\ Cardinality(B) \in Nat
    BY ONLY <2>6, FS_CardinalityType
  <2> HIDE DEF Upto, All
  <2>12. Cardinality(A) + Cardinality(B) <= (n + 1) * l
         /\ (All => Cardinality(A) + Cardinality(B) = (n + 1) * l)
    <3>1. PICK m \in Nat : m = n * l
      <4>1. n * l \in Nat
        BY <1>1
      <4> QED
        BY <4>1
    <3> QED
      BY <2>8, <2>9, <2>10, <2>11, <3>1
  <2> QED
    BY <1>1, <2>4, <2>7, <2>12
<1> HIDE DEF T
<1>4. Nat \subseteq T
  BY <1>2, <1>3, UpFromZero
<1>5. P(Domains)
  BY <1>4, LoadParts DEF T
<1>6. Upto(Domains) = Admitted(ds)
  BY DEF Admitted
<1> HIDE DEF Upto
<1> QED
  BY <1>5, <1>6

\* The primary holds the keys the overflow table does not; with keys that share
\* two buckets it overflows once it is full.
RareInv(s, r, S) ==
  /\ CuckooInv(s, 1, r.primary)
  /\ Held(r.primary) = S \ r.overflow /\ r.overflow \subseteq S
  /\ Together(s, 1) /\ r.overflow # {} => FullDomain(s, r.primary)

\* A key goes to one of the two.
LEMMA RareKeeps ==
  ASSUME HashConstants, setup \in Setups, NEW r, NEW S, RareInv(setup, r, S),
         NEW k \in HashKey, k \notin S
  PROVE  RareInv(setup, RareInsert(r, k), S \cup {k})
<1>1. PICK one \in 1 .. Domains : one = 1
  BY LoadParts
<1>2. PICK c, o : c = r.primary /\ o = r.overflow
  OBVIOUS
<1>3. /\ CuckooInv(setup, one, c) /\ Held(c) = S \ o /\ o \subseteq S
      /\ Together(setup, one) /\ o # {} => FullDomain(setup, c)
  BY <1>1, <1>2 DEF RareInv
<1>4. k \notin Held(c) /\ k \notin o
  BY <1>3
<1>5. PICK p : p = CuckooInsert(one, c, k)
  OBVIOUS
<1>6. Took(setup, one, c, k, p)
  <2>1. Took(setup, one, c, k, CuckooInsert(one, c, k))
    BY <1>3, <1>4, CuckooInsertKeeps
  <2> QED
    BY <1>5, <2>1
<1>7. PICK u : u = RareInsert(r, k)
  OBVIOUS
<1>8. u.primary = p.table /\ u.overflow = IF p.ok THEN o ELSE o \cup {k}
  BY <1>1, <1>2, <1>5, <1>7 DEF RareInsert
<1>9. CASE p.ok
  <2>1. CuckooInv(setup, one, p.table) /\ Held(p.table) = Held(c) \cup {k}
    BY <1>6, <1>9 DEF Took
  <2>2. Together(setup, one) => o = {}
    BY <1>3, <1>4, <2>1, FullRefuses
  <2>3. Held(p.table) = (S \cup {k}) \ o
    BY <1>3, <1>4, <2>1
  <2>4. RareInv(setup, u, S \cup {k})
    BY <1>1, <1>3, <1>8, <1>9, <2>1, <2>2, <2>3 DEF RareInv
  <2> QED
    BY <1>7, <2>4
<1>10. CASE ~p.ok
  <2>1. /\ p.table = c /\ Len(c.stash) >= setup.stash
        /\ \A b \in {PairOf(setup, one, k)[1], PairOf(setup, one, k)[2]}, i \in 0 .. setup.size-1 :
             c.bucket[b][i] # NoKey
    BY <1>6, <1>10 DEF Took
  <2>2. Together(setup, one) => FullDomain(setup, c)
    <3> SUFFICES ASSUME Together(setup, one) PROVE FullDomain(setup, c)
      OBVIOUS
    <3>1. PairOf(setup, one, k) = <<0, 1>>
      BY DEF Together
    <3> QED
      BY <2>1, <3>1 DEF FullDomain
  <2>3. Held(c) = (S \cup {k}) \ (o \cup {k}) /\ o \cup {k} \subseteq S \cup {k}
    BY <1>3, <1>4
  <2>4. RareInv(setup, u, S \cup {k})
    BY <1>1, <1>3, <1>8, <1>10, <2>1, <2>2, <2>3 DEF RareInv
  <2> QED
    BY <1>7, <2>4
<1> QED
  BY <1>9, <1>10

-----------------------------------------------------------------------------
(* All tables, over the keys inserted. *)

TablesInv ==
  /\ setup \in Setups /\ inserted \subseteq HashKey
  /\ last = [key |-> last.key, how |-> last.how, refused |-> last.refused, work |-> last.work]
  /\ StopInv(setup, stop, inserted)
  /\ LinearInv(setup, linear, inserted)
  /\ IncInv(setup, inc) /\ IncKeys(inc) \subseteq inserted /\ last.how # "broken"
  /\ Enough(setup) => IncKeys(inc) = inserted /\ last.how \in {"none", "ok"}
  /\ EscapeInv(setup, escape, inserted)
  /\ RareInv(setup, rare, inserted)

\* A lookup answers what the table holds.
FoundIsHeld ==
  \A k \in HashKey :
    /\ Finds(stop, k) <=> k \in Keys(stop)
    /\ Finds(linear, k) <=> k \in Keys(linear)
    /\ IncFinds(inc, k) <=> k \in IncKeys(inc)
    /\ \A d \in 1 .. Domains : CuckooFinds(d, escape[d], k) <=> k \in Held(escape[d])
    /\ CuckooFinds(1, rare.primary, k) <=> k \in Held(rare.primary)

\* At first all tables are empty.
LEMMA TablesStart ==
  ASSUME HashConstants, TablesInit
  PROVE  TablesInv
<1>1. setup \in Setups /\ inserted = {}
  BY DEF TablesInit
<1>2. last = [key |-> NoKey, how |-> "none", refused |-> FALSE, work |-> 0]
  BY DEF TablesInit
<1>3. last = [key |-> last.key, how |-> last.how, refused |-> last.refused, work |-> last.work]
      /\ last.how = "none"
  BY <1>2
<1>4. ASSUME NEW n \in Nat, n > 0, NEW t, t = EmptySlots(n)
      PROVE  Probed(setup, t) /\ Keys(t) = {} /\ Cap(t) = n /\ Size(t) = 0
  <2>1. Probed(setup, t) /\ Keys(t) = {} /\ Cap(t) = n
    BY <1>4, EmptyProbed
  <2>2. Size(t) = Cardinality(Keys(t))
    BY <1>1, <2>1, SizeIsKeys
  <2> QED
    BY <2>1, <2>2, FS_EmptySet
<1>5. PICK t : t = EmptySlots(InitialCapacity)
  OBVIOUS
<1>6. Probed(setup, t) /\ Keys(t) = {} /\ Cap(t) = InitialCapacity /\ Size(t) = 0
  BY <1>4, <1>5, LoadParts
<1>7. ~OverLoad(0, InitialCapacity)
  <2>1. 0 * LoadDen = 0 /\ InitialCapacity * LoadNum >= 0 /\ InitialCapacity * LoadNum \in Nat
    BY LoadParts
  <2> QED
    BY <2>1 DEF OverLoad
<1>8. StopInv(setup, stop, inserted)
  <2>1. stop = t
    BY <1>5 DEF TablesInit
  <2> QED
    BY <1>1, <1>6, <1>7, <2>1, LoadParts DEF StopInv
<1>9. LinearInv(setup, linear, inserted)
  <2>1. Probed(setup, linear) /\ Keys(linear) = {} /\ Cap(linear) = LinearCapacity /\ Size(linear) = 0
    BY <1>4, LoadParts DEF TablesInit
  <2>2. IsFiniteSet({}) /\ Cardinality({}) = 0
    BY FS_EmptySet
  <2>3. Least2(0, LinearCapacity) = 0
    BY LoadParts DEF Least2
  <2> QED
    BY <1>1, <2>1, <2>2, <2>3 DEF LinearInv
<1>10. IncInv(setup, inc) /\ IncKeys(inc) = {}
  <2>1. inc = [cur |-> t, old |-> NoOld, cursor |-> 0, copied |-> 0, source |-> 0, live |-> 0]
    BY <1>5 DEF TablesInit, FreshInc
  <2>2. IncShape(inc) /\ inc.cur = t /\ inc.old = NoOld /\ inc.live = 0
    BY <2>1 DEF IncShape
  <2>3. IncKeys(inc) = {}
    BY <1>6, <2>2, NoOldKeys DEF IncKeys
  <2>4. ASSUME Enough(setup) PROVE \E r \in Nat : r * LoadDen = InitialCapacity * LoadNum
    <3>1. PICK x \in Nat : x = InitialCapacity * LoadNum
      <4>1. InitialCapacity * LoadNum \in Nat
        BY LoadParts
      <4> QED
        BY <4>1
    <3>2. x % LoadDen = 0
      BY <2>4, <3>1 DEF Enough
    <3>3. x = LoadDen * (x \div LoadDen) + (x % LoadDen) /\ x \div LoadDen \in Nat
      BY LoadParts
    <3>4. PICK r \in Nat : r = x \div LoadDen
      BY <3>3
    <3>5. LoadDen * r = r * LoadDen
      BY LoadParts
    <3>6. LoadDen * r \in Nat
      BY LoadParts
    <3>7. r * LoadDen = x
      BY <3>1, <3>2, <3>3, <3>4, <3>5, <3>6
    <3> QED
      BY <3>1, <3>7
  <2>5. Idle(setup, inc)
    BY <1>6, <1>7, <2>2, <2>4, LoadParts DEF Idle
  <2> QED
    BY <2>3, <2>5 DEF IncInv
<1>11. PICK c : c = FreshCuckoo
  OBVIOUS
<1>12. \A d : CuckooInv(setup, d, c) /\ Held(c) = {}
  BY <1>1, <1>11, FreshCuckooInv
<1>13. EscapeInv(setup, escape, inserted)
  <2>1. escape = [d \in 1 .. Domains |-> c]
    BY <1>11 DEF TablesInit
  <2>2. \A d \in 1 .. Domains : escape[d] = c
    BY <2>1
  <2>3. escape = [d \in 1 .. Domains |-> escape[d]]
    BY <2>1
  <2> QED
    BY <1>1, <1>12, <2>2, <2>3 DEF EscapeInv
<1>14. RareInv(setup, rare, inserted)
  <2>1. rare.primary = c /\ rare.overflow = {}
    BY <1>11 DEF TablesInit
  <2> QED
    BY <1>1, <1>12, <2>1 DEF RareInv
<1> QED
  BY <1>1, <1>3, <1>8, <1>9, <1>10, <1>13, <1>14 DEF TablesInv

\* A key is inserted everywhere.
LEMMA InsertKeeps ==
  ASSUME HashConstants, TablesInv, NEW k \in HashKey, Insert(k)
  PROVE  /\ TablesInv'
         /\ Keys(linear) \subseteq Keys(linear') /\ IncKeys(inc) \subseteq IncKeys(inc')
         /\ \A d \in 1 .. Domains : /\ Held(escape[d]) \subseteq Held(escape'[d])
                                    /\ k \in Held(escape'[d]) \/ escape'[d] = escape[d]
         /\ last'.work <= Domains * WorkCap(setup)
<1>1. PICK i, e : i = IncInsert(inc, k) /\ e = EscapeInsert(escape, k)
  OBVIOUS
<1>2. /\ k \notin inserted /\ inserted' = inserted \cup {k}
      /\ stop' = StopInsert(stop, k) /\ linear' = LinearInsert(linear, k)
      /\ inc' = i.table /\ escape' = e.domains /\ rare' = RareInsert(rare, k)
      /\ last' = [key |-> k, how |-> i.how, refused |-> ~e.ok, work |-> e.work]
      /\ setup' = setup
  BY <1>1 DEF Insert
<1>3. /\ setup \in Setups /\ inserted \subseteq HashKey
      /\ StopInv(setup, stop, inserted) /\ LinearInv(setup, linear, inserted)
      /\ IncInv(setup, inc) /\ IncKeys(inc) \subseteq inserted
      /\ Enough(setup) => IncKeys(inc) = inserted
      /\ EscapeInv(setup, escape, inserted) /\ RareInv(setup, rare, inserted)
  BY DEF TablesInv
<1>4. StopInv(setup, stop', inserted')
  BY <1>2, <1>3, StopKeeps
<1>5. LinearInv(setup, linear', inserted') /\ Keys(linear) \subseteq Keys(linear')
  BY <1>2, <1>3, LinearKeeps
<1>6. /\ IncInv(setup, i.table) /\ i.how \in {"full", "overloaded", "ok"}
      /\ Enough(setup) => i.how = "ok"
      /\ IncKeys(i.table) = IF i.how = "full" THEN IncKeys(inc) ELSE IncKeys(inc) \cup {k}
  <2>1. k \notin IncKeys(inc)
    BY <1>2, <1>3
  <2> QED
    BY <1>1, <1>3, <2>1, IncInsertKeeps
<1>7. /\ IncKeys(inc) \subseteq IncKeys(inc') /\ IncKeys(inc') \subseteq inserted'
      /\ Enough(setup) => IncKeys(inc') = inserted'
  BY <1>2, <1>3, <1>6
<1>8. /\ EscapeInv(setup, e.domains, inserted \cup {k})
      /\ \A d \in 1 .. Domains : /\ Held(escape[d]) \subseteq Held(e.domains[d])
                                 /\ k \in Held(e.domains[d]) \/ e.domains[d] = escape[d]
      /\ e.work \in Nat /\ e.work <= Domains * WorkCap(setup)
  BY <1>1, <1>2, <1>3, EscapeKeeps
<1>9. RareInv(setup, rare', inserted')
  BY <1>2, <1>3, RareKeeps
<1>10. /\ last' = [key |-> last'.key, how |-> last'.how, refused |-> last'.refused,
                   work |-> last'.work]
       /\ last'.how = i.how /\ last'.work = e.work
  BY <1>2
<1>11. last'.how # "broken" /\ (Enough(setup) => last'.how \in {"none", "ok"})
  BY <1>6, <1>10
<1>12. inserted' \subseteq HashKey /\ setup' \in Setups
  BY <1>2, <1>3
<1>13. IncInv(setup, inc') /\ EscapeInv(setup, escape', inserted')
  BY <1>2, <1>6, <1>8
<1>14. TablesInv'
  BY <1>2, <1>4, <1>5, <1>7, <1>9, <1>10, <1>11, <1>12, <1>13 DEF TablesInv
<1> QED
  BY <1>2, <1>5, <1>7, <1>8, <1>10, <1>14

\* A key is inserted again where a table looks for it first.
LEMMA AgainKeeps ==
  ASSUME HashConstants, TablesInv, NEW k \in HashKey, InsertAgain(k)
  PROVE  /\ TablesInv' /\ UNCHANGED <<setup, inserted, linear, escape, rare>>
         /\ IncKeys(inc) \subseteq IncKeys(inc')
<1>1. PICK i : i = IncInsert(inc, k)
  OBVIOUS
<1>2. /\ k \in inserted /\ stop' = StopInsert(stop, k) /\ inc' = i.table
      /\ last' = IF i.how = "duplicate" THEN last ELSE [last EXCEPT !.key = k, !.how = i.how]
      /\ setup' = setup /\ inserted' = inserted /\ linear' = linear /\ escape' = escape
      /\ rare' = rare
  BY <1>1 DEF InsertAgain
<1>3. /\ setup \in Setups /\ inserted \subseteq HashKey
      /\ last = [key |-> last.key, how |-> last.how, refused |-> last.refused, work |-> last.work]
      /\ StopInv(setup, stop, inserted) /\ LinearInv(setup, linear, inserted)
      /\ IncInv(setup, inc) /\ IncKeys(inc) \subseteq inserted /\ last.how # "broken"
      /\ Enough(setup) => IncKeys(inc) = inserted /\ last.how \in {"none", "ok"}
      /\ EscapeInv(setup, escape, inserted) /\ RareInv(setup, rare, inserted)
  BY DEF TablesInv
<1>4. StopInv(setup, stop', inserted')
  <2>1. StopInv(setup, StopInsert(stop, k), inserted \cup {k})
    BY <1>3, StopKeeps
  <2>2. inserted \cup {k} = inserted'
    BY <1>2
  <2> QED
    BY <1>2, <2>1, <2>2
<1>5. CASE k \in IncKeys(inc)
  <2>1. i = [table |-> inc, how |-> "duplicate"]
    BY <1>1, <1>3, <1>5, IncInsertKeeps
  <2>2. inc' = inc /\ last' = last
    BY <1>2, <2>1
  <2>3. /\ last' = [key |-> last'.key, how |-> last'.how, refused |-> last'.refused,
                    work |-> last'.work]
        /\ last'.how # "broken" /\ (Enough(setup) => last'.how \in {"none", "ok"})
    BY <1>3, <2>2
  <2>4. /\ IncInv(setup, inc') /\ IncKeys(inc') \subseteq inserted'
        /\ Enough(setup) => IncKeys(inc') = inserted'
    BY <1>2, <1>3, <2>2
  <2>5. TablesInv'
    BY <1>2, <1>3, <1>4, <2>3, <2>4 DEF TablesInv
  <2> QED
    BY <1>2, <2>2, <2>5
<1>6. CASE k \notin IncKeys(inc)
  <2>1. /\ IncInv(setup, i.table) /\ i.how \in {"full", "overloaded", "ok"}
        /\ IncKeys(i.table) = IF i.how = "full" THEN IncKeys(inc) ELSE IncKeys(inc) \cup {k}
    BY <1>1, <1>3, <1>6, IncInsertKeeps
  <2>2. ~Enough(setup)
    BY <1>2, <1>3, <1>6
  <2>3. last' = [last EXCEPT !.key = k, !.how = i.how]
    BY <1>2, <2>1
  <2>4. /\ last' = [key |-> last'.key, how |-> last'.how, refused |-> last'.refused,
                    work |-> last'.work]
        /\ last'.how = i.how
    BY <1>3, <2>3
  <2>5. last'.how # "broken"
    BY <2>1, <2>4
  <2>6. IncKeys(inc) \subseteq IncKeys(inc') /\ IncKeys(inc') \subseteq inserted'
    BY <1>2, <1>3, <2>1
  <2>7. IncInv(setup, inc')
    BY <1>2, <2>1
  <2>8. TablesInv'
    BY <1>2, <1>3, <1>4, <2>2, <2>4, <2>5, <2>6, <2>7 DEF TablesInv
  <2> QED
    BY <1>2, <2>6, <2>8
<1> QED
  BY <1>5, <1>6

\* What a lookup finds.
LEMMA HeldIsFound ==
  ASSUME HashConstants, TablesInv
  PROVE  FoundIsHeld
<1> SUFFICES ASSUME NEW k \in HashKey
             PROVE  /\ Finds(stop, k) <=> k \in Keys(stop)
                    /\ Finds(linear, k) <=> k \in Keys(linear)
                    /\ IncFinds(inc, k) <=> k \in IncKeys(inc)
                    /\ \A d \in 1 .. Domains : CuckooFinds(d, escape[d], k) <=> k \in Held(escape[d])
                    /\ CuckooFinds(1, rare.primary, k) <=> k \in Held(rare.primary)
  BY DEF FoundIsHeld
<1>1. setup \in Setups /\ Probed(setup, stop) /\ Probed(setup, linear) /\ IncInv(setup, inc)
  BY DEF TablesInv, StopInv, LinearInv
<1>2. (Finds(stop, k) <=> k \in Keys(stop)) /\ (Finds(linear, k) <=> k \in Keys(linear))
  BY <1>1, FindsKept
<1>3. IncFinds(inc, k) <=> k \in IncKeys(inc)
  BY <1>1, IncFindsKept
<1>4. \A d \in 1 .. Domains : CuckooFinds(d, escape[d], k) <=> k \in Held(escape[d])
  <2>1. \A d \in 1 .. Domains : CuckooInv(setup, d, escape[d])
    BY DEF TablesInv, EscapeInv
  <2> QED
    BY <1>1, <2>1, CuckooFindsHeld
<1>5. CuckooFinds(1, rare.primary, k) <=> k \in Held(rare.primary)
  <2>1. 1 \in 1 .. Domains
    BY LoadParts
  <2>2. CuckooInv(setup, 1, rare.primary)
    BY DEF TablesInv, RareInv
  <2> QED
    BY <1>1, <2>1, <2>2, CuckooFindsHeld
<1> QED
  BY <1>2, <1>3, <1>4, <1>5

\* A step keeps the invariant.
LEMMA TablesStepKeeps ==
  ASSUME HashConstants, TablesInv, [TablesNext]_tvars
  PROVE  TablesInv'
<1>1. ASSUME NEW k \in HashKey, Insert(k) PROVE TablesInv'
  BY <1>1, InsertKeeps
<1>2. ASSUME NEW k \in HashKey, InsertAgain(k) PROVE TablesInv'
  BY <1>2, AgainKeeps
<1>3. ASSUME UNCHANGED tvars PROVE TablesInv'
  BY <1>3 DEF TablesInv, tvars
<1> QED
  BY <1>1, <1>2, <1>3 DEF TablesNext

\* The keys of the tables are those the envelopes ask for.
LEMMA EnvelopesHold ==
  ASSUME HashConstants, TablesInv
  PROVE  TablesAgree
<1>1. /\ setup \in Setups /\ inserted \subseteq HashKey
      /\ StopInv(setup, stop, inserted) /\ LinearInv(setup, linear, inserted)
      /\ IncInv(setup, inc) /\ IncKeys(inc) \subseteq inserted /\ last.how # "broken"
      /\ Enough(setup) => IncKeys(inc) = inserted /\ last.how \in {"none", "ok"}
      /\ EscapeInv(setup, escape, inserted) /\ RareInv(setup, rare, inserted)
  BY DEF TablesInv
<1>2. FoundIsHeld
  BY HeldIsFound
<1>3. IsFiniteSet(inserted) /\ Cardinality(inserted) \in Nat
  <2>1. inserted \in SUBSET HashKey /\ IsFiniteSet(HashKey)
    BY <1>1, LoadParts
  <2> QED
    BY <2>1, FS_Subset, FS_CardinalityType
<1>4. ResizeEnvelope
  <2>1. Probed(setup, stop) /\ Keys(stop) = inserted /\ ~OverLoad(Size(stop), Cap(stop))
    BY <1>1 DEF StopInv
  <2>2. Size(stop) = Cardinality(inserted)
    BY <1>1, <2>1, SizeIsKeys
  <2>3. \A k \in HashKey : Finds(stop, k) <=> k \in inserted
    BY <1>2, <2>1 DEF FoundIsHeld
  <2> QED
    BY <2>1, <2>2, <2>3 DEF ResizeEnvelope
<1>5. IncrementalEnvelope
  <2>1. /\ IncKeys(inc) \subseteq HashKey /\ Cardinality(IncKeys(inc)) = inc.live
        /\ 2 * (Cap(inc.cur) + Cardinality(DOMAIN inc.old)) <= 3 * Cap(inc.cur)
    BY <1>1, IncFindsKept
  <2>2. \A k \in HashKey : IncFinds(inc, k) <=> k \in IncKeys(inc)
    BY <1>2 DEF FoundIsHeld
  <2>3. {k \in HashKey : IncFinds(inc, k)} = IncKeys(inc)
    BY <2>1, <2>2
  <2>4. \A k \in HashKey : IncFinds(inc, k) => k \in inserted
    BY <1>1, <2>2
  <2>5. ASSUME setup.budget * LoadNum >= LoadDen, (InitialCapacity * LoadNum) % LoadDen = 0
        PROVE  last.how \in {"none", "ok"} /\ inc.live = Cardinality(inserted)
    <3>1. Enough(setup)
      BY <2>5 DEF Enough
    <3> QED
      BY <1>1, <2>1, <3>1
  <2> QED
    BY <1>1, <2>1, <2>3, <2>4, <2>5 DEF IncrementalEnvelope
<1>6. /\ Held(rare.primary) = inserted \ rare.overflow /\ rare.overflow \subseteq inserted
      /\ CuckooInv(setup, 1, rare.primary)
      /\ Together(setup, 1) /\ rare.overflow # {} => FullDomain(setup, rare.primary)
  BY <1>1 DEF RareInv
<1>7. \A k \in HashKey : CuckooFinds(1, rare.primary, k) <=> k \in Held(rare.primary)
  BY <1>2 DEF FoundIsHeld
<1>8. Held(rare.primary) \subseteq HashKey
  BY DEF Held
<1>9. PlacementEnvelope
  <2>1. Keys(linear) \subseteq inserted
        /\ Size(linear) = Least2(Cardinality(inserted), LinearCapacity)
    BY <1>1 DEF LinearInv
  <2>2. \A k \in HashKey : Finds(linear, k) => k \in inserted
    BY <1>2, <2>1 DEF FoundIsHeld
  <2>3. {k \in HashKey : CuckooFinds(1, rare.primary, k)} = Held(rare.primary)
    BY <1>7, <1>8
  <2>4. Cardinality(Held(rare.primary)) = Cardinality(inserted) - Cardinality(rare.overflow)
    <3>1. Cardinality(inserted \ rare.overflow)
            = Cardinality(inserted) - Cardinality(inserted \cap rare.overflow)
      BY <1>3, FS_Difference
    <3>2. inserted \cap rare.overflow = rare.overflow
      BY <1>6
    <3> QED
      BY <1>6, <3>1, <3>2
  <2> QED
    BY <2>1, <2>2, <2>3, <2>4 DEF PlacementEnvelope, Least2
<1>10. EscapeEnvelope
  <2>1. /\ \A d \in 1 .. Domains : CuckooInv(setup, d, escape[d]) /\ Held(escape[d]) \subseteq inserted
        /\ \A d, e \in 1 .. Domains : d # e => Held(escape[d]) \cap Held(escape[e]) = {}
        /\ (\A d \in 1 .. Domains : Together(setup, d)) =>
             inserted \subseteq Admitted(escape) \/ \A d \in 1 .. Domains : FullDomain(setup, escape[d])
    BY <1>1 DEF EscapeInv
  <2>2. \A k \in HashKey, d \in 1 .. Domains : CuckooFinds(d, escape[d], k) <=> k \in Held(escape[d])
    BY <1>2 DEF FoundIsHeld
  <2>3. PICK A : A = {k \in HashKey : EscapeFinds(escape, k)}
    OBVIOUS
  <2>4. A = Admitted(escape)
    BY <2>2, <2>3 DEF Admitted, EscapeFinds
  <2>5. A \subseteq inserted
    BY <2>1, <2>4 DEF Admitted
  <2>6. ASSUME NEW k \in A
        PROVE  Cardinality({d \in 1 .. Domains : CuckooFinds(d, escape[d], k)}) = 1
    <3>1. k \in HashKey /\ \E d \in 1 .. Domains : k \in Held(escape[d])
      BY <2>4 DEF Admitted
    <3>2. PICK d \in 1 .. Domains : k \in Held(escape[d])
      BY <3>1
    <3>3. \A e \in 1 .. Domains : CuckooFinds(e, escape[e], k) <=> e = d
      BY <2>1, <2>2, <3>1, <3>2
    <3>4. {e \in 1 .. Domains : CuckooFinds(e, escape[e], k)} = {d}
      BY <3>3
    <3> QED
      BY <3>4, FS_Singleton
  <2>7. ASSUME \A d \in 1 .. Domains, k \in HashKey : Pair(d, k) = <<0, 1>>
        PROVE  Cardinality(A) = IF Cardinality(inserted) < Domains * Local(setup)
                                THEN Cardinality(inserted) ELSE Domains * Local(setup)
    <3>1. \A d \in 1 .. Domains : Together(setup, d)
      BY <1>1, <2>7, PairIs DEF Together
    <3>2. PICK m \in Nat : m = Domains * Local(setup)
      <4>1. Domains \in Nat /\ Local(setup) \in Nat
        BY <1>1, LoadParts, SetupParts DEF Local
      <4>2. Domains * Local(setup) \in Nat
        BY <4>1
      <4> QED
        BY <4>2
    <3>3. /\ Cardinality(A) <= m
          /\ (\A d \in 1 .. Domains : FullDomain(setup, escape[d])) => Cardinality(A) = m
      BY <1>1, <2>1, <2>4, <3>1, <3>2, EscapeCount
    <3>4. Cardinality(A) <= Cardinality(inserted) /\ Cardinality(A) \in Nat
      BY <1>3, <2>5, FS_Subset, FS_CardinalityType
    <3>5. A = inserted \/ Cardinality(A) = m
      BY <2>1, <2>4, <2>5, <3>1, <3>3
    <3>6. Cardinality(A) = IF Cardinality(inserted) < m THEN Cardinality(inserted) ELSE m
      BY <1>3, <3>3, <3>4, <3>5
    <3> QED
      BY <3>2, <3>6
  <2> QED
    BY <2>3, <2>5, <2>6, <2>7 DEF EscapeEnvelope, Local
<1>11. RareEnvelope
  <2>1. \A k \in inserted : CuckooFinds(1, rare.primary, k) <=> k \notin rare.overflow
    BY <1>1, <1>6, <1>7
  <2>2. \A k \in HashKey : RareFinds(rare, k) <=> k \in inserted
    BY <1>6, <1>7 DEF RareFinds
  <2>3. ASSUME \A k \in HashKey : Pair(1, k) = <<0, 1>>, rare.overflow # {}
        PROVE  Cardinality(inserted \ rare.overflow) = Local(setup)
    <3>1. PICK one \in 1 .. Domains : one = 1
      BY LoadParts
    <3>2. Together(setup, one)
      BY <1>1, <2>3, <3>1, PairIs DEF Together
    <3>3. FullDomain(setup, rare.primary) /\ CuckooInv(setup, one, rare.primary)
      BY <1>6, <2>3, <3>1, <3>2
    <3>4. Cardinality(Held(rare.primary)) = Local(setup)
      BY <1>1, <3>2, <3>3, HeldCount
    <3> QED
      BY <1>6, <3>4
  <2> QED
    BY <2>1, <2>2, <2>3 DEF RareEnvelope, Local
<1> QED
  BY <1>4, <1>5, <1>9, <1>10, <1>11 DEF TablesAgree

\* A step loses no key, and a domain that does not take its key stays.
LEMMA StepLosesNone ==
  ASSUME HashConstants, TablesInv, FoundIsHeld, FoundIsHeld', [TablesNext]_tvars
  PROVE  [NoKeyIsLost]_tvars
<1> SUFFICES ASSUME TablesNext PROVE NoKeyIsLost
  OBVIOUS
<1>1. PICK x \in HashKey : Insert(x) \/ InsertAgain(x)
  BY DEF TablesNext
<1>2. /\ Keys(linear) \subseteq Keys(linear') /\ IncKeys(inc) \subseteq IncKeys(inc')
      /\ \A d \in 1 .. Domains : Held(escape[d]) \subseteq Held(escape'[d])
  <2>1. CASE Insert(x)
    BY <2>1, InsertKeeps
  <2>2. CASE InsertAgain(x)
    <3>1. linear' = linear /\ escape' = escape /\ IncKeys(inc) \subseteq IncKeys(inc')
      BY <2>2, AgainKeeps
    <3> QED
      BY <3>1
  <2> QED
    BY <1>1, <2>1, <2>2
<1> SUFFICES ASSUME NEW k \in HashKey
             PROVE  /\ EscapeFinds(escape, k) => EscapeFinds(escape, k)'
                    /\ Finds(linear, k) => Finds(linear, k)'
                    /\ IncFinds(inc, k) => IncFinds(inc, k)'
                    /\ Insert(k) =>
                         /\ \A d \in 1 .. Domains :
                               CuckooFinds(d, escape[d], k)' \/ escape'[d] = escape[d]
                         /\ last'.work <= Domains * (setup.size * (2 + MaxKicks) + 2 * MaxKicks)
  BY DEF NoKeyIsLost
<1>3. /\ Finds(linear, k) <=> k \in Keys(linear)
      /\ IncFinds(inc, k) <=> k \in IncKeys(inc)
      /\ \A d \in 1 .. Domains : CuckooFinds(d, escape[d], k) <=> k \in Held(escape[d])
  BY DEF FoundIsHeld
<1>4. /\ Finds(linear, k)' <=> k \in Keys(linear')
      /\ IncFinds(inc, k)' <=> k \in IncKeys(inc')
      /\ \A d \in 1 .. Domains : CuckooFinds(d, escape[d], k)' <=> k \in Held(escape'[d])
  BY DEF FoundIsHeld
<1>5. EscapeFinds(escape, k) <=> \E d \in 1 .. Domains : CuckooFinds(d, escape[d], k)
  BY DEF EscapeFinds
<1>6. EscapeFinds(escape, k)' <=> \E d \in 1 .. Domains : CuckooFinds(d, escape[d], k)'
  BY DEF EscapeFinds
<1>7. ASSUME Insert(k)
      PROVE  /\ \A d \in 1 .. Domains : k \in Held(escape'[d]) \/ escape'[d] = escape[d]
             /\ last'.work <= Domains * WorkCap(setup)
  BY <1>7, InsertKeeps
<1> QED
  BY <1>2, <1>3, <1>4, <1>5, <1>6, <1>7 DEF WorkCap

\* A process that does more than the tables does what they do.
LEMMA TablesAlone == InMemorySpec => TablesSpec
<1>1. InMemoryInit => TablesInit
  BY DEF InMemoryInit
<1>2. [InMemoryNext]_<<tvars, known, state, addressVars>> => [TablesNext]_tvars
  BY DEF InMemoryNext, TablesStep, CellsStep, AddressStep
<1> QED
  BY <1>1, <1>2, PTL DEF InMemorySpec, TablesSpec

\* Whatever the hashes and the capacities: the tables' lookups agree with the keys
\* inserted, as the envelopes of the experiments assert.
THEOREM TablesAnswerAlike == ASSUME HashConstants PROVE InMemorySpec => []TablesAgree
<1>1. TablesInit => TablesInv
  BY TablesStart
<1>2. TablesInv /\ [TablesNext]_tvars => TablesInv'
  BY TablesStepKeeps
<1>3. TablesInv => TablesAgree
  BY EnvelopesHold
<1> QED
  BY <1>1, <1>2, <1>3, TablesAlone, PTL DEF TablesSpec

\* No insertion loses a key, changes a domain that refuses it, or works more than
\* its cap.
THEOREM TablesKeepKeys == ASSUME HashConstants PROVE InMemorySpec => KeysStay
<1>1. TablesInit => TablesInv
  BY TablesStart
<1>2. TablesInv /\ [TablesNext]_tvars => TablesInv'
  BY TablesStepKeeps
<1>3. TablesInv => FoundIsHeld
  BY HeldIsFound
<1>4. TablesInv /\ FoundIsHeld /\ FoundIsHeld' /\ [TablesNext]_tvars => [NoKeyIsLost]_tvars
  BY StepLosesNone
<1> QED
  BY <1>1, <1>2, <1>3, <1>4, TablesAlone, PTL DEF TablesSpec, KeysStay
=============================================================================
