------------------------ MODULE SubjectProfile_proofs ------------------------
(***************************************************************************)
(* Proofs about SubjectProfile, for callers that add an entity's predicate *)
(* only when it is absent (AddOnce).                                       *)
(*                                                                         *)
(* An intent is applied only while the version of what it writes is the    *)
(* one it was admitted under, so its snapshot still holds; hence           *)
(* refreshing the keys it names keeps the tables of heads and memberships. *)
(* Outside the nodes it invalidates, the full rebuilds before and after it *)
(* agree (RegionAgrees), and a repair mends the others level by level.     *)
(* The supports among them are of the keys it protects (RegionWithin), so  *)
(* a composed read that is let through finds none of them.                 *)
(***************************************************************************)
EXTENDS SubjectProfile, Integers, WellFoundedInduction, SequenceTheorems, TLAPS

Object  == {42, 55, 77}
Row     == [subject : Subject, predicate : Predicate, object : Object]
Payload == {"Atlas", "Nova"}
Facts   == [evidence : [Item -> Payload \cup {None}], assertion : [Item -> Row \cup {NoRow}]]

\* An intent as the queue keeps it.
IsWrite(i) ==
  /\ i.item \in Item
  /\ \/ i.op = "evidence" /\ i.new \in Payload
     \/ i.op = "assertion" /\ i.new \in Row /\ i.old \in Row \cup {NoRow}
     \/ i.op = "delete" /\ i.new = NoRow /\ i.old \in Row \cup {NoRow}

\* The facts still hold the row it was admitted over.
Fits(f, i) ==
  /\ f \in Facts
  /\ IsWrite(i)
  /\ i.op # "evidence" => f.assertion[i.item] = i.old

-----------------------------------------------------------------------------
(* Keys and their latest assertions *)

\* The key of a row is a key, and no key is that of no row.
LEMMA RealKeys ==
  /\ NoRow \notin Row
  /\ \A r \in Row : KeyOf(r) \in Key /\ KeyOf(r) # KeyOf(NoRow)
  /\ KeyOf(NoRow) \notin Key
  /\ \A k \in Key : k[1] \in Subject /\ k[2] \in Predicate /\ k = <<k[1], k[2]>>
BY NoneAssumption DEF Row, NoRow, KeyOf, Key

\* A set of items has a last one.
LEMMA LastItem ==
  ASSUME NEW T \in SUBSET Item, T # {}
  PROVE  \E i \in T : \A j \in T : j <= i
<1> DEFINE n == 2 * EntityCount
           S == {m \in Nat : n - m \in T}
           R == OpToRel(<, Nat)
<1>0. n \in Nat /\ T \subseteq 0 .. n-1
  BY EntityAssumption DEF Item
<1>1. S \subseteq Nat /\ S # {}
  <2>1. PICK i \in T : TRUE
    OBVIOUS
  <2>2. n - i \in Nat /\ n - (n - i) = i
    BY <1>0, <2>1
  <2> QED
    BY <2>1, <2>2
<1>2. IsWellFoundedOn(R, Nat)
  BY NatLessThanWellFounded DEF OpToRel
<1>3. PICK m \in S : \A k \in S : ~ (<<k, m>> \in R)
  <2> HIDE DEF R, S
  <2> QED
    BY <1>1, <1>2, WFMin
<1>4. \A k \in S : ~ (k < m)
  BY <1>3 DEF OpToRel
<1>5. ASSUME NEW j \in T
      PROVE  j <= n - m
  <2>1. n - j \in S
    BY <1>0, <1>5
  <2>2. ~ (n - j < m)
    BY <2>1, <1>4
  <2> QED
    BY <1>0, <2>2
<1> QED
  BY <1>5

\* The latest assertion of a key that has some is one of them.
LEMMA LatestIs ==
  ASSUME NEW f, NEW k, About(f, k) # {}
  PROVE  /\ Latest(f, k) \in About(f, k)
         /\ Latest(f, k) \in Item /\ f.assertion[Latest(f, k)] # NoRow
         /\ KeyOf(f.assertion[Latest(f, k)]) = k
<1>1. About(f, k) \in SUBSET Item
  BY DEF About
<1>2. \E i \in About(f, k) : \A j \in About(f, k) : j <= i
  BY <1>1, LastItem
<1>3. Latest(f, k) \in About(f, k)
  BY <1>2 DEF Latest
<1> QED
  BY <1>3 DEF About

\* It depends on which assertions are about the key alone.
LEMMA LatestDepends ==
  ASSUME NEW f, NEW g, NEW k, About(f, k) = About(g, k)
  PROVE  Latest(f, k) = Latest(g, k)
BY DEF Latest

\* The heads, and what is read through them.
LEMMA HeadsAre ==
  ASSUME NEW f, NEW s \in Subject
  PROVE  /\ \A k \in Key : Heads(f)[k] # None <=> About(f, k) # {}
         /\ \A k \in Key : About(f, k) # {} => Heads(f)[k] = Latest(f, k)
         /\ Having(Heads(f), s) = {p \in Predicate : About(f, <<s, p>>) # {}}
         /\ Current(Heads(f), s) = {Latest(f, <<s, p>>) : p \in Having(Heads(f), s)}
<1>1. \A k \in Key : About(f, k) # {} => Heads(f)[k] = Latest(f, k) /\ Latest(f, k) \in Item
  BY LatestIs DEF Heads
<1>2. \A k \in Key : About(f, k) = {} => Heads(f)[k] = None
  BY DEF Heads
<1>3. \A k \in Key : Heads(f)[k] # None <=> About(f, k) # {}
  BY <1>1, <1>2, NoneAssumption
<1>4. \A p \in Predicate : <<s, p>> \in Key
  BY DEF Key
<1>5. Having(Heads(f), s) = {p \in Predicate : About(f, <<s, p>>) # {}}
  BY <1>3, <1>4 DEF Having
<1>6. \A p \in Having(Heads(f), s) : Heads(f)[<<s, p>>] = Latest(f, <<s, p>>)
  BY <1>1, <1>4, <1>5
<1>7. Current(Heads(f), s) = {Latest(f, <<s, p>>) : p \in Having(Heads(f), s)}
  BY <1>6 DEF Current
<1> QED
  BY <1>1, <1>3, <1>5, <1>7

-----------------------------------------------------------------------------
(* What an intent does to the facts *)

\* An intent changes the row it names, and nothing else.
LEMMA EffectIs ==
  ASSUME NEW f, NEW i, Fits(f, i), NEW g, g = Effect(f, i)
  PROVE  /\ g \in Facts
         /\ i.op = "evidence" =>
              /\ g.assertion = f.assertion
              /\ \A j \in Item : j # i.item => g.evidence[j] = f.evidence[j]
         /\ i.op # "evidence" =>
              /\ g.evidence = f.evidence
              /\ g.assertion[i.item] = i.new
              /\ \A j \in Item : j # i.item => g.assertion[j] = f.assertion[j]
<1>1. f \in Facts /\ i.item \in Item /\ f = [evidence |-> f.evidence, assertion |-> f.assertion]
  BY DEF Fits, IsWrite, Facts
<1>2. CASE i.op = "evidence"
  <2>1. PICK e : e = [f.evidence EXCEPT ![i.item] = i.new]
    OBVIOUS
  <2>2. g.evidence = e /\ g.assertion = f.assertion /\ g = [evidence |-> e, assertion |-> f.assertion]
    BY <1>1, <1>2, <2>1 DEF Effect
  <2>3. i.new \in Payload
    BY <1>2 DEF Fits, IsWrite
  <2>4. e \in [Item -> Payload \cup {None}] /\ \A j \in Item : j # i.item => e[j] = f.evidence[j]
    BY <1>1, <2>1, <2>3 DEF Facts
  <2> QED
    BY <1>1, <1>2, <2>2, <2>4 DEF Facts
<1>3. CASE i.op # "evidence"
  <2>1. PICK a : a = [f.assertion EXCEPT ![i.item] = i.new]
    OBVIOUS
  <2>2. g.evidence = f.evidence /\ g.assertion = a /\ g = [evidence |-> f.evidence, assertion |-> a]
    BY <1>1, <1>3, <2>1 DEF Effect
  <2>3. i.new \in Row \cup {NoRow}
    BY <1>3 DEF Fits, IsWrite
  <2>4. /\ a \in [Item -> Row \cup {NoRow}] /\ a[i.item] = i.new
        /\ \A j \in Item : j # i.item => a[j] = f.assertion[j]
    BY <1>1, <2>1, <2>3 DEF Facts
  <2> QED
    BY <1>1, <1>3, <2>2, <2>4 DEF Facts
<1> QED
  BY <1>2, <1>3

\* The keys an intent on an assertion writes under are those of its two rows.
LEMMA KeysAre ==
  ASSUME NEW f, NEW i, Fits(f, i), i.op # "evidence"
  PROVE  /\ KeysOf(i) \in SUBSET Key
         /\ \A k : k \in KeysOf(i) <=> \/ i.new # NoRow /\ k = KeyOf(i.new)
                                       \/ i.old # NoRow /\ k = KeyOf(i.old)
         /\ i.new # NoRow => i.op = "assertion" /\ i.new \in Row
<1>1. i.new \in Row \cup {NoRow} /\ i.old \in Row \cup {NoRow}
  BY DEF Fits, IsWrite
<1>2. \A k : k \in KeysOf(i) <=> \/ i.new # NoRow /\ k = KeyOf(i.new)
                                 \/ i.old # NoRow /\ k = KeyOf(i.old)
  BY DEF KeysOf
<1>3. i.new # NoRow => i.op = "assertion" /\ i.new \in Row
  BY DEF Fits, IsWrite
<1> QED
  BY <1>1, <1>2, <1>3, RealKeys

\* Keys an intent does not write under keep their assertions.
LEMMA OthersStay ==
  ASSUME NEW f, NEW i, Fits(f, i), NEW g, g = Effect(f, i), NEW k, k \notin Touched(i)
  PROVE  /\ About(g, k) = About(f, k)
         /\ \A j \in About(f, k) : g.assertion[j] = f.assertion[j]
         /\ i.op # "evidence" => i.item \notin About(f, k)
<1>1. CASE i.op = "evidence"
  BY <1>1, EffectIs DEF About
<1>2. CASE i.op # "evidence"
  <2>1. /\ g.assertion[i.item] = i.new /\ f.assertion[i.item] = i.old
        /\ \A j \in Item : j # i.item => g.assertion[j] = f.assertion[j]
    BY <1>2, EffectIs DEF Fits
  <2>2. /\ i.new # NoRow => k # KeyOf(i.new)
        /\ i.old # NoRow => k # KeyOf(i.old)
    BY <1>2, KeysAre DEF Touched
  <2>3. i.item \notin About(f, k) /\ i.item \notin About(g, k)
    BY <2>1, <2>2 DEF About
  <2>4. About(g, k) = About(f, k)
    BY <2>1, <2>3 DEF About
  <2>5. \A j \in About(f, k) : g.assertion[j] = f.assertion[j]
    BY <2>1, <2>3 DEF About
  <2> QED
    BY <2>3, <2>4, <2>5
<1> QED
  BY <1>1, <1>2

\* Refreshing the keys an intent writes under keeps the tables of heads and of
\* memberships those of a scan.
LEMMA RefreshKeeps ==
  ASSUME NEW f, NEW i, Fits(f, i), NEW g, g = Effect(f, i)
  PROVE  /\ Refreshed(Heads(f), g, Touched(i)) = Heads(g)
         /\ Synced({k \in Key : Heads(f)[k] # None}, Heads(g), Touched(i))
              = {k \in Key : Heads(g)[k] # None}
<1>1. ASSUME NEW k \in Key, k \notin Touched(i)
      PROVE  Heads(f)[k] = Heads(g)[k]
  <2>1. About(g, k) = About(f, k)
    BY <1>1, OthersStay
  <2>2. Latest(f, k) = Latest(g, k)
    BY <2>1, LatestDepends
  <2> QED
    BY <2>1, <2>2 DEF Heads
<1>2. Refreshed(Heads(f), g, Touched(i)) = [k \in Key |-> Heads(g)[k]]
  BY <1>1 DEF Refreshed
<1>3. Heads(g) = [k \in Key |-> Heads(g)[k]]
  BY DEF Heads
<1>4. Touched(i) \subseteq Key
  BY KeysAre DEF Touched
<1>5. Synced({k \in Key : Heads(f)[k] # None}, Heads(g), Touched(i))
        = {k \in Key : Heads(g)[k] # None}
  BY <1>1, <1>4 DEF Synced
<1> QED
  BY <1>2, <1>3, <1>5

-----------------------------------------------------------------------------
(* The nodes of a key, and what a clean build makes of them *)

St(s, p) == <<"state", s, p>>
Co(s, p) == <<"context", s, p>>

\* A node is a profile, or one of the three of a key.
LEMMA NodeForms ==
  /\ \A s \in Subject : Profile(s) \in Node
  /\ \A s \in Subject, p \in Predicate : /\ St(s, p) \in Node /\ Support(s, p) \in Node
                                         /\ Co(s, p) \in Node /\ <<s, p>> \in Key
  /\ \A n \in Node : \/ \E s \in Subject : n = Profile(s)
                     \/ \E s \in Subject, p \in Predicate : n \in {St(s, p), Support(s, p), Co(s, p)}
<1>1. \A n \in Node : \/ \E s \in Subject : n = Profile(s)
                      \/ \E s \in Subject, p \in Predicate : n \in {St(s, p), Support(s, p), Co(s, p)}
  <2> SUFFICES ASSUME NEW n \in Node
               PROVE  \/ \E s \in Subject : n = Profile(s)
                      \/ \E s \in Subject, p \in Predicate : n \in {St(s, p), Support(s, p), Co(s, p)}
    OBVIOUS
  <2>1. CASE n \in {"profile"} \X Subject \X {None}
    BY <2>1 DEF Profile
  <2>2. CASE n \in {"state", "support", "context"} \X Subject \X Predicate
    <3>1. PICK c \in {"state", "support", "context"}, s \in Subject, p \in Predicate : n = <<c, s, p>>
      BY <2>2
    <3> QED
      BY <3>1 DEF St, Support, Co
  <2> QED
    BY <2>1, <2>2 DEF Node
<1> QED
  BY <1>1 DEF Node, Profile, St, Support, Co, Key

\* What the parts of a node are.
LEMMA NodeParts ==
  /\ \A s : Profile(s)[1] = "profile" /\ Profile(s)[2] = s
  /\ \A s, p : /\ St(s, p)[1] = "state" /\ St(s, p)[2] = s /\ St(s, p)[3] = p
               /\ Support(s, p)[1] = "support" /\ Support(s, p)[2] = s /\ Support(s, p)[3] = p
               /\ Co(s, p)[1] = "context" /\ Co(s, p)[2] = s /\ Co(s, p)[3] = p
  /\ \A i : <<"assertion", i>>[1] = "assertion" /\ <<"evidence", i>>[1] = "evidence"
BY DEF Profile, St, Support, Co

StateRow(f, s, p)   == FreshRow(State(f, Latest(f, <<s, p>>)), {<<"assertion", Latest(f, <<s, p>>)>>})
SupportRow(f, s, p) == FreshRow(Supported(f, Latest(f, <<s, p>>)),
                                Canonical(Latest(f, <<s, p>>)) \cup {St(s, p)})
ContextRow(f, s, p) == FreshRow(Supported(f, Latest(f, <<s, p>>)), {Support(s, p)})

\* The rows of a clean build, by whether the key has an assertion.
LEMMA CleanIs ==
  ASSUME NEW rel, NEW f, NEW c, c = Clean(rel, f), NEW s \in Subject, NEW p \in Predicate
  PROVE  /\ c[Profile(s)] = ProfileRow(rel, f, Heads(f), s)
         /\ About(f, <<s, p>>) = {} =>
              c[St(s, p)] = NoNode /\ c[Support(s, p)] = NoNode /\ c[Co(s, p)] = NoNode
         /\ About(f, <<s, p>>) # {} =>
              /\ c[St(s, p)] = StateRow(f, s, p)
              /\ c[Support(s, p)] = SupportRow(f, s, p)
              /\ c[Co(s, p)] = ContextRow(f, s, p)
<1>1. /\ c[Profile(s)] = ProfileRow(rel, f, Heads(f), s)
      /\ c[St(s, p)] = CleanRow(f, St(s, p))
      /\ c[Support(s, p)] = CleanRow(f, Support(s, p))
      /\ c[Co(s, p)] = CleanRow(f, Co(s, p))
  BY NodeForms, NodeParts DEF Clean
<1>2. CASE About(f, <<s, p>>) = {}
  BY <1>1, <1>2, NodeParts DEF CleanRow
<1>3. CASE About(f, <<s, p>>) # {}
  <2>1. /\ c[St(s, p)] = KeyRow(f, "state", <<s, p>>)
        /\ c[Support(s, p)] = KeyRow(f, "support", <<s, p>>)
        /\ c[Co(s, p)] = KeyRow(f, "context", <<s, p>>)
    BY <1>1, <1>3, NodeParts DEF CleanRow
  <2> QED
    BY <1>1, <1>3, <2>1 DEF KeyRow, StateRow, SupportRow, ContextRow, St
<1> QED
  BY <1>2, <1>3

\* A row that is there is fresh, and has the value and the edges it was given.
LEMMA RowsExist ==
  /\ NoNode.status = "none" /\ NoNode.from = {}
  /\ \A v, F : FreshRow(v, F).status = "fresh" /\ FreshRow(v, F).from = F /\ FreshRow(v, F).value = v
BY DEF NoNode, FreshRow

\* A key whose assertions, and what its last one says, stay as they were.
LEMMA ChainAgrees ==
  ASSUME NEW rel, NEW f, NEW g, NEW s \in Subject, NEW p \in Predicate,
         About(g, <<s, p>>) = About(f, <<s, p>>)
  PROVE  /\ About(f, <<s, p>>) = {} =>
              \A n \in {St(s, p), Support(s, p), Co(s, p)} : Clean(rel, f)[n] = Clean(rel, g)[n]
         /\ g.assertion[Latest(f, <<s, p>>)] = f.assertion[Latest(f, <<s, p>>)] =>
              Clean(rel, f)[St(s, p)] = Clean(rel, g)[St(s, p)]
         /\ /\ g.assertion[Latest(f, <<s, p>>)] = f.assertion[Latest(f, <<s, p>>)]
            /\ g.evidence[Latest(f, <<s, p>>)] = f.evidence[Latest(f, <<s, p>>)]
            => \A n \in {Support(s, p), Co(s, p)} : Clean(rel, f)[n] = Clean(rel, g)[n]
<1>1. PICK i : i = Latest(f, <<s, p>>) /\ i = Latest(g, <<s, p>>)
  BY LatestDepends
<1>2. CASE About(f, <<s, p>>) = {}
  BY <1>2, CleanIs
<1>3. CASE About(f, <<s, p>>) # {}
  <2>1. g.assertion[i] = f.assertion[i] => State(f, i) = State(g, i)
    BY DEF State
  <2>2. ASSUME g.assertion[i] = f.assertion[i], g.evidence[i] = f.evidence[i]
        PROVE  Supported(f, i) = Supported(g, i)
    <3>1. Payloads(f, {i}) = Payloads(g, {i})
      BY <2>2 DEF Payloads
    <3> QED
      BY <2>1, <2>2, <3>1 DEF Supported
  <2>3. g.assertion[i] = f.assertion[i] => StateRow(f, s, p) = StateRow(g, s, p)
    BY <1>1, <2>1 DEF StateRow
  <2>4. g.assertion[i] = f.assertion[i] /\ g.evidence[i] = f.evidence[i] =>
          SupportRow(f, s, p) = SupportRow(g, s, p) /\ ContextRow(f, s, p) = ContextRow(g, s, p)
    BY <1>1, <2>2 DEF SupportRow, ContextRow
  <2> QED
    BY <1>1, <1>3, <2>3, <2>4, CleanIs
<1> QED
  BY <1>2, <1>3

\* The row of a profile, by release.
LEMMA ProfileCases ==
  ASSUME NEW rel \in 13 .. 16, NEW f, NEW h, NEW s
  PROVE  /\ Having(h, s) = {} => ProfileRow(rel, f, h, s) = NoNode
         /\ Having(h, s) # {} =>
              /\ rel < 15 => ProfileRow(rel, f, h, s) = WholeProfile(f, h, s)
              /\ rel = 15 => ProfileRow(rel, f, h, s) = Manifest(h, s)
              /\ rel = 16 => ProfileRow(rel, f, h, s) = Descriptor
              /\ ProfileRow(rel, f, h, s).status = "fresh"
<1>1. rel \in {13, 14} \/ rel = 15 \/ rel = 16
  OBVIOUS
<1>2. /\ WholeProfile(f, h, s).status = "fresh" /\ Manifest(h, s).status = "fresh"
      /\ Descriptor.status = "fresh"
  BY DEF WholeProfile, Manifest, Descriptor, FreshRow
<1> QED
  BY <1>1, <1>2 DEF ProfileRow

\* The predicates of a subject, and what its last assertions say of themselves
\* and rest on.
SamePredicates(f, g, s) ==
  \A p \in Predicate : About(g, <<s, p>>) = {} <=> About(f, <<s, p>>) = {}

SameQuotes(f, g, s) ==
  \A p \in Predicate : About(f, <<s, p>>) # {} =>
    LET i == Latest(f, <<s, p>>)
    IN  /\ Latest(g, <<s, p>>) = i
        /\ g.assertion[i].predicate = f.assertion[i].predicate
        /\ g.evidence[i] = f.evidence[i]

\* A subject whose predicates, and whatever its profile quotes, stay.
LEMMA ProfileAgrees ==
  ASSUME NEW rel \in 13 .. 16, NEW f, NEW g, NEW s \in Subject,
         SamePredicates(f, g, s), rel < 15 => SameQuotes(f, g, s)
  PROVE  Clean(rel, f)[Profile(s)] = Clean(rel, g)[Profile(s)]
<1>1. Having(Heads(f), s) = Having(Heads(g), s)
  <2>1. /\ Having(Heads(f), s) = {p \in Predicate : About(f, <<s, p>>) # {}}
        /\ Having(Heads(g), s) = {p \in Predicate : About(g, <<s, p>>) # {}}
    BY ONLY s \in Subject, HeadsAre
  <2>2. \A p \in Predicate : About(g, <<s, p>>) = {} <=> About(f, <<s, p>>) = {}
    BY DEF SamePredicates
  <2> QED
    BY <2>1, <2>2
<1>2. CASE rel < 15
  <2>0. \A p \in Predicate : About(f, <<s, p>>) # {} =>
          LET i == Latest(f, <<s, p>>)
          IN  /\ Latest(g, <<s, p>>) = i
              /\ g.assertion[i].predicate = f.assertion[i].predicate
              /\ g.evidence[i] = f.evidence[i]
    BY <1>2 DEF SameQuotes
  <2>1. \A p \in Having(Heads(f), s) : About(f, <<s, p>>) # {}
    BY HeadsAre
  <2>2. \A p \in Having(Heads(f), s) : p \in Predicate /\ Latest(g, <<s, p>>) = Latest(f, <<s, p>>)
    BY <2>0, <2>1 DEF Having
  <2>3. PICK cur : cur = Current(Heads(f), s)
    OBVIOUS
  <2>4. cur = {Latest(f, <<s, p>>) : p \in Having(Heads(f), s)} /\ cur = Current(Heads(g), s)
    <3>1. /\ Current(Heads(f), s) = {Latest(f, <<s, p>>) : p \in Having(Heads(f), s)}
          /\ Current(Heads(g), s) = {Latest(g, <<s, p>>) : p \in Having(Heads(g), s)}
      BY ONLY s \in Subject, HeadsAre
    <3>2. {Latest(f, <<s, p>>) : p \in Having(Heads(f), s)}
            = {Latest(g, <<s, p>>) : p \in Having(Heads(f), s)}
      BY ONLY <2>2
    <3> QED
      BY ONLY <1>1, <2>3, <3>1, <3>2
  <2>5. \A i \in cur : g.assertion[i].predicate = f.assertion[i].predicate /\ g.evidence[i] = f.evidence[i]
    BY <2>0, <2>1, <2>2, <2>4
  <2>6. Payloads(f, cur) = Payloads(g, cur)
    BY <2>5 DEF Payloads
  <2>7. {f.assertion[i].predicate : i \in cur} = {g.assertion[i].predicate : i \in cur}
    BY <2>5
  <2>8. WholeProfile(f, Heads(f), s) = WholeProfile(g, Heads(g), s)
    BY <2>3, <2>4, <2>6, <2>7 DEF WholeProfile
  <2>9. ProfileRow(rel, f, Heads(f), s) = ProfileRow(rel, g, Heads(g), s)
    BY <1>1, <1>2, <2>8, ProfileCases
  <2> QED
    BY <2>9, NodeForms, NodeParts DEF Clean
<1>3. CASE ~(rel < 15)
  <2>1. Manifest(Heads(f), s) = Manifest(Heads(g), s)
    BY <1>1 DEF Manifest
  <2>2. ProfileRow(rel, f, Heads(f), s) = ProfileRow(rel, g, Heads(g), s)
    BY <1>1, <1>3, <2>1, ProfileCases
  <2> QED
    BY <2>2, NodeForms, NodeParts DEF Clean
<1> QED
  BY <1>2, <1>3

-----------------------------------------------------------------------------
(* What an intent invalidates is enough *)

\* What two steps along the edges reach.
LEMMA ReachedIs ==
  ASSUME NEW d, NEW S
  PROVE  /\ \A n \in Node : n \in S /\ Exists(d, n) => n \in Reached(d, S)
         /\ \A n \in Node, m \in S : m \in d[n].from /\ Exists(d, n) => n \in Reached(d, S)
         /\ \A q \in Node, n \in Node, m \in S :
              m \in d[n].from /\ n \in d[q].from /\ Exists(d, q) => q \in Reached(d, S)
<1>1. PICK A, B, C : A = Along(d, S) /\ B = Along(d, A) /\ C = Along(d, B)
  OBVIOUS
<1>2. Reached(d, S) = {n \in C \cap Node : Exists(d, n)}
  BY <1>1 DEF Reached
<1>3. S \subseteq A /\ A \subseteq B /\ B \subseteq C
  BY <1>1 DEF Along
<1>4. \A n \in Node, m \in S : m \in d[n].from => n \in A
  BY <1>1 DEF Along
<1>5. \A q \in Node, n \in A : n \in d[q].from => q \in B
  BY <1>1 DEF Along
<1> QED
  BY <1>2, <1>3, <1>4, <1>5

\* A key an intent writes under has an assertion already, or gains its first.
LEMMA OwnKeys ==
  ASSUME NEW f, NEW i, Fits(f, i), i.op # "evidence", NEW k \in KeysOf(i)
  PROVE  About(f, k) # {} \/ (i.op = "assertion" /\ k = KeyOf(i.new) /\ ~SameKey(i))
<1>1. i.item \in Item /\ f.assertion[i.item] = i.old
  BY DEF Fits, IsWrite
<1>2. i.old # NoRow => i.item \in About(f, KeyOf(i.old))
  BY <1>1 DEF About
<1>3. \/ i.new # NoRow /\ k = KeyOf(i.new) /\ i.op = "assertion"
      \/ i.old # NoRow /\ k = KeyOf(i.old)
  BY KeysAre
<1> QED
  BY <1>2, <1>3 DEF SameKey

\* Outside of what new evidence invalidates, the rebuilds before and after agree.
LEMMA EvidenceAgrees ==
  ASSUME NEW rel \in 13 .. 16, NEW f, NEW i, Fits(f, i), i.op = "evidence",
         NEW g, g = Effect(f, i), NEW c, c = Clean(rel, f),
         NEW A, A = Affected(rel, c, g, i), NEW n \in Node, n \notin A
  PROVE  c[n] = Clean(rel, g)[n]
<1>1. PICK x \in Item : x = i.item
  BY DEF Fits, IsWrite
<1>2. PICK S : S = {<<"evidence", x>>}
  OBVIOUS
<1>3. n \in Reached(c, S) => rel >= 15 /\ n[1] = "profile"
  BY <1>1, <1>2 DEF Affected, Seeds
<1>4. /\ g.assertion = f.assertion
      /\ \A j \in Item : j # x => g.evidence[j] = f.evidence[j]
      /\ \A k : About(g, k) = About(f, k)
  BY <1>1, EffectIs DEF About
<1>5. \A k : Latest(g, k) = Latest(f, k)
  BY <1>4, LatestDepends
<1>6. CASE \E s \in Subject : n = Profile(s)
  <2>1. PICK s \in Subject : n = Profile(s)
    BY <1>6
  <2>2. ASSUME rel < 15, NEW p \in Predicate, About(f, <<s, p>>) # {}
        PROVE  Latest(f, <<s, p>>) # x
    <3>1. SUFFICES ASSUME Latest(f, <<s, p>>) = x PROVE FALSE
      OBVIOUS
    <3>2. p \in Having(Heads(f), s) /\ x \in Current(Heads(f), s)
      BY <2>2, <3>1, HeadsAre
    <3>3. c[n] = WholeProfile(f, Heads(f), s) /\ c[n].status = "fresh"
      BY <2>1, <2>2, <3>2, CleanIs, ProfileCases
    <3>4. c[n].from = UNION {Canonical(j) : j \in Current(Heads(f), s)}
      BY <3>3 DEF WholeProfile, FreshRow
    <3>5. <<"evidence", x>> \in c[n].from
      BY <3>2, <3>4 DEF Canonical
    <3>6. n \in Reached(c, S)
      BY <1>2, <3>3, <3>5, ReachedIs DEF Exists
    <3> QED
      BY <1>3, <2>2, <3>6
  <2>3. ASSUME rel < 15, NEW p \in Predicate, About(f, <<s, p>>) # {}
        PROVE  LET j == Latest(f, <<s, p>>)
               IN  /\ Latest(g, <<s, p>>) = j
                   /\ g.assertion[j].predicate = f.assertion[j].predicate
                   /\ g.evidence[j] = f.evidence[j]
    <3>1. Latest(f, <<s, p>>) \in Item /\ Latest(f, <<s, p>>) # x
      BY <2>2, <2>3, LatestIs
    <3> QED
      BY <1>4, <1>5, <3>1
  <2>4. \A p \in Predicate : About(g, <<s, p>>) = {} <=> About(f, <<s, p>>) = {}
    BY <1>4
  <2>5. c[Profile(s)] = Clean(rel, g)[Profile(s)]
    <3>1. SamePredicates(f, g, s) /\ (rel < 15 => SameQuotes(f, g, s))
      BY <2>3, <2>4 DEF SamePredicates, SameQuotes
    <3>2. Clean(rel, f)[Profile(s)] = Clean(rel, g)[Profile(s)]
      BY <3>1, ProfileAgrees
    <3> QED
      BY <3>2
  <2> QED
    BY <2>1, <2>5
<1>7. CASE \E s \in Subject, p \in Predicate : n \in {St(s, p), Support(s, p), Co(s, p)}
  <2>1. PICK s \in Subject, p \in Predicate : n \in {St(s, p), Support(s, p), Co(s, p)}
    BY <1>7
  <2>2. About(g, <<s, p>>) = About(f, <<s, p>>)
    BY <1>4
  <2>3. PICK j : j = Latest(f, <<s, p>>)
    OBVIOUS
  <2>4. g.assertion[j] = f.assertion[j]
    BY <1>4
  <2>5. CASE About(f, <<s, p>>) = {} \/ n = St(s, p)
    BY <2>1, <2>2, <2>3, <2>4, <2>5, ChainAgrees
  <2>6. CASE About(f, <<s, p>>) # {} /\ j = x /\ n # St(s, p)
    <3>1. /\ c[Support(s, p)] = SupportRow(f, s, p)
          /\ c[Co(s, p)] = ContextRow(f, s, p)
      BY <2>6, CleanIs
    <3>2. /\ c[Support(s, p)].from = Canonical(j) \cup {St(s, p)}
          /\ c[Co(s, p)].from = {Support(s, p)}
          /\ c[Support(s, p)].status = "fresh" /\ c[Co(s, p)].status = "fresh"
      BY <2>3, <3>1, RowsExist DEF SupportRow, ContextRow
    <3>3. <<"evidence", x>> \in c[Support(s, p)].from
      BY <2>6, <3>2 DEF Canonical
    <3>4. Support(s, p) \in Node /\ Co(s, p) \in Node
      BY NodeForms
    <3>5. n \in Reached(c, S)
      <4>1. <<"evidence", x>> \in S /\ Support(s, p) \in c[Co(s, p)].from
        BY <1>2, <3>2
      <4>2. Exists(c, Support(s, p)) /\ Exists(c, Co(s, p))
        BY <3>2 DEF Exists
      <4>3. Support(s, p) \in Reached(c, S)
        BY <3>3, <3>4, <4>1, <4>2, ReachedIs
      <4>4. Co(s, p) \in Reached(c, S)
        BY <3>3, <3>4, <4>1, <4>2, ReachedIs
      <4> QED
        BY <2>1, <2>6, <4>3, <4>4
    <3> QED
      BY <1>3, <2>1, <3>5, NodeParts
  <2>7. CASE About(f, <<s, p>>) # {} /\ j # x /\ n # St(s, p)
    <3>1. j \in Item
      BY <2>3, <2>7, LatestIs
    <3>2. g.evidence[j] = f.evidence[j]
      BY <1>4, <2>7, <3>1
    <3> QED
      BY <2>1, <2>2, <2>3, <2>4, <2>7, <3>2, ChainAgrees
  <2> QED
    BY <2>5, <2>6, <2>7
<1> QED
  BY <1>6, <1>7, NodeForms

\* Of an intent on an assertion: the chains of its keys.
LEMMA OwnChains ==
  ASSUME NEW rel \in 13 .. 16, NEW f, NEW i, Fits(f, i), i.op # "evidence",
         NEW g, g = Effect(f, i), NEW c, c = Clean(rel, f),
         NEW A, A = Affected(rel, c, g, i),
         NEW s \in Subject, NEW p \in Predicate, <<s, p>> \in KeysOf(i),
         NEW n \in {St(s, p), Support(s, p), Co(s, p)}
  PROVE  n \in A
<1>1. PICK S : S = Seeds(i)
  OBVIOUS
<1>2. \A q \in Reached(c, S) : q[1] # "profile" => q \in A
  BY <1>1 DEF Affected
<1>3. St(s, p) \in S
  <2>1. PICK k \in KeysOf(i) : k = <<s, p>>
    OBVIOUS
  <2>2. <<"state", k[1], k[2]>> \in Seeds(i)
    BY DEF Seeds
  <2> QED
    BY <1>1, <2>1, <2>2 DEF St
<1>4. St(s, p) \in Node /\ Support(s, p) \in Node /\ Co(s, p) \in Node /\ n \in Node
  BY NodeForms
<1>5. n[1] # "profile"
  BY NodeParts
<1>6. CASE About(f, <<s, p>>) # {}
  <2>1. /\ c[St(s, p)] = StateRow(f, s, p)
        /\ c[Support(s, p)] = SupportRow(f, s, p)
        /\ c[Co(s, p)] = ContextRow(f, s, p)
    BY <1>6, CleanIs
  <2>2. /\ St(s, p) \in c[Support(s, p)].from
        /\ Support(s, p) \in c[Co(s, p)].from
        /\ c[St(s, p)].status = "fresh" /\ c[Support(s, p)].status = "fresh"
        /\ c[Co(s, p)].status = "fresh"
    BY <2>1, RowsExist DEF StateRow, SupportRow, ContextRow
  <2>3. Exists(c, St(s, p)) /\ Exists(c, Support(s, p)) /\ Exists(c, Co(s, p))
    BY <2>2 DEF Exists
  <2>4. St(s, p) \in Reached(c, S)
    BY <1>3, <1>4, <2>3, ReachedIs
  <2>5. Support(s, p) \in Reached(c, S)
    BY <1>3, <1>4, <2>2, <2>3, ReachedIs
  <2>6. Co(s, p) \in Reached(c, S)
    BY <1>3, <1>4, <2>2, <2>3, ReachedIs
  <2> QED
    BY <1>2, <1>5, <2>4, <2>5, <2>6
<1>7. CASE About(f, <<s, p>>) = {}
  <2>1. i.op = "assertion" /\ <<s, p>> = KeyOf(i.new) /\ ~SameKey(i)
    BY <1>7, OwnKeys
  <2>2. i.new.subject = s /\ i.new.predicate = p
    BY <2>1 DEF KeyOf
  <2>3. n \in {"state", "support", "context"} \X {s} \X {p}
    BY DEF St, Support, Co
  <2>4. ~Exists(c, n)
    BY <1>7, CleanIs, RowsExist DEF Exists
  <2>5. n \in Growth(c, i)
    BY <2>1, <2>2, <2>3, <2>4 DEF Growth
  <2> QED
    BY <2>5 DEF Affected
<1> QED
  BY <1>6, <1>7

\* The profile of a subject it does not write under, or writes the same key of.
LEMMA OtherProfiles ==
  ASSUME NEW rel \in 13 .. 16, NEW f, NEW i, Fits(f, i), i.op # "evidence",
         NEW g, g = Effect(f, i), NEW s \in Subject,
         \/ i.op = "assertion" /\ SameKey(i)
         \/ \A p \in Predicate : <<s, p>> \notin KeysOf(i)
  PROVE  Clean(rel, f)[Profile(s)] = Clean(rel, g)[Profile(s)]
<1>1. /\ g.evidence = f.evidence
      /\ \A p \in Predicate :
           /\ About(g, <<s, p>>) = About(f, <<s, p>>)
           /\ \A j \in About(f, <<s, p>>) : g.assertion[j].predicate = f.assertion[j].predicate
  <2>0. g.evidence = f.evidence
    BY EffectIs
  <2>1. CASE i.op = "assertion" /\ SameKey(i)
    <3>1. /\ i.old # NoRow /\ i.new # NoRow /\ KeyOf(i.old) = KeyOf(i.new)
          /\ i.new.predicate = i.old.predicate
      <4>1. i.new \in Row /\ i.old # NoRow /\ KeyOf(i.old) = KeyOf(i.new)
        BY <2>1 DEF SameKey, Fits, IsWrite
      <4> QED
        BY <4>1, RealKeys DEF KeyOf
    <3>2. /\ g.assertion[i.item] = i.new /\ f.assertion[i.item] = i.old
          /\ \A j \in Item : j # i.item => g.assertion[j] = f.assertion[j]
      BY EffectIs DEF Fits
    <3>3. \A k : About(g, k) = About(f, k)
      BY <3>1, <3>2 DEF About
    <3>4. \A k : \A j \in About(f, k) : g.assertion[j].predicate = f.assertion[j].predicate
      BY <3>1, <3>2 DEF About
    <3> QED
      BY <2>0, <3>3, <3>4
  <2>2. CASE \A p \in Predicate : <<s, p>> \notin KeysOf(i)
    <3>1. ASSUME NEW p \in Predicate
          PROVE  /\ About(g, <<s, p>>) = About(f, <<s, p>>)
                 /\ \A j \in About(f, <<s, p>>) : g.assertion[j] = f.assertion[j]
      <4>1. <<s, p>> \notin Touched(i)
        BY <2>2 DEF Touched
      <4> QED
        BY <4>1, OthersStay
    <3> QED
      BY <2>0, <3>1
  <2> QED
    BY <2>1, <2>2
<1>2. SameQuotes(f, g, s)
  <2> SUFFICES ASSUME NEW p \in Predicate, About(f, <<s, p>>) # {}
               PROVE  LET j == Latest(f, <<s, p>>)
                      IN  /\ Latest(g, <<s, p>>) = j
                          /\ g.assertion[j].predicate = f.assertion[j].predicate
                          /\ g.evidence[j] = f.evidence[j]
    BY DEF SameQuotes
  <2>1. Latest(f, <<s, p>>) \in About(f, <<s, p>>)
    BY LatestIs
  <2>2. Latest(g, <<s, p>>) = Latest(f, <<s, p>>)
    BY <1>1, LatestDepends
  <2> QED
    BY <1>1, <2>1, <2>2
<1>3. SamePredicates(f, g, s)
  BY <1>1 DEF SamePredicates
<1> QED
  BY <1>2, <1>3, ProfileAgrees

\* The profile of a subject it does write under, when it is not made stale.
LEMMA OwnProfiles ==
  ASSUME NEW rel \in 13 .. 16, NEW f, NEW i, Fits(f, i), i.op # "evidence",
         NEW g, g = Effect(f, i), NEW c, c = Clean(rel, f),
         NEW A, A = Affected(rel, c, g, i),
         NEW s \in Subject, NEW q \in Predicate, <<s, q>> \in KeysOf(i),
         ~(i.op = "assertion" /\ SameKey(i)), Profile(s) \notin A
  PROVE  c[Profile(s)] = Clean(rel, g)[Profile(s)]
<1>1. PICK S : S = Seeds(i)
  OBVIOUS
<1>2. Profile(s) \in S
  <2>1. PICK k \in KeysOf(i) : k = <<s, q>>
    OBVIOUS
  <2>2. Profile(k[1]) \in Seeds(i)
    BY DEF Seeds
  <2> QED
    BY <1>1, <2>1, <2>2
<1>3. Profile(s) \in Node
  BY NodeForms
<1>4. c[Profile(s)] = ProfileRow(rel, f, Heads(f), s)
  BY CleanIs
<1>5. About(f, <<s, q>>) # {}
  <2>1. SUFFICES ASSUME About(f, <<s, q>>) = {} PROVE FALSE
    OBVIOUS
  <2>2. i.op = "assertion" /\ <<s, q>> = KeyOf(i.new) /\ ~SameKey(i)
    BY <2>1, OwnKeys
  <2>3. i.new.subject = s
    BY <2>2 DEF KeyOf
  <2>4. CASE Exists(c, Profile(s))
    <3>2. Profile(s) \in Reached(c, S)
      BY <1>2, <1>3, <2>4, ReachedIs
    <3>3. rel >= 15 => s \in ManifestChanged(g, i)
      <4>1. i.new # NoRow
        <5>1. i.new \in Row
          BY <2>2 DEF Fits, IsWrite
        <5> QED
          BY <5>1, RealKeys
      <4>2. About(g, <<s, q>>) = {i.item}
        <5>1. /\ g.assertion[i.item] = i.new /\ i.item \in Item
              /\ \A j \in Item : j # i.item => g.assertion[j] = f.assertion[j]
          BY EffectIs DEF Fits, IsWrite
        <5> QED
          BY <2>1, <2>2, <4>1, <5>1 DEF About
      <4>3. <<s, q>> \in {k \in KeysOf(i) :
               IF i.new # NoRow /\ k = KeyOf(i.new) THEN About(g, k) = {i.item}
                                                    ELSE About(g, k) = {}}
        BY <2>2, <4>1, <4>2
      <4>4. <<s, q>>[1] = s
        OBVIOUS
      <4> QED
        BY <2>2, <4>3, <4>4 DEF ManifestChanged
    <3> QED
      BY <1>1, <3>2, <3>3, NodeParts DEF Affected
  <2>5. CASE ~Exists(c, Profile(s))
    <3>1. Profile(s) \in Growth(c, i)
      BY <2>2, <2>3, <2>5 DEF Growth
    <3> QED
      BY <3>1 DEF Affected
  <2> QED
    BY <2>4, <2>5
<1>6. Exists(c, Profile(s))
  <2>1. q \in Having(Heads(f), s)
    BY <1>5, HeadsAre
  <2>2. ProfileRow(rel, f, Heads(f), s).status = "fresh"
    BY <2>1, ProfileCases
  <2> QED
    BY <1>4, <2>2 DEF Exists
<1>7. Profile(s) \in Reached(c, S)
  BY <1>2, <1>3, <1>6, ReachedIs
<1>8. rel >= 15 /\ s \notin ManifestChanged(g, i)
  BY <1>1, <1>7, NodeParts DEF Affected
<1>9. ASSUME NEW p \in Predicate
      PROVE  About(g, <<s, p>>) = {} <=> About(f, <<s, p>>) = {}
  <2>0. <<s, p>>[1] = s
    OBVIOUS
  <2>1. PICK k : k = <<s, p>> /\ k[1] = s
    BY <2>0
  <2>2. CASE k \notin KeysOf(i)
    BY <2>1, <2>2, OthersStay DEF Touched
  <2>3. CASE k \in KeysOf(i)
    <3>1. ~(IF i.new # NoRow /\ k = KeyOf(i.new) THEN About(g, k) = {i.item}
                                                 ELSE About(g, k) = {})
      BY <1>8, <2>1, <2>3 DEF ManifestChanged
    <3>2. /\ g.assertion[i.item] = i.new /\ i.item \in Item /\ f.assertion[i.item] = i.old
          /\ \A j \in Item : j # i.item => g.assertion[j] = f.assertion[j]
      BY EffectIs DEF Fits, IsWrite
    <3>3. CASE i.new # NoRow /\ k = KeyOf(i.new)
      <4>1. i.item \in About(g, k)
        BY <3>2, <3>3 DEF About
      <4>2. PICK j \in About(g, k) : j # i.item
        BY <3>1, <3>3, <4>1
      <4>3. j \in About(f, k)
        BY <3>2, <4>2 DEF About
      <4> QED
        BY <2>1, <4>1, <4>3
    <3>4. CASE ~(i.new # NoRow /\ k = KeyOf(i.new))
      <4>1. i.old # NoRow /\ k = KeyOf(i.old)
        BY <2>3, <3>4, KeysAre
      <4>2. i.item \in About(f, k)
        BY <3>2, <4>1 DEF About
      <4> QED
        BY <2>1, <3>1, <3>4, <4>2
    <3> QED
      BY <3>3, <3>4
  <2> QED
    BY <2>2, <2>3
<1>10. SamePredicates(f, g, s)
  BY <1>9 DEF SamePredicates
<1> QED
  BY <1>8, <1>10, ProfileAgrees

\* Outside of what an intent invalidates, the full rebuilds before and after
\* it agree.
LEMMA RegionAgrees ==
  ASSUME NEW rel \in 13 .. 16, NEW f, NEW i, Fits(f, i), NEW g, g = Effect(f, i),
         NEW c, c = Clean(rel, f), NEW A, A = Affected(rel, c, g, i),
         NEW n \in Node, n \notin A
  PROVE  c[n] = Clean(rel, g)[n]
<1>1. CASE i.op = "evidence"
  BY <1>1, EvidenceAgrees
<1>2. CASE i.op # "evidence"
  <2>1. CASE \E s \in Subject : n = Profile(s)
    <3>1. PICK s \in Subject : n = Profile(s)
      BY <2>1
    <3>2. CASE \/ i.op = "assertion" /\ SameKey(i)
               \/ \A p \in Predicate : <<s, p>> \notin KeysOf(i)
      BY <1>2, <3>1, <3>2, OtherProfiles
    <3>3. CASE ~ \/ i.op = "assertion" /\ SameKey(i)
                 \/ \A p \in Predicate : <<s, p>> \notin KeysOf(i)
      BY <1>2, <3>1, <3>3, OwnProfiles
    <3> QED
      BY <3>2, <3>3
  <2>2. CASE \E s \in Subject, p \in Predicate : n \in {St(s, p), Support(s, p), Co(s, p)}
    <3>1. PICK s \in Subject, p \in Predicate : n \in {St(s, p), Support(s, p), Co(s, p)}
      BY <2>2
    <3>2. <<s, p>> \notin KeysOf(i)
      BY <1>2, <3>1, OwnChains
    <3>3. /\ About(g, <<s, p>>) = About(f, <<s, p>>)
          /\ \A j \in About(f, <<s, p>>) : g.assertion[j] = f.assertion[j]
      BY <1>2, <3>2, OthersStay DEF Touched
    <3>4. g.evidence = f.evidence
      BY <1>2, EffectIs
    <3>5. About(f, <<s, p>>) # {} =>
            /\ g.assertion[Latest(f, <<s, p>>)] = f.assertion[Latest(f, <<s, p>>)]
            /\ g.evidence[Latest(f, <<s, p>>)] = f.evidence[Latest(f, <<s, p>>)]
      BY <3>3, <3>4, LatestIs
    <3> QED
      BY <3>1, <3>3, <3>5, ChainAgrees
  <2> QED
    BY <2>1, <2>2, NodeForms
<1> QED
  BY <1>1, <1>2

-----------------------------------------------------------------------------
(* No more than the keys an intent protects *)

\* _queue_read_keys, over these facts.
ReadsOver(f, i) ==
  IF i.op = "evidence" THEN {KeyOf(f.assertion[i.item])} \ {KeyOf(NoRow)} ELSE KeysOf(i)

\* Assertions and evidence are sources of edges, never nodes.
LEMMA NotNodes ==
  \A i, j : /\ <<"assertion", i>> \notin Node /\ <<"evidence", i>> \notin Node
            /\ <<"assertion", i>> # <<"evidence", j>>
<1>1. \A n \in Node : n[1] \notin {"assertion", "evidence"}
  BY NodeForms, NodeParts
<1> QED
  BY <1>1, NodeParts

\* What the edges reach from a set that they do not lead out of.
LEMMA ReachedWithin ==
  ASSUME NEW d, NEW S, NEW T, S \subseteq T,
         \A n \in Node : d[n].from \cap T # {} => n \in T
  PROVE  Reached(d, S) \subseteq T
<1>1. \A U : U \subseteq T => Along(d, U) \subseteq T
  BY DEF Along
<1>2. PICK A, B, C : A = Along(d, S) /\ B = Along(d, A) /\ C = Along(d, B)
  OBVIOUS
<1>3. A \subseteq T /\ B \subseteq T /\ C \subseteq T
  BY <1>1, <1>2
<1> QED
  BY <1>2, <1>3 DEF Reached

\* The support of a key an intent does not protect is not invalidated: the edges
\* that lead from what it writes stay within its keys and the profiles.
LEMMA RegionWithin ==
  ASSUME NEW rel \in 13 .. 16, NEW f, NEW i, Fits(f, i), NEW g, g = Effect(f, i),
         NEW c, c = Clean(rel, f), NEW A, A = Affected(rel, c, g, i),
         NEW s \in Subject, NEW p \in Predicate, <<s, p>> \notin ReadsOver(f, i)
  PROVE  Support(s, p) \notin A
<1>1. PICK E : E = IF i.op = "evidence" THEN {<<"evidence", i.item>>} ELSE {}
  OBVIOUS
<1>2. PICK T : T = {n \in Node : n[1] = "profile" \/ <<n[2], n[3]>> \in ReadsOver(f, i)} \cup E
  OBVIOUS
<1>9. /\ \A m \in E : i.op = "evidence" /\ m = <<"evidence", i.item>>
      /\ \A m \in T : \/ m \in E
                      \/ m \in Node /\ (m[1] = "profile" \/ <<m[2], m[3]>> \in ReadsOver(f, i))
  BY <1>1, <1>2
<1>3. Seeds(i) \subseteq T
  <2>1. CASE i.op = "evidence"
    BY <1>1, <1>2, <2>1 DEF Seeds
  <2>2. CASE i.op # "evidence"
    <3>1. KeysOf(i) \in SUBSET Key /\ ReadsOver(f, i) = KeysOf(i)
      BY <2>2, KeysAre DEF ReadsOver
    <3>2. ASSUME NEW k \in KeysOf(i)
          PROVE  <<"state", k[1], k[2]>> \in T /\ Profile(k[1]) \in T
      <4>1. k = <<k[1], k[2]>> /\ k[1] \in Subject /\ k[2] \in Predicate
        BY <3>1, RealKeys
      <4>2. /\ <<"state", k[1], k[2]>> \in Node /\ Profile(k[1]) \in Node
            /\ <<"state", k[1], k[2]>>[2] = k[1] /\ <<"state", k[1], k[2]>>[3] = k[2]
            /\ Profile(k[1])[1] = "profile"
        BY <4>1, NodeForms, NodeParts DEF St
      <4> QED
        BY <1>2, <3>1, <4>1, <4>2
    <3> QED
      BY <2>2, <3>2 DEF Seeds
  <2> QED
    BY <2>1, <2>2
<1>4. ASSUME NEW n \in Node, NEW m \in c[n].from, m \in T
      PROVE  n \in T
  <2>1. CASE \E t \in Subject : n = Profile(t)
    BY <1>2, <2>1, NodeParts
  <2>2. CASE \E t \in Subject, q \in Predicate : n \in {St(t, q), Support(t, q), Co(t, q)}
    <3>1. PICK t \in Subject, q \in Predicate : n \in {St(t, q), Support(t, q), Co(t, q)}
      BY <2>2
    <3>2. SUFFICES <<t, q>> \in ReadsOver(f, i)
      BY <1>2, <3>1, NodeParts
    <3>3. PICK j : j = Latest(f, <<t, q>>)
      OBVIOUS
    <3>4. /\ About(f, <<t, q>>) # {}
          /\ \/ n = St(t, q) /\ m = <<"assertion", j>>
             \/ m \in {<<"assertion", j>>, <<"evidence", j>>, St(t, q), Support(t, q)}
      <4>1. About(f, <<t, q>>) # {}
        BY <3>1, CleanIs, RowsExist
      <4>2. /\ c[St(t, q)] = StateRow(f, t, q)
            /\ c[Support(t, q)] = SupportRow(f, t, q)
            /\ c[Co(t, q)] = ContextRow(f, t, q)
        BY <4>1, CleanIs
      <4>3. /\ c[St(t, q)].from = {<<"assertion", j>>}
            /\ c[Support(t, q)].from = Canonical(j) \cup {St(t, q)}
            /\ c[Co(t, q)].from = {Support(t, q)}
        BY <3>3, <4>2, RowsExist DEF StateRow, SupportRow, ContextRow
      <4> QED
        BY <3>1, <4>1, <4>3 DEF Canonical
    <3>5. m # <<"assertion", j>>
      BY <1>4, <1>9, NotNodes
    <3>6. CASE m = <<"evidence", j>>
      <4>1. m \notin Node
        BY <3>6, NotNodes
      <4>2. i.op = "evidence" /\ <<"evidence", j>> = <<"evidence", i.item>>
        BY <1>4, <1>9, <3>6, <4>1
      <4>3. j = i.item
        BY <4>2
      <4>4. KeyOf(f.assertion[i.item]) = <<t, q>>
        BY <3>3, <3>4, <4>3, LatestIs
      <4>5. <<t, q>> # KeyOf(NoRow)
        BY NodeForms, RealKeys
      <4> QED
        BY <4>2, <4>4, <4>5 DEF ReadsOver
    <3>7. CASE m \in {St(t, q), Support(t, q)}
      <4>1. m[1] # "profile" /\ <<m[2], m[3]>> = <<t, q>> /\ m[1] # "evidence"
        BY <3>7, NodeParts
      <4>2. m \notin E
        BY <1>9, <4>1, NodeParts
      <4> QED
        BY <1>4, <1>9, <4>1, <4>2
    <3> QED
      BY <3>4, <3>5, <3>6, <3>7
  <2> QED
    BY <2>1, <2>2, NodeForms
<1>5. Reached(c, Seeds(i)) \subseteq T
  <2>1. \A n \in Node : c[n].from \cap T # {} => n \in T
    BY <1>4
  <2> QED
    BY <1>3, <2>1, ReachedWithin
<1>6. /\ Support(s, p)[1] = "support"
      /\ Support(s, p)[2] = s /\ Support(s, p)[3] = p
  BY NodeParts
<1>7. Support(s, p) \notin T
  BY <1>1, <1>2, <1>6, NodeParts
<1>8. Support(s, p) \notin Growth(c, i)
  <2>1. SUFFICES ASSUME Support(s, p) \in Growth(c, i) PROVE FALSE
    OBVIOUS
  <2>2. i.op = "assertion" /\ i.new.subject = s /\ i.new.predicate = p
    BY <1>6, <2>1 DEF Growth, Profile
  <2>3. KeyOf(i.new) = <<s, p>> /\ i.op # "evidence" /\ i.new # NoRow
    <3>1. i.new \in Row
      BY <2>2 DEF Fits, IsWrite
    <3> QED
      BY <2>2, <3>1, RealKeys DEF KeyOf
  <2>4. <<s, p>> \in KeysOf(i)
    BY <2>3, KeysAre
  <2> QED
    BY <2>3, <2>4 DEF ReadsOver
<1> QED
  BY <1>5, <1>7, <1>8 DEF Affected

-----------------------------------------------------------------------------
(* Repairing what was invalidated *)

IsRecord(r) == r = [status |-> r.status, value |-> r.value, from |-> r.from]

\* A clean build has whole rows, and no edge from a node that it retires.
LEMMA CleanShape ==
  ASSUME NEW rel \in 13 .. 16, NEW g, NEW c, c = Clean(rel, g)
  PROVE  /\ c = [n \in Node |-> c[n]]
         /\ \A n \in Node : IsRecord(c[n])
         /\ \A n \in Node : \A m \in c[n].from \cap Node : c[m] # NoNode
<1>1. c = [n \in Node |-> c[n]]
  BY DEF Clean
<1>2. IsRecord(NoNode) /\ \A v, F : IsRecord(FreshRow(v, F)) /\ FreshRow(v, F) # NoNode
  BY DEF IsRecord, NoNode, FreshRow
<1>3. ASSUME NEW s \in Subject, NEW p \in Predicate, NEW n \in {St(s, p), Support(s, p), Co(s, p)}
      PROVE  IsRecord(c[n]) /\ \A m \in c[n].from \cap Node : c[m] # NoNode
  <2>1. CASE About(g, <<s, p>>) = {}
    BY <1>2, <2>1, CleanIs, RowsExist
  <2>2. CASE About(g, <<s, p>>) # {}
    <3>1. PICK j : j = Latest(g, <<s, p>>)
      OBVIOUS
    <3>2. /\ c[St(s, p)] = StateRow(g, s, p)
          /\ c[Support(s, p)] = SupportRow(g, s, p)
          /\ c[Co(s, p)] = ContextRow(g, s, p)
      BY <2>2, CleanIs
    <3>3. /\ IsRecord(c[St(s, p)]) /\ IsRecord(c[Support(s, p)]) /\ IsRecord(c[Co(s, p)])
          /\ c[St(s, p)] # NoNode /\ c[Support(s, p)] # NoNode
      BY <1>2, <3>2 DEF StateRow, SupportRow, ContextRow
    <3>4. /\ c[St(s, p)].from = {<<"assertion", j>>}
          /\ c[Support(s, p)].from = {<<"assertion", j>>, <<"evidence", j>>, St(s, p)}
          /\ c[Co(s, p)].from = {Support(s, p)}
      BY <3>1, <3>2, RowsExist DEF StateRow, SupportRow, ContextRow, Canonical
    <3>5. <<"assertion", j>> \notin Node /\ <<"evidence", j>> \notin Node
      BY NotNodes
    <3> QED
      BY <3>3, <3>4, <3>5
  <2> QED
    BY <2>1, <2>2
<1>4. ASSUME NEW s \in Subject
      PROVE  IsRecord(c[Profile(s)]) /\ c[Profile(s)].from \cap Node = {}
  <2>1. PICK h : h = Heads(g)
    OBVIOUS
  <2>2. c[Profile(s)] = ProfileRow(rel, g, h, s)
    BY <2>1, NodeForms, NodeParts DEF Clean
  <2>3. \A i : Canonical(i) \cap Node = {}
    BY NotNodes DEF Canonical
  <2>4. \A p : Presence(s, p) \notin Node
    <3>1. \A p : Presence(s, p)[1] = "presence"
      BY DEF Presence
    <3> QED
      BY <3>1, NodeForms, NodeParts
  <2>5. /\ IsRecord(WholeProfile(g, h, s)) /\ IsRecord(Manifest(h, s)) /\ IsRecord(Descriptor)
        /\ WholeProfile(g, h, s).from = UNION {Canonical(i) : i \in Current(h, s)}
        /\ Manifest(h, s).from = {Presence(s, p) : p \in Having(h, s)}
        /\ Descriptor.from = {}
    BY DEF IsRecord, WholeProfile, Manifest, Descriptor, FreshRow
  <2>6. /\ WholeProfile(g, h, s).from \cap Node = {}
        /\ Manifest(h, s).from \cap Node = {}
        /\ Descriptor.from \cap Node = {}
    <3>1. \A m \in WholeProfile(g, h, s).from : m \notin Node
      BY <2>3, <2>5
    <3>2. \A m \in Manifest(h, s).from : m \notin Node
      BY <2>4, <2>5
    <3> QED
      BY <2>5, <3>1, <3>2
  <2> QED
    BY <1>2, <2>2, <2>5, <2>6, ProfileCases, RowsExist
<1>5. \A n \in Node : IsRecord(c[n]) /\ \A m \in c[n].from \cap Node : c[m] # NoNode
  <2> SUFFICES ASSUME NEW n \in Node
               PROVE  IsRecord(c[n]) /\ \A m \in c[n].from \cap Node : c[m] # NoNode
    OBVIOUS
  <2>1. CASE \E s \in Subject : n = Profile(s)
    BY <1>4, <2>1
  <2>2. CASE \E s \in Subject, p \in Predicate : n \in {St(s, p), Support(s, p), Co(s, p)}
    BY <1>3, <2>2
  <2> QED
    BY <2>1, <2>2, NodeForms
<1> QED
  BY <1>1, <1>5

\* Where the nodes of A stand for what is being rebuilt, and the others are
\* what c says.
Damaged(d, c, A) ==
  /\ d = [n \in Node |-> d[n]]
  /\ A \in SUBSET Node
  /\ \A n \in Node : IF n \in A THEN IsRecord(d[n]) /\ d[n].status \in {"invalid", "rebuilding"}
                                ELSE d[n] = c[n]

\* The same in mid-repair: the kinds that are done are as c says.
Mended(d, c, A, done) ==
  /\ d = [n \in Node |-> d[n]]
  /\ A \in SUBSET Node
  /\ \A n \in Node : IF n \in A /\ n[1] \notin done THEN IsRecord(d[n]) /\ d[n].status # "none"
                                                   ELSE d[n] = c[n]

\* One level, when it makes the nodes of its kinds as c says.  Retired nodes
\* leave no edge behind, and c has none to them.
LEMMA LevelMends ==
  ASSUME NEW rel, NEW d, NEW g, NEW h, NEW kinds, NEW A, NEW c, NEW done,
         Mended(d, c, A, done), kinds \cap done = {},
         \A n \in A : n[1] \in kinds => Rebuilt(rel, d, g, h, n) = c[n],
         \A n \in Node : IsRecord(c[n]),
         \A n \in Node : \A m \in c[n].from \cap Node : c[m] # NoNode,
         NEW e, e = Level(rel, d, g, h, kinds, A)
  PROVE  Mended(e, c, A, done \cup kinds)
<1>1. PICK due : due = {n \in A : n[1] \in kinds /\ Exists(d, n)}
  OBVIOUS
<1>2. PICK retired : retired = {n \in due : Rebuilt(rel, d, g, h, n) = NoNode}
  OBVIOUS
<1>3. e = [n \in Node |-> IF n \in due THEN Rebuilt(rel, d, g, h, n)
                          ELSE [d[n] EXCEPT !.from = @ \ retired]]
  BY <1>1, <1>2 DEF Level
<1>4. A \in SUBSET Node
  BY DEF Mended
<1>5. \A n \in A : n[1] \in kinds => n \in due
  BY <1>1, <1>4 DEF Mended, Exists
<1>6. \A m \in retired : m \in Node /\ c[m] = NoNode
  BY <1>1, <1>2, <1>4
<1>7. ASSUME NEW n \in Node, n \in A, n[1] \in kinds
      PROVE  e[n] = c[n]
  BY <1>3, <1>5, <1>7
<1>8. ASSUME NEW n \in Node, n \notin due
      PROVE  IsRecord(d[n]) => /\ IsRecord(e[n]) /\ e[n].status = d[n].status
                               /\ e[n].value = d[n].value /\ e[n].from = d[n].from \ retired
  <2>1. PICK r : r = d[n]
    OBVIOUS
  <2>2. e[n] = [r EXCEPT !.from = @ \ retired]
    BY <1>3, <1>8, <2>1
  <2> QED
    BY <2>1, <2>2 DEF IsRecord
<1>9. ASSUME NEW n \in Node, n \in A, n[1] \notin done \cup kinds
      PROVE  IsRecord(e[n]) /\ e[n].status # "none"
  BY <1>1, <1>8, <1>9 DEF Mended
<1>10. ASSUME NEW n \in Node, ~(n \in A /\ n[1] \notin done)
       PROVE  e[n] = c[n]
  <2>1. d[n] = c[n] /\ IsRecord(c[n])
    BY <1>10 DEF Mended
  <2>2. n \notin due
    BY <1>1, <1>10
  <2>3. c[n].from \ retired = c[n].from
    BY <1>6
  <2>4. /\ IsRecord(e[n]) /\ e[n].status = c[n].status
        /\ e[n].value = c[n].value /\ e[n].from = c[n].from
    BY <1>8, <2>1, <2>2, <2>3
  <2> QED
    BY <2>1, <2>4 DEF IsRecord
<1>11. e = [n \in Node |-> e[n]]
  BY <1>3
<1> QED
  BY <1>4, <1>7, <1>9, <1>10, <1>11 DEF Mended

\* The three levels in their order.
LEMMA RepairMends ==
  ASSUME NEW rel \in 13 .. 16, NEW g, NEW d, NEW A, NEW c, c = Clean(rel, g),
         Mended(d, c, A, {})
  PROVE  Repaired(rel, d, g, Heads(g), A) = c
<1>1. PICK h : h = Heads(g)
  OBVIOUS
<1>2. PICK roots, supports, all :
        /\ roots = Level(rel, d, g, h, {"profile", "state"}, A)
        /\ supports = Level(rel, roots, g, h, {"support"}, A)
        /\ all = Level(rel, supports, g, h, {"context"}, A)
  OBVIOUS
<1>3. /\ A \in SUBSET Node
      /\ \A n \in Node : IsRecord(c[n])
      /\ \A n \in Node : \A m \in c[n].from \cap Node : c[m] # NoNode
  BY CleanShape DEF Mended
<1>4. \A n \in Node : \/ \E s \in Subject : n = Profile(s)
                      \/ \E s \in Subject, p \in Predicate : n \in {St(s, p), Support(s, p), Co(s, p)}
  BY NodeForms
<1>5. \A s \in Subject, p \in Predicate :
        /\ About(g, <<s, p>>) = {} =>
             c[St(s, p)].status = "none" /\ c[Support(s, p)] = NoNode /\ c[Co(s, p)] = NoNode
        /\ About(g, <<s, p>>) # {} =>
             /\ c[St(s, p)].status = "fresh"
             /\ c[Support(s, p)].status = "fresh"
             /\ c[Co(s, p)] = FreshRow(c[Support(s, p)].value, {Support(s, p)})
  <2> SUFFICES ASSUME NEW s \in Subject, NEW p \in Predicate
               PROVE  /\ About(g, <<s, p>>) = {} =>
                           /\ c[St(s, p)].status = "none"
                           /\ c[Support(s, p)] = NoNode /\ c[Co(s, p)] = NoNode
                      /\ About(g, <<s, p>>) # {} =>
                           /\ c[St(s, p)].status = "fresh"
                           /\ c[Support(s, p)].status = "fresh"
                           /\ c[Co(s, p)] = FreshRow(c[Support(s, p)].value, {Support(s, p)})
    OBVIOUS
  <2>1. CASE About(g, <<s, p>>) = {}
    BY <2>1, CleanIs, RowsExist
  <2>2. CASE About(g, <<s, p>>) # {}
    <3>1. /\ c[St(s, p)] = StateRow(g, s, p)
          /\ c[Support(s, p)] = SupportRow(g, s, p)
          /\ c[Co(s, p)] = ContextRow(g, s, p)
      BY <2>2, CleanIs
    <3> QED
      BY <2>2, <3>1, RowsExist DEF StateRow, SupportRow, ContextRow
  <2> QED
    BY <2>1, <2>2
<1>6. Mended(roots, c, A, {"profile", "state"})
  <2>1. ASSUME NEW n \in A, n[1] \in {"profile", "state"}
        PROVE  Rebuilt(rel, d, g, h, n) = c[n]
    <3>1. CASE n[1] = "profile"
      BY <1>1, <1>3, <3>1 DEF Rebuilt, Clean
    <3>2. CASE n[1] = "state"
      BY <1>1, <1>3, <3>2 DEF Rebuilt, Clean
    <3> QED
      BY <2>1, <3>1, <3>2
  <2>2. /\ Mended(d, c, A, {}) /\ {"profile", "state"} \cap {} = {}
        /\ \A n \in A : n[1] \in {"profile", "state"} => Rebuilt(rel, d, g, h, n) = c[n]
        /\ \A n \in Node : IsRecord(c[n])
        /\ \A n \in Node : \A m \in c[n].from \cap Node : c[m] # NoNode
    BY <1>3, <2>1
  <2>3. Mended(roots, c, A, {} \cup {"profile", "state"})
    BY ONLY <1>2, <2>2, LevelMends
  <2>4. {} \cup {"profile", "state"} = {"profile", "state"}
    OBVIOUS
  <2> QED
    BY <2>3, <2>4
<1>7. Mended(supports, c, A, {"profile", "state", "support"})
  <2>1. ASSUME NEW n \in A, n[1] = "support"
        PROVE  Rebuilt(rel, roots, g, h, n) = c[n]
    <3>1. PICK s \in Subject, p \in Predicate : n = Support(s, p)
      BY <1>3, <1>4, <2>1, NodeParts
    <3>2. roots[St(s, p)] = c[St(s, p)]
      <4>1. St(s, p) \in Node
        BY NodeForms
      <4>2. St(s, p)[1] = "state"
        BY NodeParts
      <4> QED
        BY <1>6, <4>1, <4>2 DEF Mended
    <3>3. c[n] = CleanRow(g, n)
      BY <1>3, <2>1 DEF Clean
    <3>4. Rebuilt(rel, roots, g, h, n)
            = IF Fresh(roots, St(s, p)) THEN CleanRow(g, n) ELSE NoNode
      BY <2>1, <3>1, NodeParts DEF Rebuilt, St
    <3> QED
      BY <1>5, <3>1, <3>2, <3>3, <3>4 DEF Fresh
  <2>2. /\ Mended(roots, c, A, {"profile", "state"}) /\ {"support"} \cap {"profile", "state"} = {}
        /\ \A n \in A : n[1] \in {"support"} => Rebuilt(rel, roots, g, h, n) = c[n]
        /\ \A n \in Node : IsRecord(c[n])
        /\ \A n \in Node : \A m \in c[n].from \cap Node : c[m] # NoNode
    BY <1>3, <1>6, <2>1
  <2>3. Mended(supports, c, A, {"profile", "state"} \cup {"support"})
    BY ONLY <1>2, <2>2, LevelMends
  <2>4. {"profile", "state"} \cup {"support"} = {"profile", "state", "support"}
    OBVIOUS
  <2> QED
    BY <2>3, <2>4
<1>8. Mended(all, c, A, {"profile", "state", "support", "context"})
  <2>1. ASSUME NEW n \in A, n[1] = "context"
        PROVE  Rebuilt(rel, supports, g, h, n) = c[n]
    <3>1. PICK s \in Subject, p \in Predicate : n = Co(s, p)
      BY <1>3, <1>4, <2>1, NodeParts
    <3>2. supports[Support(s, p)] = c[Support(s, p)]
      <4>1. Support(s, p) \in Node
        BY NodeForms
      <4>2. Support(s, p)[1] = "support"
        BY NodeParts
      <4> QED
        BY <1>7, <4>1, <4>2 DEF Mended
    <3>3. Rebuilt(rel, supports, g, h, n)
            = IF Fresh(supports, Support(s, p))
              THEN FreshRow(supports[Support(s, p)].value, {Support(s, p)}) ELSE NoNode
      <4>1. n[1] = "context" /\ n[2] = s /\ n[3] = p
        BY <2>1, <3>1, NodeParts
      <4> QED
        BY ONLY <4>1 DEF Rebuilt
    <3>4. Fresh(supports, Support(s, p)) <=> About(g, <<s, p>>) # {}
      BY <1>5, <3>1, <3>2, RowsExist DEF Fresh
    <3>5. CASE About(g, <<s, p>>) = {}
      BY <1>5, <3>1, <3>3, <3>4, <3>5
    <3>6. CASE About(g, <<s, p>>) # {}
      BY <1>5, <3>1, <3>2, <3>3, <3>4, <3>6
    <3> QED
      BY <3>5, <3>6
  <2>2. /\ Mended(supports, c, A, {"profile", "state", "support"})
        /\ {"context"} \cap {"profile", "state", "support"} = {}
        /\ \A n \in A : n[1] \in {"context"} => Rebuilt(rel, supports, g, h, n) = c[n]
        /\ \A n \in Node : IsRecord(c[n])
        /\ \A n \in Node : \A m \in c[n].from \cap Node : c[m] # NoNode
    BY <1>3, <1>7, <2>1
  <2>3. Mended(all, c, A, {"profile", "state", "support"} \cup {"context"})
    BY ONLY <1>2, <2>2, LevelMends
  <2>4. {"profile", "state", "support"} \cup {"context"} = {"profile", "state", "support", "context"}
    OBVIOUS
  <2> QED
    BY <2>3, <2>4
<1>9. \A n \in Node : n[1] \in {"profile", "state", "support", "context"}
  BY <1>4, NodeParts
<1>10. all = [n \in Node |-> all[n]] /\ \A n \in Node : all[n] = c[n]
  BY <1>8, <1>9 DEF Mended
<1>11. c = [n \in Node |-> c[n]]
  BY CleanShape
<1>12. all = c
  BY <1>10, <1>11
<1> QED
  BY <1>1, <1>2, <1>12 DEF Repaired

\* Repairing what an intent invalidates gives what a full rebuild of the new
\* facts gives, in each release.
\* A repair of what an intent has made stale, interrupted or not, leaves what a
\* full rebuild from the facts would: the invalidated nodes are rebuilt level by
\* level, and the rest was right already (_repair_tx, clean_rebuild_digest).
THEOREM ProfileRepairIsClean ==
  ASSUME NEW rel \in 13 .. 16, NEW f, NEW i, Fits(f, i), NEW g, g = Effect(f, i),
         NEW A, A = Affected(rel, Clean(rel, f), g, i), NEW d, Damaged(d, Clean(rel, f), A)
  PROVE  Repaired(rel, d, g, Heads(g), A) = Clean(rel, g)
<1>1. \A n \in Node : n \notin A => Clean(rel, f)[n] = Clean(rel, g)[n]
  BY RegionAgrees
<1>2. Mended(d, Clean(rel, g), A, {})
  BY <1>1 DEF Damaged, Mended
<1> QED
  BY <1>2, RepairMends

-----------------------------------------------------------------------------
(* The queue *)

Value == Row \cup {NoRow, None} \cup Payload
QueuedIntent == [op : {"evidence", "assertion", "delete"}, item : Item, new : Value, old : Value,
                 base : Nat, reads : SUBSET Key, status : {"queued", "active", "conflict", "done"}]
Written == {"evidence", "assertion"} \X Item
Phase   == {"prepared", "canonical_applied", "invalidated", "rebuilding", "repaired"}

\* An intent is admitted under the version its write has at that moment, so as
\* long as the version is that one the facts hold what it was admitted over.
IntentOK(q, f, v) ==
  /\ q \in QueuedIntent /\ IsWrite(q)
  /\ q.base <= v[WriteKey(q)]
  /\ q.base = v[WriteKey(q)] => Fits(f, q)

JournalOK ==
  \/ journal = NoIntent
  \/ /\ journal.seq \in DOMAIN queue /\ journal.phase \in Phase
     /\ journal = [seq |-> journal.seq, phase |-> journal.phase, affected |-> journal.affected]

IntentsInv ==
  /\ facts \in Facts
  /\ version \in [Written -> Nat]
  /\ queue \in Seq(QueuedIntent)
  /\ \A n \in DOMAIN queue : IntentOK(queue[n], facts, version)
  /\ JournalOK
  /\ journal.phase = "prepared" =>
       Active.base = version[WriteKey(Active)] /\ Active.reads = ReadsOver(facts, Active)

\* Entities and their added assertions are items.
LEMMA ItemForms ==
  /\ Entity \subseteq Item
  /\ \A i \in Entity : Extra(i) \in Item
BY EntityAssumption DEF Entity, Item, Extra

\* What a client admits.
Ready(q) == /\ q \in QueuedIntent /\ IsWrite(q) /\ Fits(facts, q)
            /\ q.base = version[WriteKey(q)]

\* What an intent reads, over facts that it fits, are keys.
LEMMA ReadsTyped ==
  ASSUME facts \in Facts, NEW i, IsWrite(i), i.op # "evidence" => Fits(facts, i)
  PROVE  ReadKeys(i) = ReadsOver(facts, i) /\ ReadKeys(i) \in SUBSET Key
<1>1. ReadKeys(i) = ReadsOver(facts, i)
  BY DEF ReadKeys, ReadsOver
<1>2. CASE i.op = "evidence"
  <2>1. facts.assertion[i.item] \in Row \cup {NoRow}
    BY DEF Facts, IsWrite
  <2> QED
    BY <1>1, <1>2, <2>1, RealKeys DEF ReadsOver
<1>3. CASE i.op # "evidence"
  BY <1>1, <1>3, KeysAre DEF ReadsOver
<1> QED
  BY <1>1, <1>2, <1>3

\* An intent over the rows the facts hold fits them under their version.
LEMMA IntentReady ==
  ASSUME facts \in Facts, version \in [Written -> Nat],
         NEW op, NEW item, NEW new, NEW old, NEW q, q = Intent(op, item, new, old),
         item \in Item, op \in {"evidence", "assertion", "delete"},
         new \in Value, old \in Value,
         op = "evidence" => new \in Payload,
         op = "assertion" => new \in Row,
         op = "delete" => new = NoRow,
         op # "evidence" => old = facts.assertion[item]
  PROVE  Ready(q)
<1>1. PICK i : i = [op |-> op, item |-> item, new |-> new, old |-> old]
  OBVIOUS
<1>2. i.op = op /\ i.item = item /\ i.new = new /\ i.old = old
  BY <1>1
<1>3. op # "evidence" => old \in Row \cup {NoRow}
  BY DEF Facts
<1>4. IsWrite(i) /\ Fits(facts, i)
  BY <1>2, <1>3 DEF Fits, IsWrite
<1>5. ReadKeys(i) \in SUBSET Key
  BY <1>4, ReadsTyped
<1>6. WriteKey(i) \in Written
  BY <1>2 DEF WriteKey, Written
<1>7. PICK b, r : b = version[WriteKey(i)] /\ r = ReadKeys(i)
  OBVIOUS
<1>8. b \in Nat /\ r \in SUBSET Key
  BY <1>5, <1>6, <1>7
<1>9. q = [op |-> op, item |-> item, new |-> new, old |-> old,
           base |-> b, reads |-> r, status |-> "queued"]
  BY <1>1, <1>7 DEF Intent
<1>10. q.op = op /\ q.item = item /\ q.new = new /\ q.old = old /\ q.base = b
  BY <1>9
<1>11. q \in QueuedIntent
  BY <1>8, <1>9 DEF QueuedIntent
<1>12. IsWrite(q) /\ Fits(facts, q)
  BY <1>3, <1>10 DEF Fits, IsWrite
<1>13. WriteKey(q) = WriteKey(i)
  BY <1>2, <1>10 DEF WriteKey
<1> QED
  BY <1>7, <1>10, <1>11, <1>12, <1>13 DEF Ready

\* Of what clients admit, as long as they add a predicate only where it is absent.
LEMMA ClientAdmits ==
  ASSUME AddOnce, facts \in Facts, version \in [Written -> Nat], Client
  PROVE  \E s \in Seq(QueuedIntent) : Admit(s) /\ \A m \in DOMAIN s : Ready(s[m])
<1>0. \A q : Ready(q) => /\ <<q>> \in Seq(QueuedIntent)
                         /\ \A m \in DOMAIN <<q>> : Ready(<<q>>[m])
  BY DEF Ready
<1>1. \A j \in Item : /\ facts.assertion[j] \in Row \cup {NoRow} /\ facts.assertion[j] \in Value
                      /\ facts.evidence[j] \in Payload \cup {None} /\ facts.evidence[j] \in Value
  BY DEF Facts, Value
<1>2. Row \subseteq Value /\ NoRow \in Value /\ Payload \subseteq Value /\ None \in Value
  BY DEF Value
<1>3. ASSUME NEW i \in Item, NEW row \in Row, Upsert(i, row)
      PROVE  \E s \in Seq(QueuedIntent) : Admit(s) /\ \A m \in DOMAIN s : Ready(s[m])
  <2>1. PICK q : q = Intent("assertion", i, row, facts.assertion[i])
    OBVIOUS
  <2>2. Ready(q)
    BY <1>1, <1>2, <2>1, IntentReady
  <2>3. Admit(<<q>>)
    BY <1>3, <2>1 DEF Upsert
  <2> QED
    BY <1>0, <2>2, <2>3
<1>4. CASE \E i \in Item : ReplacePayload(i)
  <2>1. PICK i \in Item : ReplacePayload(i)
    BY <1>4
  <2>2. PICK q : q = Intent("evidence", i, "Nova", facts.evidence[i])
    OBVIOUS
  <2>3. Ready(q)
    BY <1>1, <1>2, <2>2, IntentReady DEF Payload
  <2>4. Admit(<<q>>)
    BY <2>1, <2>2 DEF ReplacePayload
  <2> QED
    BY <1>0, <2>3, <2>4
<1>5. CASE \E i \in Item : DeleteAssertion(i)
  <2>1. PICK i \in Item : DeleteAssertion(i)
    BY <1>5
  <2>2. PICK q : q = Intent("delete", i, NoRow, facts.assertion[i])
    OBVIOUS
  <2>3. Ready(q)
    BY <1>1, <1>2, <2>2, IntentReady
  <2>4. Admit(<<q>>)
    BY <2>1, <2>2 DEF DeleteAssertion
  <2> QED
    BY <1>0, <2>3, <2>4
<1>6. ASSUME NEW i \in Item, Stored(i)
      PROVE  facts.assertion[i] \in Row
  BY <1>1, <1>6 DEF Stored
<1>7. CASE \E i \in Entity : ReplaceObject(i)
  <2>1. PICK i \in Entity : ReplaceObject(i)
    BY <1>7
  <2>2. i \in Item /\ Stored(i)
    BY <2>1, ItemForms DEF ReplaceObject, Upsert
  <2>3. facts.assertion[i] \in Row
    BY <1>6, <2>2
  <2>4. [facts.assertion[i] EXCEPT !.object = 77] \in Row
    BY <2>3 DEF Row, Object
  <2> QED
    BY <1>3, <2>1, <2>2, <2>4 DEF ReplaceObject
<1>8. CASE \E i \in Entity : \E t \in Subject : MoveAssertion(i, t)
  <2>1. PICK i \in Entity, t \in Subject : MoveAssertion(i, t)
    BY <1>8
  <2>2. i \in Item /\ Stored(i)
    BY <2>1, ItemForms DEF MoveAssertion, Upsert
  <2>3. facts.assertion[i] \in Row
    BY <1>6, <2>2
  <2>4. [facts.assertion[i] EXCEPT !.subject = t] \in Row
    BY <2>3 DEF Row
  <2> QED
    BY <1>3, <2>1, <2>2, <2>4 DEF MoveAssertion
<1>9. CASE \E i \in Entity : \E p \in Predicate : ChangePredicate(i, p)
  <2>1. PICK i \in Entity, p \in Predicate : ChangePredicate(i, p)
    BY <1>9
  <2>2. i \in Item /\ Stored(i)
    BY <2>1, ItemForms DEF ChangePredicate, Upsert
  <2>3. facts.assertion[i] \in Row
    BY <1>6, <2>2
  <2>4. [facts.assertion[i] EXCEPT !.predicate = p] \in Row
    BY <2>3 DEF Row
  <2> QED
    BY <1>3, <2>1, <2>2, <2>4 DEF ChangePredicate
<1>10. CASE \E i \in Entity : AddPredicate(i)
  <2>1. PICK i \in Entity : AddPredicate(i)
    BY <1>10
  <2>2. PICK x : x = Extra(i)
    OBVIOUS
  <2>3. i \in Item /\ x \in Item /\ Stored(i) /\ facts.assertion[x] = NoRow
    BY <2>1, <2>2, ItemForms DEF AddPredicate, Stored
  <2>4. PICK row : row = [subject |-> facts.assertion[i].subject, predicate |-> Added, object |-> 55]
    OBVIOUS
  <2>5. row \in Row
    <3>1. facts.assertion[i].subject \in Subject
      BY <1>6, <2>3 DEF Row
    <3> QED
      BY <2>4, <3>1, AddedAssumption DEF Row, Object
  <2>6. PICK q, r : /\ q = Intent("evidence", x, "Atlas", None)
                    /\ r = Intent("assertion", x, row, NoRow)
    OBVIOUS
  <2>7. Ready(q)
    BY <1>2, <2>3, <2>6, IntentReady DEF Payload
  <2>8. Ready(r)
    BY <1>2, <2>3, <2>5, <2>6, IntentReady
  <2>9. Admit(<<q, r>>)
    BY <2>1, <2>2, <2>4, <2>6 DEF AddPredicate
  <2>10. <<q, r>> \in Seq(QueuedIntent) /\ \A m \in DOMAIN <<q, r>> : Ready(<<q, r>>[m])
    BY <2>7, <2>8 DEF Ready
  <2> QED
    BY <2>9, <2>10
<1> QED
  BY <1>4, <1>5, <1>7, <1>8, <1>9, <1>10 DEF Client

\* They go to the end of the queue and change nothing before it.
LEMMA AdmitKeeps ==
  ASSUME IntentsInv, NEW s \in Seq(QueuedIntent), Admit(s), \A m \in DOMAIN s : Ready(s[m])
  PROVE  /\ IntentsInv'
         /\ journal # NoIntent => Active' = Active
         /\ UNCHANGED <<release, facts, heads, members, derived, version, journal>>
<1>1. /\ queue' = queue \o s
      /\ UNCHANGED <<release, facts, heads, members, derived, version, journal>>
  BY DEF Admit
<1>2. queue \in Seq(QueuedIntent)
  BY DEF IntentsInv
<1>3. /\ queue' \in Seq(QueuedIntent) /\ Len(queue') = Len(queue) + Len(s)
      /\ \A n \in 1 .. Len(queue) + Len(s) :
           queue'[n] = IF n <= Len(queue) THEN queue[n] ELSE s[n - Len(queue)]
  BY <1>1, <1>2, ConcatProperties
<1>4. /\ DOMAIN queue = 1 .. Len(queue) /\ DOMAIN s = 1 .. Len(s)
      /\ DOMAIN queue' = 1 .. Len(queue) + Len(s) /\ Len(queue) \in Nat /\ Len(s) \in Nat
  BY <1>2, <1>3
<1>5. /\ DOMAIN queue \subseteq DOMAIN queue'
      /\ \A n \in DOMAIN queue : queue'[n] = queue[n]
      /\ \A n \in DOMAIN queue' : n \in DOMAIN queue \/ \E m \in DOMAIN s : queue'[n] = s[m]
  <2>1. /\ DOMAIN queue \subseteq DOMAIN queue'
        /\ \A n \in DOMAIN queue : queue'[n] = queue[n]
    BY <1>3, <1>4
  <2>2. ASSUME NEW n \in DOMAIN queue', n \notin DOMAIN queue
        PROVE  n - Len(queue) \in DOMAIN s /\ queue'[n] = s[n - Len(queue)]
    BY <1>3, <1>4, <2>2
  <2> QED
    BY <2>1, <2>2
<1>6. \A q : Ready(q) => IntentOK(q, facts, version)
  <2> SUFFICES ASSUME NEW q, Ready(q) PROVE IntentOK(q, facts, version)
    OBVIOUS
  <2>1. q \in QueuedIntent /\ q.base = version[WriteKey(q)] /\ q.base \in Nat
    BY DEF Ready, QueuedIntent
  <2> QED
    BY <2>1 DEF Ready, IntentOK
<1>7. \A n \in DOMAIN queue' : IntentOK(queue'[n], facts', version')
  BY <1>1, <1>5, <1>6 DEF IntentsInv
<1>8. JournalOK /\ JournalOK'
  BY <1>1, <1>5 DEF IntentsInv, JournalOK
<1>9. ASSUME journal # NoIntent
      PROVE  Active' = Active
  <2>1. journal.seq \in DOMAIN queue
    BY <1>8, <1>9 DEF JournalOK
  <2> QED
    BY <1>1, <1>5, <2>1 DEF Active
<1>10. journal.phase = "prepared" => journal # NoIntent
  BY DEF NoIntent
<1> QED
  BY <1>1, <1>3, <1>7, <1>8, <1>9, <1>10 DEF IntentsInv

\* A step that changes of the queue only what the journal's row says, or nothing.
LEMMA JournalMoves ==
  ASSUME IntentsInv, UNCHANGED <<facts, version, queue>>, journal # NoIntent,
         NEW phase \in Phase, phase # "prepared", NEW affected,
         journal' = [seq |-> journal.seq, phase |-> phase, affected |-> affected]
  PROVE  IntentsInv' /\ Active' = Active
<1>1. journal.seq \in DOMAIN queue
  BY DEF IntentsInv, JournalOK
<1>2. /\ journal'.seq = journal.seq /\ journal'.phase = phase /\ journal'.affected = affected
  OBVIOUS
<1>3. JournalOK'
  BY <1>1, <1>2 DEF JournalOK
<1>4. Active' = Active
  BY <1>2 DEF Active
<1> QED
  BY <1>2, <1>3, <1>4 DEF IntentsInv

\* A change of the status, and of the keys protected, of one intent.
Restated(q, n, status, reads) ==
  [q EXCEPT ![n] = [q[n] EXCEPT !.status = status, !.reads = reads]]

\* Restating one intent's status and reads keeps the queue's intents as they were.
LEMMA RowMoves ==
  ASSUME NEW q, NEW n \in DOMAIN q, q \in Seq(QueuedIntent),
         NEW status \in {"active", "conflict", "done"}, NEW reads \in SUBSET Key,
         NEW r, r = Restated(q, n, status, reads)
  PROVE  /\ r \in Seq(QueuedIntent) /\ DOMAIN r = DOMAIN q
         /\ \A m \in DOMAIN q : m # n => r[m] = q[m]
         /\ r[n].op = q[n].op /\ r[n].item = q[n].item /\ r[n].new = q[n].new
         /\ r[n].old = q[n].old /\ r[n].base = q[n].base
         /\ r[n].reads = reads /\ r[n].status = status
         /\ \A f, v : IntentOK(q[n], f, v) => IntentOK(r[n], f, v)
<1> DEFINE b == [q[n] EXCEPT !.status = status, !.reads = reads]
<1>1. q[n] \in QueuedIntent
  OBVIOUS
<1>2. b \in QueuedIntent /\ b.status = status /\ b.reads = reads
  BY <1>1 DEF QueuedIntent
<1>3. /\ b.op = q[n].op /\ b.item = q[n].item /\ b.new = q[n].new /\ b.old = q[n].old
      /\ b.base = q[n].base
  BY <1>1 DEF QueuedIntent
<1>4. r = [q EXCEPT ![n] = b]
  BY DEF Restated
<1> HIDE DEF b
<1>5. /\ r \in Seq(QueuedIntent) /\ DOMAIN r = DOMAIN q
      /\ \A m \in DOMAIN q : r[m] = IF m = n THEN b ELSE q[m]
  BY <1>2, <1>4, ExceptSeq
<1>6. r[n] = b /\ \A m \in DOMAIN q : m # n => r[m] = q[m]
  BY <1>5
<1>7. /\ b.op = q[n].op /\ b.item = q[n].item /\ b.new = q[n].new /\ b.old = q[n].old
      /\ b.base = q[n].base /\ b.reads = reads /\ b.status = status
  BY <1>2, <1>3
<1>8. ASSUME NEW f, NEW v, IntentOK(q[n], f, v) PROVE IntentOK(b, f, v)
  <2>1. IntentOK(q[n], f, v)
    BY <1>8
  <2>2. WriteKey(b) = WriteKey(q[n]) /\ (IsWrite(q[n]) => IsWrite(b))
    BY <1>7 DEF WriteKey, IsWrite
  <2>3. Fits(f, q[n]) => Fits(f, b)
    BY <1>7, <2>2 DEF Fits
  <2> QED
    BY <1>2, <1>7, <2>1, <2>2, <2>3 DEF IntentOK
<1> QED
  BY <1>5, <1>6, <1>7, <1>8

\* promote_next refuses an intent whose version has moved on, and prepares another.
LEMMA PromoteKeeps ==
  ASSUME IntentsInv, Promote
  PROVE  IntentsInv' /\ journal'.phase \in {"none", "prepared"}
<1>1. /\ journal = NoIntent /\ UNCHANGED <<release, facts, heads, members, derived, version>>
  BY DEF Promote
<1>2. PICK n \in DOMAIN queue :
        \/ /\ queue[n].base = version[WriteKey(queue[n])]
           /\ journal' = [NoIntent EXCEPT !.seq = n, !.phase = "prepared"]
           /\ queue' = [queue EXCEPT ![n].status = "active", ![n].reads = ReadKeys(queue[n])]
        \/ /\ queue' = [queue EXCEPT ![n].status = "conflict"]
           /\ journal' = journal
  BY DEF Promote
<1>3. /\ queue \in Seq(QueuedIntent) /\ queue[n] \in QueuedIntent
      /\ \A m \in DOMAIN queue : IntentOK(queue[m], facts, version)
  BY DEF IntentsInv, IntentOK
<1>4. CASE /\ queue[n].base = version[WriteKey(queue[n])]
           /\ journal' = [NoIntent EXCEPT !.seq = n, !.phase = "prepared"]
           /\ queue' = [queue EXCEPT ![n].status = "active", ![n].reads = ReadKeys(queue[n])]
  <2>1. PICK reads : reads = ReadKeys(queue[n])
    OBVIOUS
  <2>2. /\ Fits(facts, queue[n]) /\ facts \in Facts
    BY <1>3, <1>4 DEF IntentOK, IntentsInv
  <2>3. reads = ReadsOver(facts, queue[n]) /\ reads \in SUBSET Key
    BY <2>1, <2>2, ReadsTyped DEF Fits
  <2>4. queue' = [queue EXCEPT ![n].status = "active", ![n].reads = reads]
    BY <1>4, <2>1
  <2>5. /\ queue' \in Seq(QueuedIntent) /\ DOMAIN queue' = DOMAIN queue
        /\ queue'[n].op = queue[n].op /\ queue'[n].item = queue[n].item
        /\ queue'[n].new = queue[n].new /\ queue'[n].old = queue[n].old
        /\ queue'[n].base = queue[n].base /\ queue'[n].reads = reads
        /\ \A m \in DOMAIN queue' : IntentOK(queue'[m], facts, version)
    <3>1. PICK q, r, s : q = queue /\ r = queue' /\ s = "active"
      OBVIOUS
    <3>2. /\ n \in DOMAIN q /\ q \in Seq(QueuedIntent) /\ s \in {"active", "conflict", "done"}
          /\ reads \in SUBSET Key /\ r = Restated(q, n, s, reads)
      BY <1>3, <2>3, <2>4, <3>1 DEF Restated
    <3>3. /\ r \in Seq(QueuedIntent) /\ DOMAIN r = DOMAIN q
          /\ r[n].op = q[n].op /\ r[n].item = q[n].item /\ r[n].new = q[n].new
          /\ r[n].old = q[n].old /\ r[n].base = q[n].base /\ r[n].reads = reads
          /\ \A m \in DOMAIN q : m # n => r[m] = q[m]
          /\ \A f, v : IntentOK(q[n], f, v) => IntentOK(r[n], f, v)
      BY ONLY <3>2, RowMoves
    <3> QED
      BY <1>3, <3>1, <3>3
  <2>6. journal' = [seq |-> n, phase |-> "prepared", affected |-> {}]
    BY <1>4 DEF NoIntent
  <2>7. JournalOK' /\ Active' = queue'[n] /\ journal'.phase = "prepared"
    BY <2>5, <2>6 DEF JournalOK, Active, Phase
  <2>8. WriteKey(queue'[n]) = WriteKey(queue[n])
    BY <2>5 DEF WriteKey
  <2>9. ReadsOver(facts, queue'[n]) = ReadsOver(facts, queue[n])
    BY <2>5 DEF ReadsOver, KeysOf
  <2>10. Active'.base = version'[WriteKey(Active')] /\ Active'.reads = ReadsOver(facts', Active')
    BY <1>1, <1>4, <2>3, <2>5, <2>7, <2>8, <2>9
  <2> QED
    BY <1>1, <2>5, <2>7, <2>10 DEF IntentsInv
<1>5. CASE /\ queue' = [queue EXCEPT ![n].status = "conflict"]
           /\ journal' = journal
  <2>1. PICK reads : reads = queue[n].reads /\ reads \in SUBSET Key
    BY <1>3 DEF QueuedIntent
  <2>2. queue' = [queue EXCEPT ![n].status = "conflict", ![n].reads = reads]
    <3>1. [queue[n] EXCEPT !.status = "conflict"] = [queue[n] EXCEPT !.status = "conflict", !.reads = reads]
      BY <1>3, <2>1 DEF QueuedIntent
    <3> QED
      BY <1>5, <3>1
  <2>3. /\ queue' \in Seq(QueuedIntent)
        /\ \A m \in DOMAIN queue' : IntentOK(queue'[m], facts, version)
    <3>1. PICK q, r, s : q = queue /\ r = queue' /\ s = "conflict"
      OBVIOUS
    <3>2. /\ n \in DOMAIN q /\ q \in Seq(QueuedIntent) /\ s \in {"active", "conflict", "done"}
          /\ reads \in SUBSET Key /\ r = Restated(q, n, s, reads)
      BY <1>3, <2>1, <2>2, <3>1 DEF Restated
    <3>3. /\ r \in Seq(QueuedIntent) /\ DOMAIN r = DOMAIN q
          /\ \A m \in DOMAIN q : m # n => r[m] = q[m]
          /\ \A f, v : IntentOK(q[n], f, v) => IntentOK(r[n], f, v)
      BY ONLY <3>2, RowMoves
    <3> QED
      BY <1>3, <3>1, <3>3
  <2>4. journal' = NoIntent /\ journal'.phase = "none"
    BY <1>1, <1>5 DEF NoIntent
  <2> QED
    BY <1>1, <2>3, <2>4 DEF IntentsInv, JournalOK
<1> QED
  BY <1>2, <1>4, <1>5

\* What is about to be applied fits the facts.
LEMMA ActiveFits ==
  ASSUME IntentsInv, journal.phase = "prepared"
  PROVE  /\ Fits(facts, Active) /\ Active \in QueuedIntent /\ WriteKey(Active) \in Written
         /\ Active.reads = ReadsOver(facts, Active) /\ journal # NoIntent
<1>1. journal # NoIntent
  BY DEF NoIntent
<1>2. IntentOK(Active, facts, version)
  BY <1>1 DEF IntentsInv, JournalOK, Active
<1>3. WriteKey(Active) \in Written
  BY <1>2 DEF IntentOK, IsWrite, WriteKey, Written
<1> QED
  BY <1>1, <1>2, <1>3 DEF IntentOK, IntentsInv

\* Applying an intent moves its version on, so that others on the row go stale.
LEMMA ApplyKeeps ==
  ASSUME IntentsInv, ApplyTx
  PROVE  IntentsInv' /\ Active' = Active
<1>1. /\ journal.phase = "prepared" /\ facts' = Effect(facts, Active)
      /\ version' = [version EXCEPT ![WriteKey(Active)] = @ + 1]
      /\ journal' = [journal EXCEPT !.phase = "canonical_applied"]
      /\ queue' = queue
  BY DEF ApplyTx
<1>2. PICK a, k : a = Active /\ k = WriteKey(a)
  OBVIOUS
<1>3. Fits(facts, a) /\ k \in Written /\ journal # NoIntent
  BY <1>1, <1>2, ActiveFits
<1>4. /\ version' \in [Written -> Nat] /\ version'[k] = version[k] + 1
      /\ \A w \in Written : w # k => version'[w] = version[w]
  BY <1>1, <1>2, <1>3 DEF IntentsInv
<1>5. facts' \in Facts
  BY <1>1, <1>2, <1>3, EffectIs
<1>6. ASSUME NEW q, IntentOK(q, facts, version)
      PROVE  IntentOK(q, facts', version')
  <2>1. WriteKey(q) \in Written /\ q.base \in Nat
    BY <1>6 DEF IntentOK, IsWrite, WriteKey, Written, QueuedIntent
  <2>2. version[WriteKey(q)] \in Nat /\ version[k] \in Nat
    BY <1>3, <2>1 DEF IntentsInv
  <2>3. CASE WriteKey(q) = k
    BY <1>4, <1>6, <2>1, <2>2, <2>3 DEF IntentOK
  <2>4. CASE WriteKey(q) # k
    <3>1. version'[WriteKey(q)] = version[WriteKey(q)]
      BY <1>4, <2>1, <2>4
    <3>2. q.op # "evidence" => facts'.assertion[q.item] = facts.assertion[q.item]
      <4>1. CASE a.op = "evidence"
        BY <1>1, <1>2, <1>3, <4>1, EffectIs
      <4>2. CASE a.op # "evidence" /\ q.op # "evidence"
        <5>1. q.item \in Item /\ q.item # a.item
          BY <1>2, <1>6, <2>4, <4>2 DEF WriteKey, IntentOK, IsWrite
        <5> QED
          BY <1>1, <1>2, <1>3, <4>2, <5>1, EffectIs
      <4> QED
        BY <4>1, <4>2
    <3>3. Fits(facts, q) => Fits(facts', q)
      BY <1>5, <3>2 DEF Fits
    <3> QED
      BY <1>6, <3>1, <3>3 DEF IntentOK
  <2> QED
    BY <2>3, <2>4
<1>7. \A n \in DOMAIN queue' : IntentOK(queue'[n], facts', version')
  BY <1>1, <1>6 DEF IntentsInv
<1>8. journal' = [seq |-> journal.seq, phase |-> "canonical_applied", affected |-> journal.affected]
  BY <1>1, <1>3 DEF IntentsInv, JournalOK
<1>9. JournalOK' /\ journal'.phase = "canonical_applied" /\ Active' = Active
  BY <1>1, <1>3, <1>8 DEF IntentsInv, JournalOK, Active, Phase
<1> QED
  BY <1>1, <1>4, <1>5, <1>7, <1>9 DEF IntentsInv

\* Ending an intent leaves the facts and the other intents alone.
LEMMA FinalizeKeeps ==
  ASSUME IntentsInv, FinalizeTx
  PROVE  IntentsInv' /\ journal'.phase = "none"
<1>1. /\ journal.phase = "repaired" /\ journal' = NoIntent
      /\ queue' = [queue EXCEPT ![journal.seq].status = "done"]
      /\ UNCHANGED <<facts, version>>
  BY DEF FinalizeTx
<1>2. PICK n \in DOMAIN queue : n = journal.seq
  BY <1>1 DEF IntentsInv, JournalOK, NoIntent
<1>3. /\ queue \in Seq(QueuedIntent) /\ queue[n] \in QueuedIntent
      /\ \A m \in DOMAIN queue : IntentOK(queue[m], facts, version)
  BY DEF IntentsInv, IntentOK
<1>4. PICK reads : reads = queue[n].reads /\ reads \in SUBSET Key
  BY <1>3 DEF QueuedIntent
<1>5. queue' = [queue EXCEPT ![n].status = "done", ![n].reads = reads]
  <2>1. [queue[n] EXCEPT !.status = "done"] = [queue[n] EXCEPT !.status = "done", !.reads = reads]
    BY <1>3, <1>4 DEF QueuedIntent
  <2> QED
    BY <1>1, <1>2, <2>1
<1>6. /\ queue' \in Seq(QueuedIntent)
      /\ \A m \in DOMAIN queue' : IntentOK(queue'[m], facts, version)
  <2>1. PICK q, r, s : q = queue /\ r = queue' /\ s = "done"
    OBVIOUS
  <2>2. /\ n \in DOMAIN q /\ q \in Seq(QueuedIntent) /\ s \in {"active", "conflict", "done"}
        /\ reads \in SUBSET Key /\ r = Restated(q, n, s, reads)
    BY <1>3, <1>4, <1>5, <2>1 DEF Restated
  <2>3. /\ r \in Seq(QueuedIntent) /\ DOMAIN r = DOMAIN q
        /\ \A m \in DOMAIN q : m # n => r[m] = q[m]
        /\ \A f, v : IntentOK(q[n], f, v) => IntentOK(r[n], f, v)
    BY ONLY <2>2, RowMoves
  <2> QED
    BY <1>3, <2>1, <2>3
<1>7. journal'.phase = "none"
  BY <1>1 DEF NoIntent
<1> QED
  BY <1>1, <1>6, <1>7 DEF IntentsInv, JournalOK

\* The three transactions between the mutation and the end.
LEMMA MaintenanceKeeps ==
  ASSUME IntentsInv, InvalidateTx \/ PartialTx \/ RepairTx
  PROVE  IntentsInv' /\ Active' = Active
<1>1. journal # NoIntent
  BY DEF InvalidateTx, PartialTx, RepairTx, NoIntent
<1>2. journal = [seq |-> journal.seq, phase |-> journal.phase, affected |-> journal.affected]
  BY <1>1 DEF IntentsInv, JournalOK
<1>3. CASE InvalidateTx
  <2>1. PICK B : journal' = [journal EXCEPT !.phase = "invalidated", !.affected = B]
    BY <1>3 DEF InvalidateTx
  <2>2. journal' = [seq |-> journal.seq, phase |-> "invalidated", affected |-> B]
    BY <1>2, <2>1
  <2>3. UNCHANGED <<facts, version, queue>>
    BY <1>3 DEF InvalidateTx
  <2> QED
    BY <1>1, <2>2, <2>3, JournalMoves DEF Phase
<1>4. CASE PartialTx
  <2>1. journal' = [seq |-> journal.seq, phase |-> "rebuilding", affected |-> journal.affected]
    BY <1>2, <1>4 DEF PartialTx
  <2>2. UNCHANGED <<facts, version, queue>>
    BY <1>4 DEF PartialTx
  <2> QED
    BY <1>1, <2>1, <2>2, JournalMoves DEF Phase
<1>5. CASE RepairTx
  <2>1. journal' = [seq |-> journal.seq, phase |-> "repaired", affected |-> journal.affected]
    BY <1>2, <1>5 DEF RepairTx
  <2>2. UNCHANGED <<facts, version, queue>>
    BY <1>5 DEF RepairTx
  <2> QED
    BY <1>1, <2>1, <2>2, JournalMoves DEF Phase
<1> QED
  BY <1>3, <1>4, <1>5

\* Nothing is admitted when a store is made.
LEMMA IntentsInit == Init => IntentsInv
<1> SUFFICES ASSUME Init PROVE IntentsInv
  OBVIOUS
<1>1. facts \in Facts
  <2>1. \A i \in Entity : [subject |-> i, predicate |-> "deadline", object |-> 42] \in Row
    BY EntityAssumption, PredicateAssumption DEF Row, Object
  <2> QED
    BY <2>1 DEF Init, FirstFacts, Facts, Payload
<1>2. version \in [Written -> Nat]
  BY DEF Init, Written
<1>3. queue \in Seq(QueuedIntent) /\ DOMAIN queue = {}
  BY DEF Init
<1>4. journal = NoIntent /\ journal.phase = "none"
  BY DEF Init, NoIntent
<1> QED
  BY <1>1, <1>2, <1>3, <1>4 DEF IntentsInv, JournalOK

\* Every step keeps the intents fitting the facts under their versions.
LEMMA IntentsStep ==
  ASSUME AddOnce, IntentsInv, [Next]_vars
  PROVE  IntentsInv'
<1>1. CASE Client
  BY <1>1, ClientAdmits, AdmitKeeps DEF IntentsInv
<1>2. CASE Maintain
  BY <1>2, PromoteKeeps, ApplyKeeps, MaintenanceKeeps, FinalizeKeeps DEF Maintain
<1>3. CASE UNCHANGED vars
  BY <1>3 DEF vars, IntentsInv, JournalOK, Active
<1> QED
  BY <1>1, <1>2, <1>3 DEF Next

-----------------------------------------------------------------------------
(* The tables of current assertions and of memberships *)

IndexInv ==
  /\ release \in 13 .. 16
  /\ release >= 14 => heads = Heads(facts)
  /\ release = 16 => members = {k \in Key : Heads(facts)[k] # None}

\* bootstrap() fills the tables by a scan.
LEMMA IndexInit == Init => IndexInv
BY ReleaseAssumption DEF Init, IndexInv

\* Only an applied intent changes the tables, and it refreshes what it names.
LEMMA IndexStep ==
  ASSUME IntentsInv, IndexInv, [Next]_vars
  PROVE  IndexInv'
<1>1. CASE ApplyTx
  <2>1. PICK i, f, g, t : i = Active /\ f = facts /\ g = Effect(f, i) /\ t = Touched(i)
    OBVIOUS
  <2>2. Fits(f, i)
    BY <1>1, <2>1, ActiveFits DEF ApplyTx
  <2>3. /\ facts' = g /\ release' = release
        /\ heads' = IF release >= 14 THEN Refreshed(heads, g, t) ELSE heads
        /\ members' = IF release = 16 THEN Synced(members, heads', t) ELSE members
    BY <1>1, <2>1 DEF ApplyTx
  <2>4. /\ Refreshed(Heads(f), g, t) = Heads(g)
        /\ Synced({k \in Key : Heads(f)[k] # None}, Heads(g), t) = {k \in Key : Heads(g)[k] # None}
    BY <2>1, <2>2, RefreshKeeps
  <2>5. release >= 14 => heads' = Heads(g)
    BY <2>1, <2>3, <2>4 DEF IndexInv
  <2>6. release = 16 => members' = {k \in Key : Heads(g)[k] # None}
    <3>1. ASSUME release = 16 PROVE members' = Synced(members, Heads(g), t)
      BY <2>3, <2>5, <3>1
    <3> QED
      BY <2>1, <2>4, <3>1 DEF IndexInv
  <2> QED
    BY <2>3, <2>5, <2>6 DEF IndexInv
<1>2. CASE UNCHANGED <<release, facts, heads, members>>
  BY <1>2 DEF IndexInv
<1>3. ASSUME Client PROVE UNCHANGED <<release, facts, heads, members>>
  BY <1>3 DEF Client, ReplacePayload, DeleteAssertion, ReplaceObject, AddPredicate, MoveAssertion,
              ChangePredicate, Upsert, Admit
<1>4. ASSUME Promote \/ InvalidateTx \/ PartialTx \/ RepairTx \/ FinalizeTx
      PROVE  UNCHANGED <<release, facts, heads, members>>
  BY <1>4 DEF Promote, InvalidateTx, PartialTx, RepairTx, FinalizeTx
<1> QED
  BY <1>1, <1>2, <1>3, <1>4 DEF Next, Maintain, vars

\* The tables of heads and of memberships are what a scan of the assertions
\* gives after every transaction: refreshing the keys an intent writes under is
\* enough, because its snapshot is still what the facts hold (subject_heads.py:43,
\* normalized_membership.py:111).
THEOREM IndexesFollow ==
  ASSUME AddOnce
  PROVE  Spec => []IndexesMatchCanonical
<1>1. Init => IntentsInv /\ IndexInv
  BY IntentsInit, IndexInit
<1>2. IntentsInv /\ IndexInv /\ [Next]_vars => IntentsInv' /\ IndexInv'
  BY IntentsStep, IndexStep
<1>3. IntentsInv /\ IndexInv => IndexesMatchCanonical
  BY DEF IndexInv, IndexesMatchCanonical, HeadIndexMatches, MembershipMatches
<1> QED
  BY <1>1, <1>2, <1>3, PTL DEF Spec

-----------------------------------------------------------------------------
(* The derived rows *)

Unsettling == {"canonical_applied", "invalidated", "rebuilding"}

\* In the midst of an intent: f are the facts before it.
Over(f) ==
  /\ Fits(f, Active) /\ facts = Effect(f, Active) /\ Active.reads = ReadsOver(f, Active)
  /\ journal.phase = "canonical_applied" => derived = Clean(release, f)
  /\ journal.phase # "canonical_applied" =>
       /\ journal.affected = Affected(release, Clean(release, f), facts, Active)
       /\ Damaged(derived, Clean(release, f), journal.affected)

CleanInv ==
  /\ journal.phase \in {"none", "prepared", "repaired"} => derived = Clean(release, facts)
  /\ journal.phase \in Unsettling => \E f \in Facts : Over(f)

\* What an intent invalidates are nodes.
LEMMA AffectedNodes ==
  ASSUME NEW rel, NEW c, NEW f, NEW i, Fits(f, i), NEW g
  PROVE  Affected(rel, c, g, i) \in SUBSET Node
<1>1. Growth(c, i) \subseteq Node
  <2>1. CASE i.op = "assertion"
    <3>1. i.new.subject \in Subject /\ i.new.predicate \in Predicate
      BY <2>1 DEF Fits, IsWrite, Row
    <3> QED
      BY <3>1 DEF Growth, Node, Profile
  <2> QED
    BY <2>1 DEF Growth
<1>2. Reached(c, Seeds(i)) \subseteq Node
  BY DEF Reached
<1> QED
  BY <1>1, <1>2 DEF Affected

\* Invalidating damages no more than it says.
LEMMA InvalidatedIs ==
  ASSUME NEW d, NEW c, NEW A \in SUBSET Node, NEW e, e = Invalidated(d, A),
         \/ d = c /\ c = [n \in Node |-> c[n]] /\ \A n \in Node : IsRecord(c[n])
         \/ Damaged(d, c, A)
  PROVE  Damaged(e, c, A)
<1>1. e = [n \in Node |-> IF n \in A THEN [d[n] EXCEPT !.status = "invalid"] ELSE d[n]]
  BY DEF Invalidated
<1>2. ASSUME NEW n \in A
      PROVE  IsRecord(e[n]) /\ e[n].status = "invalid"
  <2>1. n \in Node /\ IsRecord(d[n])
    BY DEF Damaged
  <2>2. PICK r : r = d[n]
    OBVIOUS
  <2>3. e[n] = [r EXCEPT !.status = "invalid"]
    BY <1>1, <2>1, <2>2
  <2> QED
    BY <2>1, <2>2, <2>3 DEF IsRecord
<1>3. ASSUME NEW n \in Node, n \notin A
      PROVE  e[n] = c[n]
  BY <1>1, <1>3 DEF Damaged
<1>4. e = [n \in Node |-> e[n]]
  BY <1>1
<1> QED
  BY <1>2, <1>3, <1>4 DEF Damaged

\* bootstrap() derives everything.
LEMMA CleanInit == Init => CleanInv
BY DEF Init, CleanInv, NoIntent, Unsettling

\* A step that leaves the journal, the facts and the rows alone.
LEMMA CleanStutters ==
  ASSUME CleanInv, UNCHANGED <<release, facts, derived, journal>>, journal # NoIntent => Active' = Active,
         JournalOK
  PROVE  CleanInv'
<1>1. CASE journal = NoIntent
  BY <1>1 DEF CleanInv, NoIntent, Unsettling
<1>2. CASE journal # NoIntent
  <2>1. \A f : Over(f) => Over(f)'
    BY <1>2 DEF Over
  <2> QED
    BY <2>1 DEF CleanInv
<1> QED
  BY <1>1, <1>2

\* When an intent is applied the rows are those of the facts before it.
LEMMA ApplyIsOver ==
  ASSUME IntentsInv, CleanInv, ApplyTx
  PROVE  CleanInv'
<1>1. /\ journal.phase = "prepared" /\ facts' = Effect(facts, Active)
      /\ UNCHANGED <<release, derived>>
  BY DEF ApplyTx
<1>2. Active' = Active /\ journal'.phase = "canonical_applied"
  <2>1. journal # NoIntent
    BY <1>1 DEF NoIntent
  <2>2. journal = [seq |-> journal.seq, phase |-> journal.phase, affected |-> journal.affected]
    BY <2>1 DEF IntentsInv, JournalOK
  <2> QED
    BY <2>2, ApplyKeeps DEF ApplyTx
<1>3. PICK f, i : f = facts /\ i = Active
  OBVIOUS
<1>4. /\ f \in Facts /\ Fits(f, i) /\ facts' = Effect(f, i) /\ i.reads = ReadsOver(f, i)
      /\ Active' = i /\ derived' = Clean(release', f)
  BY <1>1, <1>2, <1>3, ActiveFits DEF IntentsInv, CleanInv
<1>5. Over(f)'
  BY <1>2, <1>4 DEF Over
<1> QED
  BY <1>2, <1>4, <1>5 DEF CleanInv

\* Invalidating damages the affected nodes and no others.
LEMMA InvalidateIsOver ==
  ASSUME IntentsInv, IndexInv, CleanInv, InvalidateTx
  PROVE  CleanInv'
<1>1. PICK B : /\ journal.phase = "canonical_applied" /\ B = Affected(release, derived, facts, Active)
               /\ derived' = Invalidated(derived, B)
               /\ journal' = [journal EXCEPT !.phase = "invalidated", !.affected = B]
               /\ UNCHANGED <<release, facts>>
  BY DEF InvalidateTx
<1>2. journal = [seq |-> journal.seq, phase |-> journal.phase, affected |-> journal.affected]
  BY <1>1 DEF IntentsInv, JournalOK, NoIntent
<1>3. journal'.phase = "invalidated" /\ journal'.affected = B
  BY <1>1, <1>2
<1>4. PICK f \in Facts : Over(f)
  BY <1>1 DEF CleanInv, Unsettling
<1>5. PICK c : c = Clean(release, f)
  OBVIOUS
<1>6. derived = c /\ Fits(f, Active)
  BY <1>1, <1>4, <1>5 DEF Over
<1>7. B \in SUBSET Node
  BY <1>1, <1>6, AffectedNodes
<1>8. c = [n \in Node |-> c[n]] /\ \A n \in Node : IsRecord(c[n])
  BY <1>5, CleanShape DEF IndexInv
<1>9. Damaged(derived', c, B)
  BY <1>1, <1>6, <1>7, <1>8, InvalidatedIs
<1>10. Active' = Active
  BY MaintenanceKeeps
<1>11. Over(f)'
  BY <1>1, <1>3, <1>4, <1>5, <1>6, <1>9, <1>10 DEF Over
<1> QED
  BY <1>3, <1>11 DEF CleanInv

\* A rebuild that is cut short damages one of the affected nodes, and no others.
LEMMA PartialIsOver ==
  ASSUME IntentsInv, CleanInv, PartialTx
  PROVE  CleanInv'
<1>1. PICK n \in journal.affected :
        /\ journal.phase = "invalidated"
        /\ derived' = [derived EXCEPT ![n].status = "rebuilding", ![n].value = Nothing]
        /\ journal' = [journal EXCEPT !.phase = "rebuilding"]
        /\ UNCHANGED <<release, facts>>
  BY DEF PartialTx
<1>2. journal = [seq |-> journal.seq, phase |-> journal.phase, affected |-> journal.affected]
  BY <1>1 DEF IntentsInv, JournalOK, NoIntent
<1>3. journal'.phase = "rebuilding" /\ journal'.affected = journal.affected
  BY <1>1, <1>2
<1>4. PICK f \in Facts : Over(f)
  BY <1>1 DEF CleanInv, Unsettling
<1>5. PICK c, A, d, e : /\ c = Clean(release, f) /\ A = journal.affected
                        /\ d = derived /\ e = derived'
  OBVIOUS
<1>6. Damaged(d, c, A)
  BY <1>1, <1>4, <1>5 DEF Over
<1>7. Damaged(e, c, A)
  <2>1. e = [d EXCEPT ![n] = [d[n] EXCEPT !.status = "rebuilding", !.value = Nothing]]
    BY <1>1, <1>5
  <2>2. PICK r : r = d[n]
    OBVIOUS
  <2>3. PICK b : b = [r EXCEPT !.status = "rebuilding", !.value = Nothing]
    OBVIOUS
  <2>4. n \in A /\ n \in Node /\ IsRecord(r)
    BY <1>5, <1>6, <2>2 DEF Damaged
  <2>5. IsRecord(b) /\ b.status = "rebuilding"
    BY ONLY <2>3, <2>4 DEF IsRecord
  <2>6. e = [d EXCEPT ![n] = b]
    BY ONLY <2>1, <2>2, <2>3
  <2>7. /\ d = [m \in Node |-> d[m]] /\ A \in SUBSET Node
        /\ \A m \in Node : IF m \in A THEN IsRecord(d[m]) /\ d[m].status \in {"invalid", "rebuilding"}
                                      ELSE d[m] = c[m]
    BY <1>6 DEF Damaged
  <2>8. e = [m \in Node |-> e[m]] /\ e[n] = b /\ \A m \in Node : m # n => e[m] = d[m]
    BY ONLY <2>4, <2>6, <2>7
  <2> QED
    BY ONLY <2>4, <2>5, <2>7, <2>8 DEF Damaged
<1>8. Active' = Active
  BY MaintenanceKeeps
<1>9. Over(f)'
  BY <1>1, <1>3, <1>4, <1>5, <1>7, <1>8 DEF Over
<1> QED
  BY <1>3, <1>9 DEF CleanInv

\* Repair leaves the rows clean over the facts that are there now.
LEMMA RepairIsDone ==
  ASSUME IntentsInv, IndexInv, CleanInv, RepairTx
  PROVE  CleanInv'
<1>1. PICK d : /\ journal.phase \in {"invalidated", "rebuilding"}
               /\ d = IF journal.phase = "rebuilding" THEN Invalidated(derived, journal.affected)
                                                      ELSE derived
               /\ derived' = Repaired(release, d, facts, CurrentHeads, journal.affected)
               /\ journal' = [journal EXCEPT !.phase = "repaired"]
               /\ UNCHANGED <<release, facts>>
  BY DEF RepairTx
<1>2. journal = [seq |-> journal.seq, phase |-> journal.phase, affected |-> journal.affected]
  BY <1>1 DEF IntentsInv, JournalOK, NoIntent
<1>3. journal'.phase = "repaired"
  BY <1>1, <1>2
<1>4. PICK f \in Facts : Over(f)
  BY <1>1 DEF CleanInv, Unsettling
<1>5. PICK rel, i, g, A, c : /\ rel = release /\ i = Active /\ g = facts /\ A = journal.affected
                             /\ c = Clean(rel, f)
  OBVIOUS
<1>6. /\ rel \in 13 .. 16 /\ Fits(f, i) /\ g = Effect(f, i) /\ A = Affected(rel, c, g, i)
      /\ Damaged(derived, c, A)
  BY <1>1, <1>4, <1>5 DEF Over, IndexInv
<1>7. Damaged(d, c, A)
  <2>1. CASE journal.phase = "rebuilding"
    <3>1. d = Invalidated(derived, A) /\ A \in SUBSET Node
      BY <1>1, <1>5, <1>6, <2>1 DEF Damaged
    <3> QED
      BY <1>6, <3>1, InvalidatedIs
  <2>2. CASE journal.phase # "rebuilding"
    BY <1>1, <1>6, <2>2
  <2> QED
    BY <2>1, <2>2
<1>8. CurrentHeads = Heads(g)
  BY <1>5, <1>6 DEF CurrentHeads, IndexInv
<1>9. Repaired(rel, d, g, Heads(g), A) = Clean(rel, g)
  BY <1>5, <1>6, <1>7, ProfileRepairIsClean
<1>10. derived' = Clean(release', facts')
  BY <1>1, <1>5, <1>8, <1>9
<1> QED
  BY <1>3, <1>10 DEF CleanInv, Unsettling

\* Every step keeps what is not being rebuilt clean.
LEMMA CleanStep ==
  ASSUME AddOnce, IntentsInv, IndexInv, CleanInv, [Next]_vars
  PROVE  CleanInv'
<1>0. JournalOK
  BY DEF IntentsInv
<1>1. CASE Client
  <2>1. /\ journal # NoIntent => Active' = Active
        /\ UNCHANGED <<release, facts, derived, journal>>
    BY <1>1, ClientAdmits, AdmitKeeps DEF IntentsInv
  <2> QED
    BY <1>0, <2>1, CleanStutters
<1>2. CASE Promote
  <2>1. journal.phase = "none" /\ UNCHANGED <<release, facts, derived>>
    BY <1>2 DEF Promote, NoIntent
  <2>2. journal'.phase \in {"none", "prepared"}
    BY <1>2, PromoteKeeps
  <2> QED
    BY <2>1, <2>2 DEF CleanInv, Unsettling
<1>3. CASE FinalizeTx
  <2>1. journal.phase = "repaired" /\ UNCHANGED <<release, facts, derived>>
    BY <1>3 DEF FinalizeTx
  <2>2. journal'.phase = "none"
    BY <1>3, FinalizeKeeps
  <2> QED
    BY <2>1, <2>2 DEF CleanInv, Unsettling
<1>4. CASE UNCHANGED vars
  <2>1. UNCHANGED <<release, facts, derived, journal>> /\ Active' = Active
    BY <1>4 DEF vars, Active
  <2> QED
    BY <1>0, <2>1, CleanStutters
<1> QED
  BY <1>1, <1>2, <1>3, <1>4, ApplyIsOver, InvalidateIsOver, PartialIsOver, RepairIsDone
     DEF Next, Maintain

ProfileInv == IntentsInv /\ IndexInv /\ CleanInv

\* The inductive invariant.
LEMMA ProfileInvariance ==
  ASSUME AddOnce
  PROVE  Spec => []ProfileInv
<1>1. Init => ProfileInv
  BY IntentsInit, IndexInit, CleanInit DEF ProfileInv
<1>2. ProfileInv /\ [Next]_vars => ProfileInv'
  BY IntentsStep, IndexStep, CleanStep DEF ProfileInv
<1> QED
  BY <1>1, <1>2, PTL DEF Spec

\* Between intents the derived rows and edges are what the release's full
\* rebuild would give (predicate_schema.py, clean_rebuild_digest).
THEOREM ProfilesAreClean ==
  ASSUME AddOnce
  PROVE  Spec => []QuietIsClean
<1>1. ProfileInv => QuietIsClean
  BY DEF ProfileInv, CleanInv, QuietIsClean
<1> QED
  BY <1>1, ProfileInvariance, PTL

-----------------------------------------------------------------------------
(* Composed reads *)

Live(f, s)     == {p \in Predicate : About(f, <<s, p>>) # {}}
Asked(r, live) == IF r.all THEN live ELSE r.of

\* What the facts say of some predicates of a subject.
Truth(f, s, ps) == [kind |-> "profile", predicates |-> ps,
                    payloads |-> Payloads(f, {Latest(f, <<s, p>>) : p \in ps})]

\* A request is for all predicates or for some.
LEMMA RequestIs ==
  ASSUME NEW r \in Request
  PROVE  \/ r.all = TRUE
         \/ r.all = FALSE /\ r.of # {} /\ r.of \in SUBSET Predicate
<1>1. CASE r \in [all : {TRUE}, of : {{}}]
  <2>1. r.all \in {TRUE}
    BY <1>1
  <2> QED
    BY <2>1
<1>2. CASE r \in [all : {FALSE}, of : (SUBSET Predicate) \ {{}}]
  <2>1. r.all \in {FALSE} /\ r.of \in (SUBSET Predicate) \ {{}}
    BY <1>2
  <2> QED
    BY <2>1
<1>3. \/ r \in [all : {TRUE}, of : {{}}]
      \/ r \in [all : {FALSE}, of : (SUBSET Predicate) \ {{}}]
  BY Zenon DEF Request
<1> QED
  BY Zenon, <1>1, <1>2, <1>3

\* A subject has a profile when it has a predicate, and a facet of each.
LEMMA FacetsAre ==
  ASSUME NEW rel \in {15, 16}, NEW f, NEW c, c = Clean(rel, f), NEW s \in Subject
  PROVE  /\ Fresh(c, Profile(s)) <=> Live(f, s) # {}
         /\ rel = 15 /\ Fresh(c, Profile(s)) => c[Profile(s)].value.predicates = Live(f, s)
         /\ \A p \in Predicate :
              /\ Fresh(c, Support(s, p)) <=> p \in Live(f, s)
              /\ p \in Live(f, s) =>
                   c[Support(s, p)].value.payloads = Payloads(f, {Latest(f, <<s, p>>)})
<1>1. PICK h : h = Heads(f)
  OBVIOUS
<1>2. Having(h, s) = Live(f, s)
  BY <1>1, HeadsAre DEF Live
<1>3. c[Profile(s)] = ProfileRow(rel, f, h, s)
  BY <1>1, NodeForms, NodeParts DEF Clean
<1>4. rel \in 13 .. 16
  OBVIOUS
<1>5. /\ Having(h, s) = {} => c[Profile(s)] = NoNode
      /\ Having(h, s) # {} => c[Profile(s)].status = "fresh"
      /\ Having(h, s) # {} /\ rel = 15 => c[Profile(s)] = Manifest(h, s)
  BY <1>3, <1>4, ProfileCases
<1>6. Fresh(c, Profile(s)) <=> Live(f, s) # {}
  BY <1>2, <1>5, RowsExist DEF Fresh
<1>7. Manifest(h, s).value.predicates = Having(h, s)
  BY DEF Manifest, FreshRow, Nothing
<1>8. ASSUME NEW p \in Predicate
      PROVE  /\ Fresh(c, Support(s, p)) <=> p \in Live(f, s)
             /\ p \in Live(f, s) =>
                  c[Support(s, p)].value.payloads = Payloads(f, {Latest(f, <<s, p>>)})
  <2>1. CASE p \notin Live(f, s)
    <3>1. About(f, <<s, p>>) = {}
      BY <2>1 DEF Live
    <3>2. c[Support(s, p)] = NoNode
      BY <3>1, CleanIs
    <3> QED
      BY <2>1, <3>2, RowsExist DEF Fresh
  <2>2. CASE p \in Live(f, s)
    <3>1. About(f, <<s, p>>) # {}
      BY <2>2 DEF Live
    <3>2. c[Support(s, p)] = SupportRow(f, s, p)
      BY <3>1, CleanIs
    <3>3. PICK i, w : i = Latest(f, <<s, p>>) /\ w = Payloads(f, {i})
      OBVIOUS
    <3>4. Supported(f, i).payloads = w
      BY <3>3 DEF Supported, State, Nothing
    <3>5. c[Support(s, p)].value = Supported(f, i) /\ c[Support(s, p)].status = "fresh"
      BY <3>2, <3>3, RowsExist DEF SupportRow
    <3> QED
      BY <2>2, <3>3, <3>4, <3>5 DEF Fresh
  <2> QED
    BY <2>1, <2>2
<1> QED
  BY <1>2, <1>5, <1>6, <1>7, <1>8

\* Facets that are what the facts give assemble to what the facts say.
LEMMA AssembledIs ==
  ASSUME NEW rel \in {15, 16}, NEW c, c = Clean(rel, facts), NEW s \in Subject,
         NEW ps \in SUBSET Live(facts, s),
         \A p \in ps : derived[Support(s, p)] = c[Support(s, p)]
  PROVE  Assembled(s, ps) = Truth(facts, s, ps)
<1>1. ASSUME NEW p \in ps
      PROVE  /\ Fresh(derived, Support(s, p))
             /\ derived[Support(s, p)].value.payloads = Payloads(facts, {Latest(facts, <<s, p>>)})
  <2>1. p \in Predicate /\ p \in Live(facts, s)
    BY DEF Live
  <2>2. /\ Fresh(c, Support(s, p))
        /\ c[Support(s, p)].value.payloads = Payloads(facts, {Latest(facts, <<s, p>>)})
    BY <2>1, FacetsAre
  <2> QED
    BY <2>2 DEF Fresh
<1>2. UNION {derived[Support(s, p)].value.payloads : p \in ps}
        = UNION {Payloads(facts, {Latest(facts, <<s, p>>)}) : p \in ps}
  BY <1>1
<1>3. UNION {Payloads(facts, {Latest(facts, <<s, p>>)}) : p \in ps}
        = Payloads(facts, {Latest(facts, <<s, p>>) : p \in ps})
  <2>1. PICK its : its = {Latest(facts, <<s, p>>) : p \in ps}
    OBVIOUS
  <2>2. \A I, x : x \in Payloads(facts, I) <=>
                  \E i \in I : facts.evidence[i] # None /\ x = <<i, facts.evidence[i]>>
    BY DEF Payloads
  <2>3. \A x : x \in Payloads(facts, its) <=>
               \E p \in ps : x \in Payloads(facts, {Latest(facts, <<s, p>>)})
    <3> SUFFICES ASSUME NEW x
                 PROVE  x \in Payloads(facts, its) <=>
                          \E p \in ps : x \in Payloads(facts, {Latest(facts, <<s, p>>)})
      OBVIOUS
    <3>1. x \in Payloads(facts, its) <=>
            \E i \in its : facts.evidence[i] # None /\ x = <<i, facts.evidence[i]>>
      BY <2>2
    <3>2. \A i : x \in Payloads(facts, {i}) <=> facts.evidence[i] # None /\ x = <<i, facts.evidence[i]>>
      BY <2>2
    <3> QED
      BY ONLY <2>1, <3>1, <3>2
  <2> QED
    BY <2>1, <2>3
<1> QED
  BY <1>1, <1>2, <1>3 DEF Assembled, Truth

\* The oracle.
LEMMA OracleIs ==
  ASSUME NEW s \in Subject, NEW r \in Request,
         NEW live, live = Live(facts, s), NEW asked, asked = Asked(r, live)
  PROVE  CleanComposed(s, r) = IF live = {} THEN [kind |-> "none"]
                               ELSE IF ~(asked \subseteq live) THEN [kind |-> "unknown"]
                               ELSE Truth(facts, s, asked)
BY DEF CleanComposed, Live, Asked, Truth

\* What a read looks at: the predicates it takes for live.
Manifested(s) == IF release = 15 THEN derived[Profile(s)].value.predicates ELSE Live(facts, s)

\* The answer, by what the read finds.
LEMMA ComposedIs ==
  ASSUME IndexInv, release \in {15, 16}, NEW s \in Subject, NEW r \in Request,
         NEW live, live = Manifested(s), NEW asked, asked = Asked(r, live)
  PROVE  /\ ~Fresh(derived, Profile(s)) => Composed(s, r) = [kind |-> "none"]
         /\ ~Protected(s, r) =>
              /\ Fresh(derived, Profile(s)) /\ ~(asked \subseteq live) =>
                   Composed(s, r) = [kind |-> "unknown"]
              /\ Fresh(derived, Profile(s)) /\ asked \subseteq live =>
                   Composed(s, r) = Assembled(s, asked)
         /\ Protected(s, r) => Composed(s, r).kind \in {"none", "unknown", "blocked"}
<1>1. CASE release = 15
  BY <1>1 DEF Composed, ComposedByManifest, Manifested, Asked
<1>2. CASE release = 16
  <2>1. members = {k \in Key : Heads(facts)[k] # None}
    BY <1>2 DEF IndexInv
  <2>2. {p \in Predicate : <<s, p>> \in members} = Live(facts, s)
    BY <2>1, HeadsAre DEF Live, Key
  <2>3. live = {p \in Predicate : <<s, p>> \in members}
    BY <1>2, <2>2 DEF Manifested
  <2> QED
    BY <1>2, <2>3 DEF Composed, ComposedByMembers, Asked
<1> QED
  BY <1>1, <1>2

\* With no intent between its first and its last transaction, the oracle answers.
LEMMA SettledReads ==
  ASSUME IndexInv, release \in {15, 16}, derived = Clean(release, facts), ~Unsettled,
         NEW s \in Subject, NEW r \in Request
  PROVE  Composed(s, r) = CleanComposed(s, r) /\ Composed(s, r).kind # "no facet"
<1>1. PICK c, live, asked : /\ c = Clean(release, facts) /\ live = Live(facts, s)
                            /\ asked = Asked(r, live)
  OBVIOUS
<1>2. /\ Fresh(derived, Profile(s)) <=> live # {}
      /\ release = 15 /\ Fresh(derived, Profile(s)) => derived[Profile(s)].value.predicates = live
  BY <1>1, FacetsAre
<1>3. ~Protected(s, r)
  BY DEF Protected
<1>4. CASE live = {}
  <2>1. Composed(s, r) = [kind |-> "none"]
    BY <1>2, <1>4, ComposedIs
  <2>2. CleanComposed(s, r) = [kind |-> "none"]
    BY <1>1, <1>4, OracleIs
  <2> QED
    BY <2>1, <2>2
<1>5. CASE live # {}
  <2>1. live = Manifested(s)
    BY <1>1, <1>2, <1>5 DEF Manifested
  <2>2. CASE ~(asked \subseteq live)
    <3>1. Composed(s, r) = [kind |-> "unknown"]
      BY <1>1, <1>2, <1>3, <1>5, <2>1, <2>2, ComposedIs
    <3> QED
      BY <1>1, <1>5, <2>2, <3>1, OracleIs
  <2>3. CASE asked \subseteq live
    <3>1. Composed(s, r) = Assembled(s, asked)
      BY <1>1, <1>2, <1>3, <1>5, <2>1, <2>3, ComposedIs
    <3>2. asked \in SUBSET Live(facts, s)
      BY <1>1, <2>3
    <3>3. \A p \in asked : derived[Support(s, p)] = c[Support(s, p)]
      BY <1>1
    <3>4. Assembled(s, asked) = Truth(facts, s, asked)
      BY <1>1, <3>2, <3>3, AssembledIs
    <3> QED
      BY <1>1, <1>5, <2>3, <3>1, <3>4, OracleIs DEF Truth
  <2> QED
    BY <2>2, <2>3
<1> QED
  BY <1>4, <1>5

\* A subject's predicate that is not protected: its facet, and whether it has
\* one, are those of before and of after.
LEMMA UnprotectedFacet ==
  ASSUME NEW rel \in {15, 16}, NEW f, NEW i, Fits(f, i), NEW g, g = Effect(f, i),
         NEW c, c = Clean(rel, f), NEW A, A = Affected(rel, c, g, i),
         NEW s \in Subject, NEW p \in Predicate, <<s, p>> \notin ReadsOver(f, i)
  PROVE  /\ Support(s, p) \notin A
         /\ c[Support(s, p)] = Clean(rel, g)[Support(s, p)]
         /\ p \in Live(f, s) <=> p \in Live(g, s)
<1>1. rel \in 13 .. 16 /\ Support(s, p) \in Node
  BY NodeForms
<1>2. Support(s, p) \notin A
  BY <1>1, RegionWithin
<1>3. PICK e : e = Clean(rel, g)
  OBVIOUS
<1>4. c[Support(s, p)] = e[Support(s, p)]
  BY <1>1, <1>2, <1>3, RegionAgrees
<1>5. /\ Fresh(c, Support(s, p)) <=> p \in Live(f, s)
      /\ Fresh(e, Support(s, p)) <=> p \in Live(g, s)
  BY <1>3, FacetsAre
<1> QED
  BY <1>2, <1>3, <1>4, <1>5 DEF Fresh

\* In the midst of an intent, what is let through is outside its region.
LEMMA UnsettledReads ==
  ASSUME IndexInv, release \in {15, 16}, Unsettled, NEW f, Over(f),
         NEW s \in Subject, NEW r \in Request
  PROVE  /\ Composed(s, r).kind # "no facet"
         /\ Composed(s, r).kind = "profile" => Composed(s, r) = CleanComposed(s, r)
<1>1. PICK rel, i, g, c, A : /\ rel = release /\ i = Active /\ g = facts /\ c = Clean(rel, f)
                             /\ A = Affected(rel, c, g, i)
  OBVIOUS
<1>2. /\ rel \in {15, 16} /\ Fits(f, i) /\ g = Effect(f, i) /\ Active.reads = ReadsOver(f, i)
  BY <1>1 DEF Over
<1>3. /\ \A n \in Node : n \notin A => derived[n] = c[n]
      /\ \A n \in Node : Fresh(derived, n) => derived[n] = c[n]
  <2>1. CASE journal.phase = "canonical_applied"
    BY <1>1, <2>1 DEF Over
  <2>2. CASE journal.phase # "canonical_applied"
    <3>1. Damaged(derived, c, A)
      BY <1>1, <2>2 DEF Over
    <3> QED
      BY <3>1 DEF Damaged, Fresh
  <2> QED
    BY <2>1, <2>2
<1>4. PICK live, asked : live = Manifested(s) /\ asked = Asked(r, live)
  OBVIOUS
<1>5. SUFFICES ASSUME Fresh(derived, Profile(s)), ~Protected(s, r), asked \subseteq live
               PROVE  Composed(s, r) = CleanComposed(s, r) /\ Composed(s, r).kind # "no facet"
  <2>1. \/ Fresh(derived, Profile(s)) /\ ~Protected(s, r) /\ asked \subseteq live
        \/ Composed(s, r).kind \in {"none", "unknown", "blocked"}
    <3>1. \/ ~Fresh(derived, Profile(s)) /\ Composed(s, r) = [kind |-> "none"]
          \/ Protected(s, r) /\ Composed(s, r).kind \in {"none", "unknown", "blocked"}
          \/ ~(asked \subseteq live) /\ Composed(s, r) = [kind |-> "unknown"]
          \/ Fresh(derived, Profile(s)) /\ ~Protected(s, r) /\ asked \subseteq live
      BY <1>4, ComposedIs
    <3>2. PICK none, unknown : none = [kind |-> "none"] /\ unknown = [kind |-> "unknown"]
      OBVIOUS
    <3>3. none.kind = "none" /\ unknown.kind = "unknown"
      BY <3>2
    <3> QED
      BY <3>1, <3>2, <3>3
  <2> QED
    BY <2>1
<1>6. Composed(s, r) = Assembled(s, asked)
  BY <1>1, <1>2, <1>4, <1>5, ComposedIs
<1>7. /\ Live(f, s) # {}
      /\ release = 15 => live = Live(f, s)
      /\ release = 16 => live = Live(g, s)
  <2>1. derived[Profile(s)] = c[Profile(s)] /\ Fresh(c, Profile(s))
    BY <1>3, <1>5, NodeForms DEF Fresh
  <2>2. Live(f, s) # {} /\ (rel = 15 => c[Profile(s)].value.predicates = Live(f, s))
    BY <1>1, <1>2, <2>1, FacetsAre
  <2> QED
    BY <1>1, <1>4, <2>1, <2>2 DEF Manifested
<1>8. Live(f, s) \subseteq Predicate /\ Live(g, s) \subseteq Predicate
  BY DEF Live
<1>9. \A p \in Predicate : (r.all \/ p \in r.of) => <<s, p>> \notin ReadsOver(f, i)
  <2> SUFFICES ASSUME NEW p \in Predicate, r.all \/ p \in r.of, <<s, p>> \in Active.reads
               PROVE  FALSE
    BY <1>2
  <2>1. <<s, p>>[1] = s /\ <<s, p>>[2] = p
    OBVIOUS
  <2> QED
    BY <1>5, <2>1 DEF Protected
<1>10. ASSUME NEW p \in Predicate, r.all \/ p \in r.of
       PROVE  /\ derived[Support(s, p)] = Clean(rel, g)[Support(s, p)]
              /\ p \in Live(f, s) <=> p \in Live(g, s)
  <2>1. <<s, p>> \notin ReadsOver(f, i)
    BY <1>9, <1>10
  <2>2. /\ Support(s, p) \notin A
        /\ c[Support(s, p)] = Clean(rel, g)[Support(s, p)]
        /\ p \in Live(f, s) <=> p \in Live(g, s)
    BY <1>1, <1>2, <2>1, UnprotectedFacet
  <2> QED
    BY <1>3, <2>2, NodeForms
<1>11. /\ asked \in SUBSET Live(g, s) /\ Live(g, s) # {} /\ asked = Asked(r, Live(g, s))
       /\ \A p \in asked : p \in Predicate /\ (r.all \/ p \in r.of)
  <2>1. CASE r.all = TRUE
    <3>1. Live(f, s) = Live(g, s)
      BY <1>8, <1>10, <2>1
    <3> QED
      BY <1>1, <1>2, <1>4, <1>7, <1>8, <2>1, <3>1 DEF Asked
  <2>2. CASE r.all = FALSE /\ r.of # {} /\ r.of \in SUBSET Predicate
    <3>1. asked = r.of /\ asked = Asked(r, Live(g, s))
      BY <1>4, <2>2 DEF Asked
    <3>2. \A p \in asked : p \in Live(g, s)
      BY <1>1, <1>2, <1>5, <1>7, <1>10, <2>2, <3>1
    <3> QED
      BY <2>2, <3>1, <3>2
  <2> QED
    BY <2>1, <2>2, RequestIs
<1>12. \A p \in asked : derived[Support(s, p)] = Clean(rel, g)[Support(s, p)]
  BY <1>10, <1>11
<1>13. Assembled(s, asked) = Truth(facts, s, asked)
  BY <1>1, <1>2, <1>11, <1>12, AssembledIs
<1>14. CleanComposed(s, r) = Truth(facts, s, asked)
  BY <1>1, <1>11, OracleIs
<1> QED
  BY <1>6, <1>13, <1>14 DEF Truth

\* A composed profile that is returned, in any phase of any maintenance, is the
\* one the facts give now, and no read ever misses a facet: an unprotected key
\* lies outside the region that is being rewritten, where the rebuilds before
\* and after the intent agree (compositional_profile.py:207,
\* normalized_membership.py:310).
THEOREM ComposedReadsHold ==
  ASSUME AddOnce
  PROVE  Spec => []ComposedReadsAreClean
<1>1. ProfileInv => ComposedReadsAreClean
  <2> SUFFICES ASSUME IntentsInv, IndexInv, CleanInv, release >= 15, NEW s \in Subject, NEW r \in Request
               PROVE  /\ Composed(s, r).kind # "no facet"
                      /\ (Composed(s, r).kind = "profile" \/ ~Unsettled) =>
                           Composed(s, r) = CleanComposed(s, r)
    BY DEF ProfileInv, ComposedReadsAreClean
  <2>1. release \in {15, 16}
    BY DEF IndexInv
  <2>2. CASE Unsettled
    <3>1. PICK f : Over(f)
      BY <2>2 DEF CleanInv, Unsettled, Unsettling
    <3> QED
      BY <2>1, <2>2, <3>1, UnsettledReads
  <2>3. CASE ~Unsettled
    <3>1. journal.phase \in {"none", "prepared", "repaired"}
      BY <2>3 DEF IntentsInv, JournalOK, NoIntent, Phase, Unsettled
    <3>2. derived = Clean(release, facts)
      BY <3>1 DEF CleanInv
    <3> QED
      BY <2>1, <2>3, <3>2, SettledReads
  <2> QED
    BY <2>2, <2>3
<1> QED
  BY <1>1, ProfileInvariance, PTL
=============================================================================
