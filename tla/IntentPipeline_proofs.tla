----------------------- MODULE IntentPipeline_proofs -----------------------
(***************************************************************************)
(* Proofs about IntentPipeline, and about the Materialization it maintains:*)
(* that the region an intent invalidates is large enough, so that          *)
(* repairing it gives what a full rebuild of the new facts would give.     *)
(* For any number of processes: types, and that an intent about to be      *)
(* applied finds the row it was admitted over.  For one process: that what *)
(* is derived is clean when no maintenance is under way, that reads are    *)
(* current, and that the queue implements IntentLog.                       *)
(***************************************************************************)
EXTENDS IntentPipeline, Integers, WellFoundedInduction, SequenceTheorems, FiniteSetTheorems,
        TLAPS

\* An intent as the queue keeps it, for facts that still hold the row it was
\* admitted over.
IsIntent(i) ==
  /\ i.index \in Entity
  /\ \/ i.op = "evidence"
     \/ i.op = "assertion" /\ i.new \in Row /\ i.old \in Row
     \/ i.op = "delete" /\ i.new = NoRow /\ i.old \in Row

Fits(f, i) ==
  /\ f \in Facts
  /\ IsIntent(i)
  /\ i.op # "evidence" => f.assertion[i.index] = i.old

-----------------------------------------------------------------------------
(* Subjects and their latest assertions *)

\* A set of entities has a last one.
LEMMA LastEntity ==
  ASSUME NEW T \in SUBSET Entity, T # {}
  PROVE  \E i \in T : \A j \in T : j <= i
<1> DEFINE n == EntityCount
           S == {m \in Nat : n - m \in T}
           R == OpToRel(<, Nat)
<1>0. n \in Nat /\ T \subseteq 0 .. n-1
  BY EntityAssumption DEF Entity
<1>1. S \subseteq Nat /\ S # {}
  <2>1. PICK i \in T : TRUE
    OBVIOUS
  <2>2. n - i \in Nat /\ n - (n - i) = i
    BY <1>0, <2>1
  <2> QED
    BY <2>1, <2>2
<1>2. IsWellFoundedOn(R, Nat)
  BY NatLessThanWellFounded DEF OpToRel
<1>3. PICK m \in S : \A k \in S : ~ (<<k, m>> \in R)
  <2> HIDE DEF R, S
  <2> QED
    BY <1>1, <1>2, WFMin
<1>4. \A k \in S : ~ (k < m)
  BY <1>3 DEF OpToRel
<1>5. ASSUME NEW j \in T
      PROVE  j <= n - m
  <2>1. n - j \in S
    BY <1>0, <1>5
  <2>2. ~ (n - j < m)
    BY <2>1, <1>4
  <2> QED
    BY <1>0, <2>2
<1> QED
  BY <1>5

LEMMA LatestIs ==
  ASSUME NEW f \in Facts, NEW s \in Subject, Held(f, s)
  PROVE  /\ Latest(f, s) \in Entity
         /\ f.assertion[Latest(f, s)].subject = s
<1> DEFINE T == {j \in Entity : f.assertion[j].subject = s}
<1>1. T # {}
  BY DEF Held
<1>2. \E i \in T : \A j \in T : j <= i
  BY <1>1, LastEntity
<1>3. Latest(f, s) \in T
  BY <1>2 DEF Latest
<1> QED
  BY <1>3

\* What a subject is said to be depends on which assertions are about it.
LEMMA LatestDepends ==
  ASSUME NEW f \in Facts, NEW g \in Facts, NEW s \in Subject,
         \A j \in Entity : f.assertion[j].subject = s <=> g.assertion[j].subject = s
  PROVE  (Held(f, s) <=> Held(g, s)) /\ Latest(f, s) = Latest(g, s)
<1>1. {j \in Entity : f.assertion[j].subject = s} = {j \in Entity : g.assertion[j].subject = s}
  OBVIOUS
<1>2. \A i : (\A j \in Entity : f.assertion[j].subject = s => j <= i)
               <=> (\A j \in Entity : g.assertion[j].subject = s => j <= i)
  OBVIOUS
<1>3. Held(f, s) <=> Held(g, s)
  BY DEF Held
<1> QED
  BY <1>1, <1>2, <1>3, Zenon DEF Latest

-----------------------------------------------------------------------------
(* The region an intent makes stale *)

\* One step along the edges of a clean materialization, from T.
LEMMA AlongClean ==
  ASSUME NEW f \in Facts, NEW T, NEW s \in Subject, Held(f, s)
  PROVE  LET l == Latest(f, s)
             A == Along(Clean(f), T)
         IN  /\ <<"profile", s>> \in A <=> <<"profile", s>> \in T \/ Canonical(l) \cap T # {}
             /\ <<"state", s>> \in A <=> <<"state", s>> \in T \/ <<"assertion", l>> \in T
             /\ <<"support", s>> \in A <=>
                  <<"support", s>> \in T \/ Canonical(l) \cap T # {} \/ <<"state", s>> \in T
             /\ <<"context", s>> \in A <=> <<"context", s>> \in T \/ <<"support", s>> \in T
             /\ \A x \in Canonical(l) : x \in A <=> x \in T
<1> DEFINE l == Latest(f, s)
           A == Along(Clean(f), T)
<1>1. ASSUME NEW k \in Kind
      PROVE  /\ <<k, s>> \in Node
             /\ Clean(f)[<<k, s>>].from = Dependencies(<<k, s>>, l)
  BY <1>1 DEF Node, Clean, FreshRow
<1>2. ASSUME NEW k \in Kind
      PROVE  <<k, s>> \in A <=> <<k, s>> \in T \/ Dependencies(<<k, s>>, l) \cap T # {}
  BY <1>1, <1>2 DEF Along
<1>3. /\ "profile" \in Kind /\ "state" \in Kind /\ "support" \in Kind /\ "context" \in Kind
      /\ Dependencies(<<"profile", s>>, l) = Canonical(l)
      /\ Dependencies(<<"state", s>>, l) = {<<"assertion", l>>}
      /\ Dependencies(<<"support", s>>, l) = Canonical(l) \cup {<<"state", s>>}
      /\ Dependencies(<<"context", s>>, l) = {<<"support", s>>}
  BY DEF Kind, Dependencies
<1>4. \A x \in Canonical(l) : x \notin Node
  BY DEF Canonical, Node, Kind
<1>5. \A x \in Canonical(l) : x \in A <=> x \in T
  BY <1>4 DEF Along
<1> HIDE DEF l, A
<1>6. /\ <<"profile", s>> \in A <=> <<"profile", s>> \in T \/ Canonical(l) \cap T # {}
      /\ <<"state", s>> \in A <=> <<"state", s>> \in T \/ {<<"assertion", l>>} \cap T # {}
      /\ <<"support", s>> \in A <=>
           <<"support", s>> \in T \/ (Canonical(l) \cup {<<"state", s>>}) \cap T # {}
      /\ <<"context", s>> \in A <=> <<"context", s>> \in T \/ {<<"support", s>>} \cap T # {}
  BY <1>2, <1>3
<1>7. /\ {<<"assertion", l>>} \cap T # {} <=> <<"assertion", l>> \in T
      /\ {<<"support", s>>} \cap T # {} <=> <<"support", s>> \in T
      /\ (Canonical(l) \cup {<<"state", s>>}) \cap T # {}
           <=> Canonical(l) \cap T # {} \/ <<"state", s>> \in T
  OBVIOUS
<1> QED
  BY <1>5, <1>6, <1>7 DEF l, A

\* Three steps along the edges reach the whole chain.
LEMMA ReachedClean ==
  ASSUME NEW f \in Facts, NEW T, NEW s \in Subject, Held(f, s)
  PROVE  LET l == Latest(f, s)
             R == Reached(Clean(f), T)
         IN  /\ <<"profile", s>> \in R <=> <<"profile", s>> \in T \/ Canonical(l) \cap T # {}
             /\ <<"state", s>> \in R <=> <<"state", s>> \in T \/ <<"assertion", l>> \in T
             /\ <<"support", s>> \in R <=>
                  <<"support", s>> \in T \/ Canonical(l) \cap T # {} \/ <<"state", s>> \in T
             /\ <<"context", s>> \in R <=>
                  \/ <<"context", s>> \in T \/ <<"support", s>> \in T
                  \/ Canonical(l) \cap T # {} \/ <<"state", s>> \in T
<1> DEFINE l == Latest(f, s)
           d == Clean(f)
           A1 == Along(d, T)
           A2 == Along(d, A1)
           A3 == Along(d, A2)
<1>1. ASSUME NEW k \in Kind
      PROVE  <<k, s>> \in Reached(d, T) <=> <<k, s>> \in A3
  <2>1. <<k, s>> \in Node /\ Exists(d, <<k, s>>)
    BY <1>1 DEF Node, Clean, Exists, FreshRow
  <2> QED
    BY <2>1 DEF Reached
<1>2. "profile" \in Kind /\ "state" \in Kind /\ "support" \in Kind /\ "context" \in Kind
  BY DEF Kind
<1> DEFINE Can(B) == Canonical(l) \cap B # {}
           Asr(B) == <<"assertion", l>> \in B
           Step(B, C) ==
             /\ <<"profile", s>> \in C <=> <<"profile", s>> \in B \/ Can(B)
             /\ <<"state", s>> \in C <=> <<"state", s>> \in B \/ Asr(B)
             /\ <<"support", s>> \in C <=> <<"support", s>> \in B \/ Can(B) \/ <<"state", s>> \in B
             /\ <<"context", s>> \in C <=> <<"context", s>> \in B \/ <<"support", s>> \in B
             /\ Can(C) <=> Can(B)
             /\ Asr(C) <=> Asr(B)
             /\ Asr(B) => Can(B)
<1>3. ASSUME NEW B
      PROVE  Step(B, Along(d, B))
  <2>1. \A x \in Canonical(l) : x \in Along(d, B) <=> x \in B
    BY AlongClean
  <2>2. <<"assertion", l>> \in Canonical(l)
    BY DEF Canonical
  <2>3. (Can(Along(d, B)) <=> Can(B)) /\ (Asr(Along(d, B)) <=> Asr(B)) /\ (Asr(B) => Can(B))
    <3> HIDE DEF l, d
    <3> QED
      BY <2>1, <2>2
  <2> QED
    BY <2>3, AlongClean
<1>4. Step(T, A1) /\ Step(A1, A2) /\ Step(A2, A3)
  BY <1>3
<1> HIDE DEF A1, A2, A3, d, l
<1>5. /\ <<"profile", s>> \in A3 <=> <<"profile", s>> \in T \/ Can(T)
      /\ <<"state", s>> \in A3 <=> <<"state", s>> \in T \/ Asr(T)
      /\ <<"support", s>> \in A3 <=> <<"support", s>> \in T \/ Can(T) \/ <<"state", s>> \in T
      /\ <<"context", s>> \in A3 <=>
           <<"context", s>> \in T \/ <<"support", s>> \in T \/ Can(T) \/ <<"state", s>> \in T
  <2> HIDE DEF Can, Asr
  <2> QED
    BY <1>4
<1> QED
  BY <1>1, <1>2, <1>5 DEF A1, A2, A3, d, l

\* The nodes an intent makes stale, by their kind and subject.
Region(f, i) ==
  {n \in Node :
     \/ /\ i.op = "evidence"
        /\ n[1] # "state" /\ Held(f, n[2]) /\ Latest(f, n[2]) = i.index
     \/ /\ i.op = "assertion"
        /\ n[2] \in {i.old.subject, i.new.subject} /\ (Moves(i) \/ n[1] # "profile")
     \/ i.op = "delete" /\ n[2] = i.old.subject}

\* What the walk starts from, as ReachedClean asks.
LEMMA SeedsAre ==
  ASSUME NEW f, NEW i, Fits(f, i), NEW s \in Subject, NEW l \in Entity
  PROVE  LET T == Seeds(i)
         IN  /\ Canonical(l) \cap T # {} <=> i.op = "evidence" /\ l = i.index
             /\ <<"assertion", l>> \notin T
             /\ <<"state", s>> \in T <=>
                  \/ i.op = "assertion" /\ s \in {i.old.subject, i.new.subject}
                  \/ i.op = "delete" /\ s = i.old.subject
             /\ <<"profile", s>> \in T <=>
                  \/ i.op = "assertion" /\ s \in {i.old.subject, i.new.subject} /\ Moves(i)
                  \/ i.op = "delete" /\ s = i.old.subject
             /\ <<"support", s>> \notin T /\ <<"context", s>> \notin T
<1>1. CASE i.op = "evidence"
  <2>1. Seeds(i) = {<<"evidence", i.index>>}
    BY <1>1 DEF Seeds
  <2>2. Canonical(l) \cap Seeds(i) # {} <=> l = i.index
    <3>1. Canonical(l) \cap Seeds(i) # {} <=> <<"evidence", i.index>> \in Canonical(l)
      BY <2>1
    <3>2. <<"evidence", i.index>> \in Canonical(l) <=> l = i.index
      BY DEF Canonical, Fits, IsIntent
    <3> QED
      BY <3>1, <3>2
  <2>3. /\ <<"assertion", l>> \notin Seeds(i)
        /\ \A k \in Kind : <<k, s>> \notin Seeds(i)
    BY <2>1 DEF Kind
  <2> QED
    BY <1>1, <2>2, <2>3 DEF Kind
<1>2. CASE i.op = "assertion"
  <2>1. Seeds(i) = (IF Moves(i) THEN {"state", "profile"} ELSE {"state"})
                     \X {i.new.subject, i.old.subject}
    BY <1>2 DEF Seeds
  <2> QED
    BY <1>2, <2>1 DEF Canonical
<1>3. CASE i.op = "delete"
  <2>1. Seeds(i) = {"state", "profile"} \X {i.old.subject}
    BY <1>3 DEF Seeds
  <2> QED
    BY <1>3, <2>1 DEF Canonical
<1> QED
  BY <1>1, <1>2, <1>3 DEF Fits, IsIntent

LEMMA AffectedTyped ==
  ASSUME NEW d, NEW i, IsIntent(i)
  PROVE  Affected(d, i) \subseteq Node
<1>1. i.op = "assertion" => i.new.subject \in Subject
  BY DEF IsIntent, Row
<1>2. Growth(d, i) \subseteq Node
  BY <1>1 DEF Growth, Moves, Node
<1>3. Reached(d, Seeds(i)) \subseteq Node
  BY DEF Reached
<1> QED
  BY <1>2, <1>3 DEF Affected

\* The region is what the walk and the growth of a move find together.
LEMMA AffectedIs ==
  ASSUME NEW f, NEW i, Fits(f, i)
  PROVE  Affected(Clean(f), i) = Region(f, i)
<1> DEFINE d == Clean(f)
<1>1. f \in Facts
  BY DEF Fits
<1>2. Affected(d, i) \subseteq Node
  BY AffectedTyped DEF Fits
<1>3. ASSUME NEW k \in Kind, NEW s \in Subject, Held(f, s)
      PROVE  <<k, s>> \in Affected(d, i) <=> <<k, s>> \in Region(f, i)
  <2> DEFINE l == Latest(f, s)
  <2>1. l \in Entity
    BY <1>1, <1>3, LatestIs
  <2>2. <<k, s>> \in Node /\ Exists(d, <<k, s>>)
    BY <1>3 DEF Node, Clean, Exists, FreshRow
  <2>3. <<k, s>> \notin Growth(d, i)
    BY <2>2 DEF Growth
  <2>4. <<k, s>> \in Affected(d, i) <=> <<k, s>> \in Reached(d, Seeds(i))
    BY <2>3 DEF Affected
  <2>5. <<k, s>> \in Reached(d, Seeds(i)) <=>
          \/ i.op = "evidence" /\ l = i.index /\ k # "state"
          \/ i.op = "assertion" /\ s \in {i.old.subject, i.new.subject}
                                /\ (Moves(i) \/ k # "profile")
          \/ i.op = "delete" /\ s = i.old.subject
    <3>1. k \in {"profile", "state", "support", "context"}
      BY <1>3 DEF Kind
    <3> DEFINE T == Seeds(i)
               R == Reached(d, T)
               C == Canonical(l) \cap T # {}
    <3>2. /\ <<"profile", s>> \in R <=> <<"profile", s>> \in T \/ C
          /\ <<"state", s>> \in R <=> <<"state", s>> \in T \/ <<"assertion", l>> \in T
          /\ <<"support", s>> \in R <=> <<"support", s>> \in T \/ C \/ <<"state", s>> \in T
          /\ <<"context", s>> \in R <=>
               <<"context", s>> \in T \/ <<"support", s>> \in T \/ C \/ <<"state", s>> \in T
      BY <1>1, <1>3, ReachedClean
    <3>3. /\ C <=> i.op = "evidence" /\ l = i.index
          /\ <<"assertion", l>> \notin T
          /\ <<"state", s>> \in T <=>
               \/ i.op = "assertion" /\ s \in {i.old.subject, i.new.subject}
               \/ i.op = "delete" /\ s = i.old.subject
          /\ <<"profile", s>> \in T <=>
               \/ i.op = "assertion" /\ s \in {i.old.subject, i.new.subject} /\ Moves(i)
               \/ i.op = "delete" /\ s = i.old.subject
          /\ <<"support", s>> \notin T /\ <<"context", s>> \notin T
      BY <2>1, SeedsAre
    <3> HIDE DEF T, R, C, l, d
    <3>4. i.op \in {"evidence", "assertion", "delete"}
      BY DEF Fits, IsIntent
    <3>5. CASE k = "profile"
      BY <3>2, <3>3, <3>4, <3>5 DEF R, T
    <3>6. CASE k = "state"
      BY <3>2, <3>3, <3>4, <3>6 DEF R, T
    <3>7. CASE k = "support"
      BY <3>2, <3>3, <3>4, <3>7 DEF R, T
    <3>8. CASE k = "context"
      BY <3>2, <3>3, <3>4, <3>8 DEF R, T
    <3> QED
      BY <3>1, <3>5, <3>6, <3>7, <3>8
  <2> QED
    BY <1>3, <2>2, <2>4, <2>5 DEF Region
<1>4. ASSUME NEW k \in Kind, NEW s \in Subject, ~ Held(f, s)
      PROVE  <<k, s>> \in Affected(d, i) <=> <<k, s>> \in Region(f, i)
  <2>1. <<k, s>> \in Node /\ ~ Exists(d, <<k, s>>)
    BY <1>4 DEF Node, Clean, Exists, NoNode
  <2>2. <<k, s>> \in Affected(d, i) <=> Moves(i) /\ s = i.new.subject
    BY <1>4, <2>1 DEF Affected, Reached, Growth
  <2>3. i.op # "evidence" => s # i.old.subject
    <3>1. i.op # "evidence" => i.index \in Entity /\ f.assertion[i.index].subject = i.old.subject
      BY DEF Fits, IsIntent
    <3> QED
      BY <1>4, <3>1 DEF Held
  <2> QED
    BY <1>4, <2>1, <2>2, <2>3 DEF Region, Moves
<1>5. \A n \in Node : n \in Affected(d, i) <=> n \in Region(f, i)
  BY <1>3, <1>4 DEF Node
<1> QED
  BY <1>2, <1>5 DEF Region

-----------------------------------------------------------------------------
(* What an intent leaves as it was *)

LEMMA EffectTyped ==
  ASSUME NEW f, NEW i, Fits(f, i)
  PROVE  Effect(f, i) \in Facts
BY DEF Fits, IsIntent, Effect, Facts, Payload

\* A subject that is not in the region keeps its assertions.
LEMMA AboutOthers ==
  ASSUME NEW f, NEW i, Fits(f, i), NEW s \in Subject,
         i.op = "assertion" => s \notin {i.old.subject, i.new.subject},
         i.op = "delete" => s # i.old.subject
  PROVE  LET g == Effect(f, i)
         IN  /\ Held(f, s) <=> Held(g, s)
             /\ Latest(f, s) = Latest(g, s)
             /\ Held(f, s) => g.assertion[Latest(f, s)] = f.assertion[Latest(f, s)]
<1> DEFINE g == Effect(f, i)
<1>1. f \in Facts /\ g \in Facts
  BY EffectTyped DEF Fits
<1>2. CASE i.op = "evidence"
  <2>1. g.assertion = f.assertion
    BY <1>1, <1>2 DEF Effect, Facts
  <2> QED
    BY <1>1, <1>2, <2>1, LatestDepends
<1>3. CASE i.op # "evidence"
  <2>1. /\ i.index \in Entity
        /\ f.assertion[i.index].subject # s
        /\ i.new.subject # s
    BY <1>3, NoneAssumption DEF Fits, IsIntent, NoRow
  <2>2. g.assertion = [f.assertion EXCEPT ![i.index] = i.new]
    BY <1>1, <1>3 DEF Effect, Facts
  <2>3. \A j \in Entity : IF j = i.index THEN g.assertion[j] = i.new
                                         ELSE g.assertion[j] = f.assertion[j]
    BY <1>1, <2>2 DEF Facts
  <2>4. (Held(f, s) <=> Held(g, s)) /\ Latest(f, s) = Latest(g, s)
    BY <1>1, <2>1, <2>3, LatestDepends
  <2>5. Held(f, s) => Latest(f, s) \in Entity /\ f.assertion[Latest(f, s)].subject = s
    BY <1>1, LatestIs
  <2> QED
    BY <2>1, <2>3, <2>4, <2>5
<1> QED
  BY <1>2, <1>3

\* What is not made stale is what the new facts say too.
LEMMA OutsideIsUnchanged ==
  ASSUME NEW f, NEW i, Fits(f, i), NEW n \in Node, n \notin Region(f, i)
  PROVE  Clean(Effect(f, i))[n] = Clean(f)[n]
<1> DEFINE g == Effect(f, i)
<1>1. PICK k \in Kind, s \in Subject : n = <<k, s>>
  BY DEF Node
<1>2. f \in Facts /\ g \in Facts
  BY EffectTyped DEF Fits
<1>3. SUFFICES /\ Held(f, s) <=> Held(g, s)
               /\ Held(f, s) => /\ Latest(f, s) = Latest(g, s)
                                /\ Value(f, k, Latest(f, s)) = Value(g, k, Latest(f, s))
  BY <1>1 DEF Clean
<1>4. CASE i.op = "evidence"
  <2>1. /\ Held(f, s) <=> Held(g, s)
        /\ Latest(f, s) = Latest(g, s)
        /\ Held(f, s) => g.assertion[Latest(f, s)] = f.assertion[Latest(f, s)]
    BY <1>4, AboutOthers
  <2>2. Held(f, s) /\ k # "state" => Latest(f, s) # i.index
    BY <1>1, <1>4 DEF Region
  <2>3. Held(f, s) => Latest(f, s) \in Entity
    BY <1>2, LatestIs
  <2>4. Held(f, s) /\ k # "state" => g.evidence[Latest(f, s)] = f.evidence[Latest(f, s)]
    BY <1>2, <1>4, <2>2, <2>3 DEF Effect, Facts
  <2> QED
    BY <2>1, <2>4 DEF Value
<1>5. CASE i.op # "evidence"
  <2>1. g.evidence = f.evidence
    BY <1>2, <1>5 DEF Effect, Facts
  <2>2. CASE /\ i.op = "assertion" => s \notin {i.old.subject, i.new.subject}
             /\ i.op = "delete" => s # i.old.subject
    <3>1. /\ Held(f, s) <=> Held(g, s)
          /\ Latest(f, s) = Latest(g, s)
          /\ Held(f, s) => g.assertion[Latest(f, s)] = f.assertion[Latest(f, s)]
      BY <2>2, AboutOthers
    <3> QED
      BY <2>1, <3>1 DEF Value
  <2>3. CASE i.op = "assertion" /\ s \in {i.old.subject, i.new.subject}
    \* A new object: only the profile is left out.
    <3>1. k = "profile" /\ i.new.subject = i.old.subject /\ s = i.old.subject
      BY <1>1, <2>3 DEF Region, Moves
    <3>2. i.index \in Entity /\ f.assertion[i.index].subject = i.old.subject
      BY <2>3 DEF Fits, IsIntent
    <3>3. g.assertion = [f.assertion EXCEPT ![i.index] = i.new]
      BY <1>2, <1>5 DEF Effect, Facts
    <3>4. \A j \in Entity : f.assertion[j].subject = s <=> g.assertion[j].subject = s
      BY <1>2, <3>1, <3>2, <3>3 DEF Facts
    <3>5. (Held(f, s) <=> Held(g, s)) /\ Latest(f, s) = Latest(g, s)
      BY <1>2, <3>4, LatestDepends
    <3> QED
      BY <2>1, <3>1, <3>5 DEF Value
  <2>4. CASE i.op = "delete" /\ s = i.old.subject
    BY <1>1, <2>4 DEF Region
  <2> QED
    BY <2>2, <2>3, <2>4
<1> QED
  BY <1>4, <1>5

-----------------------------------------------------------------------------
(* Repair *)

\* The shape of a row, whatever it says.
IsRow(r) == r = [status |-> r.status, value |-> r.value, from |-> r.from]

HasRows(d) == d = [n \in Node |-> d[n]] /\ \A n \in Node : IsRow(d[n])

LEMMA CleanHasRows == \A f : HasRows(Clean(f))
BY DEF HasRows, IsRow, Clean, FreshRow, NoNode

LEMMA RebuiltIsRow ==
  ASSUME NEW d, NEW g, NEW n \in Node
  PROVE  IsRow(Rebuilt(d, g, n))
<1>1. CASE n[1] = "context"
  BY <1>1 DEF Rebuilt, IsRow, FreshRow, NoNode
<1>2. CASE n[1] # "context"
  BY <1>2 DEF Rebuilt, IsRow, FreshRow, NoNode
<1> QED
  BY <1>1, <1>2

\* One level of repair rebuilds its nodes and leaves alone what rests on none.
LEMMA LevelGives ==
  ASSUME NEW d, HasRows(d), NEW g, NEW nodes
  PROVE  LET e == Level(d, g, nodes)
         IN  /\ HasRows(e)
             /\ \A n \in Node \cap nodes : e[n] = Rebuilt(d, g, n)
             /\ \A n \in Node \ nodes : e[n].status = d[n].status
             /\ \A n \in Node \ nodes : d[n].from \cap nodes = {} => e[n] = d[n]
<1> DEFINE e == Level(d, g, nodes)
           gone == {m \in nodes : Rebuilt(d, g, m) = NoNode}
<1>1. e = [n \in Node |-> e[n]]
  BY DEF Level
<1>2. ASSUME NEW n \in Node, n \in nodes
      PROVE  e[n] = Rebuilt(d, g, n) /\ IsRow(e[n])
  <2>1. e[n] = Rebuilt(d, g, n)
    BY <1>2 DEF Level
  <2> QED
    BY <2>1, RebuiltIsRow
<1>3. ASSUME NEW n \in Node, n \notin nodes
      PROVE  /\ IsRow(e[n])
             /\ e[n].status = d[n].status
             /\ d[n].from \cap nodes = {} => e[n] = d[n]
  <2>1. e[n] = [d[n] EXCEPT !.from = d[n].from \ gone]
    BY <1>3 DEF Level
  <2>2. e[n] = [status |-> d[n].status, value |-> d[n].value, from |-> d[n].from \ gone]
    BY <2>1 DEF HasRows, IsRow
  <2>3. d[n].from \cap nodes = {} => d[n].from \ gone = d[n].from
    OBVIOUS
  <2>4. d[n] = [status |-> d[n].status, value |-> d[n].value, from |-> d[n].from]
    BY DEF HasRows, IsRow
  <2> HIDE DEF e, gone
  <2> QED
    BY <2>2, <2>3, <2>4 DEF IsRow
<1> HIDE DEF e
<1>4. HasRows(e)
  BY <1>1, <1>2, <1>3 DEF HasRows
<1> QED
  BY <1>2, <1>3, <1>4 DEF e

\* Between invalidation and repair: what is outside the region is as it was,
\* what is inside is there and not fresh.
Damaged(d, f, A) ==
  /\ HasRows(d)
  /\ \A n \in Node \ A : d[n] = Clean(f)[n]
  /\ \A n \in A : d[n].status \in {"invalid", "rebuilding"}

\* Invalidation damages the region and nothing else.
LEMMA InvalidationDamages ==
  ASSUME NEW f, NEW A \in SUBSET Node, NEW d,
         d = Clean(f) \/ Damaged(d, f, A)
  PROVE  /\ Damaged(Invalidated(d, A), f, A)
         /\ \A n \in A : Invalidated(d, A)[n].status = "invalid"
<1> DEFINE e == Invalidated(d, A)
<1>1. HasRows(d) /\ \A n \in Node \ A : d[n] = Clean(f)[n]
  BY CleanHasRows DEF Damaged
<1>2. ASSUME NEW n \in A
      PROVE  IsRow(e[n]) /\ e[n].status = "invalid"
  <2>1. d[n] = [status |-> d[n].status, value |-> d[n].value, from |-> d[n].from]
    BY <1>1 DEF HasRows, IsRow
  <2>2. e[n] = [d[n] EXCEPT !.status = "invalid"]
    BY DEF Invalidated
  <2>3. e[n] = [status |-> "invalid", value |-> d[n].value, from |-> d[n].from]
    BY <2>1, <2>2
  <2> HIDE DEF e
  <2> QED
    BY <2>3 DEF IsRow
<1>3. \A n \in Node \ A : e[n] = d[n]
  BY DEF Invalidated
<1>4. e = [n \in Node |-> e[n]]
  BY DEF Invalidated
<1> HIDE DEF e
<1>5. \A n \in Node : IsRow(e[n])
  BY <1>1, <1>2, <1>3 DEF HasRows
<1>6. HasRows(e)
  BY <1>4, <1>5 DEF HasRows
<1>7. Damaged(e, f, A)
  BY <1>1, <1>2, <1>3, <1>6 DEF Damaged
<1> QED
  BY <1>2, <1>7 DEF e

\* Where the nodes of a clean materialization come from.
LEMMA CleanFrom ==
  ASSUME NEW g, NEW s \in Subject
  PROVE  /\ Clean(g)[<<"profile", s>>].from \cap Node = {}
         /\ Clean(g)[<<"state", s>>].from \cap Node = {}
         /\ Clean(g)[<<"support", s>>].from \cap Node \subseteq {<<"state", s>>}
         /\ Clean(g)[<<"context", s>>].from \cap Node \subseteq {<<"support", s>>}
<1> DEFINE l == Latest(g, s)
<1>1. \A k \in Kind : Clean(g)[<<k, s>>].from \subseteq Dependencies(<<k, s>>, l)
  BY DEF Clean, FreshRow, NoNode, Node
<1>2. Canonical(l) \cap Node = {} /\ {<<"assertion", l>>} \cap Node = {}
  BY DEF Canonical, Node, Kind
<1>3. /\ "profile" \in Kind /\ "state" \in Kind /\ "support" \in Kind /\ "context" \in Kind
      /\ Dependencies(<<"profile", s>>, l) = Canonical(l)
      /\ Dependencies(<<"state", s>>, l) = {<<"assertion", l>>}
      /\ Dependencies(<<"support", s>>, l) = Canonical(l) \cup {<<"state", s>>}
      /\ Dependencies(<<"context", s>>, l) = {<<"support", s>>}
  BY DEF Kind, Dependencies
<1> HIDE DEF l
<1>4. /\ Clean(g)[<<"profile", s>>].from \subseteq Canonical(l)
      /\ Clean(g)[<<"state", s>>].from \subseteq {<<"assertion", l>>}
      /\ Clean(g)[<<"support", s>>].from \subseteq Canonical(l) \cup {<<"state", s>>}
      /\ Clean(g)[<<"context", s>>].from \subseteq {<<"support", s>>}
  BY <1>1, <1>3
<1> QED
  BY <1>2, <1>4

\* Repairing what an intent has damaged gives a full rebuild of the new facts.
THEOREM RepairIsClean ==
  ASSUME NEW f, NEW i, Fits(f, i), NEW d, Damaged(d, f, Region(f, i))
  PROVE  Repaired(d, Effect(f, i), Region(f, i)) = Clean(Effect(f, i))
<1> DEFINE g == Effect(f, i)
           A == Region(f, i)
           In(K) == OfKind(d, A, K)
           d1 == Level(d, g, In({"profile", "state"}))
           d2 == Level(d1, g, In({"support"}))
           d3 == Level(d2, g, In({"context"}))
<1>1. \A K : In(K) = {n \in A : n[1] \in K}
  BY DEF Damaged, OfKind, Exists
<1>2. A \subseteq Node
  BY DEF Region
<1>3. \A n \in Node \ A : d[n] = Clean(g)[n]
  BY OutsideIsUnchanged DEF Damaged
<1>4. HasRows(d)
  BY DEF Damaged
<1>5. HasRows(d1)
  BY <1>4, LevelGives
<1>6. HasRows(d2)
  BY <1>5, LevelGives
<1>7. HasRows(d3)
  BY <1>6, LevelGives
<1>8. SUFFICES ASSUME NEW s \in Subject
               PROVE  \A k \in Kind : d3[<<k, s>>] = Clean(g)[<<k, s>>]
  <2>1. Repaired(d, g, A) = d3
    BY DEF Repaired
  <2>2. d3 = [n \in Node |-> d3[n]] /\ Clean(g) = [n \in Node |-> Clean(g)[n]]
    BY <1>7, CleanHasRows DEF HasRows
  <2>3. \A n \in Node : d3[n] = Clean(g)[n]
    BY <1>8 DEF Node
  <2> QED
    BY <2>1, <2>2, <2>3
<1> DEFINE profile == <<"profile", s>>
           state   == <<"state", s>>
           support == <<"support", s>>
           context == <<"context", s>>
<1>9. profile \in Node /\ state \in Node /\ support \in Node /\ context \in Node
  BY DEF Node, Kind
\* A stale state makes its support stale, and that its context.
<1>10. (state \in A => support \in A) /\ (support \in A <=> context \in A)
  BY DEF Region, Node, Kind
<1> DEFINE N1 == In({"profile", "state"})
           N2 == In({"support"})
           N3 == In({"context"})
<1>11. /\ profile \in N1 <=> profile \in A
       /\ state \in N1 <=> state \in A
       /\ support \notin N1 /\ context \notin N1
       /\ support \in N2 <=> support \in A
       /\ profile \notin N2 /\ state \notin N2 /\ context \notin N2
       /\ context \in N3 <=> context \in A
       /\ profile \notin N3 /\ state \notin N3 /\ support \notin N3
       /\ N1 \subseteq Node /\ N2 \subseteq Node /\ N3 \subseteq Node
  BY <1>1, <1>2
<1>12. /\ Clean(g)[profile].from \cap Node = {}
       /\ Clean(g)[state].from \cap Node = {}
       /\ Clean(g)[support].from \cap Node \subseteq {state}
       /\ Clean(g)[context].from \cap Node \subseteq {support}
  BY CleanFrom
<1> HIDE DEF A, In, N1, N2, N3
\* Profiles and states rest on the facts alone.
<1>13. \A e : Rebuilt(e, g, profile) = Clean(g)[profile] /\ Rebuilt(e, g, state) = Clean(g)[state]
  BY <1>9 DEF Rebuilt, Clean
<1>14. \A e : Fresh(e, state) <=> Held(g, s)
                => Rebuilt(e, g, support) = Clean(g)[support]
  BY <1>9 DEF Rebuilt, Clean, Base
<1>15. Fresh(Clean(g), state) <=> Held(g, s)
  BY <1>9 DEF Fresh, Clean, FreshRow, NoNode
<1>16. \A e : e[support] = Clean(g)[support] => Rebuilt(e, g, context) = Clean(g)[context]
  <2> SUFFICES ASSUME NEW e, e[support] = Clean(g)[support]
               PROVE  Rebuilt(e, g, context) = Clean(g)[context]
    OBVIOUS
  <2>1. context[1] = "context" /\ context[2] = s /\ Base(context) = support
    BY DEF Base
  <2>2. Rebuilt(e, g, context) = IF Fresh(e, support) THEN FreshRow(e[support].value, {support})
                                                     ELSE NoNode
    BY <2>1 DEF Rebuilt
  <2>3. CASE Held(g, s)
    <3>1. PICK l : l = Latest(g, s)
      OBVIOUS
    <3>2. Value(g, "support", l) = Value(g, "context", l)
      BY DEF Value
    <3>3. /\ Clean(g)[support] = FreshRow(Value(g, "support", l), Dependencies(support, l))
          /\ Clean(g)[context] = FreshRow(Value(g, "context", l), {support})
      BY <1>9, <2>3, <3>1 DEF Clean, Dependencies
    <3> QED
      BY <2>2, <3>2, <3>3 DEF Fresh, FreshRow
  <2>4. CASE ~Held(g, s)
    <3>1. Clean(g)[support] = NoNode /\ Clean(g)[context] = NoNode
      BY <1>9, <2>4 DEF Clean
    <3> QED
      BY <2>2, <3>1 DEF Fresh, NoNode
  <2> QED
    BY <2>3, <2>4
<1> DEFINE Gives(e, e2, N) ==
             /\ \A n \in Node \cap N : e2[n] = Rebuilt(e, g, n)
             /\ \A n \in Node \ N : e2[n].status = e[n].status
             /\ \A n \in Node \ N : e[n].from \cap N = {} => e2[n] = e[n]
<1>17. Gives(d, d1, N1) /\ Gives(d1, d2, N2) /\ Gives(d2, d3, N3)
  BY <1>4, <1>5, <1>6, LevelGives DEF N1, N2, N3
<1> HIDE DEF d1, d2, d3, g
<1>18. /\ d1[profile] = Clean(g)[profile] /\ d1[state] = Clean(g)[state]
       /\ support \notin A => d1[support] = Clean(g)[support]
       /\ context \notin A => d1[context] = Clean(g)[context]
  <2>1. profile \notin A => d1[profile] = Clean(g)[profile]
    BY <1>3, <1>9, <1>11, <1>12, <1>17
  <2>2. state \notin A => d1[state] = Clean(g)[state]
    BY <1>3, <1>9, <1>11, <1>12, <1>17
  <2>3. /\ profile \in A => d1[profile] = Clean(g)[profile]
        /\ state \in A => d1[state] = Clean(g)[state]
    BY <1>9, <1>11, <1>13, <1>17
  <2>4. support \notin A => d1[support] = Clean(g)[support]
    BY <1>3, <1>9, <1>10, <1>11, <1>12, <1>17
  <2>5. context \notin A => d1[context] = Clean(g)[context]
    BY <1>3, <1>9, <1>10, <1>11, <1>12, <1>17
  <2> QED
    BY <2>1, <2>2, <2>3, <2>4, <2>5
<1>19. /\ d2[profile] = Clean(g)[profile] /\ d2[state] = Clean(g)[state]
       /\ d2[support] = Clean(g)[support]
       /\ context \notin A => d2[context] = Clean(g)[context]
  <2>1. d2[profile] = Clean(g)[profile] /\ d2[state] = Clean(g)[state]
    BY <1>9, <1>11, <1>12, <1>17, <1>18
  <2>2. Fresh(d1, state) <=> Held(g, s)
    BY <1>15, <1>18 DEF Fresh
  <2>3. support \in A => d2[support] = Clean(g)[support]
    BY <1>9, <1>11, <1>14, <1>17, <2>2
  <2>4. support \notin A => d2[support] = Clean(g)[support]
    BY <1>9, <1>11, <1>12, <1>17, <1>18
  <2>5. context \notin A => d2[context] = Clean(g)[context]
    BY <1>9, <1>10, <1>11, <1>12, <1>17, <1>18
  <2> QED
    BY <2>1, <2>3, <2>4, <2>5
<1>20. /\ d3[profile] = Clean(g)[profile] /\ d3[state] = Clean(g)[state]
       /\ d3[support] = Clean(g)[support] /\ d3[context] = Clean(g)[context]
  <2>1. /\ d3[profile] = Clean(g)[profile] /\ d3[state] = Clean(g)[state]
        /\ d3[support] = Clean(g)[support]
    BY <1>9, <1>11, <1>12, <1>17, <1>19
  <2>2. context \in A => d3[context] = Clean(g)[context]
    BY <1>9, <1>11, <1>16, <1>17, <1>19
  <2>3. context \notin A => d3[context] = Clean(g)[context]
    BY <1>9, <1>11, <1>12, <1>17, <1>19
  <2> QED
    BY <2>1, <2>2, <2>3
<1> QED
  BY <1>20 DEF Kind

-----------------------------------------------------------------------------
(* Types *)

LEMMA FirstFactsTyped == FirstFacts \in Facts
BY EntityAssumption, ObjectAssumption DEF FirstFacts, Facts, Payload, Row

LEMMA ValueTyped ==
  ASSUME NEW f \in Facts, NEW k, NEW l \in Entity,
         f.assertion[l].subject \in Subject
  PROVE  Value(f, k, l) \in [assertion : Entity \cup {None}, object : Object \cup {None},
                             payload : Payload \cup {None}]
<1>1. f.assertion[l].object \in Object \cup {None} /\ f.evidence[l] \in Payload
  BY DEF Facts, Row, NoRow
<1> QED
  BY <1>1 DEF Value

LEMMA DependenciesTyped ==
  ASSUME NEW n \in Node, NEW l \in Entity
  PROVE  Dependencies(n, l) \subseteq Source
<1>1. PICK k \in Kind, s \in Subject : n = <<k, s>>
  BY DEF Node
<1>2. Canonical(l) \subseteq Source /\ <<"assertion", l>> \in Source
  BY DEF Canonical, Source
<1>3. \A m \in Kind : <<m, s>> \in Source
  BY DEF Source
<1> QED
  BY <1>1, <1>2, <1>3 DEF Dependencies, Kind

LEMMA NothingTyped == NoNode \in NodeRow
BY DEF NoNode, NodeRow, Nothing

LEMMA FreshTyped ==
  ASSUME NEW f \in Facts, NEW n \in Node, Held(f, n[2])
  PROVE  FreshRow(Value(f, n[1], Latest(f, n[2])), Dependencies(n, Latest(f, n[2]))) \in NodeRow
<1>1. n[2] \in Subject
  BY DEF Node
<1>2. Latest(f, n[2]) \in Entity /\ f.assertion[Latest(f, n[2])].subject \in Subject
  BY <1>1, LatestIs
<1>3. Dependencies(n, Latest(f, n[2])) \subseteq Source
  BY <1>2, DependenciesTyped
<1> QED
  BY <1>2, <1>3, ValueTyped DEF FreshRow, NodeRow

LEMMA CleanTyped ==
  ASSUME NEW f \in Facts
  PROVE  Clean(f) \in [Node -> NodeRow]
BY FreshTyped, NothingTyped DEF Clean

LEMMA RebuiltTyped ==
  ASSUME NEW d \in [Node -> NodeRow], NEW f \in Facts, NEW n \in Node
  PROVE  Rebuilt(d, f, n) \in NodeRow
<1>1. CASE n[1] = "context"
  <2>1. Base(n) \in Node /\ Base(n) \in Source
    BY <1>1 DEF Base, Node, Kind, Source
  <2>2. FreshRow(d[Base(n)].value, {Base(n)}) \in NodeRow
    BY <2>1 DEF FreshRow, NodeRow
  <2> QED
    BY <1>1, <2>2, NothingTyped DEF Rebuilt
<1>2. CASE n[1] # "context"
  BY <1>2, FreshTyped, NothingTyped DEF Rebuilt
<1> QED
  BY <1>1, <1>2

LEMMA LevelTyped ==
  ASSUME NEW d \in [Node -> NodeRow], NEW f \in Facts, NEW nodes
  PROVE  Level(d, f, nodes) \in [Node -> NodeRow]
<1>1. ASSUME NEW n \in Node, NEW S
      PROVE  [d[n] EXCEPT !.from = @ \ S] \in NodeRow
  BY DEF NodeRow
<1> QED
  BY <1>1, RebuiltTyped DEF Level

LEMMA RepairedTyped ==
  ASSUME NEW d \in [Node -> NodeRow], NEW f \in Facts, NEW nodes
  PROVE  Repaired(d, f, nodes) \in [Node -> NodeRow]
BY LevelTyped DEF Repaired

LEMMA InvalidatedTyped ==
  ASSUME NEW d \in [Node -> NodeRow], NEW nodes
  PROVE  Invalidated(d, nodes) \in [Node -> NodeRow]
BY DEF Invalidated, NodeRow

-----------------------------------------------------------------------------
(* The queue *)

Intents == \A n \in DOMAIN queue : IsIntent(queue[n])

TypedInv == TypeOK /\ Intents

LEMMA KeyTyped ==
  ASSUME NEW i, IsIntent(i)
  PROVE  Key(i) \in WriteKey
BY DEF IsIntent, Key, WriteKey

LEMMA ReadKeysTyped ==
  ASSUME facts \in Facts, NEW i, IsIntent(i)
  PROVE  ReadKeys(i) \subseteq Subject
<1>1. CASE i.op = "evidence"
  BY <1>1 DEF IsIntent, ReadKeys, Facts, Row, NoRow
<1>2. CASE i.op = "assertion"
  BY <1>2 DEF IsIntent, ReadKeys, Row
<1>3. CASE i.op = "delete"
  BY <1>3 DEF IsIntent, ReadKeys, Row
<1> QED
  BY <1>1, <1>2, <1>3 DEF IsIntent

\* A client asks for an intent over the row it sees.
Asked(i) ==
  /\ IsIntent(i)
  /\ i.new \in Row \cup {NoRow} /\ i.old \in Row \cup {NoRow}
  /\ i.op # "evidence" => facts.assertion[i.index] = i.old
  /\ Admit(i.op, i.index, i.new, i.old)

LEMMA ClientAdmits ==
  ASSUME facts \in Facts, Client
  PROVE  \E op, index, new, old :
           Asked([op |-> op, index |-> index, new |-> new, old |-> old])
<1>1. PICK i \in Entity :
        \/ ReplacePayload(i) \/ DeleteAssertion(i)
        \/ \E v \in Object : ReplaceObject(i, v)
        \/ \E s \in Subject : MoveAssertion(i, s)
  BY DEF Client
<1> DEFINE old == facts.assertion[i]
           Ask(op, new, o) == [op |-> op, index |-> i, new |-> new, old |-> o]
<1>2. Stored(i) => old \in Row
  BY DEF Stored, Facts
<1>3. CASE ReplacePayload(i)
  <2>1. Asked(Ask("evidence", NoRow, NoRow))
    BY <1>3 DEF Asked, IsIntent, ReplacePayload
  <2> QED
    BY <2>1
<1>4. CASE DeleteAssertion(i)
  <2>1. Asked(Ask("delete", NoRow, old))
    BY <1>2, <1>4 DEF Asked, IsIntent, DeleteAssertion
  <2> QED
    BY <2>1
<1>5. ASSUME NEW v \in Object, ReplaceObject(i, v)
      PROVE  Asked(Ask("assertion", [old EXCEPT !.object = v], old))
  <2>1. old \in Row /\ [old EXCEPT !.object = v] \in Row
    BY <1>2, <1>5 DEF ReplaceObject, Row
  <2> QED
    BY <1>5, <2>1 DEF Asked, IsIntent, ReplaceObject
<1>6. ASSUME NEW s \in Subject, MoveAssertion(i, s)
      PROVE  Asked(Ask("assertion", [old EXCEPT !.subject = s], old))
  <2>1. old \in Row /\ [old EXCEPT !.subject = s] \in Row
    BY <1>2, <1>6 DEF MoveAssertion, Row
  <2> QED
    BY <1>6, <2>1 DEF Asked, IsIntent, MoveAssertion
<1> QED
  BY <1>1, <1>3, <1>4, <1>5, <1>6

\* It goes to the end of the queue and changes nothing before it.
LEMMA AskedAppends ==
  ASSUME TypedInv, NEW op, NEW index, NEW new, NEW old,
         Asked([op |-> op, index |-> index, new |-> new, old |-> old])
  PROVE  /\ queue' \in Seq(QueueRow)
         /\ Len(queue') = Len(queue) + 1
         /\ \A n \in 1 .. Len(queue) : queue'[n] = queue[n]
         /\ LET q == queue'[Len(queue) + 1]
            IN  /\ IsIntent(q) /\ q.status = "queued"
                /\ q.op # "evidence" => facts.assertion[q.index] = q.old
                /\ q.base = version[Key(q)]
         /\ UNCHANGED <<facts, derived, version, journal, pc>>
<1> DEFINE i == [op |-> op, index |-> index, new |-> new, old |-> old]
           q == [op |-> op, index |-> index, new |-> new, old |-> old,
                 base |-> version[Key(i)], reads |-> ReadKeys(i), status |-> "queued"]
<1>1. queue' = Append(queue, q) /\ UNCHANGED <<facts, derived, version, journal, pc>>
  BY DEF Asked, Admit
<1>2. Key(i) \in WriteKey /\ ReadKeys(i) \subseteq Subject
  BY KeyTyped, ReadKeysTyped DEF Asked, TypedInv, TypeOK
<1>3. version[Key(i)] \in Nat
  BY <1>2 DEF TypedInv, TypeOK
<1>4. /\ index \in Entity /\ op \in {"evidence", "assertion", "delete"}
      /\ new \in Row \cup {NoRow} /\ old \in Row \cup {NoRow}
  BY DEF Asked, IsIntent
<1>5. q \in QueueRow
  <2> HIDE DEF i
  <2> QED
    BY <1>2, <1>3, <1>4 DEF QueueRow
<1>6. IsIntent(q) /\ (op # "evidence" => facts.assertion[index] = old) /\ Key(q) = Key(i)
  BY DEF Asked, IsIntent, Key
<1>7. queue \in Seq(QueueRow)
  BY DEF TypedInv, TypeOK
<1> HIDE DEF q
<1>8. /\ queue' \in Seq(QueueRow)
      /\ Len(queue') = Len(queue) + 1
      /\ \A n \in 1 .. Len(queue) : queue'[n] = queue[n]
      /\ queue'[Len(queue) + 1] = q
  BY <1>1, <1>5, <1>7, AppendProperties
<1>9. q.op = op /\ q.index = index /\ q.old = old /\ q.status = "queued" /\ q.base = version[Key(i)]
  BY DEF q
<1> QED
  BY <1>1, <1>6, <1>8, <1>9

-----------------------------------------------------------------------------
(* Types, for any number of processes *)

LEMMA ClientTyped ==
  ASSUME TypedInv, Client
  PROVE  TypedInv'
<1>1. facts \in Facts
  BY DEF TypedInv, TypeOK
<1>2. PICK op, index, new, old :
        Asked([op |-> op, index |-> index, new |-> new, old |-> old])
  BY <1>1, ClientAdmits
<1> DEFINE m == Len(queue) + 1
<1>3. /\ queue' \in Seq(QueueRow)
      /\ Len(queue') = m
      /\ \A n \in 1 .. Len(queue) : queue'[n] = queue[n]
      /\ IsIntent(queue'[m]) /\ queue'[m].status = "queued"
      /\ UNCHANGED <<facts, derived, version, journal, pc>>
  BY <1>2, AskedAppends
<1>4. queue \in Seq(QueueRow) /\ Len(queue) \in Nat
  BY DEF TypedInv, TypeOK
<1>5. DOMAIN queue = 1 .. Len(queue) /\ DOMAIN queue' = 1 .. m
  BY <1>3, <1>4
<1>6. journal.seq # m
  BY <1>4, <1>5 DEF TypedInv, TypeOK, NoIntent
<1>7. \A n \in DOMAIN queue' : n \in DOMAIN queue \/ n = m
  BY <1>4, <1>5
<1>8. \A n \in DOMAIN queue' : IsIntent(queue'[n]) /\ (queue'[n].status = "active" <=> journal.seq = n)
  BY <1>3, <1>5, <1>6, <1>7 DEF TypedInv, TypeOK, Intents
<1>9. journal' = NoIntent \/ journal' \in [seq : DOMAIN queue', phase : Phase, affected : SUBSET Node]
  BY <1>3, <1>4, <1>5 DEF TypedInv, TypeOK
<1> QED
  BY <1>3, <1>8, <1>9 DEF TypedInv, TypeOK, Intents

\* TypedInv without the processes.
TablesOK ==
  /\ facts \in Facts
  /\ derived \in [Node -> NodeRow]
  /\ version \in [WriteKey -> Nat]
  /\ queue \in Seq(QueueRow)
  /\ \/ journal = NoIntent
     \/ journal \in [seq : DOMAIN queue, phase : Phase, affected : SUBSET Node]
  /\ \A n \in DOMAIN queue : queue[n].status = "active" <=> journal.seq = n
  /\ Intents

ProcessesOK == pc \in [Worker -> Phase \cup {"idle", "looking", "reading", "promoting"}]

LEMMA TypedParts == TypedInv <=> TablesOK /\ ProcessesOK
BY DEF TypedInv, TypeOK, TablesOK, ProcessesOK

LEMMA ActiveTyped ==
  ASSUME TablesOK, journal # NoIntent
  PROVE  /\ journal \in [seq : DOMAIN queue, phase : Phase, affected : SUBSET Node]
         /\ Active \in QueueRow /\ IsIntent(Active) /\ Active.status = "active"
         /\ Key(Active) \in WriteKey
<1>1. journal \in [seq : DOMAIN queue, phase : Phase, affected : SUBSET Node]
  BY DEF TablesOK
<1>2. journal.seq \in DOMAIN queue
  BY <1>1
<1>3. Active \in QueueRow
  BY <1>2 DEF Active, TablesOK
<1>4. IsIntent(Active) /\ Active.status = "active"
  BY <1>2 DEF Active, TablesOK, Intents
<1> QED
  BY <1>1, <1>3, <1>4, KeyTyped

LEMMA HeldPhase ==
  ASSUME journal.phase \in Phase
  PROVE  journal # NoIntent
BY DEF NoIntent, Phase

LEMMA ApplyTyped ==
  ASSUME TablesOK, ApplyTx
  PROVE  TablesOK'
<1>1. journal # NoIntent
  BY HeldPhase DEF ApplyTx, Phase
<1>2. /\ journal \in [seq : DOMAIN queue, phase : Phase, affected : SUBSET Node]
      /\ Active \in QueueRow /\ IsIntent(Active) /\ Key(Active) \in WriteKey
  BY <1>1, ActiveTyped
<1>3. facts' \in Facts
  <2>1. Active.new \in Row \cup {NoRow} /\ Active.index \in Entity
    BY <1>2 DEF QueueRow
  <2> QED
    BY <2>1 DEF ApplyTx, TablesOK, Effect, Facts, Payload
<1>4. version' \in [WriteKey -> Nat]
  BY <1>2 DEF ApplyTx, TablesOK
<1>5. /\ journal' \in [seq : DOMAIN queue, phase : Phase, affected : SUBSET Node]
      /\ journal'.seq = journal.seq
  BY <1>2 DEF ApplyTx, Phase
<1> QED
  BY <1>3, <1>4, <1>5 DEF ApplyTx, TablesOK, Intents

LEMMA InvalidateTyped ==
  ASSUME TablesOK, InvalidateTx
  PROVE  TablesOK'
<1>1. journal # NoIntent
  BY HeldPhase DEF InvalidateTx, Phase
<1>2. /\ journal \in [seq : DOMAIN queue, phase : Phase, affected : SUBSET Node]
      /\ IsIntent(Active)
  BY <1>1, ActiveTyped
<1>3. Affected(derived, Active) \in SUBSET Node
  BY <1>2, AffectedTyped
<1>4. /\ journal' \in [seq : DOMAIN queue, phase : Phase, affected : SUBSET Node]
      /\ journal'.seq = journal.seq
  BY <1>2, <1>3 DEF InvalidateTx, Phase
<1>5. derived' \in [Node -> NodeRow]
  BY InvalidatedTyped DEF InvalidateTx, TablesOK
<1> QED
  BY <1>4, <1>5 DEF InvalidateTx, TablesOK, Intents

LEMMA PartialTyped ==
  ASSUME TablesOK, PartialTx
  PROVE  TablesOK'
<1>1. journal # NoIntent
  BY HeldPhase DEF PartialTx, Phase
<1>2. journal \in [seq : DOMAIN queue, phase : Phase, affected : SUBSET Node]
  BY <1>1, ActiveTyped
<1>3. /\ journal' \in [seq : DOMAIN queue, phase : Phase, affected : SUBSET Node]
      /\ journal'.seq = journal.seq
  BY <1>2 DEF PartialTx, Phase
<1>4. \A r \in NodeRow : [r EXCEPT !.status = "rebuilding", !.value = Nothing] \in NodeRow
  <2>1. Nothing \in [assertion : Entity \cup {None}, object : Object \cup {None},
                     payload : Payload \cup {None}]
    BY DEF Nothing
  <2> QED
    BY <2>1 DEF NodeRow
<1>5. derived' \in [Node -> NodeRow]
  <2>1. PICK n \in journal.affected :
          derived' = [derived EXCEPT ![n].status = "rebuilding", ![n].value = Nothing]
    BY DEF PartialTx
  <2>2. derived' = [derived EXCEPT
                      ![n] = [derived[n] EXCEPT !.status = "rebuilding", !.value = Nothing]]
    BY <2>1
  <2>3. n \in Node
    BY <1>2
  <2> QED
    BY <1>4, <2>2, <2>3 DEF TablesOK
<1> QED
  BY <1>3, <1>5 DEF PartialTx, TablesOK, Intents

LEMMA RepairTyped ==
  ASSUME TablesOK, RepairTx
  PROVE  TablesOK'
<1>1. journal # NoIntent
  BY HeldPhase DEF RepairTx, Phase
<1>2. journal \in [seq : DOMAIN queue, phase : Phase, affected : SUBSET Node]
  BY <1>1, ActiveTyped
<1>3. /\ journal' \in [seq : DOMAIN queue, phase : Phase, affected : SUBSET Node]
      /\ journal'.seq = journal.seq
  BY <1>2 DEF RepairTx, Phase
<1>4. derived' \in [Node -> NodeRow]
  BY InvalidatedTyped, RepairedTyped DEF RepairTx, TablesOK
<1> QED
  BY <1>3, <1>4 DEF RepairTx, TablesOK, Intents

\* The queue after the status and the read keys of one entry change.
Changed(n, status, reads) ==
  [queue EXCEPT ![n] = [queue[n] EXCEPT !.status = status, !.reads = reads]]

LEMMA EntryChanged ==
  ASSUME TablesOK, NEW n \in DOMAIN queue, NEW status, NEW reads,
         status \in {"queued", "active", "done", "conflict"}, reads \subseteq Subject,
         queue' = Changed(n, status, reads)
  PROVE  /\ queue' \in Seq(QueueRow) /\ DOMAIN queue' = DOMAIN queue
         /\ \A m \in DOMAIN queue :
              /\ IsIntent(queue'[m])
              /\ m # n => queue'[m] = queue[m]
         /\ queue'[n].status = status /\ queue'[n].reads = reads
         /\ \A field \in {"op", "index", "new", "old", "base"} :
              queue'[n][field] = queue[n][field]
<1> DEFINE r == [queue[n] EXCEPT !.status = status, !.reads = reads]
<1>1. queue \in Seq(QueueRow) /\ queue[n] \in QueueRow /\ IsIntent(queue[n])
  BY DEF TablesOK, Intents
<1>2. r \in QueueRow /\ r.status = status /\ r.reads = reads
  BY <1>1 DEF QueueRow
<1>3. /\ r.op = queue[n].op /\ r.index = queue[n].index /\ r.new = queue[n].new
      /\ r.old = queue[n].old /\ r.base = queue[n].base
  BY <1>1 DEF QueueRow
<1>4. IsIntent(r)
  BY <1>1, <1>3 DEF IsIntent
<1>5. queue' = [queue EXCEPT ![n] = r]
  BY DEF Changed
<1> HIDE DEF r
<1>6. /\ queue' \in Seq(QueueRow)
      /\ DOMAIN queue' = DOMAIN queue
      /\ \A m \in DOMAIN queue : queue'[m] = IF m = n THEN r ELSE queue[m]
  BY <1>1, <1>2, <1>5, ExceptSeq
<1> QED
  BY <1>1, <1>2, <1>3, <1>4, <1>6 DEF TablesOK, Intents

LEMMA FinalizeTyped ==
  ASSUME TablesOK, FinalizeTx
  PROVE  /\ TablesOK'
         /\ DOMAIN queue' = DOMAIN queue
         /\ \A m \in DOMAIN queue :
              /\ \A field \in {"op", "index", "new", "old", "base"} :
                   queue'[m][field] = queue[m][field]
              /\ queue'[m].status = "queued" => queue[m].status = "queued"
<1> DEFINE n == journal.seq
<1>1. /\ n \in DOMAIN queue
      /\ Active \in QueueRow /\ Active.status = "active"
  BY ActiveTyped DEF FinalizeTx
<1>2. /\ queue' = [queue EXCEPT ![n].status = "done"]
      /\ journal' = NoIntent /\ UNCHANGED <<facts, derived, version>>
  BY <1>1 DEF FinalizeTx
<1>3. Active.reads \in SUBSET Subject
  BY <1>1 DEF QueueRow
<1>4. queue' = Changed(n, "done", Active.reads)
  <2>1. queue[n] \in QueueRow
    BY <1>1 DEF Active
  <2>2. [queue[n] EXCEPT !.status = "done"]
          = [queue[n] EXCEPT !.status = "done", !.reads = queue[n].reads]
    BY <2>1 DEF QueueRow
  <2> QED
    BY <1>2, <2>2 DEF Active, Changed
<1>5. /\ queue' \in Seq(QueueRow) /\ DOMAIN queue' = DOMAIN queue
      /\ \A m \in DOMAIN queue : IsIntent(queue'[m]) /\ (m # n => queue'[m] = queue[m])
      /\ queue'[n].status = "done"
      /\ \A field \in {"op", "index", "new", "old", "base"} :
           queue'[n][field] = queue[n][field]
  BY <1>1, <1>3, <1>4, EntryChanged
<1>6. \A m \in DOMAIN queue' : m # 0
  BY <1>5
<1>7. \A m \in DOMAIN queue' : queue'[m].status # "active"
  BY <1>5 DEF TablesOK
<1> QED
  BY <1>2, <1>5, <1>6, <1>7 DEF TablesOK, Intents, NoIntent

\* What a promotion leaves of the queue and the journal.
Promoted(n) ==
  /\ TablesOK'
  /\ DOMAIN queue' = DOMAIN queue
  /\ \A m \in DOMAIN queue :
       /\ m # n => queue'[m] = queue[m]
       /\ \A field \in {"op", "index", "new", "old", "base"} :
            queue'[m][field] = queue[m][field]
       /\ queue'[m].status = "queued" => queue[m].status = "queued"
  /\ \/ queue'[n].status = "conflict" /\ journal' = NoIntent
     \/ /\ queue'[n].status = "active" /\ queue'[n].reads = ReadKeys(queue[n])
        /\ journal' = [seq |-> n, phase |-> "prepared", affected |-> {}]
        /\ queue[n].base = version[Key(queue[n])]

LEMMA PromoteTyped ==
  ASSUME TablesOK, journal = NoIntent, NEW n \in DOMAIN queue, Oldest(n), PromoteTx(n),
         UNCHANGED <<facts, derived, version>>
  PROVE  Promoted(n)
<1>1. queue[n] \in QueueRow /\ IsIntent(queue[n]) /\ queue[n].status = "queued"
  BY DEF TablesOK, Intents, Oldest
<1>2. \A m \in DOMAIN queue : m # 0 /\ queue[m].status # "active"
  BY DEF TablesOK, NoIntent
<1>3. ReadKeys(queue[n]) \in SUBSET Subject /\ queue[n].reads \in SUBSET Subject
  BY <1>1, ReadKeysTyped DEF TablesOK, QueueRow
<1>4. CASE queue[n].base = version[Key(queue[n])]
  <2>1. /\ queue' = Changed(n, "active", ReadKeys(queue[n]))
        /\ journal' = [NoIntent EXCEPT !.seq = n, !.phase = "prepared"]
    BY <1>4 DEF PromoteTx, Changed
  <2>2. journal' = [seq |-> n, phase |-> "prepared", affected |-> {}]
    BY <2>1 DEF NoIntent
  <2>3. /\ queue' \in Seq(QueueRow) /\ DOMAIN queue' = DOMAIN queue
        /\ \A m \in DOMAIN queue : IsIntent(queue'[m]) /\ (m # n => queue'[m] = queue[m])
        /\ queue'[n].status = "active" /\ queue'[n].reads = ReadKeys(queue[n])
        /\ \A field \in {"op", "index", "new", "old", "base"} : queue'[n][field] = queue[n][field]
    BY <1>3, <2>1, EntryChanged
  <2>4. journal' \in [seq : DOMAIN queue', phase : Phase, affected : SUBSET Node]
    BY <2>2, <2>3 DEF Phase
  <2>5. \A m \in DOMAIN queue' : queue'[m].status = "active" <=> journal'.seq = m
    BY <1>2, <2>2, <2>3
  <2>6. TablesOK'
    BY <2>2, <2>3, <2>4, <2>5 DEF TablesOK, Intents
  <2>7. \A m \in DOMAIN queue :
          /\ m # n => queue'[m] = queue[m]
          /\ \A field \in {"op", "index", "new", "old", "base"} :
               queue'[m][field] = queue[m][field]
          /\ queue'[m].status = "queued" => queue[m].status = "queued"
    BY <1>1, <2>3
  <2> QED
    BY <1>4, <2>2, <2>3, <2>6, <2>7 DEF Promoted
<1>5. CASE queue[n].base # version[Key(queue[n])]
  <2>1. queue' = [queue EXCEPT ![n].status = "conflict"] /\ journal' = NoIntent
    BY <1>5 DEF PromoteTx
  <2>2. queue' = Changed(n, "conflict", queue[n].reads)
    <3>1. [queue[n] EXCEPT !.status = "conflict"]
            = [queue[n] EXCEPT !.status = "conflict", !.reads = queue[n].reads]
      BY <1>1 DEF QueueRow
    <3> QED
      BY <2>1, <3>1 DEF Changed
  <2>3. /\ queue' \in Seq(QueueRow) /\ DOMAIN queue' = DOMAIN queue
        /\ \A m \in DOMAIN queue : IsIntent(queue'[m]) /\ (m # n => queue'[m] = queue[m])
        /\ queue'[n].status = "conflict"
        /\ \A field \in {"op", "index", "new", "old", "base"} : queue'[n][field] = queue[n][field]
    BY <1>3, <2>2, EntryChanged
  <2>4. \A m \in DOMAIN queue' : queue'[m].status = "active" <=> journal'.seq = m
    BY <1>2, <2>1, <2>3 DEF NoIntent
  <2>6. TablesOK'
    BY <2>1, <2>3, <2>4 DEF TablesOK, Intents
  <2>7. \A m \in DOMAIN queue :
          /\ m # n => queue'[m] = queue[m]
          /\ \A field \in {"op", "index", "new", "old", "base"} :
               queue'[m][field] = queue[m][field]
          /\ queue'[m].status = "queued" => queue[m].status = "queued"
    BY <1>1, <2>3
  <2> QED
    BY <2>1, <2>3, <2>6, <2>7 DEF Promoted
<1> QED
  BY <1>4, <1>5

\* What any step does to the tables.
Promotes ==
  /\ journal = NoIntent
  /\ \E n \in DOMAIN queue : Oldest(n) /\ PromoteTx(n)
  /\ UNCHANGED <<facts, derived, version>>

Work ==
  \/ Client \/ ApplyTx \/ InvalidateTx \/ PartialTx \/ RepairTx
  \/ FinalizeTx \/ Promotes \/ UNCHANGED Tables

LEMMA NextWorks ==
  ASSUME TypedInv, [Next]_vars
  PROVE  Work /\ ProcessesOK'
<1>1. ProcessesOK
  BY TypedParts
<1>2. \A w \in Worker, to \in Phase \cup {"idle", "looking", "reading", "promoting"} :
        [pc EXCEPT ![w] = to] \in [Worker -> Phase \cup {"idle", "looking", "reading", "promoting"}]
  BY <1>1 DEF ProcessesOK
<1>3. CASE Client
  <2>1. UNCHANGED pc
    BY <1>3 DEF Client, ReplacePayload, DeleteAssertion, ReplaceObject, MoveAssertion, Admit
  <2> QED
    BY <1>1, <1>3, <2>1 DEF Work, ProcessesOK
<1>4. CASE UNCHANGED vars
  BY <1>1, <1>4 DEF Work, vars, Tables, ProcessesOK
<1>5. ASSUME NEW w \in Worker, Drain(w)
      PROVE  Work /\ ProcessesOK'
  <2>1. CASE Begin(w) \/ Busy(w) \/ Drained(w) \/ Look(w) \/ Unexpected(w)
    <3>1. UNCHANGED Tables
      BY <2>1 DEF Begin, Busy, Drained, Look, Unexpected
    <3>2. \E to \in {"looking", "idle", "promoting", "reading"} : pc' = [pc EXCEPT ![w] = to]
      BY <2>1 DEF Begin, Busy, Drained, Look, Unexpected, Goto
    <3> QED
      BY <1>2, <3>1, <3>2 DEF Work, ProcessesOK
  <2>2. CASE Read(w)
    <3>1. journal # NoIntent => journal.phase \in Phase
      BY ActiveTyped, TypedParts
    <3>2. \E to \in Phase \cup {"looking"} : pc' = [pc EXCEPT ![w] = to]
      BY <2>2, <3>1 DEF Read, Goto
    <3>3. UNCHANGED Tables
      BY <2>2 DEF Read
    <3> QED
      BY <1>2, <3>2, <3>3 DEF Work, ProcessesOK
  <2>3. CASE Promote(w)
    BY <1>2, <2>3 DEF Promote, Promotes, Work, ProcessesOK
  <2>4. CASE RecoverApply(w) \/ RecoverInvalidate(w) \/ RecoverRepair(w)
    <3>1. \E to \in Phase : pc' = [pc EXCEPT ![w] = to]
      BY <2>4 DEF RecoverApply, RecoverInvalidate, RecoverRepair, Goto, Phase
    <3>2. ApplyTx \/ InvalidateTx \/ RepairTx
      BY <2>4 DEF RecoverApply, RecoverInvalidate, RecoverRepair
    <3> QED
      BY <1>2, <3>1, <3>2 DEF Work, ProcessesOK
  <2>5. CASE RecoverFinalize(w)
    BY <1>2, <2>5 DEF RecoverFinalize, Goto, Work, ProcessesOK
  <2> QED
    BY <1>5, <2>1, <2>2, <2>3, <2>4, <2>5 DEF Drain
<1>6. ASSUME NEW w \in Worker, ByHand(w)
      PROVE  Work /\ ProcessesOK'
  BY <1>2, <1>6 DEF ByHand, Goto, Work, ProcessesOK
<1>7. ASSUME NEW w \in Worker, Killed(w)
      PROVE  Work /\ ProcessesOK'
  BY <1>2, <1>7 DEF Killed, Work, ProcessesOK
<1> QED
  BY <1>3, <1>4, <1>5, <1>6, <1>7 DEF Next

LEMMA InitTyped == Init => TypedInv
<1> SUFFICES ASSUME Init
             PROVE  TypedInv
  OBVIOUS
<1>1. facts \in Facts /\ derived \in [Node -> NodeRow]
  BY FirstFactsTyped, CleanTyped DEF Init
<1>2. queue \in Seq(QueueRow) /\ DOMAIN queue = {}
  BY DEF Init
<1> QED
  BY <1>1, <1>2 DEF Init, TypedInv, TypeOK, Intents

LEMMA TypedStep ==
  ASSUME TypedInv, [Next]_vars
  PROVE  TypedInv'
<1>1. Work /\ ProcessesOK' /\ TablesOK
  BY NextWorks, TypedParts
<1>2. CASE Promotes
  <2>1. TablesOK'
    BY <1>1, <1>2, PromoteTyped DEF Promotes, Promoted
  <2> QED
    BY <1>1, <2>1, TypedParts, PTL
<1>3. CASE Client
  BY <1>3, ClientTyped
<1>4. CASE UNCHANGED Tables
  <2>1. TablesOK'
    BY <1>1, <1>4 DEF Tables, TablesOK, Intents
  <2> QED
    BY <1>1, <2>1, TypedParts, PTL
<1>5. CASE ApplyTx \/ InvalidateTx \/ PartialTx \/ RepairTx \/ FinalizeTx
  <2>1. TablesOK'
    BY <1>1, <1>5, ApplyTyped, InvalidateTyped, PartialTyped, RepairTyped, FinalizeTyped
  <2> QED
    BY <1>1, <2>1, TypedParts, PTL
<1> QED
  BY <1>1, <1>2, <1>3, <1>4, <1>5 DEF Work

\* The tables, the queue and the processes keep their types, and the journal's
\* row is that of the active intent, for any number of processes.
THEOREM PipelineTyped == Spec => []TypeOK
<1>1. Spec => []TypedInv
  BY InitTyped, TypedStep, PTL DEF Spec
<1>2. TypedInv => TypeOK
  BY DEF TypedInv
<1> QED
  BY <1>1, <1>2, PTL

-----------------------------------------------------------------------------
(* The row an intent was admitted over, for any number of processes *)

Waits(n) == queue[n].status = "queued" \/ (journal.phase = "prepared" /\ journal.seq = n)

\* What waits and was admitted over the current version still finds its row.
FindsRow(n) ==
  queue[n].op # "evidence" /\ queue[n].base = version[Key(queue[n])]
    => facts.assertion[queue[n].index] = queue[n].old

SnapshotInv ==
  /\ TypedInv
  /\ \A n \in DOMAIN queue : queue[n].base <= version[Key(queue[n])]
  /\ \A n \in DOMAIN queue : Waits(n) => FindsRow(n)
  /\ journal.phase = "prepared" => Active.base = version[Key(Active)]

LEMMA SnapshotIsFound == SnapshotInv => SnapshotStillHolds
<1> SUFFICES ASSUME SnapshotInv, journal.phase = "prepared", Active.op # "evidence"
             PROVE  facts.assertion[Active.index] = Active.old
  BY DEF SnapshotStillHolds
<1>1. journal.seq \in DOMAIN queue
  BY ActiveTyped, TypedParts, HeldPhase DEF SnapshotInv, Phase
<1> QED
  BY <1>1 DEF SnapshotInv, Waits, FindsRow, Active

\* The queue keeps what its entries ask for, and nothing starts to wait but
\* what is being promoted.
LEMMA SameRows ==
  ASSUME SnapshotInv, UNCHANGED <<facts, version>>, DOMAIN queue' = DOMAIN queue,
         \A m \in DOMAIN queue :
           /\ \A field \in {"op", "index", "new", "old", "base"} :
                queue'[m][field] = queue[m][field]
           /\ queue'[m].status = "queued" => queue[m].status = "queued"
  PROVE  /\ \A n \in DOMAIN queue' : queue'[n].base <= version'[Key(queue'[n])]
         /\ \A n \in DOMAIN queue : FindsRow(n) => FindsRow(n)'
         /\ \A n \in DOMAIN queue : Key(queue'[n]) = Key(queue[n])
<1>1. \A n \in DOMAIN queue :
        /\ queue'[n].op = queue[n].op /\ queue'[n].index = queue[n].index
        /\ queue'[n].old = queue[n].old /\ queue'[n].base = queue[n].base
  OBVIOUS
<1>2. \A n \in DOMAIN queue : Key(queue'[n]) = Key(queue[n])
  BY <1>1 DEF Key
<1> QED
  BY <1>1, <1>2 DEF SnapshotInv, FindsRow

LEMMA ApplySnapshot ==
  ASSUME SnapshotInv, ApplyTx
  PROVE  /\ \A n \in DOMAIN queue' : queue'[n].base <= version'[Key(queue'[n])]
         /\ \A n \in DOMAIN queue' : Waits(n)' => FindsRow(n)'
         /\ journal'.phase # "prepared"
<1>1. TablesOK /\ journal # NoIntent
  BY TypedParts, HeldPhase DEF SnapshotInv, ApplyTx, Phase
<1>2. /\ journal \in [seq : DOMAIN queue, phase : Phase, affected : SUBSET Node]
      /\ IsIntent(Active) /\ Active.status = "active" /\ Key(Active) \in WriteKey
      /\ Active \in QueueRow
  BY <1>1, ActiveTyped
<1>3. /\ queue' = queue /\ facts' = Effect(facts, Active)
      /\ version' = [version EXCEPT ![Key(Active)] = version[Key(Active)] + 1]
      /\ journal'.phase = "canonical_applied"
  BY <1>2 DEF ApplyTx
<1>4. ASSUME NEW n \in DOMAIN queue
      PROVE  /\ IsIntent(queue[n]) /\ Key(queue[n]) \in WriteKey /\ queue[n].base \in Nat
             /\ queue[n].base <= version[Key(queue[n])]
  <2>1. IsIntent(queue[n]) /\ queue[n] \in QueueRow
    BY <1>1 DEF TablesOK, Intents
  <2> QED
    BY <2>1, KeyTyped DEF QueueRow, SnapshotInv
<1>5. /\ \A k \in WriteKey : version[k] \in Nat
      /\ version'[Key(Active)] = version[Key(Active)] + 1
      /\ \A k \in WriteKey : k # Key(Active) => version'[k] = version[k]
  BY <1>1, <1>2, <1>3 DEF TablesOK
<1>6. ASSUME NEW n \in DOMAIN queue
      PROVE  queue[n].base <= version'[Key(queue[n])]
  BY <1>4, <1>5
<1>7. ASSUME NEW n \in DOMAIN queue, queue[n].status = "queued",
             queue[n].op # "evidence", queue[n].base = version'[Key(queue[n])]
      PROVE  facts'.assertion[queue[n].index] = queue[n].old
  <2>1. Key(queue[n]) # Key(Active)
    BY <1>4, <1>5, <1>7
  <2>2. facts.assertion[queue[n].index] = queue[n].old
    BY <1>4, <1>5, <1>7, <2>1 DEF SnapshotInv, Waits, FindsRow
  <2>3. facts'.assertion[queue[n].index] = facts.assertion[queue[n].index]
    <3>1. facts \in Facts /\ Active.index \in Entity /\ queue[n].index \in Entity
      BY <1>1, <1>2, <1>4 DEF TablesOK, IsIntent
    <3>2. CASE Active.op = "evidence"
      BY <1>3, <3>1, <3>2 DEF Effect, Facts
    <3>3. CASE Active.op # "evidence"
      <4>1. Active.index # queue[n].index
        BY <1>7, <2>1, <3>3 DEF Key
      <4> QED
        BY <1>3, <3>1, <3>3, <4>1 DEF Effect, Facts
    <3> QED
      BY <3>2, <3>3
  <2> QED
    BY <2>2, <2>3
<1> QED
  BY <1>3, <1>6, <1>7 DEF Waits, FindsRow

LEMMA ClientSnapshot ==
  ASSUME SnapshotInv, Client
  PROVE  /\ \A n \in DOMAIN queue' : queue'[n].base <= version'[Key(queue'[n])]
         /\ \A n \in DOMAIN queue' : Waits(n)' => FindsRow(n)'
         /\ (journal.phase = "prepared" => Active.base = version[Key(Active)])'
<1> DEFINE m == Len(queue) + 1
<1>1. TypedInv /\ facts \in Facts
  BY DEF SnapshotInv, TypedInv, TypeOK
<1>2. PICK op, index, new, old :
        Asked([op |-> op, index |-> index, new |-> new, old |-> old])
  BY <1>1, ClientAdmits
<1>3. /\ queue' \in Seq(QueueRow)
      /\ Len(queue') = m
      /\ \A n \in 1 .. Len(queue) : queue'[n] = queue[n]
      /\ queue'[m].op # "evidence" => facts.assertion[queue'[m].index] = queue'[m].old
      /\ IsIntent(queue'[m])
      /\ queue'[m].base = version[Key(queue'[m])]
      /\ UNCHANGED <<facts, derived, version, journal, pc>>
  BY <1>1, <1>2, AskedAppends
<1>4. /\ DOMAIN queue = 1 .. Len(queue) /\ DOMAIN queue' = 1 .. m /\ Len(queue) \in Nat
      /\ \A n \in DOMAIN queue' : n \in DOMAIN queue \/ n = m
  BY <1>1, <1>3 DEF TypedInv, TypeOK
<1>5. Key(queue'[m]) \in WriteKey
  BY <1>3, KeyTyped
<1>6. version[Key(queue'[m])] \in Nat
  BY <1>1, <1>5 DEF TypedInv, TypeOK
<1>7. \A n \in DOMAIN queue' : queue'[n].base <= version'[Key(queue'[n])]
  BY <1>3, <1>4, <1>6 DEF SnapshotInv
<1>8. \A n \in DOMAIN queue' : Waits(n)' => FindsRow(n)'
  BY <1>3, <1>4 DEF SnapshotInv, Waits, FindsRow
<1>9. ASSUME journal'.phase = "prepared"
      PROVE  Active' = Active /\ Active.base = version[Key(Active)]
  <2>1. journal.seq \in DOMAIN queue
    BY <1>1, <1>3, <1>9, ActiveTyped, TypedParts, HeldPhase DEF Phase
  <2> QED
    BY <1>3, <1>4, <1>9, <2>1 DEF SnapshotInv, Active
<1> QED
  BY <1>3, <1>7, <1>8, <1>9

LEMMA SnapshotStep ==
  ASSUME SnapshotInv, [Next]_vars
  PROVE  SnapshotInv'
<1>1. TypedInv' /\ TablesOK /\ Work
  BY TypedStep, NextWorks, TypedParts DEF SnapshotInv
<1>2. CASE Client
  BY <1>1, <1>2, ClientSnapshot DEF SnapshotInv
<1>3. CASE ApplyTx
  BY <1>1, <1>3, ApplySnapshot DEF SnapshotInv
<1>4. CASE InvalidateTx \/ PartialTx \/ RepairTx
  <2>1. UNCHANGED <<facts, version, queue>>
    BY <1>4 DEF InvalidateTx, PartialTx, RepairTx
  <2>2. journal # NoIntent
    BY <1>4, HeldPhase DEF InvalidateTx, PartialTx, RepairTx, Phase
  <2>3. journal \in [seq : DOMAIN queue, phase : Phase, affected : SUBSET Node]
    BY <1>1, <2>2, ActiveTyped
  <2>4. journal'.phase # "prepared"
    BY <1>4, <2>3 DEF InvalidateTx, PartialTx, RepairTx
  <2> QED
    BY <1>1, <2>1, <2>4 DEF SnapshotInv, Waits, FindsRow
<1>5. CASE UNCHANGED Tables
  BY <1>1, <1>5 DEF SnapshotInv, Waits, FindsRow, Active, Tables
<1>6. CASE FinalizeTx
  <2>1. /\ DOMAIN queue' = DOMAIN queue
        /\ \A m \in DOMAIN queue :
             /\ \A field \in {"op", "index", "new", "old", "base"} :
                  queue'[m][field] = queue[m][field]
             /\ queue'[m].status = "queued" => queue[m].status = "queued"
    BY <1>1, <1>6, FinalizeTyped
  <2>2. UNCHANGED <<facts, version>> /\ journal'.phase # "prepared"
    BY <1>6 DEF FinalizeTx, NoIntent
  <2>3. /\ \A n \in DOMAIN queue' : queue'[n].base <= version'[Key(queue'[n])]
        /\ \A n \in DOMAIN queue : FindsRow(n) => FindsRow(n)'
    BY <2>1, <2>2, SameRows
  <2>4. \A n \in DOMAIN queue : Waits(n)' => Waits(n)
    BY <2>1, <2>2 DEF Waits
  <2> QED
    BY <1>1, <2>1, <2>2, <2>3, <2>4 DEF SnapshotInv
<1>7. CASE Promotes
  <2>1. PICK n \in DOMAIN queue : Oldest(n) /\ PromoteTx(n)
    BY <1>7 DEF Promotes
  <2>2. /\ DOMAIN queue' = DOMAIN queue
        /\ \A m \in DOMAIN queue :
             /\ \A field \in {"op", "index", "new", "old", "base"} :
                  queue'[m][field] = queue[m][field]
             /\ queue'[m].status = "queued" => queue[m].status = "queued"
        /\ \/ journal' = NoIntent
           \/ /\ journal' = [seq |-> n, phase |-> "prepared", affected |-> {}]
              /\ queue[n].base = version[Key(queue[n])]
    BY <1>1, <1>7, <2>1, PromoteTyped DEF Promotes, Promoted
  <2>3. UNCHANGED <<facts, version>> /\ queue[n].status = "queued"
    BY <1>7, <2>1 DEF Promotes, Oldest
  <2>4. /\ \A m \in DOMAIN queue' : queue'[m].base <= version'[Key(queue'[m])]
        /\ \A m \in DOMAIN queue : FindsRow(m) => FindsRow(m)'
        /\ Key(queue'[n]) = Key(queue[n])
    BY <2>2, <2>3, SameRows
  <2>5. \A m \in DOMAIN queue : Waits(m)' => Waits(m)
    BY <2>2, <2>3 DEF Waits, NoIntent
  <2>6. queue'[n].base = queue[n].base
    BY <2>2
  <2>7. (journal.phase = "prepared" => Active.base = version[Key(Active)])'
    BY <2>2, <2>3, <2>4, <2>6 DEF NoIntent, Active
  <2> QED
    BY <1>1, <2>2, <2>4, <2>5, <2>7 DEF SnapshotInv
<1> QED
  BY <1>1, <1>2, <1>3, <1>4, <1>5, <1>6, <1>7 DEF Work

LEMMA InitSnapshot == Init => SnapshotInv
<1> SUFFICES ASSUME Init
             PROVE  SnapshotInv
  OBVIOUS
<1>1. DOMAIN queue = {} /\ journal.phase # "prepared"
  BY DEF Init, NoIntent
<1> QED
  BY <1>1, InitTyped DEF SnapshotInv

\* An intent about to be applied finds the row it was admitted over, however
\* many processes drain the queue and wherever they are killed.
THEOREM SnapshotHolds == Spec => []SnapshotStillHolds
<1>1. Spec => []SnapshotInv
  BY InitSnapshot, SnapshotStep, PTL DEF Spec
<1> QED
  BY <1>1, SnapshotIsFound, PTL

-----------------------------------------------------------------------------
(* One process *)

OneProcess == \A v, w \in Worker : v = w

Settled == {"none", "prepared", "repaired"}
Midway  == {"canonical_applied", "invalidated", "rebuilding"}

\* Midway through an intent, f are the facts before it.
MidwayFrom(f) ==
  /\ Fits(f, Active)
  /\ facts = Effect(f, Active)
  /\ journal.phase = "canonical_applied" => derived = Clean(f)
  /\ journal.phase # "canonical_applied" =>
       journal.affected = Region(f, Active) /\ Damaged(derived, f, Region(f, Active))

CleanInv ==
  /\ SnapshotInv
  /\ journal.phase \in Settled => derived = Clean(facts)
  /\ journal.phase \in Midway => \E f : MidwayFrom(f)
  /\ journal # NoIntent => Active.reads = ReadKeys(Active)
  /\ \A w \in Worker : pc[w] = "repaired" => journal.phase = "repaired"

LEMMA ClientKeepsActive ==
  ASSUME SnapshotInv, Client
  PROVE  /\ UNCHANGED <<facts, derived, journal, pc>>
         /\ journal # NoIntent => Active' = Active
<1>1. TypedInv /\ TablesOK /\ facts \in Facts
  BY TypedParts DEF SnapshotInv, TablesOK
<1>2. PICK op, index, new, old :
        Asked([op |-> op, index |-> index, new |-> new, old |-> old])
  BY <1>1, ClientAdmits
<1>3. /\ \A n \in 1 .. Len(queue) : queue'[n] = queue[n]
      /\ UNCHANGED <<facts, derived, version, journal, pc>>
  BY <1>1, <1>2, AskedAppends
<1>4. journal # NoIntent => journal.seq \in 1 .. Len(queue)
  <2>1. journal # NoIntent => journal.seq \in DOMAIN queue
    BY <1>1, ActiveTyped
  <2> QED
    BY <1>1, <2>1 DEF TablesOK
<1> QED
  BY <1>3, <1>4 DEF Active

\* One process deletes the journal's row only when its intent is repaired.
LEMMA FinalizedWhenRepaired ==
  ASSUME CleanInv, Next, journal # NoIntent, journal' = NoIntent
  PROVE  journal.phase = "repaired"
<1>1. journal \in [seq : DOMAIN queue, phase : Phase, affected : SUBSET Node]
  BY ActiveTyped, TypedParts DEF CleanInv, SnapshotInv
<1>2. ~ Client
  BY ClientKeepsActive DEF CleanInv
<1>3. ~ UNCHANGED Tables
  BY DEF Tables
<1>4. ~ ApplyTx /\ ~ InvalidateTx /\ ~ PartialTx /\ ~ RepairTx
  <2>1. journal'.phase = "none"
    BY DEF NoIntent
  <2>2. ApplyTx => journal'.phase = "canonical_applied"
    BY <1>1 DEF ApplyTx
  <2>3. InvalidateTx => journal'.phase = "invalidated"
    BY <1>1 DEF InvalidateTx
  <2>4. PartialTx => journal'.phase = "rebuilding"
    BY <1>1 DEF PartialTx
  <2>5. RepairTx => journal'.phase = "repaired"
    BY <1>1 DEF RepairTx
  <2> QED
    BY <2>1, <2>2, <2>3, <2>4, <2>5
<1>5. PICK w \in Worker : Drain(w) \/ ByHand(w) \/ Killed(w)
  BY <1>2 DEF Next
<1>6. RecoverFinalize(w) \/ (ByHand(w) /\ journal.phase = "repaired")
  BY <1>3, <1>4, <1>5 DEF Drain, Begin, Look, Read, Promote, Busy, Drained, RecoverApply,
       RecoverInvalidate, RecoverRepair, Unexpected, ByHand, Killed
<1> QED
  BY <1>6 DEF RecoverFinalize, Goto, CleanInv

LEMMA ProcessStep ==
  ASSUME OneProcess, CleanInv, [Next]_vars
  PROVE  \A w \in Worker : pc'[w] = "repaired" => journal'.phase = "repaired"
<1>0. ProcessesOK /\ TablesOK
  BY TypedParts DEF CleanInv, SnapshotInv
<1>1. CASE UNCHANGED <<journal, pc>>
  BY <1>1 DEF CleanInv
<1>2. CASE Client
  BY <1>1, <1>2, ClientKeepsActive DEF CleanInv
<1>3. ASSUME NEW w \in Worker, Drain(w) \/ ByHand(w) \/ Killed(w)
      PROVE  pc'[w] = "repaired" => journal'.phase = "repaired"
  <2>1. CASE RecoverRepair(w)
    <3>1. journal # NoIntent
      BY <2>1, HeldPhase DEF RecoverRepair, RepairTx, Phase
    <3>2. journal \in [seq : DOMAIN queue, phase : Phase, affected : SUBSET Node]
      BY <1>0, <3>1, ActiveTyped
    <3> QED
      BY <2>1, <3>2 DEF RecoverRepair, RepairTx
  <2>2. CASE Read(w)
    BY <1>0, <2>2 DEF Read, Goto, Tables, ProcessesOK
  <2>3. CASE \/ Begin(w) \/ Look(w) \/ Promote(w) \/ Busy(w) \/ Drained(w) \/ RecoverApply(w)
             \/ RecoverInvalidate(w) \/ RecoverFinalize(w) \/ Unexpected(w) \/ ByHand(w)
             \/ Killed(w)
    <3>1. \E to \in {"idle", "looking", "promoting", "reading", "canonical_applied", "invalidated"} :
            pc' = [pc EXCEPT ![w] = to]
      BY <2>3 DEF Begin, Look, Promote, Busy, Drained, RecoverApply, RecoverInvalidate,
           RecoverFinalize, Unexpected, ByHand, Killed, Goto
    <3> QED
      BY <1>0, <3>1 DEF ProcessesOK
  <2> QED
    BY <1>3, <2>1, <2>2, <2>3 DEF Drain
<1>4. CASE \E w \in Worker : Drain(w) \/ ByHand(w) \/ Killed(w)
  BY <1>3, <1>4 DEF OneProcess
<1> QED
  BY <1>1, <1>2, <1>4 DEF Next, vars

LEMMA ApplyClean ==
  ASSUME CleanInv, ApplyTx
  PROVE  /\ journal'.phase = "canonical_applied"
         /\ \E f : MidwayFrom(f)'
         /\ Active'.reads = ReadKeys(Active)'
<1>1. TablesOK /\ journal # NoIntent /\ SnapshotStillHolds
  BY TypedParts, HeldPhase, SnapshotIsFound DEF CleanInv, SnapshotInv, ApplyTx, Phase
<1>2. /\ journal \in [seq : DOMAIN queue, phase : Phase, affected : SUBSET Node]
      /\ IsIntent(Active)
  BY <1>1, ActiveTyped
<1>3. /\ journal'.phase = "canonical_applied" /\ journal'.seq = journal.seq
      /\ facts' = Effect(facts, Active) /\ UNCHANGED <<derived, queue>>
  BY <1>2 DEF ApplyTx
<1>4. Active' = Active
  BY <1>3 DEF Active
<1>5. Fits(facts, Active)
  BY <1>1, <1>2 DEF ApplyTx, SnapshotStillHolds, Fits, TablesOK
<1>6. derived = Clean(facts)
  BY DEF ApplyTx, CleanInv, Settled
<1>7. PICK f : f = facts
  OBVIOUS
<1>8. MidwayFrom(f)'
  BY <1>3, <1>4, <1>5, <1>6, <1>7 DEF MidwayFrom
<1>9. ReadKeys(Active)' = ReadKeys(Active)
  <2>1. Active.op = "evidence" => facts'.assertion = facts.assertion
    BY <1>1, <1>3 DEF Effect, TablesOK, Facts
  <2>2. CASE Active.op = "evidence"
    BY <1>4, <2>1, <2>2 DEF ReadKeys
  <2>3. CASE Active.op = "assertion"
    BY <1>4, <2>3 DEF ReadKeys
  <2>4. CASE Active.op = "delete"
    BY <1>4, <2>4 DEF ReadKeys
  <2> QED
    BY <1>2, <2>2, <2>3, <2>4 DEF IsIntent
<1> QED
  BY <1>1, <1>3, <1>4, <1>8, <1>9 DEF CleanInv

LEMMA InvalidateClean ==
  ASSUME CleanInv, InvalidateTx
  PROVE  journal'.phase = "invalidated" /\ \E f : MidwayFrom(f)'
<1>1. TablesOK /\ journal # NoIntent
  BY TypedParts, HeldPhase DEF CleanInv, SnapshotInv, InvalidateTx, Phase
<1>2. journal \in [seq : DOMAIN queue, phase : Phase, affected : SUBSET Node]
  BY <1>1, ActiveTyped
<1>3. PICK f : MidwayFrom(f)
  BY DEF CleanInv, InvalidateTx, Midway
<1>4. derived = Clean(f) /\ Affected(derived, Active) = Region(f, Active)
  BY <1>3, AffectedIs DEF InvalidateTx, MidwayFrom
<1>5. /\ journal'.phase = "invalidated" /\ journal'.affected = Region(f, Active)
      /\ derived' = Invalidated(derived, Region(f, Active))
      /\ UNCHANGED <<facts, queue>> /\ journal'.seq = journal.seq
  BY <1>2, <1>4 DEF InvalidateTx
<1>6. Damaged(derived', f, Region(f, Active))
  BY <1>4, <1>5, InvalidationDamages DEF Region
<1>7. Active' = Active
  BY <1>5 DEF Active
<1>8. MidwayFrom(f)'
  BY <1>3, <1>5, <1>6, <1>7 DEF MidwayFrom
<1> QED
  BY <1>5, <1>8

LEMMA PartialClean ==
  ASSUME CleanInv, PartialTx
  PROVE  journal'.phase = "rebuilding" /\ \E f : MidwayFrom(f)'
<1>1. TablesOK /\ journal # NoIntent
  BY TypedParts, HeldPhase DEF CleanInv, SnapshotInv, PartialTx, Phase
<1>2. journal \in [seq : DOMAIN queue, phase : Phase, affected : SUBSET Node]
  BY <1>1, ActiveTyped
<1>3. PICK f : MidwayFrom(f)
  BY DEF CleanInv, PartialTx, Midway
<1>4. /\ journal'.phase = "rebuilding" /\ journal'.affected = journal.affected
      /\ UNCHANGED <<facts, queue>> /\ journal'.seq = journal.seq
  BY <1>2 DEF PartialTx
<1>5. PICK n \in journal.affected :
        derived' = [derived EXCEPT ![n].status = "rebuilding", ![n].value = Nothing]
  BY DEF PartialTx
<1> DEFINE A == Region(f, Active)
<1>6. journal.affected = A /\ Damaged(derived, f, A) /\ n \in A /\ n \in Node
  BY <1>3, <1>5 DEF MidwayFrom, PartialTx, Region
<1>7. Damaged(derived', f, A)
  <2>1. derived[n] = [status |-> derived[n].status, value |-> derived[n].value,
                      from |-> derived[n].from]
    BY <1>6 DEF Damaged, HasRows, IsRow
  <2>2. derived'[n] = [derived[n] EXCEPT !.status = "rebuilding", !.value = Nothing]
    BY <1>1, <1>5, <1>6 DEF TablesOK
  <2>3. derived'[n] = [status |-> "rebuilding", value |-> Nothing, from |-> derived[n].from]
    BY <2>1, <2>2
  <2>4. IsRow(derived'[n]) /\ derived'[n].status = "rebuilding"
    BY <2>3 DEF IsRow
  <2>5. \A m \in Node : m # n => derived'[m] = derived[m]
    BY <1>1, <1>5 DEF TablesOK
  <2>6. derived' = [m \in Node |-> derived'[m]]
    BY <1>1, <1>5 DEF TablesOK
  <2>7. \A m \in Node : IsRow(derived'[m])
    BY <1>6, <2>4, <2>5 DEF Damaged, HasRows
  <2>8. HasRows(derived')
    BY <2>6, <2>7 DEF HasRows
  <2>9. A \subseteq Node
    BY DEF Region
  <2> HIDE DEF A
  <2> QED
    BY <1>6, <2>4, <2>5, <2>8, <2>9 DEF Damaged
<1>8. Active' = Active
  BY <1>4 DEF Active
<1>9. MidwayFrom(f)'
  BY <1>3, <1>4, <1>6, <1>7, <1>8 DEF MidwayFrom
<1> QED
  BY <1>4, <1>9

LEMMA RepairClean ==
  ASSUME CleanInv, RepairTx
  PROVE  /\ journal'.phase = "repaired"
         /\ derived' = Clean(facts)
         /\ UNCHANGED <<facts, queue>>
<1>1. TablesOK /\ journal # NoIntent
  BY TypedParts, HeldPhase DEF CleanInv, SnapshotInv, RepairTx, Phase
<1>2. journal \in [seq : DOMAIN queue, phase : Phase, affected : SUBSET Node]
  BY <1>1, ActiveTyped
<1>3. PICK f : MidwayFrom(f)
  BY DEF CleanInv, RepairTx, Midway
<1> DEFINE A == Region(f, Active)
<1>4. /\ journal.affected = A /\ Damaged(derived, f, A)
      /\ facts = Effect(f, Active) /\ Fits(f, Active)
  BY <1>3 DEF MidwayFrom, RepairTx
<1>5. Damaged(Invalidated(derived, A), f, A)
  BY <1>4, InvalidationDamages DEF Region
<1>6. \/ derived' = Repaired(derived, facts, A)
      \/ derived' = Repaired(Invalidated(derived, A), facts, A)
  BY <1>4 DEF RepairTx
<1>7. derived' = Clean(facts)
  BY <1>4, <1>5, <1>6, RepairIsClean
<1> QED
  BY <1>2, <1>7 DEF RepairTx

LEMMA PromoteClean ==
  ASSUME CleanInv, Promotes
  PROVE  /\ journal'.phase \in {"none", "prepared"}
         /\ derived' = Clean(facts) /\ UNCHANGED facts
         /\ journal' # NoIntent => Active'.reads = ReadKeys(Active)'
<1>1. TablesOK /\ journal = NoIntent
  BY TypedParts DEF CleanInv, SnapshotInv, Promotes
<1>2. PICK n \in DOMAIN queue : Oldest(n) /\ PromoteTx(n)
  BY DEF Promotes
<1>3. UNCHANGED <<facts, derived, version>>
  BY DEF Promotes
<1>4. /\ DOMAIN queue' = DOMAIN queue
      /\ \A field \in {"op", "index", "new", "old", "base"} : queue'[n][field] = queue[n][field]
      /\ \/ journal' = NoIntent
         \/ /\ queue'[n].reads = ReadKeys(queue[n])
            /\ journal' = [seq |-> n, phase |-> "prepared", affected |-> {}]
  BY <1>1, <1>2, <1>3, PromoteTyped DEF Promoted
<1>5. journal'.phase \in {"none", "prepared"}
  BY <1>4 DEF NoIntent
<1>6. derived = Clean(facts)
  BY <1>1 DEF CleanInv, Settled, NoIntent
<1>7. ASSUME journal' # NoIntent
      PROVE  Active'.reads = ReadKeys(Active)'
  <2>1. Active' = queue'[n] /\ Active'.reads = ReadKeys(queue[n])
    BY <1>4, <1>7 DEF Active
  <2>2. /\ Active'.op = queue[n].op /\ Active'.index = queue[n].index
        /\ Active'.new = queue[n].new /\ Active'.old = queue[n].old
    BY <1>4, <2>1
  <2>3. ReadKeys(Active)' = ReadKeys(queue[n])
    BY <1>3, <2>2 DEF ReadKeys
  <2> QED
    BY <2>1, <2>3
<1> QED
  BY <1>3, <1>5, <1>6, <1>7

LEMMA CleanStep ==
  ASSUME OneProcess, CleanInv, [Next]_vars
  PROVE  CleanInv'
<1>1. SnapshotInv' /\ \A w \in Worker : pc'[w] = "repaired" => journal'.phase = "repaired"
  BY SnapshotStep, ProcessStep DEF CleanInv
<1>2. Work /\ TablesOK
  BY NextWorks, TypedParts DEF CleanInv, SnapshotInv
<1>3. SUFFICES /\ journal'.phase \in Settled => derived' = Clean(facts)'
               /\ journal'.phase \in Midway => \E f : MidwayFrom(f)'
               /\ journal' # NoIntent => Active'.reads = ReadKeys(Active)'
  BY <1>1 DEF CleanInv
<1>4. CASE Client
  <2>1. UNCHANGED <<facts, derived, journal>> /\ (journal # NoIntent => Active' = Active)
    BY <1>4, ClientKeepsActive DEF CleanInv
  <2>2. journal.phase \in Midway => journal # NoIntent
    BY HeldPhase DEF Midway, Phase
  <2>3. \A f : MidwayFrom(f) /\ journal # NoIntent => MidwayFrom(f)'
    BY <2>1 DEF MidwayFrom
  <2>4. journal' # NoIntent => ReadKeys(Active)' = ReadKeys(Active)
    BY <2>1 DEF ReadKeys
  <2> QED
    BY <2>1, <2>2, <2>3, <2>4 DEF CleanInv
<1>5. CASE UNCHANGED Tables
  BY <1>5 DEF Tables, CleanInv, MidwayFrom, Active, ReadKeys
<1>6. CASE ApplyTx
  BY <1>6, ApplyClean DEF Settled
<1>7. CASE InvalidateTx \/ PartialTx \/ RepairTx
  <2>1. UNCHANGED <<facts, queue>>
    BY <1>7 DEF InvalidateTx, PartialTx, RepairTx
  <2>2. journal # NoIntent
    BY <1>7, HeldPhase DEF InvalidateTx, PartialTx, RepairTx, Phase
  <2>3. journal \in [seq : DOMAIN queue, phase : Phase, affected : SUBSET Node]
    BY <1>2, <2>2, ActiveTyped
  <2>4. Active' = Active /\ ReadKeys(Active)' = ReadKeys(Active)
    BY <1>7, <2>1, <2>3 DEF InvalidateTx, PartialTx, RepairTx, Active, ReadKeys
  <2>5. \/ journal'.phase \in {"invalidated", "rebuilding"} /\ \E f : MidwayFrom(f)'
        \/ journal'.phase = "repaired" /\ derived' = Clean(facts)
    BY <1>7, InvalidateClean, PartialClean, RepairClean
  <2> QED
    BY <2>1, <2>2, <2>4, <2>5 DEF CleanInv, Settled, Midway
<1>8. CASE FinalizeTx
  <2>1. journal # NoIntent /\ journal' = NoIntent /\ UNCHANGED <<facts, derived>>
    BY <1>8 DEF FinalizeTx
  <2>2. Next
    BY <2>1 DEF vars
  <2>3. journal.phase = "repaired"
    BY <2>1, <2>2, FinalizedWhenRepaired
  <2> QED
    BY <2>1, <2>3 DEF CleanInv, Settled, Midway, NoIntent
<1>9. CASE Promotes
  BY <1>9, PromoteClean DEF Midway
<1> QED
  BY <1>2, <1>4, <1>5, <1>6, <1>7, <1>8, <1>9 DEF Work

LEMMA InitClean == Init => CleanInv
BY InitSnapshot DEF Init, CleanInv, NoIntent, Settled, Midway

\* A clean context says what its row says.
LEMMA ContextIs ==
  ASSUME NEW f, NEW s \in Subject, derived[<<"context", s>>] = Clean(f)[<<"context", s>>]
  PROVE  Context(s) = Clean(f)[<<"context", s>>].value
<1>1. <<"context", s>> \in Node
  BY DEF Node, Kind
<1>2. CASE Held(f, s)
  BY <1>1, <1>2 DEF Context, Fresh, Clean, FreshRow
<1>3. CASE ~ Held(f, s)
  BY <1>1, <1>3 DEF Context, Fresh, Clean, NoNode
<1> QED
  BY <1>2, <1>3

LEMMA CleanReads == CleanInv => QuietIsClean /\ ReadsAreCurrent
<1> SUFFICES ASSUME CleanInv
             PROVE  QuietIsClean /\ ReadsAreCurrent
  OBVIOUS
<1>1. QuietIsClean
  BY DEF CleanInv, Settled, QuietIsClean
<1>2. journal # NoIntent =>
        journal \in [seq : DOMAIN queue, phase : Phase, affected : SUBSET Node]
  BY ActiveTyped, TypedParts DEF CleanInv, SnapshotInv
<1>3. journal.phase \in Settled \cup Midway
  BY <1>2 DEF Settled, Midway, Phase, NoIntent
<1>4. ASSUME NEW s \in Subject, ~ Blocked(s)
      PROVE  Context(s) = Clean(facts)[<<"context", s>>].value
  <2>1. CASE journal.phase \in Settled
    BY <2>1, ContextIs DEF CleanInv
  <2>2. CASE journal.phase \in Midway
    <3>1. PICK f : MidwayFrom(f)
      BY <2>2 DEF CleanInv
    <3>2. s \notin ReadKeys(Active)
      BY <1>4, <2>2, HeldPhase DEF Blocked, CleanInv, Midway, Phase
    <3>3. Fits(f, Active) /\ facts = Effect(f, Active)
      BY <3>1 DEF MidwayFrom
    <3>4. <<"context", s>> \in Node
      BY DEF Node, Kind
    <3>5. <<"context", s>> \notin Region(f, Active)
      <4>1. CASE Active.op = "evidence"
        <5>1. facts.assertion = f.assertion
          BY <3>3, <4>1 DEF Effect, Fits, Facts
        <5>2. s # f.assertion[Active.index].subject
          BY <3>2, <4>1, <5>1, NoneAssumption DEF ReadKeys
        <5> QED
          BY <3>3, <4>1, <5>2, LatestIs DEF Region, Fits
      <4>2. CASE Active.op = "assertion"
        BY <3>2, <4>2 DEF ReadKeys, Region
      <4>3. CASE Active.op = "delete"
        BY <3>2, <4>3 DEF ReadKeys, Region
      <4> QED
        BY <3>3, <4>1, <4>2, <4>3 DEF Fits, IsIntent
    <3>6. derived[<<"context", s>>] = Clean(f)[<<"context", s>>]
      BY <3>1, <3>4, <3>5 DEF MidwayFrom, Damaged
    <3>7. Clean(facts)[<<"context", s>>] = Clean(f)[<<"context", s>>]
      BY <3>3, <3>4, <3>5, OutsideIsUnchanged
    <3> QED
      BY <3>6, <3>7, ContextIs
  <2> QED
    BY <1>3, <2>1, <2>2
<1> QED
  BY <1>1, <1>4 DEF ReadsAreCurrent

LEMMA CleanInvariance ==
  ASSUME OneProcess
  PROVE  Spec => []CleanInv
<1>1. CleanInv /\ [Next]_vars => CleanInv'
  BY CleanStep
<1> QED
  BY <1>1, InitClean, PTL DEF Spec

\* With one process, whatever it does and wherever it is killed: when no
\* maintenance is under way what is derived is what a full rebuild would give.
THEOREM MaterializationIsClean ==
  ASSUME OneProcess
  PROVE  Spec => []QuietIsClean
<1>1. CleanInv => QuietIsClean
  BY CleanReads
<1> QED
  BY <1>1, CleanInvariance, PTL

\* With one process, a read that is admitted returns what the facts say now.
THEOREM ReadsHold ==
  ASSUME OneProcess
  PROVE  Spec => []ReadsAreCurrent
<1>1. CleanInv => ReadsAreCurrent
  BY CleanReads
<1> QED
  BY <1>1, CleanInvariance, PTL

-----------------------------------------------------------------------------
(* The log of intents, for one process *)

\* The log an onlooker sees in the queue, entry by entry.
AskOf(q) == [op |-> q.op, index |-> q.index, new |-> q.new]
Entry(n) == [intent |-> AskOf(queue[n]), base |-> queue[n].base, fate |-> Fate(n)]
Entries == [n \in DOMAIN queue |-> Entry(n)]

LogEntry ==
  [intent : [op : {"evidence", "assertion", "delete"}, index : Entity, new : Row \cup {NoRow}],
   base : Nat, fate : {"pending", "applied", "refused"}]

\* The intents that have changed k.
AppliedTo(k) == {n \in DOMAIN queue : Fate(n) = "applied" /\ Key(queue[n]) = k}

\* The version of a row counts the intents that changed it, and no intent in
\* front of the active one still waits.
CountsHold == \A k \in WriteKey : version[k] = Cardinality(AppliedTo(k))
NoneInFront ==
  journal # NoIntent => \A m \in 1 .. journal.seq - 1 : queue[m].status # "queued"

LogInv == CleanInv /\ CountsHold /\ NoneInFront

\* What LogInv rests on.
LEMMA LogInvParts ==
  ASSUME LogInv
  PROVE  CleanInv /\ SnapshotInv /\ TypedInv /\ TablesOK
BY TypedParts DEF LogInv, CleanInv, SnapshotInv

\* The counting of IntentLog is that of the pipeline.
LEMMA SameCount == \A S : Log!Cardinality(S) = Cardinality(S)
BY DEF Log!Cardinality, Cardinality

\* What an intent asks for says what it writes and what it does.
LEMMA KeyOfAsk == \A q : Key(AskOf(q)) = Key(q)
BY DEF Key, AskOf

LEMMA EffectOfAsk == \A f, q : Effect(f, AskOf(q)) = Effect(f, q)
BY DEF Effect, AskOf

\* The log, entry by entry.
LEMMA EntriesAt ==
  /\ DOMAIN Entries = DOMAIN queue
  /\ \A n \in DOMAIN queue :
       /\ Entries[n] = Entry(n)
       /\ Entries[n].intent = AskOf(queue[n])
       /\ Entries[n].base = queue[n].base
       /\ Entries[n].fate = Fate(n)
BY DEF Entries, Entry

\* The changes the log counts are the intents that were applied to a row.
LEMMA ChangesAre ==
  ASSUME NEW k
  PROVE  Log!Changes(k) = Cardinality(AppliedTo(k))
<1>1. Log!Changes(k) =
        Log!Cardinality({n \in DOMAIN Entries :
          Entries[n].fate = "applied" /\ Key(Entries[n].intent) = k})
  BY DEF Log!Changes, Entries, Entry, AskOf
<1>2. {n \in DOMAIN Entries : Entries[n].fate = "applied" /\ Key(Entries[n].intent) = k}
        = AppliedTo(k)
  BY EntriesAt, KeyOfAsk DEF AppliedTo
<1> QED
  BY <1>1, <1>2, SameCount

\* They are finitely many.
LEMMA FiniteChanges ==
  ASSUME TablesOK, NEW k
  PROVE  IsFiniteSet(AppliedTo(k))
<1>1. DOMAIN queue = 1 .. Len(queue) /\ Len(queue) \in Nat
  BY DEF TablesOK
<1>2. IsFiniteSet(1 .. Len(queue))
  BY <1>1, FS_Interval
<1>3. AppliedTo(k) \in SUBSET (1 .. Len(queue))
  BY <1>1 DEF AppliedTo
<1> QED
  BY <1>2, <1>3, FS_Subset


\* A step that leaves what the entries ask for.
Keeps ==
  /\ DOMAIN queue' = DOMAIN queue
  /\ \A m \in DOMAIN queue :
       AskOf(queue'[m]) = AskOf(queue[m]) /\ queue'[m].base = queue[m].base

\* What a field-by-field account of the queue says of it.
LEMMA FieldsKeep ==
  ASSUME DOMAIN queue' = DOMAIN queue,
         \A m \in DOMAIN queue :
           \A field \in {"op", "index", "new", "old", "base"} :
             queue'[m][field] = queue[m][field]
  PROVE  Keeps
<1>1. \A m \in DOMAIN queue :
        /\ queue'[m].op = queue[m].op /\ queue'[m].index = queue[m].index
        /\ queue'[m].new = queue[m].new /\ queue'[m].base = queue[m].base
  OBVIOUS
<1> QED
  BY <1>1 DEF Keeps, AskOf

\* When no fate changes, nothing happens to the log.
LEMMA FatesKept ==
  ASSUME Keeps, \A m \in DOMAIN queue : Fate(m)' = Fate(m)
  PROVE  /\ Entries' = Entries
         /\ \A k : AppliedTo(k)' = AppliedTo(k)
<1>1. \A m \in DOMAIN queue : Key(queue'[m]) = Key(queue[m])
  BY KeyOfAsk DEF Keeps
<1>2. \A m \in DOMAIN queue : Entry(m)' = Entry(m)
  BY DEF Keeps, Entry
<1>3. Entries' = Entries
  BY <1>2 DEF Keeps, Entries
<1>4. \A k : AppliedTo(k)' = AppliedTo(k)
  BY <1>1 DEF Keeps, AppliedTo
<1> QED
  BY <1>3, <1>4

\* When one does, its entry in the log is all that changes.
LEMMA FateChanged ==
  ASSUME Keeps, NEW n \in DOMAIN queue,
         \A m \in DOMAIN queue : m # n => Fate(m)' = Fate(m)
  PROVE  Entries' = [Entries EXCEPT ![n].fate = Fate(n)']
<1> DEFINE E == [Entries EXCEPT ![n].fate = Fate(n)']
<1>1. \A m \in DOMAIN queue : m # n => Entry(m)' = Entry(m)
  BY DEF Keeps, Entry
<1>2. Entry(n)' = [intent |-> AskOf(queue[n]), base |-> queue[n].base, fate |-> Fate(n)']
  BY DEF Keeps, Entry
<1>3. Entries[n] = [intent |-> AskOf(queue[n]), base |-> queue[n].base, fate |-> Fate(n)]
  BY EntriesAt DEF Entry
<1>4. E = [Entries EXCEPT ![n] = [Entries[n] EXCEPT !.fate = Fate(n)']]
  OBVIOUS
<1>5. [Entries[n] EXCEPT !.fate = Fate(n)'] = Entry(n)'
  BY <1>2, <1>3
<1>6. E = [m \in DOMAIN queue |-> IF m = n THEN Entry(n)' ELSE Entry(m)]
  BY <1>4, <1>5 DEF Entries
<1>7. Entries' = [m \in DOMAIN queue |-> Entry(m)']
  BY DEF Entries, Keeps
<1> HIDE DEF E
<1>8. E = Entries'
  BY <1>1, <1>6, <1>7
<1> QED
  BY <1>8 DEF E

\* Turn, in terms of the queue.
LEMMA TurnIs ==
  ASSUME NEW n \in DOMAIN queue, TablesOK
  PROVE  Log!Turn(n) <=> Fate(n) = "pending" /\ \A m \in 1 .. n-1 : Fate(m) # "pending"
<1>1. Log!Turn(n) <=> Entries[n].fate = "pending" /\ \A m \in 1 .. n-1 : Entries[m].fate # "pending"
  BY DEF Log!Turn, Entries, Entry, AskOf
<1>2. \A m \in 1 .. n-1 : m \in DOMAIN queue
  BY DEF TablesOK
<1> QED
  BY <1>1, <1>2, EntriesAt

\* A step that applies the intent whose turn it is.
LEMMA LogApplies ==
  ASSUME TablesOK, NEW n \in DOMAIN queue, Log!Turn(n),
         queue[n].base = Cardinality(AppliedTo(Key(queue[n]))),
         facts' = Effect(facts, queue[n]),
         Entries' = [Entries EXCEPT ![n].fate = "applied"]
  PROVE  Log!LogNext
<1>1. Entries[n].base = Log!Changes(Key(Entries[n].intent))
  BY EntriesAt, ChangesAre, KeyOfAsk
<1>2. facts' = Effect(facts, Entries[n].intent)
  BY EntriesAt, EffectOfAsk
<1>3. Log!Apply(n)
  BY <1>1, <1>2 DEF Log!Apply, Entries, Entry, AskOf
<1>4. n \in DOMAIN Entries
  BY EntriesAt
<1> QED
  BY <1>3, <1>4 DEF Log!LogNext, Entries, Entry, AskOf

\* A step that refuses it, its row having changed.
LEMMA LogRefuses ==
  ASSUME TablesOK, NEW n \in DOMAIN queue, Log!Turn(n),
         queue[n].base # Cardinality(AppliedTo(Key(queue[n]))),
         UNCHANGED facts,
         Entries' = [Entries EXCEPT ![n].fate = "refused"]
  PROVE  Log!LogNext
<1>1. Entries[n].base # Log!Changes(Key(Entries[n].intent))
  BY EntriesAt, ChangesAre, KeyOfAsk
<1>2. Log!Refuse(n)
  BY <1>1 DEF Log!Refuse, Entries, Entry, AskOf
<1>3. n \in DOMAIN Entries
  BY EntriesAt
<1> QED
  BY <1>2, <1>3 DEF Log!LogNext, Entries, Entry, AskOf

\* A step that appends an intent with the changes made so far.
LEMMA LogAdmits ==
  ASSUME NEW op \in {"evidence", "assertion", "delete"}, NEW index \in Entity,
         NEW new \in Row \cup {NoRow}, NEW i, i = [op |-> op, index |-> index, new |-> new],
         UNCHANGED facts,
         Entries' = Append(Entries, [intent |-> i, base |-> Cardinality(AppliedTo(Key(i))),
                                     fate |-> "pending"])
  PROVE  Log!LogNext
<1>1. i \in [op : {"evidence", "assertion", "delete"}, index : Entity, new : Row \cup {NoRow}]
  OBVIOUS
<1>2. Log!Admit(i)
  BY ChangesAre DEF Log!Admit, Entries, Entry, AskOf
<1> QED
  BY <1>1, <1>2 DEF Log!LogNext

\* A step is one of the log's, or leaves it.
LogMove == Log!LogNext \/ UNCHANGED <<facts, Entries>>

Kept == CountsHold' /\ NoneInFront' /\ LogMove

\* The fates of two states of an entry.
LEMMA FateIs ==
  ASSUME NEW n \in DOMAIN queue
  PROVE  /\ queue[n].status = "queued" => Fate(n) = "pending"
         /\ queue[n].status = "active" =>
              Fate(n) = IF journal.phase = "prepared" THEN "pending" ELSE "applied"
         /\ queue[n].status = "done" => Fate(n) = "applied"
         /\ queue[n].status = "conflict" => Fate(n) = "refused"
BY DEF Fate

\* What is pending is queued, or active and not applied yet.
LEMMA StatusTyped ==
  ASSUME TablesOK, NEW n \in DOMAIN queue
  PROVE  /\ queue[n].status \in {"queued", "active", "done", "conflict"}
         /\ Fate(n) \in {"pending", "applied", "refused"}
         /\ Fate(n) = "pending" =>
              \/ queue[n].status = "queued"
              \/ queue[n].status = "active" /\ journal.phase = "prepared"
<1>1. queue[n] \in QueueRow
  BY DEF TablesOK
<1>2. queue[n].status \in {"queued", "active", "done", "conflict"}
  BY <1>1 DEF QueueRow
<1> QED
  BY <1>2, FateIs

\* The log is a sequence as long as the queue.
LEMMA EntriesTyped ==
  ASSUME TablesOK
  PROVE  Entries \in Seq(LogEntry) /\ Len(Entries) = Len(queue)
<1>1. DOMAIN queue = 1 .. Len(queue) /\ Len(queue) \in Nat
  BY DEF TablesOK
<1>2. ASSUME NEW n \in DOMAIN queue
      PROVE  Entry(n) \in LogEntry
  <2>1. queue[n] \in QueueRow
    BY DEF TablesOK
  <2>2. AskOf(queue[n]) \in
          [op : {"evidence", "assertion", "delete"}, index : Entity, new : Row \cup {NoRow}]
    BY <2>1 DEF AskOf, QueueRow
  <2>3. Fate(n) \in {"pending", "applied", "refused"} /\ queue[n].base \in Nat
    BY <2>1, StatusTyped DEF QueueRow
  <2> QED
    BY <2>2, <2>3 DEF Entry, LogEntry
<1>3. Entries \in [1 .. Len(queue) -> LogEntry]
  BY <1>1, <1>2 DEF Entries
<1> QED
  BY <1>1, <1>3

\* An intent admitted is appended to the log.
LEMMA ClientLogs ==
  ASSUME LogInv, Client
  PROVE  Kept
<1>0. CleanInv /\ TypedInv /\ TablesOK /\ facts \in Facts
  BY LogInvParts DEF TablesOK
<1>1. PICK op, index, new, old :
        Asked([op |-> op, index |-> index, new |-> new, old |-> old])
  BY <1>0, ClientAdmits
<1>m. PICK m : m = Len(queue) + 1
  OBVIOUS
<1> DEFINE i == [op |-> op, index |-> index, new |-> new, old |-> old]
<1>2. /\ op \in {"evidence", "assertion", "delete"} /\ index \in Entity
      /\ new \in Row \cup {NoRow}
      /\ Key(i) \in WriteKey
  BY <1>1, KeyTyped DEF Asked, IsIntent
<1>3. /\ queue' \in Seq(QueueRow)
      /\ Len(queue') = m
      /\ \A n \in 1 .. Len(queue) : queue'[n] = queue[n]
      /\ queue'[m].status = "queued"
      /\ UNCHANGED <<facts, derived, version, journal, pc>>
  BY <1>0, <1>1, <1>m, AskedAppends
<1>4. queue'[m] = [op |-> op, index |-> index, new |-> new, old |-> old,
                   base |-> version[Key(i)], reads |-> ReadKeys(i), status |-> "queued"]
  BY <1>0, <1>1, <1>m DEF Asked, Admit, TablesOK
<1>5. AskOf(queue'[m]) = [op |-> op, index |-> index, new |-> new]
      /\ queue'[m].base = version[Key(i)]
  BY <1>4 DEF AskOf
<1>6. DOMAIN queue = 1 .. Len(queue) /\ DOMAIN queue' = 1 .. m /\ Len(queue) \in Nat
  BY <1>0, <1>3, <1>m DEF TablesOK
<1>7. \A n \in DOMAIN queue : Fate(n)' = Fate(n)
  BY <1>3, <1>6 DEF Fate
<1>8. Fate(m)' = "pending"
  BY <1>3 DEF Fate
<1>9. \A k : AppliedTo(k)' = AppliedTo(k)
  <2>1. \A n \in DOMAIN queue' : n \in DOMAIN queue \/ n = m
    BY <1>6, <1>m
  <2>2. \A n \in DOMAIN queue : n \in DOMAIN queue' /\ n # m /\ queue'[n] = queue[n]
    BY <1>3, <1>6, <1>m
  <2> QED
    BY <1>7, <1>8, <2>1, <2>2 DEF AppliedTo
<1>10. CountsHold'
  BY <1>3, <1>9 DEF LogInv, CountsHold
<1>11. NoneInFront'
  <2>1. journal # NoIntent => journal.seq \in 1 .. Len(queue)
    BY <1>0, <1>6, ActiveTyped
  <2> QED
    BY <1>3, <1>6, <2>1 DEF LogInv, NoneInFront
<1> DEFINE a == [op |-> op, index |-> index, new |-> new]
           e == [intent |-> a, base |-> Cardinality(AppliedTo(Key(a))), fate |-> "pending"]
<1>12. Key(a) = Key(i)
  BY DEF Key
<1>13. queue'[m].base = Cardinality(AppliedTo(Key(a)))
  BY <1>2, <1>5, <1>12 DEF LogInv, CountsHold
<1>14. Entry(m)' = e
  <2>1. Entry(m)' = [intent |-> AskOf(queue'[m]), base |-> queue'[m].base, fate |-> Fate(m)']
    BY DEF Entry
  <2> QED
    BY <1>5, <1>8, <1>13, <2>1
<1>15. Entries \in Seq(LogEntry) /\ Len(Entries) = Len(queue)
  BY <1>0, EntriesTyped
<1>16. e \in LogEntry
  <2>1. a \in [op : {"evidence", "assertion", "delete"}, index : Entity, new : Row \cup {NoRow}]
    BY <1>2
  <2>2. Cardinality(AppliedTo(Key(a))) \in Nat
    BY <1>0, FiniteChanges, FS_CardinalityType
  <2> QED
    BY <2>1, <2>2 DEF LogEntry
<1>17. Entries' = Append(Entries, e)
  <2>1. Entries' = [n \in 1 .. m |-> Entry(n)']
    BY <1>6 DEF Entries
  <2>2. \A n \in 1 .. Len(queue) : Entry(n)' = Entry(n) /\ Entries[n] = Entry(n)
    BY <1>3, <1>6, <1>7, EntriesAt DEF Entry
  <2> HIDE DEF e
  <2>3. PICK L : L = Append(Entries, e)
    OBVIOUS
  <2>4. /\ L \in Seq(LogEntry) /\ Len(L) = m
        /\ \A n \in 1 .. Len(queue) : L[n] = Entries[n]
        /\ L[m] = e
    BY <1>15, <1>16, <2>3, <1>m, AppendProperties
  <2>5. L = [n \in 1 .. m |-> L[n]]
    BY <2>4
  <2>6. ASSUME NEW n \in 1 .. m
        PROVE  L[n] = Entry(n)'
    <3>1. n \in 1 .. Len(queue) \/ n = m
      BY <1>6, <1>m
    <3> QED
      BY <1>14, <2>2, <2>4, <3>1
  <2> QED
    BY <2>1, <2>3, <2>5, <2>6
<1>18. Log!LogNext
  BY <1>2, <1>3, <1>17, LogAdmits
<1> QED
  BY <1>10, <1>11, <1>18 DEF Kept, LogMove

\* The active intent has its turn, and takes effect in one step.
LEMMA ApplyLogs ==
  ASSUME LogInv, ApplyTx
  PROVE  Kept
<1>0. CleanInv /\ SnapshotInv /\ TablesOK /\ journal # NoIntent
  BY LogInvParts, HeldPhase DEF ApplyTx, Phase
<1>n. PICK n : n = journal.seq
  OBVIOUS
<1>1. /\ journal \in [seq : DOMAIN queue, phase : Phase, affected : SUBSET Node]
      /\ n \in DOMAIN queue /\ queue[n].status = "active"
      /\ Active = queue[n] /\ Key(Active) \in WriteKey
  BY <1>0, <1>n, ActiveTyped DEF Active
<1>2. /\ UNCHANGED queue /\ facts' = Effect(facts, queue[n])
      /\ version' = [version EXCEPT ![Key(queue[n])] = version[Key(queue[n])] + 1]
      /\ journal.phase = "prepared"
      /\ journal'.phase = "canonical_applied" /\ journal'.seq = n
  BY <1>1, <1>n DEF ApplyTx
<1>3. Fate(n) = "pending" /\ Fate(n)' = "applied"
  BY <1>1, <1>2 DEF Fate
<1>4. \A m \in DOMAIN queue : m # n => queue[m].status # "active"
  BY <1>0, <1>n DEF TablesOK
<1>5. \A m \in DOMAIN queue : m # n => Fate(m)' = Fate(m)
  BY <1>2, <1>4 DEF Fate
<1>6. Keeps
  BY <1>2 DEF Keeps
<1>7. Entries' = [Entries EXCEPT ![n].fate = "applied"]
  <2>1. Entries' = [Entries EXCEPT ![n].fate = Fate(n)']
    BY <1>1, <1>5, <1>6, FateChanged
  <2> QED
    BY <1>3, <2>1
<1>8. queue[n].base = Cardinality(AppliedTo(Key(queue[n])))
  BY <1>0, <1>1, <1>2 DEF SnapshotInv, LogInv, CountsHold
<1>9. \A m \in 1 .. n-1 : Fate(m) # "pending"
  <2>1. \A m \in 1 .. n-1 : m \in DOMAIN queue /\ m # n
    BY <1>0, <1>1 DEF TablesOK
  <2>2. \A m \in 1 .. n-1 : queue[m].status # "queued" /\ queue[m].status # "active"
    BY <1>0, <1>4, <1>n, <2>1 DEF LogInv, NoneInFront
  <2> QED
    BY <1>0, <2>1, <2>2, StatusTyped
<1>10. Log!LogNext
  BY <1>0, <1>1, <1>2, <1>3, <1>7, <1>8, <1>9, TurnIs, LogApplies
<1>11. ASSUME NEW k \in WriteKey
       PROVE  version'[k] = Cardinality(AppliedTo(k)')
  <2>1. version[k] = Cardinality(AppliedTo(k)) /\ IsFiniteSet(AppliedTo(k))
    BY <1>0, FiniteChanges DEF LogInv, CountsHold
  <2>2. n \notin AppliedTo(k)
    BY <1>3 DEF AppliedTo
  <2>3. CASE k = Key(queue[n])
    <3>1. AppliedTo(k)' = AppliedTo(k) \cup {n}
      BY <1>1, <1>2, <1>3, <1>5, <2>3 DEF AppliedTo
    <3>2. Cardinality(AppliedTo(k) \cup {n}) = Cardinality(AppliedTo(k)) + 1
      BY <2>1, <2>2, FS_AddElement
    <3>3. version'[k] = version[k] + 1
      BY <1>0, <1>2, <2>3 DEF TablesOK
    <3> QED
      BY <2>1, <3>1, <3>2, <3>3
  <2>4. CASE k # Key(queue[n])
    <3>1. AppliedTo(k)' = AppliedTo(k)
      BY <1>1, <1>2, <1>3, <1>5, <2>4 DEF AppliedTo
    <3>2. version'[k] = version[k]
      BY <1>0, <1>2, <2>4 DEF TablesOK
    <3> QED
      BY <2>1, <3>1, <3>2
  <2> QED
    BY <2>3, <2>4
<1>12. NoneInFront'
  BY <1>0, <1>2, <1>n DEF LogInv, NoneInFront
<1> QED
  BY <1>10, <1>11, <1>12 DEF Kept, LogMove, CountsHold

\* Invalidation and repair are not seen in the log.
LEMMA MaintenanceLogs ==
  ASSUME LogInv, InvalidateTx \/ PartialTx \/ RepairTx
  PROVE  Kept
<1>0. TablesOK /\ journal # NoIntent
  BY LogInvParts, HeldPhase DEF InvalidateTx, PartialTx, RepairTx, Phase
<1>1. journal \in [seq : DOMAIN queue, phase : Phase, affected : SUBSET Node]
  BY <1>0, ActiveTyped
<1>2. /\ UNCHANGED <<facts, version, queue>> /\ journal'.seq = journal.seq
      /\ journal.phase # "prepared" /\ journal'.phase # "prepared"
  BY <1>1 DEF InvalidateTx, PartialTx, RepairTx
<1>3. \A m \in DOMAIN queue : Fate(m)' = Fate(m)
  BY <1>2 DEF Fate
<1>4. Keeps
  BY <1>2 DEF Keeps
<1>5. Entries' = Entries /\ \A k : AppliedTo(k)' = AppliedTo(k)
  BY <1>3, <1>4, FatesKept
<1>6. CountsHold'
  BY <1>2, <1>5 DEF LogInv, CountsHold
<1>7. NoneInFront'
  BY <1>0, <1>2 DEF LogInv, NoneInFront
<1> QED
  BY <1>2, <1>5, <1>6, <1>7 DEF Kept, LogMove

\* One process ends an intent that has been applied.
LEMMA FinalizeLogs ==
  ASSUME LogInv, FinalizeTx, journal.phase = "repaired"
  PROVE  Kept
<1>0. TablesOK /\ journal # NoIntent
  BY LogInvParts DEF FinalizeTx
<1>n. PICK n : n = journal.seq
  OBVIOUS
<1>1. n \in DOMAIN queue /\ queue[n] \in QueueRow /\ queue[n].status = "active"
  BY <1>0, <1>n, ActiveTyped DEF Active
<1>2. /\ queue' = [queue EXCEPT ![n].status = "done"]
      /\ journal' = NoIntent /\ UNCHANGED <<facts, version>>
  BY <1>1, <1>n DEF FinalizeTx, Active
<1>3. /\ DOMAIN queue' = DOMAIN queue
      /\ \A m \in DOMAIN queue :
           \A field \in {"op", "index", "new", "old", "base"} :
             queue'[m][field] = queue[m][field]
  BY <1>0, FinalizeTyped
<1>4. Keeps
  BY <1>3, FieldsKeep
<1>5. /\ queue'[n].status = "done"
      /\ \A m \in DOMAIN queue : m # n => queue'[m] = queue[m]
  BY <1>0, <1>1, <1>2 DEF TablesOK, QueueRow
<1>6. \A m \in DOMAIN queue : m # n => queue[m].status # "active"
  BY <1>0, <1>n DEF TablesOK
<1>7. \A m \in DOMAIN queue : Fate(m)' = Fate(m)
  BY <1>0, <1>1, <1>5, <1>6, StatusTyped DEF Fate
<1>8. Entries' = Entries /\ \A k : AppliedTo(k)' = AppliedTo(k)
  BY <1>4, <1>7, FatesKept
<1>9. CountsHold' /\ NoneInFront'
  BY <1>2, <1>8 DEF LogInv, CountsHold, NoneInFront
<1> QED
  BY <1>2, <1>8, <1>9 DEF Kept, LogMove

\* Promotion is not seen in the log; a refusal is.
LEMMA PromoteLogs ==
  ASSUME LogInv, Promotes
  PROVE  Kept
<1>0. TablesOK /\ journal = NoIntent
  BY LogInvParts DEF Promotes
<1>1. PICK n \in DOMAIN queue : Oldest(n) /\ PromoteTx(n)
  BY DEF Promotes
<1>2. UNCHANGED <<facts, version>> /\ queue[n].status = "queued" /\ queue[n] \in QueueRow
  BY <1>0, <1>1 DEF Promotes, Oldest, TablesOK
<1>3. Promoted(n)
  BY <1>0, <1>1, PromoteTyped DEF Promotes
<1>4. Keeps
  BY <1>3, FieldsKeep DEF Promoted
<1>5. \A m \in DOMAIN queue : queue[m].status # "active"
  BY <1>0 DEF TablesOK, NoIntent
<1>6. \A m \in DOMAIN queue : m # n => Fate(m)' = Fate(m)
  BY <1>0, <1>3, <1>5, StatusTyped DEF Promoted, Fate
<1>7. \A m \in 1 .. n-1 : m \in DOMAIN queue /\ m # n /\ queue[m].status # "queued"
  BY <1>0, <1>1 DEF TablesOK, Oldest
<1>8. Key(queue[n]) \in WriteKey
  BY <1>0, KeyTyped DEF TablesOK, Intents
<1>9. CASE queue[n].base = version[Key(queue[n])]
  <2>1. /\ journal' = [NoIntent EXCEPT !.seq = n, !.phase = "prepared"]
        /\ queue' = [queue EXCEPT ![n].status = "active", ![n].reads = ReadKeys(queue[n])]
    BY <1>1, <1>9 DEF PromoteTx
  <2>2. journal' = [seq |-> n, phase |-> "prepared", affected |-> {}]
    BY <2>1 DEF NoIntent
  <2>3. queue'[n].status = "active"
    BY <1>3, <2>2 DEF Promoted, NoIntent
  <2>4. Fate(n)' = Fate(n)
    BY <1>2, <2>2, <2>3 DEF Fate
  <2>5. Entries' = Entries /\ \A k : AppliedTo(k)' = AppliedTo(k)
    BY <1>4, <1>6, <2>4, FatesKept
  <2>6. NoneInFront'
    BY <1>3, <1>7, <2>2 DEF NoneInFront, Promoted
  <2> QED
    BY <1>2, <2>5, <2>6 DEF Kept, LogMove, LogInv, CountsHold
<1>10. CASE queue[n].base # version[Key(queue[n])]
  <2>1. journal' = NoIntent
    BY <1>0, <1>1, <1>10 DEF PromoteTx
  <2>2. queue'[n].status = "conflict"
    BY <1>3, <1>10 DEF Promoted
  <2>3. Fate(n)' = "refused" /\ Fate(n) = "pending"
    BY <1>2, <2>2 DEF Fate
  <2>4. Entries' = [Entries EXCEPT ![n].fate = "refused"]
    BY <1>4, <1>6, <2>3, FateChanged
  <2>5. \A m \in 1 .. n-1 : Fate(m) # "pending"
    BY <1>0, <1>5, <1>7, StatusTyped
  <2>6. queue[n].base # Cardinality(AppliedTo(Key(queue[n])))
    BY <1>8, <1>10 DEF LogInv, CountsHold
  <2>7. Log!LogNext
    BY <1>0, <1>2, <2>3, <2>4, <2>5, <2>6, TurnIs, LogRefuses
  <2>8. \A k : AppliedTo(k)' = AppliedTo(k)
    <3>1. \A m \in DOMAIN queue : Key(queue'[m]) = Key(queue[m])
      BY <1>4, KeyOfAsk DEF Keeps
    <3> QED
      BY <1>4, <1>6, <2>3, <3>1 DEF AppliedTo, Keeps
  <2>9. CountsHold' /\ NoneInFront'
    BY <1>2, <2>1, <2>8 DEF LogInv, CountsHold, NoneInFront
  <2> QED
    BY <2>7, <2>9 DEF Kept, LogMove
<1> QED
  BY <1>9, <1>10

\* Every step of the one process keeps the invariant and is one of the log's.
LEMMA LogStep ==
  ASSUME OneProcess, LogInv, [Next]_vars
  PROVE  LogInv' /\ LogMove
<1>1. CleanInv' /\ Work
  BY CleanStep, NextWorks, LogInvParts
<1>2. CASE UNCHANGED Tables
  <2>1. UNCHANGED <<facts, version, queue, journal>>
    BY <1>2 DEF Tables
  <2>2. (\A m \in DOMAIN queue : Fate(m)' = Fate(m)) /\ Keeps
    BY <2>1 DEF Fate, Keeps
  <2>3. Entries' = Entries /\ \A k : AppliedTo(k)' = AppliedTo(k)
    BY <2>2, FatesKept
  <2> QED
    BY <1>1, <2>1, <2>3 DEF LogInv, CountsHold, NoneInFront, LogMove
<1>3. ASSUME FinalizeTx
      PROVE  Kept
  <2>1. journal # NoIntent /\ journal' = NoIntent
    BY <1>3 DEF FinalizeTx
  <2>2. Next
    BY <2>1 DEF vars
  <2>3. journal.phase = "repaired"
    BY <2>1, <2>2, FinalizedWhenRepaired DEF LogInv
  <2> QED
    BY <1>3, <2>3, FinalizeLogs
<1>4. CASE ~ UNCHANGED Tables
  <2>1. Kept
    BY <1>1, <1>3, <1>4, ClientLogs, ApplyLogs, MaintenanceLogs, PromoteLogs DEF Work
  <2> QED
    BY <1>1, <2>1 DEF Kept, LogInv
<1> QED
  BY <1>2, <1>4

\* Nothing is in the queue, and no version counts anything.
LEMMA InitLog == Init => LogInv /\ Log!LogInit
<1> SUFFICES ASSUME Init
             PROVE  LogInv /\ Log!LogInit
  OBVIOUS
<1>1. CleanInv /\ DOMAIN queue = {} /\ journal = NoIntent
  BY InitClean DEF Init
<1>2. \A k : AppliedTo(k) = {}
  BY <1>1 DEF AppliedTo
<1>3. CountsHold
  BY <1>2, FS_EmptySet DEF Init, CountsHold
<1>4. Entries = <<>>
  BY <1>1 DEF Entries
<1>5. Log!LogInit
  BY <1>4 DEF Init, Log!LogInit, Entries, Entry, AskOf
<1> QED
  BY <1>1, <1>3, <1>5 DEF LogInv, NoneInFront

\* With one process the queue implements the log: each intent takes effect in
\* its turn, once and in one step, or is refused, and refused exactly when the
\* row it writes has changed since it was admitted.
THEOREM QueueImplementsLog ==
  ASSUME OneProcess
  PROVE  Spec => ImplementsIntentLog
<1>1. LogInv /\ [Next]_vars => LogInv'
  BY LogStep
<1>2. LogInv /\ [Next]_vars => [Log!LogNext]_(Log!logVars)
  <2>1. LogInv /\ [Next]_vars => LogMove
    BY LogStep
  <2>2. LogMove => [Log!LogNext]_(Log!logVars)
    BY DEF LogMove, Log!logVars, Entries, Entry, AskOf
  <2> QED
    BY <2>1, <2>2
<1>3. Init => LogInv /\ Log!LogInit
  BY InitLog
<1> QED
  BY <1>1, <1>2, <1>3, PTL DEF Spec, ImplementsIntentLog, Log!LogSpec
=============================================================================
