---------------------------- MODULE AddressIndex ----------------------------
(***************************************************************************)
(* The in-memory store of facts with its locality indexes                  *)
(* (core/storage.py), the index that resolves a question's words to a      *)
(* subject (rag/scalable_planner.py), and what keeps the second up to date *)
(* with the first one subject at a time (rag/maintenance.py); then the     *)
(* planner and the search that use them.                                   *)
(*                                                                         *)
(* A text is the count of each of its words, stop words left out.  A       *)
(* posting holds a set of subjects for a feature: a word, a fragment of    *)
(* one or an n-gram of one.  The three dictionaries of postings are one    *)
(* relation here, since features carry their kind.  Scores are in          *)
(* hundredths of hundredths, with tables for the two logarithms.           *)
(***************************************************************************)
EXTENDS Integers, Sequences, SequencesExt, FiniteSetsExt, Functions

CONSTANTS
  EvidenceId, AssertionId, PredicateName,
  SubjectNumber,          \* numbered in the order of their names
  Word, Text,       \* words, and the texts evidence may have
  Fragments, Grams, \* the fragments and the n-grams of a word
  References,       \* the evidence an assertion may name, as sequences
  Idf, Log,         \* Idf[n][df] and Log[count], in hundredths
  Questions,        \* [words, predicate, kind, candidates, broad]: a question, its
                    \* predicate or None, its type, and the limits of the planner asked
  Asides,           \* [object, relations, contested]: what else a store may hold of
                    \* its facts, which no index reads: the object value of each
                    \* assertion, the relations between some, and the keys whose
                    \* cell is contested
  MaxBudget,
  NoName

VARIABLES
  store,     \* the facts and the locality indexes
  index      \* the SubjectProfileIndex

addressVars == <<store, index>>

\* question_type; what it is decides how much evidence is enough.
QuestionKind ==
  {"current", "historical", "historical_belief", "relation_classification", "provenance"}

\* Names are names, and None is none of what is stored.
IndexConstants ==
  /\ IsFiniteSet(AssertionId) /\ IsFiniteSet(SubjectNumber)
  /\ References \subseteq Seq(EvidenceId)
  /\ NoName \notin Text
  /\ NoName \notin [subject : SubjectNumber, predicate : PredicateName, evidence : References]

\* Texts count words, a posting's worth is a number, rarer words are worth
\* something, and a question is one that can be asked.
PlanConstants ==
  /\ IndexConstants
  /\ IsFiniteSet(EvidenceId) /\ SubjectNumber \subseteq Nat
  /\ NoName \notin SubjectNumber /\ NoName \notin PredicateName
  /\ Text \subseteq [Word -> Nat]
  /\ \A w \in Word : IsFiniteSet(Fragments[w]) /\ IsFiniteSet(Grams[w])
  /\ \A n \in 0 .. Cardinality(SubjectNumber) : \A df \in 0 .. n : Idf[n][df] \in Nat \ {0}
  /\ \A count \in Nat \ {0} : Log[count] \in Nat
  /\ Questions \subseteq [words : Seq(Word), predicate : PredicateName \cup {NoName},
                         kind : QuestionKind, candidates : Nat, broad : Nat]
  /\ MaxBudget \in Nat /\ Cardinality(EvidenceId) <= MaxBudget /\ MaxBudget > 0

-----------------------------------------------------------------------------
(* core/storage.py *)

FactRow   == [subject : SubjectNumber, predicate : PredicateName, evidence : References]
FactKey   == SubjectNumber \X PredicateName
FactKeyOf(row) == <<row.subject, row.predicate>>

NoIndexes ==
  [byKey     |-> [key \in FactKey |-> {}],
   bySubject |-> [s \in SubjectNumber |-> {}],
   refs      |-> [e \in EvidenceId |-> [s \in SubjectNumber |-> 0]]]

\* How often the row names e.
Mentions(row, e) == Cardinality({i \in DOMAIN row.evidence : row.evidence[i] = e})

AddIndexes(ix, a, row) ==
  [byKey     |-> [ix.byKey EXCEPT ![FactKeyOf(row)] = @ \cup {a}],
   bySubject |-> [ix.bySubject EXCEPT ![row.subject] = @ \cup {a}],
   refs      |-> [e \in EvidenceId |-> [ix.refs[e] EXCEPT ![row.subject] = @ + Mentions(row, e)]]]

RemoveIndexes(ix, a, row) ==
  [byKey     |-> [ix.byKey EXCEPT ![FactKeyOf(row)] = @ \ {a}],
   bySubject |-> [ix.bySubject EXCEPT ![row.subject] = @ \ {a}],
   refs      |-> [e \in EvidenceId |->
                    [ix.refs[e] EXCEPT ![row.subject] =
                       IF @ <= Mentions(row, e) THEN 0 ELSE @ - Mentions(row, e)]]]

StoredIn(st) == {a \in AssertionId : st.assertion[a] # NoName}

\* rebuild_locality_indexes
RebuiltIndexes(st) ==
  FoldSet(LAMBDA a, ix : AddIndexes(ix, a, st.assertion[a]), NoIndexes, StoredIn(st))

AddEvidence(st, e, text) == [st EXCEPT !.evidence[e] = text]
RemoveEvidence(st, e)    == [st EXCEPT !.evidence[e] = NoName]

RemoveAssertion(st, a) ==
  [st EXCEPT !.assertion[a] = NoName,
             !.locality = IF st.assertion[a] = NoName THEN @ ELSE RemoveIndexes(@, a, st.assertion[a])]

AddAssertion(st, a, row) ==
  [st EXCEPT !.assertion[a] = row,
             !.locality = AddIndexes(RemoveAssertion(st, a).locality, a, row)]

AssertionsForSubject(st, s) == st.locality.bySubject[s]
AssertionsForKey(st, key)   == st.locality.byKey[key]
SubjectsForEvidence(st, e)  == {s \in SubjectNumber : st.locality.refs[e][s] > 0}
SubjectIds(st)              == {s \in SubjectNumber : AssertionsForSubject(st, s) # {}}

-----------------------------------------------------------------------------
(* SubjectProfileIndex *)

NoWords  == [w \in Word |-> 0]
WordsIn(profile) == {w \in Word : profile[w] > 0}

Features(profile) ==
  UNION {{<<"token", w>>} \cup {<<"fragment", f>> : f \in Fragments[w]}
                          \cup {<<"ngram", g>> : g \in Grams[w]} : w \in WordsIn(profile)}

EmptyIndex ==
  [profiles    |-> [s \in SubjectNumber |-> NoWords],
   predicates  |-> [s \in SubjectNumber |-> {}],
   evidence    |-> [s \in SubjectNumber |-> {}],
   postings    |-> {},
   byPredicate |-> {}]

\* How often each word is in some texts together.
WordsOf(texts) == [w \in Word |-> SumFunction([e \in DOMAIN texts |-> texts[e][w]])]

\* _snapshot_subject
SnapshotSubject(st, s) ==
  LET rows  == {st.assertion[a] : a \in AssertionsForSubject(st, s)}
      named == UNION {Range(r.evidence) : r \in rows}
  IN  [profile    |-> WordsOf([e \in {x \in named : st.evidence[x] # NoName} |-> st.evidence[e]]),
       predicates |-> {r.predicate : r \in rows},
       evidence   |-> named]

\* Postings are touched only where old and new differ.
Patched(postings, old, new) == (postings \ (old \ new)) \cup (new \ old)

\* Mutant of RefreshSubject: the postings by predicate are patched for the
\* features that changed, not for the predicates.
RefreshSubject_Features(st, ix, s) ==
  LET now  == SnapshotSubject(st, s)
      oldF == Features(ix.profiles[s])
      newF == Features(now.profile)
  IN  [profiles    |-> [ix.profiles EXCEPT ![s] = now.profile],
       predicates  |-> [ix.predicates EXCEPT ![s] = now.predicates],
       evidence    |-> [ix.evidence EXCEPT ![s] = now.evidence],
       postings    |-> Patched(ix.postings, oldF \X {s}, newF \X {s}),
       byPredicate |-> Patched(ix.byPredicate, (oldF \ newF) \X ix.predicates[s] \X {s},
                                               (newF \ oldF) \X now.predicates \X {s})]

RefreshSubject(st, ix, s) ==
  LET now  == SnapshotSubject(st, s)
      oldF == Features(ix.profiles[s])
      newF == Features(now.profile)
  IN  [profiles    |-> [ix.profiles EXCEPT ![s] = now.profile],
       predicates  |-> [ix.predicates EXCEPT ![s] = now.predicates],
       evidence    |-> [ix.evidence EXCEPT ![s] = now.evidence],
       postings    |-> Patched(ix.postings, oldF \X {s}, newF \X {s}),
       byPredicate |-> Patched(ix.byPredicate, oldF \X ix.predicates[s] \X {s},
                                               newF \X now.predicates \X {s})]

Refreshed(st, ix, subjects) ==
  FoldSet(LAMBDA s, done : RefreshSubject(st, done, s), ix, subjects)

\* SubjectProfileIndex(store): every subject the store knows, from nothing.
Built(st) == Refreshed(st, EmptyIndex, SubjectIds(st))

-----------------------------------------------------------------------------
(* AddressabilityMaintainer: what is affected is settled before the store changes. *)

EvidenceUpserted(e, text) ==
  LET affected == SubjectsForEvidence(store, e)
  IN  /\ store' = AddEvidence(store, e, text)
      /\ index' = Refreshed(store', index, affected)

EvidenceDeleted(e) ==
  LET affected == SubjectsForEvidence(store, e)
  IN  /\ store' = RemoveEvidence(store, e)
      /\ index' = Refreshed(store', index, affected)

AssertionUpserted(a, row) ==
  LET previous == store.assertion[a]
      affected == {row.subject} \cup (IF previous = NoName THEN {} ELSE {previous.subject})
  IN  /\ store' = AddAssertion(store, a, row)
      /\ index' = Refreshed(store', index, affected)

AssertionDeleted(a) ==
  LET previous == store.assertion[a]
  IN  /\ previous # NoName
      /\ store' = RemoveAssertion(store, a)
      /\ index' = Refreshed(store', index, {previous.subject})

AddressInit ==
  /\ store = [evidence |-> [e \in EvidenceId |-> NoName], assertion |-> [a \in AssertionId |-> NoName],
              locality |-> NoIndexes]
  /\ index = EmptyIndex

AddressNext ==
  \/ \E e \in EvidenceId : EvidenceDeleted(e) \/ \E text \in Text : EvidenceUpserted(e, text)
  \/ \E a \in AssertionId : AssertionDeleted(a) \/ \E row \in FactRow : AssertionUpserted(a, row)

AddressSpec == AddressInit /\ [][AddressNext]_addressVars

-----------------------------------------------------------------------------
(* ScalableQueryPlanner *)

TotalSubjects(ix) == Cardinality({s \in SubjectNumber : ix.profiles[s] # NoWords})

Posting(ix, f, p) ==
  IF p = NoName THEN {s \in SubjectNumber : <<f, s>> \in ix.postings}
              ELSE {s \in SubjectNumber : <<f, p, s>> \in ix.byPredicate}

IdfForToken(ix, w) == Idf[TotalSubjects(ix)][Cardinality(Posting(ix, <<"token", w>>, NoName))]

\* The postings a question looks up, and what one is worth: a word nobody
\* has is looked up by its fragments and n-grams.
Lookups(ix, q) ==
  LET Missing(i) == Posting(ix, <<"token", q.words[i]>>, q.predicate) = {}
      For(i) == IF Missing(i)
                THEN {[at |-> i, feature |-> <<"fragment", f>>, worth |-> 300] : f \in Fragments[q.words[i]]}
                     \cup {[at |-> i, feature |-> <<"ngram", g>>, worth |-> 100] : g \in Grams[q.words[i]]}
                ELSE {[at |-> i, feature |-> <<"token", q.words[i]>>, worth |-> 4 * IdfForToken(ix, q.words[i])]}
  IN  UNION {For(i) : i \in DOMAIN q.words}

Broad(ix, q, l) == Cardinality(Posting(ix, l.feature, q.predicate)) > q.broad
SawBroad(ix, q) == \E l \in Lookups(ix, q) : Broad(ix, q, l)

GenerationScore(ix, q, s) ==
  SumFunction([l \in {l \in Lookups(ix, q) : ~Broad(ix, q, l) /\ s \in Posting(ix, l.feature, q.predicate)}
           |-> l.worth])

\* Mutant of CandidateSubjects: the lowest numbers first, whatever their score.
CandidateSubjects_First(ix, q) ==
  LET found == {s \in SubjectNumber : GenerationScore(ix, q, s) > 0}
  IN  {s \in found : Cardinality({t \in found : t < s}) + 1 < q.candidates}

CandidateSubjects(ix, q) ==
  LET found == {s \in SubjectNumber : GenerationScore(ix, q, s) > 0}
      Before(t, s) == \/ GenerationScore(ix, q, t) > GenerationScore(ix, q, s)
                      \/ GenerationScore(ix, q, t) = GenerationScore(ix, q, s) /\ t < s
  IN  {s \in found : Cardinality({t \in found : Before(t, s)}) < q.candidates}

ExactScore(ix, q, s) ==
  SumFunction([i \in {i \in DOMAIN q.words : ix.profiles[s][q.words[i]] > 0}
           |-> IdfForToken(ix, q.words[i]) * (100 + Log[ix.profiles[s][q.words[i]]])])

Score(ix, q, s) == ExactScore(ix, q, s) + 10 * GenerationScore(ix, q, s)

Best(worth) == {s \in DOMAIN worth : \A t \in DOMAIN worth : worth[t] <= worth[s]}

\* _subject: one subject, or none when several come first.
PlanSubject(ix, q) ==
  LET best == Best([s \in CandidateSubjects(ix, q) |-> Score(ix, q, s)])
  IN  IF Cardinality(best) # 1 \/ \E s \in best : Score(ix, q, s) <= 0 /\ SawBroad(ix, q)
      THEN NoName ELSE CHOOSE s \in best : TRUE

-----------------------------------------------------------------------------
(* RetrievalIndex and the planned search over it *)

Linked(st, e) == {st.assertion[a] : a \in {b \in StoredIn(st) : e \in Range(st.assertion[b].evidence)}}
Docs(st) == {e \in EvidenceId : st.evidence[e] # NoName}

\* hard_filter
Allowed(st, s, p) ==
  {e \in Docs(st) : /\ \E r \in Linked(st, e) : r.subject = s
                    /\ \E r \in Linked(st, e) : r.predicate = p}

\* search: as many as the budget allows, in an order the texts decide.
Searches(st, s, p, budget) ==
  LET allowed == Allowed(st, s, p)
  IN  {found \in SUBSET allowed :
         Cardinality(found) = IF Cardinality(allowed) <= budget THEN Cardinality(allowed) ELSE budget}

\* PlannedRetriever.search: nothing without a subject and a predicate, else what
\* the search finds, filled up with the rest of what is allowed.
PlannedSearches(st, s, p, budget) ==
  IF s = NoName \/ p = NoName THEN {{}} ELSE Searches(st, s, p, budget)

\* relations_for_assertions: those with both ends among the assertions.
RelationsFor(x, found) == {r \in x.relations : r.source \in found /\ r.target \in found}

\* coverage_satisfied, of the assertions of a key that were found: a question
\* about a relation wants the relation, a contested cell both sides of it.
Sufficient(x, q, key, found) ==
  /\ found # {}
  /\ IF q.kind = "relation_classification"
     THEN \E r \in RelationsFor(x, found) : r.relation \in {"corrects", "supersedes"}
     ELSE key \in x.contested => \E a, b \in found : x.object[a] # x.object[b]

CoverageSatisfied(st, x, q, s, found) ==
  LET key == <<s, q.predicate>>
  IN  Sufficient(x, q, key,
                 {a \in AssertionsForKey(st, key) : Range(st.assertion[a].evidence) \cap found # {}})

\* adaptive_search: the budget doubles until the evidence found is enough.
AdaptiveSearch(st, x, q, s) ==
  LET Ends[budget \in 1 .. MaxBudget] ==
        \A found \in PlannedSearches(st, s, q.predicate, budget) :
          \/ CoverageSatisfied(st, x, q, s, found)
          \/ budget < MaxBudget /\ Ends[IF 2 * budget < MaxBudget THEN 2 * budget ELSE MaxBudget]
  IN  Ends[1]

-----------------------------------------------------------------------------
(* Properties *)

\* After any sequence of insertions, replacements, moves and deletions the
\* locality indexes are what rebuild_locality_indexes would make of the
\* facts, and the profile index is the one built from nothing (equivalent_to).
IndexIsRebuilt ==
  /\ store.locality = RebuiltIndexes(store)
  /\ index = Built(store)

\* The subjects a full scan of the facts would consider, and their scores.
Holders(q) ==
  {s \in SubjectNumber : \E a \in StoredIn(store) : /\ store.assertion[a].subject = s
                                            /\ q.predicate \in {NoName, store.assertion[a].predicate}}
Profile(s) == SnapshotSubject(store, s).profile

ScanScore(q, s) ==
  LET Worth(w) == Idf[Cardinality({t \in SubjectNumber : Profile(t) # NoWords})]
                     [Cardinality({t \in SubjectNumber : Profile(t)[w] > 0})]
      Part(w)  == IF \E t \in Holders(q) : Profile(t)[w] > 0
                  THEN IF Profile(s)[w] > 0 THEN Worth(w) * (140 + Log[Profile(s)[w]]) ELSE 0
                  ELSE 3000 * Cardinality({f \in Fragments[w] : <<"fragment", f>> \in Features(Profile(s))})
                       + 1000 * Cardinality({g \in Grams[w] : <<"ngram", g>> \in Features(Profile(s))})
  IN  SumFunction([i \in DOMAIN q.words |-> Part(q.words[i])])

\* A question that meets no broad posting and no more candidates than the
\* limit is resolved to the subject a full scan of the facts would choose;
\* one with broad postings only to a subject that holds something of it.
\* And the adaptive search for a plan ends covered exactly when the facts about its
\* subject and predicate that have evidence suffice: one of them; of a contested
\* cell two that disagree; for a question about a relation, two of which one
\* corrects or supersedes the other.  So it is whatever order the texts give.
PlansMatchScan ==
  \A q \in Questions :
    LET s     == PlanSubject(index, q)
        scan  == {t \in Holders(q) : ScanScore(q, t) > 0}
        best  == Best([t \in scan |-> ScanScore(q, t)])
    IN  /\ s # NoName => s \in scan
        /\ ~SawBroad(index, q) /\ Cardinality(scan) <= q.candidates
             => s = IF Cardinality(best) = 1 THEN CHOOSE t \in best : TRUE ELSE NoName
        /\ s # NoName /\ q.predicate # NoName =>
             LET held == {a \in StoredIn(store) :
                            /\ FactKeyOf(store.assertion[a]) = <<s, q.predicate>>
                            /\ Range(store.assertion[a].evidence) \cap Docs(store) # {}}
             IN  \A x \in Asides :
                   Sufficient(x, q, <<s, q.predicate>>, held) <=> AdaptiveSearch(store, x, q, s)
=============================================================================
