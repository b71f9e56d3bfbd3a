SPECIFICATION MCSpec
CONSTANTS
  k1 = k1
  k2 = k2
  k3 = k3
  k4 = k4
  k5 = k5
  NoKey = NoKey
  None = None
  NoName = NoName
  s1 = s1
  x1 = x1
  x2 = x2
  a1 = a1
  a2 = a2
  a3 = a3
  e1 = e1
  e2 = e2
  w1 = w1
  w2 = w2
  w3 = w3
  w4 = w4
  f1 = f1
  f2 = f2
  f3 = f3
  HashKey <- MCKeys
  InitialCapacity = 2
  LinearCapacity = 4
  LoadNum = 1
  LoadDen = 2
  Domains = 2
  MaxKicks = 4
  Setups <- MCSetups
  Assertion <- MCAssertion
  Evidence = {}
  Payload = {}
  Subject <- MCSubject
  Predicate <- MCPredicate
  Multi <- MCMulti
  Object <- MCObject
  EvidenceId <- MCEvidenceId
  AssertionId <- MCAssertionId
  PredicateName <- MCPredicate
  SubjectNumber <- MCSubjectNumber
  Word <- MCWord
  Text <- MCText
  Fragments <- MCFragments
  Grams <- MCGrams
  References <- MCReferences
  Idf <- MCIdf
  Log <- MCLog
  Questions <- MCQuestions
  Asides <- MCAsides
  MaxBudget = 2
SYMMETRY Symmetry
CHECK_DEADLOCK FALSE
INVARIANTS TablesAgree AnswersAreReconciled IndexIsRebuilt PlansMatchScan
PROPERTIES KeysStay
