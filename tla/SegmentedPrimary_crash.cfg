CONSTANTS
  k1 = k1
  k2 = k2
  k3 = k3
  k4 = k4
  k5 = k5
  k6 = k6
  NoKey = NoKey
  Blank = Blank
  Key <- MCKeys
  Inserts <- MCInserts
  Page <- MCPage
  BucketSize = 1
  InitialCapacity = 2
  StashCapacity = 1
  MaxKicks = 2
  MigrationBudget = 3
  LoadNum = 3
  LoadDen = 4
  Hash1 <- MCHash1
  Hash2 <- MCHash2
  Choice <- MCChoice
  Victim <- MCVictim
  Formats = {30, 31, 32, 33, 34}
  Width = 4
  Fanout = 2
  Levels = 3
  JsonRoom = 3
  Budgets = {1, 2}
  Batches <- MCBatches
  MaxEpoch <- MCMaxEpoch
  MaxPair = 48
SPECIFICATION Spec
INVARIANTS ExtentsAreAccounted LiveExtentsStay FrontierCovers
PROPERTIES ImplementsAtomicPages
CHECK_DEADLOCK FALSE
