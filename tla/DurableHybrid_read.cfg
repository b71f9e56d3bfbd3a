SPECIFICATION HSpec
CONSTANTS
  k1 = k1
  k2 = k2
  k3 = k3
  k4 = k4
  k5 = k5
  k6 = k6
  NoKey = NoKey
  Blank = Blank
  Key <- MCKeys
  Hash1 <- MCHash1
  Hash2 <- MCHash2
  Choice <- MCChoice
  Victim <- MCVictim
  BucketSize = 1
  InitialCapacity = 4
  StashCapacity = 1
  MaxKicks = 2
  MigrationBudget = 2
  Alignment = 1
  LoadNum = 3
  LoadDen = 4
  Page <- MCPage
SYMMETRY MCSymmetry
INVARIANTS StoreAudits MissesOnlyMovedKeys
PROPERTIES ImplementsKeyStore
