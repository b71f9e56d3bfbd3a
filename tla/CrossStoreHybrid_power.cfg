SPECIFICATION FairHybridSpec
CONSTANTS
  k1 = k1
  k2 = k2
  k3 = k3
  k4 = k4
  k5 = k5
  NoKey = NoKey
  Blank = Blank
  Key <- MCKeys
  Data <- MCData
  Meta <- MCMeta
  InitMeta <- FirstMeta
  Hash1 <- MCHash1
  Hash2 <- MCHash2
  Choice <- MCChoice
  Victim <- MCVictim
  BucketSize = 1
  InitialCapacity = 4
  StashCapacity = 1
  MaxKicks = 2
  MigrationBudget = 3
  Alignment = 1
  LoadNum = 5
  LoadDen = 8
  Faults = {"power"}
  RetryFirst = TRUE
  Page <- MCPages
  MaxEpoch = 6
INVARIANTS AckedKeysStay OverflowCountExact
PROPERTIES RowsFollowCoordinator ImplementsKeyStore RecoveryConverges
