SPECIFICATION Spec
CONSTANTS
  k1 = k1
  k2 = k2
  k3 = k3
  k4 = k4
  k5 = k5
  NoKey = NoKey
  Blank = Blank
  Key <- MCKeys5
  Data <- MCData
  Meta <- MCMeta
  InitMeta <- FirstMeta
  Hash1 <- MCChain1
  Hash2 <- MCChain2
  Choice <- MCChoice
  Victim <- MCVictim
  BucketSize = 1
  InitialCapacity = 2
  StashCapacity = 1
  MaxKicks = 2
  MigrationBudget = 2
  Alignment = 1
  LoadNum = 3
  LoadDen = 4
  Faults = {"process"}
  RetryFirst = FALSE
  Page <- MCPages17
  MaxEpoch = 6
INVARIANTS AckedKeysAreFound
CHECK_DEADLOCK FALSE
