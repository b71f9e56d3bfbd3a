SPECIFICATION FairSpec
CONSTANTS
  w1 = w1
  w2 = w2
  None = None
  EntityCount = 2
  Subject <- MCSubject
  Object = {42, 77}
  Worker <- OneWorker
  MaxIntents = 3
INVARIANTS ReadsAreCurrent QuietIsClean SnapshotStillHolds
PROPERTIES ImplementsIntentLog
