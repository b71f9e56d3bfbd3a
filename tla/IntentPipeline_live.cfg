SPECIFICATION FairSpec
CONSTANTS
  w1 = w1
  w2 = w2
  None = None
  EntityCount = 2
  Subject <- MCSubject
  Object = {42}
  Worker <- TwoWorkers
  MaxIntents = 2
PROPERTIES EveryIntentEnds
