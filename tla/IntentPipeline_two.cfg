SPECIFICATION Spec
CONSTANTS
  w1 = w1
  w2 = w2
  None = None
  EntityCount = 2
  Subject <- MCSubject
  Object = {42, 77}
  Worker <- TwoWorkers
  MaxIntents = 2
CHECK_DEADLOCK FALSE
PROPERTIES DoneIsRepaired
