SPECIFICATION Spec
CONSTANTS
  None = None
  EntityCount = 2
  Subject <- MCSubject
  Predicate <- MCPredicate
  Added = "launch_date"
  Releases = {13, 14, 15, 16}
  AddOnce = TRUE
  MaxIntents = 3
CHECK_DEADLOCK FALSE
INVARIANTS ComposedReadsAreClean IndexesMatchCanonical QuietIsClean
