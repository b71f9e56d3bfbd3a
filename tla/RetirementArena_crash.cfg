CONSTANTS
  Page <- MCPage
  Blank = Blank
  Formats = {34, 35, 38}
  OwnerCounts = {2}
  Budgets = {1, 2}
  Faults = {"process", "power"}
  MaxEpoch = 8
SPECIFICATION Spec
INVARIANTS SnapshotIsValid ArenaCoversCommitted ReferencesResolveExactly
PROPERTIES ImplementsRetirementQueue
CHECK_DEADLOCK FALSE
