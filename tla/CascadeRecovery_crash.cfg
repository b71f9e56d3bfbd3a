SPECIFICATION MCSpec
CONSTANTS
  Assertion = {a1, a2}
  Evidence = {e1}
  Subject = {s1, s2}
  Predicate = {p1}
  Multi = {}
  Object = {x1, x2}
  Payload = {t1, t2}
  None = None
  MaxMutations = 2
SYMMETRY Symmetry
INVARIANTS FreshIsClean SettledIsClean IntentIsApplied RepairedIsTrusted
