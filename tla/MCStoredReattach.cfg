SPECIFICATION Spec
CONSTANTS
  Kinds = {"pull"}
  Cleaner = {c1}
  MaxOps = 1
  MaxClaims = 2
INVARIANTS
  ClaimedNeverReattached
CHECK_DEADLOCK FALSE
