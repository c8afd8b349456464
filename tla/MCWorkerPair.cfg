SPECIFICATION WorkerSpec
CONSTANTS
  j1 = j1
  j2 = j2
  b1 = b1
  b2 = b2
  t1 = t1
  Job = {j1}
  Bug = {b1}
  Target = {t1}
  StepKey <- MCKeys
  Worker <- MCWorker
  Request = {"prepare"}
  Event = {"result", "failure"}
  BugOf <- OneBug
  TargetOf <- OneTarget
  PlanOf <- Bare
  DepsOf <- MCDeps
  KindOf <- MCKinds
  Linked = {}
  LeaseSeconds = 2
  MaxClaims = 2
  None = None
  Host = {h1, h2}
  MaxRestarts = 0
  Margin = 1
  MaxLate = 1
CHECK_DEADLOCK FALSE
SYMMETRY Hosts
INVARIANTS
  WriteOnce
PROPERTIES
  WriteInsideLease
