SPECIFICATION FairWorkerSpec
CONSTANTS
  j1 = j1
  j2 = j2
  b1 = b1
  b2 = b2
  t1 = t1
  Job = {j1}
  Bug = {b1}
  Target = {t1}
  StepKey <- MCKeys
  Worker <- MCWorker
  Request = {"prepare"}
  Event = {"result", "failure"}
  BugOf <- OneBug
  TargetOf <- OneTarget
  PlanOf <- OneFile
  DepsOf <- MCDeps
  KindOf <- MCKinds
  Linked = {b1}
  LeaseSeconds = 1
  MaxClaims = 1
  None = None
  Host = {h1}
  MaxRestarts = 1
  Margin = 0
  MaxLate = 1
CHECK_DEADLOCK FALSE
PROPERTIES
  ClaimEnds
  SuccessRecorded
  Spec
