SPECIFICATION Spec
CONSTANTS
  j1 = j1
  j2 = j2
  j3 = j3
  b1 = b1
  b2 = b2
  t1 = t1
  Job = {j1, j2}
  Bug = {b1}
  Target = {t1}
  StepKey <- MCKeys
  Worker = {w1}
  Request = {r1}
  Event = {e1}
  BugOf <- OneBug
  TargetOf <- OneTarget
  PlanOf <- PushTwice
  DepsOf <- MCDeps
  KindOf <- MCKinds
  Linked = {}
  LeaseSeconds = 1
  MaxClaims = 1
  None = None
INVARIANTS
  TypeOK
  OpenWritesFenced
  OneShotOnce
  RecordFollowsOwner
  LedgerInv
  DependencyOrder
  LeasedHasWork
PROPERTIES
  FinishedStaysFinished
CHECK_DEADLOCK FALSE
