SPECIFICATION Spec
CONSTANTS
  j1 = j1
  j2 = j2
  j3 = j3
  b1 = b1
  b2 = b2
  t1 = t1
  Job = {j1, j2, j3}
  Bug = {b1, b2}
  Target = {t1}
  StepKey <- MCKeys
  Worker = {w1}
  Request = {r1}
  Event = {e1}
  BugOf <- TwoBugs
  TargetOf <- OneTarget
  PlanOf <- TextAndFields
  DepsOf <- MCDeps
  KindOf <- MCKinds
  Linked = {b1, b2}
  LeaseSeconds = 1
  MaxClaims = 2
  None = None
SYMMETRY Twins
INVARIANTS
  OneJobAtATime
  SlotFence
PROPERTIES
  SettledStaysSettled
CHECK_DEADLOCK FALSE
