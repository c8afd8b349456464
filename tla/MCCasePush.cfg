SPECIFICATION Spec
SYMMETRY Alike
CONSTANTS
  Handlers = {h1, h2}
  Requests = {r1, r2}
  NCases = 1
  Bodies = {b1, b2}
  RemoteIds = {i1, i2}
  Users = {"owner"}
  Restorable = FALSE
  MaxEdits = 1
  None = None
CHECK_DEADLOCK FALSE
INVARIANTS
  TypeOK
  CreatedOnce
  LedgerTellsTruth
PROPERTIES
  MappingStable
