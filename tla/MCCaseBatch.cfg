SPECIFICATION Spec
SYMMETRY Alike
CONSTANTS
  Handlers = {h1, h2}
  Requests = {r1}
  NCases = 2
  Bodies = {b1}
  RemoteIds = {i1, i2}
  Users = {"member", "reviewer"}
  Restorable = TRUE
  MaxEdits = 0
  None = None
CHECK_DEADLOCK FALSE
INVARIANTS
  BatchAsAdmitted
  ReviewAfterRestore
