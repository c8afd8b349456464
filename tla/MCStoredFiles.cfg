SPECIFICATION Spec
CONSTANTS
  Kinds = {"requirement", "pull"}
  Cleaner = {c1, c2}
  MaxOps = 2
  MaxClaims = 2
SYMMETRY Cleaners
INVARIANTS
  TypeOK
  EvidenceKept
  LateWriterWatched
  StagingReclaimed
CHECK_DEADLOCK FALSE
