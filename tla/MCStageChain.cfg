SPECIFICATION Spec
CONSTANTS
  NStages = 2
  Upstream <- Line
  Batched = TRUE
  MaxAttempts = 3
  MaxVersions = 3
  MaxBatches = 2
  MaxRequests = 3
  Handlers = {h1}
  None = None
CHECK_DEADLOCK FALSE
INVARIANTS
  TypeOK
  LivesTogether
  StandsOnApproved
PROPERTIES
  HistoryKept
  OnlyByOldSnapshot
