SPECIFICATION Spec
CONSTANTS
  Workers = {w1, w2}
  Tasks = {t1}
  NItems = 3
  Continues = {1}
  Disabled = {3}
  MaxLate = 2
  NoWorker = NoWorker
  NoTask = NoTask
INVARIANTS
  TypeOK
  SuccessIsEarned
  ReportAddsUp
PROPERTIES
  ReportIsFinal
  LapsedHolderWritesNothing
  Promise
