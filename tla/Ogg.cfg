SPECIFICATION Spec
CONSTANTS
  Frame = 2
  RejoinAfter = 4
  OutageAfter = 4
  Buffer = 2
  MaxLag = 1
  MaxTime = 11
  MaxGaps = 2
  Faults = TRUE
INVARIANTS TypeOK   ClosedFileIsComplete
CHECK_DEADLOCK FALSE
