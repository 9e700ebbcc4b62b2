SPECIFICATION Spec
CONSTANTS
  NoJob = NoJob
  Proc = {p1}
  Job = {j1}
  Managed = {j1}
  FencedEmpty = TRUE
  MaxWire = 1
  MaxSerial = 1
  MaxAttempts = 1
CHECK_DEADLOCK FALSE
INVARIANTS
  LoopSurvivesCoordinateErrors
