SPECIFICATION Spec
CONSTANTS
  NoJob = NoJob
  Proc = {p1, p2}
  Job = {j1}
  Managed = {j1}
  FencedEmpty = TRUE
  MaxWire = 1
  MaxSerial = 2
  MaxAttempts = 2
SYMMETRY Symmetry
CHECK_DEADLOCK FALSE
INVARIANTS
  TypeOK
  NoStrandedClaim
  OneProviderPerJob
  NoFreshDuplicate
  DoneByItsOwnAttempt
  SavedOnlyIfRecorded
PROPERTIES
  EachAttemptRunsOnce
  ImplementsLedger
