SPECIFICATION Spec
CONSTANTS
  Worker = {w1, w2}
  Msg = {1, 2, 3}
  narrow = narrow
  wide = wide
  Dir = {d1, d2}
  NoDir = NoDir
  Gen = {narrow, wide}
  NoGen = NoGen
  Window <- Windows
  Fits <- Fitting
  MaxSession = 2
  MaxUpset = 1
SYMMETRY Symmetry
CHECK_DEADLOCK FALSE
INVARIANTS TypeOK CursorWasSeen RetirementHolds DeltaOmitsOnlySeen
PROPERTY CursorNeverBack
