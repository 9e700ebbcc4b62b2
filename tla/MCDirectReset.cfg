SPECIFICATION DirectSpec
CONSTANTS
  DirectRequests = {r1, r2, r3}
  DirectDirs = {d1, d2}
  DirectSessions = 3
INVARIANT ResetStartsFresh
CHECK_DEADLOCK FALSE
