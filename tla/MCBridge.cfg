SPECIFICATION BridgeSpec
CONSTANTS
  DirectRequests = {r1, r2, r3}
  DirectDirs = {d1, d2}
  DirectSessions = 3
  Clients = {k1, k2}
  Events = {e1, e2}
  Workspaces = {w1}
  Unbound = Unbound
  Authority <- MCAuthority
  Handoffs = {m1, m2}
INVARIANTS
  BridgeTypeOK
  DeadNotResumed
  BindingNotOlderThanEvent
  WaiterHasOwner
  NoSilentHandoff
  FinishedRunReports
CHECK_DEADLOCK FALSE
