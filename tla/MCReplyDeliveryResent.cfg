SPECIFICATION Spec
CONSTANTS
  Client = {d1, d2}
  Kook = {}
  Bridges = {{d1, d2}}
  Job = {j1}
  NoClient = NoClient
  Limit = 1
  MaxShown = 2
  MaxCrashes = 0
PROPERTY ConfirmedNotResent
