SPECIFICATION Spec
CONSTANTS
  Client = {d, k}
  Kook = {k}
  Bridges = {{d}, {k}}
  Job = {j1, j2}
  NoClient = NoClient
  Limit = 1
  MaxShown = 1
  MaxCrashes = 1
PROPERTY RepliesEventuallySent
