SPECIFICATION Spec
CONSTANTS
  Client = {d1, d2, k}
  Kook = {k}
  Bridges = {{d1, d2}, {k}}
  Job = {j1, j2}
  NoClient = NoClient
  Limit = 2
  MaxShown = 2
  MaxCrashes = 1
INVARIANTS TypeOK UnseenReplyIsPending KookSentIsWhole
SYMMETRY Symmetry
