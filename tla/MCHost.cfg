SPECIFICATION HostSpec
CONSTANTS
  Attempts <- MCAttempts
  Paths <- MCPaths
  NormalPath <- MCNormalPath
  ClaimAgent = "me"
  ClaimAdapter = "codex"
  Absent = Absent
  Null = Null
  Malformed = Malformed
  NoResource = NoResource
  Dotted <- MCDotted
  MaxClaims = 1
  NativeJobs = {j1}
  ReplyTexts = {x1, x2}
  NoText = NoText
  NativeTTL = 2
  NativeAttempts = 2
  NativeMaxTime = 3
  ZRuns = {z1, z2, z3}
  NoClaim = NoClaim
  Turns = {t1, t2}
  EventIds = {e1, e2, e3}
  EventSeqs = {1, 2}
  Requests = {q1, q2}
  DecisionLimit = 1
  NoTurn = NoTurn
  NoTerminal = NoTerminal
  AgentIds = {a1, a2}
  DiscordIds = {u1, u2}
  d1 = d1
  p1 = p1
  Definitions = {d1}
  Adapters = {p1, p2}
  AdapterOf <- MCAdapterOf
  Bad = Bad
  Nothing = Nothing
  MaxEntries = 2
  WMessages = {m1, m2, m3}
  WLimit = 2
INVARIANTS
  HostTypeOK
  OneAuthority
  AtMostOneEnqueue
  EnqueueIsTraceable
  DoneWasReplied
  OneNativePerContext
  CredentialUnderClaim
  SuccessIsUnambiguous
  AllowedOnceInTurn
  VerdictIsExact
  NothingSkipped
PROPERTIES
  CallsWithinLease
  ImplementsDelivery
SYMMETRY Symmetry
CHECK_DEADLOCK FALSE
