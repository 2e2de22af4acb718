CONSTANTS
  Handlers = {h1, h2}
  Remotes = {r1, lo}
  Loopback = {lo}
  MaxSessions = 1
  RemoteMaxFails = 2
  GlobalMaxFails = 3
  MaxRemotes = 1
  Evicted = 1
  MaxDelayed = 1
  HashSlots = 1
  Window = 1
  IdleTicks = 1
  AgeTicks = 2
  Logins = 2
  Budget = 3
  MaxClock = 1
SPECIFICATION Spec
SYMMETRY Symmetry
INVARIANTS
  SessionsProveCredential
  EveryEndIsTold
  AttemptsAreAccounted
  GuessesAreBounded
  StampMeansContent
CHECK_DEADLOCK FALSE
