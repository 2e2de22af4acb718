CONSTANTS
  Conns = {c1, c2}
  Legacy <- MCLegacy
  KeyPaths = {k1}
  Endpoints = {e1, e2}
  Readers = {r1}
  None = None
  Down = Down
  Calls = 3
  Faults = 2
SYMMETRY Symmetry
SPECIFICATION Spec
INVARIANTS
  NoSecretIsLost
  NoSecretIsForgotten
  PasswordFitsEndpoint
  OnlyOvertakenDialsAreStale
CHECK_DEADLOCK FALSE
