CONSTANTS
  Tabs = {t1, t2}
  Devices = {d1}
  Threads = {p1, p2}
  Values = {v0, v1}
  Default = v0
  NoThread = NoThread
  None = None
  Cap = 1
  Calls = 3
SPECIFICATION Spec
SYMMETRY Symmetry
INVARIANTS
  NoUseAfterClose
  GoneLeavesNothing
  ExitIsLast
  LatestWins
CHECK_DEADLOCK FALSE
