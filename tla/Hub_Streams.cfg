CONSTANTS
  Browsers = {b1}
  Streams = {s1, s2}
  Sessions = {x1}
  Terminals = {t1}
  QueueSize = 1
  RingSize = 2
  PerSession = 2
  Total = 2
  ExitMax = 1
  Events = 3
  Epochs = 2
SPECIFICATION Spec
INVARIANTS
  NoHiddenHole
  CaughtUp
  OnlyLateStreamsSurvive
PROPERTY StreamsEnd
CHECK_DEADLOCK FALSE
