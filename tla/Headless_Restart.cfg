SPECIFICATION HeadlessSpec
CONSTANTS
  MaxId = 3
  Names <- MCNames
  Files <- MCFiles
  Calls = 2
  PerSession = 1
  QueueLen = 1
  Starts = 3
  Faults = 1
INVARIANTS EveryItemHasItsRow WaitedMeansNoCall EffectsAreAudited
PROPERTY EditsSurvive
CHECK_DEADLOCK FALSE
