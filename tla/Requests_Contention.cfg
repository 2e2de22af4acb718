SPECIFICATION FairSpec
CONSTANTS
    Requests = {r1}
    Workers = {w1, w2}
    Conns = {c1}
    Targets = {t1, t2}
    MaxExec = 1
    MaxFaults = 1
    MaxCrashes = 1
INVARIANTS
    SoundStart
    MemoryFollowsStore
    HonestRegistry
PROPERTIES
    KeepsLedger
    RunsSettle
