SPECIFICATION Spec
CONSTANTS
    Requests = {r1}
    Workers = {w1, w2}
    Conns = {c1}
    Targets = {t1}
    MaxExec = 1
    MaxFaults = 0
    MaxCrashes = 0
INVARIANTS
    RunsAreDisconnectable
