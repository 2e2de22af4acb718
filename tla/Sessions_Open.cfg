SPECIFICATION Spec
CONSTANTS
    Calls = {c1, c2}
    Agents = {a1}
    Keys = {k1}
    PerAgent = 2
    Total = 2
    TombsPerOwner = 2
    TombsTotal = 1
    MaxFaults = 1
SYMMETRY Symmetry
CHECK_DEADLOCK FALSE
INVARIANTS
    NoTransportLeaks
    RowsAreClosed
PROPERTIES
    RetryGetsTheSession
