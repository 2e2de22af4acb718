SPECIFICATION Spec
CONSTANTS
    Lines = {l1, l2}
    Workers = {w1, w2}
    Effects = {"env", "state"}
    Scenarios <- TwoLinesOrFaults
SYMMETRY Symmetry
CHECK_DEADLOCK FALSE
INVARIANTS
    UnapprovedNeverSent
    CloseSettlesLines
PROPERTIES
    ContextIsCurrent
