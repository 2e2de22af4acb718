SPECIFICATION Spec
CONSTANTS
    Agents = {a1, a2}
    Tokens = {k1, k2}
    Calls = {h1}
    Switches = {"sudo"}
    Commands <- SampleCommands
    TTL = 1
    MaxTime = 1
    MaxFaults = 1
SYMMETRY Interchangeable
INVARIANTS
    RestartDecidesTheSame
    BypassProvesIdentity
