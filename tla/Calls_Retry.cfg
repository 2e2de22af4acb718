SPECIFICATION CallsFairSpec
CONSTANTS
    Agents = {a1}
    ClientIds = {k1}
    Calls = {c1, c2}
    Polls = {p1}
    Window = 1
    MaxId = 2
    Mishaps = 1
CHECK_DEADLOCK FALSE
INVARIANTS
    OneRequestPerKey
    LineOncePerSession
PROPERTIES
    PollsAreAnswered
