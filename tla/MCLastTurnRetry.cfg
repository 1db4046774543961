SPECIFICATION Spec
CONSTANTS
    Opener = open
    Posts = {p1, p2}
    Enders = {}
    Retriers = {}
    Workers = {}
    Decisions = {"None"}
    MaxTurn = 1
    MaxFaults = 0
    None = none
PROPERTY RetryGetsResult
CHECK_DEADLOCK FALSE
