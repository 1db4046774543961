SPECIFICATION Spec
CONSTANTS
    Opener = open
    Posts = {p1, p2, p3}
    Enders = {}
    Retriers = {}
    Workers = {}
    Decisions = {"None"}
    MaxTurn = 1
    MaxFaults = 0
    None = none
INVARIANT RepliesAgree
CHECK_DEADLOCK FALSE
