SPECIFICATION ClientSpec
CONSTANTS
    Opener = open
    Posts = {p1, p2}
    Enders = {e1}
    Retriers = {}
    Workers = {}
    Decisions = {"None"}
    MaxTurn = 2
    MaxFaults = 0
    MaxDisturbances = 0
    None = none
INVARIANTS
    RetryResendsPair
CHECK_DEADLOCK FALSE
