SPECIFICATION Spec
CONSTANTS
    Opener = open
    Posts = {}
    Enders = {e1}
    Retriers = {v1}
    Workers = {w1}
    Decisions = {"None"}
    MaxTurn = 1
    MaxFaults = 1
    None = none
PROPERTY StuckEvaluationRetriable
CHECK_DEADLOCK FALSE
