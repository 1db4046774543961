SPECIFICATION ReportSpec
CONSTANTS
    Opener = open
    Posts = {}
    Enders = {e1}
    Retriers = {v1, v2}
    Workers = {w1}
    Decisions = {"None", "Approved"}
    MaxTurn = 0
    MaxFaults = 1
    None = none
    Pages = {g1, g2}
    Keys = {k1, k2}
    MaxClicks = 2
    MaxAttempts = 1
    MaxLost = 1
SYMMETRY ReportSymmetry
INVARIANTS
    ReportTypeOK
    ReportShowsOutcome
    NothingRerun
    OneUrlHeld
CHECK_DEADLOCK FALSE
