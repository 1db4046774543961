\* Two posts over two turns, two retries and two workers with one fault.
SPECIFICATION FairSpec
CONSTANTS
    Opener = open
    Posts = {p1, p2}
    Enders = {}
    Retriers = {v1, v2}
    Workers = {w1, w2}
    Decisions = {"None"}
    MaxTurn = 2
    MaxFaults = 1
    None = none
INVARIANTS
    EvaluationFollowsCompletion
    PendingEvaluationOwned
    ScoreCoversInterview
    OutcomeConsistent
PROPERTIES
    TurnSettles
    ImplementsLifecycle
CHECK_DEADLOCK FALSE
