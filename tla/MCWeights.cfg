SPECIFICATION ScoringSpec
CONSTANTS
    MaxCriteria = 14
INVARIANTS
    WeightsHonest
CHECK_DEADLOCK FALSE
