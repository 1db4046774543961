SPECIFICATION ScoringSpec
CONSTANTS
    MaxCriteria = 18
CONSTRAINT OnePerCount
INVARIANTS
    HonestUpTo13
    RubricsAgree
    VerdictsAgree
PROPERTIES
    SkillsNeverHurt
CHECK_DEADLOCK FALSE
