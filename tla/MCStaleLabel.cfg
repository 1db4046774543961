SPECIFICATION StoreSpec
CONSTANTS
    Recruiters = {c1, c2}
    Decisions = {"None", "Approved", "Rejected"}
    Stages = {"Applied", "Rejected"}
    Strong <- MCStrong
    MaxRubric = 1
    MaxRestarts = 1
    MaxActions = 2
    MaxAttempts = 2
SYMMETRY RecruiterSymmetry
INVARIANT LabelHonest
CHECK_DEADLOCK FALSE
