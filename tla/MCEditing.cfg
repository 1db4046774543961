SPECIFICATION EditingSpec
CONSTANTS
    Recruiters = {c1, c2}
    MaxActions = 3
    MaxInFlight = 2
    MaxGenerated = 2
SYMMETRY EditorSymmetry
INVARIANTS
    EditingTypeOK
    UniqueIds
    EditsLand
    EditsHitTheirQuestion
CHECK_DEADLOCK FALSE
