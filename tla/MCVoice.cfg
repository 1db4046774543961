\* The server and one candidate's page: three submissions over two turns.
SPECIFICATION ClientSpec
CONSTANTS
    Opener = open
    Posts = {p1, p2, p3}
    Enders = {e1}
    Retriers = {}
    Workers = {}
    Decisions = {"None"}
    MaxTurn = 2
    MaxFaults = 1
    MaxDisturbances = 1
    None = none
SYMMETRY ClientSymmetry
INVARIANTS
    TypeOK
    SingleCascade
    OneAnswer
    PendingTurnOwned
    HistoryStable
    MediaOnDisk
    ClientTypeOK
    IndexFollowsRows
    RecordingKeptOnce
    AcceptedAnswersKept
    PatientRetriesAgree
    DroppedOnlyWhenEnded
PROPERTIES
    CompleteTurnStable
    CompletionIsFinal
CHECK_DEADLOCK FALSE
