SPECIFICATION Spec
CONSTANTS
    Clients = {c1, c2}
    Languages = {"en", "zh"}
    MaxMeetings = 2
    MaxWorkers = 3
    MaxFinals = 1
    MaxCalls = 5
    MaxErrors = 1
    MaxRestarts = 1
INVARIANTS RecordingIsSound NothingLeftBehind CompletedIsWhole SnapshotTells
SYMMETRY ClientSymmetry
CHECK_DEADLOCK FALSE
