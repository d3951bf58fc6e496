SPECIFICATION Spec
CONSTANTS
    Segments = {1, 2}
    Languages = {"ja", "zh"}
    Source = "zh"
    Retriers = {r1, r2}
    QueueDepth = 1
    MaxTries = 2
    MaxLiveCalls = 1
    MaxCalls = 2
    MaxErrors = 2
    MaxCrashes = 1
INVARIANTS TextsAreAnswers PendingHasOwner ProgressAddsUp
PROPERTIES FinishedAttemptsStay
SYMMETRY RetrierSymmetry
CHECK_DEADLOCK FALSE
