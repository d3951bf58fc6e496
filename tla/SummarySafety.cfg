SPECIFICATION Spec
CONSTANTS
    Clients = {c1, c2}
    Configs = {"local", "cloud"}
    Seed = "local"
    LocalConfigs = {"local"}
    Meetings = {"short", "long"}
    Transcript <- MCTranscript
    Answers <- MCAnswers
    MaxChunkChars = 2
    MaxPerChunk = 2
    MaxChunks = 2
    MaxRetries = 1
    MaxJobs = 2
    MaxCalls = 3
    MaxErrors = 2
    MaxCrashes = 1
INVARIANTS JobsAreInHand CompletedAgrees ProfileTells CancelStopsRequests
PROPERTIES FinishedJobsStay
SYMMETRY ClientSymmetry
CHECK_DEADLOCK FALSE
