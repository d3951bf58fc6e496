CONSTANTS
    Meetings = {m1, m2}
    MaxRequests = 3
    MaxVersions = 3
    MaxJobs = 2
    MaxErrors = 1
    MaxPolls = 2
SYMMETRY Symmetry
SPECIFICATION WindowSpec
INVARIANTS
    RecordIsConsistent
    EditsBuildOnLatest
    WindowKeepsWatching
PROPERTIES
    WindowMovesForward
CHECK_DEADLOCK FALSE
