SPECIFICATION Spec
CONSTANTS
    c1 = c1
    c2 = c2
    Clients = {c1, c2}
    Failures = {"rename", "size", "storage", "readback", "remove"}
    MaxCalls = 4
    MaxFailures = 2
    MaxCrashes = 1
INVARIANTS FilesAreSomewhere RecoverableDeletion
PROPERTIES FilesFollowTheAnswer
SYMMETRY Symmetry
