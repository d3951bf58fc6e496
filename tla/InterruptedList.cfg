CONSTANTS
    SearchWords = {"cjk"}
    OldVersions = {8}
    PageSize = 2
    MaxChanges = 1
    MaxLoads = 1
    MaxExports = 0
SPECIFICATION LibrarySpec
INVARIANT
    InterruptedAreOffered
CHECK_DEADLOCK FALSE
