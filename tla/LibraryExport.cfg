CONSTANTS
    SearchWords = {"cjk"}
    OldVersions = {0, 1, 2, 3, 4, 5, 6, 7, 8, 9}
    PageSize = 2
    MaxChanges = 2
    MaxLoads = 3
    MaxExports = 2
    Clients = {one, two}
    AskedOptions <- MCAskedOptions
    ExportedMeetings = {1}
    DocumentLimit = 1
SPECIFICATION Spec
SYMMETRY Threads
INVARIANTS
    OpenedDatabaseIsWhole
    PagesAreExact
    FolderAgrees
    FormatsAgree
PROPERTY
    EditedFilesKept
CHECK_DEADLOCK FALSE
