CONSTANTS
    Count = 2
    Marks = {"none", "one", "many"}
    LoopValues = {0}
    Controls = {"next", "prev"}
    MaxInputs = 2
    MaxEvents = 3
    NetworkFails = TRUE
    Cancels = TRUE
    FilesFail = TRUE
    Aborts = TRUE
    Heights = {}
    NULL = NULL
    Runtimes <- MCRuntimes
    Bookmarks <- MCBookmarks
    Threshold = 2
SPECIFICATION SSpec
CHECK_DEADLOCK FALSE
INVARIANT PartsAlwaysFlagged
