CONSTANTS
    Count = 3
    Marks = {"none", "one"}
    LoopValues = {0, 3}
    Controls = {"next", "prev", "shuffle"}
    MaxInputs = 2
    MaxEvents = 5
    NetworkFails = FALSE
    Cancels = FALSE
    FilesFail = TRUE
    Aborts = FALSE
    Heights = {0, 1, 2, 3, 4}
    NULL = NULL
SPECIFICATION FairSpec
INVARIANTS
    PlayingAtPosition
    SessionsClosed
    WindowFits
    LoopsAgree
    OutOfSyncEnds
PROPERTY PlaybackEnds
