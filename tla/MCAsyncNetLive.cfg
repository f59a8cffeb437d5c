CONSTANTS
    Workers = {w1, w2}
    SlotCount = 2
    FlagSlots = 1
    MaxRequests = 3
    MaxParts = 0
    Methods = {"POST"}
    MalformedLocation = TRUE
    Interrupts = FALSE
    NULL = NULL
SPECIFICATION FairSpec
INVARIANT RepliesOutliveTransfers
PROPERTIES
    FlagFindsSlot
    RequestsAreSent
    ExitCompletes
