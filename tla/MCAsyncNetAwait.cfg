CONSTANTS
    Workers = {w1, w2}
    SlotCount = 1
    FlagSlots = 1
    MaxRequests = 1
    MaxParts = 0
    Methods = {"POST"}
    MalformedLocation = FALSE
    Interrupts = FALSE
    NULL = NULL
SPECIFICATION FairSpec
PROPERTY AwaitReturns
