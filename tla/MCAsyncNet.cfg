CONSTANTS
    Workers = {w1, w2}
    SlotCount = 2
    FlagSlots = 2
    MaxRequests = 3
    MaxParts = 2
    Methods = {"POST", "DELETE"}
    MalformedLocation = TRUE
    Interrupts = TRUE
    NULL = NULL
SPECIFICATION Spec
SYMMETRY WorkerSymmetry
CHECK_DEADLOCK FALSE
INVARIANTS
    RepliesOwned
    HandleReset
    RequestsBeforeExits
    NoStaleReply
