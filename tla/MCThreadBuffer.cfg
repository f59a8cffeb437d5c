CONSTANTS
    Responses <- AllResponses
    CurlMayFail = TRUE
    MayExit = TRUE
    MaxRequests = 2
    NULL = NULL
SPECIFICATION FairSpec
CHECK_DEADLOCK FALSE
INVARIANTS
    ParsedInOrder
    HandOff
    SuccessMeansParsed
PROPERTY RequestReturns
