CONSTANTS
    Producers = {p1, p2}
    Consumers = {c1, c2}
    SlotCount = 2
    Payloads = {v1, v2}
    NULL = NULL
SPECIFICATION FairSpec
INVARIANTS
    TypeOK
    RingInv
    NoLostWakeup
PROPERTIES
    RefinesFifo
    HeadIsTaken
    EnqueueReturns
