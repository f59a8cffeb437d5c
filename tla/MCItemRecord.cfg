CONSTANTS
    NUL = NUL
    Junk = Junk
    NULL = NULL
    Freed = Freed
    Texts <- MCTexts
    Rests <- MCRests
    FirstSize = 1
    MaxUsed = 3
    Items <- MCItems
    MaxNesting = 2
    RecordSize = 4
    NameSize = 2
    MaxRecords = 2
SPECIFICATION RSpec
INVARIANTS
    ReadsBack
    TextKept
