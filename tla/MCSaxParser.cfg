CONSTANTS
    Items <- MCItems
    Folders <- MCFolders
    NULL = NULL
    MaxRecords = 3
    Shapes <- MCShapes
    Tags <- MCTags
    Foreign = "x"
    MaxDepth = 2
    NullKeys = {}
SPECIFICATION SSpec
INVARIANTS
    PayloadIsAnswer
    NumbersMatch
PROPERTIES
    RefinesLists
    OperationsAgree
