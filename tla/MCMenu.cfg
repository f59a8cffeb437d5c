CONSTANTS
    Root = Root
    Search = Search
    libraries = libraries
    favorites = favorites
    latest = latest
    series = series
    season = season
    e1 = e1
    e2 = e2
    film = film
    Malformed = Malformed
    NULL = NULL
    Persistent <- MCPersistent
    Children <- MCChildren
    TypeOf <- MCTypeOf
    Lines <- AllLines
    NetworkFails = TRUE
    MaxDepth = 5

SPECIFICATION Spec
CHECK_DEADLOCK FALSE
INVARIANTS
    StackIsPath
    RefusedLinesDoNothing
    FiltersAsShown
    SelectionHonoured
