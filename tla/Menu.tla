--------------------------------- MODULE Menu ---------------------------------
(***************************************************************************)
(* The menu (menu.c) and its command parser (cmd.leg).  A command line is  *)
(* parsed twice: the first pass validates, the second one acts.  The       *)
(* grammar's actions run only once the whole line has matched, one after   *)
(* the other, so a line is here the sequence of its actions.               *)
(***************************************************************************)
EXTENDS Integers, Sequences, FiniteSets, SequencesExt

CONSTANTS
    Root,           \* s_root_menu
    Search,         \* the folder that a search makes
    Persistent,     \* the static folders: Root and its children
    Children,       \* what each folder lists; anything else listed is an atom
    TypeOf,         \* the type of each folder, without its JF_ITEM_TYPE_
    Lines,          \* the lines the user may type, as sequences of actions
    Malformed,      \* a line that does not match
    NetworkFails,   \* whether fetching a folder may fail
    MaxDepth,       \* bound: items on the menu stack
    NULL

ASSUME TreeAssumption ==
    /\ {Root, Search} \cup Persistent \subseteq DOMAIN Children
    /\ \A f \in DOMAIN Children : Children[f] \in Seq(ToSet(Children[f]))
    /\ Root \in Persistent /\ Search \notin Persistent
    /\ Persistent = {Root} \cup {Children[Root][n] : n \in 1 .. Len(Children[Root])}
    /\ TypeOf[Root] = "MENU_ROOT" /\ TypeOf[Search] = "SEARCH_RESULT"

Marks == {"MARK_PLAYED", "MARK_UNPLAYED", "MARK_FAVORITE", "MARK_UNFAVORITE"}
FilterKinds == {"played", "unplayed", "resumable", "favorite", "likes", "dislikes"}

\* The actions of a line and their order: the grammar's Start.
Selectors == [do : {"digest"}, n : Nat] \cup [do : {"range"}, l : Nat, r : Nat] \cup [do : {"all"}]
FilterLetters == [do : {"filter"}, filter : FilterKinds]
Words == [do : {"dotdot", "help", "home", "search", "quit"}]
Actions ==
    Selectors \cup FilterLetters \cup [do : {"mark"}, flag : Marks] \cup [do : {"filters"}] \cup Words

Starts(l, heads) == l \in Seq(Actions) /\ l # <<>> /\ Head(l) \in heads
Selecting(l) == l \in Seq(Selectors)
Marking(l) == Starts(l, [do : {"mark"}, flag : Marks]) /\ Selecting(Tail(l))
Filtering(l) == Starts(l, [do : {"filters"}]) /\ Tail(l) \in Seq(FilterLetters)
OneWord(l) == Starts(l, Words) /\ Tail(l) = <<>>

ASSUME LinesAssumption ==
    \A l \in Lines : Selecting(l) \/ Marking(l) \/ Filtering(l) \/ OneWord(l)
ASSUME BoundAssumption == MaxDepth \in Nat \ {0} /\ NetworkFails \in BOOLEAN

VARIABLES
    at,             \* where main is: out of the menu, or in jf_menu_ui
    state,          \* g_state.state, as far as the menu goes
    stack,          \* s_menu_stack, top last
    context,        \* s_context
    filters,        \* s_filters
    filters_cmd,    \* s_filters_cmd
    query,          \* the filters in s_filters_query
    asked,          \* history: the filters in the last request for a menu
    cmd,            \* yy.state
    line,           \* the line being evaluated
    todo,           \* its actions that are still to run in this pass
    playlist,       \* the disk playlist
    marked,         \* flag changes requested for this line
    freed           \* static items that have been freed

vars == <<at, state, stack, context, filters, filters_cmd, query, asked, cmd, line, todo,
          playlist, marked, freed>>
request == <<filters, query, asked>>
menu == <<stack, context, request, freed>>
run == <<at, state, line>>

Failures == {"FAIL_FOLDER", "FAIL_SYNTAX", "FAIL_SPECIAL"}
IsFolder(item) == item \in DOMAIN Children
Contents == Children[context]

Init ==
    /\ at = "menu" /\ state = "MENU_UI"
    /\ stack = <<>> /\ context = NULL
    /\ filters = {} /\ filters_cmd = {} /\ query = {} /\ asked = {}
    /\ cmd = "VALIDATE_START"
    /\ line = <<>> /\ todo = <<>>
    /\ playlist = <<>> /\ marked = <<>>
    /\ freed = {}

-----------------------------------------------------------------------------
(* Filters                                                                 *)

\* jf_menu_item_type_allows_filter.
Allows(type, f) ==
    CASE type \in {"MENU_ROOT", "MENU_CONTINUE", "MENU_NEXT_UP", "MENU_LIBRARIES",
                   "COLLECTION_MUSIC", "ARTIST", "SERIES"} -> FALSE
      [] type = "MENU_FAVORITES" -> f # "favorite"
      [] type = "MENU_LATEST_ADDED" -> f \in {"played", "unplayed"}
      [] OTHER -> TRUE

\* jf_menu_filters_print: what the title shows as in force.
Shown == {f \in filters : Allows(TypeOf[context], f)}

\* jf_menu_filters_apply
QueryOf(type, fs) == IF type = "MENU_LATEST_ADDED" THEN {} ELSE {f \in fs : Allows(type, f)}

\* Mutant: the latest items are asked for as any others.
UrlFiltersQuery(type) ==
    IF type \in {"PLAYLIST", "MENU_ROOT", "MENU_CONTINUE", "MENU_NEXT_UP", "MENU_LIBRARIES"} THEN {}
    ELSE query

\* jf_menu_item_get_remote_url; the root menu is asked for nowhere.
UrlFilters(type) ==
    CASE type \in {"PLAYLIST", "MENU_ROOT", "MENU_CONTINUE", "MENU_NEXT_UP", "MENU_LIBRARIES"} -> {}
      [] type = "MENU_LATEST_ADDED" -> IF "played" \in filters THEN {"played"} ELSE filters \cap {"unplayed"}
      [] OTHER -> query

-----------------------------------------------------------------------------
(* jf_menu_ui                                                              *)

\* Pop the context, apply the filters, clear the disk cache.
EnterMenu ==
    /\ at = "menu" /\ state = "MENU_UI"
    /\ context' = IF stack = <<>> THEN Root ELSE Last(stack)
    /\ stack' = IF stack = <<>> THEN stack ELSE Front(stack)
    /\ filters' = filters_cmd
    /\ query' = QueryOf(TypeOf[context'], filters_cmd)
    /\ playlist' = <<>>
    /\ at' = "print"
    /\ UNCHANGED <<state, filters_cmd, asked, cmd, line, todo, marked, freed>>

\* jf_menu_print_context: the context goes back on the stack, or is dropped.
PrintContext ==
    /\ at = "print"
    /\ asked' = UrlFilters(TypeOf[context])
    /\ stack' = Append(stack, context)
    /\ cmd' = "VALIDATE_START"
    /\ at' = "prompt"
    /\ UNCHANGED <<state, context, filters, query, filters_cmd, line, todo, playlist, marked, freed>>

PrintFails ==
    /\ at = "print"
    /\ NetworkFails /\ context # Root
    /\ asked' = UrlFilters(TypeOf[context])
    /\ context' = NULL
    /\ at' = "menu"
    /\ UNCHANGED <<state, stack, filters, query, filters_cmd, cmd, line, todo, playlist, marked, freed>>

\* The first pass over a new line; one that does not match runs no action.
ReadLine(l) ==
    /\ at = "prompt" /\ cmd = "VALIDATE_START"
    /\ Len(stack) < MaxDepth
    /\ line' = l
    /\ marked' = <<>>
    /\ IF l = Malformed
       THEN cmd' = "FAIL_SYNTAX" /\ UNCHANGED <<at, todo>>
       ELSE at' = "parse" /\ todo' = l /\ UNCHANGED cmd
    /\ UNCHANGED <<menu, state, filters_cmd, playlist>>

SecondPass ==
    /\ at = "prompt" /\ cmd = "VALIDATE_OK"
    /\ todo' = line
    /\ at' = "parse"
    /\ UNCHANGED <<menu, state, line, filters_cmd, cmd, playlist, marked>>

\* The command is done: play what it put on the playlist, if anything.
Succeed ==
    /\ at = "prompt" /\ cmd = "SUCCESS"
    /\ at' = "menu"
    /\ state' = IF playlist # <<>> THEN "PLAYBACK_INIT" ELSE state
    /\ UNCHANGED <<menu, line, filters_cmd, cmd, todo, playlist, marked>>

\* Prompt again.
Reject ==
    /\ at = "prompt" /\ cmd \in Failures
    /\ cmd' = "VALIDATE_START"
    /\ UNCHANGED <<run, menu, filters_cmd, todo, playlist, marked>>

\* Playback, out of this model, comes back to the menu.
PlaybackOver ==
    /\ at = "menu" /\ state = "PLAYBACK_INIT"
    /\ state' = "MENU_UI"
    /\ UNCHANGED <<at, menu, line, filters_cmd, cmd, todo, playlist, marked>>

-----------------------------------------------------------------------------
(* The grammar's actions                                                   *)

Runs(name) == at = "parse" /\ todo # <<>> /\ Head(todo).do = name
Special == cmd' = "SPECIAL" /\ todo' = Tail(todo)

\* jf_menu_dotdot
Dotdot ==
    /\ Runs("dotdot")
    /\ stack' = IF Last(stack) = Root THEN stack ELSE Front(stack)
    /\ Special
    /\ UNCHANGED <<run, context, request, filters_cmd, playlist, marked, freed>>

\* jf_menu_help
Help ==
    /\ Runs("help")
    /\ Special
    /\ UNCHANGED <<run, menu, filters_cmd, playlist, marked>>

\* jf_menu_clear
Home ==
    /\ Runs("home")
    /\ stack' = <<>>
    /\ Special
    /\ UNCHANGED <<run, context, request, filters_cmd, playlist, marked, freed>>

\* jf_menu_search
SearchFor ==
    /\ Runs("search")
    /\ stack' = Append(stack, Search)
    /\ Special
    /\ UNCHANGED <<run, context, request, filters_cmd, playlist, marked, freed>>

\* jf_menu_quit
Quit ==
    /\ Runs("quit")
    /\ state' = "USER_QUIT"
    /\ Special
    /\ UNCHANGED <<at, line, menu, filters_cmd, playlist, marked>>

\* yy_cmd_filters_start
FiltersStart ==
    /\ Runs("filters")
    /\ todo' = Tail(todo)
    /\ IF cmd = "VALIDATE_START"
       THEN cmd' = "VALIDATE_FILTERS" /\ UNCHANGED filters_cmd
       ELSE cmd' = "SPECIAL" /\ filters_cmd' = {}
    /\ UNCHANGED <<run, menu, playlist, marked>>

Contradictory(fs) == {"played", "unplayed"} \subseteq fs \/ {"likes", "dislikes"} \subseteq fs

\* Mutant: the filters that were set are not restored.
FilterKeep ==
    LET fs == filters_cmd \cup {Head(todo).filter} IN
    /\ Runs("filter")
    /\ todo' = Tail(todo)
    /\ IF cmd # "SPECIAL" THEN UNCHANGED <<cmd, filters_cmd>>
       ELSE /\ cmd' = IF Contradictory(fs) THEN "FAIL_SPECIAL" ELSE cmd
            /\ filters_cmd' = fs
    /\ UNCHANGED <<run, menu, playlist, marked>>

\* yy_cmd_digest_filter and jf_menu_filters_add
Filter ==
    LET fs == filters_cmd \cup {Head(todo).filter} IN
    /\ Runs("filter")
    /\ todo' = Tail(todo)
    /\ IF cmd # "SPECIAL" THEN UNCHANGED <<cmd, filters_cmd>>
       ELSE IF Contradictory(fs) THEN cmd' = "FAIL_SPECIAL" /\ filters_cmd' = filters
       ELSE filters_cmd' = fs /\ UNCHANGED cmd
    /\ UNCHANGED <<run, menu, playlist, marked>>

\* "m": the flag to set.
Mark ==
    /\ Runs("mark")
    /\ cmd' = Head(todo).flag
    /\ todo' = Tail(todo)
    /\ UNCHANGED <<run, menu, filters_cmd, playlist, marked>>

Digest(n) == [do |-> "digest", n |-> n]

\* Mutant: the range is clamped to the last item.
PositionsClamped(l, r, count) ==
    LET clamp(n) == IF n > count THEN count ELSE n
    IN  IF l <= r THEN [k \in 1 .. clamp(r) - clamp(l) + 1 |-> clamp(l) + k - 1]
        ELSE [k \in 1 .. clamp(l) - clamp(r) + 1 |-> clamp(l) - k + 1]

\* The numbers that yy_cmd_digest_range goes through: both ends are clamped to
\* one past the last item, and the direction is that of the range as typed.
Positions(l, r, count) ==
    LET clamp(n) == IF n > count + 1 THEN count + 1 ELSE n
    IN  IF l <= r THEN [k \in 1 .. clamp(r) - clamp(l) + 1 |-> clamp(l) + k - 1]
        ELSE [k \in 1 .. clamp(l) - clamp(r) + 1 |-> clamp(l) - k + 1]

DigestRange ==
    /\ Runs("range")
    /\ LET ps == Positions(Head(todo).l, Head(todo).r, Len(Contents))
       IN  todo' = [k \in DOMAIN ps |-> Digest(ps[k])] \o Tail(todo)
    /\ UNCHANGED <<run, menu, filters_cmd, cmd, playlist, marked>>

\* The selector "*" is the range of all items.
DigestAll ==
    /\ Runs("all")
    /\ LET ps == Positions(1, Len(Contents), Len(Contents))
       IN  todo' = [k \in DOMAIN ps |-> Digest(ps[k])] \o Tail(todo)
    /\ UNCHANGED <<run, menu, filters_cmd, cmd, playlist, marked>>

\* yy_cmd_digest, with an item: in the first pass, or marking, or in the second.
Exists == Head(todo).n \in DOMAIN Contents
Item == Contents[Head(todo).n]

DigestNothing ==
    /\ Runs("digest")
    /\ cmd \in Failures \/ ~ Exists
    /\ todo' = Tail(todo)
    /\ UNCHANGED <<run, menu, filters_cmd, cmd, playlist, marked>>

\* Mutant: a second folder is let through.
ValidateFolders ==
    /\ Runs("digest") /\ Exists
    /\ \/ cmd = "VALIDATE_START"
          /\ cmd' = IF IsFolder(Item) THEN "VALIDATE_FOLDER" ELSE "VALIDATE_ATOMS"
       \/ cmd = "VALIDATE_ATOMS" /\ cmd' = IF IsFolder(Item) THEN "FAIL_FOLDER" ELSE cmd
       \/ cmd = "VALIDATE_FOLDER" /\ cmd' = IF IsFolder(Item) THEN cmd ELSE "FAIL_FOLDER"
    /\ todo' = Tail(todo)
    /\ UNCHANGED <<run, menu, filters_cmd, playlist, marked>>

Validate ==
    /\ Runs("digest") /\ Exists
    /\ \/ cmd = "VALIDATE_START"
          /\ cmd' = IF IsFolder(Item) THEN "VALIDATE_FOLDER" ELSE "VALIDATE_ATOMS"
       \/ cmd = "VALIDATE_ATOMS" /\ cmd' = IF IsFolder(Item) THEN "FAIL_FOLDER" ELSE cmd
       \/ cmd = "VALIDATE_FOLDER" /\ cmd' = "FAIL_FOLDER"
    /\ todo' = Tail(todo)
    /\ UNCHANGED <<run, menu, filters_cmd, playlist, marked>>

\* jf_menu_child_dispatch
Dispatch ==
    /\ Runs("digest") /\ Exists
    /\ cmd = "VALIDATE_OK"
    /\ IF IsFolder(Item)
       THEN stack' = Append(stack, Item) /\ UNCHANGED playlist
       ELSE playlist' = Append(playlist, Item) /\ UNCHANGED stack
    /\ todo' = Tail(todo)
    /\ UNCHANGED <<run, context, request, filters_cmd, cmd, marked, freed>>

\* jf_menu_child_set_flag: the request is made and the child freed, whatever it
\* is; only the root menu's children are not copies.
SetFlag ==
    /\ Runs("digest") /\ Exists
    /\ cmd \in Marks
    /\ marked' = Append(marked, Item)
    /\ freed' = IF context = Root THEN freed \cup {Item} ELSE freed
    /\ todo' = Tail(todo)
    /\ UNCHANGED <<run, stack, context, request, filters_cmd, cmd, playlist>>

\* yy_cmd_finalize; with marks it awaits all of the requests.
Finalize ==
    /\ at = "parse" /\ todo = <<>>
    /\ cmd' = CASE cmd \in {"VALIDATE_ATOMS", "VALIDATE_FOLDER", "VALIDATE_FILTERS"} -> "VALIDATE_OK"
                [] cmd \in Marks \cup {"VALIDATE_OK", "SPECIAL", "VALIDATE_START"} -> "SUCCESS"
                [] OTHER -> cmd
    /\ at' = "prompt"
    /\ UNCHANGED <<state, line, menu, filters_cmd, todo, playlist, marked>>

-----------------------------------------------------------------------------
Loop ==
    \/ EnterMenu \/ PrintContext \/ PrintFails
    \/ (\E l \in Lines \cup {Malformed} : ReadLine(l))
    \/ SecondPass \/ Succeed \/ Reject

Parse ==
    \/ Dotdot \/ Help \/ Home \/ SearchFor \/ Quit
    \/ FiltersStart \/ Filter \/ Mark
    \/ DigestRange \/ DigestAll \/ DigestNothing \/ Validate \/ Dispatch \/ SetFlag
    \/ Finalize

Next == Loop \/ Parse \/ PlaybackOver

Spec == Init /\ [][Next]_vars

-----------------------------------------------------------------------------
TypeOK ==
    /\ at \in {"menu", "print", "prompt", "parse"}
    /\ state \in {"MENU_UI", "PLAYBACK_INIT", "USER_QUIT"}
    /\ stack \in Seq(DOMAIN Children)
    /\ context \in DOMAIN Children \cup {NULL}
    /\ \A fs \in {filters, filters_cmd, query, asked} : fs \subseteq FilterKinds
    /\ cmd \in Marks \cup Failures
              \cup {"VALIDATE_START", "VALIDATE_ATOMS", "VALIDATE_FOLDER", "VALIDATE_FILTERS",
                    "VALIDATE_OK", "SPECIAL", "SUCCESS"}
    /\ line \in Lines \cup {Malformed, <<>>}
    /\ freed \subseteq Persistent

\* The menu stack is always a way down the tree from the root menu, each folder
\* listed in the one below it: no command leaves two folders of the same menu on
\* it (yy_cmd_digest's FAIL_FOLDER), and the way back is never lost.
StackIsPath ==
    /\ stack # <<>> => stack[1] = Root
    /\ \A i \in 1 .. Len(stack) - 1 :
         stack[i + 1] = Search \/ stack[i + 1] \in Range(Children[stack[i]])

\* A line that is refused has done nothing: at a prompt the menu shown is the top
\* of the stack, the playlist is empty and the filters are the ones in force.
RefusedLinesDoNothing ==
    at = "prompt" /\ cmd \in Failures \cup {"VALIDATE_START"} =>
        /\ stack # <<>> /\ Last(stack) = context
        /\ playlist = <<>>
        /\ filters_cmd = filters

\* The menu on the screen is what its title says: the server was asked for it with just
\* the filters that the title shows as in force (menu.c 256-337), whatever was set,
\* refused and cleared before, and wherever in the library, but for a playlist.
FiltersAsShown ==
    at = "prompt" /\ TypeOf[context] # "PLAYLIST" => asked = Shown

\* The items that a line selects, by what the help text says of its selectors: those of
\* each range that exist, in the order of the range.
Between(l, r, items) ==
    SubSeq(items, IF l < 1 THEN 1 ELSE l, IF r > Len(items) THEN Len(items) ELSE r)
InRange(l, r, items) == IF l <= r THEN Between(l, r, items) ELSE Reverse(Between(r, l, items))
Selects(action, items) ==
    CASE action.do = "digest" -> Between(action.n, action.n, items)
      [] action.do = "range" -> InRange(action.l, action.r, items)
      [] action.do = "all" -> items
      [] OTHER -> <<>>
Selection(l, items) == FlattenSeq([k \in DOMAIN l |-> Selects(l[k], items)])
Selected == Selection(line, Contents)

\* A command that goes through has done to exactly the items it selects what it
\* says: marked them all, or put them all on the playlist in the order typed, or
\* opened the one folder; in spite of clamping, two passes and skipped numbers.
SelectionHonoured ==
    at = "prompt" /\ cmd = "SUCCESS" /\ Selected # <<>> =>
        IF line[1].do = "mark"
        THEN marked = Selected /\ playlist = <<>> /\ Last(stack) = context
        ELSE \/ playlist = Selected /\ Last(stack) = context
             \/ playlist = <<>> /\ Selected = <<Last(stack)>>

-----------------------------------------------------------------------------
(***************************************************************************)
(* What the code does not keep.  TLC finds each of these violated, on the  *)
(* constants the README gives; no other property is stated over them.      *)
(***************************************************************************)

\* Static items of the menu are never freed (shared.h 93-94, 194-195).
StaticItemsKept == freed = {}

\* The same of every menu: a playlist is asked for without the filters that its title
\* shows (menu.c 424-430).
EveryMenuAsShown == at = "prompt" => asked = Shown

\* The edges of docs/command_state_machine.gv.
Diagram ==
    {<<"VALIDATE_START", "VALIDATE_FILTERS">>, <<"VALIDATE_FILTERS", "VALIDATE_OK">>,
     <<"VALIDATE_FILTERS", "FAIL_SYNTAX">>,
     <<"VALIDATE_START", "VALIDATE_FOLDER">>, <<"VALIDATE_FOLDER", "FAIL_FOLDER">>,
     <<"VALIDATE_FOLDER", "VALIDATE_OK">>, <<"VALIDATE_FOLDER", "FAIL_SYNTAX">>,
     <<"VALIDATE_START", "VALIDATE_ATOMS">>, <<"VALIDATE_ATOMS", "FAIL_FOLDER">>,
     <<"VALIDATE_ATOMS", "VALIDATE_OK">>, <<"VALIDATE_ATOMS", "FAIL_SYNTAX">>,
     <<"VALIDATE_OK", "FAIL_DISPATCH">>, <<"VALIDATE_OK", "SUCCESS">>,
     <<"VALIDATE_START", "FAIL_SYNTAX">>}

\* While a line is parsed the parser moves along the edges of that diagram only.
DiagramFollowed ==
    [][at = "parse" => cmd' = cmd \/ <<cmd, cmd'>> \in Diagram]_vars
=============================================================================
