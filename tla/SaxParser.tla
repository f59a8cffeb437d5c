------------------------------ MODULE SaxParser ------------------------------
(***************************************************************************)
(* The callbacks by which the parser thread turns a response into the menu *)
(* on the screen and the records of the payload cache (json.c), laid over  *)
(* the caches of DiskCache; the menu loop that asks for the response and   *)
(* then moves records of the payload to the playlist is in main.           *)
(*                                                                         *)
(* yajl and the server are external: a document is generated token by      *)
(* token, and each token is handed to its callback.  A text or a number    *)
(* is its length's worth of a tag that says where it comes from.           *)
(***************************************************************************)
EXTENDS DiskCache, SequencesExt

CONSTANTS
    Shapes,         \* what items the server sends: functions from keys to Full or a text
    Tags,           \* a text for each item of a document
    Foreign,        \* a text found where no item's text is
    MaxDepth,       \* bound on the nesting of what is ignored
    NullKeys        \* keys whose value the server may leave null

Full == "full"
Absent == "absent"

StringKeys == {"Name", "Id", "AlbumArtist", "Album", "SeriesName", "Path"}
NumberKeys == {"ProductionYear", "IndexNumber", "ParentIndexNumber", "RunTimeTicks"}
TypeKeys == {"Type", "CollectionType"}
FieldKeys == StringKeys \cup NumberKeys \cup {"PlaybackPositionTicks"}
ItemKeys == StringKeys \cup NumberKeys \cup TypeKeys \cup {"UserData"}

ASSUME ShapesAssumption ==
    \A s \in Shapes :
        /\ DOMAIN s \subseteq ItemKeys \cup {"PlaybackPositionTicks", "Other"}
        /\ "PlaybackPositionTicks" \in DOMAIN s => "UserData" \in DOMAIN s
ASSUME TagsAssumption ==
    Tags \in Seq(STRING) /\ {Absent, Foreign} \cap ToSet(Tags) = {} /\ Foreign # Absent
ASSUME NullAssumption == NULL \notin ItemKeys \cup {"Items", "PlaybackPositionTicks", "Other"}

VARIABLES
    parser_state,   \* context->parser_state; the state of waiting for a value is its key
    ignoring,       \* state_to_resume, maps_ignoring and arrays_ignoring
    latest_array,   \* context->latest_array
    item,           \* type and fields of the item at hand
    tb,             \* item_count and promiscuous_context of the thread buffer
    rejected,       \* a callback has returned 0: yajl stops, and is made anew
    printed,        \* the lines on the screen: number and name
    doc             \* the document being sent: see below

context == <<parser_state, ignoring, latest_array, item>>
svars == <<vars, context, tb, rejected, printed, doc>>

NotIgnoring == [resume |-> "NO_STATE", maps |-> 0, arrays |-> 0]

\* jf_sax_context_current_item_clear
NoItem == [type |-> "NONE", field |-> [k \in FieldKeys |-> Absent]]

(***************************************************************************)
(* The document.  stack: the containers that are open, each with the keys  *)
(* it has still to bring; key: the key whose value is due; facts: what the *)
(* item at hand has said of itself, by the path of what is said; expected: *)
(* the items said so far.                                                  *)
(***************************************************************************)
NoDoc == [stack |-> <<>>, key |-> NULL, shape |-> NULL, serial |-> 0, facts |-> NoItem.field,
          types |-> [k \in TypeKeys |-> Absent], expected |-> <<>>, asked |-> FALSE]

SInit ==
    /\ Init
    /\ parser_state = "IDLE" /\ ignoring = NotIgnoring /\ latest_array = FALSE
    /\ item = NoItem
    /\ tb = [item_count |-> 0, promiscuous |-> FALSE]
    /\ rejected = FALSE /\ printed = <<>>
    /\ doc = NoDoc

-----------------------------------------------------------------------------
(***************************************************************************)
(* What an item is                                                         *)
(***************************************************************************)
\* The type after the text of a "Type", and after that of a "CollectionType".
TypeAfter(type, text) ==
    CASE text = "CollectionFolder" -> (IF type = "NONE" THEN "COLLECTION" ELSE type)
      [] text \in {"Folder", "UserView", "PlaylistsFolder"} -> "FOLDER"
      [] text \in {"Artist", "MusicArtist"} -> "ARTIST"
      [] text \in {"SeriesName", "Series"} -> "SERIES"
      [] text = "MusicAlbum" -> "ALBUM"
      [] text = "MusicVideo" -> "MUSIC_VIDEO"
      [] text = "Playlist" -> "PLAYLIST"
      [] text = "Audio" -> "AUDIO"
      [] text = "AudioBook" -> "AUDIOBOOK"
      [] text = "Episode" -> "EPISODE"
      [] text = "Season" -> "SEASON"
      [] text = "Movie" -> "MOVIE"
      [] OTHER -> type

CollectionAfter(type, text) ==
    CASE text \in {"movies", "homevideos"} -> "COLLECTION_MOVIES"
      [] text = "music" -> "COLLECTION_MUSIC"
      [] text = "tvshows" -> "COLLECTION_SERIES"
      [] text = "musicvideos" -> "COLLECTION_MUSIC_VIDEOS"
      [] text = "folders" -> "FOLDER"
      [] OTHER -> type

Atoms == {"NONE", "AUDIO", "AUDIOBOOK", "EPISODE", "MOVIE", "MUSIC_VIDEO"}

\* jf_sax_current_item_is_valid
IsValid(i) ==
    /\ i.field["Name"] # Absent /\ i.field["Id"] # Absent
    /\ i.type \in Atoms => i.field["RunTimeTicks"] # Absent

\* jf_sax_current_item_make_and_print_name: the fields that make the name, in order.
NameKeys(type, promiscuous) ==
    LET In(keys) == IF promiscuous THEN keys ELSE <<>> IN
    CASE type \in {"AUDIO", "AUDIOBOOK"} ->
            In(<<"AlbumArtist", "Album">>) \o <<"ParentIndexNumber", "IndexNumber", "Name">>
      [] type = "ALBUM" -> In(<<"AlbumArtist">>) \o <<"Name", "ProductionYear">>
      [] type = "EPISODE" -> In(<<"SeriesName", "ParentIndexNumber">>) \o <<"IndexNumber", "Name">>
      [] type = "SEASON" -> In(<<"SeriesName">>) \o <<"Name">>
      [] type \in {"MOVIE", "MUSIC_VIDEO"} -> <<"Name", "ProductionYear">>
      [] type = "NONE" -> <<>>
      [] OTHER -> <<"Name">>

DisplayName(i, promiscuous) ==
    LET keys == SelectSeq(NameKeys(i.type, promiscuous), LAMBDA k : i.field[k] # Absent)
    IN  [n \in DOMAIN keys |-> <<keys[n], i.field[keys[n]]>>]

\* The record that goes to the cache: jf_menu_item_new.
MenuItem(i, promiscuous) ==
    [type |-> i.type, name |-> DisplayName(i, promiscuous), id |-> i.field["Id"],
     path |-> i.field["Path"], runtime |-> i.field["RunTimeTicks"],
     playback |-> i.field["PlaybackPositionTicks"]]

-----------------------------------------------------------------------------
(***************************************************************************)
(* The items of the server, as the caches of DiskCache will know them      *)
(***************************************************************************)

\* The text that stands for what a shape has under a key.
TextOf(shape, serial, k) == IF shape[k] = Full THEN Tags[serial] ELSE shape[k]

\* What a shape says when all of it has been said: the kind of a collection comes before that
\* of a folder.
TypeSaid(types) == CollectionAfter(TypeAfter("NONE", types["Type"]), types["CollectionType"])

Said(shape, serial) ==
    [type |-> TypeSaid([k \in TypeKeys |-> IF k \in DOMAIN shape THEN shape[k] ELSE Absent]),
     field |-> [k \in FieldKeys |-> IF k \in DOMAIN shape THEN TextOf(shape, serial, k) ELSE Absent]]

ASSUME ItemsAssumption ==
    \A s \in Shapes, n \in DOMAIN Tags, p \in BOOLEAN :
        IsValid(Said(s, n)) => MenuItem(Said(s, n), p) \in Items

-----------------------------------------------------------------------------
(***************************************************************************)
(* The callbacks                                                           *)
(***************************************************************************)

\* JF_SAX_BAD_STATE
BadState == rejected' = TRUE /\ UNCHANGED <<vars, context, tb, printed>>

Goes(s) == parser_state' = s /\ UNCHANGED <<vars, ignoring, latest_array, item, tb, rejected, printed>>

Ignores(i) ==
    /\ ignoring' = i
    /\ parser_state' = IF i.maps + i.arrays > 0 THEN "IGNORE" ELSE i.resume
    /\ UNCHANGED <<vars, latest_array, item, tb, rejected, printed>>

StartIgnoring == [NotIgnoring EXCEPT !.resume = "ITEM_MAP"]

\* A new document; only a map has the caches emptied.
Begin(s) ==
    /\ parser_state' = s
    /\ item' = NoItem
    /\ tb' = [tb EXCEPT !.item_count = 0]
    /\ UNCHANGED <<ignoring, latest_array, rejected, printed>>

jf_sax_items_start_map ==
    CASE parser_state = "IDLE" -> Begin("QUERYRESULT_MAP") /\ Refresh
      [] parser_state = "LATEST_ARRAY" ->
            /\ latest_array' = TRUE
            /\ parser_state' = "ITEM_MAP"
            /\ UNCHANGED <<vars, ignoring, item, tb, rejected, printed>>
      [] parser_state = "ITEMS_ARRAY" -> Goes("ITEM_MAP")
      [] parser_state = "UserData" -> Goes("USERDATA_MAP")
      [] parser_state = "ITEM_MAP" -> Ignores([StartIgnoring EXCEPT !.maps = 1])
      [] parser_state = "IGNORE" -> Ignores([ignoring EXCEPT !.maps = @ + 1])
      [] OTHER -> BadState

\* Mutant: an item is counted whether it is valid or not.
EndItemCountAll ==
    /\ tb' = [tb EXCEPT !.item_count = @ + 1]
    /\ IF IsValid(item)
       THEN /\ printed' = Append(printed, <<tb.item_count + 1, DisplayName(item, tb.promiscuous)>>)
            /\ AddItem("payload", MenuItem(item, tb.promiscuous))
       ELSE UNCHANGED <<vars, printed>>
    /\ item' = NoItem
    /\ parser_state' = IF latest_array THEN "LATEST_ARRAY" ELSE "ITEMS_ARRAY"
    /\ latest_array' = FALSE
    /\ UNCHANGED <<ignoring, rejected>>

\* The end of an item: it is counted, printed and cached if it is valid.
EndItem ==
    /\ IF IsValid(item)
       THEN /\ tb' = [tb EXCEPT !.item_count = @ + 1]
            /\ printed' = Append(printed, <<tb.item_count + 1, DisplayName(item, tb.promiscuous)>>)
            /\ AddItem("payload", MenuItem(item, tb.promiscuous))
       ELSE UNCHANGED <<vars, tb, printed>>
    /\ item' = NoItem
    /\ parser_state' = IF latest_array THEN "LATEST_ARRAY" ELSE "ITEMS_ARRAY"
    /\ latest_array' = FALSE
    /\ UNCHANGED <<ignoring, rejected>>

jf_sax_items_end_map ==
    CASE parser_state = "QUERYRESULT_MAP" -> Goes("IDLE")
      [] parser_state = "Items" -> Goes("QUERYRESULT_MAP")
      [] parser_state = "USERDATA_MAP" -> Goes("ITEM_MAP")
      [] parser_state = "ITEM_MAP" -> EndItem
      [] parser_state = "IGNORE" -> Ignores([ignoring EXCEPT !.maps = @ - 1])
      [] OTHER -> Goes(parser_state)

jf_sax_items_map_key(key) ==
    CASE parser_state = "QUERYRESULT_MAP" /\ key = "Items" -> Goes(key)
      [] parser_state = "ITEM_MAP" /\ key \in ItemKeys -> Goes(key)
      [] parser_state = "USERDATA_MAP" /\ key = "PlaybackPositionTicks" -> Goes(key)
      [] OTHER -> Goes(parser_state)

jf_sax_items_start_array ==
    CASE parser_state = "IDLE" -> Begin("LATEST_ARRAY") /\ UNCHANGED vars
      [] parser_state = "Items" -> Goes("ITEMS_ARRAY")
      [] parser_state = "ITEM_MAP" -> Ignores([StartIgnoring EXCEPT !.arrays = 1])
      [] parser_state = "IGNORE" -> Ignores([ignoring EXCEPT !.arrays = @ + 1])
      [] OTHER -> BadState

jf_sax_items_end_array ==
    CASE parser_state = "LATEST_ARRAY" -> Goes("IDLE")
      [] parser_state = "ITEMS_ARRAY" -> Goes("QUERYRESULT_MAP")
      [] parser_state = "IGNORE" -> Ignores([ignoring EXCEPT !.arrays = @ - 1])
      [] OTHER -> BadState

\* JF_SAX_ITEM_FILL and its kin
Fill(i, back) ==
    /\ item' = i
    /\ parser_state' = back
    /\ UNCHANGED <<vars, ignoring, latest_array, tb, rejected, printed>>

jf_sax_items_string(text) ==
    CASE parser_state \in StringKeys -> Fill([item EXCEPT !.field[parser_state] = text], "ITEM_MAP")
      [] parser_state = "Type" -> Fill([item EXCEPT !.type = TypeAfter(@, text)], "ITEM_MAP")
      [] parser_state = "CollectionType" ->
            Fill([item EXCEPT !.type = CollectionAfter(@, text)], "ITEM_MAP")
      [] OTHER -> Goes(parser_state)

jf_sax_items_number(text) ==
    CASE parser_state \in NumberKeys -> Fill([item EXCEPT !.field[parser_state] = text], "ITEM_MAP")
      [] parser_state = "PlaybackPositionTicks" ->
            Fill([item EXCEPT !.field[parser_state] = text], "USERDATA_MAP")
      [] OTHER -> Goes(parser_state)

-----------------------------------------------------------------------------
(***************************************************************************)
(* The server: tokens of a well-formed document (external)                 *)
(***************************************************************************)
Frame(kind, todo) == [kind |-> kind, todo |-> todo]

Sending == doc.asked /\ ~ rejected
Top == IF doc.stack = <<>> THEN Frame("none", {}) ELSE Last(doc.stack)
IsMap(f) == f.kind \in {"query", "item", "userdata", "map"}

\* A value is due here.
ValueDue == Sending /\ doc.stack # <<>> /\ (IsMap(Top) <=> doc.key # NULL)

\* What is nested in what the parser does not know, or in another field.
Nested == (doc.key = "Other" /\ Top.kind = "item") \/ Top.kind \in {"map", "array"}
Depth == Len(SelectSeq(doc.stack, LAMBDA f : f.kind \in {"map", "array"}))

Open(f) == [doc EXCEPT !.stack = Append(@, f), !.key = NULL]

OpenDocument ==
    /\ Sending /\ doc.stack = <<>>
    /\ \/ jf_sax_items_start_map /\ doc' = Open(Frame("query", {"Items", "Other"}))
       \/ jf_sax_items_start_array /\ doc' = Open(Frame("latest", {}))

MapKey ==
    /\ Sending /\ IsMap(Top) /\ doc.key = NULL
    /\ \E k \in Top.todo :
         /\ jf_sax_items_map_key(k)
         /\ doc' = [doc EXCEPT !.key = k, !.stack[Len(doc.stack)].todo = @ \ {k}]

StartItems ==
    /\ ValueDue /\ Top.kind = "query" /\ doc.key = "Items"
    /\ jf_sax_items_start_array
    /\ doc' = Open(Frame("items", {}))

StartItem ==
    /\ ValueDue /\ Top.kind \in {"items", "latest"}
    /\ doc.serial < Len(Tags)
    /\ jf_sax_items_start_map
    /\ \E s \in Shapes :
         doc' = [Open(Frame("item", DOMAIN s \ {"PlaybackPositionTicks"})) EXCEPT
                   !.shape = s, !.serial = @ + 1, !.facts = NoDoc.facts, !.types = NoDoc.types]

StartUserData ==
    /\ ValueDue /\ Top.kind = "item" /\ doc.key = "UserData"
    /\ jf_sax_items_start_map
    /\ doc' = Open(Frame("userdata", DOMAIN doc.shape \cap {"PlaybackPositionTicks", "Other"}))

StartNested ==
    /\ ValueDue /\ Nested /\ Depth < MaxDepth
    /\ \/ jf_sax_items_start_map /\ doc' = Open(Frame("map", {"Name", "Other"}))
       \/ jf_sax_items_start_array /\ doc' = Open(Frame("array", {}))

\* The value of a key that an item is made of, written down by its path.
Saying(k) == [doc EXCEPT !.key = NULL, !.facts[k] = TextOf(doc.shape, doc.serial, k)]

StringValue ==
    /\ ValueDue
    /\ \/ /\ Top.kind = "item" /\ doc.key \in StringKeys
          /\ jf_sax_items_string(TextOf(doc.shape, doc.serial, doc.key))
          /\ doc' = Saying(doc.key)
       \/ /\ Top.kind = "item" /\ doc.key \in TypeKeys
          /\ jf_sax_items_string(doc.shape[doc.key])
          /\ doc' = [doc EXCEPT !.key = NULL, !.types[doc.key] = doc.shape[doc.key]]
       \/ /\ doc.key = "Other" \/ Nested
          /\ jf_sax_items_string(Foreign)
          /\ doc' = [doc EXCEPT !.key = NULL]

NumberValue ==
    /\ ValueDue
    /\ \/ /\ \/ Top.kind = "item" /\ doc.key \in NumberKeys
             \/ Top.kind = "userdata" /\ doc.key = "PlaybackPositionTicks"
          /\ jf_sax_items_number(TextOf(doc.shape, doc.serial, doc.key))
          /\ doc' = Saying(doc.key)
       \/ /\ doc.key = "Other" \/ Nested
          /\ jf_sax_items_number(Foreign)
          /\ doc' = [doc EXCEPT !.key = NULL]

\* Null and the Booleans have no callback.
NullValue ==
    /\ ValueDue
    /\ doc.key \in NullKeys \cup {"Other"} \/ Nested
    /\ doc' = [doc EXCEPT !.key = NULL]
    /\ UNCHANGED <<vars, context, tb, rejected, printed>>

\* What the item at hand has said of itself.
Declared == [type |-> TypeSaid(doc.types), field |-> doc.facts]

Close == [doc EXCEPT !.stack = Front(@), !.key = NULL,
                     !.asked = Len(doc.stack) > 1]

EndMap ==
    /\ Sending /\ IsMap(Top) /\ doc.key = NULL /\ Top.todo = {}
    /\ jf_sax_items_end_map
    /\ doc' = IF Top.kind = "item" /\ IsValid(Declared)
              THEN [Close EXCEPT !.expected = Append(@, MenuItem(Declared, tb.promiscuous))]
              ELSE Close

EndArray ==
    /\ Sending /\ Top.kind \in {"items", "latest", "array"}
    /\ jf_sax_items_end_array
    /\ doc' = Close

Token ==
    \/ OpenDocument \/ MapKey \/ StartItems \/ StartItem \/ StartUserData \/ StartNested
    \/ StringValue \/ NumberValue \/ NullValue \/ EndMap \/ EndArray

-----------------------------------------------------------------------------
(***************************************************************************)
(* The main thread: jf_menu_ui and what a command does with the entries    *)
(***************************************************************************)
InMenu == ~ doc.asked \/ rejected

\* Mutant: the caches are left for the parser to empty.
RequestKeep ==
    /\ InMenu
    /\ \E p \in BOOLEAN : tb' = [tb EXCEPT !.promiscuous = p]
    /\ doc' = [NoDoc EXCEPT !.asked = TRUE]
    /\ printed' = <<>> /\ rejected' = FALSE
    /\ UNCHANGED <<vars, context>>

\* The caches are emptied, the menu is asked for; after a broken document the
\* context is as it was, yajl is new.
Request ==
    /\ InMenu
    /\ Refresh
    /\ \E p \in BOOLEAN : tb' = [tb EXCEPT !.promiscuous = p]
    /\ doc' = [NoDoc EXCEPT !.asked = TRUE]
    /\ printed' = <<>> /\ rejected' = FALSE
    /\ UNCHANGED context

Entries == {GetItem("payload", n) : n \in 1 .. count["payload"]}

\* What the user selects is added to the playlist, which playback then changes.
Play ==
    /\ InMenu
    /\ \/ \E i \in Entries \cup {NULL} : AddItem("playlist", i) \/ AddSkipped("playlist", i)
       \/ \E a, b \in 1 .. MaxRecords : SwapItems(a, b)
       \/ \E n \in 1 .. MaxRecords, i \in Entries \ Folders : ReplaceItem(n, i)
    /\ UNCHANGED <<context, tb, rejected, printed, doc>>

SNext == Token \/ Request \/ Play

SSpec == SInit /\ [][SNext]_svars

-----------------------------------------------------------------------------
\* When a document is over the parser is ready for the next, and the payload holds
\* the items of the document, in order: those that have what it takes, each with
\* what was said of itself and nothing of another item's, of what is nested in it,
\* or of the document before (json.c 64-372).
PayloadIsAnswer ==
    /\ ~ rejected
    /\ ~ doc.asked => parser_state = "IDLE" /\ List("payload") = doc.expected

\* The number printed before an entry is the one under which it is in the payload:
\* what the user types finds what the user sees (json.c 376-452, disk.c 228-242).
NumbersMatch ==
    /\ tb.item_count = count["payload"] \/ (doc.asked /\ doc.stack = <<>>)
    /\ printed = [n \in 1 .. count["payload"] |-> <<n, GetItem("payload", n).name>>]
=============================================================================
