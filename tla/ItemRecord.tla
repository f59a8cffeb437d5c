------------------------------ MODULE ItemRecord ------------------------------
(***************************************************************************)
(* What the records of a file cache are made of (disk.c).  DiskCache takes *)
(* a record for an item; here the body is written and read field by field: *)
(* a field of fixed width is one cell, a string is its bytes and a NUL,    *)
(* and the children follow their parent.  A record tells nowhere how long  *)
(* it is.  The strings are read into growing buffers, byte by byte; the    *)
(* name of an item is then formatted into a text, such as the message that *)
(* shows the playlist.  This is one of the two caches, which DiskCache     *)
(* shows not to disturb each other.                                        *)
(***************************************************************************)
EXTENDS TextBuffer, SequencesExt

CONSTANTS
    Items,          \* the items the program handles: records as jf_menu_item
    MaxNesting,     \* how many levels of children items have below them, at most
    NULL,
    Freed,          \* what is read from memory that has been freed
    RecordSize,     \* the size of the buffer that a record is read into, 256
    NameSize,       \* the size of s_buffer, 512
    MaxRecords      \* bound on the records of the body

IsText(s) == s = NULL \/ (s \in Seq(STRING) /\ \A k \in 1 .. Len(s) : s[k] # NUL)

ASSUME ItemAssumption ==
    \A i \in Items :
      /\ i = [type |-> i.type, id |-> i.id, name |-> i.name, path |-> i.path,
              runtime |-> i.runtime, playback |-> i.playback, children |-> i.children]
      /\ IsText(i.name) /\ IsText(i.path)
      /\ i.children \in Seq(Items)

\* No item is among its own descendants, and they end.
ASSUME NestingAssumption ==
    /\ MaxNesting \in Nat
    /\ \E height \in [Items -> 0 .. MaxNesting] :
         \A i \in Items : \A k \in DOMAIN i.children : height[i.children[k]] < height[i]
ASSUME BufferAssumption == RecordSize \in Nat \ {0} /\ NameSize \in Nat \ {0}
ASSUME RecordsAssumption == MaxRecords \in Nat

\* Streams and versions of a video are only ever the children of another item.
Listed == {i \in Items : i.type \notin {"VIDEO_SOURCE", "VIDEO_SUB"}}

VARIABLES
    header,         \* the offsets of the items' records
    body,           \* the cells written so far
    items,          \* history: the item that was put at each position last
    records,        \* how many records have been written
    s_buffer        \* the buffer that names are read into

files == <<header, body, items, records>>
rvars == <<vars, files, s_buffer>>

RInit ==
    /\ Init
    /\ header = <<>> /\ body = <<>>
    /\ items = <<>> /\ records = 0
    /\ s_buffer = New(NameSize)

-----------------------------------------------------------------------------
(* Writing                                                                 *)

\* A string with its NUL; NULL is written like the empty one.
Bytes(s) == IF s = NULL THEN <<NUL>> ELSE Append(s, NUL)

\* jf_disk_add_next
Record[item \in Items] ==
    <<item.type, item.id>> \o Bytes(item.name) \o Bytes(item.path)
    \o <<item.runtime, item.playback, Len(item.children)>>
    \o FlattenSeq([k \in DOMAIN item.children |-> Record[item.children[k]]])

\* jf_disk_add_item: the parser and the menu add items without children. A text is built
\* in one call, during which no record is written.
AddItem(item) ==
    /\ text = <<>>
    /\ records < MaxRecords
    /\ item.children = <<>>
    /\ header' = Append(header, Len(body))
    /\ body' = body \o Record[item]
    /\ items' = Append(items, item)
    /\ records' = records + 1
    /\ UNCHANGED <<vars, s_buffer>>

\* jf_disk_playlist_replace_item
ReplaceItem(n, item) ==
    /\ text = <<>>
    /\ n \in DOMAIN items
    /\ records < MaxRecords
    /\ header' = [header EXCEPT ![n] = Len(body)]
    /\ body' = body \o Record[item]
    /\ items' = [items EXCEPT ![n] = item]
    /\ records' = records + 1
    /\ UNCHANGED <<vars, s_buffer>>

\* jf_disk_playlist_swap_items
SwapItems(a, b) ==
    /\ text = <<>>
    /\ {a, b} \subseteq DOMAIN items
    /\ header' = [header EXCEPT ![b] = header[a], ![a] = header[b]]
    /\ items' = [items EXCEPT ![b] = items[a], ![a] = items[b]]
    /\ UNCHANGED <<vars, body, records, s_buffer>>

-----------------------------------------------------------------------------
(* Reading                                                                 *)

\* jf_disk_read_to_null_to_buffer: the bytes from an offset on, up to and with a NUL.
ReadToNull(offset) == SubSeq(body, offset + 1, offset + FirstNul(SubSeq(body, offset + 1, Len(body))))

\* And these appended one by one to a buffer.
AppendedBytes(b, bytes) == FoldLeft(LAMBDA a, c : Appended(a, <<c>>, 1), b, bytes)

\* The string at an offset of a buffer.
StringAt(b, offset) ==
    SubSeq(b.buf, offset + 1, offset + FirstNul(SubSeq(b.buf, offset + 1, b.used)) - 1)

\* Mutant: the path is looked for at the start of the buffer.
PathInFirst(name, path) == StringAt(AppendedBytes(AppendedBytes(New(RecordSize), name), path), 0)

\* The path, which follows the name in the buffer.
PathIn(name, path) ==
    LET b == AppendedBytes(AppendedBytes(New(RecordSize), name), path)
    IN  StringAt(b, Len(name))

\* Whether the buffer grows between the name and the end of the path.
Grows(name, path) ==
    LET b == AppendedBytes(New(RecordSize), name)
    IN  AppendedBytes(b, path).size # b.size

OrNull(s) == IF s = <<>> THEN NULL ELSE s

\* The name, as read when the item is made: the pointer to it was taken before the path
\* was read.
NameIn(name, path, moved) ==
    IF name = <<NUL>> THEN NULL
    ELSE IF moved /\ Grows(name, path) THEN Freed
    ELSE StringAt(AppendedBytes(New(RecordSize), name), 0)

\* One call of jf_disk_get_next: the item at an offset and the offset behind it, where get
\* does as much for its children, one after the other. moved tells whether realloc
\* moves what it grows.
Fetched(get, offset, moved) ==
    LET name == ReadToNull(offset + 2)
        path == ReadToNull(offset + 2 + Len(name))
        at == offset + 2 + Len(name) + Len(path)
        Child[k \in 0 .. body[at + 3]] ==
            IF k = 0 THEN [item |-> NULL, end |-> at + 3] ELSE get[Child[k - 1].end]
    IN  [item |-> [type |-> body[offset + 1], id |-> body[offset + 2],
                   name |-> NameIn(name, path, moved),
                   path |-> OrNull(PathIn(name, path)),
                   runtime |-> body[at + 1], playback |-> body[at + 2],
                   children |-> [k \in 1 .. body[at + 3] |-> Child[k].item]],
         end |-> Child[body[at + 3]].end]

\* jf_disk_get_next with so many calls in one another, from an offset on.
GetNext[calls \in 0 .. MaxNesting + 1] ==
    [moved \in BOOLEAN |-> [offset \in Nat |->
        IF calls = 0 THEN [item |-> NULL, end |-> offset]
        ELSE Fetched(GetNext[calls - 1][moved], offset, moved)]]

\* jf_disk_get_item and jf_disk_payload_get_type, of a position that there is.
GetItem(n, moved) == GetNext[MaxNesting + 1][moved][header[n]].item
GetType(n) == body[header[n] + 1]

\* jf_disk_playlist_get_item_name: what it leaves in s_buffer, which it returns.
NameRead(n) == AppendedBytes(Emptied(s_buffer), ReadToNull(header[n] + 2))

NameOf(item) == IF item.name = NULL THEN <<>> ELSE item.name

\* jf_playback_print_playlist puts a line for an item into its message; the history gets
\* the name that the item has.
PrintItem(n) ==
    /\ n \in DOMAIN items
    /\ Len(text) + Len(NameOf(items[n])) <= MaxUsed
    /\ s_buffer' = NameRead(n)
    /\ buffer' = Printed(buffer, StringAt(s_buffer', 0))
    /\ text' = text \o NameOf(items[n]) /\ closed' = TRUE
    /\ UNCHANGED files

\* jf_disk_refresh
Refresh ==
    /\ text = <<>>
    /\ header' = <<>> /\ body' = <<>>
    /\ items' = <<>> /\ records' = 0
    /\ UNCHANGED <<vars, s_buffer>>

RNext ==
    \/ \E item \in Listed : AddItem(item)
    \/ \E n \in 1 .. MaxRecords, item \in Listed : ReplaceItem(n, item)
    \/ \E a, b \in 1 .. MaxRecords : SwapItems(a, b)
    \/ \E n \in 1 .. MaxRecords : PrintItem(n)
    \/ Refresh
    \/ (Empty \/ Close \/ \E s \in Texts, rest \in Rests : Add(s, rest))
       /\ UNCHANGED <<files, s_buffer>>

RSpec == RInit /\ [][RNext]_rvars

-----------------------------------------------------------------------------
\* An item as it may be read back: an empty string comes back as none.
AsRead[i \in Items] ==
    [i EXCEPT !.name = IF @ = <<>> THEN NULL ELSE @,
              !.path = IF @ = <<>> THEN NULL ELSE @,
              !.children = [k \in DOMAIN @ |-> AsRead[@[k]]]]

\* Its strings fit the buffer with which they are read, and so do its children's.
Fits[i \in Items] ==
    /\ ~ Grows(Bytes(i.name), Bytes(i.path)) \/ i.name \in {NULL, <<>>}
    /\ \A k \in DOMAIN i.children : Fits[i.children[k]]

\* Each position reads back as the item that was put there, children and theirs included,
\* though strings may be missing and only reading tells where a record ends; what is
\* written later, over the offset or behind the record, changes nothing. An item's name is
\* safe only if its path does not outgrow the buffer (disk.c 60-160, 294-313).
ReadsBack ==
    \A n \in DOMAIN items :
      /\ GetType(n) = items[n].type
      /\ \A moved \in BOOLEAN :
           Fits[items[n]] \/ ~ moved => GetItem(n, moved) = AsRead[items[n]]

\* No run checks this; the name points into a buffer that may move (disk.c 110-112).
AlwaysReadsBack ==
    \A n \in DOMAIN items, moved \in BOOLEAN : GetItem(n, moved) = AsRead[items[n]]
=============================================================================
