------------------------------ MODULE DiskCache ------------------------------
(***************************************************************************)
(* The file caches of disk.c.  Each one is a pair of temporary files: the  *)
(* body, to which item records are only ever appended, and the header,     *)
(* whose n-th entry is the offset in the body of item n's record.          *)
(* Replacing an item leaves its old record behind as garbage; swapping two *)
(* items swaps their header entries.  An offset is the number of a record: *)
(* the bytes of one record are left out.                                   *)
(***************************************************************************)
EXTENDS Integers, Sequences

CONSTANTS
    Items,          \* the items the program handles
    Folders,        \* those whose type is a folder
    NULL,
    MaxRecords      \* bound on the records of a body between two refreshes

ASSUME ItemAssumption == Folders \subseteq Items /\ NULL \notin Items
ASSUME BoundAssumption == MaxRecords \in Nat

Caches == {"payload", "playlist"}

VARIABLES
    header,         \* per cache: the offsets, in item order
    body,           \* per cache: the records
    count           \* per cache: cache->count

vars == <<header, body, count>>

\* jf_disk_open truncates both files.
Empty == [c \in Caches |-> <<>>]

\* jf_disk_init opens both caches.
Init ==
    /\ header = Empty
    /\ body = Empty
    /\ count = [c \in Caches |-> 0]

\* Adding to the playlist skips folders, adding to either cache skips NULL.
Skips(c, item) == item = NULL \/ (c = "playlist" /\ item \in Folders)

\* Mutant: folders are not kept out of the playlist.
AddItemFolders(c, item) ==
    /\ Len(body[c]) < MaxRecords
    /\ item # NULL
    /\ header' = [header EXCEPT ![c] = Append(@, Len(body[c]) + 1)]
    /\ body' = [body EXCEPT ![c] = Append(@, item)]
    /\ count' = [count EXCEPT ![c] = @ + 1]

\* jf_disk_payload_add_item, jf_disk_playlist_add_item
AddItem(c, item) ==
    /\ Len(body[c]) < MaxRecords
    /\ ~ Skips(c, item)
    /\ header' = [header EXCEPT ![c] = Append(@, Len(body[c]) + 1)]
    /\ body' = [body EXCEPT ![c] = Append(@, item)]
    /\ count' = [count EXCEPT ![c] = @ + 1]

AddSkipped(c, item) ==
    /\ Skips(c, item)
    /\ UNCHANGED vars

\* jf_disk_get_item: NULL out of range, else the record at the header's offset.
GetItem(c, n) == IF n = 0 \/ n > count[c] THEN NULL ELSE body[c][header[c][n]]

\* Mutant: the second offset is read after the first has been overwritten.
SwapItemsOneByOne(a, b) ==
    /\ a \in 1 .. MaxRecords /\ b \in 1 .. MaxRecords
    /\ IF a > count["playlist"] \/ b > count["playlist"] \/ a = b
       THEN UNCHANGED header
       ELSE header' = [header EXCEPT !["playlist"] = [@ EXCEPT ![a] = header["playlist"][b]]]
    /\ UNCHANGED <<body, count>>

\* jf_disk_playlist_swap_items: both offsets are read before either is written.
\* Its caller, the shuffle, passes positions counted from 1.
SwapItems(a, b) ==
    /\ a \in 1 .. MaxRecords /\ b \in 1 .. MaxRecords
    /\ IF a > count["playlist"] \/ b > count["playlist"] \/ a = b
       THEN UNCHANGED header
       ELSE header' = [header EXCEPT !["playlist"] =
              [@ EXCEPT ![b] = header["playlist"][a], ![a] = header["playlist"][b]]]
    /\ UNCHANGED <<body, count>>

\* jf_disk_playlist_replace_item, which its caller only uses on the position
\* being played: a new record at the tail, the header entry overwritten.
ReplaceItem(n, item) ==
    /\ n \in 1 .. count["playlist"]
    /\ Len(body["playlist"]) < MaxRecords
    /\ header' = [header EXCEPT !["playlist"][n] = Len(body["playlist"]) + 1]
    /\ body' = [body EXCEPT !["playlist"] = Append(@, item)]
    /\ UNCHANGED count

\* jf_disk_refresh: both caches are reopened.
Refresh ==
    /\ header' = Empty
    /\ body' = Empty
    /\ count' = [c \in Caches |-> 0]

Next ==
    \/ \E c \in Caches, item \in Items \cup {NULL} : AddItem(c, item) \/ AddSkipped(c, item)
    \/ \E a, b \in 1 .. MaxRecords : SwapItems(a, b)
    \/ \E n \in 1 .. MaxRecords, item \in Items \ Folders : ReplaceItem(n, item)
    \/ Refresh

Spec == Init /\ [][Next]_vars

-----------------------------------------------------------------------------
List(c) == [n \in 1 .. count[c] |-> GetItem(c, n)]

Lists == INSTANCE ItemLists WITH list <- [c \in Caches |-> List(c)]

\* Read through jf_disk_get_item, the files of each cache behave as a numbered list,
\* and no folder gets into the playlist (disk.c 85-98, 245-249, 277-313).
RefinesLists == Lists!Spec

\* A step that is a call of one of the operations is that operation on the lists.
CallsAgree ==
    /\ \A c \in Caches, item \in Items : AddItem(c, item) => Lists!Add(c, item)
    /\ \A a, b \in 1 .. count["playlist"] : a # b /\ SwapItems(a, b) => Lists!Swap(a, b)
    /\ \A n \in 1 .. MaxRecords, item \in Items \ Folders :
         ReplaceItem(n, item) => Lists!Replace(n, item)

\* And each call has the effect it is named for: what was added, swapped or replaced
\* is seen at its own position and at no other, and in the other cache not at all,
\* however often the two files have parted ways before (disk.c 60-98, 277-313).
OperationsAgree == [][CallsAgree]_vars

\* Types, and: one header entry per item, each the offset of a record.
TypeOK ==
    /\ header \in [Caches -> Seq(Nat)]
    /\ body \in [Caches -> Seq(Items)]
    /\ count \in [Caches -> Nat]
    /\ \A c \in Caches :
         /\ Len(header[c]) = count[c]
         /\ \A n \in 1 .. count[c] : header[c][n] \in 1 .. Len(body[c])

\* No two positions of a cache share a record, so that the record written for one
\* position is never the one read back for another.
OwnRecord ==
    \A c \in Caches : \A m, n \in 1 .. count[c] : header[c][m] = header[c][n] => m = n
=============================================================================
