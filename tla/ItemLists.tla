------------------------------ MODULE ItemLists ------------------------------
(***************************************************************************)
(* What the rest of jftui relies on from disk.c: two lists of items, the   *)
(* payload (what the menu shows) and the playlist (what is being played),  *)
(* numbered from 1.  Folders never get in the playlist.                    *)
(***************************************************************************)
EXTENDS Naturals, Sequences

CONSTANTS Items, Folders

Caches == {"payload", "playlist"}

VARIABLE list       \* per cache: its items in order

Init == list = [c \in Caches |-> <<>>]

Accepts(c, item) == c = "playlist" => item \notin Folders

Add(c, item) ==
    /\ Accepts(c, item)
    /\ list' = [list EXCEPT ![c] = Append(@, item)]

Positions(c) == 1 .. Len(list[c])

\* Two positions of the playlist trade their items, nothing else moves.
Swap(a, b) ==
    /\ {a, b} \subseteq Positions("playlist")
    /\ list' = [list EXCEPT !["playlist"] =
                  [@ EXCEPT ![a] = list["playlist"][b], ![b] = list["playlist"][a]]]

Replace(n, item) ==
    /\ n \in Positions("playlist")
    /\ Accepts("playlist", item)
    /\ list' = [list EXCEPT !["playlist"] = [@ EXCEPT ![n] = item]]

Refresh == list' = [c \in Caches |-> <<>>]

Next ==
    \/ \E item \in Items : \/ \E c \in Caches : Add(c, item)
                           \/ \E n \in Positions("playlist") : Replace(n, item)
    \/ \E a, b \in Positions("playlist") : Swap(a, b)
    \/ Refresh

Spec == Init /\ [][Next]_list
=============================================================================
