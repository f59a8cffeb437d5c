------------------------------- MODULE Playlist -------------------------------
(***************************************************************************)
(* The arithmetic on playlist positions (playback.c): where a skip goes,   *)
(* what the loop counter becomes, which slice of the playlist is printed,  *)
(* and which items the shuffle swaps.                                      *)
(***************************************************************************)
EXTENDS Integers

\* jf_playback_next: whether it moves, where to, and with how many loops left.
\* loops = -1 stands for infinitely many.
LastLoop(loops) == loops \in {0, 1}
NextMoves(pos, count, loops) == pos # count \/ ~ LastLoop(loops)
NextPosition(pos, count) == IF pos = count THEN 1 ELSE pos + 1
NextLoops(pos, count, loops) == IF pos = count THEN loops - 1 ELSE loops

\* jf_playback_previous leaves the loop counter alone.
PreviousMoves(pos, loops) == pos # 1 \/ ~ LastLoop(loops)
PreviousPosition(pos, count) == IF pos = 1 THEN count ELSE pos - 1

\* jf_playback_playlist_window
WindowSize(size, count) == IF size = 0 THEN count ELSE size

WindowFirst(size, pos, count) ==
    LET half == size \div 2 IN
    IF pos <= half THEN 1
    ELSE IF pos + half > count THEN (IF size >= count THEN 1 ELSE count - size + 1)
    ELSE pos - half

\* Mutant: one item too many.
WindowLastPast(size, pos, count) ==
    LET half == size \div 2 IN
    IF pos <= half THEN (IF size > count THEN count ELSE size)
    ELSE IF pos + half > count THEN count
    ELSE pos - half + size

WindowLast(size, pos, count) ==
    LET half == size \div 2 IN
    IF pos <= half THEN (IF size > count THEN count ELSE size)
    ELSE IF pos + half > count THEN count
    ELSE pos - half + size - 1

\* What is promised of a window of size w > 0.
Fits(w, pos, count) ==
    LET first == WindowFirst(w, pos, count)
        last == WindowLast(w, pos, count)
    IN  /\ 1 <= first /\ first <= pos /\ pos <= last /\ last <= count
        /\ last - first + 1 = IF w < count THEN w ELSE count

\* jf_playback_shuffle_playlist, for count > 1: the loop runs over 0 .. count - 3
\* and skips the index of the item playing.

\* Mutant: the index of the item playing is not stepped over.
ShufflePartnerOnto(i, draw, pos, count) ==
    LET j == (draw % (count - 1 - i - 1)) + i + 1
    IN  IF j > pos - 1 THEN j + 1 ELSE j

\* The index that index i is swapped with; draw is what random() returned.
ShufflePartner(i, draw, pos, count) ==
    LET j == (draw % (count - 1 - i - 1)) + i + 1
    IN  IF j >= pos - 1 THEN j + 1 ELSE j

Swap(list, a, b) == [list EXCEPT ![a] = list[b], ![b] = list[a]]

\* The playlist after the iterations i, i + 1, ... of the loop, where draws[i] is
\* what random() returned in iteration i.
Shuffle(list, pos, count, draws) ==
    LET after[i \in 0 .. count] ==
            IF i = 0 THEN list
            ELSE IF i - 1 = pos - 1 \/ i - 1 >= count - 2 THEN after[i - 1]
            ELSE Swap(after[i - 1], i, ShufflePartner(i - 1, draws[i - 1], pos, count) + 1)
    IN  after[count]
=============================================================================
