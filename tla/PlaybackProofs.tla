---------------------------- MODULE PlaybackProofs ----------------------------
(***************************************************************************)
(* Theorems about playback for playlists of any length: what the           *)
(* arithmetic on positions and the shuffle compute; that main plays, shows *)
(* and reports the item at its position through every skip, wrap, shuffle, *)
(* failure and end; when sessions are closed and loop counters agree; and  *)
(* what the server knows of videos in several parts.                       *)
(***************************************************************************)
EXTENDS SplitPart, SequenceTheorems, WellFoundedInduction, TLAPS

-----------------------------------------------------------------------------
(***************************************************************************)
(* The window that is printed.                                             *)
(***************************************************************************)

\* Half of a size, rounded down: all that the window's arithmetic needs of it.
LEMMA Half ==
    ASSUME NEW w \in Nat
    PROVE  /\ w \div 2 \in Nat
           /\ w = 2 * (w \div 2) \/ w = 2 * (w \div 2) + 1
  BY SMT

\* The case analysis, with half as a number of its own.
LEMMA FitsWithHalf ==
    ASSUME NEW w \in Nat \ {0}, NEW count \in Nat \ {0}, NEW pos \in 1 .. count
    PROVE  Fits(w, pos, count)
<1> DEFINE half == w \div 2
<1>1. half \in Nat /\ (w = 2 * half \/ w = 2 * half + 1)
  BY Half
<1>2. WindowFirst(w, pos, count) =
        IF pos <= half THEN 1
        ELSE IF pos + half > count THEN (IF w >= count THEN 1 ELSE count - w + 1)
        ELSE pos - half
  BY DEF WindowFirst
<1>3. WindowLast(w, pos, count) =
        IF pos <= half THEN (IF w > count THEN count ELSE w)
        ELSE IF pos + half > count THEN count
        ELSE pos - half + w - 1
  BY DEF WindowLast
<1> HIDE DEF half
<1>4. CASE pos <= half
  BY <1>1, <1>2, <1>3, <1>4 DEF Fits
<1>5. CASE pos > half /\ pos + half > count
  BY <1>1, <1>2, <1>3, <1>5 DEF Fits
<1>6. CASE pos > half /\ pos + half <= count
  BY <1>1, <1>2, <1>3, <1>6 DEF Fits
<1> QED
  BY <1>1, <1>4, <1>5, <1>6

\* Whatever size is asked for (0 stands for the whole playlist), the slice that is
\* printed lies within the playlist, contains the item playing, and has the size
\* asked for, or is all of a playlist that is shorter (playback.c 595-616).
THEOREM WindowAlwaysFits ==
    ASSUME NEW size \in Nat, NEW count \in Nat \ {0}, NEW pos \in 1 .. count
    PROVE  Fits(WindowSize(size, count), pos, count)
<1>1. WindowSize(size, count) \in Nat \ {0}
  BY DEF WindowSize
<1> QED
  BY <1>1, FitsWithHalf

-----------------------------------------------------------------------------
(***************************************************************************)
(* The shuffle.  What a recursive function computes is shown from its       *)
(* equation, by the least index at which the claim could fail.              *)
(***************************************************************************)

\* The order of the natural numbers as a relation, and what it being well-founded says.
LEMMA NatOrder == IsWellFoundedOn({p \in Nat \X Nat : p[1] < p[2]}, Nat)
BY NatLessThanWellFounded DEF OpToRel

\* Every set of natural numbers that is not empty has a least one.
LEMMA Least ==
  ASSUME NEW S \in SUBSET Nat, S # {}
  PROVE  \E n \in S : \A m \in S : n <= m
<1> DEFINE R == {p \in Nat \X Nat : p[1] < p[2]}
<1>1. PICK x \in S : \A y \in S : ~ (<<y, x>> \in R)
  BY NatOrder, WFMin
<1>2. \A y \in S : y \in Nat /\ x \in Nat /\ ~ (y < x)
  BY <1>1
<1> QED  BY <1>2

\* g is what comes of a step taken again and again.
Iterates(g, S, first, step, n) ==
    /\ g \in [0 .. n -> S]
    /\ g[0] = first
    /\ \A i \in 1 .. n : g[i] = step[<<i, g[i - 1]>>]

\* A step can be taken any number of times.
LEMMA Iteration ==
  ASSUME NEW S, NEW first \in S, NEW step \in [Nat \X S -> S], NEW n \in Nat
  PROVE  \E g : Iterates(g, S, first, step, n)
<1> DEFINE Bad == {m \in Nat : ~ \E g : Iterates(g, S, first, step, m)}
<1>1. SUFFICES ASSUME Bad # {} PROVE FALSE
  OBVIOUS
<1>2. PICK m \in Bad : \A k \in Bad : m <= k
  BY <1>1, Least
<1>3. CASE m = 0
  <2> DEFINE g == [i \in 0 .. 0 |-> first]
  <2>1. Iterates(g, S, first, step, 0)
    BY DEF Iterates
  <2> QED  BY <1>2, <1>3, <2>1
<1>4. CASE m # 0
  <2>1. m \in Nat /\ m - 1 \in Nat /\ m - 1 \notin Bad
    BY <1>2, <1>4
  <2>2. PICK g : Iterates(g, S, first, step, m - 1)
    BY <2>1
  <2> DEFINE h == [i \in 0 .. m |-> IF i = m THEN step[<<m, g[m - 1]>>] ELSE g[i]]
  <2>3. g[m - 1] \in S
    BY <2>1, <2>2 DEF Iterates
  <2>4. h \in [0 .. m -> S]
    BY <2>1, <2>2, <2>3 DEF Iterates
  <2>5. h[0] = first
    BY <2>1, <2>2, <1>4 DEF Iterates
  <2>6. ASSUME NEW i \in 1 .. m
        PROVE  h[i] = step[<<i, h[i - 1]>>]
    <3>1. h[i - 1] = g[i - 1]
      BY <2>1, <2>6
    <3>2. CASE i = m
      <4>1. h[m] = step[<<m, g[m - 1]>>]
        BY <2>1
      <4> HIDE DEF h
      <4> QED  BY <3>1, <3>2, <4>1
    <3>3. CASE i # m
      BY <2>1, <2>2, <2>6, <3>1, <3>3 DEF Iterates
    <3> QED  BY <3>2, <3>3
  <2>7. Iterates(h, S, first, step, m)
    <3> HIDE DEF h
    <3> QED  BY <2>4, <2>5, <2>6 DEF Iterates
  <2> HIDE DEF h
  <2> QED  BY <1>2, <2>1, <2>7
<1> QED  BY <1>3, <1>4

\* The index drawn is another one, in the playlist, and not the one of the item playing.
LEMMA Partner ==
  ASSUME NEW count \in Nat, NEW pos \in 1 .. count, NEW i \in 0 .. count - 3, NEW draw \in Nat
  PROVE  LET j == ShufflePartner(i, draw, pos, count) IN j \in i + 1 .. count - 1 /\ j # pos - 1
<1> DEFINE left == count - 1 - i - 1
           r == draw % left
<1>1. left \in Nat \ {0}
  OBVIOUS
<1>2. r \in 0 .. left - 1
  <2> HIDE DEF left
  <2> QED  BY <1>1
<1>3. ShufflePartner(i, draw, pos, count) = IF r + i + 1 >= pos - 1 THEN r + i + 2 ELSE r + i + 1
  <2>1. r \in Int
    BY <1>2
  <2> HIDE DEF r
  <2>2. r = draw % (count - 1 - i - 1)
    BY DEF r
  <2> QED  BY <2>1, <2>2 DEF ShufflePartner
<1> HIDE DEF r
<1> QED  BY <1>2, <1>3

\* The lists that hold something else at every position, and x at pos.
Arrangements(count, T, pos, x) ==
    {l \in [1 .. count -> T] : l[pos] = x /\ \A a, b \in 1 .. count : l[a] = l[b] => a = b}

\* Swapping two others leaves x at its position.
LEMMA Swapped ==
  ASSUME NEW count \in Nat, NEW T, NEW pos \in 1 .. count, NEW x,
         NEW l \in Arrangements(count, T, pos, x),
         NEW a \in 1 .. count, NEW b \in 1 .. count, a # pos, b # pos, a # b
  PROVE  Swap(l, a, b) \in Arrangements(count, T, pos, x)
<1> DEFINE s == Swap(l, a, b)
<1>1. l \in [1 .. count -> T]
  BY DEF Arrangements
<1>2. s \in [1 .. count -> T] /\ s[a] = l[b] /\ s[b] = l[a]
      /\ \A c \in 1 .. count : c # a /\ c # b => s[c] = l[c]
  BY <1>1 DEF Swap
<1> HIDE DEF s
<1>3. \A c, d \in 1 .. count : s[c] = s[d] => c = d
  BY <1>2 DEF Arrangements
<1>4. s[pos] = x
  BY <1>2 DEF Arrangements
<1> QED  BY <1>2, <1>3, <1>4 DEF s, Arrangements

\* Whatever random() returns, the shuffle rearranges the playlist, and the item playing stays
\* where it is (playback.c, "won't move item currently playing").
THEOREM ShuffleRearranges ==
  ASSUME NEW count \in Nat, NEW T, NEW pos \in 1 .. count, NEW x,
         NEW list \in Arrangements(count, T, pos, x), NEW draws \in [0 .. count - 3 -> Nat]
  PROVE  Shuffle(list, pos, count, draws) \in Arrangements(count, T, pos, x)
<1> DEFINE S == Arrangements(count, T, pos, x)
           Step(i, l) == IF i - 1 = pos - 1 \/ i - 1 >= count - 2 THEN l
                         ELSE Swap(l, i, ShufflePartner(i - 1, draws[i - 1], pos, count) + 1)
           Body(f) == [i \in 0 .. count |-> IF i = 0 THEN list ELSE Step(i, f[i - 1])]
           after == CHOOSE f : f = Body(f)
<1>1. Shuffle(list, pos, count, draws) = after[count]
  BY DEF Shuffle
<1>2. ASSUME NEW i \in 1 .. count, NEW l \in S
      PROVE  Step(i, l) \in S
  <2>1. CASE i - 1 = pos - 1 \/ i - 1 >= count - 2
    BY <2>1
  <2>2. CASE ~ (i - 1 = pos - 1 \/ i - 1 >= count - 2)
    <3> DEFINE j == ShufflePartner(i - 1, draws[i - 1], pos, count)
    <3>1. i - 1 \in 0 .. count - 3 /\ i # pos /\ draws[i - 1] \in Nat
      BY <1>2, <2>2
    <3>2. j \in i .. count - 1 /\ j # pos - 1
      BY <3>1, Partner
    <3> HIDE DEF j
    <3>3. j + 1 \in 1 .. count /\ j + 1 # pos /\ j + 1 # i
      BY <1>2, <3>2
    <3>4. Swap(l, i, j + 1) \in S
      BY <1>2, <3>1, <3>3, Swapped
    <3> QED  BY <2>2, <3>4 DEF j
  <2> QED  BY <2>1, <2>2
<1>3. \E f : f = Body(f)
  <2> DEFINE step == [p \in Nat \X S |-> IF p[1] \in 1 .. count THEN Step(p[1], p[2]) ELSE p[2]]
  <2>1. step \in [Nat \X S -> S]
    <3> HIDE DEF Step, S
    <3> QED  BY <1>2
  <2>2. PICK g : Iterates(g, S, list, step, count)
    <3> HIDE DEF step, S
    <3>1. list \in S
      BY DEF S
    <3> QED  BY <2>1, <3>1, Iteration
  <2>3. ASSUME NEW i \in 1 .. count
        PROVE  g[i] = Step(i, g[i - 1])
    <3> HIDE DEF Step, S
    <3>1. <<i, g[i - 1]>> \in Nat \X S
      BY <2>2, <2>3 DEF Iterates
    <3> QED  BY <2>2, <2>3, <3>1 DEF Iterates
  <2>4. g = Body(g)
    <3> HIDE DEF Step, S
    <3> QED  BY <2>2, <2>3 DEF Iterates
  <2> QED  BY <2>4
<1>4. after = Body(after)
  <2> HIDE DEF Body
  <2> QED  BY <1>3
<1> HIDE DEF after, Step
<1>5. after[0] \in S /\ \A i \in 1 .. count : after[i] = Step(i, after[i - 1])
  <2> HIDE DEF S
  <2>1. list \in S
    BY DEF S
  <2> QED  BY <1>4, <2>1
<1> DEFINE Bad == {i \in 0 .. count : after[i] \notin S}
<1> HIDE DEF S
<1>6. Bad = {}
  <2> SUFFICES ASSUME Bad # {} PROVE FALSE
    OBVIOUS
  <2>1. Bad \in SUBSET Nat
    OBVIOUS
  <2>2. PICK i \in Bad : \A k \in Bad : i <= k
    BY <2>1, Least
  <2>3. i \in 1 .. count /\ i - 1 \notin Bad
    BY <1>5, <2>2
  <2>4. after[i - 1] \in S
    BY <2>3
  <2> QED  BY <1>2, <1>5, <2>2, <2>3, <2>4
<1> QED  BY <1>1, <1>6 DEF S

-----------------------------------------------------------------------------
(***************************************************************************)
(* The inductive invariant.                                                *)
(***************************************************************************)

\* What main takes to be playing is at its position, and as long as there is a core
\* something is.  Without it a step back from position 0, which the code keeps for "not
\* playing", would leave the playlist.
Placed ==
    /\ now_playing # NULL => playlist_position \in Items /\ now_playing = playlist[playlist_position]
    /\ mpv # NULL => now_playing # NULL

\* The core plays that item, or has been told to.
Shows(core, item) ==
    /\ core.load # NULL => core.load = item
    /\ core.load = NULL /\ core.run \in {"playing", "ended"} /\ core.file # NULL => core.file = item
    /\ core.run = "playing" => core.file # NULL

Shown == mpv # NULL => Shows(mpv, now_playing)

IInv == TypeOK /\ Placed /\ Shown

\* Both directions stay in the playlist.
LEMMA Steps ==
    ASSUME NEW pos \in Items
    PROVE  NextPosition(pos, Count) \in Items /\ PreviousPosition(pos, Count) \in Items
  BY CountAssumption DEF Items, NextPosition, PreviousPosition

LEMMA InitInv == Init => IInv
<1> SUFFICES ASSUME Init PROVE IInv
  OBVIOUS
<1>1. IsInjective(playlist) /\ playlist \in [Items -> Items]
  BY DEF Init, IsInjective
<1>2. TypeOK
  BY <1>1, CountAssumption DEF Init, TypeOK
<1> QED  BY <1>2 DEF Init, IInv, Placed, Shown

\* With a core, everything has a value.
LEMMA Running ==
  ASSUME IInv, mpv # NULL
  PROVE  /\ mpv \in Cores /\ Len(mpv.events) <= MaxEvents /\ mpv.events \in Seq(Events)
         /\ playlist_position \in Items /\ now_playing \in Items
         /\ now_playing = playlist[playlist_position]
         /\ Shows(mpv, now_playing)
<1>1. mpv \in Cores /\ Len(mpv.events) <= MaxEvents
  BY DEF IInv, TypeOK
<1>2. mpv.events \in Seq(Events)
  BY <1>1 DEF Cores
<1>3. now_playing # NULL /\ now_playing \in Items
  BY DEF IInv, Placed, TypeOK
<1> QED  BY <1>1, <1>2, <1>3 DEF IInv, Placed, Shown

\* The core without the event at the front of its queue.
LEMMA RestFacts ==
  ASSUME IInv, mpv # NULL, mpv.events # <<>>
  PROVE  /\ Rest \in Cores /\ Rest.events = Tail(mpv.events)
         /\ Len(Rest.events) = Len(mpv.events) - 1 /\ Len(mpv.events) \in Nat \ {0}
         /\ \A i \in 1 .. Len(Rest.events) : Rest.events[i] = mpv.events[i + 1]
         /\ Head(mpv.events) = mpv.events[1]
         /\ Len(Rest.events) <= MaxEvents
         /\ Rest.run = mpv.run /\ Rest.file = mpv.file /\ Rest.load = mpv.load
         /\ Rest.start = mpv.start /\ Rest.seek = mpv.seek /\ Rest.loop = mpv.loop /\ Rest.told = mpv.told
         /\ Rest.disturbed = mpv.disturbed
<1>1. mpv \in Cores /\ mpv.events \in Seq(Events) /\ Len(mpv.events) <= MaxEvents
  BY Running
<1>2. Len(mpv.events) \in Nat \ {0}
  BY <1>1, EmptySeq, LenProperties
<1>3. /\ Tail(mpv.events) \in Seq(Events) /\ Len(Tail(mpv.events)) = Len(mpv.events) - 1
      /\ \A i \in 1 .. Len(Tail(mpv.events)) : Tail(mpv.events)[i] = mpv.events[i + 1]
      /\ Head(mpv.events) = mpv.events[1]
  BY <1>1, HeadTailProperties
<1>4. Rest \in Cores /\ Rest.events = Tail(mpv.events)
  BY <1>1, <1>3 DEF Rest, Cores
<1>5. /\ Rest.run = mpv.run /\ Rest.file = mpv.file /\ Rest.load = mpv.load
      /\ Rest.start = mpv.start /\ Rest.seek = mpv.seek /\ Rest.loop = mpv.loop /\ Rest.told = mpv.told
      /\ Rest.disturbed = mpv.disturbed
  BY <1>1 DEF Rest, Cores
<1>6. Len(Tail(mpv.events)) <= MaxEvents
  BY <1>1, <1>2, <1>3, InputAssumption
<1> QED  BY <1>2, <1>3, <1>4, <1>5, <1>6

\* The same core, of which the history says that the user has skipped.
LEMMA SkippedFacts ==
  ASSUME IInv, mpv # NULL, mpv.events # <<>>
  PROVE  /\ Skipped \in Cores /\ Skipped.events = Rest.events /\ Skipped.disturbed = TRUE
         /\ Skipped.run = Rest.run /\ Skipped.file = Rest.file /\ Skipped.load = Rest.load
         /\ Skipped.start = Rest.start /\ Skipped.seek = Rest.seek
         /\ Skipped.loop = Rest.loop /\ Skipped.told = Rest.told
<1>1. Rest \in Cores
  BY RestFacts
<1> HIDE DEF Rest
<1> QED  BY <1>1 DEF Skipped, Cores

\* A core that has just been created, and may have found itself without a file.
Fresh(core) ==
    /\ core.file = NULL /\ ~ core.seek /\ core.loop = 0 /\ core.told = -2
    /\ \/ core.run = "created" /\ core.events = <<>>
       \/ core.run = "idle" /\ core.events = <<Event("IDLE")>>

LEMMA NewCoreFacts ==
  ASSUME NEW core \in NewCores
  PROVE  /\ core \in Cores /\ Len(core.events) <= MaxEvents
         /\ Fresh(core) /\ core.start = FALSE /\ core.disturbed = FALSE
<1>1. <<>> \in Seq(Events) /\ Len(<<>>) = 0
  BY EmptySeq
<1>2. <<Event("IDLE")>> \in Seq(Events) /\ Len(<<Event("IDLE")>>) = 1
  <2> DEFINE e == Event("IDLE")
  <2>1. e \in Events
    BY DEF Event, Events
  <2> HIDE DEF e
  <2>2. <<e>> \in Seq(Events) /\ Len(<<e>>) = 1
    BY <2>1
  <2> QED  BY <2>2 DEF e
<1> DEFINE idle == <<Event("IDLE")>>
<1>3. idle \in Seq(Events) /\ Len(idle) = 1
  BY <1>2
<1> HIDE DEF idle
<1>4. CASE core = jf_mpv_create
  <2>1. core \in Cores
    BY <1>1, <1>4 DEF jf_mpv_create, Cores
  <2>2. /\ core.file = NULL /\ core.seek = FALSE /\ core.loop = 0 /\ core.told = -2 /\ core.start = FALSE
        /\ core.disturbed = FALSE /\ core.run = "created" /\ core.events = <<>>
    BY <1>4 DEF jf_mpv_create
  <2> QED  BY <1>1, <2>1, <2>2, InputAssumption DEF Fresh
<1>5. CASE core = [jf_mpv_create EXCEPT !.run = "idle", !.events = idle]
  <2>1. core \in Cores
    <3>1. core = [run |-> "idle", file |-> NULL, load |-> NULL, start |-> FALSE, seek |-> FALSE,
                  loop |-> 0, told |-> -2, disturbed |-> FALSE, events |-> idle]
      BY <1>5 DEF jf_mpv_create
    <3>2. -2 \in Int
      OBVIOUS
    <3> QED  BY <1>3, <3>1, <3>2 DEF Cores
  <2>2. /\ core.file = NULL /\ core.seek = FALSE /\ core.loop = 0 /\ core.told = -2 /\ core.start = FALSE
        /\ core.disturbed = FALSE /\ core.run = "idle" /\ core.events = idle
    BY <1>5 DEF jf_mpv_create
  <2>3. Len(core.events) <= MaxEvents
    <3>1. 1 <= MaxEvents
      BY InputAssumption
    <3> QED  BY <1>3, <2>2, <3>1
  <2> QED  BY <2>1, <2>2, <2>3 DEF Fresh, idle
<1> QED  BY <1>4, <1>5 DEF NewCores, idle

\* The core an item is loaded in: the one there was, or a fresh one.
LEMMA Given ==
  ASSUME NEW core \in Cores, Len(core.events) <= MaxEvents, NEW item \in Items,
         NEW o, o.start \in BOOLEAN, o.mpv # "none", NEW given \in CoresAfter(core, item, o)
  PROVE  /\ given \in Cores /\ given # NULL /\ Len(given.events) <= MaxEvents
         /\ given.load = item /\ given.disturbed = core.disturbed
         /\ o.mpv = "new" => Fresh(given) /\ given.start = o.start
         /\ o.mpv # "new" =>
              /\ given.run = core.run /\ given.file = core.file /\ given.seek = core.seek
              /\ given.loop = core.loop /\ given.told = core.told /\ given.events = core.events
              /\ given.start = (core.start \/ o.start)
<1> DEFINE used == IF o.mpv = "new" THEN {[c EXCEPT !.disturbed = core.disturbed] : c \in NewCores} ELSE {core}
<1>1. PICK u \in used : given = [u EXCEPT !.load = item, !.start = @ \/ o.start]
  BY DEF CoresAfter
<1>2. core.disturbed \in BOOLEAN
  BY DEF Cores
\* What the loadfile leaves of it.
<1>3. ASSUME u \in Cores
      PROVE  /\ given \in Cores /\ given.load = item /\ given.start = (u.start \/ o.start)
             /\ given.run = u.run /\ given.file = u.file /\ given.seek = u.seek /\ given.loop = u.loop
             /\ given.told = u.told /\ given.events = u.events /\ given.disturbed = u.disturbed
  <2> HIDE DEF used
  <2> QED  BY <1>1, <1>3 DEF Cores
<1>4. CASE o.mpv = "new"
  <2>1. PICK c \in NewCores : u = [c EXCEPT !.disturbed = core.disturbed]
    BY <1>1, <1>4
  <2>2. c \in Cores /\ Len(c.events) <= MaxEvents /\ Fresh(c) /\ c.start = FALSE
    BY NewCoreFacts
  <2>3. /\ u \in Cores /\ u.disturbed = core.disturbed /\ u.start = c.start /\ u.run = c.run
        /\ u.file = c.file /\ u.seek = c.seek /\ u.loop = c.loop /\ u.told = c.told /\ u.events = c.events
    <3> HIDE DEF used
    <3> QED  BY <1>2, <2>1, <2>2 DEF Cores
  <2> HIDE DEF used
  <2>4. /\ given \in Cores /\ given.load = item /\ given.start = o.start
        /\ given.run = c.run /\ given.file = c.file /\ given.seek = c.seek /\ given.loop = c.loop
        /\ given.told = c.told /\ given.events = c.events /\ given.disturbed = core.disturbed
    BY <1>3, <2>2, <2>3
  <2>5. Fresh(given)
    BY <2>2, <2>4 DEF Fresh
  <2> QED  BY <1>4, <2>2, <2>4, <2>5, NullAssumption
<1>5. CASE o.mpv # "new"
  <2>1. u = core
    BY <1>1, <1>5
  <2> QED  BY <1>3, <1>5, <2>1, NullAssumption
<1> QED  BY <1>4, <1>5

\* How jf_playback_play_item may come out.
LEMMA Outcomes ==
  ASSUME NEW item, NEW s, NEW o \in PlayItem(item, s)
  PROVE  /\ o.ok \in BOOLEAN /\ o.start \in BOOLEAN /\ o.mpv \in {"none", "same", "new"}
         /\ ~ o.ok => o.mpv = "none" /\ o.state = "MENU_UI"
         /\ o.ok => o.state \in {s, "START_MARK"}
<1>1. o = Failure \/ o = Played(s, "same", FALSE) \/ o \in AskResumeYn(s) \/ o \in AskResumeSelection(s)
  BY DEF PlayItem
<1>2. CASE o = Failure
  BY <1>2 DEF Failure
<1>3. CASE o = Played(s, "same", FALSE)
  BY <1>3 DEF Played
<1>4. CASE o \in AskResumeYn(s)
  <2>1. PICK core \in {"same", "new"} : o = Played("START_MARK", core, TRUE) \/ o = Played(s, core, FALSE)
    BY <1>4 DEF AskResumeYn
  <2>2. CASE o = Played("START_MARK", core, TRUE)
    BY <2>2 DEF Played
  <2>3. CASE o = Played(s, core, FALSE)
    BY <2>3 DEF Played
  <2> QED  BY <2>1, <2>2, <2>3
<1>5. CASE o \in AskResumeSelection(s)
  <2>1. PICK core \in {"same", "none"}, start \in BOOLEAN : o = Played("START_MARK", core, start)
    BY <1>5 DEF AskResumeSelection
  <2> QED  BY <2>1 DEF Played
<1> QED  BY <1>1, <1>2, <1>3, <1>4, <1>5

\* A step that leaves the item alone, and of the core what it plays.
LEMMA SameItem ==
  ASSUME IInv, mpv # NULL, mpv' \in Cores, Len(mpv'.events) <= MaxEvents,
         UNCHANGED <<now_playing, playlist_position, playlist>>, Shows(mpv', now_playing),
         state' \in PlaybackStates \cup {"MENU_UI"}, playlist_loops' \in Int,
         loop_state' \in {"IN_SYNC", "RESYNCING", "OUT_OF_SYNC"}, open' \subseteq open \cup {now_playing}
  PROVE  IInv' /\ mpv' # NULL
<1>1. now_playing \in Items /\ now_playing # NULL
  BY Running DEF IInv, Placed
<1>2. TypeOK'
  BY <1>1 DEF IInv, TypeOK
<1>3. Placed'
  BY <1>1 DEF IInv, Placed
<1>4. Shown'
  BY DEF Shown
<1>5. mpv' # NULL
  BY NullAssumption
<1> QED  BY <1>2, <1>3, <1>4, <1>5 DEF IInv

\* The core is given the item at the new position, if there is still one.
LEMMA PlayInv ==
  ASSUME IInv, NEW item, NEW s, NEW o \in PlayItem(item, s),
         NEW core \in Cores, Len(core.events) <= MaxEvents, core.run = "playing" => core.file # NULL,
         NEW pos \in Items, NEW t \in PlaybackStates \cup {"MENU_UI"}, Play(o, core, pos, t),
         playlist' = playlist, playlist_loops' \in Int,
         loop_state' \in {"IN_SYNC", "RESYNCING", "OUT_OF_SYNC"}, open' \subseteq open
  PROVE  IInv' /\ (o.mpv # "none" => mpv' # NULL)
<1>1. /\ o.ok \in BOOLEAN /\ o.start \in BOOLEAN /\ o.mpv \in {"none", "same", "new"}
      /\ ~ o.ok => o.mpv = "none"
  BY Outcomes
<1>2. playlist[pos] \in Items /\ playlist[pos] # NULL /\ pos \in 0 .. Count /\ 0 \in 0 .. Count
  <2>1. playlist \in [Items -> Items] /\ NULL \notin Items
    BY NullAssumption DEF IInv, TypeOK
  <2>2. playlist[pos] \in Items /\ playlist[pos] # NULL
    BY <2>1
  <2> QED  BY <2>2, CountAssumption DEF Items
<1>3. mpv' \in CoresAfter(core, playlist[pos], o)
  BY DEF Play
<1>4. o.mpv = "none" => mpv' = NULL
  BY <1>3 DEF CoresAfter
<1>5. o.mpv # "none" =>
        /\ mpv' \in Cores /\ mpv' # NULL /\ Len(mpv'.events) <= MaxEvents /\ mpv'.load = playlist[pos]
        /\ mpv'.run = "playing" => mpv'.file # NULL
  BY <1>1, <1>2, <1>3, Given DEF Fresh
<1>6. /\ state' = t
      /\ now_playing' = IF o.ok THEN playlist[pos] ELSE NULL
      /\ playlist_position' = IF o.ok THEN pos ELSE 0
  BY DEF Play
<1>7. TypeOK'
  BY <1>1, <1>2, <1>4, <1>5, <1>6 DEF IInv, TypeOK
<1>8. Placed'
  BY <1>1, <1>2, <1>4, <1>6 DEF Placed
<1>9. Shown'
  BY <1>1, <1>2, <1>4, <1>5, <1>6 DEF Shown, Shows
<1> QED  BY <1>5, <1>7, <1>8, <1>9 DEF IInv

-----------------------------------------------------------------------------
(***************************************************************************)
(* Main, event by event.                                                   *)
(***************************************************************************)

\* What receiving an event means to the rest.
LEMMA Received ==
  ASSUME IInv, NEW name, Receives(name)
  PROVE  /\ mpv # NULL /\ mpv.events # <<>> /\ Head(mpv.events).name = name
         /\ state \in PlaybackStates
         /\ Rest \in Cores /\ Len(Rest.events) <= MaxEvents /\ Shows(Rest, now_playing)
         /\ Rest.run = "playing" => Rest.file # NULL
         /\ playlist_position \in Items /\ now_playing \in Items
         /\ playlist_loops \in Int /\ loop_state \in {"IN_SYNC", "RESYNCING", "OUT_OF_SYNC"}
<1>1. mpv # NULL /\ mpv.events # <<>> /\ Head(mpv.events).name = name /\ state \in PlaybackStates
  BY DEF Receives
<1>2. Shows(mpv, now_playing) /\ playlist_position \in Items /\ now_playing \in Items
  BY <1>1, Running
<1>3. Shows(Rest, now_playing) /\ (Rest.run = "playing" => Rest.file # NULL)
  BY <1>1, <1>2, RestFacts DEF Shows
<1> QED  BY <1>1, <1>2, <1>3, RestFacts DEF IInv, TypeOK

\* An event that changes nothing but the state.
LEMMA BecomesInv ==
  ASSUME IInv, NEW name, Receives(name), NEW s \in PlaybackStates \cup {"MENU_UI"}, Becomes(s),
         UNCHANGED <<playlist, playlist_loops, loop_state>>, open' \subseteq open \cup {now_playing}
  PROVE  IInv' /\ mpv' # NULL
<1>1. mpv' = Rest /\ state' = s /\ UNCHANGED <<now_playing, playlist_position>>
  BY DEF Becomes
<1> QED  BY <1>1, Received, SameItem

LEMMA EndInv ==
  ASSUME IInv, End, playlist' = playlist, playlist_loops' \in Int,
         loop_state' \in {"IN_SYNC", "RESYNCING", "OUT_OF_SYNC"}, open' \subseteq open
  PROVE  IInv'
<1>1. TypeOK'
  BY CountAssumption DEF IInv, TypeOK, End, PlaybackStates
<1>2. Placed' /\ Shown'
  BY DEF End, Placed, Shown
<1> QED  BY <1>1, <1>2 DEF IInv

\* A step forward, whether the item can be played or not.
LEMMA NextInv ==
  ASSUME IInv, NEW name, Receives(name), NEW core \in {Rest, Skipped},
         NEW failed \in {"MENU_UI", "STOPPING"}, JfPlaybackNext(core, failed),
         playlist' = playlist, open' \subseteq open
  PROVE  IInv'
<1> DEFINE pos == NextPosition(playlist_position, Count)
<1>1. pos \in Items
  BY Received, Steps
<1>2. PICK o \in PlayItem(playlist[pos], "SEEKING") :
        Play(o, core, pos, IF o.ok THEN o.state ELSE failed)
  BY DEF JfPlaybackNext
<1>3. (IF o.ok THEN o.state ELSE failed) \in PlaybackStates \cup {"MENU_UI"}
  BY Outcomes DEF PlaybackStates
<1>4. playlist_loops' \in Int /\ loop_state' \in {"IN_SYNC", "RESYNCING", "OUT_OF_SYNC"}
  BY Received DEF JfPlaybackNext, NextLoops
<1>5. core \in Cores /\ Len(core.events) <= MaxEvents /\ (core.run = "playing" => core.file # NULL)
  BY Received, SkippedFacts
<1> HIDE DEF pos
<1> QED  BY <1>1, <1>2, <1>3, <1>4, <1>5, PlayInv

LEMMA MessageNextInv ==
  ASSUME IInv, MessageNext PROVE IInv'
<1>1. Receives("next") /\ playlist' = playlist /\ open' \subseteq open
  BY DEF MessageNext
<1>2. CASE Moves
  BY <1>1, <1>2, NextInv DEF MessageNext
<1>3. CASE ~ Moves
  <2>1. Becomes(state) /\ UNCHANGED <<playlist_loops, loop_state>> /\ state \in PlaybackStates \cup {"MENU_UI"}
    BY <1>3 DEF MessageNext, IInv, TypeOK
  <2> QED  BY <1>1, <2>1, BecomesInv
<1> QED  BY <1>2, <1>3

LEMMA MessagePreviousInv ==
  ASSUME IInv, MessagePrevious PROVE IInv'
<1> DEFINE pos == PreviousPosition(playlist_position, Count)
<1>1. /\ Receives("prev") /\ playlist' = playlist /\ open' \subseteq open
      /\ UNCHANGED <<playlist_loops, loop_state>>
  BY DEF MessagePrevious
<1>2. pos \in Items
  BY <1>1, Received, Steps
<1>3. CASE PreviousMoves(playlist_position, playlist_loops)
  <2>1. PICK o \in PlayItem(playlist[pos], "SEEKING") : Play(o, Skipped, pos, o.state)
    BY <1>3 DEF MessagePrevious
  <2>2. o.state \in PlaybackStates \cup {"MENU_UI"}
    BY Outcomes DEF PlaybackStates
  <2>3. /\ Skipped \in Cores /\ Len(Skipped.events) <= MaxEvents
        /\ Skipped.run = "playing" => Skipped.file # NULL
        /\ playlist_loops' \in Int /\ loop_state' \in {"IN_SYNC", "RESYNCING", "OUT_OF_SYNC"}
    BY <1>1, Received, SkippedFacts
  <2> HIDE DEF pos
  <2> QED  BY <1>1, <1>2, <2>1, <2>2, <2>3, PlayInv
<1>4. CASE ~ PreviousMoves(playlist_position, playlist_loops)
  <2>1. Becomes(state) /\ state \in PlaybackStates \cup {"MENU_UI"}
    BY <1>4 DEF MessagePrevious, IInv, TypeOK
  <2> QED  BY <1>1, <2>1, BecomesInv
<1> QED  BY <1>3, <1>4

LEMMA EndOfFileInv ==
  ASSUME IInv, EndOfFile PROVE IInv'
<1>1. Receives("END_FILE") /\ playlist' = playlist /\ open' \subseteq open
  BY DEF EndOfFile
<1>2. CASE Head(mpv.events).reason = "eof" /\ Moves
  BY <1>1, <1>2, NextInv DEF EndOfFile
<1>3. CASE ~ (Head(mpv.events).reason = "eof" /\ Moves)
  <2>1. Becomes("STOPPING") /\ UNCHANGED <<playlist_loops, loop_state>>
    BY <1>3 DEF EndOfFile
  <2>2. "STOPPING" \in PlaybackStates \cup {"MENU_UI"}
    BY DEF PlaybackStates
  <2> QED  BY <1>1, <2>1, <2>2, BecomesInv
<1> QED  BY <1>2, <1>3

\* The playlist changes under the item playing.
LEMMA MessageShuffleInv ==
  ASSUME IInv, MessageShuffle PROVE IInv'
<1> DEFINE pos == playlist_position
           x == playlist[pos]
<1>1. Receives("shuffle") /\ Becomes(state) /\ UNCHANGED <<playlist_loops, loop_state, open>>
  BY DEF MessageShuffle
<1>2. pos \in 1 .. Count /\ Count \in Nat
  BY <1>1, Received, CountAssumption DEF Items
<1>3. PICK draws \in [0 .. Count - 3 -> 0 .. Count] : playlist' = Shuffle(playlist, pos, Count, draws)
  BY DEF MessageShuffle
<1>4. draws \in [0 .. Count - 3 -> Nat]
  BY <1>2
<1>5. playlist \in Arrangements(Count, Items, pos, x)
  BY DEF IInv, TypeOK, Arrangements, IsInjective, Items
<1>6. playlist' \in Arrangements(Count, Items, pos, x)
  <2> HIDE DEF x, pos
  <2> QED  BY <1>2, <1>3, <1>4, <1>5, ShuffleRearranges
<1>7. IsInjective(playlist)' /\ playlist' \in [Items -> Items] /\ playlist'[pos] = playlist[pos]
  BY <1>6 DEF Arrangements, IsInjective, Items
<1>8. /\ mpv' = Rest /\ state' = state /\ UNCHANGED <<now_playing, playlist_position>>
      /\ Rest \in Cores /\ Len(Rest.events) <= MaxEvents /\ Shows(Rest, now_playing) /\ mpv # NULL
  BY <1>1, Received DEF Becomes
<1>9. TypeOK'
  BY <1>1, <1>7, <1>8 DEF IInv, TypeOK
<1>10. Placed' /\ Shown'
  BY <1>7, <1>8 DEF IInv, Placed, Shown
<1> QED  BY <1>9, <1>10 DEF IInv

LEMMA StartFileInv ==
  ASSUME IInv, StartFile PROVE IInv'
<1> DEFINE s == IF state \in {"INIT", "SEEKING"} THEN "PLAYBACK" ELSE state
<1>1. /\ Receives("START_FILE") /\ Becomes(s) /\ s \in PlaybackStates \cup {"MENU_UI"}
      /\ UNCHANGED <<playlist_loops, loop_state, playlist>> /\ open' \subseteq open \cup {now_playing}
  BY DEF StartFile, IInv, TypeOK, PlaybackStates
<1> HIDE DEF s
<1> QED  BY <1>1, BecomesInv

LEMMA SeekInv ==
  ASSUME IInv, Seek PROVE IInv' /\ mpv' # NULL
<1>1. Receives("SEEK") /\ UNCHANGED <<now_playing, playlist_position, playlist_loops, loop_state, playlist>>
  BY DEF Seek
<1>2. /\ mpv # NULL /\ Rest \in Cores /\ Len(Rest.events) <= MaxEvents /\ Shows(Rest, now_playing)
      /\ state \in PlaybackStates
  BY <1>1, Received
<1> DEFINE begun == [Rest EXCEPT !.start = FALSE]
<1>3. begun \in Cores /\ begun.events = Rest.events /\ Shows(begun, now_playing)
  <2>1. /\ begun \in Cores /\ begun.events = Rest.events /\ begun.load = Rest.load /\ begun.run = Rest.run
        /\ begun.file = Rest.file
    <3> HIDE DEF Rest
    <3> QED  BY <1>2 DEF Cores
  <2> HIDE DEF begun
  <2> QED  BY <1>2, <2>1 DEF Shows
<1>4. /\ mpv' \in {begun, Rest} /\ open' \subseteq open \cup {now_playing}
      /\ state' \in PlaybackStates \cup {"MENU_UI"}
  BY <1>2 DEF Seek, PlaybackStates
<1>5. /\ mpv' \in Cores /\ Len(mpv'.events) <= MaxEvents /\ Shows(mpv', now_playing)
  <2> HIDE DEF begun
  <2> QED  BY <1>2, <1>3, <1>4
<1> QED  BY <1>1, <1>2, <1>4, <1>5, SameItem DEF IInv, TypeOK

LEMMA IdleShutdownInv ==
  ASSUME IInv, Idle \/ Shutdown PROVE IInv'
<1>1. CASE Idle
  <2>1. /\ Receives("IDLE") /\ UNCHANGED <<playlist_loops, loop_state, playlist, open>>
        /\ End \/ Becomes("PLAYBACK") \/ Becomes(state)
    BY <1>1 DEF Idle
  <2>2. {"PLAYBACK", state} \subseteq PlaybackStates \cup {"MENU_UI"}
    BY DEF PlaybackStates, IInv, TypeOK
  <2> QED  BY <2>1, <2>2, BecomesInv, EndInv DEF IInv, TypeOK
<1>2. CASE Shutdown
  BY <1>2, EndInv DEF Shutdown, IInv, TypeOK
<1> QED  BY <1>1, <1>2

LEMMA LoopChangeInv ==
  ASSUME IInv, LoopChange PROVE IInv' /\ mpv' # NULL
<1>1. /\ mpv # NULL /\ UNCHANGED <<state, now_playing, playlist_position, playlist, open>>
      /\ state \in PlaybackStates
  BY DEF LoopChange
<1>2. mpv \in Cores /\ Len(mpv.events) <= MaxEvents /\ Shows(mpv, now_playing) /\ playlist_loops \in Int
  BY <1>1, Running DEF IInv, TypeOK
<1>3. /\ mpv' \in {[mpv EXCEPT !.told = mpv.loop], [mpv EXCEPT !.told = mpv.loop, !.loop = playlist_loops],
                [mpv EXCEPT !.told = mpv.loop, !.disturbed = FALSE]}
      /\ loop_state' \in {"IN_SYNC", "RESYNCING", "OUT_OF_SYNC"}
      /\ playlist_loops' \in {playlist_loops, 0, mpv.loop}
  BY <1>1 DEF LoopChange, IInv, TypeOK
<1>4. mpv.loop \in Int
  BY <1>2 DEF Cores
<1>5. /\ mpv' \in Cores /\ mpv'.events = mpv.events /\ mpv'.load = mpv.load /\ mpv'.run = mpv.run
      /\ mpv'.file = mpv.file
  BY <1>2, <1>3 DEF Cores
<1>6. Shows(mpv', now_playing) /\ playlist_loops' \in Int
  BY <1>2, <1>3, <1>4, <1>5 DEF Shows
<1> QED  BY <1>1, <1>2, <1>3, <1>5, <1>6, SameItem DEF IInv, TypeOK

-----------------------------------------------------------------------------
(***************************************************************************)
(* The core and its user.                                                  *)
(***************************************************************************)

\* The core goes on, with an event more.
LEMMA Emitted ==
  ASSUME IInv, mpv # NULL, NEW core \in Cores, core.events = mpv.events, Shows(core, now_playing),
         NEW event \in Events, Emit(core, event)
  PROVE  IInv' /\ mpv' # NULL
<1>1. mpv.events \in Seq(Events) /\ Len(mpv.events) < MaxEvents /\ MaxEvents \in Nat /\ Len(mpv.events) \in Nat
  BY Running, InputAssumption, LenProperties DEF Emit
<1>2. mpv' = [core EXCEPT !.events = Append(mpv.events, event)]
  BY DEF Emit
<1>3. Append(mpv.events, event) \in Seq(Events) /\ Len(Append(mpv.events, event)) = Len(mpv.events) + 1
  BY <1>1, AppendProperties
<1>4. /\ mpv' \in Cores /\ mpv'.events = Append(mpv.events, event) /\ mpv'.load = core.load
      /\ mpv'.run = core.run /\ mpv'.file = core.file
  BY <1>2, <1>3 DEF Cores
<1>5. Len(mpv'.events) <= MaxEvents /\ Shows(mpv', now_playing)
  BY <1>1, <1>3, <1>4 DEF Shows
<1>6. UNCHANGED <<state, now_playing, playlist_position, playlist_loops, loop_state, playlist, open>>
  BY DEF Emit, game
<1> QED  BY <1>4, <1>5, <1>6, SameItem DEF IInv, TypeOK

LEMMA EventTypes ==
  /\ \A name \in {"IDLE", "START_FILE", "SEEK", "SHUTDOWN", "next", "prev", "shuffle"} : Event(name) \in Events
  /\ \A reason \in {"eof", "stop", "error", "quit"} : EndFile(reason) \in Events
BY DEF Event, EndFile, Events

LEMMA CoreInv ==
  ASSUME IInv, Core PROVE IInv' /\ mpv' # NULL
<1>1. mpv # NULL
  BY DEF Core, CoreIdle, CoreStart, CoreLoop, CoreSeek, CoreEof, CoreStop, CoreError
<1>2. /\ mpv \in Cores /\ Shows(mpv, now_playing)
      /\ mpv.file \in Items \cup {NULL} /\ mpv.load \in Items \cup {NULL} /\ mpv.start \in BOOLEAN
      /\ mpv.loop \in Int
  BY <1>1, Running DEF Cores
<1>3. CASE CoreIdle
  <2> DEFINE core == [mpv EXCEPT !.run = "idle"]
  <2>1. Emit(core, Event("IDLE"))
    BY <1>3 DEF CoreIdle
  <2>2. /\ core \in Cores /\ core.events = mpv.events /\ core.load = mpv.load /\ core.run = "idle"
        /\ core.file = mpv.file
    BY <1>2 DEF Cores
  <2> HIDE DEF core
  <2>3. Shows(core, now_playing)
    BY <1>2, <2>2 DEF Shows
  <2> QED  BY <1>1, <2>1, <2>2, <2>3, Emitted, EventTypes
<1>4. CASE CoreStart
  <2> DEFINE core == [mpv EXCEPT !.run = "playing", !.file = mpv.load, !.load = NULL, !.seek = mpv.start]
  <2>1. Emit(core, Event("START_FILE")) /\ mpv.load # NULL
    BY <1>4 DEF CoreStart
  <2>2. /\ core \in Cores /\ core.events = mpv.events /\ core.load = NULL /\ core.run = "playing"
        /\ core.file = mpv.load
    BY <1>2 DEF Cores
  <2> HIDE DEF core
  <2>3. Shows(core, now_playing)
    BY <1>2, <2>1, <2>2 DEF Shows
  <2> QED  BY <1>1, <2>1, <2>2, <2>3, Emitted, EventTypes
<1>5. CASE CoreLoop
  <2> DEFINE core == [mpv EXCEPT !.run = "playing"]
  <2>1. Emit(core, Event("START_FILE")) /\ mpv.load = NULL /\ mpv.file # NULL /\ mpv.run = "ended"
    BY <1>5 DEF CoreLoop
  <2>2. /\ core \in Cores /\ core.events = mpv.events /\ core.load = mpv.load /\ core.run = "playing"
        /\ core.file = mpv.file
    BY <1>2 DEF Cores
  <2> HIDE DEF core
  <2>3. Shows(core, now_playing)
    BY <1>2, <2>1, <2>2 DEF Shows
  <2> QED  BY <1>1, <2>1, <2>2, <2>3, Emitted, EventTypes
<1>6. CASE CoreSeek
  <2> DEFINE core == [mpv EXCEPT !.seek = FALSE]
  <2>1. Emit(core, Event("SEEK"))
    BY <1>6 DEF CoreSeek
  <2>2. /\ core \in Cores /\ core.events = mpv.events /\ core.load = mpv.load /\ core.run = mpv.run
        /\ core.file = mpv.file
    BY <1>2 DEF Cores
  <2> HIDE DEF core
  <2>3. Shows(core, now_playing)
    BY <1>2, <2>2 DEF Shows
  <2> QED  BY <1>1, <2>1, <2>2, <2>3, Emitted, EventTypes
<1>7. CASE CoreEof
  <2> DEFINE file == IF mpv.loop \in {0, 1} THEN NULL ELSE mpv.file
             loop == IF mpv.loop > 1 THEN mpv.loop - 1 ELSE mpv.loop
             core == [mpv EXCEPT !.run = "ended", !.file = file, !.loop = loop, !.disturbed = Recounted]
  <2>1. Emit(core, EndFile("eof")) /\ mpv.run = "playing" /\ mpv.load = NULL
    BY <1>7 DEF CoreEof
  <2>3. file \in {mpv.file, NULL} /\ file \in Items \cup {NULL} /\ loop \in Int /\ Recounted \in BOOLEAN
    BY <1>2 DEF Recounted
  <2> HIDE DEF file, loop
  <2>2. /\ core \in Cores /\ core.events = mpv.events /\ core.load = mpv.load /\ core.run = "ended"
        /\ core.file = file
    BY <1>2, <2>3 DEF Cores
  <2> HIDE DEF core
  <2>4. Shows(core, now_playing)
    BY <1>2, <2>1, <2>2, <2>3 DEF Shows
  <2> QED  BY <1>1, <2>1, <2>2, <2>4, Emitted, EventTypes
<1>8. CASE CoreStop \/ CoreError
  <2> DEFINE core == [mpv EXCEPT !.run = "ended", !.file = NULL, !.seek = FALSE]
  <2>1. Emit(core, EndFile("stop")) \/ Emit(core, EndFile("error"))
    BY <1>8 DEF CoreStop, CoreError
  <2>2. /\ core \in Cores /\ core.events = mpv.events /\ core.load = mpv.load /\ core.run = "ended"
        /\ core.file = NULL
    BY <1>2 DEF Cores
  <2> HIDE DEF core
  <2>3. Shows(core, now_playing)
    BY <1>2, <2>2 DEF Shows
  <2> QED  BY <1>1, <2>1, <2>2, <2>3, Emitted, EventTypes
<1> QED  BY <1>3, <1>4, <1>5, <1>6, <1>7, <1>8 DEF Core

\* A sequence with one more at its end.
LEMMA OneMore ==
  ASSUME NEW S, NEW s \in Seq(S), NEW x \in S
  PROVE  /\ s \o <<x>> \in Seq(S) /\ Len(s \o <<x>>) = Len(s) + 1 /\ Len(s) \in Nat
         /\ \A i \in 1 .. Len(s) : (s \o <<x>>)[i] = s[i]
         /\ (s \o <<x>>)[Len(s) + 1] = x
<1>1. <<x>> \in Seq(S) /\ Len(<<x>>) = 1 /\ <<x>>[1] = x /\ Len(s) \in Nat
  OBVIOUS
<1> DEFINE t == <<x>>
<1>2. t \in Seq(S) /\ Len(t) = 1 /\ t[1] = x
  BY <1>1
<1> HIDE DEF t
<1>3. /\ s \o t \in Seq(S) /\ Len(s \o t) = Len(s) + Len(t)
      /\ \A i \in 1 .. Len(s) + Len(t) : (s \o t)[i] = IF i <= Len(s) THEN s[i] ELSE t[i - Len(s)]
  BY <1>2, ConcatProperties
<1>4. /\ s \o t \in Seq(S) /\ Len(s \o t) = Len(s) + 1
      /\ \A i \in 1 .. Len(s) : (s \o t)[i] = s[i]
      /\ (s \o t)[Len(s) + 1] = x
  BY <1>1, <1>2, <1>3
<1> QED  BY <1>1, <1>4 DEF t

\* What quitting adds to the queue.
LEMMA QuitEvents ==
  ASSUME IInv, mpv # NULL, UserQuit
  PROVE  \E ends \in {<<>>, <<EndFile("quit")>>} :
           LET events == mpv.events \o ends \o <<Event("SHUTDOWN")>> IN
           /\ ends = <<>> => mpv.run # "playing" \/ Aborts
           /\ mpv' \in Cores /\ mpv'.run = "dead" /\ mpv'.load = NULL /\ mpv'.events = events
           /\ ends = <<>> => /\ Len(events) = Len(mpv.events) + 1
                             /\ events[Len(mpv.events) + 1] = Event("SHUTDOWN")
           /\ ends # <<>> => /\ Len(events) = Len(mpv.events) + 2
                             /\ events[Len(mpv.events) + 1] = EndFile("quit")
                             /\ events[Len(mpv.events) + 2] = Event("SHUTDOWN")
           /\ \A i \in 1 .. Len(mpv.events) : events[i] = mpv.events[i]
           /\ Len(events) <= MaxEvents
<1>1. mpv \in Cores /\ mpv.events \in Seq(Events) /\ Len(mpv.events) + 1 < MaxEvents /\ Len(mpv.events) \in Nat
  BY Running, LenProperties DEF UserQuit
<1>2. PICK ends \in {<<>>, <<EndFile("quit")>>} :
         /\ ends = <<>> => mpv.run # "playing" \/ Aborts
         /\ mpv' = [mpv EXCEPT !.run = "dead", !.load = NULL,
                               !.events = @ \o ends \o <<Event("SHUTDOWN")>>]
  BY DEF UserQuit
<1> DEFINE events == mpv.events \o ends \o <<Event("SHUTDOWN")>>
           gone == Event("SHUTDOWN")
           end == EndFile("quit")
<1>3. gone \in Events /\ end \in Events
  BY EventTypes
<1> HIDE DEF gone, end
<1>4. /\ events \in Seq(Events) /\ Len(events) <= MaxEvents
      /\ ends = <<>> => Len(events) = Len(mpv.events) + 1 /\ events[Len(mpv.events) + 1] = gone
      /\ ends # <<>> => /\ Len(events) = Len(mpv.events) + 2
                        /\ events[Len(mpv.events) + 1] = end
                        /\ events[Len(mpv.events) + 2] = gone
      /\ \A i \in 1 .. Len(mpv.events) : events[i] = mpv.events[i]
  <2>1. ends = <<>> \/ ends = <<end>>
    BY <1>2 DEF end
  <2>2. events = mpv.events \o ends \o <<gone>>
    BY DEF gone
  <2> HIDE DEF events
  <2>3. CASE ends = <<>>
    <3>1. events = mpv.events \o <<gone>>
      BY <1>1, <2>2, <2>3, ConcatEmptySeq
    <3>2. mpv.events \o <<gone>> \in Seq(Events) /\ Len(mpv.events \o <<gone>>) = Len(mpv.events) + 1
          /\ \A i \in 1 .. Len(mpv.events) : (mpv.events \o <<gone>>)[i] = mpv.events[i]
          /\ (mpv.events \o <<gone>>)[Len(mpv.events) + 1] = gone
      BY <1>1, <1>3, OneMore
    <3>3. Len(events) <= MaxEvents
      BY <1>1, <3>1, <3>2, InputAssumption
    <3> QED  BY <2>3, <3>1, <3>2, <3>3
  <2>4. CASE ends = <<end>>
    <3> DEFINE s == mpv.events \o <<end>>
    <3>1. /\ s \in Seq(Events) /\ Len(s) = Len(mpv.events) + 1
          /\ \A i \in 1 .. Len(mpv.events) : s[i] = mpv.events[i]
          /\ s[Len(mpv.events) + 1] = end
      BY <1>1, <1>3, OneMore
    <3>2. events = s \o <<gone>> /\ ends # <<>>
      BY <2>2, <2>4
    <3> HIDE DEF s
    <3>3. s \o <<gone>> \in Seq(Events) /\ Len(s \o <<gone>>) = Len(s) + 1
          /\ \A i \in 1 .. Len(s) : (s \o <<gone>>)[i] = s[i]
          /\ (s \o <<gone>>)[Len(s) + 1] = gone
      BY <1>3, <3>1, OneMore
    <3>4. Len(events) <= MaxEvents /\ Len(events) = Len(mpv.events) + 2
      BY <1>1, <3>1, <3>2, <3>3, InputAssumption
    <3>5. events[Len(mpv.events) + 1] = end /\ events[Len(mpv.events) + 2] = gone
          /\ \A i \in 1 .. Len(mpv.events) : events[i] = mpv.events[i]
      BY <1>1, <3>1, <3>2, <3>3
    <3> QED  BY <3>2, <3>3, <3>4, <3>5
  <2> QED  BY <2>1, <2>3, <2>4
<1> HIDE DEF events
<1>5. mpv' = [mpv EXCEPT !.run = "dead", !.load = NULL, !.events = events]
  BY <1>1, <1>2 DEF events
<1>6. mpv' \in Cores /\ mpv'.run = "dead" /\ mpv'.load = NULL /\ mpv'.events = events
  BY <1>1, <1>4, <1>5 DEF Cores
<1> QED  BY <1>2, <1>4, <1>6 DEF events, gone, end

LEMMA UserInv ==
  ASSUME IInv, User PROVE IInv' /\ mpv' # NULL
<1>1. /\ mpv # NULL
      /\ UNCHANGED <<state, now_playing, playlist_position, playlist_loops, loop_state, playlist, open>>
  BY DEF User, UserControl, UserLoop, UserQuit, game
<1>2. /\ mpv \in Cores /\ mpv.events \in Seq(Events) /\ Len(mpv.events) \in Nat /\ Len(mpv.events) <= MaxEvents
      /\ Shows(mpv, now_playing)
  BY <1>1, Running, LenProperties
<1>3. mpv' \in Cores /\ Len(mpv'.events) <= MaxEvents /\ Shows(mpv', now_playing)
  <2>1. CASE UserControl
    <3>1. PICK c \in Controls : mpv' = [mpv EXCEPT !.events = Append(@, Event(c))]
      BY <2>1 DEF UserControl
    <3>2. Event(c) \in Events /\ Len(mpv.events) < MaxEvents /\ MaxEvents \in Nat
      BY <2>1, ControlsAssumption, InputAssumption, EventTypes DEF UserControl
    <3>3. /\ Append(mpv.events, Event(c)) \in Seq(Events)
          /\ Len(Append(mpv.events, Event(c))) = Len(mpv.events) + 1
      BY <1>2, <3>2, AppendProperties
    <3>4. /\ mpv' \in Cores /\ mpv'.events = Append(mpv.events, Event(c)) /\ mpv'.load = mpv.load
          /\ mpv'.run = mpv.run /\ mpv'.file = mpv.file
      BY <1>2, <3>1, <3>3 DEF Cores
    <3> QED  BY <1>2, <3>2, <3>3, <3>4 DEF Shows
  <2>2. CASE UserLoop
    <3>1. PICK n \in Int : mpv' = [mpv EXCEPT !.loop = n, !.disturbed = Recounted]
      BY <2>2, LoopAssumption DEF UserLoop
    <3>2. Recounted \in BOOLEAN
      BY <1>2 DEF Recounted, Cores
    <3>3. /\ mpv' \in Cores /\ mpv'.events = mpv.events /\ mpv'.load = mpv.load
          /\ mpv'.run = mpv.run /\ mpv'.file = mpv.file
      BY <1>2, <3>1, <3>2 DEF Cores
    <3> QED  BY <1>2, <3>3 DEF Shows
  <2>3. CASE UserQuit
    <3>1. mpv' \in Cores /\ mpv'.run = "dead" /\ mpv'.load = NULL /\ Len(mpv'.events) <= MaxEvents
      BY <1>1, <2>3, QuitEvents
    <3> QED  BY <3>1 DEF Shows
  <2> QED  BY <2>1, <2>2, <2>3 DEF User
<1> QED  BY <1>1, <1>3, SameItem DEF IInv, TypeOK

LEMMA TryPlayInv ==
  ASSUME IInv, TryPlay PROVE IInv'
<1>1. PICK o \in PlayItem(playlist[1], "INIT"), core \in NewCores : Play(o, core, 1, o.state)
  BY DEF TryPlay
<1>2. o.state \in PlaybackStates \cup {"MENU_UI"}
  BY Outcomes DEF PlaybackStates
<1>3. 1 \in Items
  BY CountAssumption DEF Items
<1>4. core \in Cores /\ core.run # "playing" /\ Len(core.events) <= MaxEvents
  BY NewCoreFacts DEF Fresh
<1>5. playlist' = playlist /\ playlist_loops' \in Int /\ open' \subseteq open
      /\ loop_state' \in {"IN_SYNC", "RESYNCING", "OUT_OF_SYNC"}
  BY DEF TryPlay
<1> QED  BY <1>1, <1>2, <1>3, <1>4, <1>5, PlayInv

LEMMA StepInv ==
  ASSUME IInv, [Next]_vars PROVE IInv'
<1>1. CASE Dispatch
  BY <1>1, MessageNextInv, MessagePreviousInv, MessageShuffleInv, StartFileInv, EndOfFileInv, SeekInv,
     IdleShutdownInv, LoopChangeInv DEF Dispatch
<1>2. CASE UNCHANGED vars
  BY <1>2 DEF vars, IInv, TypeOK, Placed, Shown, IsInjective
<1> QED  BY <1>1, <1>2, TryPlayInv, CoreInv, UserInv DEF Next

\* The invariant holds, with no assumption on what fails.
THEOREM Invariance == Spec => []IInv
<1>1. Init => IInv
  BY InitInv
<1>2. IInv /\ [Next]_vars => IInv'
  BY StepInv
<1> QED  BY <1>1, <1>2, PTL DEF Spec

\* In a playlist of any length, on a display of any height, whatever has been
\* played, skipped or failed, the slice that jf_playback_print_playlist shows lies
\* in the playlist around the item playing and is as long as it can be.
THEOREM WindowAlwaysShown == Spec => []WindowFits
<1>1. IInv => WindowFits
  <2> SUFFICES ASSUME IInv, playlist_position # 0, NEW h \in Heights
               PROVE  Fits(WindowSize(h, Count), playlist_position, Count)
    BY DEF WindowFits
  <2>1. playlist_position \in 1 .. Count /\ h \in Nat
    BY CountAssumption, HeightAssumption DEF IInv, TypeOK
  <2> QED
    BY <2>1, CountAssumption, WindowAlwaysFits
<1> QED
  BY <1>1, Invariance, PTL

\* now_playing is the item at the playlist position, whatever is skipped, shuffled or fails.
THEOREM AlwaysPlayingAtPosition == Spec => []PlayingAtPosition
<1>1. IInv => PlayingAtPosition
  BY DEF IInv, Placed, PlayingAtPosition
<1> QED  BY <1>1, Invariance, PTL

\* And mpv plays that item, once it has obeyed.
THEOREM AlwaysPlaysWhatIsShown == Spec => []PlaysWhatIsShown
<1>1. IInv => PlaysWhatIsShown
  BY DEF IInv, Shown, Shows, PlaysWhatIsShown, Settled
<1> QED  BY <1>1, Invariance, PTL

-----------------------------------------------------------------------------
(***************************************************************************)
(* Sessions.                                                               *)
(***************************************************************************)

Marked == marks \in [Items -> Marks]

\* The marks are the server's.
LEMMA MarksKept ==
  ASSUME [Next]_vars PROVE marks' = marks
BY DEF Next, Dispatch, MessageNext, MessagePrevious, MessageShuffle, StartFile, EndOfFile, Seek, Idle, Shutdown,
       LoopChange, TryPlay, Core, CoreIdle, CoreStart, CoreLoop, CoreSeek, CoreEof, CoreStop, CoreError, Emit,
       User, UserControl, UserLoop, UserQuit, game, vars

\* At most one resume mark to ask about, and a core that reports the end of its file when it quits.
PlainSessions == ~ Aborts /\ Marks \subseteq {"none", "one"}

\* A file on its way to its mark is neither quit nor does it fail, before mpv has got there.
MarkReached == UserQuit \/ CoreError => ~ (state = "START_MARK" /\ mpv.seek)

\* By the n-th event, the open sessions, and every file that starts or seeks, have come to
\* their end.
Wound(events, opened, n) ==
    /\ opened # {} => \E j \in 1 .. n : events[j].name = "END_FILE"
    /\ \A k \in 1 .. n : events[k].name \in {"START_FILE", "SEEK"} => \E j \in k + 1 .. n : events[j].name = "END_FILE"

\* The core says it is idle or gone only when that is so, and is not playing only then.
Closing(core, opened) ==
    /\ \A i \in 1 .. Len(core.events) :
         core.events[i].name \in {"IDLE", "SHUTDOWN"} => Wound(core.events, opened, i - 1)
    /\ core.run # "playing" => Wound(core.events, opened, Len(core.events))

\* The core has yet to seek to the mark, or will do nothing any more.
Due(core) ==
    \/ core.run \in {"created", "idle"} /\ core.load # NULL /\ core.start
    \/ core.run = "playing" /\ core.load = NULL /\ core.seek
    \/ core.run = "dead"

\* No file ends before the seek to the mark has been reported.
SeekFirst(core) ==
    /\ \A i \in 1 .. Len(core.events) :
         core.events[i].name = "END_FILE" => \E j \in 1 .. i - 1 : core.events[j].name = "SEEK"
    /\ Due(core) \/ \E j \in 1 .. Len(core.events) : core.events[j].name = "SEEK"

\* At most the session of what is playing is open; and mpv owes an END_FILE for it, which
\* does not come while main would leave the session open.
Sessions ==
    /\ open \subseteq {now_playing}
    /\ state \in {"SEEKING", "MENU_UI"} \/ mpv = NULL => open = {}
    /\ state = "START_MARK" => mpv # NULL /\ ~ Marks \subseteq {"none"} /\ SeekFirst(mpv)
    /\ mpv # NULL => Closing(mpv, open)

\* How an item with one mark at most is played: it may fail, or play from its start; and from
\* its mark only in a core that has done nothing yet.
LEMMA PlainOutcomes ==
  ASSUME PlainSessions, Marked, NEW item \in Items, NEW s, NEW o \in PlayItem(item, s)
  PROVE  \/ o = Failure
         \/ \E core \in {"same", "new"} : o = Played(s, core, FALSE)
         \/ /\ ~ Marks \subseteq {"none"}
            /\ o = Played("START_MARK", IF s = "SEEKING" THEN "new" ELSE "same", TRUE)
<1>1. marks[item] \in {"none", "one"} /\ marks[item] \in Marks
  BY DEF PlainSessions, Marked
<1>2. o = Failure \/ (marks[item] = "none" /\ o = Played(s, "same", FALSE))
        \/ (marks[item] = "one" /\ o \in AskResumeYn(s))
  BY <1>1 DEF PlayItem
<1>3. CASE marks[item] = "one" /\ o \in AskResumeYn(s)
  <2>1. ~ Marks \subseteq {"none"}
    BY <1>1, <1>3
  <2> QED  BY <1>3, <2>1 DEF AskResumeYn
<1> QED  BY <1>2, <1>3

\* The front event has been handled; if it opened a session it was a START_FILE or a SEEK,
\* if it was an END_FILE there is none open.
LEMMA ClosingRest ==
  ASSUME IInv, mpv # NULL, mpv.events # <<>>, NEW old, NEW opened, Closing(mpv, old),
         opened # {} => \/ Head(mpv.events).name \in {"START_FILE", "SEEK"}
                        \/ old # {} /\ Head(mpv.events).name # "END_FILE"
  PROVE  Closing(Rest, opened)
<1>1. /\ Len(Rest.events) = Len(mpv.events) - 1 /\ Len(mpv.events) \in Nat \ {0}
      /\ \A i \in 1 .. Len(Rest.events) : Rest.events[i] = mpv.events[i + 1]
      /\ Head(mpv.events) = mpv.events[1] /\ Rest.run = mpv.run
  BY RestFacts
<1>2. ASSUME NEW n \in 0 .. Len(Rest.events), Wound(mpv.events, old, n + 1)
      PROVE  Wound(Rest.events, opened, n)
  <2>1. ASSUME NEW j \in 2 .. n + 1
        PROVE  j - 1 \in 1 .. n /\ Rest.events[j - 1] = mpv.events[j]
    <3>1. n \in Nat /\ n <= Len(Rest.events) /\ j - 1 \in 1 .. n /\ (j - 1) + 1 = j
      BY <1>1
    <3>2. j - 1 \in 1 .. Len(Rest.events)
      BY <1>1, <3>1
    <3>3. Rest.events[j - 1] = mpv.events[(j - 1) + 1]
      BY <1>1, <3>2
    <3> QED  BY <3>1, <3>3
  <2>2. opened # {} => \E j \in 1 .. n : Rest.events[j].name = "END_FILE"
    <3> SUFFICES ASSUME opened # {} PROVE \E j \in 1 .. n : Rest.events[j].name = "END_FILE"
      OBVIOUS
    <3>1. PICK j \in 1 .. n + 1 : mpv.events[j].name = "END_FILE"
      BY <1>1, <1>2 DEF Wound
    <3>2. j # 1 \/ Head(mpv.events).name \in {"START_FILE", "SEEK"}
      BY <1>1, <3>1
    <3>3. \E i \in 2 .. n + 1 : mpv.events[i].name = "END_FILE"
      <4>1. CASE j # 1
        BY <3>1, <4>1
      <4>2. CASE Head(mpv.events).name \in {"START_FILE", "SEEK"}
        BY <1>1, <1>2, <4>2 DEF Wound
      <4> QED  BY <3>2, <4>1, <4>2
    <3> QED  BY <2>1, <3>3
  <2>3. ASSUME NEW k \in 1 .. n, Rest.events[k].name \in {"START_FILE", "SEEK"}
        PROVE  \E j \in k + 1 .. n : Rest.events[j].name = "END_FILE"
    <3>1. k + 1 \in 1 .. n + 1 /\ mpv.events[k + 1].name \in {"START_FILE", "SEEK"}
      BY <1>1, <1>2, <2>3
    <3>2. PICK j \in k + 2 .. n + 1 : mpv.events[j].name = "END_FILE"
      BY <1>2, <3>1 DEF Wound
    <3>3. j - 1 \in k + 1 .. n /\ Rest.events[j - 1] = mpv.events[j]
      BY <2>1, <3>2
    <3> QED  BY <3>2, <3>3
  <2> QED  BY <2>2, <2>3 DEF Wound
<1>3. ASSUME NEW i \in 1 .. Len(Rest.events), Rest.events[i].name \in {"IDLE", "SHUTDOWN"}
      PROVE  Wound(Rest.events, opened, i - 1)
  <2>1. i + 1 \in 1 .. Len(mpv.events) /\ mpv.events[i + 1].name \in {"IDLE", "SHUTDOWN"}
    BY <1>1, <1>3
  <2>2. Wound(mpv.events, old, (i + 1) - 1)
    BY <2>1 DEF Closing
  <2>3. (i + 1) - 1 = (i - 1) + 1 /\ i - 1 \in 0 .. Len(Rest.events)
    BY <1>1
  <2> QED  BY <1>2, <2>2, <2>3
<1>4. Rest.run # "playing" => Wound(Rest.events, opened, Len(Rest.events))
  <2>1. (Len(mpv.events) - 1) + 1 = Len(mpv.events) /\ Len(Rest.events) \in 0 .. Len(Rest.events)
    BY <1>1
  <2> QED  BY <1>1, <1>2, <2>1 DEF Closing
<1> QED  BY <1>3, <1>4 DEF Closing

\* One more event at the end: an END_FILE ends everything, a file starts or seeks only to be played,
\* and a core that is not playing has come to its end already.
LEMMA ClosingMore ==
  ASSUME NEW core, NEW more, NEW opened, NEW events \in Seq(Events), NEW event \in Events,
         core.events = events, more.events = Append(events, event), Closing(core, opened),
         \/ event.name = "END_FILE"
         \/ more.run = "playing" /\ event.name \notin {"IDLE", "SHUTDOWN"}
         \/ core.run # "playing" /\ event.name \notin {"START_FILE", "SEEK"}
  PROVE  Closing(more, opened)
<1> DEFINE longer == Append(events, event)
           last == Len(events) + 1
<1>1. /\ longer \in Seq(Events) /\ Len(longer) = last /\ Len(events) \in Nat
      /\ \A i \in 1 .. Len(events) : longer[i] = events[i]
      /\ longer[last] = event
  BY AppendProperties, LenProperties
<1> HIDE DEF longer
<1>2. more.events = longer
  BY DEF longer
<1>3. ASSUME NEW n \in 0 .. Len(events), Wound(events, opened, n)
      PROVE  Wound(longer, opened, n)
  <2>1. \A i \in 1 .. n : longer[i] = events[i]
    BY <1>1
  <2>2. \A k \in 1 .. n : \A j \in k + 1 .. n : longer[j] = events[j]
    BY <1>1, <2>1
  <2>3. opened # {} => \E j \in 1 .. n : longer[j].name = "END_FILE"
    BY <1>3, <2>1 DEF Wound
  <2>4. ASSUME NEW k \in 1 .. n, longer[k].name \in {"START_FILE", "SEEK"}
        PROVE  \E j \in k + 1 .. n : longer[j].name = "END_FILE"
    <3>1. events[k].name \in {"START_FILE", "SEEK"}
      BY <2>1, <2>4
    <3>2. PICK j \in k + 1 .. n : events[j].name = "END_FILE"
      BY <1>3, <3>1 DEF Wound
    <3> QED  BY <2>2, <3>2
  <2> QED  BY <2>3, <2>4 DEF Wound
<1>4. CASE event.name = "END_FILE"
  <2>1. Wound(longer, opened, last)
    BY <1>1, <1>4 DEF Wound
  <2>2. ASSUME NEW i \in 1 .. last, longer[i].name \in {"IDLE", "SHUTDOWN"}
        PROVE  Wound(longer, opened, i - 1)
    <3>1. i # last
      BY <1>1, <1>4, <2>2
    <3>2. i \in 1 .. Len(events) /\ i - 1 \in 0 .. Len(events)
      BY <1>1, <3>1
    <3> QED  BY <1>1, <1>3, <2>2, <3>2 DEF Closing
  <2> QED  BY <1>1, <1>2, <2>1, <2>2 DEF Closing
<1>5. CASE more.run = "playing" /\ event.name \notin {"IDLE", "SHUTDOWN"}
  <2>2. ASSUME NEW i \in 1 .. last, longer[i].name \in {"IDLE", "SHUTDOWN"}
        PROVE  Wound(longer, opened, i - 1)
    <3>1. i # last
      BY <1>1, <1>5, <2>2
    <3>2. i \in 1 .. Len(events) /\ i - 1 \in 0 .. Len(events)
      BY <1>1, <3>1
    <3> QED  BY <1>1, <1>3, <2>2, <3>2 DEF Closing
  <2> QED  BY <1>1, <1>2, <1>5, <2>2 DEF Closing
<1>6. CASE core.run # "playing" /\ event.name \notin {"START_FILE", "SEEK", "END_FILE"}
  <2>1. Wound(events, opened, Len(events)) /\ Len(events) \in 0 .. Len(events)
    BY <1>1, <1>6 DEF Closing
  <2>2. Wound(longer, opened, last)
    <3>1. Wound(longer, opened, Len(events))
      BY <1>3, <2>1
    <3>2. /\ \A k \in 1 .. last : k \in 1 .. Len(events) \/ k = last
          /\ \A k \in 1 .. Len(events) : \A j \in k + 1 .. Len(events) : j \in k + 1 .. last
          /\ \A j \in 1 .. Len(events) : j \in 1 .. last
      BY <1>1
    <3> QED  BY <1>1, <1>6, <3>1, <3>2 DEF Wound
  <2>3. ASSUME NEW i \in 1 .. last, longer[i].name \in {"IDLE", "SHUTDOWN"}
        PROVE  Wound(longer, opened, i - 1)
    <3>1. CASE i = last
      <4>1. i - 1 = Len(events)
        BY <1>1, <3>1
      <4> QED  BY <1>3, <2>1, <4>1
    <3>2. CASE i # last
      <4>1. i \in 1 .. Len(events) /\ i - 1 \in 0 .. Len(events)
        BY <1>1, <3>2
      <4> QED  BY <1>1, <1>3, <2>3, <4>1 DEF Closing
    <3> QED  BY <3>1, <3>2
  <2> QED  BY <1>1, <1>2, <2>2, <2>3 DEF Closing
<1> QED  BY <1>4, <1>5, <1>6

\* The front event has been handled, and was not the seek.
LEMMA SeekFirstRest ==
  ASSUME IInv, mpv # NULL, mpv.events # <<>>, SeekFirst(mpv), Head(mpv.events).name # "SEEK"
  PROVE  SeekFirst(Rest)
<1>1. /\ Len(Rest.events) = Len(mpv.events) - 1 /\ Len(mpv.events) \in Nat \ {0}
      /\ \A i \in 1 .. Len(Rest.events) : Rest.events[i] = mpv.events[i + 1]
      /\ Head(mpv.events) = mpv.events[1]
  BY RestFacts
<1>2. /\ Rest.run = mpv.run /\ Rest.load = mpv.load /\ Rest.start = mpv.start /\ Rest.seek = mpv.seek
  <2>1. mpv \in Cores
    BY Running
  <2> QED  BY <2>1 DEF Rest, Cores
<1>3. ASSUME NEW n \in 0 .. Len(Rest.events), \E j \in 1 .. n + 1 : mpv.events[j].name = "SEEK"
      PROVE  \E j \in 1 .. n : Rest.events[j].name = "SEEK"
  <2>1. PICK j \in 1 .. n + 1 : mpv.events[j].name = "SEEK"
    BY <1>3
  <2>2. j # 1
    BY <1>1, <2>1
  <2>3. j - 1 \in 1 .. n /\ j - 1 \in 1 .. Len(Rest.events) /\ (j - 1) + 1 = j
    BY <1>1, <2>2
  <2>4. Rest.events[j - 1] = mpv.events[(j - 1) + 1]
    BY <1>1, <2>3
  <2> QED  BY <2>1, <2>3, <2>4
<1>4. ASSUME NEW i \in 1 .. Len(Rest.events), Rest.events[i].name = "END_FILE"
      PROVE  \E j \in 1 .. i - 1 : Rest.events[j].name = "SEEK"
  <2>1. i + 1 \in 1 .. Len(mpv.events) /\ mpv.events[i + 1].name = "END_FILE"
    BY <1>1, <1>4
  <2>2. \E j \in 1 .. (i + 1) - 1 : mpv.events[j].name = "SEEK"
    BY <2>1 DEF SeekFirst
  <2>3. (i + 1) - 1 = (i - 1) + 1 /\ i - 1 \in 0 .. Len(Rest.events)
    BY <1>1
  <2> QED  BY <1>3, <2>2, <2>3
<1>5. Due(Rest) \/ \E j \in 1 .. Len(Rest.events) : Rest.events[j].name = "SEEK"
  <2>1. Due(mpv) => Due(Rest)
    BY <1>2, Zenon DEF Due
  <2>2. (Len(mpv.events) - 1) + 1 = Len(mpv.events) /\ Len(Rest.events) \in 0 .. Len(Rest.events)
    BY <1>1
  <2> QED  BY <1>1, <1>3, <2>1, <2>2 DEF SeekFirst
<1> QED  BY <1>4, <1>5 DEF SeekFirst

\* One more event at the end: a file ends only if the seek is not due.
LEMMA SeekFirstMore ==
  ASSUME NEW core, NEW more, NEW events \in Seq(Events), NEW event \in Events,
         core.events = events, more.events = Append(events, event), SeekFirst(core),
         Due(core) => event.name # "END_FILE" /\ (Due(more) \/ event.name = "SEEK")
  PROVE  SeekFirst(more)
<1> DEFINE longer == Append(events, event)
           last == Len(events) + 1
<1>1. /\ Len(longer) = last /\ Len(events) \in Nat
      /\ \A i \in 1 .. Len(events) : longer[i] = events[i]
      /\ longer[last] = event
  BY AppendProperties, LenProperties
<1> HIDE DEF longer
<1>2. more.events = longer
  BY DEF longer
<1>3. ~ Due(core) => \E j \in 1 .. Len(events) : longer[j].name = "SEEK"
  BY <1>1 DEF SeekFirst
<1>4. ASSUME NEW i \in 1 .. last, longer[i].name = "END_FILE"
      PROVE  \E j \in 1 .. i - 1 : longer[j].name = "SEEK"
  <2>1. CASE i = last
    <3>1. i - 1 = Len(events)
      BY <1>1, <2>1
    <3> QED  BY <1>1, <1>3, <1>4, <2>1, <3>1
  <2>2. CASE i # last
    <3>1. i \in 1 .. Len(events) /\ i - 1 <= Len(events)
      BY <1>1, <2>2
    <3>2. PICK j \in 1 .. i - 1 : events[j].name = "SEEK"
      BY <1>1, <1>4, <3>1 DEF SeekFirst
    <3>3. j \in 1 .. Len(events)
      BY <1>1, <3>1
    <3> QED  BY <1>1, <3>2, <3>3
  <2> QED  BY <2>1, <2>2
<1>5. Due(more) \/ \E j \in 1 .. last : longer[j].name = "SEEK"
  <2>1. last \in 1 .. last /\ \A j \in 1 .. Len(events) : j \in 1 .. last
    BY <1>1
  <2> QED  BY <1>1, <1>3, <2>1
<1> QED  BY <1>1, <1>2, <1>4, <1>5 DEF SeekFirst

\* An event that changes nothing but the state.
LEMMA BecomesSessions ==
  ASSUME IInv, Sessions, NEW name, Receives(name), NEW s \in PlaybackStates, Becomes(s),
         open' \subseteq {now_playing}, s = "SEEKING" => open' = {},
         s = "START_MARK" => state = "START_MARK" /\ name # "SEEK",
         open' # {} => name = "START_FILE" \/ (open # {} /\ name # "END_FILE")
  PROVE  Sessions'
<1>1. /\ mpv' = Rest /\ state' = s /\ UNCHANGED now_playing /\ s # "MENU_UI"
  BY DEF Becomes, PlaybackStates
<1>2. mpv # NULL /\ mpv.events # <<>> /\ Head(mpv.events).name = name /\ Rest # NULL
  BY Received, NullAssumption
<1>3. Closing(Rest, open')
  BY <1>2, ClosingRest DEF Sessions
<1>4. s = "START_MARK" => ~ Marks \subseteq {"none"} /\ SeekFirst(Rest)
  BY <1>2, SeekFirstRest DEF Sessions
<1> QED  BY <1>1, <1>2, <1>3, <1>4 DEF Sessions

\* A core that has done nothing yet.
LEMMA FreshClosing ==
  ASSUME NEW core, Fresh(core)
  PROVE  Closing(core, {})
<1>1. CASE core.events = <<>>
  <2>1. Len(core.events) = 0
    BY <1>1, EmptySeq
  <2> QED  BY <2>1 DEF Closing, Wound
<1>2. CASE core.events = <<Event("IDLE")>>
  <2>1. Len(core.events) = 1 /\ core.events[1] = Event("IDLE")
    BY <1>2
  <2>2. core.events[1].name = "IDLE"
    BY <2>1 DEF Event
  <2>3. \A i \in 1 .. 1 : core.events[i].name = "IDLE" /\ i - 1 = 0
    BY <2>2
  <2>4. Wound(core.events, {}, 0) /\ Wound(core.events, {}, 1)
    BY <2>3 DEF Wound
  <2> QED  BY <2>1, <2>3, <2>4 DEF Closing
<1> QED  BY <1>1, <1>2 DEF Fresh

\* The core an item is loaded in, when no session is open.
LEMMA GivenClosing ==
  ASSUME NEW core \in Cores, Len(core.events) <= MaxEvents, NEW item \in Items,
         NEW o, o.start \in BOOLEAN, o.mpv # "none", NEW given \in CoresAfter(core, item, o),
         Closing(core, {})
  PROVE  Closing(given, {})
<1>1. CASE o.mpv = "new"
  BY <1>1, Given, FreshClosing
<1>2. CASE o.mpv # "new"
  <2>1. given.events = core.events /\ given.run = core.run
    BY <1>2, Given
  <2> QED  BY <2>1 DEF Closing
<1> QED  BY <1>1, <1>2

\* An item is played, or is not, with no session open; from its mark, in a new core.
LEMMA PlaySessions ==
  ASSUME IInv, PlainSessions, Marked, NEW s \in {"INIT", "SEEKING"}, NEW pos \in Items,
         NEW o \in PlayItem(playlist[pos], s), NEW core \in Cores, Len(core.events) <= MaxEvents,
         NEW failed \in {"MENU_UI", "STOPPING"}, s = "INIT" => core \in NewCores,
         Play(o, core, pos, IF o.ok THEN o.state ELSE failed), Closing(core, {}), open' = {}
  PROVE  Sessions'
<1> DEFINE item == playlist[pos]
<1>1. item \in Items /\ item # NULL /\ o.start \in BOOLEAN
  BY Outcomes, NullAssumption DEF IInv, TypeOK
<1>2. \/ o = Failure
      \/ \E c \in {"same", "new"} : o = Played(s, c, FALSE)
      \/ /\ ~ Marks \subseteq {"none"}
         /\ o = Played("START_MARK", IF s = "SEEKING" THEN "new" ELSE "same", TRUE)
  BY <1>1, PlainOutcomes
<1>3. mpv' \in CoresAfter(core, item, o) /\ state' = IF o.ok THEN o.state ELSE failed
  BY DEF Play
<1>4. o.mpv # "none" => mpv' # NULL /\ Closing(mpv', {}) /\ mpv'.load = item
  <2> HIDE DEF item
  <2> QED  BY <1>1, <1>3, Given, GivenClosing
<1>5. CASE o = Failure
  <2>1. ~ o.ok /\ o.mpv = "none"
    BY <1>5 DEF Failure
  <2>2. mpv' = NULL /\ state' = failed
    BY <1>3, <2>1 DEF CoresAfter
  <2> QED  BY <2>2 DEF Sessions
<1>6. CASE \E c \in {"same", "new"} : o = Played(s, c, FALSE)
  <2>1. o.ok /\ o.mpv \in {"same", "new"} /\ o.state = s
    BY <1>6 DEF Played
  <2> QED  BY <1>3, <1>4, <2>1 DEF Sessions
<1>7. CASE /\ ~ Marks \subseteq {"none"}
           /\ o = Played("START_MARK", IF s = "SEEKING" THEN "new" ELSE "same", TRUE)
  <2>1. /\ o.ok /\ o.state = "START_MARK" /\ o.start = TRUE /\ o.mpv # "none"
        /\ o.mpv = IF s = "SEEKING" THEN "new" ELSE "same"
    BY <1>7 DEF Played
  <2>2. Fresh(mpv') /\ mpv'.start = TRUE
    <3>1. CASE o.mpv = "new"
      <4> HIDE DEF item
      <4> QED  BY <1>1, <1>3, <2>1, <3>1, Given
    <3>2. CASE o.mpv # "new"
      <4>1. core \in NewCores /\ Fresh(core)
        BY <2>1, <3>2, NewCoreFacts
      <4>2. /\ mpv'.file = core.file /\ mpv'.seek = core.seek /\ mpv'.loop = core.loop /\ mpv'.told = core.told
            /\ mpv'.run = core.run /\ mpv'.events = core.events /\ mpv'.start = (core.start \/ o.start)
        <5> HIDE DEF item
        <5> QED  BY <1>1, <1>3, <2>1, <3>2, Given
      <4> QED  BY <2>1, <4>1, <4>2 DEF Fresh
    <3> QED  BY <3>1, <3>2
  <2>3. Due(mpv')
    BY <1>1, <1>4, <2>1, <2>2 DEF Fresh, Due
  <2>4. \A i \in 1 .. Len(mpv'.events) : mpv'.events[i].name = "IDLE"
    <3>1. CASE mpv'.events = <<>>
      <4>1. Len(mpv'.events) = 0
        BY <3>1, EmptySeq
      <4> QED  BY <4>1
    <3>2. CASE mpv'.events = <<Event("IDLE")>>
      <4>1. Len(mpv'.events) = 1 /\ mpv'.events[1] = Event("IDLE")
        BY <3>2
      <4>2. mpv'.events[1].name = "IDLE"
        BY <4>1 DEF Event
      <4> QED  BY <4>1, <4>2
    <3> QED  BY <2>2, <3>1, <3>2 DEF Fresh
  <2>5. SeekFirst(mpv')
    BY <2>3, <2>4 DEF SeekFirst
  <2> QED  BY <1>3, <1>4, <1>7, <2>1, <2>5 DEF Sessions
<1> QED  BY <1>2, <1>5, <1>6, <1>7

\* The core without its front event, when that leaves no session open.
LEMMA RestClosing ==
  ASSUME IInv, NEW name, Receives(name), NEW old, Closing(mpv, old), NEW core \in {Rest, Skipped}
  PROVE  /\ core \in Cores /\ Len(core.events) <= MaxEvents /\ Closing(core, {})
<1>1. mpv # NULL /\ mpv.events # <<>> /\ Rest \in Cores /\ Len(Rest.events) <= MaxEvents
  BY Received
<1>2. Closing(Rest, {})
  BY <1>1, ClosingRest
<1>3. /\ Skipped \in Cores /\ Skipped.events = Rest.events /\ Skipped.run = Rest.run
  BY <1>1, SkippedFacts
<1>4. Closing(Skipped, {})
  BY <1>2, <1>3 DEF Closing
<1> QED  BY <1>1, <1>2, <1>3, <1>4

LEMMA NextSessions ==
  ASSUME IInv, Sessions, PlainSessions, Marked, NEW name, Receives(name), NEW core \in {Rest, Skipped},
         NEW failed \in {"MENU_UI", "STOPPING"}, JfPlaybackNext(core, failed), open' = {}
  PROVE  Sessions'
<1> DEFINE pos == NextPosition(playlist_position, Count)
<1>1. pos \in Items /\ mpv # NULL
  BY Received, Steps
<1>2. PICK o \in PlayItem(playlist[pos], "SEEKING") :
        Play(o, core, pos, IF o.ok THEN o.state ELSE failed)
  BY DEF JfPlaybackNext
<1>3. core \in Cores /\ Len(core.events) <= MaxEvents /\ Closing(core, {})
  BY <1>1, RestClosing DEF Sessions
<1> HIDE DEF pos
<1> QED  BY <1>1, <1>2, <1>3, PlaySessions

LEMMA DispatchSessions ==
  ASSUME IInv, Sessions, PlainSessions, Marked, Dispatch
  PROVE  Sessions'
<1>1. /\ state \in PlaybackStates /\ mpv # NULL
      /\ open \subseteq {now_playing} /\ (state = "SEEKING" => open = {})
  BY DEF Sessions, Dispatch, MessageNext, MessagePrevious, MessageShuffle, StartFile, EndOfFile, Seek, Idle,
         Shutdown, LoopChange, Receives
<1>2. CASE MessageNext
  <2>1. Receives("next") /\ open' = {}
    BY <1>1, <1>2 DEF MessageNext
  <2>2. CASE Moves
    BY <1>2, <2>1, <2>2, NextSessions DEF MessageNext
  <2>3. CASE ~ Moves
    BY <1>1, <1>2, <2>1, <2>3, BecomesSessions DEF MessageNext
  <2> QED  BY <2>2, <2>3
<1>3. CASE MessagePrevious
  <2> DEFINE pos == PreviousPosition(playlist_position, Count)
  <2>1. Receives("prev") /\ open' = {}
    BY <1>1, <1>3 DEF MessagePrevious
  <2>2. pos \in Items /\ Rest \in Cores /\ mpv # NULL /\ mpv.events # <<>>
    BY <2>1, Received, Steps
  <2>3. CASE PreviousMoves(playlist_position, playlist_loops)
    <3>1. PICK o \in PlayItem(playlist[pos], "SEEKING") : Play(o, Skipped, pos, o.state)
      BY <1>3, <2>3 DEF MessagePrevious
    <3>2. Skipped \in Cores /\ Len(Skipped.events) <= MaxEvents /\ Closing(Skipped, {})
      BY <2>1, <2>2, RestClosing DEF Sessions
    <3>3. ~ o.ok => o.state = "MENU_UI"
      BY Outcomes
    <3>4. Play(o, Skipped, pos, IF o.ok THEN o.state ELSE "MENU_UI")
      BY <3>1, <3>3
    <3> HIDE DEF pos
    <3> QED  BY <2>1, <2>2, <3>1, <3>2, <3>4, PlaySessions
  <2>4. CASE ~ PreviousMoves(playlist_position, playlist_loops)
    BY <1>1, <1>3, <2>1, <2>4, BecomesSessions DEF MessagePrevious
  <2> QED  BY <2>3, <2>4
<1>4. CASE MessageShuffle
  BY <1>1, <1>4, BecomesSessions DEF MessageShuffle
<1>5. CASE StartFile
  <2> DEFINE s == IF state \in {"INIT", "SEEKING"} THEN "PLAYBACK" ELSE state
  <2>1. /\ Receives("START_FILE") /\ Becomes(s) /\ s \in PlaybackStates
        /\ s # "SEEKING" /\ open' \subseteq {now_playing} /\ (s = "START_MARK" => state = "START_MARK")
    BY <1>1, <1>5 DEF StartFile, PlaybackStates
  <2> HIDE DEF s
  <2> QED  BY <2>1, BecomesSessions
<1>6. CASE EndOfFile
  <2>0. state # "START_MARK"
    <3> SUFFICES ASSUME state = "START_MARK" PROVE FALSE
      OBVIOUS
    <3>1. /\ mpv.events # <<>> /\ Head(mpv.events).name = "END_FILE"
          /\ Head(mpv.events) = mpv.events[1] /\ Len(mpv.events) \in Nat \ {0}
      BY <1>1, <1>6, RestFacts DEF EndOfFile, Receives
    <3>2. \E j \in 1 .. 1 - 1 : mpv.events[j].name = "SEEK"
      BY <3>1 DEF Sessions, SeekFirst
    <3> QED  BY <3>2
  <2>1. Receives("END_FILE") /\ open' = {}
    BY <1>1, <1>6, <2>0 DEF EndOfFile
  <2>2. CASE Head(mpv.events).reason = "eof" /\ Moves
    BY <1>6, <2>1, <2>2, NextSessions DEF EndOfFile
  <2>3. CASE ~ (Head(mpv.events).reason = "eof" /\ Moves)
    <3>1. Becomes("STOPPING") /\ "STOPPING" \in PlaybackStates
      BY <1>6, <2>3 DEF EndOfFile, PlaybackStates
    <3> QED  BY <2>1, <3>1, BecomesSessions
  <2> QED  BY <2>2, <2>3
<1>7. CASE Seek
  <2>1. Receives("SEEK") /\ UNCHANGED <<now_playing, playlist_position>>
    BY <1>7 DEF Seek
  <2>2. CASE state # "START_MARK"
    <3>1. mpv' = Rest /\ UNCHANGED <<open, state>>
      BY <1>7, <2>2 DEF Seek
    <3>2. Becomes(state)
      BY <2>1, <3>1 DEF Becomes
    <3> QED  BY <1>1, <2>1, <2>2, <3>1, <3>2, BecomesSessions
  <2>3. CASE state = "START_MARK"
    <3>1. mpv' = [Rest EXCEPT !.start = FALSE] /\ open' = open \cup {now_playing} /\ state' = "PLAYBACK"
      BY <1>7, <2>3 DEF Seek
    <3>2. Rest \in Cores /\ mpv.events # <<>> /\ Head(mpv.events).name = "SEEK"
      BY <2>1, Received
    <3>3. Closing(Rest, open')
      BY <1>1, <3>2, ClosingRest DEF Sessions
    <3>4. mpv'.events = Rest.events /\ mpv'.run = Rest.run /\ mpv' \in Cores
      BY <3>1, <3>2 DEF Cores
    <3>5. Closing(mpv', open')
      BY <3>3, <3>4 DEF Closing
    <3>6. open' \subseteq {now_playing'}
      BY <1>1, <2>1, <3>1
    <3>7. mpv' # NULL
      BY <3>4, NullAssumption
    <3> QED  BY <3>1, <3>5, <3>6, <3>7 DEF Sessions
  <2> QED  BY <2>2, <2>3
\* What comes first in the queue says that nothing is open.
<1>8. ASSUME Receives("IDLE") \/ Receives("SHUTDOWN")
      PROVE  open = {}
  <2>1. /\ mpv.events # <<>> /\ Head(mpv.events).name \in {"IDLE", "SHUTDOWN"}
        /\ Head(mpv.events) = mpv.events[1] /\ Len(mpv.events) \in Nat \ {0}
    BY <1>1, <1>8, RestFacts DEF Receives
  <2>2. Wound(mpv.events, open, 1 - 1)
    BY <1>1, <2>1 DEF Sessions, Closing
  <2> QED  BY <2>2 DEF Wound
<1>9. CASE Idle
  <2>1. Receives("IDLE") /\ open' = {} /\ open = {}
    BY <1>8, <1>9 DEF Idle
  <2>2. End \/ Becomes("PLAYBACK") \/ Becomes(state)
    BY <1>9 DEF Idle
  <2>3. CASE End
    BY <2>1, <2>3 DEF End, Sessions
  <2>4. "PLAYBACK" \in PlaybackStates
    BY DEF PlaybackStates
  <2> QED  BY <1>1, <2>1, <2>2, <2>3, <2>4, BecomesSessions
<1>10. CASE Shutdown
  <2>1. open' = {}
    BY <1>8, <1>10 DEF Shutdown
  <2> QED  BY <1>10, <2>1 DEF Shutdown, End, Sessions
<1>11. CASE LoopChange
  <2>1. /\ mpv' \in {[mpv EXCEPT !.told = mpv.loop], [mpv EXCEPT !.told = mpv.loop, !.loop = playlist_loops],
                  [mpv EXCEPT !.told = mpv.loop, !.disturbed = FALSE]}
        /\ UNCHANGED <<state, now_playing, open>>
    BY <1>11 DEF LoopChange, IInv, TypeOK
  <2>2. /\ mpv' # NULL /\ mpv'.events = mpv.events /\ mpv'.run = mpv.run
        /\ mpv'.load = mpv.load /\ mpv'.start = mpv.start /\ mpv'.seek = mpv.seek
    BY <1>1, <1>11, <2>1, LoopChangeInv, Running DEF Cores
  <2>3. Closing(mpv', open')
    BY <1>1, <2>1, <2>2 DEF Sessions, Closing
  <2>4. SeekFirst(mpv) => SeekFirst(mpv')
    <3>1. Due(mpv) => Due(mpv')
      BY <2>2, Zenon DEF Due
    <3> QED  BY <2>2, <3>1 DEF SeekFirst
  <2> QED  BY <1>1, <2>1, <2>2, <2>3, <2>4 DEF Sessions
<1> QED  BY <1>2, <1>3, <1>4, <1>5, <1>6, <1>7, <1>9, <1>10, <1>11 DEF Dispatch

\* A file that ends says so.
LEMMA FileEnds ==
  ASSUME mpv \in Cores, CoreEof \/ CoreStop \/ CoreError
  PROVE  \E reason \in {"eof", "stop", "error"} : mpv'.events = Append(mpv.events, EndFile(reason))
<1>1. CASE CoreEof
  <2> DEFINE core == [mpv EXCEPT !.run = "ended", !.file = IF mpv.loop \in {0, 1} THEN NULL ELSE @,
                            !.loop = IF @ > 1 THEN @ - 1 ELSE @, !.disturbed = Recounted]
  <2>1. mpv' = [core EXCEPT !.events = Append(@, EndFile("eof"))]
    BY <1>1 DEF CoreEof, Emit
  <2>2. core.events = mpv.events /\ "events" \in DOMAIN core
    BY DEF Cores
  <2> HIDE DEF core
  <2>3. mpv'.events = Append(mpv.events, EndFile("eof"))
    BY <2>1, <2>2
  <2> QED  BY <2>3
<1>2. CASE CoreStop \/ CoreError
  <2> DEFINE core == [mpv EXCEPT !.run = "ended", !.file = NULL, !.seek = FALSE]
  <2>1. PICK reason \in {"stop", "error"} : mpv' = [core EXCEPT !.events = Append(@, EndFile(reason))]
    BY <1>2 DEF CoreStop, CoreError, Emit
  <2>2. core.events = mpv.events /\ "events" \in DOMAIN core
    BY DEF Cores
  <2> HIDE DEF core
  <2>3. mpv'.events = Append(mpv.events, EndFile(reason))
    BY <2>1, <2>2
  <2> QED  BY <2>3
<1> QED  BY <1>1, <1>2

\* What the core and its user add to the queue while a file is on its way to its mark.
LEMMA CoreSeekFirst ==
  ASSUME IInv, mpv # NULL, SeekFirst(mpv), PlainSessions, state = "START_MARK", Core \/ User, MarkReached
  PROVE  SeekFirst(mpv')
<1>1. mpv \in Cores /\ mpv.events \in Seq(Events)
  BY Running
<1>2. ASSUME NEW event \in Events, mpv'.events = Append(mpv.events, event),
             Due(mpv) => event.name # "END_FILE" /\ (Due(mpv') \/ event.name = "SEEK")
      PROVE  SeekFirst(mpv')
  BY <1>1, <1>2, SeekFirstMore
<1>3. /\ Event("IDLE") \in Events /\ Event("START_FILE") \in Events /\ Event("SEEK") \in Events
      /\ Event("SHUTDOWN") \in Events /\ \A reason \in {"eof", "stop", "error", "quit"} : EndFile(reason) \in Events
      /\ \A c \in Controls : Event(c) \in Events /\ c # "END_FILE"
  BY EventTypes, ControlsAssumption
<1>4. \A name : Event(name).name = name
  BY DEF Event
<1>5. CASE CoreIdle
  <2>1. mpv' = [[mpv EXCEPT !.run = "idle"] EXCEPT !.events = Append(@, Event("IDLE"))]
        /\ mpv.run = "ended" /\ mpv.load = NULL
    BY <1>5 DEF CoreIdle, Emit
  <2>2. mpv'.events = Append(mpv.events, Event("IDLE")) /\ ~ Due(mpv)
    BY <1>1, <2>1 DEF Cores, Due
  <2> QED  BY <1>2, <1>3, <2>2
<1>6. CASE CoreStart
  <2>1. /\ mpv' = [[mpv EXCEPT !.run = "playing", !.file = mpv.load, !.load = NULL, !.seek = mpv.start]
                    EXCEPT !.events = Append(@, Event("START_FILE"))]
        /\ mpv.run \in {"created", "idle", "ended"}
    BY <1>6 DEF CoreStart, Emit
  <2>2. /\ mpv'.events = Append(mpv.events, Event("START_FILE")) /\ mpv'.run = "playing"
        /\ mpv'.load = NULL /\ mpv'.seek = mpv.start
    BY <1>1, <2>1 DEF Cores
  <2>3. Due(mpv) => Due(mpv')
    BY <2>1, <2>2 DEF Due
  <2> QED  BY <1>2, <1>3, <1>4, <2>2, <2>3
<1>7. CASE CoreLoop
  <2>1. /\ mpv' = [[mpv EXCEPT !.run = "playing"] EXCEPT !.events = Append(@, Event("START_FILE"))]
        /\ mpv.run = "ended"
    BY <1>7 DEF CoreLoop, Emit
  <2>2. mpv'.events = Append(mpv.events, Event("START_FILE")) /\ ~ Due(mpv)
    BY <1>1, <2>1 DEF Cores, Due
  <2> QED  BY <1>2, <1>3, <2>2
<1>8. CASE CoreSeek
  <2>1. mpv' = [[mpv EXCEPT !.seek = FALSE] EXCEPT !.events = Append(@, Event("SEEK"))]
    BY <1>8 DEF CoreSeek, Emit
  <2>2. mpv'.events = Append(mpv.events, Event("SEEK"))
    BY <1>1, <2>1 DEF Cores
  <2> QED  BY <1>2, <1>3, <1>4, <2>2
<1>9. CASE CoreEof \/ CoreStop \/ CoreError
  <2>1. ~ Due(mpv)
    BY <1>9 DEF CoreEof, CoreStop, CoreError, MarkReached, Due
  <2>2. PICK reason \in {"eof", "stop", "error"} : mpv'.events = Append(mpv.events, EndFile(reason))
    BY <1>1, <1>9, FileEnds
  <2> QED  BY <1>2, <1>3, <2>1, <2>2
<1>10. CASE UserControl
  <2>1. PICK c \in Controls : mpv' = [mpv EXCEPT !.events = Append(@, Event(c))]
    BY <1>10 DEF UserControl
  <2>2. /\ mpv'.events = Append(mpv.events, Event(c)) /\ mpv'.run = mpv.run /\ mpv'.load = mpv.load
        /\ mpv'.start = mpv.start /\ mpv'.seek = mpv.seek
    BY <1>1, <2>1 DEF Cores
  <2>3. Due(mpv) => Due(mpv')
    BY <2>2, Zenon DEF Due
  <2> QED  BY <1>2, <1>3, <1>4, <2>2, <2>3
<1>11. CASE UserLoop
  <2>1. PICK n \in LoopValues : mpv' = [mpv EXCEPT !.loop = n, !.disturbed = Recounted]
    BY <1>11 DEF UserLoop
  <2>2. /\ mpv'.events = mpv.events /\ mpv'.run = mpv.run /\ mpv'.load = mpv.load
        /\ mpv'.start = mpv.start /\ mpv'.seek = mpv.seek
    BY <1>1, <2>1 DEF Cores
  <2>3. Due(mpv) => Due(mpv')
    BY <2>2, Zenon DEF Due
  <2> QED  BY <2>2, <2>3 DEF SeekFirst
<1>12. CASE UserQuit
  <2> DEFINE gone == Event("SHUTDOWN")
             end == EndFile("quit")
  <2>1. gone \in Events /\ gone.name = "SHUTDOWN" /\ end \in Events
    BY <1>3, <1>4
  <2>2. PICK ends \in {<<>>, <<end>>} :
          /\ ends # <<>> => mpv.run = "playing"
          /\ mpv' = [mpv EXCEPT !.run = "dead", !.load = NULL,
                                !.events = @ \o ends \o <<gone>>]
    BY <1>12 DEF UserQuit
  <2> HIDE DEF gone, end
  <2>3. mpv'.run = "dead" /\ mpv'.events = mpv.events \o ends \o <<gone>> /\ Due(mpv')
    <3>1. mpv'.run = "dead" /\ mpv'.events = mpv.events \o ends \o <<gone>>
      BY <1>1, <2>2 DEF Cores
    <3> QED  BY <3>1 DEF Due
  <2>4. CASE ends = <<>>
    <3>1. mpv'.events = Append(mpv.events, gone)
      <4>1. mpv.events \o <<>> = mpv.events
        BY <1>1, ConcatEmptySeq
      <4>2. mpv.events \o <<gone>> = Append(mpv.events, gone)
        BY <1>1, <2>1, AppendIsConcat
      <4> QED  BY <2>3, <2>4, <4>1, <4>2
    <3> QED  BY <1>2, <2>1, <2>3, <3>1
  <2>5. CASE ends = <<end>>
    <3> DEFINE core == [mpv EXCEPT !.run = "dead", !.events = Append(@, end)]
    <3>1. core.events = Append(mpv.events, end) /\ core.run = "dead"
      BY <1>1 DEF Cores
    <3>2. mpv.events \o <<end>> = Append(mpv.events, end)
      BY <1>1, <2>1, AppendIsConcat
    <3>3. Append(mpv.events, end) \in Seq(Events)
      BY <1>1, <2>1, AppendProperties
    <3>4. Append(mpv.events, end) \o <<gone>> = Append(Append(mpv.events, end), gone)
      BY <2>1, <3>3, AppendIsConcat
    <3>5. mpv'.events = Append(core.events, gone)
      BY <2>3, <2>5, <3>1, <3>2, <3>4
    <3> HIDE DEF core
    <3>6. ~ Due(mpv)
      <4>1. mpv.run = "playing"
        BY <2>2, <2>5
      <4>2. ~ mpv.seek
        BY <1>12 DEF MarkReached
      <4> QED  BY <4>1, <4>2 DEF Due
    <3>7. SeekFirst(core)
      BY <1>1, <2>1, <3>1, <3>6, SeekFirstMore
    <3> QED  BY <2>1, <2>3, <3>1, <3>3, <3>5, <3>7, SeekFirstMore
  <2> QED  BY <2>2, <2>4, <2>5
<1> QED  BY <1>5, <1>6, <1>7, <1>8, <1>9, <1>10, <1>11, <1>12 DEF Core, User

\* What the core and its user add to the queue leaves every session, and any set of them, to be
\* closed.
LEMMA CoreClosing ==
  ASSUME IInv, mpv # NULL, ~ Aborts, Core \/ User, NEW opened, Closing(mpv, opened)
  PROVE  Closing(mpv', opened)
<1>1. mpv \in Cores /\ mpv.events \in Seq(Events) /\ Len(mpv.events) \in Nat
  BY Running, LenProperties
<1>2. ASSUME NEW event \in Events, mpv'.events = Append(mpv.events, event),
             \/ event.name = "END_FILE"
             \/ mpv'.run = "playing" /\ event.name \notin {"IDLE", "SHUTDOWN"}
             \/ mpv.run # "playing" /\ event.name \notin {"START_FILE", "SEEK"}
      PROVE  Closing(mpv', opened)
  BY <1>1, <1>2, ClosingMore
<1>3. CASE CoreIdle
  <2>1. mpv' = [[mpv EXCEPT !.run = "idle"] EXCEPT !.events = Append(@, Event("IDLE"))]
        /\ mpv.run = "ended"
    BY <1>3 DEF CoreIdle, Emit
  <2>2. mpv'.events = Append(mpv.events, Event("IDLE")) /\ Event("IDLE").name = "IDLE"
    BY <1>1, <2>1 DEF Cores, Event
  <2>3. Event("IDLE") \in Events
    BY EventTypes
  <2> QED  BY <1>2, <2>1, <2>2, <2>3
<1>4. CASE CoreStart \/ CoreLoop
  <2>1. \E core \in {[mpv EXCEPT !.run = "playing", !.file = mpv.load, !.load = NULL, !.seek = mpv.start],
                     [mpv EXCEPT !.run = "playing"]} :
          mpv' = [core EXCEPT !.events = Append(@, Event("START_FILE"))]
    BY <1>4 DEF CoreStart, CoreLoop, Emit
  <2>2. mpv'.events = Append(mpv.events, Event("START_FILE")) /\ mpv'.run = "playing"
    <3>1. PICK core \in {[mpv EXCEPT !.run = "playing", !.file = mpv.load, !.load = NULL, !.seek = mpv.start],
                         [mpv EXCEPT !.run = "playing"]} :
            mpv' = [core EXCEPT !.events = Append(@, Event("START_FILE"))]
      BY <2>1
    <3>2. core.events = mpv.events /\ core.run = "playing" /\ {"events", "run"} \subseteq DOMAIN core
      BY <1>1 DEF Cores
    <3> QED  BY <3>1, <3>2
  <2>4. Event("START_FILE").name = "START_FILE"
    BY DEF Event
  <2>3. Event("START_FILE") \in Events
    BY EventTypes
  <2> QED  BY <1>2, <2>2, <2>3, <2>4
<1>5. CASE CoreSeek
  <2>1. mpv' = [[mpv EXCEPT !.seek = FALSE] EXCEPT !.events = Append(@, Event("SEEK"))]
        /\ mpv.run = "playing"
    BY <1>5 DEF CoreSeek, Emit
  <2>2. /\ mpv'.events = Append(mpv.events, Event("SEEK")) /\ mpv'.run = "playing"
        /\ Event("SEEK").name = "SEEK"
    BY <1>1, <2>1 DEF Cores, Event
  <2>3. Event("SEEK") \in Events
    BY EventTypes
  <2> QED  BY <1>2, <2>2, <2>3
<1>6. CASE CoreEof \/ CoreStop \/ CoreError
  <2>1. PICK reason \in {"eof", "stop", "error"} : mpv'.events = Append(mpv.events, EndFile(reason))
    BY <1>1, <1>6, FileEnds
  <2>2. EndFile(reason).name = "END_FILE"
    BY DEF EndFile
  <2>3. EndFile(reason) \in Events
    BY EventTypes
  <2> QED  BY <1>2, <2>1, <2>2, <2>3
<1>7. CASE UserControl
  <2>1. PICK c \in Controls : mpv' = [mpv EXCEPT !.events = Append(@, Event(c))]
    BY <1>7 DEF UserControl
  <2>2. c \in {"next", "prev", "shuffle"}
    BY ControlsAssumption
  <2>3. /\ mpv'.events = Append(mpv.events, Event(c)) /\ mpv'.run = mpv.run /\ Event(c).name = c
    BY <1>1, <2>1 DEF Cores, Event
  <2>4. Event(c) \in Events
    BY <2>2, EventTypes
  <2>5. CASE mpv.run = "playing"
    BY <1>2, <2>2, <2>3, <2>4, <2>5
  <2>6. CASE mpv.run # "playing"
    BY <1>2, <2>2, <2>3, <2>4, <2>6
  <2> QED  BY <2>5, <2>6
<1>8. CASE UserLoop
  <2>1. PICK n \in LoopValues : mpv' = [mpv EXCEPT !.loop = n, !.disturbed = Recounted]
    BY <1>8 DEF UserLoop
  <2>2. mpv'.events = mpv.events /\ mpv'.run = mpv.run
    BY <1>1, <2>1 DEF Cores
  <2> QED  BY <1>1, <2>2 DEF Closing
<1>9. CASE UserQuit
  <2> DEFINE gone == Event("SHUTDOWN")
             end == EndFile("quit")
  <2>1. gone \in Events /\ gone.name = "SHUTDOWN" /\ end \in Events /\ end.name = "END_FILE"
    <3>1. gone.name = "SHUTDOWN" /\ end.name = "END_FILE"
      BY DEF Event, EndFile
    <3> QED  BY <3>1, EventTypes
  <2>2. PICK ends \in {<<>>, <<end>>} :
          /\ ends = <<>> => mpv.run # "playing"
          /\ mpv' = [mpv EXCEPT !.run = "dead", !.load = NULL,
                                !.events = @ \o ends \o <<gone>>]
    BY <1>9 DEF UserQuit
  <2> HIDE DEF gone, end
  <2>3. mpv'.run = "dead" /\ mpv'.events = mpv.events \o ends \o <<gone>>
    BY <1>1, <2>2 DEF Cores
  <2>4. CASE ends = <<>>
    <3>1. mpv'.events = Append(mpv.events, gone)
      <4>1. mpv.events \o <<>> = mpv.events
        BY <1>1, ConcatEmptySeq
      <4>2. mpv.events \o <<gone>> = Append(mpv.events, gone)
        BY <1>1, <2>1, AppendIsConcat
      <4> QED  BY <2>3, <2>4, <4>1, <4>2
    <3> QED  BY <1>2, <2>1, <2>2, <2>4, <3>1
  <2>5. CASE ends = <<end>>
    <3> DEFINE core == [mpv EXCEPT !.run = "dead", !.events = Append(@, end)]
    <3>1. core.events = Append(mpv.events, end) /\ core.run = "dead"
      BY <1>1 DEF Cores
    <3>2. mpv.events \o <<end>> = Append(mpv.events, end)
      BY <1>1, <2>1, AppendIsConcat
    <3>3. Append(mpv.events, end) \in Seq(Events)
      BY <1>1, <2>1, AppendProperties
    <3>4. Append(mpv.events, end) \o <<gone>> = Append(Append(mpv.events, end), gone)
      BY <2>1, <3>3, AppendIsConcat
    <3>5. mpv'.events = Append(core.events, gone)
      BY <2>3, <2>5, <3>1, <3>2, <3>4
    <3> HIDE DEF core
    <3>6. Closing(core, opened)
      BY <1>1, <2>1, <3>1, ClosingMore
    <3> QED  BY <2>1, <3>1, <3>3, <3>5, <3>6, ClosingMore
  <2> QED  BY <2>2, <2>4, <2>5
<1> QED  BY <1>3, <1>4, <1>5, <1>6, <1>7, <1>8, <1>9 DEF Core, User

LEMMA CoreSessions ==
  ASSUME IInv, Sessions, PlainSessions, Core \/ User, MarkReached
  PROVE  Sessions'
<1>1. mpv # NULL /\ UNCHANGED <<state, now_playing, open>> /\ mpv' # NULL
  <2>1. mpv # NULL /\ UNCHANGED <<state, now_playing, open>>
    BY DEF Core, CoreIdle, CoreStart, CoreLoop, CoreSeek, CoreEof, CoreStop, CoreError, Emit,
           User, UserControl, UserLoop, UserQuit, game
  <2> QED  BY <2>1, CoreInv, UserInv
<1>2. Closing(mpv', open)
  BY <1>1, CoreClosing DEF Sessions, PlainSessions
<1>3. state = "START_MARK" => ~ Marks \subseteq {"none"} /\ SeekFirst(mpv')
  BY <1>1, CoreSeekFirst DEF Sessions
<1> QED  BY <1>1, <1>2, <1>3 DEF Sessions

\* So no step disturbs what is known of sessions.
LEMMA StepSessions ==
  ASSUME IInv, PlainSessions, Marked, Sessions, [Next]_vars, MarkReached \/ UNCHANGED vars
  PROVE  Marked' /\ Sessions'
<1>1. Marked'
  BY MarksKept DEF Marked
<1>2. CASE TryPlay
  <2>1. PICK o \in PlayItem(playlist[1], "INIT"), core \in NewCores : Play(o, core, 1, o.state)
    BY <1>2 DEF TryPlay
  <2>2. 1 \in Items /\ open' = {}
    BY <1>2, CountAssumption DEF TryPlay, Sessions, Items
  <2>3. ~ o.ok => o.state = "MENU_UI"
    BY Outcomes
  <2>4. Play(o, core, 1, IF o.ok THEN o.state ELSE "MENU_UI")
    BY <2>1, <2>3
  <2>5. core \in Cores /\ Len(core.events) <= MaxEvents /\ Closing(core, {})
    BY NewCoreFacts, FreshClosing
  <2>6. Sessions'
    BY <2>1, <2>2, <2>4, <2>5, PlaySessions
  <2> QED  BY <1>1, <2>6
<1>3. CASE Dispatch
  BY <1>1, <1>3, DispatchSessions
<1>4. CASE UNCHANGED vars
  BY <1>1, <1>4 DEF vars, Sessions, Closing, Wound, SeekFirst, Due
<1>5. CASE MarkReached /\ (Core \/ User)
  BY <1>1, <1>5, CoreSessions
<1> QED  BY <1>2, <1>3, <1>4, <1>5 DEF Next

\* If mpv does not abort and items have one resume mark at most, whatever request fails and
\* whatever is skipped, every session that was opened has been closed when main is back in
\* the menu; provided that a file on its way to its mark is not ended before it gets there.
THEOREM MarkedSessionsClosed ==
  ASSUME PlainSessions
  PROVE  Spec /\ [][MarkReached]_vars => []SessionsAllClosed
<1> DEFINE Inv == Marked /\ Sessions
<1>1. Init => Inv
  BY DEF Init, Marked, Sessions
<1>2. IInv /\ Inv /\ [Next]_vars /\ [MarkReached]_vars => Inv'
  BY StepSessions
<1>3. Inv => SessionsAllClosed
  BY DEF Sessions, SessionsAllClosed
<1> QED  BY <1>1, <1>2, <1>3, Invariance, PTL DEF Spec

\* The open sessions of items without marks.
Unmarked == {i \in open : marks[i] = "none"}

\* What holds of them whatever becomes of the others: main waits for a mark only of an item that
\* has one, and opens the session of no other meanwhile.
UnmarkedSessions ==
    /\ Unmarked \subseteq {now_playing}
    /\ state \in {"SEEKING", "START_MARK", "MENU_UI"} \/ mpv = NULL => Unmarked = {}
    /\ state = "START_MARK" => marks[now_playing] # "none"
    /\ mpv # NULL => Closing(mpv, Unmarked)

\* An event that changes nothing but the state.
LEMMA BecomesUnmarked ==
  ASSUME IInv, UnmarkedSessions, NEW name, Receives(name), NEW s \in PlaybackStates, Becomes(s),
         marks' = marks, Unmarked' \subseteq {now_playing}, s \in {"SEEKING", "START_MARK"} => Unmarked' = {},
         s = "START_MARK" => state = "START_MARK",
         Unmarked' # {} => name = "START_FILE" \/ (Unmarked # {} /\ name # "END_FILE")
  PROVE  UnmarkedSessions'
<1>1. /\ mpv' = Rest /\ state' = s /\ UNCHANGED now_playing /\ s # "MENU_UI"
  BY DEF Becomes, PlaybackStates
<1>2. mpv # NULL /\ mpv.events # <<>> /\ Head(mpv.events).name = name /\ Rest # NULL
  BY Received, NullAssumption
<1>3. Closing(Rest, Unmarked')
  BY <1>2, ClosingRest DEF UnmarkedSessions
<1> QED  BY <1>1, <1>2, <1>3 DEF UnmarkedSessions

\* Main asks about marks only where there are some.
LEMMA MarkedOutcome ==
  ASSUME Marked, NEW item \in Items, NEW s \in {"INIT", "SEEKING"}, NEW o \in PlayItem(item, s), o.ok
  PROVE  o.state = "START_MARK" => marks[item] # "none"
<1> SUFFICES ASSUME marks[item] = "none" PROVE o.state # "START_MARK"
  OBVIOUS
<1>1. o = Failure \/ o = Played(s, "same", FALSE)
  BY DEF PlayItem
<1> QED  BY <1>1 DEF Failure, Played

LEMMA PlayUnmarked ==
  ASSUME IInv, Marked, marks' = marks, NEW s \in {"INIT", "SEEKING"}, NEW pos \in Items,
         NEW o \in PlayItem(playlist[pos], s), NEW core \in Cores, Len(core.events) <= MaxEvents,
         NEW failed \in {"MENU_UI", "STOPPING"},
         Play(o, core, pos, IF o.ok THEN o.state ELSE failed), Closing(core, {}), Unmarked' = {}
  PROVE  UnmarkedSessions'
<1> DEFINE item == playlist[pos]
<1>1. item \in Items /\ item # NULL /\ o.start \in BOOLEAN /\ o.ok \in BOOLEAN
  BY Outcomes, NullAssumption DEF IInv, TypeOK
<1>2. /\ mpv' \in CoresAfter(core, item, o) /\ state' = IF o.ok THEN o.state ELSE failed
      /\ o.ok => now_playing' = item
  BY DEF Play
<1>3. o.mpv # "none" => Closing(mpv', {})
  <2> HIDE DEF item
  <2> QED  BY <1>1, <1>2, GivenClosing
<1>4. o.mpv = "none" => mpv' = NULL
  BY <1>2 DEF CoresAfter
<1>5. o.ok /\ o.state = "START_MARK" => marks[item] # "none"
  <2> HIDE DEF item
  <2> QED  BY <1>1, MarkedOutcome DEF item
<1> QED  BY <1>1, <1>2, <1>3, <1>4, <1>5 DEF UnmarkedSessions

LEMMA NextUnmarked ==
  ASSUME IInv, UnmarkedSessions, Marked, marks' = marks, NEW name, Receives(name), NEW core \in {Rest, Skipped},
         NEW failed \in {"MENU_UI", "STOPPING"}, JfPlaybackNext(core, failed), Unmarked' = {}
  PROVE  UnmarkedSessions'
<1> DEFINE pos == NextPosition(playlist_position, Count)
<1>1. pos \in Items /\ mpv # NULL
  BY Received, Steps
<1>2. PICK o \in PlayItem(playlist[pos], "SEEKING") :
        Play(o, core, pos, IF o.ok THEN o.state ELSE failed)
  BY DEF JfPlaybackNext
<1>3. core \in Cores /\ Len(core.events) <= MaxEvents /\ Closing(core, {})
  BY <1>1, RestClosing DEF UnmarkedSessions
<1> HIDE DEF pos
<1> QED  BY <1>1, <1>2, <1>3, PlayUnmarked

LEMMA DispatchUnmarked ==
  ASSUME IInv, UnmarkedSessions, Marked, Dispatch
  PROVE  UnmarkedSessions'
<1>1. /\ state \in PlaybackStates /\ mpv # NULL /\ marks' = marks /\ Unmarked \subseteq {now_playing}
      /\ state \in {"SEEKING", "START_MARK"} => Unmarked = {}
  BY DEF UnmarkedSessions, Dispatch, MessageNext, MessagePrevious, MessageShuffle, StartFile, EndOfFile, Seek,
         Idle, Shutdown, LoopChange, Receives
\* What is posted for the item playing.
<1>2. /\ open' = open \ {now_playing} => Unmarked' = {}
      /\ open' = open => Unmarked' = Unmarked
      /\ open' = open \cup {now_playing} => Unmarked' \subseteq {now_playing}
      /\ open' = open \cup {now_playing} /\ state = "START_MARK" => Unmarked' = {}
  BY <1>1 DEF Unmarked, UnmarkedSessions
<1>3. CASE MessageNext
  <2>1. Receives("next") /\ Unmarked' = {}
    BY <1>2, <1>3 DEF MessageNext
  <2>2. CASE Moves
    BY <1>1, <1>3, <2>1, <2>2, NextUnmarked DEF MessageNext
  <2>3. CASE ~ Moves
    BY <1>1, <1>3, <2>1, <2>3, BecomesUnmarked DEF MessageNext
  <2> QED  BY <2>2, <2>3
<1>4. CASE MessagePrevious
  <2> DEFINE pos == PreviousPosition(playlist_position, Count)
  <2>1. Receives("prev") /\ Unmarked' = {}
    BY <1>2, <1>4 DEF MessagePrevious
  <2>2. pos \in Items
    BY <2>1, Received, Steps
  <2>3. CASE PreviousMoves(playlist_position, playlist_loops)
    <3>1. PICK o \in PlayItem(playlist[pos], "SEEKING") : Play(o, Skipped, pos, o.state)
      BY <1>4, <2>3 DEF MessagePrevious
    <3>2. Skipped \in Cores /\ Len(Skipped.events) <= MaxEvents /\ Closing(Skipped, {})
      BY <1>1, <2>1, RestClosing DEF UnmarkedSessions
    <3>3. Play(o, Skipped, pos, IF o.ok THEN o.state ELSE "MENU_UI")
      BY <3>1, Outcomes
    <3> HIDE DEF pos
    <3> QED  BY <1>1, <2>1, <2>2, <3>1, <3>2, <3>3, PlayUnmarked
  <2>4. CASE ~ PreviousMoves(playlist_position, playlist_loops)
    BY <1>1, <1>4, <2>1, <2>4, BecomesUnmarked DEF MessagePrevious
  <2> QED  BY <2>3, <2>4
<1>5. CASE MessageShuffle
  BY <1>1, <1>2, <1>5, BecomesUnmarked DEF MessageShuffle
<1>6. CASE StartFile
  <2> DEFINE s == IF state \in {"INIT", "SEEKING"} THEN "PLAYBACK" ELSE state
  <2>1. /\ Receives("START_FILE") /\ Becomes(s) /\ s \in PlaybackStates /\ s # "SEEKING"
        /\ s = "START_MARK" => state = "START_MARK" /\ Unmarked' = {}
        /\ Unmarked' \subseteq {now_playing}
    BY <1>1, <1>2, <1>6 DEF StartFile, PlaybackStates
  <2> HIDE DEF s
  <2> QED  BY <1>1, <2>1, BecomesUnmarked
<1>7. CASE EndOfFile
  <2>1. Receives("END_FILE") /\ Unmarked' = {}
    BY <1>1, <1>2, <1>7 DEF EndOfFile
  <2>2. CASE Head(mpv.events).reason = "eof" /\ Moves
    BY <1>1, <1>7, <2>1, <2>2, NextUnmarked DEF EndOfFile
  <2>3. CASE ~ (Head(mpv.events).reason = "eof" /\ Moves)
    <3>1. Becomes("STOPPING") /\ "STOPPING" \in PlaybackStates
      BY <1>7, <2>3 DEF EndOfFile, PlaybackStates
    <3> QED  BY <1>1, <2>1, <3>1, BecomesUnmarked
  <2> QED  BY <2>2, <2>3
<1>8. CASE Seek
  <2>1. Receives("SEEK") /\ UNCHANGED <<now_playing, playlist_position>>
    BY <1>8 DEF Seek
  <2>2. CASE state # "START_MARK"
    <3>1. mpv' = Rest /\ UNCHANGED <<open, state>>
      BY <1>8, <2>2 DEF Seek
    <3>2. Becomes(state)
      BY <2>1, <3>1 DEF Becomes
    <3> QED  BY <1>1, <1>2, <2>1, <2>2, <3>1, <3>2, BecomesUnmarked
  <2>3. CASE state = "START_MARK"
    <3>1. mpv' = [Rest EXCEPT !.start = FALSE] /\ Unmarked' = {} /\ state' = "PLAYBACK"
      BY <1>2, <1>8, <2>3 DEF Seek
    <3>2. Rest \in Cores /\ Closing(Rest, {})
      BY <1>1, <2>1, RestClosing DEF UnmarkedSessions
    <3>3. mpv'.events = Rest.events /\ mpv'.run = Rest.run /\ mpv' \in Cores
      BY <3>1, <3>2 DEF Cores
    <3>4. Closing(mpv', {}) /\ mpv' # NULL
      BY <3>2, <3>3, NullAssumption DEF Closing
    <3> QED  BY <3>1, <3>4 DEF UnmarkedSessions
  <2> QED  BY <2>2, <2>3
\* What comes first in the queue says that nothing is open.
<1>9. ASSUME Receives("IDLE") \/ Receives("SHUTDOWN")
      PROVE  Unmarked = {}
  <2>1. /\ mpv.events # <<>> /\ Head(mpv.events).name \in {"IDLE", "SHUTDOWN"}
        /\ Head(mpv.events) = mpv.events[1] /\ Len(mpv.events) \in Nat \ {0}
    BY <1>1, <1>9, RestFacts DEF Receives
  <2>2. Wound(mpv.events, Unmarked, 1 - 1)
    BY <1>1, <2>1 DEF UnmarkedSessions, Closing
  <2> QED  BY <2>2 DEF Wound
<1>10. CASE Idle
  <2>1. Receives("IDLE") /\ Unmarked' = {}
    BY <1>2, <1>9, <1>10 DEF Idle
  <2>2. End \/ Becomes("PLAYBACK") \/ Becomes(state)
    BY <1>10 DEF Idle
  <2>3. CASE End
    BY <2>1, <2>3 DEF End, UnmarkedSessions
  <2>4. "PLAYBACK" \in PlaybackStates
    BY DEF PlaybackStates
  <2> QED  BY <1>1, <2>1, <2>2, <2>3, <2>4, BecomesUnmarked
<1>11. CASE Shutdown
  <2>1. Unmarked' = {}
    BY <1>2, <1>9, <1>11 DEF Shutdown
  <2> QED  BY <1>11, <2>1 DEF Shutdown, End, UnmarkedSessions
<1>12. CASE LoopChange
  <2>1. /\ mpv' \in {[mpv EXCEPT !.told = mpv.loop], [mpv EXCEPT !.told = mpv.loop, !.loop = playlist_loops],
                  [mpv EXCEPT !.told = mpv.loop, !.disturbed = FALSE]}
        /\ UNCHANGED <<state, now_playing, open>>
    BY <1>12 DEF LoopChange, IInv, TypeOK
  <2>2. mpv' # NULL /\ mpv'.events = mpv.events /\ mpv'.run = mpv.run
    BY <1>1, <1>12, <2>1, LoopChangeInv, Running DEF Cores
  <2>3. Closing(mpv', Unmarked)
    BY <1>1, <2>2 DEF UnmarkedSessions, Closing
  <2> QED  BY <1>1, <1>2, <2>1, <2>2, <2>3 DEF UnmarkedSessions
<1> QED  BY <1>3, <1>4, <1>5, <1>6, <1>7, <1>8, <1>10, <1>11, <1>12 DEF Dispatch

\* If mpv does not abort, then whatever request fails, whatever question is cancelled, whatever is
\* skipped and whatever marks items have: back in the menu no session is open but of items with
\* marks.
THEOREM AlwaysSessionsClosed ==
  ASSUME ~ Aborts
  PROVE  Spec => []SessionsClosed
<1> DEFINE Inv == Marked /\ UnmarkedSessions
<1>1. Init => Inv
  BY DEF Init, Marked, UnmarkedSessions, Unmarked
<1>2. IInv /\ Inv /\ [Next]_vars => Inv'
  <2> SUFFICES ASSUME IInv, Inv, [Next]_vars PROVE Inv'
    OBVIOUS
  <2>1. marks' = marks /\ Marked'
    BY MarksKept DEF Marked
  <2>2. CASE TryPlay
    <3>1. PICK o \in PlayItem(playlist[1], "INIT"), core \in NewCores : Play(o, core, 1, o.state)
      BY <2>2 DEF TryPlay
    <3>2. 1 \in Items /\ Unmarked' = {}
      BY <2>1, <2>2, CountAssumption DEF TryPlay, UnmarkedSessions, Unmarked, Items
    <3>3. Play(o, core, 1, IF o.ok THEN o.state ELSE "MENU_UI")
      BY <3>1, Outcomes
    <3>4. core \in Cores /\ Len(core.events) <= MaxEvents /\ Closing(core, {})
      BY NewCoreFacts, FreshClosing
    <3>5. UnmarkedSessions'
      BY <2>1, <3>1, <3>2, <3>3, <3>4, PlayUnmarked
    <3> QED  BY <2>1, <3>5
  <2>3. CASE Dispatch
    BY <2>1, <2>3, DispatchUnmarked
  <2>4. CASE Core \/ User
    <3>1. mpv # NULL /\ UNCHANGED <<state, now_playing, open>>
      BY <2>4 DEF Core, CoreIdle, CoreStart, CoreLoop, CoreSeek, CoreEof, CoreStop, CoreError, Emit,
             User, UserControl, UserLoop, UserQuit, game
    <3>2. mpv' # NULL
      BY <2>4, CoreInv, UserInv
    <3>3. Unmarked' = Unmarked
      BY <2>1, <3>1 DEF Unmarked
    <3>4. Closing(mpv', Unmarked)
      BY <2>4, <3>1, CoreClosing DEF UnmarkedSessions
    <3> QED  BY <2>1, <3>1, <3>2, <3>3, <3>4 DEF UnmarkedSessions
  <2>5. CASE UNCHANGED vars
    BY <2>1, <2>5 DEF vars, UnmarkedSessions, Unmarked, Closing, Wound
  <2> QED  BY <2>2, <2>3, <2>4, <2>5 DEF Next
<1>3. Inv => SessionsClosed
  BY DEF UnmarkedSessions, Unmarked, SessionsClosed
<1> QED  BY <1>1, <1>2, <1>3, Invariance, PTL DEF Spec

-----------------------------------------------------------------------------
(***************************************************************************)
(* The loop counters.                                                      *)
(***************************************************************************)

Eof(event) == event.reason = "eof"

EofQueued(core) == \E i \in 1 .. Len(core.events) : Eof(core.events[i])

\* There is one end of a file in the queue at most.  Until main has handled it there is nothing
\* new to play; and if mpv plays the same again, it has a count to report first.
OneEof(core) ==
    /\ \A i \in 1 .. Len(core.events) : Eof(core.events[i]) =>
         /\ core.events[i].name = "END_FILE"
         /\ \A j \in 1 .. Len(core.events) : Eof(core.events[j]) => j = i
    /\ EofQueued(core) => core.load = NULL /\ (core.file # NULL => core.told # core.loop)

\* A count of 1 is the last pass.
Agree(loops, loop) == loops = loop \/ {loops, loop} \subseteq {0, 1}

\* While main has an end of a file to handle: the file was mpv's last pass, or it had a pass more
\* and has used it up.
EndInStep(core, loops) ==
    \/ loops <= 1 /\ (core.told = core.loop => Agree(loops, core.loop))
    \/ loops > 1 /\ core.told = core.loop + 1 /\ loops = core.told

\* Otherwise: a counter that is out of step has a report to come that sets it right.
PlayInStep(core, loops, sync) ==
    /\ sync = "IN_SYNC" => (core.told = core.loop => Agree(loops, core.loop))
    /\ sync = "OUT_OF_SYNC" => core.told # core.loop /\ loops > 1 /\ loops # core.loop
    /\ sync = "RESYNCING" => core.told # core.loop /\ loops > 1 /\ loops = core.loop

InStep(core, loops, sync) ==
    /\ EofQueued(core) => sync = "IN_SYNC" /\ EndInStep(core, loops)
    /\ ~ EofQueued(core) => PlayInStep(core, loops, sync)

\* As long as nothing has come in between.
Steady(core, loops, sync) ==
    /\ core.loop \in Nat
    /\ ~ core.disturbed => OneEof(core) /\ InStep(core, loops, sync)

Counters ==
    /\ playlist_loops \in Nat
    /\ mpv # NULL => Steady(mpv, playlist_loops, loop_state)

\* The front event has been handled.
LEMMA EofRest ==
  ASSUME IInv, mpv # NULL, mpv.events # <<>>, OneEof(mpv)
  PROVE  /\ OneEof(Rest)
         /\ Eof(Head(mpv.events)) => EofQueued(mpv) /\ ~ EofQueued(Rest)
         /\ ~ Eof(Head(mpv.events)) => (EofQueued(Rest) <=> EofQueued(mpv))
<1>1. /\ Len(Rest.events) = Len(mpv.events) - 1 /\ Len(mpv.events) \in Nat \ {0}
      /\ \A i \in 1 .. Len(Rest.events) : Rest.events[i] = mpv.events[i + 1]
      /\ Head(mpv.events) = mpv.events[1] /\ Rest.load = mpv.load /\ Rest.file = mpv.file
      /\ Rest.told = mpv.told /\ Rest.loop = mpv.loop
  BY RestFacts
<1>2. ASSUME NEW i \in 1 .. Len(Rest.events)
      PROVE  i + 1 \in 1 .. Len(mpv.events) /\ i + 1 # 1 /\ Rest.events[i] = mpv.events[i + 1]
  BY <1>1
<1>3. ASSUME NEW i \in 2 .. Len(mpv.events)
      PROVE  i - 1 \in 1 .. Len(Rest.events) /\ Rest.events[i - 1] = mpv.events[i]
  <2>1. i - 1 \in 1 .. Len(Rest.events) /\ (i - 1) + 1 = i
    BY <1>1
  <2>2. Rest.events[i - 1] = mpv.events[(i - 1) + 1]
    BY <1>1, <2>1
  <2> QED  BY <2>1, <2>2
<1>4. ASSUME NEW i \in 1 .. Len(Rest.events), Eof(Rest.events[i])
      PROVE  /\ Rest.events[i].name = "END_FILE"
             /\ \A j \in 1 .. Len(Rest.events) : Eof(Rest.events[j]) => j = i
  <2>1. i + 1 \in 1 .. Len(mpv.events) /\ Eof(mpv.events[i + 1]) /\ mpv.events[i + 1] = Rest.events[i]
    BY <1>2, <1>4
  <2>2. Rest.events[i].name = "END_FILE"
    BY <2>1 DEF OneEof
  <2>3. ASSUME NEW j \in 1 .. Len(Rest.events), Eof(Rest.events[j])
        PROVE  j = i
    <3>1. j + 1 \in 1 .. Len(mpv.events) /\ Eof(mpv.events[j + 1])
      BY <1>2, <2>3
    <3>2. j + 1 = i + 1
      BY <2>1, <3>1 DEF OneEof
    <3> QED  BY <3>2
  <2> QED  BY <2>2, <2>3
<1>5. 1 \in 1 .. Len(mpv.events)
  BY <1>1
<1>6. ASSUME Eof(Head(mpv.events))
      PROVE  EofQueued(mpv) /\ ~ EofQueued(Rest)
  <2>1. EofQueued(mpv)
    BY <1>1, <1>5, <1>6 DEF EofQueued
  <2>2. ASSUME NEW i \in 1 .. Len(Rest.events), Eof(Rest.events[i]) PROVE FALSE
    <3>1. i + 1 \in 1 .. Len(mpv.events) /\ i + 1 # 1 /\ Eof(mpv.events[i + 1])
      BY <1>2, <2>2
    <3> QED  BY <1>1, <1>5, <1>6, <3>1 DEF OneEof
  <2> QED  BY <2>1, <2>2 DEF EofQueued
<1>7. EofQueued(Rest) => EofQueued(mpv)
  BY <1>2 DEF EofQueued
<1>8. ASSUME ~ Eof(Head(mpv.events)), EofQueued(mpv)
      PROVE  EofQueued(Rest)
  <2>1. PICK i \in 1 .. Len(mpv.events) : Eof(mpv.events[i])
    BY <1>8 DEF EofQueued
  <2>2. i \in 2 .. Len(mpv.events)
    BY <1>1, <1>8, <2>1
  <2> QED  BY <1>3, <2>1, <2>2 DEF EofQueued
<1>9. OneEof(Rest)
  BY <1>1, <1>4, <1>7 DEF OneEof
<1> QED  BY <1>6, <1>7, <1>8, <1>9

\* One more event.
LEMMA EofMore ==
  ASSUME NEW core, NEW more, NEW events \in Seq(Events), NEW event \in Events, OneEof(core),
         core.events = events, more.events = Append(events, event),
         Eof(event) => event.name = "END_FILE" /\ ~ EofQueued(core),
         EofQueued(core) \/ Eof(event) => more.load = NULL /\ (more.file # NULL => more.told # more.loop)
  PROVE  OneEof(more) /\ (EofQueued(more) <=> EofQueued(core) \/ Eof(event))
<1> DEFINE longer == Append(events, event)
           last == Len(events) + 1
<1>1. /\ longer \in Seq(Events) /\ Len(longer) = last /\ Len(events) \in Nat
      /\ \A i \in 1 .. Len(events) : longer[i] = events[i]
      /\ longer[last] = event
  BY AppendProperties, LenProperties
<1> HIDE DEF longer
<1>2. more.events = longer
  BY DEF longer
<1>3. \A i \in 1 .. last : i = last \/ i \in 1 .. Len(events)
  BY <1>1
<1>4. EofQueued(more) <=> EofQueued(core) \/ Eof(event)
  BY <1>1, <1>2, <1>3 DEF EofQueued
<1>5. ASSUME NEW i \in 1 .. last, Eof(longer[i])
      PROVE  longer[i].name = "END_FILE" /\ \A j \in 1 .. last : Eof(longer[j]) => j = i
  <2>1. CASE i = last
    <3>1. Eof(event) /\ \A j \in 1 .. Len(events) : ~ Eof(longer[j])
      BY <1>1, <1>5, <2>1 DEF EofQueued
    <3> QED  BY <1>1, <1>3, <2>1, <3>1
  <2>2. CASE i \in 1 .. Len(events)
    <3>1. EofQueued(core) /\ Eof(events[i]) /\ longer[i] = events[i]
      BY <1>1, <1>5, <2>2 DEF EofQueued
    <3>2. ~ Eof(longer[last])
      BY <1>1, <3>1
    <3>3. longer[i].name = "END_FILE" /\ \A j \in 1 .. Len(events) : Eof(events[j]) => j = i
      BY <2>2, <3>1 DEF OneEof
    <3> QED  BY <1>1, <1>3, <3>2, <3>3
  <2> QED  BY <1>3, <2>1, <2>2
<1> QED  BY <1>1, <1>2, <1>4, <1>5 DEF OneEof

\* A core made anew tells its loop option first, and then takes the counter over or gives it its own.
LEMMA FreshCounters ==
  ASSUME NEW loops \in Nat, NEW sync, sync = "OUT_OF_SYNC" => loops > 1, sync # "RESYNCING",
         NEW core, Fresh(core)
  PROVE  OneEof(core) /\ InStep(core, loops, sync) /\ ~ EofQueued(core)
<1>1. ~ EofQueued(core) /\ \A i \in 1 .. Len(core.events) : ~ Eof(core.events[i])
  <2>1. CASE core.events = <<>>
    <3>1. Len(core.events) = 0
      BY <2>1, EmptySeq
    <3> QED  BY <3>1 DEF EofQueued
  <2>2. CASE core.events = <<Event("IDLE")>>
    <3>1. Len(core.events) = 1 /\ core.events[1] = Event("IDLE")
      BY <2>2
    <3>2. ~ Eof(core.events[1])
      BY <3>1 DEF Event, Eof
    <3> QED  BY <3>1, <3>2 DEF EofQueued
  <2> QED  BY <2>1, <2>2 DEF Fresh
<1>2. core.told # core.loop /\ core.loop = 0
  BY DEF Fresh
<1> QED  BY <1>1, <1>2 DEF OneEof, InStep, PlayInStep

\* An event but the end of a file leaves the counters alone.
LEMMA RestSteady ==
  ASSUME IInv, Counters, mpv # NULL, mpv.events # <<>>, ~ mpv.disturbed => ~ Eof(Head(mpv.events))
  PROVE  Steady(Rest, playlist_loops, loop_state)
<1>1. Rest.loop = mpv.loop /\ Rest.told = mpv.told /\ Rest.disturbed = mpv.disturbed
  BY RestFacts
<1>2. ASSUME ~ mpv.disturbed PROVE OneEof(Rest) /\ InStep(Rest, playlist_loops, loop_state)
  <2>1. OneEof(Rest) /\ (EofQueued(Rest) <=> EofQueued(mpv))
    BY <1>2, EofRest DEF Counters, Steady
  <2> QED  BY <1>1, <1>2, <2>1 DEF Counters, Steady, InStep, PlayInStep, EndInStep
<1> HIDE DEF Rest
<1> QED  BY <1>1, <1>2 DEF Counters, Steady

\* The next item is given to the core, or to a new one; or there is none.
LEMMA PlayCounters ==
  ASSUME IInv, NEW item, NEW s, NEW o \in PlayItem(item, s), NEW core \in Cores, Len(core.events) <= MaxEvents,
         NEW pos \in Items, NEW t, Play(o, core, pos, t),
         playlist_loops' \in Nat, Steady(core, playlist_loops', loop_state'),
         ~ core.disturbed =>
            /\ ~ EofQueued(core) /\ loop_state' # "RESYNCING"
            /\ loop_state' = "OUT_OF_SYNC" => playlist_loops' > 1
  PROVE  Counters'
<1>1. o.mpv \in {"none", "same", "new"} /\ o.start \in BOOLEAN /\ playlist[pos] \in Items
  BY Outcomes DEF IInv, TypeOK
<1>2. mpv' \in CoresAfter(core, playlist[pos], o)
  BY DEF Play
<1>3. CASE o.mpv = "none"
  <2>1. mpv' = NULL
    BY <1>2, <1>3 DEF CoresAfter
  <2> QED  BY <2>1 DEF Counters
<1>4. CASE o.mpv = "same"
  <2>1. /\ mpv'.events = core.events /\ mpv'.loop = core.loop /\ mpv'.told = core.told
        /\ mpv'.disturbed = core.disturbed
    BY <1>1, <1>2, <1>4, Given
  <2>2. EofQueued(mpv') <=> EofQueued(core)
    BY <2>1 DEF EofQueued
  <2>3. ~ core.disturbed => OneEof(mpv') /\ InStep(mpv', playlist_loops', loop_state')
    BY <2>1, <2>2 DEF Steady, OneEof, InStep, PlayInStep
  <2> QED  BY <2>1, <2>3 DEF Counters, Steady
<1>5. CASE o.mpv = "new"
  <2>1. Fresh(mpv') /\ mpv'.disturbed = core.disturbed
    BY <1>1, <1>2, <1>5, Given
  <2>2. mpv'.loop \in Nat
    BY <2>1 DEF Fresh
  <2>3. ~ core.disturbed => OneEof(mpv') /\ InStep(mpv', playlist_loops', loop_state')
    BY <2>1, FreshCounters
  <2> QED  BY <2>1, <2>2, <2>3 DEF Counters, Steady
<1> QED  BY <1>1, <1>3, <1>4, <1>5

\* A step forward after which nothing is claimed but that the counters are counts.
LEMMA NextDisturbed ==
  ASSUME IInv, Counters, NEW name, Receives(name), NEW core \in {Rest, Skipped}, core.disturbed,
         NEW failed, Moves, JfPlaybackNext(core, failed)
  PROVE  Counters'
<1> DEFINE pos == NextPosition(playlist_position, Count)
<1>1. /\ pos \in Items /\ mpv # NULL /\ mpv.events # <<>> /\ playlist_loops \in Nat
  BY Received, Steps DEF Counters
<1>2. core \in Cores /\ Len(core.events) <= MaxEvents /\ core.loop = mpv.loop
  BY <1>1, RestFacts, SkippedFacts
<1>3. PICK o \in PlayItem(playlist[pos], "SEEKING") :
        Play(o, core, pos, IF o.ok THEN o.state ELSE failed)
  BY DEF JfPlaybackNext
<1>4. playlist_loops' \in Nat
  BY <1>1 DEF JfPlaybackNext, NextLoops, Moves, NextMoves, LastLoop
<1>5. Steady(core, playlist_loops', loop_state')
  BY <1>1, <1>2 DEF Steady, Counters
<1> HIDE DEF pos
<1> QED  BY <1>1, <1>2, <1>3, <1>4, <1>5, PlayCounters

\* The end of a file: where it costs a loop, mpv has counted it as well; where it does not, the
\* counter goes out of step with a report of mpv's to come.
LEMMA EndOfFileCounters ==
  ASSUME IInv, Counters, EndOfFile
  PROVE  Counters'
<1>1. /\ Receives("END_FILE") /\ mpv # NULL /\ mpv.events # <<>> /\ Rest \in Cores
      /\ Len(Rest.events) <= MaxEvents /\ playlist_position \in Items /\ playlist_loops \in Nat
  BY Received DEF EndOfFile, Counters
<1>2. Rest.loop = mpv.loop /\ Rest.told = mpv.told /\ Rest.disturbed = mpv.disturbed
  BY <1>1, RestFacts
<1>3. CASE ~ (Head(mpv.events).reason = "eof" /\ Moves) /\ (mpv.disturbed \/ Head(mpv.events).reason # "eof")
  <2>1. mpv' = Rest /\ UNCHANGED <<playlist_loops, loop_state>>
    BY <1>3 DEF EndOfFile, Becomes
  <2>2. Steady(Rest, playlist_loops, loop_state)
    BY <1>1, <1>3, RestSteady DEF Eof
  <2> HIDE DEF Rest
  <2> QED  BY <1>1, <2>1, <2>2 DEF Counters
<1>4. CASE Head(mpv.events).reason = "eof" /\ Moves /\ mpv.disturbed
  <2>1. JfPlaybackNext(Rest, "STOPPING")
    BY <1>4 DEF EndOfFile
  <2> QED  BY <1>1, <1>2, <1>4, <2>1, NextDisturbed
<1>5. CASE Head(mpv.events).reason = "eof" /\ ~ mpv.disturbed
  <2>1. EofQueued(mpv) /\ ~ EofQueued(Rest) /\ OneEof(Rest)
    BY <1>1, <1>5, EofRest DEF Counters, Steady, Eof
  <2>2. loop_state = "IN_SYNC" /\ EndInStep(mpv, playlist_loops) /\ mpv.loop \in Nat
    BY <1>1, <1>5, <2>1 DEF Counters, Steady, InStep
  <2>3. CASE Moves
    <3> DEFINE pos == NextPosition(playlist_position, Count)
    <3>0. pos \in Items
      BY <1>1, Steps
    <3>1. JfPlaybackNext(Rest, "STOPPING")
      BY <1>5, <2>3 DEF EndOfFile
    <3>2. PICK o \in PlayItem(playlist[pos], "SEEKING") :
            Play(o, Rest, pos, IF o.ok THEN o.state ELSE "STOPPING")
      BY <3>1 DEF JfPlaybackNext
    <3>3. CASE playlist_position = Count
      <4>1. playlist_loops > 1
        BY <1>1, <2>3, <3>3 DEF Moves, NextMoves, LastLoop
      <4>2. playlist_loops' = playlist_loops - 1 /\ loop_state' = "IN_SYNC"
        BY <2>2, <3>1, <3>3 DEF JfPlaybackNext, NextLoops
      <4>3. mpv.told = mpv.loop + 1
        BY <1>1, <2>2, <4>1 DEF EndInStep
      <4>4. mpv.told # mpv.loop /\ playlist_loops' \in Nat
        BY <1>1, <2>2, <4>1, <4>2, <4>3
      <4>5. Steady(Rest, playlist_loops', loop_state')
        BY <1>2, <2>1, <2>2, <4>2, <4>4 DEF Steady, InStep, PlayInStep
      <4> HIDE DEF pos
      <4> QED  BY <1>1, <1>2, <2>1, <3>0, <3>2, <4>2, <4>4, <4>5, PlayCounters
    <3>4. CASE playlist_position # Count /\ playlist_loops > 1
      <4>1. playlist_loops' = playlist_loops /\ loop_state' = "OUT_OF_SYNC"
        BY <3>1, <3>4 DEF JfPlaybackNext, NextLoops
      <4>2. mpv.told = mpv.loop + 1 /\ playlist_loops = mpv.told
        BY <1>1, <2>2, <3>4 DEF EndInStep
      <4>3. mpv.told # mpv.loop /\ playlist_loops # mpv.loop
        BY <2>2, <4>2
      <4>4. Steady(Rest, playlist_loops', loop_state')
        BY <1>2, <2>1, <2>2, <3>4, <4>1, <4>3 DEF Steady, InStep, PlayInStep
      <4> HIDE DEF pos
      <4> QED  BY <1>1, <1>2, <2>1, <3>0, <3>2, <3>4, <4>1, <4>4, PlayCounters
    <3>5. CASE playlist_position # Count /\ ~ playlist_loops > 1
      <4>1. playlist_loops' = playlist_loops /\ loop_state' = "IN_SYNC"
        BY <2>2, <3>1, <3>5 DEF JfPlaybackNext, NextLoops
      <4>2. mpv.told = mpv.loop => Agree(playlist_loops, mpv.loop)
        BY <2>2, <3>5 DEF EndInStep
      <4>3. Steady(Rest, playlist_loops', loop_state')
        BY <1>2, <2>1, <2>2, <4>1, <4>2 DEF Steady, InStep, PlayInStep
      <4> HIDE DEF pos
      <4> QED  BY <1>1, <1>2, <2>1, <3>0, <3>2, <4>1, <4>3, PlayCounters
    <3> QED  BY <3>3, <3>4, <3>5
  <2>4. CASE ~ Moves
    <3>1. mpv' = Rest /\ UNCHANGED <<playlist_loops, loop_state>>
      BY <2>4 DEF EndOfFile, Becomes
    <3>2. ~ playlist_loops > 1
      BY <1>1, <2>4 DEF Moves, NextMoves, LastLoop
    <3>3. mpv.told = mpv.loop => Agree(playlist_loops, mpv.loop)
      BY <2>2, <3>2 DEF EndInStep
    <3>4. Steady(Rest, playlist_loops, loop_state)
      BY <1>2, <2>1, <2>2, <3>3 DEF Steady, InStep, PlayInStep
    <3> HIDE DEF Rest
    <3> QED  BY <1>1, <1>2, <3>1, <3>4 DEF Counters
  <2> QED  BY <2>3, <2>4
<1> QED  BY <1>3, <1>4, <1>5

\* A report of the loop option, which comes when there is nothing else to handle.
LEMMA LoopChangeCounters ==
  ASSUME IInv, Counters, LoopChange
  PROVE  Counters'
<1>1. /\ mpv # NULL /\ mpv.events = <<>> /\ mpv.told # mpv.loop /\ mpv \in Cores /\ playlist_loops \in Nat
      /\ mpv.loop \in Nat
  BY Running DEF LoopChange, Counters, Steady
<1>2. Len(mpv.events) = 0 /\ (~ mpv.disturbed => PlayInStep(mpv, playlist_loops, loop_state))
  BY <1>1, EmptySeq DEF Counters, Steady, InStep, EofQueued
<1>3. \A core : core.events = mpv.events => OneEof(core) /\ ~ EofQueued(core)
  BY <1>2 DEF OneEof, EofQueued
<1>4. CASE loop_state = "RESYNCING"
  <2>1. loop_state' = "IN_SYNC" /\ mpv' = [mpv EXCEPT !.told = mpv.loop] /\ playlist_loops' = playlist_loops
    BY <1>4 DEF LoopChange
  <2>2. mpv'.events = mpv.events /\ mpv'.loop = mpv.loop /\ mpv'.disturbed = mpv.disturbed
    BY <1>1, <2>1 DEF Cores
  <2>3. ~ mpv.disturbed => playlist_loops = mpv.loop
    BY <1>2, <1>4 DEF PlayInStep
  <2> QED  BY <1>1, <1>3, <2>1, <2>2, <2>3 DEF Counters, Steady, InStep, PlayInStep, Agree
<1>5. CASE loop_state = "OUT_OF_SYNC"
  <2>1. /\ loop_state' = "RESYNCING" /\ playlist_loops' = playlist_loops
        /\ mpv' = [mpv EXCEPT !.told = mpv.loop, !.loop = playlist_loops]
    BY <1>5 DEF LoopChange
  <2>2. /\ mpv'.events = mpv.events /\ mpv'.loop = playlist_loops /\ mpv'.told = mpv.loop
        /\ mpv'.disturbed = mpv.disturbed
    BY <1>1, <2>1 DEF Cores
  <2>3. ~ mpv.disturbed => playlist_loops > 1 /\ playlist_loops # mpv.loop
    BY <1>2, <1>5 DEF PlayInStep
  <2> QED  BY <1>1, <1>3, <2>1, <2>2, <2>3 DEF Counters, Steady, InStep, PlayInStep
<1>6. CASE loop_state = "IN_SYNC"
  <2>1. /\ loop_state' = "IN_SYNC" /\ playlist_loops' = IF mpv.loop = 1 THEN 0 ELSE mpv.loop
        /\ mpv' = [mpv EXCEPT !.told = mpv.loop, !.disturbed = FALSE]
    BY <1>6 DEF LoopChange
  <2>2. mpv'.events = mpv.events /\ mpv'.loop = mpv.loop /\ Agree(playlist_loops', mpv.loop)
    BY <1>1, <2>1 DEF Cores, Agree
  <2>3. playlist_loops' \in Nat
    BY <1>1, <2>1
  <2> QED  BY <1>1, <1>3, <2>1, <2>2, <2>3 DEF Counters, Steady, InStep, PlayInStep
<1> QED  BY <1>4, <1>5, <1>6 DEF IInv, TypeOK

\* What is said of a core is about its events and file, its loop option and its history.
LEMMA SameSteady ==
  ASSUME NEW core, NEW other, NEW loops, NEW sync, Steady(core, loops, sync),
         other.events = core.events, other.loop = core.loop, other.told = core.told,
         other.load = core.load, other.file = core.file, other.disturbed = core.disturbed
  PROVE  Steady(other, loops, sync)
<1>1. EofQueued(other) <=> EofQueued(core)
  BY DEF EofQueued
<1>2. OneEof(core) => OneEof(other)
  BY <1>1 DEF OneEof
<1> QED  BY <1>1, <1>2 DEF Steady, InStep, PlayInStep, EndInStep

LEMMA DispatchCounters ==
  ASSUME IInv, Counters, Dispatch
  PROVE  Counters'
\* Nothing but an END_FILE reports the end of a file.
<1>1. ASSUME NEW name, Receives(name), name # "END_FILE"
      PROVE  /\ mpv # NULL /\ mpv.events # <<>> /\ playlist_loops \in Nat
             /\ Steady(Rest, playlist_loops, loop_state)
  <2>1. mpv # NULL /\ mpv.events # <<>> /\ Head(mpv.events).name = name
    BY <1>1 DEF Receives
  <2>2. Len(mpv.events) \in Nat \ {0} /\ Head(mpv.events) = mpv.events[1]
    BY <2>1, RestFacts
  <2>3. ~ mpv.disturbed => ~ Eof(Head(mpv.events))
    BY <1>1, <2>1, <2>2 DEF Counters, Steady, OneEof
  <2> QED  BY <2>1, <2>3, RestSteady DEF Counters
<1>2. ASSUME NEW name, Receives(name), name # "END_FILE", mpv' = Rest, UNCHANGED <<playlist_loops, loop_state>>
      PROVE  Counters'
  <2> HIDE DEF Rest
  <2> QED  BY <1>1, <1>2 DEF Counters
<1>3. ASSUME End, UNCHANGED playlist_loops PROVE Counters'
  BY <1>3 DEF End, Counters
<1>4. CASE MessageNext
  <2>1. Receives("next")
    BY <1>4 DEF MessageNext
  <2>2. CASE Moves
    <3>1. JfPlaybackNext(Skipped, "MENU_UI") /\ Skipped.disturbed
      BY <1>1, <1>4, <2>1, <2>2, SkippedFacts DEF MessageNext
    <3> QED  BY <2>1, <2>2, <3>1, NextDisturbed
  <2>3. CASE ~ Moves
    BY <1>2, <1>4, <2>1, <2>3 DEF MessageNext, Becomes
  <2> QED  BY <2>2, <2>3
<1>5. CASE MessagePrevious
  <2> DEFINE pos == PreviousPosition(playlist_position, Count)
  <2>1. Receives("prev") /\ UNCHANGED <<playlist_loops, loop_state>>
    BY <1>5 DEF MessagePrevious
  <2>2. pos \in Items /\ mpv # NULL /\ mpv.events # <<>> /\ Len(Rest.events) <= MaxEvents
    BY <2>1, Received, Steps
  <2>3. CASE PreviousMoves(playlist_position, playlist_loops)
    <3>1. PICK o \in PlayItem(playlist[pos], "SEEKING") : Play(o, Skipped, pos, o.state)
      BY <1>5, <2>3 DEF MessagePrevious
    <3>2. /\ Skipped \in Cores /\ Len(Skipped.events) <= MaxEvents /\ Skipped.disturbed
          /\ Skipped.loop = Rest.loop
      BY <2>2, SkippedFacts
    <3>3. Steady(Skipped, playlist_loops', loop_state') /\ playlist_loops' \in Nat
      BY <1>1, <2>1, <3>2 DEF Steady
    <3> HIDE DEF pos
    <3> QED  BY <2>2, <3>1, <3>2, <3>3, PlayCounters
  <2>4. CASE ~ PreviousMoves(playlist_position, playlist_loops)
    BY <1>2, <1>5, <2>1, <2>4 DEF MessagePrevious, Becomes
  <2> QED  BY <2>3, <2>4
<1>6. CASE MessageShuffle
  BY <1>2, <1>6 DEF MessageShuffle, Becomes
<1>7. CASE StartFile
  BY <1>2, <1>7 DEF StartFile, Becomes
<1>8. CASE Seek
  <2>1. Receives("SEEK") /\ UNCHANGED <<playlist_loops, loop_state>>
    BY <1>8 DEF Seek
  <2>2. CASE mpv' = Rest
    BY <1>2, <2>1, <2>2
  <2>3. CASE mpv' = [Rest EXCEPT !.start = FALSE]
    <3>1. Rest \in Cores
      BY <2>1, Received
    <3>2. /\ mpv'.events = Rest.events /\ mpv'.loop = Rest.loop /\ mpv'.told = Rest.told
          /\ mpv'.load = Rest.load /\ mpv'.file = Rest.file /\ mpv'.disturbed = Rest.disturbed
      <4> HIDE DEF Rest
      <4> QED  BY <2>3, <3>1 DEF Cores
    <3>3. Steady(mpv', playlist_loops, loop_state) /\ playlist_loops \in Nat
      <4>1. Steady(Rest, playlist_loops, loop_state) /\ playlist_loops \in Nat
        BY <1>1, <2>1
      <4> HIDE DEF Rest
      <4> QED  BY <3>2, <4>1, SameSteady
    <3> QED  BY <2>1, <3>3 DEF Counters
  <2> QED  BY <1>8, <2>2, <2>3 DEF Seek
<1>9. CASE Idle
  <2>1. Receives("IDLE") /\ UNCHANGED <<playlist_loops, loop_state>> /\ (End \/ mpv' = Rest)
    BY <1>9 DEF Idle, Becomes
  <2> QED  BY <1>2, <1>3, <2>1
<1>10. CASE Shutdown
  BY <1>3, <1>10 DEF Shutdown
<1> QED  BY <1>4, <1>5, <1>6, <1>7, <1>8, <1>9, <1>10, EndOfFileCounters, LoopChangeCounters DEF Dispatch

\* The core plays and its user sets the option: what ends or changes while a count is to be
\* reported disturbs; and nothing else needs to be looked at.
LEMMA CoreCounters ==
  ASSUME IInv, Counters, LoopValues \subseteq Nat, Core \/ User
  PROVE  Counters'
<1>1. mpv # NULL /\ UNCHANGED <<playlist_loops, loop_state>>
  BY DEF Core, CoreIdle, CoreStart, CoreLoop, CoreSeek, CoreEof, CoreStop, CoreError, Emit,
         User, UserControl, UserLoop, UserQuit, game
<1>2. /\ mpv \in Cores /\ mpv.events \in Seq(Events) /\ Len(mpv.events) \in Nat
      /\ mpv.loop \in Nat /\ mpv.disturbed \in BOOLEAN /\ (mpv.run = "playing" => mpv.file # NULL)
      /\ ~ mpv.disturbed => OneEof(mpv) /\ InStep(mpv, playlist_loops, loop_state)
  BY <1>1, Running, LenProperties DEF Counters, Steady, Shows, Cores
<1>3. SUFFICES Steady(mpv', playlist_loops, loop_state)
  BY <1>1 DEF Counters
\* What leaves the loop option alone, and gives the core another file only when main has told it to.
<1>4. ASSUME NEW event \in Events, ~ Eof(event), mpv'.events = Append(mpv.events, event), mpv'.loop = mpv.loop,
             mpv'.told = mpv.told, mpv'.disturbed = mpv.disturbed,
             mpv.load = NULL => mpv'.load = NULL /\ mpv'.file \in {mpv.file, NULL}
      PROVE  Steady(mpv', playlist_loops, loop_state)
  <2> SUFFICES ASSUME ~ mpv.disturbed
               PROVE  OneEof(mpv') /\ InStep(mpv', playlist_loops, loop_state)
    BY <1>2, <1>4 DEF Steady
  <2>1. EofQueued(mpv) => mpv'.load = NULL /\ (mpv'.file # NULL => mpv'.told # mpv'.loop)
    BY <1>2, <1>4 DEF OneEof
  <2>2. OneEof(mpv') /\ (EofQueued(mpv') <=> EofQueued(mpv))
    BY <1>2, <1>4, <2>1, EofMore
  <2> QED  BY <1>2, <1>4, <2>2 DEF InStep, PlayInStep, EndInStep
<1>5. /\ \A name \in {"IDLE", "START_FILE", "SEEK", "SHUTDOWN", "next", "prev", "shuffle"} :
           Event(name) \in Events /\ ~ Eof(Event(name))
      /\ \A reason \in {"stop", "error", "quit"} :
           EndFile(reason) \in Events /\ ~ Eof(EndFile(reason))
  <2>1. /\ \A name : ~ Eof(Event(name))
        /\ \A reason \in {"stop", "error", "quit"} : ~ Eof(EndFile(reason))
    BY DEF Event, EndFile, Eof
  <2> QED  BY <2>1, EventTypes
<1>6. CASE CoreIdle
  <2> DEFINE core == [mpv EXCEPT !.run = "idle"]
  <2>1. mpv' = [core EXCEPT !.events = Append(@, Event("IDLE"))]
    BY <1>6 DEF CoreIdle, Emit
  <2>2. /\ core.events = mpv.events /\ core.loop = mpv.loop /\ core.told = mpv.told /\ core.load = mpv.load
        /\ core.file = mpv.file /\ core.disturbed = mpv.disturbed /\ "events" \in DOMAIN core
    BY <1>2 DEF Cores
  <2> HIDE DEF core
  <2>3. /\ mpv'.events = Append(mpv.events, Event("IDLE")) /\ mpv'.loop = mpv.loop /\ mpv'.told = mpv.told
        /\ mpv'.load = mpv.load /\ mpv'.file = mpv.file /\ mpv'.disturbed = mpv.disturbed
    BY <2>1, <2>2
  <2> QED  BY <1>4, <1>5, <2>3
<1>7. CASE CoreStart
  <2> DEFINE core == [mpv EXCEPT !.run = "playing", !.file = mpv.load, !.load = NULL, !.seek = mpv.start]
  <2>1. mpv' = [core EXCEPT !.events = Append(@, Event("START_FILE"))] /\ mpv.load # NULL
    BY <1>7 DEF CoreStart, Emit
  <2>2. /\ core.events = mpv.events /\ core.loop = mpv.loop /\ core.told = mpv.told
        /\ core.disturbed = mpv.disturbed /\ "events" \in DOMAIN core
    BY <1>2 DEF Cores
  <2> HIDE DEF core
  <2>3. /\ mpv'.events = Append(mpv.events, Event("START_FILE")) /\ mpv'.loop = mpv.loop /\ mpv'.told = mpv.told
        /\ mpv'.disturbed = mpv.disturbed
    BY <2>1, <2>2
  <2> QED  BY <1>4, <1>5, <2>1, <2>3
<1>8. CASE CoreLoop \/ CoreSeek
  <2>1. PICK core \in {[mpv EXCEPT !.run = "playing"], [mpv EXCEPT !.seek = FALSE]},
             event \in {Event("START_FILE"), Event("SEEK")} :
          mpv' = [core EXCEPT !.events = Append(@, event)]
    BY <1>8 DEF CoreLoop, CoreSeek, Emit
  <2>2. /\ core.events = mpv.events /\ core.loop = mpv.loop /\ core.told = mpv.told /\ core.load = mpv.load
        /\ core.file = mpv.file /\ core.disturbed = mpv.disturbed /\ "events" \in DOMAIN core
    BY <1>2 DEF Cores
  <2>3. /\ mpv'.events = Append(mpv.events, event) /\ mpv'.loop = mpv.loop /\ mpv'.told = mpv.told
        /\ mpv'.load = mpv.load /\ mpv'.file = mpv.file /\ mpv'.disturbed = mpv.disturbed
    BY <2>1, <2>2
  <2>4. event \in Events /\ ~ Eof(event)
    BY <1>5
  <2> QED  BY <1>4, <2>3, <2>4
<1>9. CASE CoreStop \/ CoreError
  <2> DEFINE core == [mpv EXCEPT !.run = "ended", !.file = NULL, !.seek = FALSE]
  <2>1. PICK reason \in {"stop", "error"} : mpv' = [core EXCEPT !.events = Append(@, EndFile(reason))]
    BY <1>9 DEF CoreStop, CoreError, Emit
  <2>2. /\ core.events = mpv.events /\ core.loop = mpv.loop /\ core.told = mpv.told /\ core.load = mpv.load
        /\ core.file = NULL /\ core.disturbed = mpv.disturbed /\ "events" \in DOMAIN core
    BY <1>2 DEF Cores
  <2> HIDE DEF core
  <2>3. /\ mpv'.events = Append(mpv.events, EndFile(reason)) /\ mpv'.loop = mpv.loop /\ mpv'.told = mpv.told
        /\ mpv'.load = mpv.load /\ mpv'.file = NULL /\ mpv'.disturbed = mpv.disturbed
    BY <2>1, <2>2
  <2> QED  BY <1>4, <1>5, <2>3
<1>10. CASE CoreEof
  <2> DEFINE loop == IF mpv.loop > 1 THEN mpv.loop - 1 ELSE mpv.loop
             file == IF mpv.loop \in {0, 1} THEN NULL ELSE mpv.file
             core == [mpv EXCEPT !.run = "ended", !.file = IF mpv.loop \in {0, 1} THEN NULL ELSE @,
                                 !.loop = IF @ > 1 THEN @ - 1 ELSE @, !.disturbed = Recounted]
             end == EndFile("eof")
  <2>1. mpv' = [core EXCEPT !.events = Append(@, end)] /\ mpv.run = "playing" /\ mpv.load = NULL
    BY <1>10 DEF CoreEof, Emit
  <2>2. /\ core.events = mpv.events /\ core.loop = loop /\ core.told = mpv.told /\ core.load = mpv.load
        /\ core.file = file /\ core.disturbed = Recounted /\ "events" \in DOMAIN core
    BY <1>2 DEF Cores
  <2>3. end \in Events /\ Eof(end) /\ end.name = "END_FILE"
    <3>1. Eof(end) /\ end.name = "END_FILE"
      BY DEF EndFile, Eof
    <3> QED  BY <3>1, EventTypes
  <2> HIDE DEF core, end
  <2>4. /\ mpv'.events = Append(mpv.events, end) /\ mpv'.loop = loop /\ mpv'.told = mpv.told
        /\ mpv'.load = NULL /\ mpv'.file = file /\ mpv'.disturbed = Recounted
    BY <2>1, <2>2
  <2>5. mpv'.loop \in Nat
    BY <1>2, <2>4
  <2> SUFFICES ASSUME ~ Recounted
               PROVE  OneEof(mpv') /\ InStep(mpv', playlist_loops, loop_state)
    BY <2>4, <2>5 DEF Steady
  <2>6. ~ mpv.disturbed /\ mpv.told = mpv.loop
    BY DEF Recounted
  <2>7. ~ EofQueued(mpv)
    BY <1>2, <2>1, <2>6 DEF OneEof
  <2>8. loop_state = "IN_SYNC" /\ Agree(playlist_loops, mpv.loop) /\ playlist_loops \in Nat
    BY <1>2, <2>6, <2>7 DEF InStep, PlayInStep, IInv, TypeOK, Counters
  <2>9. EndInStep(mpv', playlist_loops) /\ (mpv'.file # NULL => mpv'.told # mpv'.loop)
    <3>1. CASE mpv.loop > 1
      <4>1. mpv'.loop = mpv.loop - 1 /\ playlist_loops = mpv.loop
        BY <2>4, <2>8, <3>1 DEF Agree
      <4> HIDE DEF loop, file
      <4> QED  BY <1>2, <2>4, <2>6, <3>1, <4>1 DEF EndInStep
    <3>2. CASE ~ mpv.loop > 1
      <4>1. mpv'.loop = mpv.loop /\ mpv'.file = NULL
        BY <1>2, <2>4, <3>2
      <4>2. playlist_loops <= 1
        BY <1>2, <2>8, <3>2 DEF Agree
      <4> HIDE DEF loop, file
      <4> QED  BY <2>4, <2>6, <2>8, <4>1, <4>2 DEF EndInStep
    <3> QED  BY <3>1, <3>2
  <2>10. OneEof(mpv') /\ EofQueued(mpv')
    <3>1. OneEof(mpv)
      BY <1>2, <2>6
    <3> HIDE DEF loop, file
    <3> QED  BY <1>2, <2>3, <2>4, <2>7, <2>9, <3>1, EofMore
  <2> QED  BY <2>8, <2>9, <2>10 DEF InStep
<1>11. CASE UserControl
  <2>1. PICK c \in Controls : mpv' = [mpv EXCEPT !.events = Append(@, Event(c))]
    BY <1>11 DEF UserControl
  <2>2. Event(c) \in Events /\ ~ Eof(Event(c))
    BY <1>5, ControlsAssumption
  <2>3. /\ mpv'.events = Append(mpv.events, Event(c)) /\ mpv'.loop = mpv.loop /\ mpv'.told = mpv.told
        /\ mpv'.load = mpv.load /\ mpv'.file = mpv.file /\ mpv'.disturbed = mpv.disturbed
    BY <1>2, <2>1 DEF Cores
  <2> QED  BY <1>4, <2>2, <2>3
<1>12. CASE UserLoop
  <2>1. PICK n \in Nat : mpv' = [mpv EXCEPT !.loop = n, !.disturbed = Recounted]
    BY <1>12 DEF UserLoop
  <2>2. /\ mpv'.events = mpv.events /\ mpv'.load = mpv.load /\ mpv'.file = mpv.file /\ mpv'.told = mpv.told
        /\ mpv'.loop = n /\ mpv'.disturbed = Recounted
    BY <1>2, <2>1 DEF Cores
  <2> SUFFICES ASSUME ~ Recounted
               PROVE  OneEof(mpv') /\ InStep(mpv', playlist_loops, loop_state)
    BY <2>2 DEF Steady
  <2>3. /\ mpv.told = mpv.loop /\ OneEof(mpv) /\ InStep(mpv, playlist_loops, loop_state)
    BY <1>2 DEF Recounted
  <2>4. EofQueued(mpv') <=> EofQueued(mpv)
    BY <2>2 DEF EofQueued
  <2>5. OneEof(mpv')
    BY <2>2, <2>3, <2>4 DEF OneEof
  <2>6. CASE EofQueued(mpv)
    <3>1. loop_state = "IN_SYNC" /\ playlist_loops <= 1 /\ Agree(playlist_loops, mpv.loop)
      BY <1>2, <2>3, <2>6 DEF InStep, EndInStep
    <3> QED  BY <2>2, <2>3, <2>4, <2>5, <2>6, <3>1 DEF InStep, EndInStep
  <2>7. CASE ~ EofQueued(mpv)
    <3>1. loop_state = "IN_SYNC" /\ Agree(playlist_loops, mpv.loop)
      BY <1>2, <2>3, <2>7 DEF InStep, PlayInStep, IInv, TypeOK
    <3> QED  BY <2>2, <2>3, <2>4, <2>5, <2>7, <3>1 DEF InStep, PlayInStep
  <2> QED  BY <2>6, <2>7
<1>13. CASE UserQuit
  <2> DEFINE gone == Event("SHUTDOWN")
             end == EndFile("quit")
  <2>1. gone \in Events /\ ~ Eof(gone) /\ end \in Events /\ ~ Eof(end)
    BY <1>5
  <2>2. PICK ends \in {<<>>, <<end>>} :
          mpv' = [mpv EXCEPT !.run = "dead", !.load = NULL, !.events = @ \o ends \o <<gone>>]
    BY <1>13 DEF UserQuit
  <2> HIDE DEF gone, end
  <2>3. /\ mpv'.events = mpv.events \o ends \o <<gone>> /\ mpv'.loop = mpv.loop /\ mpv'.told = mpv.told
        /\ mpv'.load = NULL /\ mpv'.file = mpv.file /\ mpv'.disturbed = mpv.disturbed
    BY <1>2, <2>2 DEF Cores
  <2>4. CASE ends = <<>>
    <3>1. mpv'.events = Append(mpv.events, gone)
      <4>1. mpv.events \o <<>> = mpv.events
        BY <1>2, ConcatEmptySeq
      <4>2. mpv.events \o <<gone>> = Append(mpv.events, gone)
        BY <1>2, <2>1, AppendIsConcat
      <4> QED  BY <2>3, <2>4, <4>1, <4>2
    <3> QED  BY <1>4, <2>1, <2>3, <3>1
  <2>5. CASE ends = <<end>>
    <3> DEFINE core == [mpv EXCEPT !.load = NULL, !.events = Append(@, end)]
               both == Append(mpv.events, end)
    <3>1. /\ core.events = both /\ core.load = NULL /\ core.loop = mpv.loop /\ core.told = mpv.told
          /\ core.file = mpv.file /\ both \in Seq(Events)
      <4>1. core.events = both /\ core.load = NULL /\ core.loop = mpv.loop /\ core.told = mpv.told
            /\ core.file = mpv.file
        BY <1>2 DEF Cores
      <4>2. both \in Seq(Events)
        BY <1>2, <2>1, AppendProperties
      <4> QED  BY <4>1, <4>2
    <3>2. mpv.events \o <<end>> = both
      BY <1>2, <2>1, AppendIsConcat
    <3> HIDE DEF core
    <3>3. both \o <<gone>> = Append(both, gone)
      BY <2>1, <3>1, AppendIsConcat
    <3>4. mpv'.events = Append(both, gone)
      BY <2>3, <2>5, <3>2, <3>3
    <3> SUFFICES ASSUME ~ mpv.disturbed
                 PROVE  OneEof(mpv') /\ InStep(mpv', playlist_loops, loop_state)
      BY <1>2, <2>3 DEF Steady
    <3>5. OneEof(core) /\ (EofQueued(core) <=> EofQueued(mpv))
      <4>1. EofQueued(mpv) /\ core.file # NULL => core.told # core.loop
        BY <1>2, <3>1 DEF OneEof
      <4>2. core.events = Append(mpv.events, end)
        BY <3>1
      <4> HIDE DEF both
      <4> QED  BY <1>2, <2>1, <3>1, <4>1, <4>2, EofMore
    <3>6. OneEof(mpv') /\ (EofQueued(mpv') <=> EofQueued(core))
      <4>1. EofQueued(core) /\ mpv'.file # NULL => mpv'.told # mpv'.loop
        BY <2>3, <3>1, <3>5 DEF OneEof
      <4> HIDE DEF both
      <4> QED  BY <2>1, <2>3, <3>1, <3>4, <3>5, <4>1, EofMore
    <3> QED  BY <1>2, <2>3, <3>5, <3>6 DEF InStep, PlayInStep, EndInStep
  <2> QED  BY <2>2, <2>4, <2>5
<1> QED  BY <1>6, <1>7, <1>8, <1>9, <1>10, <1>11, <1>12, <1>13 DEF Core, User

\* If the user gives counts, the counters are as described.
LEMMA CountersInvariance ==
  ASSUME LoopValues \subseteq Nat
  PROVE  Spec => []Counters
<1>1. Init => Counters
  BY DEF Init, Counters
<1>2. IInv /\ Counters /\ [Next]_vars => Counters'
  <2> SUFFICES ASSUME IInv, Counters, [Next]_vars PROVE Counters'
    OBVIOUS
  <2>1. CASE TryPlay
    <3>1. PICK o \in PlayItem(playlist[1], "INIT"), core \in NewCores : Play(o, core, 1, o.state)
      BY <2>1 DEF TryPlay
    <3>2. playlist_loops' = 0 /\ loop_state' = "IN_SYNC" /\ 1 \in Items
      BY <2>1, CountAssumption DEF TryPlay, Items
    <3>3. core \in Cores /\ Len(core.events) <= MaxEvents /\ Fresh(core)
      BY NewCoreFacts
    <3>4. OneEof(core) /\ InStep(core, playlist_loops', loop_state') /\ core.loop \in Nat /\ ~ EofQueued(core)
      BY <3>2, <3>3, FreshCounters DEF Fresh
    <3> QED  BY <3>1, <3>2, <3>3, <3>4, PlayCounters DEF Steady
  <2>2. CASE UNCHANGED vars
    BY <2>2 DEF vars, Counters, Steady, OneEof, InStep, EofQueued, PlayInStep, EndInStep, Agree, Eof
  <2> QED  BY <2>1, <2>2, DispatchCounters, CoreCounters DEF Next
<1> QED  BY <1>1, <1>2, Invariance, PTL DEF Spec

\* Whatever counts the user sets, whatever is skipped, fails or stops: once every change of the
\* count has been reported before the next one, and before the file ended, since main last took
\* mpv's count for its own, and the user has not skipped since, both hold the same count.
THEOREM AlwaysLoopsAgree ==
  ASSUME LoopValues \subseteq Nat
  PROVE  Spec => []LoopsAgree
<1>1. IInv /\ Counters => LoopsAgree
  <2> SUFFICES ASSUME IInv, Counters, Orderly
               PROVE  Agree(playlist_loops, mpv.loop)
    BY DEF LoopsAgree, Agree
  <2>1. mpv # NULL /\ mpv.events = <<>> /\ mpv.told = mpv.loop /\ ~ mpv.disturbed
    BY DEF Orderly, Told, Settled
  <2>2. ~ EofQueued(mpv)
    BY <2>1, EmptySeq DEF EofQueued
  <2> QED  BY <2>1, <2>2 DEF Counters, Steady, InStep, PlayInStep, IInv, TypeOK
<1> QED  BY <1>1, Invariance, CountersInvariance, PTL

\* And main then waits for the report of a decrement only while there is one to come.
THEOREM AlwaysOutOfSyncEnds ==
  ASSUME LoopValues \subseteq Nat
  PROVE  Spec => []OutOfSyncEnds
<1>1. IInv /\ Counters => OutOfSyncEnds
  <2> SUFFICES ASSUME IInv, Counters, Orderly
               PROVE  loop_state = "IN_SYNC"
    BY DEF OutOfSyncEnds
  <2>1. mpv # NULL /\ mpv.events = <<>> /\ mpv.told = mpv.loop /\ ~ mpv.disturbed
    BY DEF Orderly, Told, Settled
  <2>2. ~ EofQueued(mpv)
    BY <2>1, EmptySeq DEF EofQueued
  <2> QED  BY <2>1, <2>2 DEF Counters, Steady, InStep, PlayInStep, IInv, TypeOK
<1> QED  BY <1>1, Invariance, CountersInvariance, PTL

-----------------------------------------------------------------------------
(***************************************************************************)
(* The parts of an item.                                                   *)
(***************************************************************************)

\* Where a part begins: at 0, or where the part before it ends.
LEMMA PartsFollow ==
  ASSUME NEW i \in Items
  PROVE  /\ Len(Runtimes[i]) \in Nat \ {0} /\ Parts(i) = 1 .. Len(Runtimes[i])
         /\ \A k \in Parts(i) : Runtimes[i][k] \in Nat \ {0}
         /\ \A k \in 1 .. Len(Runtimes[i]) + 1 : Before(i, k) \in Nat
         /\ Before(i, 1) = 0
         /\ \A k \in Parts(i) : Before(i, k + 1) = Before(i, k) + Runtimes[i][k]
<1> DEFINE R == Runtimes[i]
           n == Len(R)
           Body(f) == [k \in 1 .. n + 1 |-> IF k = 1 THEN 0 ELSE f[k - 1] + R[k - 1]]
           offset == CHOOSE f : f = Body(f)
<1>1. R \in Seq(Nat \ {0}) /\ R # <<>>
  BY RuntimesAssumption
<1>2. n \in Nat \ {0} /\ Parts(i) = 1 .. n /\ \A k \in 1 .. n : R[k] \in Nat \ {0}
  <2> HIDE DEF R
  <2>1. n \in Nat \ {0} /\ DOMAIN R = 1 .. n /\ \A k \in 1 .. n : R[k] \in Nat \ {0}
    BY <1>1, EmptySeq, LenProperties
  <2> QED  BY <2>1 DEF Parts, R
<1>3. \A k : Before(i, k) = offset[k]
  BY DEF Before, Offsets
<1>4. \E f : f = Body(f)
  <2> DEFINE step == [p \in Nat \X Nat |-> IF p[1] \in 1 .. n THEN p[2] + R[p[1]] ELSE p[2]]
  <2>1. step \in [Nat \X Nat -> Nat]
    <3> HIDE DEF n, R
    <3> QED  BY <1>2
  <2>2. PICK g : Iterates(g, Nat, 0, step, n)
    <3> HIDE DEF step, n
    <3> QED  BY <1>2, <2>1, Iteration
  <2> DEFINE f == [k \in 1 .. n + 1 |-> g[k - 1]]
  <2>3. ASSUME NEW k \in 1 .. n + 1, k # 1
        PROVE  g[k - 1] = f[k - 1] + R[k - 1]
    <3>1. k - 1 \in 1 .. n /\ (k - 1) - 1 \in 0 .. n
      BY <1>2, <2>3
    <3>2. g[k - 1] = step[<<k - 1, g[(k - 1) - 1]>>] /\ g[(k - 1) - 1] \in Nat
      BY <2>2, <3>1 DEF Iterates
    <3>3. f[k - 1] = g[(k - 1) - 1]
      BY <1>2, <3>1
    <3> HIDE DEF f, n, R
    <3> QED  BY <1>2, <3>1, <3>2, <3>3
  <2>4. g[0] = 0
    BY <2>2 DEF Iterates
  <2>5. f = Body(f)
    <3> DEFINE h == Body(f)
    <3>1. \A k \in 1 .. n + 1 : h[k] = IF k = 1 THEN 0 ELSE f[k - 1] + R[k - 1]
      OBVIOUS
    <3>2. \A k \in 1 .. n + 1 : f[k] = g[k - 1]
      OBVIOUS
    <3>3. DOMAIN f = 1 .. n + 1 /\ DOMAIN h = 1 .. n + 1 /\ f = [k \in DOMAIN f |-> f[k]] /\ h = [k \in DOMAIN h |-> h[k]]
      OBVIOUS
    <3>4. \A k \in 1 .. n + 1 : f[k] = h[k]
      <4> HIDE DEF f, h
      <4> QED  BY <2>3, <2>4, <3>1, <3>2
    <3>5. f = h
      <4> HIDE DEF f, h
      <4> QED  BY <3>3, <3>4
    <3> QED  BY <3>5
  <2> QED  BY <2>5
<1>5. offset = Body(offset)
  <2> HIDE DEF Body
  <2> QED  BY <1>4
<1> HIDE DEF offset, n, R
<1>6. \A k \in 1 .. n + 1 : offset[k] = IF k = 1 THEN 0 ELSE offset[k - 1] + R[k - 1]
  BY <1>5
<1> DEFINE Bad == {k \in 1 .. n + 1 : offset[k] \notin Nat}
<1>7. Bad = {}
  <2> SUFFICES ASSUME Bad # {} PROVE FALSE
    OBVIOUS
  <2>1. Bad \in SUBSET Nat
    BY <1>2
  <2>2. PICK k \in Bad : \A l \in Bad : k <= l
    BY <2>1, Least
  <2>3. k # 1
    BY <1>6, <2>2
  <2>4. k - 1 \in 1 .. n /\ k - 1 \notin Bad
    BY <1>2, <2>2, <2>3
  <2>5. offset[k - 1] \in Nat /\ R[k - 1] \in Nat
    BY <1>2, <2>4
  <2> QED  BY <1>6, <2>2, <2>3, <2>5
<1>8. 1 \in 1 .. n + 1 /\ \A k \in 1 .. n : k + 1 \in 1 .. n + 1 /\ k + 1 # 1 /\ (k + 1) - 1 = k
  BY <1>2
<1>9. offset[1] = 0 /\ \A k \in 1 .. n : offset[k + 1] = offset[k] + R[k]
  BY <1>6, <1>8
<1>10. \A k \in 1 .. n + 1 : offset[k] \in Nat
  BY <1>7
<1> HIDE DEF Bad
<1>11. /\ n \in Nat \ {0} /\ Parts(i) = 1 .. n
       /\ \A k \in Parts(i) : R[k] \in Nat \ {0}
       /\ \A k \in 1 .. n + 1 : Before(i, k) \in Nat
       /\ Before(i, 1) = 0
       /\ \A k \in Parts(i) : Before(i, k + 1) = Before(i, k) + R[k]
  BY <1>2, <1>3, <1>9, <1>10
<1> QED  BY <1>11 DEF n, R

Covers(i, k, t) == k \in Parts(i) /\ Before(i, k) <= t /\ t < Before(i, k) + Runtimes[i][k]

\* No two parts overlap.
LEMMA PartsApart ==
  ASSUME NEW i \in Items, NEW k \in Parts(i), NEW l \in Parts(i), k < l
  PROVE  Before(i, k) + Runtimes[i][k] <= Before(i, l)
<1> DEFINE n == Len(Runtimes[i])
           end == Before(i, k) + Runtimes[i][k]
           Bad == {m \in k + 1 .. n : ~ end <= Before(i, m)}
<1>1. /\ n \in Nat /\ k \in 1 .. n /\ l \in k + 1 .. n /\ end \in Nat /\ end = Before(i, k + 1)
      /\ \A m \in 1 .. n : /\ Before(i, m + 1) = Before(i, m) + Runtimes[i][m]
                           /\ Before(i, m) \in Nat /\ Runtimes[i][m] \in Nat
  <2>1. n \in Nat \ {0} /\ Parts(i) = 1 .. n
    BY PartsFollow
  <2>2. \A m \in 1 .. n : Runtimes[i][m] \in Nat /\ Before(i, m + 1) = Before(i, m) + Runtimes[i][m]
    BY <2>1, PartsFollow
  <2>3. \A m \in 1 .. n + 1 : Before(i, m) \in Nat
    BY PartsFollow
  <2> HIDE DEF n
  <2>4. \A m \in 1 .. n : Before(i, m) \in Nat
    BY <2>1, <2>3
  <2>5. k \in 1 .. n /\ l \in k + 1 .. n
    BY <2>1
  <2>6. end \in Nat /\ end = Before(i, k + 1)
    <3>1. Before(i, k) \in Nat /\ Runtimes[i][k] \in Nat /\ Before(i, k + 1) = Before(i, k) + Runtimes[i][k]
      BY <2>2, <2>4, <2>5
    <3> QED  BY <3>1
  <2> HIDE DEF end
  <2> QED  BY <2>1, <2>2, <2>4, <2>5, <2>6
<1> HIDE DEF end, n
<1>2. Bad = {}
  <2> SUFFICES ASSUME Bad # {} PROVE FALSE
    OBVIOUS
  <2>1. Bad \in SUBSET Nat
    BY <1>1
  <2>2. PICK m \in Bad : \A j \in Bad : m <= j
    BY <2>1, Least
  <2>3. m # k + 1 /\ m \in k + 1 .. n
    BY <1>1, <2>2
  <2>4. m - 1 \in k + 1 .. n /\ m - 1 \notin Bad /\ m - 1 \in 1 .. n /\ (m - 1) + 1 = m
    BY <1>1, <2>2, <2>3
  <2>5. end <= Before(i, m - 1) /\ Before(i, m) = Before(i, m - 1) + Runtimes[i][m - 1]
    BY <1>1, <2>4
  <2> QED  BY <1>1, <2>2, <2>4, <2>5
<1> QED  BY <1>1, <1>2 DEF end

\* A position is in the part that PartAt gives, if any, and in no other.
LEMMA PartIs ==
  ASSUME NEW i \in Items, NEW t \in Nat
  PROVE  /\ PartAt(i, t) # 0 => Covers(i, PartAt(i, t), t)
         /\ \A k : Covers(i, k, t) => PartAt(i, t) = k
<1> DEFINE ks == {k \in Parts(i) : Before(i, k) <= t /\ t < Before(i, k) + Runtimes[i][k]}
<1>1. PartAt(i, t) = IF ks = {} THEN 0 ELSE CHOOSE k \in ks : TRUE
  BY DEF PartAt
<1>2. ks # {} => PartAt(i, t) \in ks
  BY <1>1
<1>3. \A k : k \in ks <=> Covers(i, k, t)
  BY DEF Covers
<1>4. PartAt(i, t) # 0 => Covers(i, PartAt(i, t), t)
  <2> HIDE DEF ks
  <2> QED  BY <1>1, <1>2, <1>3
<1>5. ASSUME NEW k, Covers(i, k, t) PROVE PartAt(i, t) = k
  <2> DEFINE l == PartAt(i, t)
  <2>1. Covers(i, l, t)
    <3> HIDE DEF ks
    <3> QED  BY <1>2, <1>3, <1>5
  <2> HIDE DEF l
  <2>2. k \in Parts(i) /\ l \in Parts(i)
    BY <1>5, <2>1 DEF Covers
  <2>3. k \in Nat /\ l \in Nat /\ \A m \in Parts(i) : Before(i, m) \in Nat /\ Runtimes[i][m] \in Nat
    <3>1. Parts(i) = 1 .. Len(Runtimes[i]) /\ Len(Runtimes[i]) \in Nat
      BY PartsFollow
    <3>2. \A m \in 1 .. Len(Runtimes[i]) + 1 : Before(i, m) \in Nat
      BY PartsFollow
    <3>3. \A m \in Parts(i) : Runtimes[i][m] \in Nat
      BY PartsFollow
    <3> QED  BY <2>2, <3>1, <3>2, <3>3
  <2>4. ~ k < l
    BY <1>5, <2>1, <2>2, <2>3, PartsApart DEF Covers
  <2>5. ~ l < k
    BY <1>5, <2>1, <2>2, <2>3, PartsApart DEF Covers
  <2>6. l = k
    BY <2>3, <2>4, <2>5
  <2> QED  BY <2>6 DEF l
<1> QED  BY <1>4, <1>5

-----------------------------------------------------------------------------
(***************************************************************************)
(* The sessions of items in parts.                                         *)
(***************************************************************************)

\* The post says where in the item position t is.
Situated(item, post, t) ==
    /\ post.part \in Parts(item)
    /\ post.ticks \in Int /\ Before(item, post.part) + post.ticks = t
    /\ IsSplit(item) => Covers(item, post.part, t)

\* Position t of the item is in no part, and never posted.
Nowhere(item, t) == IsSplit(item) /\ PartAt(item, t) = 0

\* The parts are flagged as if playback had gone through the item up to the part of the post.
FlaggedAt(item, part, flags) ==
    \A k \in Parts(item) : (k < part => flags[k] = "played") /\ (k > part => flags[k] = "unplayed")

\* A post of no other item is recalled, and positions are not negative.
Posted ==
    /\ ticks \in Nat
    /\ DOMAIN flagged = Items
    /\ told # NULL => \/ Nowhere(now_playing, ticks)
                      \/ now_playing \in Items /\ Situated(now_playing, told, ticks)
    /\ moved = "posted" =>
         /\ now_playing \in Items /\ IsSplit(now_playing) /\ Situated(now_playing, told, ticks)
         /\ FlaggedAt(now_playing, told.part, flagged[now_playing])

\* Position t, posted with its part.
LEMMA PostOfSituated ==
  ASSUME NEW i \in Items, NEW t \in Nat, ~ Nowhere(i, t)
  PROVE  Situated(i, PostOf(i, t), t) /\ (IsSplit(i) => PostOf(i, t).part = PartAt(i, t))
<1> DEFINE part == IF IsSplit(i) THEN PartAt(i, t) ELSE 1
           post == [part |-> part, ticks |-> t - Before(i, part)]
<1>1. PostOf(i, t) = post
  BY DEF PostOf
<1>2. IsSplit(i) => Covers(i, part, t)
  BY PartIs DEF Nowhere
<1>3. part \in Parts(i) /\ Before(i, part) \in Nat
  <2>1. CASE IsSplit(i)
    <3>1. part \in Parts(i)
      BY <1>2, <2>1 DEF Covers
    <3> HIDE DEF part
    <3> QED  BY <3>1, PartsFollow
  <2>2. CASE ~ IsSplit(i)
    BY <2>2, PartsFollow
  <2> QED  BY <2>1, <2>2
<1>4. IsSplit(i) => part = PartAt(i, t)
  OBVIOUS
<1> HIDE DEF part
<1>5. post.part = part /\ post.ticks \in Int /\ Before(i, part) + post.ticks = t
  BY <1>3
<1> HIDE DEF post
<1> QED  BY <1>1, <1>2, <1>3, <1>4, <1>5 DEF Situated

\* Posting a position of the item playing, or not.
LEMMA PostPosted ==
  ASSUME Posted, now_playing \in Items, NEW t \in Nat, Post(t), UNCHANGED now_playing
  PROVE  Posted'
<1> DEFINE i == now_playing
           post == PostOf(i, t)
<1>1. PostFlags(t) /\ ticks \in Nat /\ DOMAIN flagged = Items
  BY DEF Post, Posted
<1>2. DOMAIN flagged' = Items
  BY <1>1 DEF PostFlags
<1>3. CASE IsSplit(i) /\ 0 \in {PartAt(i, t), PartAt(i, ticks)}
  <2>1. UNCHANGED session /\ flagged' = flagged
    BY <1>1, <1>3 DEF Post, PostFlags, Crosses
  <2> QED  BY <1>2, <2>1 DEF session, Posted, Nowhere, Situated, FlaggedAt
<1>4. CASE ~ (IsSplit(i) /\ 0 \in {PartAt(i, t), PartAt(i, ticks)})
  <2>1. told' = post /\ ticks' = t /\ moved' = IF Crosses(i, t) THEN "posted" ELSE moved
    BY <1>4 DEF Post
  <2>2. Situated(i, post, t) /\ (IsSplit(i) => post.part = PartAt(i, t))
    BY <1>4, PostOfSituated DEF Nowhere
  <2> HIDE DEF post
  <2>3. CASE Crosses(i, t)
    <3>1. flagged'[i] = FlagsAfter(i, post.part) /\ IsSplit(i)
      BY <1>1, <2>2, <2>3 DEF PostFlags, Crosses
    <3>2. FlaggedAt(i, post.part, flagged'[i])
      <4>1. \A k \in Parts(i) : k \in Nat
        BY PartsFollow
      <4>2. post.part \in Nat
        BY <2>2, <4>1 DEF Situated
      <4> QED  BY <3>1, <4>1, <4>2 DEF FlagsAfter, FlaggedAt
    <3> QED  BY <1>2, <2>1, <2>2, <2>3, <3>1, <3>2 DEF Posted
  <2>4. CASE ~ Crosses(i, t)
    <3>1. flagged' = flagged /\ moved' = moved
      BY <1>1, <2>1, <2>4 DEF PostFlags
    <3>2. ASSUME moved = "posted" PROVE IsSplit(i) /\ told.part = post.part
      <4>1. IsSplit(i) /\ Covers(i, told.part, ticks)
        BY <3>2 DEF Posted, Situated
      <4>2. told.part = PartAt(i, ticks)
        BY <1>1, <4>1, PartIs
      <4>3. PartAt(i, t) = PartAt(i, ticks)
        BY <1>4, <2>4, <4>1 DEF Crosses
      <4> QED  BY <2>2, <4>1, <4>2, <4>3
    <3> QED  BY <1>2, <2>1, <2>2, <3>1, <3>2 DEF Posted
  <2> QED  BY <2>3, <2>4
<1> QED  BY <1>3, <1>4

\* A position jumped to: posted unless it is in no part, and without the flags.
LEMMA JumpPosted ==
  ASSUME Posted, now_playing \in Items, NEW t \in Nat, UNCHANGED <<now_playing, flagged>>, ticks' = t,
         told' = IF Nowhere(now_playing, t) THEN told ELSE PostOf(now_playing, t),
         moved' = IF IsSplit(now_playing) /\ PartAt(now_playing, t) # PartAt(now_playing, ticks)
                  THEN "jumped" ELSE moved
  PROVE  Posted'
<1> DEFINE i == now_playing
           post == PostOf(i, t)
<1>1. ticks \in Nat /\ DOMAIN flagged = Items
  BY DEF Posted
<1>2. ~ Nowhere(i, t) => Situated(i, post, t) /\ (IsSplit(i) => post.part = PartAt(i, t))
  BY PostOfSituated
<1> HIDE DEF post
<1>3. ASSUME moved' = "posted"
      PROVE  /\ moved = "posted" /\ IsSplit(i) /\ ~ Nowhere(i, t)
             /\ post.part = told.part /\ FlaggedAt(i, told.part, flagged[i])
  <2>1. moved = "posted"
    BY <1>3
  <2>2. IsSplit(i) /\ Covers(i, told.part, ticks) /\ FlaggedAt(i, told.part, flagged[i])
    BY <2>1 DEF Posted, Situated
  <2>3. PartAt(i, ticks) = told.part /\ PartAt(i, t) = PartAt(i, ticks)
    BY <1>1, <1>3, <2>1, <2>2, PartIs
  <2>4. told.part # 0
    BY <2>2, PartsFollow DEF Covers
  <2> QED  BY <1>2, <2>1, <2>2, <2>3, <2>4 DEF Nowhere
<1>4. told' # NULL => \/ Nowhere(i, t)
                      \/ Situated(i, told', t)
  BY <1>2 DEF post
<1>5. moved' = "posted" => IsSplit(i) /\ Situated(i, told', t) /\ FlaggedAt(i, told'.part, flagged[i])
  BY <1>2, <1>3 DEF post
<1> QED  BY <1>1, <1>4, <1>5 DEF Posted

\* Another item, and nothing recalled.
LEMMA LoadPosted ==
  ASSUME Posted, Load, DOMAIN flagged' = Items PROVE Posted'
BY DEF Posted, Load

\* Nothing of the session changes, nor the item.
LEMMA SamePosted ==
  ASSUME Posted, UNCHANGED <<now_playing, session, flagged>> PROVE Posted'
BY DEF Posted, session, Nowhere, Situated, FlaggedAt

LEMMA ClosePosted ==
  ASSUME Posted, Close PROVE Posted'
BY DEF Posted, Close

LEMMA SStep ==
  ASSUME SNext PROVE Next \/ UNCHANGED vars
BY DEF SNext, STryPlay, SMessageNext, SMessagePrevious, SStartFile, SEndOfFile, SSeek, SIdle, SShutdown,
       TimePos, SubtitleChange, SElse, Next, Dispatch

LEMMA PostedStep ==
  ASSUME IInv, Posted, SNext PROVE Posted'
<1>1. IInv'
  BY SStep, StepInv
<1>2. ticks \in Nat /\ DOMAIN flagged = Items
  BY DEF Posted
<1>3. ASSUME NEW name, Receives(name)
      PROVE  mpv # NULL /\ now_playing \in Items
  BY <1>3, Received
<1>4. CASE STryPlay
  BY <1>2, <1>4, LoadPosted DEF STryPlay
<1>5. CASE SMessageNext
  <2>1. CASE Moves
    BY <1>2, <1>5, <2>1, LoadPosted DEF SMessageNext
  <2>2. CASE ~ Moves
    <3>1. /\ Receives("next") /\ Post(ticks) /\ UNCHANGED now_playing
      BY <1>5, <2>2 DEF SMessageNext, MessageNext, Skipped, Becomes
    <3> QED  BY <1>2, <1>3, <3>1, PostPosted
  <2> QED  BY <2>1, <2>2
<1>6. CASE SMessagePrevious
  <2>1. CASE PreviousMoves(playlist_position, playlist_loops)
    BY <1>2, <1>6, <2>1, LoadPosted DEF SMessagePrevious
  <2>2. CASE ~ PreviousMoves(playlist_position, playlist_loops)
    <3>1. /\ Receives("prev") /\ Post(ticks) /\ UNCHANGED now_playing
      BY <1>6, <2>2 DEF SMessagePrevious, MessagePrevious, Skipped, Becomes
    <3> QED  BY <1>2, <1>3, <3>1, PostPosted
  <2> QED  BY <2>1, <2>2
<1>7. CASE SStartFile
  <2>1. /\ Receives("START_FILE") /\ Post(ticks) /\ UNCHANGED now_playing
    BY <1>7 DEF SStartFile, StartFile, Becomes
  <2> QED  BY <1>2, <1>3, <2>1, PostPosted
<1>8. CASE SEndOfFile
  <2> DEFINE times == IF state \in {"START_MARK", "SEEKING"} THEN {NULL} ELSE {ticks} \cup 0 .. Total(now_playing)
  <2>1. Receives("END_FILE") /\ now_playing \in Items
    BY <1>3, <1>8 DEF SEndOfFile, EndOfFile
  <2>2. PICK t \in times :
          IF Head(mpv.events).reason = "eof" /\ Moves
          THEN Load /\ IF t = NULL THEN UNCHANGED flagged ELSE PostFlags(t)
          ELSE /\ IF t = NULL THEN UNCHANGED <<session, flagged>> ELSE Post(t)
               /\ UNCHANGED <<options, bookmarks>>
    BY <1>8 DEF SEndOfFile
  <2>3. t = NULL \/ t \in Nat
    <3>1. Total(now_playing) \in Nat
      BY <2>1, PartsFollow DEF Total
    <3> QED  BY <1>2, <3>1
  <2>4. CASE Head(mpv.events).reason = "eof" /\ Moves
    <3>1. DOMAIN flagged' = Items
      BY <1>2, <2>2, <2>4 DEF PostFlags
    <3> QED  BY <2>2, <2>4, <3>1, LoadPosted
  <2>5. CASE ~ (Head(mpv.events).reason = "eof" /\ Moves)
    <3>1. now_playing' = now_playing
      BY <1>8, <2>5 DEF SEndOfFile, EndOfFile, Becomes
    <3>2. CASE t = NULL
      BY <2>2, <2>5, <3>1, <3>2, SamePosted
    <3>3. CASE t # NULL
      <4>1. Post(t) /\ t \in Nat
        BY <2>2, <2>3, <2>5, <3>3
      <4> QED  BY <1>2, <2>1, <3>1, <4>1, PostPosted
    <3> QED  BY <3>2, <3>3
  <2> QED  BY <2>4, <2>5
<1>9. CASE SSeek
  <2>1. Receives("SEEK") /\ now_playing \in Items /\ now_playing' = now_playing
    BY <1>3, <1>9 DEF SSeek, Seek
  <2>2. CASE state = "START_MARK"
    <3>1. PICK t \in 0 .. Total(now_playing) :
            /\ ticks' = t
            /\ IF IsSplit(now_playing) /\ PartAt(now_playing, t) = 0 THEN UNCHANGED told
               ELSE told' = PostOf(now_playing, t)
            /\ moved' = IF IsSplit(now_playing) /\ PartAt(now_playing, t) # PartAt(now_playing, ticks)
                        THEN "jumped" ELSE moved
      BY <1>9, <2>2 DEF SSeek
    <3>2. t \in Nat /\ flagged' = flagged
      <4>1. Total(now_playing) \in Nat
        BY <2>1, PartsFollow DEF Total
      <4> QED  BY <1>9, <4>1 DEF SSeek
    <3> QED  BY <2>1, <3>1, <3>2, JumpPosted DEF Nowhere
  <2>3. CASE state # "START_MARK"
    BY <1>9, <2>1, <2>3, SamePosted DEF SSeek
  <2> QED  BY <2>2, <2>3
<1>10. CASE SIdle
  <2>1. CASE mpv' = NULL
    BY <1>10, <2>1, ClosePosted DEF SIdle
  <2>2. CASE mpv' # NULL
    <3>1. now_playing' = now_playing
      BY <1>10, <2>2 DEF SIdle, Idle, End, Becomes
    <3> QED  BY <1>10, <2>2, <3>1, SamePosted DEF SIdle
  <2> QED  BY <2>1, <2>2
<1>11. CASE SShutdown
  BY <1>11, ClosePosted DEF SShutdown
<1>12. CASE TimePos
  <2>1. mpv # NULL /\ mpv.run = "playing" /\ UNCHANGED now_playing
    BY <1>12 DEF TimePos, Reports, vars
  <2>2. PICK t \in 0 .. Total(mpv.file) : Post(t)
    BY <1>12 DEF TimePos
  <2>3. now_playing \in Items /\ mpv.file \in Items
    BY <2>1, Running DEF Cores, Shows
  <2>4. Total(mpv.file) \in Nat
    BY <2>3, PartsFollow DEF Total
  <2> QED  BY <1>2, <2>1, <2>2, <2>3, <2>4, PostPosted
<1>13. CASE SubtitleChange
  BY <1>13, SamePosted DEF SubtitleChange, vars
<1>14. CASE SElse
  <2>1. now_playing' = now_playing
    BY <1>14 DEF SElse, MessageShuffle, Becomes, LoopChange, Core, CoreIdle, CoreStart, CoreLoop, CoreSeek, CoreEof,
                 CoreStop, CoreError, Emit, User, UserControl, UserLoop, UserQuit, game
  <2> QED  BY <1>14, <2>1, SamePosted DEF SElse
<1> QED  BY <1>4, <1>5, <1>6, <1>7, <1>8, <1>9, <1>10, <1>11, <1>12, <1>13, <1>14 DEF SNext

\* What is said of playback holds of playback with sessions.
THEOREM SessionsArePlayback == SSpec => Spec
<1>1. SInit => Init
  BY DEF SInit
<1>2. [SNext]_svars => [Next]_vars
  BY SStep DEF svars
<1> QED  BY <1>1, <1>2, PTL DEF SSpec, Spec

LEMMA PostedInvariance == SSpec => []Posted
<1>1. SInit => Posted
  <2> SUFFICES ASSUME SInit PROVE Posted
    OBVIOUS
  <2>1. told = NULL /\ moved = "never" /\ ticks = 0
    BY DEF SInit
  <2>2. DOMAIN flagged = Items
    BY DEF SInit
  <2> QED  BY <2>1, <2>2 DEF Posted
<1>2. IInv /\ Posted /\ [SNext]_svars => Posted'
  <2>1. ASSUME Posted, UNCHANGED svars PROVE Posted'
    BY <2>1 DEF svars, vars, session, Posted, Nowhere, Situated, FlaggedAt
  <2> QED  BY <2>1, PostedStep
<1>3. SSpec => []IInv
  BY SessionsArePlayback, Invariance, PTL
<1> QED  BY <1>1, <1>2, <1>3, PTL DEF SSpec

\* The post sent last, its part and the position in it, is the position that jftui has recorded
\* for the item, whatever is posted and wherever the marks and seeks lead, in videos of any number
\* of parts of any lengths.  It says nothing of mpv's own position.
THEOREM AlwaysServerHasPosition == SSpec => []ServerHasPosition
<1>1. Posted => ServerHasPosition
  <2> SUFFICES ASSUME Posted, told # NULL, IsSplit(now_playing) => PartAt(now_playing, ticks) # 0
               PROVE  /\ Before(now_playing, told.part) + told.ticks = ticks
                      /\ IsSplit(now_playing) => told.ticks \in 0 .. Runtimes[now_playing][told.part] - 1
    BY DEF ServerHasPosition
  <2> DEFINE part == told.part
             rest == told.ticks
             start == Before(now_playing, part)
             runtime == Runtimes[now_playing][part]
  <2>1. now_playing \in Items /\ Situated(now_playing, told, ticks) /\ ticks \in Nat
    BY DEF Posted, Nowhere
  <2>2. part \in Parts(now_playing) /\ rest \in Int /\ start + rest = ticks
    BY <2>1 DEF Situated
  <2>3. ASSUME IsSplit(now_playing) PROVE rest \in 0 .. runtime - 1
    <3>1. start <= ticks /\ ticks < start + runtime
      BY <2>1, <2>3 DEF Situated, Covers
    <3>2. start \in Nat /\ runtime \in Nat
      BY <2>1, <2>2, PartsFollow
    <3> QED  BY <2>1, <2>2, <3>1, <3>2
  <2> QED  BY <2>2, <2>3
<1> QED  BY <1>1, PostedInvariance, PTL

\* Once a post has found playback in another part than before, the other parts have been given
\* their flags, and keep them until the item is left or a mark is jumped to.
THEOREM AlwaysPartsFlagged == SSpec => []PartsFlagged
<1>1. Posted => PartsFlagged
  BY DEF Posted, PartsFlagged, Flagged, FlaggedAt
<1> QED  BY <1>1, PostedInvariance, PTL
=============================================================================
