------------------------------- MODULE SplitPart -------------------------------
(***************************************************************************)
(* What the server is told of an item while it plays: jf_post_session and  *)
(* its three users, the marks from which jf_menu_ask_resume offers to go   *)
(* on, and the alignment of external subtitles (playback.c, menu.c),       *)
(* laid over the handlers of Playback.  A video is one or more parts on    *)
(* the server and one file to mpv, in which the parts follow each other.   *)
(* The unit of time is coarse, a position is a number of units.            *)
(***************************************************************************)
EXTENDS Playback

CONSTANTS
    Runtimes,       \* per item: the runtimes of its parts
    Bookmarks,      \* per item: the sequences of marks its parts may have, 0 for none
    Threshold       \* the 10 seconds by which progress must differ to be posted

ASSUME RuntimesAssumption == Runtimes \in [Items -> Seq(Nat \ {0})] /\ \A i \in Items : Runtimes[i] # <<>>
ASSUME BookmarksAssumption ==
    \A i \in Items : \A b \in Bookmarks[i] :
        /\ b \in Seq(Nat) /\ Len(b) = Len(Runtimes[i])
        /\ \A k \in DOMAIN b : b[k] \in 0 .. Runtimes[i][k] - 1

VARIABLES
    ticks,          \* g_state.now_playing->playback_ticks, of the whole item
    start_at,       \* mpv's option "start"
    sub_delay,      \* mpv's property "sub-delay"
    told,           \* the last session post for the item playing: part and position in it
    flagged,        \* per item and part: the flag the server was asked to set, if any
    moved,          \* history: how playback last came to another part of the item
    bookmarks       \* playback_ticks of the parts as fetched from the server

session == <<ticks, told, moved>>
options == <<start_at, sub_delay>>
svars == <<vars, session, options, flagged, bookmarks>>

Parts(i) == DOMAIN Runtimes[i]
IsSplit(i) == Len(Runtimes[i]) > 1
Offsets == [i \in Items |->
    LET offset[k \in 1 .. Len(Runtimes[i]) + 1] ==
            IF k = 1 THEN 0 ELSE offset[k - 1] + Runtimes[i][k - 1]
    IN  offset]
Before(i, k) == Offsets[i][k]
Total(i) == Before(i, Len(Runtimes[i]) + 1)

\* What the marks of an item are to jf_menu_ask_resume.
KindOf(b) ==
    LET n == Cardinality({k \in DOMAIN b : b[k] # 0})
    IN  IF n = 0 THEN "none" ELSE IF n = 1 THEN "one" ELSE "many"

\* jf_playback_populate_video_ticks: the marks are the parts', the item has none.
SInit ==
    /\ Init
    /\ bookmarks \in {b \in [Items -> UNION {Bookmarks[i] : i \in Items}] :
                        \A i \in Items : b[i] \in Bookmarks[i]}
    /\ marks = [i \in Items |-> KindOf(bookmarks[i])]
    /\ ticks = 0 /\ told = NULL /\ moved = "never"
    /\ start_at = 0 /\ sub_delay = 0
    /\ flagged = [i \in Items |-> [k \in Parts(i) |-> NULL]]

-----------------------------------------------------------------------------
(***************************************************************************)
(* jf_post_session                                                         *)
(***************************************************************************)

\* Mutant: the end of a part belongs to it.
PartAtClosed(i, t) ==
    LET ks == {k \in Parts(i) : Before(i, k) <= t /\ t <= Before(i, k) + Runtimes[i][k]}
    IN  IF ks = {} THEN 0 ELSE CHOOSE k \in ks : \A l \in ks : l <= k

\* The part that position t falls in, 0 for none.
PartAt(i, t) ==
    LET ks == {k \in Parts(i) : Before(i, k) <= t /\ t < Before(i, k) + Runtimes[i][k]}
    IN  IF ks = {} THEN 0 ELSE CHOOSE k \in ks : TRUE

\* Mutant: the parts after the current one are left as they are.
FlagsAfterPlayed(i, part) ==
    [k \in Parts(i) |-> IF k < part THEN "played" ELSE flagged[i][k]]

\* jf_menu_item_set_flag_detach for every part but the current one.
FlagsAfter(i, part) ==
    [k \in Parts(i) |-> CASE k < part -> "played"
                          [] k > part -> "unplayed"
                          [] OTHER -> flagged[i][k]]

Crosses(i, t) == IsSplit(i) /\ 0 \notin {PartAt(i, t), PartAt(i, ticks)} /\ PartAt(i, t) # PartAt(i, ticks)

\* The flags that a post of position t of the item playing has the server set.
PostFlags(t) ==
    flagged' = IF Crosses(now_playing, t)
               THEN [flagged EXCEPT ![now_playing] = FlagsAfter(now_playing, PartAt(now_playing, t))]
               ELSE flagged

\* The part, and the position in it, that position t is posted as.
PostOf(i, t) ==
    LET part == IF IsSplit(i) THEN PartAt(i, t) ELSE 1
    IN  [part |-> part, ticks |-> t - Before(i, part)]

\* Position t is posted, in its part; it is not when it, or the position last
\* recorded, is in none.
Post(t) ==
    /\ PostFlags(t)
    /\ IF IsSplit(now_playing) /\ 0 \in {PartAt(now_playing, t), PartAt(now_playing, ticks)}
       THEN UNCHANGED session
       ELSE /\ told' = PostOf(now_playing, t)
            /\ ticks' = t
            /\ moved' = IF Crosses(now_playing, t) THEN "posted" ELSE moved

-----------------------------------------------------------------------------
(***************************************************************************)
(* jf_playback_play_item and jf_menu_ask_resume: what another item, or the *)
(* end of playback, means to the session and to mpv's options.             *)
(***************************************************************************)

\* The positions the user is offered: each mark, counted from the item's beginning.
ResumePoints(i) == {Before(i, k) + bookmarks[i][k] : k \in {l \in Parts(i) : bookmarks[i][l] # 0}}

\* The option is set by an answer that enters START_MARK, but for the answer "from
\* the beginning" of a selection; one set before and not yet reset stays.
StartOption ==
    IF mpv' = NULL \/ ~ mpv'.start THEN {0}
    ELSE (IF state' = "START_MARK" THEN ResumePoints(now_playing') ELSE {})
         \cup (IF mpv # NULL /\ mpv.start /\ (state' = "START_MARK" => marks[now_playing'] = "many")
               THEN {start_at} ELSE {})

\* Killed, or made anew around a question.
OtherCore == mpv = NULL \/ mpv' = NULL \/ marks[now_playing'] = "one"

Load ==
    /\ ticks' = 0 /\ told' = NULL /\ moved' = "never"
    /\ start_at' \in StartOption
    /\ sub_delay' = IF OtherCore THEN 0 ELSE sub_delay
    /\ UNCHANGED bookmarks

\* jf_playback_end
Close ==
    /\ ticks' = 0 /\ told' = NULL /\ moved' = "never"
    /\ start_at' = 0 /\ sub_delay' = 0
    /\ UNCHANGED <<flagged, bookmarks>>

STryPlay == TryPlay /\ Load /\ UNCHANGED flagged

\* A skip posts stopped at the position last recorded, where no part is crossed.
SMessageNext ==
    /\ MessageNext
    /\ IF Moves THEN Load /\ UNCHANGED flagged
       ELSE Post(ticks) /\ UNCHANGED <<options, bookmarks>>

SMessagePrevious ==
    /\ MessagePrevious
    /\ IF PreviousMoves(playlist_position, playlist_loops) THEN Load /\ UNCHANGED flagged
       ELSE Post(ticks) /\ UNCHANGED <<options, bookmarks>>

SStartFile == StartFile /\ Post(ticks) /\ UNCHANGED <<options, bookmarks>>

\* Stopped is posted at mpv's time-pos if there is one yet, else at the last position.
SEndOfFile ==
    /\ EndOfFile
    /\ \E t \in IF state \in {"START_MARK", "SEEKING"} THEN {NULL} ELSE {ticks} \cup 0 .. Total(now_playing) :
         IF Head(mpv.events).reason = "eof" /\ Moves
         THEN Load /\ IF t = NULL THEN UNCHANGED flagged ELSE PostFlags(t)
         ELSE /\ IF t = NULL THEN UNCHANGED <<session, flagged>> ELSE Post(t)
              /\ UNCHANGED <<options, bookmarks>>

\* The start mark is reached: the item's position becomes mpv's, or 0 if mpv has none,
\* before it is posted.  The post then finds no part crossed, and no flag is set; at
\* the very end of a split item it finds no part at all, and says nothing.
SSeek ==
    /\ Seek
    /\ UNCHANGED <<sub_delay, flagged, bookmarks>>
    /\ IF state = "START_MARK"
       THEN \E t \in 0 .. Total(now_playing) :
              /\ ticks' = t
              /\ IF IsSplit(now_playing) /\ PartAt(now_playing, t) = 0 THEN UNCHANGED told
                 ELSE told' = PostOf(now_playing, t)
              /\ moved' = IF IsSplit(now_playing) /\ PartAt(now_playing, t) # PartAt(now_playing, ticks)
                          THEN "jumped" ELSE moved
              /\ start_at' = 0
       ELSE UNCHANGED <<session, start_at>>

SIdle == Idle /\ IF mpv' = NULL THEN Close ELSE UNCHANGED <<session, options, flagged, bookmarks>>

\* Stopped is posted first, at the position last recorded.
SShutdown == Shutdown /\ Close

\* Properties are reported of the file mpv plays, whatever main has asked for since.
Reports ==
    /\ state \in PlaybackStates
    /\ mpv # NULL /\ mpv.events = <<>> /\ mpv.run = "playing"

Distance(s, t) == IF s < t THEN t - s ELSE s - t

\* MPV_EVENT_PROPERTY_CHANGE of time-pos: playback goes on, or the user seeks.
TimePos ==
    /\ Reports
    /\ \E t \in 0 .. Total(mpv.file) :
         /\ Distance(t, ticks) >= Threshold
         /\ Post(t)
    /\ UNCHANGED <<vars, options, bookmarks>>

\* The beginning of the last part that begins at or before t, or the end of the item.
SubOffset(i, t) ==
    Max({Before(i, k) : k \in 1 .. Len(Runtimes[i]) + 1} \cap 0 .. t)

\* The same of sid, with jf_playback_align_subtitle: an external track is shifted to
\* the part that plays, an internal one is not shifted.
SubtitleChange ==
    /\ Reports
    /\ IsSplit(now_playing)
    /\ sub_delay' \in {SubOffset(now_playing, t) : t \in 0 .. Total(mpv.file)} \cup {0}
    /\ UNCHANGED <<vars, session, start_at, flagged, bookmarks>>

SElse == (MessageShuffle \/ LoopChange \/ Core \/ User) /\ UNCHANGED <<session, options, flagged, bookmarks>>

SNext ==
    \/ STryPlay \/ SMessageNext \/ SMessagePrevious \/ SStartFile \/ SEndOfFile
    \/ SSeek \/ SIdle \/ SShutdown \/ TimePos \/ SubtitleChange \/ SElse

SSpec == SInit /\ [][SNext]_svars

-----------------------------------------------------------------------------
\* What the last post said, the part and the position in it, adds up to the position
\* that jftui has recorded for the item, and is inside that part (playback.c 93-116;
\* "ensure parent playback ticks refer to merged item", main.c 143).  A seek that
\* ends at the very end of a split item records a position that is never posted.
\* Whether mpv is at that position is another matter (ProgressIsOwn below).
ServerHasPosition ==
    told # NULL /\ (IsSplit(now_playing) => PartAt(now_playing, ticks) # 0) =>
        /\ Before(now_playing, told.part) + told.ticks = ticks
        /\ IsSplit(now_playing) => told.ticks \in 0 .. Runtimes[now_playing][told.part] - 1

\* The parts before the one last told have been flagged as played, those after it as
\* not played.
Flagged ==
    \A k \in Parts(now_playing) :
        /\ k < told.part => flagged[now_playing][k] = "played"
        /\ k > told.part => flagged[now_playing][k] = "unplayed"

\* When it was a post that found playback in another part than before, whichever way
\* and however far, jftui has asked for the flags of all the other parts (playback.c
\* 118-131), and posts since have not undone it.  It is not so after the jump to a
\* mark, for which main records the position before it posts it.
PartsFlagged == moved = "posted" => Flagged

\* The same however playback came to another part: "detect if we moved across
\* split-file parts since the last such update and mark parts previous to current as
\* played, next to current as unplayed" (playback.h 15-18).
PartsAlwaysFlagged == moved # "never" => Flagged

-----------------------------------------------------------------------------
(***************************************************************************)
(* What the code does not keep.  TLC finds each of these violated, on the  *)
(* constants the README gives; no other property is stated over them.      *)
(***************************************************************************)

\* Progress that is posted is of the item it is posted for.
ProgressIsOwn == [][TimePos => mpv.file = now_playing]_svars

\* Subtitles of an item of one part are not shifted.
SubtitlesInPlace == Settled /\ ~ IsSplit(now_playing) => sub_delay = 0
=============================================================================
