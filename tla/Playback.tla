------------------------------- MODULE Playback -------------------------------
(***************************************************************************)
(* The playback state machine: jf_mpv_event_dispatch (main.c) and the      *)
(* playlist controls it calls (playback.c, menu.c), against an mpv core    *)
(* that runs on its own and reports by events.  Handlers run to completion *)
(* in the main thread; what the core does meanwhile shows as events after  *)
(* the one being handled.  The core is external: it is modelled from what  *)
(* the handlers and their comments rely on.                                *)
(***************************************************************************)
EXTENDS Playlist, Sequences, FiniteSets, SequencesExt

CONSTANTS
    Count,          \* items in the playlist
    Marks,          \* kinds of resume marks items may have: subset of MarkKinds
    LoopValues,     \* values the user may give options/loop-playlist
    Controls,       \* the playlist messages the user may send
    MaxInputs,      \* bound: user inputs in a behaviour
    MaxEvents,      \* bound: events in mpv's queue
    NetworkFails,   \* whether the requests for an item may fail
    Cancels,        \* whether the user may cancel a question about resuming
    FilesFail,      \* whether mpv may fail to play a file
    Aborts,         \* whether mpv may shut down without an END_FILE
    Heights,        \* heights of the on-screen display, in lines
    NULL

MarkKinds == {"none", "one", "many"}

ASSUME CountAssumption == Count \in Nat \ {0}
ASSUME MarksAssumption == Marks \subseteq MarkKinds
ASSUME LoopAssumption == LoopValues \subseteq Int /\ \A n \in LoopValues : n >= -1
ASSUME ControlsAssumption == Controls \subseteq {"next", "prev", "shuffle"}
ASSUME InputAssumption == MaxInputs \in Nat /\ MaxEvents \in Nat \ {0}
ASSUME HeightAssumption == Heights \subseteq Nat
ASSUME FailureAssumption == {NetworkFails, Cancels, FilesFail, Aborts} \subseteq BOOLEAN

Items == 1 .. Count

VARIABLES
    state,              \* g_state.state
    now_playing,        \* g_state.now_playing
    playlist_position,  \* g_state.playlist_position
    playlist_loops,     \* g_state.playlist_loops
    loop_state,         \* g_state.loop_state
    playlist,           \* the disk playlist: items in order
    marks,              \* what resume marks each item has
    mpv,                \* the core behind g_mpv_ctx, or NULL
    open,               \* items the server believes to be playing
    inputs              \* user inputs so far

vars == <<state, now_playing, playlist_position, playlist_loops, loop_state,
          playlist, marks, mpv, open, inputs>>

PlaybackStates == {"PLAYBACK", "INIT", "START_MARK", "SEEKING", "STOPPING"}

(***************************************************************************)
(* A core.  run: what it does; file: what it plays; load: the argument of  *)
(* a loadfile it has yet to obey; start: whether option "start" is set;    *)
(* seek: whether the SEEK to it is still due; loop: options/loop-playlist; *)
(* told: its value when a change was last reported, -2 for never.          *)
(* disturbed is history, for the properties: whether the user changed the  *)
(* loop count, or a file ended, while a change of it was still to be       *)
(* reported; or the user skipped, which main and mpv count differently;    *)
(* since main last took mpv's count for its own.                           *)
(***************************************************************************)
jf_mpv_create ==
    [run |-> "created", file |-> NULL, load |-> NULL, start |-> FALSE, seek |-> FALSE,
     loop |-> 0, told |-> -2, disturbed |-> FALSE, events |-> <<>>]

Event(name) == [name |-> name, reason |-> "none"]
EndFile(reason) == [name |-> "END_FILE", reason |-> reason]

Events == [name : {"IDLE", "START_FILE", "END_FILE", "SEEK", "SHUTDOWN", "next", "prev", "shuffle"},
           reason : {"none", "eof", "stop", "error", "quit"}]

Cores == [run : {"created", "idle", "playing", "ended", "dead"},
          file : Items \cup {NULL}, load : Items \cup {NULL}, start : BOOLEAN, seek : BOOLEAN,
          loop : Int, told : Int, disturbed : BOOLEAN, events : Seq(Events)]

ASSUME NullAssumption == NULL \notin Items \cup Cores

Init ==
    /\ state = "MENU_UI"
    /\ now_playing = NULL
    /\ playlist_position = 0
    /\ playlist_loops = 0
    /\ loop_state = "IN_SYNC"
    /\ playlist = [i \in Items |-> i]
    /\ marks \in [Items -> Marks]
    /\ mpv = NULL
    /\ open = {}
    /\ inputs = 0

-----------------------------------------------------------------------------
(***************************************************************************)
(* jf_playback_play_item, with jf_menu_ask_resume, called in state s: how  *)
(* it may come out.  mpv: the core is the "same", a "new" one, or gone.    *)
(***************************************************************************)
Played(s, core, start) == [ok |-> TRUE, state |-> s, mpv |-> core, start |-> start]

\* Every failure path ends in jf_playback_end.
Failure == [ok |-> FALSE, state |-> "MENU_UI", mpv |-> "none", start |-> FALSE]

\* jf_menu_ask_resume_yn: in the middle of a playlist the core is killed for the
\* time of the question and made anew after it.
AskResumeYn(s) ==
    LET core == IF s = "SEEKING" THEN "new" ELSE "same"
    IN  {Played("START_MARK", core, TRUE), Played(s, core, FALSE)}

\* jf_menu_user_ask_selection: here it is killed, and the loop returns before the
\* lines that make it anew.  Choice 1 is to start from the beginning.
AskResumeSelection(s) ==
    LET core == IF s = "SEEKING" THEN "none" ELSE "same"
    IN  {Played("START_MARK", core, start) : start \in BOOLEAN}

PlayItem(item, s) ==
    (IF NetworkFails THEN {Failure} ELSE {})
    \cup (IF Cancels /\ marks[item] # "none" THEN {Failure} ELSE {})
    \cup (CASE marks[item] = "none" -> {Played(s, "same", FALSE)}
            [] marks[item] = "one" -> AskResumeYn(s)
            [] OTHER -> AskResumeSelection(s))

\* A core just created may or may not have gone idle, for want of a file, before its
\* first loadfile is issued.
NewCores ==
    {jf_mpv_create, [jf_mpv_create EXCEPT !.run = "idle", !.events = <<Event("IDLE")>>]}

\* The core after it, when it was core before it: the loadfile is issued.
CoresAfter(core, item, o) ==
    LET used == IF o.mpv = "new" THEN {[c EXCEPT !.disturbed = core.disturbed] : c \in NewCores}
                ELSE {core}
    IN  IF o.mpv = "none" THEN {NULL}
        ELSE {[c EXCEPT !.load = item, !.start = @ \/ o.start] : c \in used}

\* Mutant: now_playing is not updated.
PlayKeepItem(o, core, pos, s) ==
    /\ state' = s
    /\ mpv' \in CoresAfter(core, playlist[pos], o)
    /\ now_playing' = IF o.ok /\ now_playing = NULL THEN playlist[pos] ELSE now_playing
    /\ playlist_position' = IF o.ok THEN pos ELSE 0

\* What play_item leaves, at position pos, with state s on top of it.
Play(o, core, pos, s) ==
    /\ state' = s
    /\ mpv' \in CoresAfter(core, playlist[pos], o)
    /\ now_playing' = IF o.ok THEN playlist[pos] ELSE NULL
    /\ playlist_position' = IF o.ok THEN pos ELSE 0

\* jf_playback_end
End ==
    /\ mpv' = NULL
    /\ now_playing' = NULL
    /\ playlist_position' = 0
    /\ state' = "MENU_UI"

\* jf_menu_try_play
TryPlay ==
    /\ state = "MENU_UI"
    /\ playlist_loops' = 0
    /\ loop_state' = "IN_SYNC"
    /\ \E o \in PlayItem(playlist[1], "INIT"), core \in NewCores : Play(o, core, 1, o.state)
    /\ UNCHANGED <<playlist, marks, open, inputs>>

-----------------------------------------------------------------------------
(* jf_mpv_event_dispatch                                                   *)

Receives(name) ==
    /\ state \in PlaybackStates
    /\ mpv # NULL
    /\ mpv.events # <<>>
    /\ Head(mpv.events).name = name

Rest == [mpv EXCEPT !.events = Tail(@)]
Skipped == [Rest EXCEPT !.disturbed = TRUE]

\* The event changes nothing but the state.
Becomes(s) ==
    /\ state' = s
    /\ mpv' = Rest
    /\ UNCHANGED <<now_playing, playlist_position>>

Moves == NextMoves(playlist_position, Count, playlist_loops)

\* jf_playback_next when it moves, on core; failed is the state a failure ends up in.
JfPlaybackNext(core, failed) ==
    LET pos == NextPosition(playlist_position, Count) IN
    /\ playlist_loops' = NextLoops(playlist_position, Count, playlist_loops)
    /\ loop_state' = IF playlist_position # Count /\ playlist_loops > 1
                     THEN "OUT_OF_SYNC" ELSE loop_state
    /\ \E o \in PlayItem(playlist[pos], "SEEKING") : Play(o, core, pos, IF o.ok THEN o.state ELSE failed)

\* Mutant: the session of the current item is not closed.
MessageNextOpen ==
    /\ Receives("next")
    /\ IF Moves THEN JfPlaybackNext(Skipped, "MENU_UI")
       ELSE Becomes(state) /\ UNCHANGED <<playlist_loops, loop_state>>
    /\ UNCHANGED <<playlist, marks, open, inputs>>

\* jftui-playlist-next: the session of the current item is closed in any case.
MessageNext ==
    /\ Receives("next")
    /\ open' = open \ {now_playing}
    /\ IF Moves THEN JfPlaybackNext(Skipped, "MENU_UI")
       ELSE Becomes(state) /\ UNCHANGED <<playlist_loops, loop_state>>
    /\ UNCHANGED <<playlist, marks, inputs>>

\* jftui-playlist-prev, with jf_playback_previous.
MessagePrevious ==
    LET pos == PreviousPosition(playlist_position, Count) IN
    /\ Receives("prev")
    /\ open' = open \ {now_playing}
    /\ IF PreviousMoves(playlist_position, playlist_loops)
       THEN \E o \in PlayItem(playlist[pos], "SEEKING") : Play(o, Skipped, pos, o.state)
       ELSE Becomes(state)
    /\ UNCHANGED <<playlist_loops, loop_state, playlist, marks, inputs>>

\* jftui-playlist-shuffle.  Of a playlist of one item it never returns: the bound
\* of its loop, item_count - 2 as a size_t, wraps, and 2^64 - 2 iterations follow
\* which swap nothing.  The event then stays at the head of the queue for good,
\* and nothing after it is handled.
MessageShuffle ==
    /\ Receives("shuffle")
    /\ Count > 1
    /\ \E draws \in [0 .. Count - 3 -> 0 .. Count] :
         playlist' = Shuffle(playlist, playlist_position, Count, draws)
    /\ Becomes(state)
    /\ UNCHANGED <<playlist_loops, loop_state, marks, open, inputs>>

\* MPV_EVENT_START_FILE: posts /sessions/playing for now_playing.
StartFile ==
    /\ Receives("START_FILE")
    /\ Becomes(IF state \in {"INIT", "SEEKING"} THEN "PLAYBACK" ELSE state)
    /\ open' = open \cup {now_playing}
    /\ UNCHANGED <<playlist_loops, loop_state, playlist, marks, inputs>>

\* MPV_EVENT_END_FILE: posts /sessions/playing/stopped unless a skip or a start
\* mark is under way; then moves on, or gives up.
EndOfFile ==
    /\ Receives("END_FILE")
    /\ open' = IF state \in {"START_MARK", "SEEKING"} THEN open ELSE open \ {now_playing}
    /\ IF Head(mpv.events).reason = "eof" /\ Moves
       THEN JfPlaybackNext(Rest, "STOPPING")
       ELSE Becomes("STOPPING") /\ UNCHANGED <<playlist_loops, loop_state>>
    /\ UNCHANGED <<playlist, marks, inputs>>

\* MPV_EVENT_SEEK: the start mark has been reached; the session is opened.
Seek ==
    /\ Receives("SEEK")
    /\ IF state = "START_MARK"
       THEN /\ mpv' = [Rest EXCEPT !.start = FALSE]
            /\ open' = open \cup {now_playing}
            /\ state' = "PLAYBACK"
       ELSE mpv' = Rest /\ UNCHANGED <<open, state>>
    /\ UNCHANGED <<now_playing, playlist_position, playlist_loops, loop_state,
                   playlist, marks, inputs>>

\* Mutant: STOPPING is not a state to leave playback from.
IdleStopping ==
    /\ Receives("IDLE")
    /\ CASE state = "INIT" -> Becomes("PLAYBACK")
         [] state = "PLAYBACK" -> End
         [] OTHER -> Becomes(state)
    /\ UNCHANGED <<playlist_loops, loop_state, playlist, marks, open, inputs>>

\* MPV_EVENT_IDLE
Idle ==
    /\ Receives("IDLE")
    /\ CASE state = "INIT" -> Becomes("PLAYBACK")
         [] state \in {"PLAYBACK", "STOPPING"} -> End
         [] OTHER -> Becomes(state)
    /\ UNCHANGED <<playlist_loops, loop_state, playlist, marks, open, inputs>>

\* MPV_EVENT_SHUTDOWN
Shutdown ==
    /\ Receives("SHUTDOWN")
    /\ open' = IF state # "STOPPING" THEN open \ {now_playing} ELSE open
    /\ End
    /\ UNCHANGED <<playlist_loops, loop_state, playlist, marks, inputs>>

\* Mutant: having set the counter again is forgotten.
LoopChangeForget ==
    /\ state \in PlaybackStates
    /\ mpv # NULL
    /\ mpv.events = <<>>
    /\ mpv.told # mpv.loop
    /\ CASE loop_state = "OUT_OF_SYNC" ->
              /\ mpv' = [mpv EXCEPT !.told = mpv.loop, !.loop = playlist_loops]
              /\ UNCHANGED <<playlist_loops, loop_state>>
         [] loop_state = "IN_SYNC" ->
              /\ playlist_loops' = IF mpv.loop = 1 THEN 0 ELSE mpv.loop
              /\ mpv' = [mpv EXCEPT !.told = mpv.loop, !.disturbed = FALSE]
              /\ UNCHANGED loop_state
    /\ UNCHANGED <<state, now_playing, playlist_position, playlist, marks, open, inputs>>

\* Mutant: mpv's own decrement is passed over, and not undone.
LoopChangeIgnore ==
    /\ state \in PlaybackStates
    /\ mpv # NULL
    /\ mpv.events = <<>>
    /\ mpv.told # mpv.loop
    /\ mpv' = [mpv EXCEPT !.told = mpv.loop, !.disturbed = @ /\ loop_state # "IN_SYNC"]
    /\ loop_state' = "IN_SYNC"
    /\ playlist_loops' = IF loop_state # "IN_SYNC" THEN playlist_loops
                         ELSE IF mpv.loop = 1 THEN 0 ELSE mpv.loop
    /\ UNCHANGED <<state, now_playing, playlist_position, playlist, marks, open, inputs>>

\* MPV_EVENT_PROPERTY_CHANGE of options/loop-playlist.  mpv reports a property
\* when its queue is empty and the value is not the one it last reported.  It
\* shows a loop count of 1 as "no".
LoopChange ==
    /\ state \in PlaybackStates
    /\ mpv # NULL
    /\ mpv.events = <<>>
    /\ mpv.told # mpv.loop
    /\ CASE loop_state = "RESYNCING" ->
              /\ loop_state' = "IN_SYNC"
              /\ mpv' = [mpv EXCEPT !.told = mpv.loop]
              /\ UNCHANGED playlist_loops
         [] loop_state = "OUT_OF_SYNC" ->
              /\ loop_state' = "RESYNCING"
              /\ mpv' = [mpv EXCEPT !.told = mpv.loop, !.loop = playlist_loops]
              /\ UNCHANGED playlist_loops
         [] loop_state = "IN_SYNC" ->
              /\ playlist_loops' = IF mpv.loop = 1 THEN 0 ELSE mpv.loop
              /\ mpv' = [mpv EXCEPT !.told = mpv.loop, !.disturbed = FALSE]
              /\ UNCHANGED loop_state
    /\ UNCHANGED <<state, now_playing, playlist_position, playlist, marks, open, inputs>>

-----------------------------------------------------------------------------
(* The mpv core and its user (external)                                    *)

game == <<state, now_playing, playlist_position, playlist_loops, loop_state,
          playlist, marks, open>>

\* The core goes on from core, with one more event.
Emit(core, event) ==
    /\ Len(mpv.events) < MaxEvents
    /\ mpv' = [core EXCEPT !.events = Append(@, event)]
    /\ UNCHANGED <<game, inputs>>

\* Nothing to play after a file.
CoreIdle ==
    /\ mpv # NULL
    /\ mpv.run = "ended"
    /\ mpv.load = NULL /\ mpv.file = NULL
    /\ Emit([mpv EXCEPT !.run = "idle"], Event("IDLE"))

\* It obeys a loadfile.
CoreStart ==
    /\ mpv # NULL
    /\ mpv.run \in {"created", "idle", "ended"}
    /\ mpv.load # NULL
    /\ Emit([mpv EXCEPT !.run = "playing", !.file = mpv.load, !.load = NULL, !.seek = mpv.start],
            Event("START_FILE"))

\* The loop option has it play its one file again.
CoreLoop ==
    /\ mpv # NULL
    /\ mpv.run = "ended"
    /\ mpv.load = NULL /\ mpv.file # NULL
    /\ Emit([mpv EXCEPT !.run = "playing"], Event("START_FILE"))

CoreSeek ==
    /\ mpv # NULL
    /\ mpv.run = "playing" /\ mpv.seek
    /\ Emit([mpv EXCEPT !.seek = FALSE], Event("SEEK"))

Recounted == mpv.disturbed \/ mpv.told # mpv.loop

\* The end of a file.  With the loop option mpv uses up one pass of its own
\* playlist, which is this one file.
CoreEof ==
    /\ mpv # NULL
    /\ mpv.run = "playing" /\ mpv.load = NULL /\ ~ mpv.seek
    /\ Emit([mpv EXCEPT !.run = "ended", !.file = IF mpv.loop \in {0, 1} THEN NULL ELSE @,
                        !.loop = IF @ > 1 THEN @ - 1 ELSE @,
                        !.disturbed = Recounted],
            EndFile("eof"))

\* A loadfile has come in while it plays.
CoreStop ==
    /\ mpv # NULL
    /\ mpv.run = "playing" /\ mpv.load # NULL
    /\ Emit([mpv EXCEPT !.run = "ended", !.file = NULL, !.seek = FALSE], EndFile("stop"))

CoreError ==
    /\ FilesFail
    /\ mpv # NULL
    /\ mpv.run = "playing" /\ mpv.load = NULL
    /\ Emit([mpv EXCEPT !.run = "ended", !.file = NULL, !.seek = FALSE], EndFile("error"))

Input == inputs < MaxInputs /\ inputs' = inputs + 1

\* A key bound to a playlist message.
UserControl ==
    /\ Input
    /\ mpv # NULL
    /\ mpv.run # "dead"
    /\ Len(mpv.events) < MaxEvents
    /\ \E c \in Controls : mpv' = [mpv EXCEPT !.events = Append(@, Event(c))]
    /\ UNCHANGED game

\* At any time, whatever main has yet to be told or to set.
UserLoop ==
    /\ Input
    /\ mpv # NULL
    /\ mpv.run # "dead"
    /\ \E n \in LoopValues : mpv' = [mpv EXCEPT !.loop = n, !.disturbed = Recounted]
    /\ UNCHANGED game

\* The user quits mpv; an abnormal abort skips the END_FILE.
UserQuit ==
    /\ Input
    /\ mpv # NULL
    /\ mpv.run # "dead"
    /\ Len(mpv.events) + 1 < MaxEvents
    /\ \E ends \in {<<>>, <<EndFile("quit")>>} :
         /\ ends = <<>> => mpv.run # "playing" \/ Aborts
         /\ ends # <<>> => mpv.run = "playing"
         /\ mpv' = [mpv EXCEPT !.run = "dead", !.load = NULL,
                               !.events = @ \o ends \o <<Event("SHUTDOWN")>>]
    /\ UNCHANGED game

-----------------------------------------------------------------------------
Dispatch ==
    \/ MessageNext \/ MessagePrevious \/ MessageShuffle
    \/ StartFile \/ EndOfFile \/ Seek \/ Idle \/ Shutdown
    \/ LoopChange

Core == CoreIdle \/ CoreStart \/ CoreLoop \/ CoreSeek \/ CoreEof \/ CoreStop \/ CoreError

User == UserControl \/ UserLoop \/ UserQuit

Next == TryPlay \/ Dispatch \/ Core \/ User

Spec == Init /\ [][Next]_vars

\* Main keeps waiting for events; mpv keeps playing, so that every file ends.
FairSpec == Spec /\ WF_vars(Dispatch) /\ WF_vars(Core)

-----------------------------------------------------------------------------
TypeOK ==
    /\ state \in PlaybackStates \cup {"MENU_UI"}
    /\ now_playing \in Items \cup {NULL}
    /\ playlist_position \in 0 .. Count
    /\ playlist_loops \in Int
    /\ loop_state \in {"IN_SYNC", "RESYNCING", "OUT_OF_SYNC"}
    /\ IsInjective(playlist) /\ playlist \in [Items -> Items]
    /\ open \subseteq Items
    /\ mpv # NULL => mpv \in Cores /\ Len(mpv.events) <= MaxEvents

\* The item main believes to be playing is the one at the playlist position,
\* through skips, wraps and shuffles ("won't move item currently playing").
PlayingAtPosition ==
    state # "MENU_UI" /\ now_playing # NULL =>
        playlist_position \in Items /\ now_playing = playlist[playlist_position]

\* The slice of the playlist that is printed on the user's demand lies in the
\* playlist, has the item playing in it and has the size asked for, or is the
\* whole playlist if that is shorter ("the window size is guaranteed (if there are
\* enough items); the window slides without ever going beyond boundaries",
\* playback.c 604-605).
WindowFits ==
    playlist_position # 0 =>
        \A h \in Heights : Fits(WindowSize(h, Count), playlist_position, Count)

\* What mpv plays or is about to play once it has obeyed is now_playing.
Settled == mpv # NULL /\ mpv.run = "playing" /\ mpv.load = NULL /\ mpv.events = <<>>
PlaysWhatIsShown == Settled => mpv.file = now_playing

\* Back in the menu, every playback session that was opened has been closed, so
\* the server stops accruing progress (main.c 113, 223-224), unless it is that of
\* an item with marks: such a one may stay open (SessionsAllClosed below), but it
\* keeps no other item's session open.  It takes an mpv that reports how its files
\* end: an abort (Aborts) during a skip leaves the session of the file skipped open.
SessionsClosed == state = "MENU_UI" => \A i \in open : marks[i] # "none"

\* Nothing is under way, mpv has no change of the loop count to report, and there
\* was no race for the count since main last took mpv's for its own: each change
\* was reported before the next one and before the file ended, and the user did
\* not skip to another item.
Told == Settled /\ mpv.told = mpv.loop
Orderly == Told /\ ~ mpv.disturbed

\* Main and mpv then hold the same count of loops (1 is the last pass), through
\* the ends of files that mpv counts in the middle of main's playlist and main
\* only at its end.  After a race they may differ, with no report to come that would
\* put it right (LoopsAlwaysAgree).
LoopsAgree ==
    Orderly => playlist_loops = mpv.loop \/ {playlist_loops, mpv.loop} \subseteq {0, 1}

\* Main then waits for no further report: it was waiting for the report of a
\* decrement, never for one that does not come, and so will not mistake the
\* user's next change for it (main.c 164-199).  After a race it may: a change of
\* the user's that is reported together with a decrement is swallowed or undone.
OutOfSyncEnds == Orderly => loop_state = "IN_SYNC"

\* Left alone, every playback comes to its end and gives the menu back, if no request
\* fails (NetworkFails): one that fails at the end of a file leaves main waiting for
\* a core that is gone (CoreInPlayback below).
PlaybackEnds == state \in PlaybackStates ~> state = "MENU_UI"

-----------------------------------------------------------------------------
(***************************************************************************)
(* What the code does not keep.  TLC finds each of these violated, on the  *)
(* constants the README gives; no other property is stated over them.      *)
(***************************************************************************)

\* While an item plays and every event has been handled, its session is open:
\* stopped is posted "for playback that just ended" (playback.h 29-30).
SessionOpen == Settled => now_playing \in open

\* Main is in the menu exactly when there is no mpv core: it never waits for the
\* events of a core that is gone ("enforce a clean state", "signal to enter UI
\* mode", playback.c 568-573; "kill and restart the whole mpv engine", menu.c 649).
CoreInPlayback == (state = "MENU_UI") <=> (mpv = NULL)

\* SessionsClosed of every item.
SessionsAllClosed == state = "MENU_UI" => open = {}

\* LoopsAgree and OutOfSyncEnds whatever came between.
LoopsAlwaysAgree ==
    Told => playlist_loops = mpv.loop \/ {playlist_loops, mpv.loop} \subseteq {0, 1}
OutOfSyncAlwaysEnds == Told => loop_state = "IN_SYNC"

\* The loop counter is a count, or -1 for infinite loops (shared.h 290-291).
LoopsCounted == playlist_loops >= -1

\* No IDLE comes in a state in which main calls it a bug (main.c 216-219).
IdleExpected == ~ (Receives("IDLE") /\ state \in {"SEEKING", "MENU_UI"})

\* A playlist skip has already moved by the time the END_FILE of the file skipped
\* is handled (main.c 114-117): that END_FILE does not move the playlist again.
SkipMovesOnce ==
    [][EndOfFile /\ state = "SEEKING" => playlist_position' = playlist_position]_vars
=============================================================================
