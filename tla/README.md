# jftui in TLA+

This directory keeps the specifications of [jftui](../src/README.md), a terminal client for
Jellyfin: TLA+ modules for the parts of the program that carry its logic, TLC configurations
that check them on small instances, and theorems with proofs that TLAPS checks. Source
references are to `src/src/` unless they say otherwise; `PROJECT.json` maps every definition
to the lines it stands for.

## 1. The system

jftui has one process and, besides the main thread, one thread that parses JSON
(`jf_json_sax_thread`) and three that perform requests (`jf_net_async_worker_thread`).
libmpv runs threads of its own behind an event queue.

| component | state | operations | talks to |
|---|---|---|---|
| synced queue (`shared.c`) | ring of 16 slots, `current`, `next`, mutex, two condition variables | enqueue, dequeue | main enqueues requests, workers dequeue |
| disk cache (`disk.c`) | two pairs of files (header of offsets, body of records), counts | add, get, replace, swap, refresh | parser adds to the payload; menu adds to the playlist; playback swaps and replaces |
| parser hand-off (`net.c`, `json.c`) | `s_tb`: one chunk, a state, mutex, two condition variables | write callback, wait for the parser, clear an error, the parser's loop | curl in the main thread against the parser thread |
| asynchronous networking (`net.c`, with callers in `menu.c`, `playback.c`, `main.c`) | requests, replies, worker handles, the table of flag changes, replies of a video's parts, exit flag | request, await, free, before/after perform, exit | main, workers, curl, signals |
| synchronous requests (`net.c`) | one handle | `jf_net_request` in memory or to the parser | main |
| playlist arithmetic (`playback.c`) | none | next, previous, window, shuffle | playback |
| playback (`main.c`, `playback.c`, `menu.c`) | global state, item playing, position, loop counters, disk playlist, mpv handle | the handlers of mpv's events and of the playlist messages, resume questions, end | mpv, server sessions, disk cache |
| menu and commands (`menu.c`, `cmd.leg`) | menu stack, context, filters, parser state | print, evaluate a line (two passes), open, play, mark, filter | user, server, disk cache |
| split parts (`playback.c`) | ticks of each part | post a position, align subtitles | playback, networking |
| SAX parser (`json.c`) | place in the document, fields of the item at hand | yajl's callbacks | disk cache, menu |
| settings and start-up (`config.c`, `main.c`) | options, settings file | read, write, log in | user, server |
| item records and growing buffers (`shared.c`, `disk.c`) | the bytes of a record; a block, its size and how much is used | write and read back an item with its children, a name; append, format, empty | disk cache, everything that builds a text |

Not considered at all: `linenoise.c` (vendored), `cmd.c` (generated from `cmd.leg`),
most of `json.c`'s one-shot DOM readers, the formatting of URLs (but for the filters they
carry) and of what is printed.

### What is hard in it

* **Threads.** The queue signals after its unlock; the reply's state is set and broadcast
  without the waiter's mutex; the parser and curl's callback take turns on one buffer; a
  signal handler runs the whole exit in whatever thread it interrupted.
* **Order.** mpv's events come after the fact: a skip, an end of file, an idle core and a
  changed loop count can be reported in orders that the handlers tell apart only by the
  global state.
* **Crashes.** The settings file is written anew at most starts, through a second file and a
  rename; the program can be killed between any two of these steps.
* **Partial failure.** A request in the middle of a playlist, one part of several, the last
  chunk of a body, a folder below the one shown.
* **Stale state.** Options left on a curl handle, the parser's place in a broken document,
  the resume mark of an item that is not playing any more.
* **Arithmetic.** The sliding window, the shuffle that steps over the item playing, ranges
  of numbers that are clamped and run both ways.

`PROJECT.json` lists forty such hazards, each at its line, with the properties that
would notice or with the reason why none does yet.

### What makes each component correct

The queue is a bounded FIFO, and no thread sleeps through what it waits for. The caches are
lists. The hand-off gives yajl each chunk once, in order, and a success means the parser is
done. A reply has one owner until it is freed, and not before its transfer is over; what was
asked for before the exit is sent. Main believes that what mpv plays is playing, counts its loops as
mpv does, and closes with the server what it has opened; the server knows in which part of a video playback is,
where in it, and which parts are over. The menu stack is a path in the library, and a line
that is refused has done nothing. The payload holds what the response said, and the number
on the screen is the entry's place in it. The settings file is always a whole one and of one
login, and what the user has answered or written is in force once start-up is over. A record is read
back as the item that was written, and a buffer holds what was put in it, in its own memory.

## 2. The modules

| module | models | abstraction |
|---|---|---|
| `Fifo` | what the synced queue promises | a sequence, with call and return of each operation apart from its effect |
| `SyncedQueue` | `jf_synced_queue_*` | one action per lock, test, wait, store and signal; spurious wakeups |
| `SyncedQueueProofs` | theorems | |
| `ItemLists` | what the caches promise | two lists of items |
| `DiskCache` | `disk.c` | an offset is the number of a record, a record is an item |
| `GrowingBuffer` | the operations of a growing buffer | a byte is a value, memory not written is `Junk` |
| `TextBuffer` | a buffer as its callers use it | which texts, and what lies behind them in memory, are constants |
| `ItemRecord`, `MCItemRecord` | the records of a cache, written and read field by field | a field of fixed width is one cell; either cache |
| `ItemRecordProofs` | theorems about `TextBuffer` and `ItemRecord` | |
| `ThreadBuffer`, `MCThreadBuffer` | `s_tb`: callback, waiting, clearing and the parser thread | a chunk is what yajl makes of it: `more`, `end` or `bad` |
| `ThreadBufferProofs` | theorems | |
| `AsyncNet`, `MCAsyncNet` | requests, replies, workers and all callers of the asynchronous interface | a reply is its state and whether it has a payload; the queue is a FIFO, as proved of `SyncedQueue` |
| `AsyncNetProofs` | theorems | |
| `Playlist` | the arithmetic of `playback.c` | |
| `Playback` | `jf_mpv_event_dispatch` and the playlist controls, with an mpv core and its user | handlers run to completion in main; the core is external |
| `SplitPart`, `MCSplitPart` | `jf_post_session` and its callers, the offers to resume, subtitle alignment, over the handlers of `Playback` | time is a few coarse units; which subtitle track is external is the core's choice |
| `PlaybackProofs` | theorems about `Playlist`, `Playback` and `SplitPart` | |
| `SaxParser`, `MCSaxParser` | the callbacks of the SAX parser, over the caches of `DiskCache` | yajl and the server generate a document token by token; a text is a tag of its origin |
| `SaxParserProofs` | theorems about `DiskCache` and `SaxParser` | |
| `Settings`, `MCSettings` | start-up: reading the settings, dialogues, login, writing and renaming, over many runs of the program | a file is a function from keys to values |
| `SettingsProofs` | theorems | |
| `Menu`, `MCMenu` | `jf_menu_ui`, the menu stack, the grammar's actions, the filters in a menu's title and in its URL | a line is the sequence of its actions; a URL is the set of filters in it |
| `MenuProofs` | theorems | |

`TextBuffer` extends `GrowingBuffer` and `ItemRecord` extends `TextBuffer`; `SplitPart` extends
`Playback`, which extends `Playlist`; `SaxParser` extends `DiskCache`; `SyncedQueue`
instantiates `Fifo`, `DiskCache` instantiates `ItemLists`. `AsyncNet` uses the queue at the level of `Fifo`, except that the
mutex of the queue is kept, since the signal handler may meet it held.

### State and actions

**SyncedQueue.** `slots`, `current`, `next`, `mut` and the two sets of sleepers are the
struct's fields (a slot that is `NULL` is free). `pc` says where a thread is; `Enqueue`,
`Lock`, `EnqueueTest`, `EnqueueWait`, `EnqueueStore`, `EnqueueSignal` are `shared.c` 320-332
in order, and the dequeue's actions lines 335-350. Store and signal are separate because the
code unlocks between them. `SpuriousWakeup` is what POSIX allows.

**DiskCache.** `header[c]`, `body[c]`, `count[c]` are the two files and the counter of a
cache. `ReplaceItem` appends the new record and overwrites one offset, so the old record
stays as garbage; `Refresh` truncates.

**TextBuffer.** `buffer` is the struct: `buf`, `size`, `used`. `Add`, `Close`, `Format` and `Empty`
are calls of `jf_growing_buffer_append`, `_sprintf` and `_empty`; `text` is a history of what
they put in. A write past the block would be lost to the model's buffer, and `TextKept` sees it.

**ItemRecord.** `body` has a cell for each field of fixed width and for each byte of a string;
`header` has offsets of cells, where `DiskCache` has numbers of records. `Record` is what
`jf_disk_add_next` writes. `Fetched` is one call of `jf_disk_get_next`; `GetNext[calls]` is that with at most
so many calls in one another, and `MaxNesting + 1` of them are enough for every item, none of which is among its
own descendants (`NestingAssumption`). The parameter `moved` stands for what `realloc` chooses: the name's pointer was taken before the path is read, so if
the buffer moves in between, the name is read from memory that is `Freed`. `PrintItem` is a line of
the message that shows the playlist: `jf_disk_playlist_get_item_name` reads a name into
`s_buffer`, from which it is formatted into the text of `TextBuffer`. A text is built within one
call, so no record is written while there is one (`text = <<>>` in the other actions).

**ThreadBuffer.** The main thread's points are curl's loop, the callback, after_perform and
the wait for the parser; the parser's are lock, wait, parse and restart. `tb_state` is the
field of that name; `sent`, `parsed` and `rejected` are histories. `MayExit` lets
another thread begin the exit, which makes the callback return 0.

**AsyncNet.** `mpc` is where main is and `ret` where it goes after the enqueue or the await
it is in; `cur`, `index`, `slots` and `parts` are variables of the callers: the update check,
`jf_menu_child_set_flag` with its table, `jf_menu_item_set_flag_await_all`, the detached
requests, `jf_playback_play_item` with the requests of the parts, and the quit. A worker
goes round dequeue, before_perform, perform (with write and header callbacks), after_perform
and broadcast. `Interrupt` runs `jf_exit` in the main thread wherever it is. A handle's
options that outlive a request are `custom` (the method) and `header` (the update check).

**Playback.** One action per `case` of `jf_mpv_event_dispatch`, with all of the functions it
calls: `MessageNext`, `MessagePrevious`, `MessageShuffle`, `StartFile`, `EndOfFile`, `Seek`,
`Idle`, `Shutdown`, `LoopChange`, and `TryPlay` for the start from the menu.
`jf_playback_play_item` and the two questions about resuming are the operator `PlayItem`: the
set of ways they may come out. `mpv` is the core: what it runs, what it has still to load,
its loop count and its queue of events; `open` is what the server has been told. A core that has
just been made may have found itself without a file, and have said so (`IDLE`), before its first `loadfile`, or not
(`NewCores`). The user changes the loop count whenever he likes (`UserLoop`), also while a change is
still to be reported; `mpv.disturbed` is a history of such races. The shuffle of a playlist of one item does
not return. The print message changes none of this and is left out; progress posts and subtitle
changes are in `SplitPart`.

**SplitPart.** Every action of `Playback` becomes one that says besides what is posted:
`SStartFile`, `SEndOfFile`, `SMessageNext`... conjoin the handler with `Post`, `PostFlags`,
`Load` (another item is played) or `Close` (playback is over). `TimePos` and
`SubtitleChange` are the property changes that `Playback` leaves out. `told` is the last post
of the item playing, `flagged` the flags the server was asked to set, `ticks` is
`now_playing->playback_ticks`; `Post` does nothing when the position, old or new, is in no
part, as the code returns. At the mark (`SSeek`) the position is recorded first and posted then, so the post
finds no part crossed. `moved` is a history: whether playback has come to another part, and by a post or by the
jump to a mark. mpv reports the properties of the file that it runs, `mpv.file`, which
after a skip is not yet `now_playing`.

**SaxParser.** `jf_sax_items_start_map`, `_end_map` and so on are the callbacks, one operator
each with the code's `switch` as a `CASE`. The state of waiting for a value is named by the
key. `doc` is the server: what containers are open, which keys they have still to
bring, and what the items have said of themselves, by path, independently of the parser. `Token`
hands the parser one token, `Request` is what `jf_menu_ui` does before a menu, and `Play` are the
commands that use the playlist meanwhile. `NullKeys` are keys that the server may leave null. `Said` is what an
item comes to when all of it has been said; `ItemsAssumption` names the entries that such items make,
and `NullAssumption` keeps `NULL` apart from the keys.

**Settings.** `pc` goes through `main` up to its loop; `options` is `g_options`,
`settings` and `tmp` are the two files. `Crash` is possible at every step and leaves
the files; `Edit` is the user with a text editor, between runs. `Read` compares a key with the
options in the order of the code and by as many bytes as the code does; `Stored` is what of a value fits in the
option, which for `device` and `deviceid` is an array (`Cuts`), and `Completed` gives those two their
defaults if they are empty. `answers` is a history of what the user has answered in the dialogues of this start.
`wish` is what he wants: what he has answered, as soon as a file with it is in place, what he has written by hand, or
what was first written for him. It is never read back from what the program writes while there is an
answer, an edit or an earlier wish.

**Menu.** `EnterMenu` takes the context from the stack and applies the filters, `PrintContext`
fetches and lists the menu, `ReadLine` takes a line, and the actions of the grammar
(`FiltersStart`, `DigestRange`, `Validate`, `Dispatch`, `Finalize`...) run one at a time in the
first pass and again in the second; `SecondPass`, `Succeed` and `Reject` are the prompt's loop.
`cmd` is `yy.state`. `query` is what `jf_menu_filters_apply` has put in `s_filters_query`, and
`asked` is a history: the filters in the last request for a menu, by the type of the folder.
Which sequences of actions are lines (`Selecting`, `Marking`, `Filtering`, `OneWord`) is the
grammar's rule `Start`, and an assumption on the constant `Lines`.

## 3. The runs

TLC finishes every run within about three minutes.

| run | bounds | shows |
|---|---|---|
| `MCSyncedQueue` | 2 producers, 2 consumers, 2 slots, 2 payloads | types, the ring's shape, no lost wakeup, refinement of `Fifo`; every payload is taken; a producer gets through a full ring |
| `MCSaxParser` | responses of up to 2 items of 4 shapes, 3 records per body, 2 levels of nesting in unknown values | refinement of `ItemLists`, each call has its own effect; the payload is the response, printed numbers are its positions |
| `MCItemRecord` | 8 items, two levels of children, 2 records; buffers of 4, 2 and 1 bytes; up to 3 bytes in a text | items read back as written; texts, and the names in them, are kept and in the block |
| `MCThreadBuffer` | 2 requests, bodies of up to 3 pieces, good and bad | chunks parsed in order; while documents are whole, none lost, success means parsed, requests return |
| `MCAsyncNet` | 2 workers, 3 requests, queue of 2, table of 2, 2 extra parts, SIGINT, bad headers | reply ownership, handle reset, exits behind requests, no look at a freed reply but in the clean-up over several parts |
| `MCAsyncNetLive` | 2 workers, 3 requests, queue of 2, table of 1, bad headers | full table served, every request sent, the exit completes, no reply freed under its worker but one that a malformed header has resolved |
| `MCPlayback` | 3 items with one mark or none, 2 inputs (skips, shuffles, loop counts 0 and 3, quitting), 5 events, failing files, heights 0 to 4 | item at position; sessions of items without marks closed; window; loops agree, and out of sync ends, unless there was a race; playback ends |
| `MCSplitPart` | a video of 3 parts (runtimes 2, 1, 2) and one of a single part, with one mark, several or none; 2 inputs, 3 events, cancels, failing requests and files, aborts | mpv plays what is shown, which is at the position; the position posted is that recorded; the other parts are flagged when a post crosses |
| `MCSplitPartMark` | as `MCSplitPart` | a disagreement, section 6 |
| `MCMenu` | a library of two levels, about ninety lines, failing fetches, a stack of 5 | the stack is a path, refused lines do nothing, menus are asked for with the filters their titles show, selections honoured |
| `MCSettings` | 2 servers, 2 users, 2 device ids; 2 edits by hand of 7 kinds, among them a device too long, an empty device id and lost lines; any number of starts, crashes and failing writes | the file is whole and of one login; what was answered or written is in force |
| `MCAsyncNetAwait` | the smallest that shows it | a disagreement, section 6 |

**Why the bounds are enough.** Two of each thread are needed for a signal to wake the wrong
one; with two slots and four threads the ring is full, empty and wrapped with sleepers on
both sides. Three chunks make a callback wait for the parser twice, and two
requests show what one leaves to the next. Three requests let the flag table fill and be
reused while an update check or a part is under way. Three items have a first, a middle and
a last, and three is the least a shuffle moves anything in; heights 0 to 4 are all, less
than, as many as and more than the items. Two inputs are what it takes for one to
meet the other's consequences: a skip during a skip, a loop count set before the last one is reported. Five events are
what a new core can queue by itself, from being made to the end of its first file, while main does nothing (idle, a
start, a seek, the end, idle again); where it has fewer, messages and a shutdown fall between them. Three,
in `MCSplitPart`, are enough for main to be one file behind mpv, which is what its properties tell apart. A menu stack of five is one more than the library is deep.

Three parts have one with parts on both sides, and a part of one unit is begun and over
within a step; a post every two units (`Threshold`) can pass over it. The item's end is a
position in none of its parts. With two items in a document each field can be left behind by
the item before; two documents in a row show the same of what a document leaves, and are
reached since requests are not bounded. The four shapes are an item that needs a runtime and has one, one that
needs it and has none, one without, and one whose type two keys decide. Two levels of
unknown values are the least at which maps and arrays close in an order of their own. Two servers and two users
make tokens that do not belong together; two device ids tell a kept one from a new one, and
two edits let a token be lost after a value was set.

A buffer of one byte grows in the first case by the estimate (one byte and a NUL: to 3) and then
by doubling (to 6); the buffer of names, of two bytes, is filled again with names longer and shorter
than what it holds. Of the eight items one has strings that end where the buffer of a record does,
others go past it in the name or in the path; the video has two versions, each of which has two
subtitle streams, so that something follows a child at either level. Two records let an item be
added beside another, replaced and read.

The bounds are `MaxRecords`, `MaxUsed`, `MaxRequests`, `MaxParts`, `MaxInputs`, `MaxEvents`, `MaxEdits` and
`MaxDepth` (of the menu stack in `Menu`, of ignored values in `SaxParser`), each declared in
its module; `MaxNesting` is none, but the height of the highest item. `MCAsyncNet` uses symmetry of the workers; it
checks no liveness property. `RequestsAreSent` asks it of queued requests by number.

**Deadlock** is checked except where the program may really stop: `MCThreadBuffer` (a
malformed body can leave main and the parser waiting for each other, section 6),
`MCAsyncNet` (`SIGINT` can), `MCSplitPart` and `MCSplitPartMark` (main can wait on a
core that is gone), and `MCMenu` (the program has quit).

**Fairness.** A thread that can take a step does (weak fairness per thread): the scheduler is
preemptive and no thread spins on a lock. Spurious wakeups end at some time. In `AsyncNet`
every transfer ends, well or badly, as curl's low-speed limit and the network see to; main
goes on with what it began but need not begin anything. In `Playback` main keeps
waiting for events and mpv keeps playing, so every file ends; the user owes nothing. A
`SHUTDOWN` or an idle core is only as fair as the events that lead to it. In `ThreadBuffer`
the same holds of main, the parser and the transfer.

**Conditions.** Some properties have a condition, because their full form is false; each full form
has its row in section 6.

* `HandOff`, `SuccessMeansParsed` and `RequestReturns` speak of histories that are `Clean` (no bytes that are
  not JSON, no document broken off before the next request). Most of the run's responses are whole
  documents, some with an HTTP error.
* `NoStaleReply` leaves out the clean-up over several parts after one of them failed (`NoReplyFreedTwice`),
  `RepliesOutliveTransfers` an update check that a malformed `Location` has resolved (`NoReplyFreedEarly`).
* `SessionsClosed` is of items without marks (`SessionsAllClosed`). Such an item's session must be closed also
  when items with marks are before and behind it in the playlist.
* `LoopsAgree` and `OutOfSyncEnds` speak of the time since main last took mpv's count for its own, as long as there
  was no race: each change of the count was reported before the next one and before the file ended, and the
  user did not skip (`LoopsAlwaysAgree`, `OutOfSyncAlwaysEnds`). A race is not forgotten until main
  takes a reported count over.
* Three hold in their run because a constant is `FALSE` there, as their comments say: `SessionsClosed` needs an mpv that
  reports how its files end (`Aborts`), `PlaybackEnds` that no request fails (`NetworkFails`), and `ExitCompletes`
  is of a normal quit (`Interrupts`).
* `PartsFlagged` is of parts that a post finds playback in (`PartsAlwaysFlagged`).
* `WishesInForce` leaves out the check for updates (`ChecksAsWished`) and, of the verification of host names, the wish
  to have it on (`HostVerifiedAsWished`).

Each property has a mutant, a definition named for it before the one it changes: the change a
plausible slip would make, under which TLC finds the property violated.

## 4. What is proved

TLAPS checks the following for every value of the constants, given the assumptions named in
the modules (for instance `SlotCount \in Nat \ {0}`, producers and consumers disjoint; the
number of threads and payloads is arbitrary, and finite only where it says so).

* `SyncedQueueProofs`: `TypeCorrect`, `RingShape`, `ImplementsFifo`. The inductive invariant
  is `IInv`: types; the mutex's owner is the thread between lock and unlock; what each thread
  knows at its point (a producer past its test sees a free slot, a consumer past its test a
  full one, `payload` is held from call to store); sleepers are asleep; and `RingInv`. `RingInv`
  alone is not inductive, since a store keeps it only if the slot was seen empty under the
  mutex. The refinement maps the occupied slots, from `current` on, to the abstract sequence:
  a store appends to it (`StoreAppends`), a take removes its head (`TakeRemovesHead`), and
  all other steps leave it alone. `WakeupsNotLost`, for finitely many threads, is inductive
  over `IInv`: each step changes the sleepers, the signals to come, the threads on their way
  and the occupied slots by at most one each, and the proof counts them.
* `ThreadBufferProofs`: `ParsedOnceInOrder`, `NothingLost`, `SuccessIsParsed`, for responses of
  any number and length, good or bad, with failing transfers and exits at any time
  (`ResponsesAssumption` only gives them their type). The invariant is `IInv`: the chunk in the
  buffer is the last one sent (`PendInv`), chunks bear their places (`SentInv`), parsed ones are
  in order and not past those (`ParsedInv`), what main knows at each of its points (`MainInv`),
  and `CleanInv`: as long as the documents that the parser has been *through* were JSON and
  whole, it has had each chunk and is where the last one left it. `Clean` speaks of all chunks
  sent, and is not inductive, since it may be lost by the chunk still in the buffer.
* `SaxParserProofs`, of the caches: `TypeCorrect`, `RecordsNotShared`, `ImplementsLists`,
  `CallsHaveTheirEffect`. `OwnRecord` is inductive together with the types, since a new record has
  an offset past all others. No run checks these two apart: what breaks them breaks the refinement.
  Each operation's effect on the list of items is a lemma of its own (`AddRefines`,
  `ReplaceRefines`, `SwapRefines`). `OperationsAgree` is stated besides the refinement, for which a
  swap gone wrong could still be some replacement.
* `SaxParserProofs`, of the parser: `PayloadAlwaysAnswer` and `NumbersAlwaysMatch`, for any number of
  items of any shapes, in any nesting and with their keys in any order. The invariant `SInv`
  (theorem `InStep`) says that the parser and the document are in step. `DocInv` is about
  the document alone: which containers are in which (`Nesting`), that each brings its keys once
  (`Keys`), and that an item has said what its shape has under the keys it has brought
  (`Facts`, with `Brought` the keys that are neither still due nor due in the user data, which is an
  object of its own). `ParserInv`: the parser's state is the one of the container on top (`Place`), the
  counts of ignored containers add up to the depth below the item, and the item at hand is
  what the document has declared. `AnswerInv`: payload, count and screen are what has been
  answered. None is inductive without the others: that an item is complete when its map closes
  is known only from the keys, and that a string is put in the right field only from the place.
  Two hypotheses, each with its row in section 6: `NoNulls` (no key that the parser reads is left null)
  and `OrderFree` (a type and a collection type come to the same in both orders). The run's shapes
  satisfy both. `CallsAreOfTheCaches` (`SSpec => Spec`) carries what is proved of the caches over to the
  program that uses them: `CachesStayLists`.
* `AsyncNetProofs`: `RequestsBeforeExitsAlways`, `HandleResetAlways`, `RepliesOwnedAlways`,
  `NoStaleReplyAlways` and `RepliesOutliveTransfersAlways`, for any number of workers, requests, slots and
  parts, with the exit beginning in a signal handler at any point. The invariant `IInv` says what
  each worker holds at its point (`WorkerInv`), that only detached requests have no reply (`ReplyInv`), that
  exits are queued behind all requests and only when main is leaving (`ExitInv`), that a request
  has been sent or somebody still has it (`SentInv`), and then only one (`PlaceInv`), that its reply
  is unresolved as long (`PendingInv`), and what main knows at each of its points (`MainInv`):
  what the variables of the callers hold (`PointInv`), that no reply is in two of them (`ApartInv`), which of
  those in them have been freed (`FreedInv`), and that no other reply is left to free (`OwnedInv`). `RepliesOwned` is
  not inductive by itself: a free keeps it only if nobody else has the reply. None has a hypothesis:
  videos have any number of parts, and headers may be malformed. What that makes go wrong is left out by
  the two properties themselves, and by no more than where it bites: in `NoStaleReply` the clean-up over several
  parts (`CleansSeveral`), in `RepliesOutliveTransfers` the update check on the handle that still has its header
  options.
* `ItemRecordProofs`, of the buffer: `NothingOverrun` (of `TextBuffer`) and `NamesKeptWhole` (of `ItemRecord`, where
  names of items are read and formatted as well): for texts of any number and length and a buffer of any
  first size, all that was put in is in the block and stays there, with the NUL behind a formatted
  text. The room that is made is enough although the estimate rounds down (`NewSizeEnough`), and
  bytes that room was made for leave those before them alone (`PutIn`). Assumed: an empty text is
  terminated (`Terminated`), which the parser's is not (section 6).
* `ItemRecordProofs`, of the records: `AlwaysReadBack`: for items of any kind, with strings of any length or
  none and children as deep as they may be, and however many records are written, put in the place of others or
  swapped, each position reads back as its item. The invariant `FilesInv` is that the record of each
  position's item lies at its offset, cell by cell; appending keeps what lies there (`BodyGrows`). That a record
  is read as it was written is told part by part (`RecordParts`): a string is read up to its NUL
  (`ReadsToNull`), and what is appended to a buffer byte by byte is found in it again (`AppendsAll`, `StringIn`), unless
  the name's pointer is stale, which `Fits` excludes; the records of the children lie one behind the
  other (`RowPlaced`), and each call leaves off where the next begins (`RowIsRead`). `ItemIsRead` puts this
  together: if some item were not read so, there would be one whose children are (`LowestItem`).
* `PlaybackProofs`, of the arithmetic: `WindowAlwaysFits`: for every playlist, position and size the
  printed window lies in the playlist, holds the position and has the size it should; the proof goes
  by the three cases of the code, with half the size as a number of its own. `ShuffleRearranges`:
  whatever `random()` returns, the shuffle loses and doubles no item and leaves the one playing where
  it is.
* `PlaybackProofs`, of the machine: `WindowAlwaysShown`, `AlwaysPlayingAtPosition` and
  `AlwaysPlaysWhatIsShown`, with no hypothesis, for playlists of any length and whatever fails, is
  cancelled or aborts. `IInv` is types, `Placed` (if anything is playing, it is the
  item at a position of the playlist; while there is a core, something is) and `Shown` (what mpv has
  to load, or else runs, is what main shows). Without the second half of
  `Placed` a step back from position 0 would leave the playlist; the code makes sure of it by
  destroying the core whenever it resets the position.

  `AlwaysSessionsClosed` assumes that mpv reports how its files end (`~ Aborts`, `main.c:225`), and nothing of
  marks, requests, questions or skips: no session of an item without marks is left open. Its invariant
  (`UnmarkedSessions`) is that such a session is that of `now_playing`, and that an `END_FILE` is queued before
  mpv says that it is idle or gone (`Closing`). `MarkedSessionsClosed` is about all items, and needs more: that they have one
  mark to resume at, or none (`PlainSessions`), and of the behaviour, that a file on its way to its mark is not ended,
  by the user or an error, before mpv has got there (`MarkReached`, `main.c:114`). In `START_MARK` no
  end of a file must be queued before the seek (`SeekFirst`): there main would leave the session open.
  That holds because a file is played from its mark only in a core made for it.

  `AlwaysLoopsAgree` and `AlwaysOutOfSyncEnds` assume that no loop count is -1 (`LoopValues \subseteq Nat`); the user may
  change the count at any time and skip. `Counters` says, as long as there was no race, by how much the two counters
  differ while an end of file is in the queue or its report is to come (`EndInStep`, `PlayInStep`), and that there is one
  such end at most (`OneEof`). Nothing is known after a race until main takes mpv's count over, when
  the two are equal whatever they were.
* `PlaybackProofs`, of the sessions: `SessionsArePlayback` (`SSpec => Spec`) shows that `SplitPart` refines
  `Playback`, so the theorems above hold of it too. `AlwaysServerHasPosition` and `AlwaysPartsFlagged`, for
  videos of any number of parts and any runtimes, with no hypothesis, rest on `Posted`: the part and
  the position last told are those of `ticks` in the item playing (`Situated`), and once a post has crossed
  from one part to another the flags are those of the part (`FlaggedAt`), until a mark is jumped to. The first
  is about the conversion between the whole item's ticks and those of a part; it says nothing of mpv's own
  position, which may be one of another file (`ProgressIsOwn`, section 6).
* `SettingsProofs`: `FileWhole` and `WishesKept`, for any servers, users, device ids and edits,
  and any number of starts and crashes. The invariant `IInv` has, besides the two properties'
  parts, what each point of the start knows (`PointInv`: a token and a user id in
  the options are of one login, that of the server in them, from the login on until the
  rename), that a file's lines are of values the program accepts (`FileInv`), that what was answered is what was
  asked for, and is an option (`AnswersInv`), and that a wish is in the file at all times, as far as it fits
  (`WishInv`), and in the options unless the user is about to be asked for it again (`KeptInv`). A
  wish for verified host names is excepted at each of these places, since an old `false` survives the answer
  that would undo it. The comparisons by prefix give each line to its own option (`OwnOption`); a value that
  has been cut, or an empty one replaced, stays as it is when it is written and read again (`StoredIs`, `CompletedIs`,
  by `CutsAssumption` and `DeviceIdsAssumption`). Assumed besides: `NULL` is no value, the user writes by hand
  only values that the program accepts (`AcceptedAssumption`; of any other the code keeps its default, and the wish is
  void), and he does not write server, user and token by hand (`EditsAssumption`), though he may lose them.
* `MenuProofs`: `AlwaysPath`, `RefusalsIdle`, `AskedAsShown`, `SelectionAlwaysHonoured`, for any library
  (`TreeAssumption`) and any lines of the grammar (`LinesAssumption`). That the stack is a path
  rests on what the first pass knows of selectors that it has not seen yet: in
  `VALIDATE_ATOMS`, if there is no folder in them (`NoFolder`), there is none in the line; in
  `VALIDATE_FOLDER`, if they select nothing (`Nothing`), the line selects one item only
  (`OneItem`). So the second pass opens a folder only on top of the menu that lists
  it. What selectors select, in the menu at hand, is `Selection`, a fold over the line; it is taken apart
  selector by selector (`SelectionCons`, from `FlattenCons`), and numbers typed one by one, up or down, select
  what the range between them does (`UpSelects`, `DownSelects`), so a range may be written out into
  numbers as the actions do (`WrittenOut`). That the URL and the title agree needs that two filters which
  contradict each other are never in force together. `SelectionAlwaysHonoured` needs a second
  invariant on top of the first, `Honouring`, about the second pass: what is on the playlist already, followed by
  what the rest of the line selects, is what the line selects (`Playing`), unless the one folder it
  selects is open (`Opened`); the same holds of the marks (`MarkedSoFar`); and a line of filters or of one word
  selects nothing (`NoSelectors`).

Recursive functions are reasoned about by their least counterexample: every set of natural numbers
that is not empty has a least one (`Least`), so a step that can be taken once can be taken any number of times
(`Iteration`). That gives the shuffle, the offsets at which the parts of a video begin, and what the lines and ranges of
`Menu` select, their values for every input. The library's induction theorems take an operator as a parameter, which
the provers cannot instantiate; the well-founded ones on sets are enough here.

The functions over items (`Record`, `AsRead`, `Fits`) are recursive in the children, and the assumption that items
have a height is what such a function exists by (`ThreeExists`): one that is right for all items up to
some height makes one that is right for those of the next.

Only model-checked: liveness under fairness, for which there is no rule here. Every invariant and every action
property that a passing run checks is the property of a theorem.

## 5. What is not modelled

* The widths of fields, and that an item is one block of memory with its strings behind it;
  freeing.
* DOM reading of items, printing, and of URLs all but the filters: one call in, one value out;
  the interesting properties would be about formats.
* Of start-up: `--help`, `--version`, how versions compare, the assertion that the
  directories can be made, loss of power (nothing is synced to the disk), two
  instances that share `settings.tmp`. `try_local_files` is kept as read; what it comes to in the
  end is decided by `jf_net_url_is_localhost` of a server that may still be `NULL`.
* The effect of `ssl_verifyhost` on a transfer: it is set on a handle that does not exist
  yet (`net.c:278`), so there is none.
* Assertion failures (`assert` and `JF_CURL_ASSERT`): out of memory and library errors.
* `jf_synced_queue_free` and `jf_disk_clear`, which run when no other thread does.
* Items of unsupported type (`JF_CMD_FAIL_DISPATCH`), which the parser never makes.
* In the menu, the parts of a split item: one request goes out, for the item, and none for its parts (the `FIXME` of
  `menu.c:935-936`); what that does to the parts is up to the server.
* Edits by hand of `server`, `userid` and `token` (`EditsAssumption`): a login made up by the user.
* That a post of a part's flag fails: the request is detached, nobody looks, and `flagged` is what was asked for.

## 6. Where the code and its promises part

Two runs show a violation and are listed as findings.

* `MCAsyncNetAwait`: `jf_net_await` tests the reply under `s_async_mut`, the worker sets and broadcasts
  without it (`net.c:680`): main can sleep for ever.
* `MCSplitPartMark`: `jf_post_session` is to "detect if we moved across split-file parts since the last such
  update and mark parts previous to current as played, next to current as unplayed" (`playback.h:15-18`). When
  a video is resumed at a mark, main records mpv's position as the last one before it posts it (`main.c:143`), so that no
  part seems crossed (`playback.c:123`): the parts before the mark's keep the flags they had.

TLC shows more of them when a configuration is changed as follows; the properties named are
in the modules, under a heading of their own where no run checks them.

| change | property | what happens |
|---|---|---|
| `ThreadBuffer`: drop `Clean`; a body `<<<<"more">>>>` | `RequestReturns` | a document that ends early leaves main waiting (`net.c:190`) |
| `ThreadBuffer`: drop `Clean`; `BadResponses` | `RequestReturns` | the callback returns with the mutex locked (`net.c:219-225`), main blocks on it |
| `MCThreadBuffer` | `ParserErrorReported` | a body that the parser rejects in its last chunk is a success: `net.c:196` returns on `PARSER_ERROR` as on `CLEAR`, and only a later piece would tell |
| `ThreadBuffer`: `CurlMayFail = TRUE` | `GoodResponseParses` | after a broken transfer yajl is still in the old document (`json.c:464`) |
| `MCAsyncNetLive` | `NoReplyFreedEarly` | the header callback resolves a reply under way, and main frees it (`net.c:788`) |
| `MCAsyncNetLive`: `Interrupts = TRUE`, no deadlock check | `ExitCompletes` | the handler waits for a lock of the thread it interrupted (`main.c:47`) |
| `MCAsyncNet` | `NoReplyFreedTwice` | when one part fails, the clean-up goes over the replies from the first on, freed ones as well, and drops those of later parts (`playback.c:471-482`) |
| `MCAsyncNet` | `MethodAsAsked` | a POST after a DELETE on one handle goes out as DELETE (`net.c:437`) |
| `MCAsyncNet` | `UpdateHasVersion` | an update check answered 200 succeeds without payload (`main.c:450`) |
| `MCPlayback`: `NetworkFails = TRUE` | `CoreInPlayback` | `jf_playback_next` fails at the end of a file and has ended playback; `main.c:131` overwrites `MENU_UI` by `PLAYBACK_STOPPING`, and main waits for events of a `NULL` core |
| `MCPlayback`: `NetworkFails = TRUE`, no deadlock check | `PlaybackEnds` | the same: main waits for ever |
| `MCPlayback` | `SessionsAllClosed` | the session is opened in `START_MARK`; if the user quits, or the file fails, before the seek is reported, the end of the file posts nothing (`main.c:114`) and nor does the shutdown (`main.c:225`) |
| `MCPlayback`: `Aborts = TRUE` | `SessionsClosed` | an abort during a skip closes the session of `now_playing` only (`main.c:225`) |
| `MCPlayback`: `Count = 1`, `Marks = {"many"}`, `MaxInputs = 0`, `FilesFail = FALSE`, no deadlock check | `SessionsAllClosed` | the item is played from the beginning, in `START_MARK` without a seek to come (`menu.c:761`) |
| `MCPlayback`: `Marks = {"none", "many"}` | `CoreInPlayback` | the selection returns before mpv is made anew (`menu.c:1181`) |
| `MCPlayback` | `SessionOpen` | a skip past the end posts a stop and plays on (`main.c:86`) |
| `MCPlayback` | `IdleExpected` | mpv goes idle between two files in `PLAYLIST_SEEKING` (`main.c:216`) |
| `MCPlayback` | `SkipMovesOnce` | a skip that meets the end of the file moves twice (`main.c:127`) |
| `MCPlayback`: `-1` in `LoopValues` (by an operator) | `LoopsCounted` | an infinite loop counts down from -1 (`playback.c:504`) |
| `MCSplitPart` | `ProgressIsOwn` | after a skip, mpv's position in the old file is posted as progress of the new item (`main.c:157`) |
| `MCSplitPart` | `SubtitlesInPlace` | the shift of a split item's subtitles stays for the next item, which has one part (`playback.c:217`) |
| `MCSaxParser`: `NullKeys = {"Name"}` | `PayloadIsAnswer` | after a null the next key is taken for the value (`json.c:508`) |
| `MCSaxParser`: a shape with `Type` `"UserView"` and `CollectionType` `"music"` | `PayloadIsAnswer` | the type depends on which key comes first (`json.c:261`) |
| `MCSettings` | `ChecksAsWished` | a `check_updates` set by hand is lost at the next write (`config.c:210`) |
| `MCSettings` | `HostVerifiedAsWished` | asked for the server again over an old `ssl_verifyhost false`, the answer n does not restore it (`config.c:312-314`) |
| `MCSettings` | `FreedOnce` | user id and token are freed before the dialogue (`main.c:368`) and again after the login (`json.c:760`) |
| `MCPlayback` | `OutOfSyncAlwaysEnds` | a skip by the user waits for a decrement that does not come (`playback.c:507`); and, also with `Controls = {}`, a change by the user that is reported together with a decrement |
| `MCPlayback` | `LoopsAlwaysAgree` | stepping back over the start costs no loop in jftui's counter; and, also with `Controls = {}`, a change by the user is taken for the decrement that main waits for, or is undone (`main.c:165-199`) |
| `MCPlayback`: `Count = 1`, no deadlock check | `PlaybackEnds` | the shuffle of a playlist of one item does not return: its unsigned bound wraps (`playback.c:581-585`) |
| `MCItemRecord` | `AlwaysReadsBack` | an item's name is read through a pointer into a buffer that its path has outgrown (`disk.c:110`) |
| `MCItemRecord`: `Rests <- DocumentRests` | `TextKept` | an empty path in a response is appended with a length of zero, and takes the document behind it along (`json.c:324`) |
| `MCMenu` | `StaticItemsKept` | marking an entry of the root menu frees a static item (`menu.c:979`) |
| `MCMenu`: a folder of type `PLAYLIST` (in `MCTypeOf`) | `EveryMenuAsShown` | a playlist is asked for without the filters its title shows (`menu.c:424`) |
| `MCMenu` | `DiagramFollowed` | the second pass of a filter command goes from `VALIDATE_OK` to `SPECIAL`, not as in `docs/command_state_machine.gv` |

Besides, a seek to a mark that ends at the very end of a split item records a position that lies in no part, so it is
never posted, and nor are those that follow (`playback.c:97`; `Post` and `SSeek`). And `playback.h:51` says that the slice height is a number of items before and after; it is
the height of the whole window.

## 7. Plan

Done, in this order: queue, caches, hand-off, networking, playback, menu, because each stands
on the former; then sessions of split items over playback, the SAX parser over the caches,
settings with crashes, and the records and buffers below the caches.

Left: the composition of `SaxParser` and `ThreadBuffer`. Chunk boundaries fall between any two tokens,
and a rejected or broken document meets the state in which the callbacks left the context (section 6
shows both halves apart).
