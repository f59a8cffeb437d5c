------------------------------- MODULE AsyncNet -------------------------------
(***************************************************************************)
(* Asynchronous networking (net.c): the main thread queues requests, a     *)
(* pool of workers performs them on one curl handle each and fills in the  *)
(* jf_reply the caller holds.  Main is modelled with every use it makes of *)
(* the interface: the update check (main.c), the flag changes it keeps     *)
(* track of and the detached ones (menu.c), the requests for a video and   *)
(* its additional parts (playback.c), and program termination.  The queue  *)
(* is the FIFO that SyncedQueue implements.  The model starts when         *)
(* jf_net_init has run.                                                    *)
(***************************************************************************)
EXTENDS Integers, Sequences, FiniteSets, SequencesExt

CONSTANTS
    Workers,            \* s_async_threads
    SlotCount,          \* slots of s_async_queue
    FlagSlots,          \* JF_FLAG_CHANGE_REQUESTS_LEN
    MaxRequests,        \* bound: requests main issues in a behaviour
    MaxParts,           \* bound: additional parts of a video
    Methods,            \* the methods main uses for flag changes
    MalformedLocation,  \* whether the update server may send a bad Location header
    Interrupts,         \* whether SIGINT may arrive
    NULL

ASSUME BoundAssumption ==
    /\ SlotCount \in Nat \ {0} /\ FlagSlots \in Nat \ {0}
    /\ MaxRequests \in Nat /\ MaxParts \in Nat
ASSUME MethodAssumption == Methods \subseteq {"POST", "DELETE"}
ASSUME SwitchAssumption == MalformedLocation \in BOOLEAN /\ Interrupts \in BOOLEAN
ASSUME NullAssumption == NULL \notin Nat
ASSUME WorkerAssumption == IsFiniteSet(Workers) /\ Workers # {}

VARIABLES
    requests,   \* the jf_async_request's made so far: type and method
    replies,    \* state of their jf_reply: "null" if none, "freed" once freed
    payloads,   \* the replies whose payload is not NULL
    queue,      \* s_async_queue, oldest first
    mut,        \* whether main holds the queue's mutex
    s_mut,      \* whether main holds s_mut
    exiting,    \* JF_STATE_IS_EXITING(g_state.state)
    mpc,        \* where main is
    ret,        \* where it goes after the enqueue or the await it is in
    cur,        \* the request being enqueued, or the reply being awaited
    index,      \* the loop variable of the caller
    method,     \* of the flag change main is looking for a slot for
    want,       \* how many additional parts to ask for
    slots,      \* s_played_status_requests
    parts,      \* replies of jf_playback_populate_video_ticks
    wpc, job,   \* where each worker is, and the request it works on
    custom,     \* workers whose handle has CURLOPT_CUSTOMREQUEST set
    header,     \* workers whose handle has the header callback set
    sent        \* the requests that went out, with the method they went out with

heap == <<requests, replies, payloads>>
main == <<mpc, ret, cur, index, method, want, slots, parts>>
pool == <<wpc, job, custom, header, sent>>
locks == <<mut, s_mut, exiting>>
vars == <<heap, queue, locks, main, pool>>

Ids == 1 .. Len(requests)
Exit == 0       \* a JF_REQUEST_EXIT in the queue
Errors == {"failed", "bad_location"}

Init ==
    /\ requests = <<>> /\ replies = <<>> /\ payloads = {}
    /\ queue = <<>>
    /\ mut = FALSE /\ s_mut = FALSE /\ exiting = FALSE
    /\ mpc = "start" /\ ret = "idle" /\ cur = NULL /\ index = 0
    /\ method = NULL /\ want = NULL
    /\ slots = [i \in 1 .. FlagSlots |-> NULL]
    /\ parts = <<>>
    /\ wpc = [w \in Workers |-> "dequeue"]
    /\ job = [w \in Workers |-> NULL]
    /\ custom = {} /\ header = {}
    /\ sent = {}

-----------------------------------------------------------------------------
(* jf_net_request, jf_net_await and jf_reply_free, as main calls them       *)

\* jf_async_request_new, and on to the queue; main continues at label.
Issue(type, how, label) ==
    /\ requests' = Append(requests, [type |-> type, method |-> how])
    /\ replies' = Append(replies, IF type = "detach" THEN "null" ELSE "pending")
    /\ cur' = Len(requests) + 1
    /\ mpc' = "enqueue"
    /\ ret' = label
    /\ UNCHANGED payloads

\* The queue's mutex is had and there is room (else main waits without it).
EnqueueLock ==
    /\ mpc = "enqueue"
    /\ ~ mut
    /\ Len(queue) < SlotCount
    /\ mut' = TRUE
    /\ mpc' = "enqueue_locked"
    /\ UNCHANGED <<heap, queue, s_mut, exiting, ret, cur, index, method, want, slots, parts, pool>>

EnqueueStore ==
    /\ mpc = "enqueue_locked"
    /\ queue' = Append(queue, cur)
    /\ mut' = FALSE
    /\ mpc' = ret
    /\ UNCHANGED <<heap, s_mut, exiting, ret, cur, index, method, want, slots, parts, pool>>

\* Go and wait for a reply; main continues at label.
Await(r, label) ==
    /\ cur' = r
    /\ mpc' = "await"
    /\ ret' = label

\* The test of the state, which only main does under s_async_mut.  Reading a
\* reply that has been freed may find anything.
AwaitTest ==
    /\ mpc = "await"
    /\ \/ replies[cur] # "pending" /\ mpc' = ret
       \/ replies[cur] \in {"pending", "freed"} /\ mpc' = "await_wait"
    /\ UNCHANGED <<heap, queue, locks, ret, cur, index, method, want, slots, parts, pool>>

\* pthread_cond_wait: a broadcast made before it wakes nobody.
AwaitWait ==
    /\ mpc = "await_wait"
    /\ mpc' = "await_asleep"
    /\ UNCHANGED <<heap, queue, locks, ret, cur, index, method, want, slots, parts, pool>>

SpuriousWakeup ==
    /\ mpc = "await_asleep"
    /\ mpc' = "await"
    /\ UNCHANGED <<heap, queue, locks, ret, cur, index, method, want, slots, parts, pool>>

\* A pending reply is leaked.
Free(r) ==
    /\ replies' = [replies EXCEPT ![r] = IF @ = "pending" THEN @ ELSE "freed"]
    /\ payloads' = IF replies[r] = "pending" THEN payloads ELSE payloads \ {r}
    /\ UNCHANGED requests

-----------------------------------------------------------------------------
(* Main's uses: the update check at startup                                *)

RequestUpdate ==
    /\ mpc = "start"
    /\ Issue("update", "GET", "startup")
    /\ UNCHANGED <<queue, locks, index, method, want, slots, parts, pool>>

SkipUpdate ==
    /\ mpc = "start"
    /\ mpc' = "idle"
    /\ UNCHANGED <<heap, queue, locks, ret, cur, index, method, want, slots, parts, pool>>

ResolveUpdate ==
    /\ mpc = "startup"
    /\ Await(cur, "update_done")
    /\ UNCHANGED <<heap, queue, locks, index, method, want, slots, parts, pool>>

\* Print what the reply says, and free it.
UpdateDone ==
    /\ mpc = "update_done"
    /\ Free(cur)
    /\ cur' = NULL
    /\ mpc' = "idle"
    /\ UNCHANGED <<queue, locks, ret, index, method, want, slots, parts, pool>>

-----------------------------------------------------------------------------
(* Main's uses: flag changes                                               *)

SetFlag(m) ==
    /\ mpc = "idle"
    /\ Len(requests) < MaxRequests
    /\ mpc' = "flag_find"
    /\ method' = m
    /\ UNCHANGED <<heap, queue, locks, ret, cur, index, want, slots, parts, pool>>

\* The first free slot, if there is one.
FlagFindFree ==
    /\ mpc = "flag_find"
    /\ \E i \in DOMAIN slots :
         /\ slots[i] = NULL /\ \A j \in 1 .. i - 1 : slots[j] # NULL
         /\ index' = i
    /\ Issue("in_memory", method, "flag_store")
    /\ method' = NULL
    /\ UNCHANGED <<queue, locks, want, slots, parts, pool>>

\* Mutant: any slot is taken, resolved or not.
FlagFindAnySlot ==
    /\ mpc = "flag_find"
    /\ \A i \in DOMAIN slots : slots[i] # NULL
    /\ \E i \in DOMAIN slots :
         /\ Free(slots[i])
         /\ slots' = [slots EXCEPT ![i] = NULL]
    /\ UNCHANGED <<queue, locks, mpc, ret, cur, index, method, want, parts, pool>>

\* Else poll until some slot is seen to be resolved: free that reply, take the
\* slot.  The scan reads one slot after another, so it need not be the first.
FlagFindResolved ==
    /\ mpc = "flag_find"
    /\ \A i \in DOMAIN slots : slots[i] # NULL
    /\ \E i \in DOMAIN slots :
         /\ replies[slots[i]] # "pending"
         /\ Free(slots[i])
         /\ slots' = [slots EXCEPT ![i] = NULL]
    /\ UNCHANGED <<queue, locks, mpc, ret, cur, index, method, want, parts, pool>>

FlagStore ==
    /\ mpc = "flag_store"
    /\ slots' = [slots EXCEPT ![index] = cur]
    /\ cur' = NULL
    /\ index' = 0
    /\ mpc' = "idle"
    /\ UNCHANGED <<heap, queue, locks, ret, method, want, parts, pool>>

\* jf_menu_item_set_flag_await_all
AwaitAll ==
    /\ mpc = "idle"
    /\ mpc' = "await_all"
    /\ index' = 1
    /\ UNCHANGED <<heap, queue, locks, ret, cur, method, want, slots, parts, pool>>

AwaitSlot ==
    /\ mpc = "await_all"
    /\ index <= FlagSlots
    /\ IF slots[index] = NULL
       THEN index' = index + 1 /\ UNCHANGED <<mpc, ret, cur>>
       ELSE Await(slots[index], "slot_done") /\ UNCHANGED index
    /\ UNCHANGED <<heap, queue, locks, method, want, slots, parts, pool>>

\* Mutant: the slot keeps the reply that was freed.
SlotDoneKeep ==
    /\ mpc = "slot_done"
    /\ Free(cur)
    /\ cur' = NULL
    /\ index' = index + 1
    /\ mpc' = "await_all"
    /\ UNCHANGED <<queue, locks, ret, method, want, slots, parts, pool>>

SlotDone ==
    /\ mpc = "slot_done"
    /\ Free(cur)
    /\ slots' = [slots EXCEPT ![index] = NULL]
    /\ cur' = NULL
    /\ index' = index + 1
    /\ mpc' = "await_all"
    /\ UNCHANGED <<queue, locks, ret, method, want, parts, pool>>

AwaitAllDone ==
    /\ mpc = "await_all"
    /\ index > FlagSlots
    /\ index' = 0
    /\ mpc' = "idle"
    /\ UNCHANGED <<heap, queue, locks, ret, cur, method, want, slots, parts, pool>>

\* jf_post_session_update, jf_menu_item_set_flag_detach
Detach(m) ==
    /\ mpc = "idle"
    /\ Len(requests) < MaxRequests
    /\ Issue("detach", m, "detached")
    /\ UNCHANGED <<queue, locks, index, method, want, slots, parts, pool>>

Detached ==
    /\ mpc = "detached"
    /\ cur' = NULL
    /\ mpc' = "idle"
    /\ UNCHANGED <<heap, queue, locks, ret, index, method, want, slots, parts, pool>>

-----------------------------------------------------------------------------
(* Main's uses: a video and its additional parts (jf_playback_play_item)   *)

RequestVideo ==
    /\ mpc = "idle"
    /\ Len(requests) < MaxRequests
    /\ Issue("in_memory", "GET", "video_requested")
    /\ UNCHANGED <<queue, locks, index, method, want, slots, parts, pool>>

\* The synchronous request for /additionalparts has failed, or tells how many
\* parts there are; in both cases the reply for the video is awaited.
VideoRequested ==
    /\ mpc = "video_requested"
    /\ \E n \in {k \in 0 .. MaxParts : Len(requests) + k <= MaxRequests} \cup {NULL} : want' = n
    /\ Await(cur, "video_done")
    /\ UNCHANGED <<heap, queue, locks, index, method, slots, parts, pool>>

VideoDone ==
    /\ mpc = "video_done"
    /\ Free(cur)
    /\ cur' = NULL
    /\ IF want = NULL \/ replies[cur] \in Errors
       THEN mpc' = "idle" /\ want' = NULL
       ELSE mpc' = "parts_request" /\ UNCHANGED want
    /\ UNCHANGED <<queue, locks, ret, index, method, slots, parts, pool>>

\* jf_playback_populate_video_ticks: first ask for all the parts ...
PartsRequest ==
    /\ mpc = "parts_request"
    /\ Len(parts) < want
    /\ Issue("in_memory", "GET", "part_store")
    /\ UNCHANGED <<queue, locks, index, method, want, slots, parts, pool>>

PartStore ==
    /\ mpc = "part_store"
    /\ parts' = Append(parts, cur)
    /\ cur' = NULL
    /\ mpc' = "parts_request"
    /\ UNCHANGED <<heap, queue, locks, ret, index, method, want, slots, pool>>

PartsRequested ==
    /\ mpc = "parts_request"
    /\ Len(parts) = want
    /\ want' = NULL
    /\ index' = 1
    /\ mpc' = "parts_await"
    /\ UNCHANGED <<heap, queue, locks, ret, cur, method, slots, parts, pool>>

\* ... then await them one by one.  The clean-up after an error runs over all of
\* them again, with the same loop variable.
PartAwait ==
    /\ mpc \in {"parts_await", "parts_cleanup"}
    /\ index <= Len(parts)
    /\ Await(parts[index], IF mpc = "parts_await" THEN "part_done" ELSE "part_cleaned")
    /\ UNCHANGED <<heap, queue, locks, index, method, want, slots, parts, pool>>

PartFailed ==
    /\ mpc = "part_done"
    /\ replies[cur] \in Errors
    /\ cur' = NULL
    /\ index' = 1
    /\ mpc' = "parts_cleanup"
    /\ UNCHANGED <<heap, queue, locks, ret, method, want, slots, parts, pool>>

PartDone ==
    /\ \/ mpc = "part_done" /\ replies[cur] \notin Errors /\ mpc' = "parts_await"
       \/ mpc = "part_cleaned" /\ mpc' = "parts_cleanup"
    /\ Free(cur)
    /\ cur' = NULL
    /\ index' = index + 1
    /\ UNCHANGED <<queue, locks, ret, method, want, slots, parts, pool>>

PartsDone ==
    /\ mpc \in {"parts_await", "parts_cleanup"}
    /\ index > Len(parts)
    /\ parts' = <<>>
    /\ index' = 0
    /\ mpc' = "idle"
    /\ UNCHANGED <<heap, queue, locks, ret, cur, method, want, slots, pool>>

-----------------------------------------------------------------------------
(* Termination: jf_exit and jf_net_clear                                   *)

\* From the main loop, or because a request of the startup has failed.
Quit ==
    /\ mpc \in {"startup", "idle"}
    /\ exiting' = TRUE
    /\ mpc' = "exit"
    /\ UNCHANGED <<heap, queue, mut, s_mut, ret, cur, index, method, want, slots, parts, pool>>

\* jf_exit as the handler of SIGINT: it runs on top of whatever main was doing,
\* once (ret = "interrupted").
Interrupt ==
    /\ Interrupts
    /\ mpc # "exited" /\ ret # "interrupted"
    /\ exiting' = TRUE
    /\ mpc' = "exit"
    /\ ret' = "interrupted"
    /\ UNCHANGED <<heap, queue, mut, s_mut, cur, index, method, want, slots, parts, pool>>

ClearLock ==
    /\ mpc = "exit"
    /\ ~ s_mut
    /\ s_mut' = TRUE
    /\ index' = 0
    /\ mpc' = "clear"
    /\ UNCHANGED <<heap, queue, mut, exiting, ret, cur, method, want, slots, parts, pool>>

\* Mutants: the exit requests overtake the others; there is only one of them.
ClearEnqueueFirst ==
    /\ mpc = "clear"
    /\ index < Cardinality(Workers)
    /\ ~ mut
    /\ Len(queue) < SlotCount
    /\ queue' = <<Exit>> \o queue
    /\ index' = index + 1
    /\ UNCHANGED <<heap, locks, mpc, ret, cur, method, want, slots, parts, pool>>

ClearEnqueueOnce ==
    /\ mpc = "clear"
    /\ index < Cardinality(Workers)
    /\ ~ mut
    /\ Len(queue) < SlotCount
    /\ queue' = Append(queue, Exit)
    /\ index' = Cardinality(Workers)
    /\ UNCHANGED <<heap, locks, mpc, ret, cur, method, want, slots, parts, pool>>

\* One JF_REQUEST_EXIT for each worker.
ClearEnqueue ==
    /\ mpc = "clear"
    /\ index < Cardinality(Workers)
    /\ ~ mut
    /\ Len(queue) < SlotCount
    /\ queue' = Append(queue, Exit)
    /\ index' = index + 1
    /\ UNCHANGED <<heap, locks, mpc, ret, cur, method, want, slots, parts, pool>>

\* pthread_join of all the workers; then _exit.
ClearJoin ==
    /\ mpc = "clear"
    /\ index = Cardinality(Workers)
    /\ \A w \in Workers : wpc[w] = "exited"
    /\ mpc' = "exited"
    /\ UNCHANGED <<heap, queue, locks, ret, cur, index, method, want, slots, parts, pool>>

-----------------------------------------------------------------------------
(* The workers                                                             *)

Dequeue(w) ==
    /\ wpc[w] = "dequeue"
    /\ ~ mut
    /\ queue # <<>>
    /\ queue' = Tail(queue)
    /\ IF Head(queue) = Exit
       THEN wpc' = [wpc EXCEPT ![w] = "exited"] /\ UNCHANGED job
       ELSE /\ wpc' = [wpc EXCEPT ![w] = "before"]
            /\ job' = [job EXCEPT ![w] = Head(queue)]
    /\ UNCHANGED <<heap, locks, main, custom, header, sent>>

\* Options stay on a handle until they are changed: CUSTOMREQUEST overrides the
\* method that HTTPGET or POSTFIELDS selects.
BeforePerform(w) ==
    LET r == requests[job[w]] IN
    /\ wpc[w] = "before"
    /\ custom' = IF r.method = "DELETE" THEN custom \cup {w} ELSE custom
    /\ header' = IF r.type = "update" THEN header \cup {w} ELSE header
    /\ sent' = sent \cup {<<job[w], IF w \in custom' THEN "DELETE" ELSE r.method>>}
    /\ wpc' = [wpc EXCEPT ![w] = "perform"]
    /\ UNCHANGED <<heap, queue, locks, main, job>>

\* Mutant: the write callback already marks the reply a success.
DeliverMarks(w) ==
    /\ wpc[w] = "perform"
    /\ ~ exiting
    /\ requests[job[w]].type = "in_memory"
    /\ replies' = [replies EXCEPT ![job[w]] = IF @ = "freed" THEN @ ELSE "success"]
    /\ payloads' = payloads \cup {job[w]}
    /\ UNCHANGED <<requests, queue, locks, main, pool>>

\* A write callback, jf_reply_callback or jf_detach_callback.  Returning 0 makes
\* curl give up the transfer.
Deliver(w) ==
    /\ wpc[w] = "perform"
    /\ IF exiting
       THEN wpc' = [wpc EXCEPT ![w] = "aborted"] /\ UNCHANGED payloads
       ELSE /\ requests[job[w]].type = "in_memory"
            /\ payloads' = payloads \cup {job[w]}
            /\ UNCHANGED wpc
    /\ UNCHANGED <<requests, replies, queue, locks, main, job, custom, header, sent>>

\* jf_check_update_header_callback on a Location header.
DeliverLocation(w) ==
    /\ wpc[w] = "perform"
    /\ w \in header
    /\ ~ exiting
    /\ \/ payloads' = payloads \cup {job[w]} /\ UNCHANGED replies
       \/ /\ MalformedLocation
          /\ replies' = [replies EXCEPT ![job[w]] = IF @ = "freed" THEN @ ELSE "bad_location"]
          /\ UNCHANGED payloads
    /\ UNCHANGED <<requests, queue, locks, main, pool>>

\* What after_perform leaves in a reply that has no error yet.
Outcome(r, result) ==
    CASE result = 200 -> "success"
      [] result = 302 /\ requests[r].type = "update" ->
           IF r \in payloads THEN "success" ELSE "bad_location"
      [] OTHER -> "failed"

\* Mutants: the handle is only reset after a transfer that went well; a status
\* that is not expected leaves the reply pending.
AfterPerformNoReset(w, result) ==
    LET r == job[w] IN
    /\ wpc[w] \in {"perform", "aborted"}
    /\ wpc[w] = "aborted" => result = 0
    /\ wpc' = [wpc EXCEPT ![w] = "broadcast"]
    /\ header' = IF requests[r].type = "update" /\ result # 0 THEN header \ {w} ELSE header
    /\ IF replies[r] = "pending"
       THEN /\ replies' = [replies EXCEPT ![r] = Outcome(r, result)]
            /\ payloads' = IF Outcome(r, result) = "failed"
                           THEN payloads \cup {r} ELSE payloads
       ELSE UNCHANGED <<replies, payloads>>
    /\ UNCHANGED <<requests, queue, locks, main, job, custom, sent>>

AfterPerformPending(w, result) ==
    LET r == job[w] IN
    /\ wpc[w] \in {"perform", "aborted"}
    /\ wpc[w] = "aborted" => result = 0
    /\ wpc' = [wpc EXCEPT ![w] = "broadcast"]
    /\ header' = IF requests[r].type = "update" THEN header \ {w} ELSE header
    /\ IF replies[r] = "pending" /\ result # 404
       THEN /\ replies' = [replies EXCEPT ![r] = Outcome(r, result)]
            /\ payloads' = IF Outcome(r, result) = "failed"
                           THEN payloads \cup {r} ELSE payloads
       ELSE UNCHANGED <<replies, payloads>>
    /\ UNCHANGED <<requests, queue, locks, main, job, custom, sent>>

\* result: the HTTP status, or 0 for a transfer that curl reports as failed.
AfterPerform(w, result) ==
    LET r == job[w] IN
    /\ wpc[w] \in {"perform", "aborted"}
    /\ wpc[w] = "aborted" => result = 0
    /\ wpc' = [wpc EXCEPT ![w] = "broadcast"]
    /\ header' = IF requests[r].type = "update" THEN header \ {w} ELSE header
    /\ IF replies[r] = "pending"
       THEN /\ replies' = [replies EXCEPT ![r] = Outcome(r, result)]
            /\ payloads' = IF Outcome(r, result) = "failed"
                           THEN payloads \cup {r} ELSE payloads
       ELSE UNCHANGED <<replies, payloads>>
    /\ UNCHANGED <<requests, queue, locks, main, job, custom, sent>>

\* jf_async_request_free, and pthread_cond_broadcast without s_async_mut.
Broadcast(w) ==
    /\ wpc[w] = "broadcast"
    /\ wpc' = [wpc EXCEPT ![w] = "dequeue"]
    /\ job' = [job EXCEPT ![w] = NULL]
    /\ mpc' = IF mpc = "await_asleep" THEN "await" ELSE mpc
    /\ UNCHANGED <<heap, queue, locks, ret, cur, index, method, want, slots, parts, custom, header, sent>>

-----------------------------------------------------------------------------
\* What main does on its own once it has begun something.
MainStep ==
    \/ EnqueueLock \/ EnqueueStore \/ AwaitTest \/ AwaitWait
    \/ ResolveUpdate \/ UpdateDone
    \/ FlagFindFree \/ FlagFindResolved \/ FlagStore
    \/ AwaitSlot \/ SlotDone \/ AwaitAllDone \/ Detached
    \/ VideoRequested \/ VideoDone
    \/ PartsRequest \/ PartStore \/ PartsRequested
    \/ PartAwait \/ PartFailed \/ PartDone \/ PartsDone
    \/ ClearLock \/ ClearEnqueue \/ ClearJoin

\* What the user has it begin.
MainCall ==
    \/ RequestUpdate \/ SkipUpdate
    \/ \E m \in Methods : SetFlag(m) \/ Detach(m)
    \/ AwaitAll \/ RequestVideo \/ Quit

WorkerStep(w) ==
    \/ Dequeue(w) \/ BeforePerform(w) \/ Broadcast(w)
    \/ \E result \in {0, 200, 302, 404} : AfterPerform(w, result)

Finished == mpc = "exited" /\ UNCHANGED vars

Next ==
    \/ MainStep \/ MainCall \/ Interrupt \/ SpuriousWakeup
    \/ \E w \in Workers : WorkerStep(w) \/ Deliver(w) \/ DeliverLocation(w)
    \/ Finished

Spec == Init /\ [][Next]_vars

(***************************************************************************)
(* Fairness: main goes on with what it has begun; every transfer ends some *)
(* day, well or badly, and its worker goes on; spurious wakeups end.       *)
(***************************************************************************)
Fairness ==
    /\ WF_vars(MainStep)
    /\ \A w \in Workers : WF_vars(WorkerStep(w))
    /\ <>[][~ SpuriousWakeup]_vars

FairSpec == Spec /\ Fairness

-----------------------------------------------------------------------------
TypeOK ==
    /\ requests \in Seq([type : {"in_memory", "detach", "update"},
                         method : {"GET", "POST", "DELETE"}])
    /\ replies \in Seq({"null", "pending", "success", "freed"} \cup Errors)
    /\ Len(replies) = Len(requests) /\ Len(requests) <= MaxRequests
    /\ payloads \subseteq Ids
    /\ queue \in Seq(Ids \cup {Exit}) /\ Len(queue) <= SlotCount
    /\ {mut, s_mut, exiting} \subseteq BOOLEAN
    /\ cur \in Ids \cup {NULL}
    /\ index \in Nat
    /\ method \in Methods \cup {NULL}
    /\ want \in (0 .. MaxParts) \cup {NULL}
    /\ slots \in [1 .. FlagSlots -> Ids \cup {NULL}]
    /\ parts \in Seq(Ids)
    /\ wpc \in [Workers -> {"dequeue", "before", "perform", "aborted", "broadcast", "exited"}]
    /\ job \in [Workers -> Ids \cup {NULL}]
    /\ custom \subseteq Workers /\ header \subseteq Workers
    /\ sent \subseteq Ids \X {"GET", "POST", "DELETE"}

\* Until the program exits, every reply that has not been freed is held by one of
\* its owners (a slot of the flag table, the array of parts, or the variable of
\* the caller), and no slot of the table holds a freed reply or another slot's:
\* the table's reuse of slots (menu.c 948-970) neither leaks nor duplicates one.
RepliesOwned ==
    ~ exiting =>
        /\ \A r \in Ids : replies[r] \notin {"null", "freed"} =>
             \/ cur = r \/ r \in Range(parts) \/ \E i \in DOMAIN slots : slots[i] = r
        /\ \A i, j \in DOMAIN slots :
             slots[i] # NULL => replies[slots[i]] # "freed" /\ (slots[i] = slots[j] => i = j)

\* The options that an update check puts on a worker's handle are off again when
\* that worker performs anything else, whatever way the check ended.
HandleReset ==
    \A w \in header : wpc[w] \in {"perform", "aborted"} => requests[job[w]].type = "update"

\* No worker leaves while there are requests to perform, and none is taken from
\* the queue without being sent: what was asked for before the exit goes out.
RequestsBeforeExits ==
    /\ (\E w \in Workers : wpc[w] = "exited") => Range(queue) \subseteq {Exit}
    /\ mpc = "exited" /\ ret # "interrupted" =>
         \A r \in Ids : \E m \in {"GET", "POST", "DELETE"} : <<r, m>> \in sent

\* While a worker performs a request, the reply it writes to has not been freed
\* (jf_net_await returns "the request is fully evaded", net.h 135-136): but for an
\* update check, whose reply the callback for the Location header resolves before
\* the transfer ends when that header is malformed (net.c 786-789).
RepliesOutliveTransfers ==
    \A w \in Workers :
        wpc[w] \in {"before", "perform", "aborted"} /\ replies[job[w]] = "freed" =>
            MalformedLocation /\ requests[job[w]].type = "update" /\ w \in header

\* Where main waits for, or looks at, the reply cur.
Awaiting == {"await", "await_wait", "await_asleep"}
LooksAtReply == mpc \in Awaiting \cup {"update_done", "slot_done", "video_done", "part_done", "part_cleaned"}

\* In the clean-up after a part that failed, of several (playback.c 477-482).
CleansSeveral ==
    /\ Len(parts) > 1
    /\ mpc = "part_cleaned" \/ (mpc \in Awaiting /\ ret = "part_cleaned")

\* Main never waits for, or looks at, a reply it has freed, whatever part of a video
\* fails and whenever slots of the flag table are reused: but in the clean-up after
\* a failure among several parts, which goes over those already freed again.
NoStaleReply == LooksAtReply /\ ~ CleansSeveral => replies[cur] # "freed"

\* A flag change that finds the table full gets a slot in the end.
FlagFindsSlot == mpc = "flag_find" ~> mpc # "flag_find"

\* Every request that was made is performed in the end, by some worker.
RequestsAreSent ==
    \A r \in 1 .. MaxRequests :
        (r \in Range(queue)) ~> \E m \in {"GET", "POST", "DELETE"} : <<r, m>> \in sent

\* Waiting for a reply comes to an end (net.h 135-136).
AwaitReturns == mpc = "await" ~> mpc \notin Awaiting

\* Termination, once begun, comes to an end; not so where a signal handler begins it
\* (Interrupts), which may wait for a lock of the thread it has interrupted.
ExitCompletes == mpc = "exit" ~> mpc = "exited"

-----------------------------------------------------------------------------
(***************************************************************************)
(* What the code does not keep.  TLC finds each of these violated, on the  *)
(* constants the README gives; no other property is stated over them.      *)
(***************************************************************************)

\* The clean-up after a part that failed looks at no freed reply either.
NoReplyFreedTwice == LooksAtReply => replies[cur] # "freed"

\* Nor does a worker that performs an update check write to one.
NoReplyFreedEarly ==
    \A w \in Workers : wpc[w] \in {"before", "perform", "aborted"} => replies[job[w]] # "freed"

\* A request goes out with the method that was asked for ("with the obvious
\* semantics", net.h 146-148).
MethodAsAsked == \A out \in sent : requests[out[1]].method = out[2]

\* The reply of an update check that is no error has the version as its payload
\* (net.h 155-162), which main compares and prints.
UpdateHasVersion == mpc = "update_done" /\ replies[cur] = "success" => cur \in payloads
=============================================================================
