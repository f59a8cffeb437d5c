----------------------------- MODULE AsyncNetProofs -----------------------------
(***************************************************************************)
(* Theorems about AsyncNet for any number of workers, slots and requests:  *)
(* every reply has one owner until it is freed, a freed one is not looked  *)
(* at and has no worker left, options do not outlive the request they were *)
(* set for, and what was asked for before the exit is sent.                *)
(***************************************************************************)
EXTENDS AsyncNet, SequenceTheorems, TLAPS

-----------------------------------------------------------------------------
(***************************************************************************)
(* The inductive invariant.                                                *)
(***************************************************************************)

Enqueueing == {"enqueue", "enqueue_locked"}
Leaving == {"exit", "clear", "exited"}

\* Where main is, or goes after the enqueue or the await it is in.
At == IF mpc \in Enqueueing \cup Awaiting THEN ret ELSE mpc

\* Points at which cur is a request just made, a reply that has been awaited, nothing.
Fresh == {"startup", "flag_store", "detached", "video_requested", "part_store"}
Awaited == {"update_done", "slot_done", "video_done", "part_done", "part_cleaned"}
Bare == {"start", "idle", "flag_find", "await_all", "parts_request", "parts_await", "parts_cleanup"}

InParts == {"parts_request", "part_store", "parts_await", "part_done", "parts_cleanup", "part_cleaned"}

Requests == [type : {"in_memory", "detach", "update"}, method : {"GET", "POST", "DELETE"}]
States == {"null", "pending", "success", "freed"} \cup Errors

Types ==
    /\ requests \in Seq(Requests)
    /\ replies \in Seq(States) /\ Len(replies) = Len(requests)
    /\ queue \in Seq(Ids \cup {Exit})
    /\ cur \in Ids \cup {NULL}
    /\ index \in Nat
    /\ slots \in [1 .. FlagSlots -> Ids \cup {NULL}]
    /\ parts \in Seq(Ids)
    /\ wpc \in [Workers -> {"dequeue", "before", "perform", "aborted", "broadcast", "exited"}]
    /\ job \in [Workers -> Ids \cup {NULL}]
    /\ header \subseteq Workers

\* A worker has a request; the update check's options are on while it performs one.
WorkerInv ==
    /\ \A w \in Workers : wpc[w] \notin {"dequeue", "exited"} => job[w] \in Ids
    /\ \A w \in header : wpc[w] \in {"perform", "aborted"} /\ requests[job[w]].type = "update"

\* Only detached requests have no reply.
ReplyInv == \A r \in Ids : replies[r] = "null" <=> requests[r].type = "detach"

\* Exits are queued behind requests, and only when main is leaving.
ExitInv ==
    /\ \A i, j \in 1 .. Len(queue) : i < j /\ queue[i] = Exit => queue[j] = Exit
    /\ \A w \in Workers, i \in 1 .. Len(queue) : wpc[w] = "exited" => queue[i] = Exit
    /\ mpc \notin Leaving =>
         /\ \A i \in 1 .. Len(queue) : queue[i] # Exit
         /\ \A w \in Workers : wpc[w] # "exited"
    /\ mpc = "exited" => \A w \in Workers : wpc[w] = "exited"
    /\ ret = "interrupted" => mpc \in Leaving
    /\ exiting <=> mpc \in Leaving

\* A request has gone out, or somebody still has it.
SentInv ==
    ret # "interrupted" =>
      \A r \in Ids :
        \/ \E m \in {"GET", "POST", "DELETE"} : <<r, m>> \in sent
        \/ \E i \in 1 .. Len(queue) : queue[i] = r
        \/ \E w \in Workers : wpc[w] = "before" /\ job[w] = r
        \/ mpc \in Enqueueing /\ cur = r

Working(w) == wpc[w] \in {"before", "perform", "aborted"}

\* A request is in one place only: being enqueued, in the queue or with a worker.
PlaceInv ==
    /\ \A i, j \in 1 .. Len(queue) : queue[i] = queue[j] /\ queue[i] # Exit => i = j
    /\ \A v, w \in Workers : Working(v) /\ Working(w) /\ job[v] = job[w] => v = w
    /\ \A w \in Workers, i \in 1 .. Len(queue) : Working(w) => queue[i] # job[w]
    /\ mpc \in Enqueueing =>
         /\ \A i \in 1 .. Len(queue) : queue[i] # cur
         /\ \A w \in Workers : Working(w) => job[w] # cur

Unresolved(r) == replies[r] \in {"pending", "null"}

\* A malformed header may have resolved the reply that a worker still works for.
Early(w) == MalformedLocation /\ w \in header

\* And until it has been performed, its reply is not resolved.
PendingInv ==
    /\ \A i \in 1 .. Len(queue) : queue[i] # Exit => Unresolved(queue[i])
    /\ \A w \in Workers : Working(w) => Unresolved(job[w]) \/ Early(w)
    /\ mpc \in Enqueueing => Unresolved(cur)

\* What main has in its variables.
PointInv ==
    /\ mpc \in Enqueueing => ret \in Fresh
    /\ mpc \in Awaiting => ret \in Awaited
    /\ At \in Fresh \cup Awaited \cup Bare
    /\ At \in Bare => cur = NULL
    /\ At \in Fresh \cup Awaited => cur \in Ids
    /\ At \in Fresh \cup Awaited => (At = "detached" <=> requests[cur].type = "detach")
    /\ At = "flag_store" => index \in 1 .. FlagSlots /\ slots[index] = NULL
    /\ At = "flag_find" => method \in Methods
    /\ At = "await_all" => index \in Nat \ {0}
    /\ At = "slot_done" => index \in 1 .. FlagSlots /\ cur = slots[index]
    /\ At \in {"part_done", "part_cleaned"} => index \in 1 .. Len(parts) /\ cur = parts[index]
    /\ At \in {"parts_await", "parts_cleanup"} => index \in 1 .. Len(parts) + 1
    /\ mpc \in Awaited => replies[cur] # "pending"
    /\ At \in {"parts_request", "part_store"} => want \in 0 .. MaxParts
    /\ At = "parts_request" => Len(parts) <= want
    /\ At = "part_store" => Len(parts) < want
    /\ want # NULL => want \in 0 .. MaxParts
    /\ At \notin InParts => parts = <<>>
    /\ Len(parts) <= MaxParts
    /\ \A i \in 1 .. FlagSlots : slots[i] # NULL => requests[slots[i]].type # "detach"
    /\ \A i \in 1 .. Len(parts) : requests[parts[i]].type # "detach"

\* No reply has two owners.
ApartInv ==
    /\ \A i, j \in 1 .. FlagSlots : slots[i] = slots[j] /\ slots[i] # NULL => i = j
    /\ \A i, j \in 1 .. Len(parts) : parts[i] = parts[j] => i = j
    /\ \A i \in 1 .. FlagSlots, j \in 1 .. Len(parts) : slots[i] # parts[j]
    /\ At \in Fresh \cup {"update_done", "video_done"} =>
         /\ \A i \in 1 .. FlagSlots : slots[i] # cur
         /\ \A j \in 1 .. Len(parts) : parts[j] # cur

\* Which replies have been freed: none that is in the table or in cur; of the parts those
\* that the loop has been through.
FreedInv ==
    /\ \A i \in 1 .. FlagSlots : slots[i] # NULL => replies[slots[i]] # "freed"
    /\ At \in Fresh \cup {"update_done", "video_done"} => replies[cur] # "freed"
    /\ \A i \in 1 .. Len(parts) :
         /\ At \notin {"parts_cleanup", "part_cleaned"} /\ (At \in {"parts_await", "part_done"} => i >= index)
              => replies[parts[i]] # "freed"
         /\ Len(parts) <= 1 /\ At \in {"parts_cleanup", "part_cleaned"} /\ i >= index
              => replies[parts[i]] # "freed"
         /\ At \in {"parts_await", "part_done", "parts_cleanup", "part_cleaned"} /\ i < index
              => replies[parts[i]] = "freed"

\* Every other reply has an owner.
OwnedInv ==
    \A r \in Ids : replies[r] \notin {"null", "freed"} =>
        \/ cur = r
        \/ \E i \in 1 .. Len(parts) : parts[i] = r
        \/ \E i \in 1 .. FlagSlots : slots[i] = r

MainInv == mpc \notin Leaving => PointInv /\ ApartInv /\ FreedInv /\ OwnedInv

IInv == Types /\ WorkerInv /\ ReplyInv /\ ExitInv /\ SentInv /\ PlaceInv /\ PendingInv /\ MainInv

-----------------------------------------------------------------------------
(***************************************************************************)
(* The heap, as the steps use it.                                          *)
(***************************************************************************)

LEMMA InitInv == Init => IInv
<1> SUFFICES ASSUME Init PROVE IInv
  OBVIOUS
<1>0. Len(requests) = 0 /\ Ids = {} /\ Len(queue) = 0 /\ Len(parts) = 0
  BY DEF Init, Ids
<1>1. Types
  <2>1. \A S : <<>> \in Seq(S)
    BY EmptySeq
  <2> QED  BY <1>0, <2>1 DEF Init, Types
<1>2. At = "start"
  BY DEF Init, At, Enqueueing, Awaiting
<1>3. PointInv
  BY <1>0, <1>2, BoundAssumption DEF Init, PointInv, Fresh, Awaited, Bare, InParts, Enqueueing, Awaiting
<1>4. ApartInv /\ FreedInv /\ OwnedInv
  BY <1>0, <1>2 DEF Init, ApartInv, FreedInv, OwnedInv, Fresh
<1>5. WorkerInv /\ ReplyInv /\ ExitInv /\ SentInv /\ PlaceInv /\ PendingInv
  BY <1>0 DEF Init, WorkerInv, ReplyInv, ExitInv, SentInv, PlaceInv, PendingInv, Working, Enqueueing, Leaving
<1> QED  BY <1>1, <1>3, <1>4, <1>5 DEF IInv, MainInv

\* jf_async_request_new: one request more, with a reply unless it is detached.
LEMMA IssueEffects ==
  ASSUME Types, NEW type \in {"in_memory", "detach", "update"}, NEW how \in {"GET", "POST", "DELETE"},
         NEW label, Issue(type, how, label)
  PROVE  LET new == Len(requests) + 1 IN
         /\ requests' \in Seq(Requests) /\ replies' \in Seq(States)
         /\ Len(requests') = new /\ Len(replies') = new
         /\ new \notin Ids /\ new \in Nat /\ Ids' = Ids \cup {new}
         /\ \A r \in Ids : requests'[r] = requests[r] /\ replies'[r] = replies[r]
         /\ requests'[new].type = type /\ requests'[new].method = how
         /\ replies'[new] = IF type = "detach" THEN "null" ELSE "pending"
         /\ cur' = new /\ mpc' = "enqueue" /\ ret' = label
<1> DEFINE q == [type |-> type, method |-> how]
           a == IF type = "detach" THEN "null" ELSE "pending"
<1>1. q \in Requests /\ a \in States
  BY DEF Requests, States
<1>2. requests' = Append(requests, q) /\ replies' = Append(replies, a)
  BY DEF Issue
<1>3. requests \in Seq(Requests) /\ replies \in Seq(States) /\ Len(replies) = Len(requests)
  BY DEF Types
<1> HIDE DEF q, a
<1>4. /\ requests' \in Seq(Requests) /\ replies' \in Seq(States)
      /\ Len(requests') = Len(requests) + 1 /\ Len(replies') = Len(requests) + 1
      /\ Len(requests) \in Nat
      /\ \A r \in 1 .. Len(requests) : requests'[r] = requests[r] /\ replies'[r] = replies[r]
      /\ requests'[Len(requests) + 1] = q /\ replies'[Len(requests) + 1] = a
  BY <1>1, <1>2, <1>3, AppendProperties, LenProperties
<1>5. Ids' = Ids \cup {Len(requests) + 1} /\ Len(requests) + 1 \notin Ids
  BY <1>4 DEF Ids
<1> QED  BY <1>4, <1>5 DEF q, a, Issue, Ids

\* jf_reply_free of a reply that has been resolved.
LEMMA FreeEffects ==
  ASSUME Types, NEW r \in Ids, replies[r] # "pending", Free(r)
  PROVE  /\ requests' = requests /\ Ids' = Ids
         /\ replies' \in Seq(States) /\ Len(replies') = Len(replies)
         /\ \A s \in Ids : replies'[s] = IF s = r THEN "freed" ELSE replies[s]
<1>1. replies' = [replies EXCEPT ![r] = "freed"]
  BY DEF Free, Types, Ids
<1>2. replies \in Seq(States) /\ Len(replies) = Len(requests) /\ "freed" \in States
  BY DEF Types, States
<1>3. r \in 1 .. Len(replies)
  BY <1>2 DEF Ids
<1>4. replies' \in Seq(States) /\ Len(replies') = Len(replies)
  BY <1>1, <1>2, <1>3, ExceptSeq
<1>5. \A s \in 1 .. Len(replies) : replies'[s] = IF s = r THEN "freed" ELSE replies[s]
  BY <1>1, <1>2, <1>3, ExceptSeq
<1> QED  BY <1>2, <1>4, <1>5 DEF Free, Ids

LEMMA SeqWider ==
  ASSUME NEW S, NEW T, S \subseteq T, NEW s \in Seq(S)
  PROVE  s \in Seq(T)
<1>1. s \in [1 .. Len(s) -> S] /\ Len(s) \in Nat
  BY LenProperties
<1>2. s \in [1 .. Len(s) -> T]
  BY <1>1
<1> QED  BY <1>1, <1>2, SeqDef

\* What the variables hold are still requests after one more has been made.
LEMMA IssueTypes ==
  ASSUME Types, NEW type \in {"in_memory", "detach", "update"}, NEW how \in {"GET", "POST", "DELETE"},
         NEW label, Issue(type, how, label),
         UNCHANGED <<queue, slots, parts, wpc, job, header>>, index' \in Nat
  PROVE  Types'
<1>1. /\ requests' \in Seq(Requests) /\ replies' \in Seq(States) /\ Len(replies') = Len(requests')
      /\ Ids \subseteq Ids' /\ cur' \in Ids'
  BY IssueEffects, Zenon
<1>2. queue' \in Seq((Ids \cup {Exit})') /\ parts' \in Seq(Ids')
  <2>1. Ids \cup {Exit} \subseteq Ids' \cup {Exit}
    BY <1>1
  <2>2. queue \in Seq(Ids \cup {Exit}) /\ parts \in Seq(Ids)
    BY DEF Types
  <2>3. queue \in Seq(Ids' \cup {Exit}) /\ parts \in Seq(Ids')
    BY <1>1, <2>1, <2>2, SeqWider
  <2> QED  BY <2>3 DEF Exit
<1>3. slots' \in [1 .. FlagSlots -> Ids' \cup {NULL}] /\ job' \in [Workers -> Ids' \cup {NULL}]
  BY <1>1 DEF Types
<1> QED  BY <1>1, <1>2, <1>3 DEF Types

-----------------------------------------------------------------------------
(***************************************************************************)
(* The requests on their way.                                              *)
(***************************************************************************)

PoolInv == WorkerInv /\ ReplyInv /\ ExitInv /\ SentInv /\ PlaceInv /\ PendingInv

\* Main does something that is none of the workers' business: at most it frees a
\* reply that has been resolved.
LEMMA MainQuiet ==
  ASSUME Types, PoolInv, Types', requests' = requests, UNCHANGED <<queue, pool, exiting>>,
         \A r \in Ids : \/ replies'[r] = replies[r]
                        \/ replies[r] \notin {"pending", "null"} /\ replies'[r] = "freed",
         mpc \notin Leaving, mpc' \notin Leaving, ret' # "interrupted", ret # "interrupted",
         mpc \in Enqueueing <=> mpc' \in Enqueueing, mpc \in Enqueueing => cur' = cur,
         mpc \in Enqueueing => cur \in Ids
  PROVE  PoolInv'
<1>1. Ids' = Ids /\ UNCHANGED <<wpc, job, header, custom, sent>>
  BY DEF Ids, pool
<1>2. \A w \in Workers : Working(w)' = Working(w)
  BY <1>1 DEF Working
<1>3. \A i \in 1 .. Len(queue) : queue[i] \in Ids \cup {Exit}
  BY DEF Types
<1>4. WorkerInv' /\ ReplyInv'
  BY <1>1 DEF PoolInv, WorkerInv, ReplyInv
<1>5. ExitInv' /\ SentInv'
  <2>1. ExitInv'
    BY <1>1 DEF PoolInv, ExitInv, Leaving
  <2>2. SentInv'
    BY <1>1 DEF PoolInv, SentInv
  <2> QED  BY <2>1, <2>2
<1>6. PlaceInv'
  BY <1>1, <1>2 DEF PoolInv, PlaceInv
<1>7. PendingInv'
  <2>1. \A r \in Ids : Unresolved(r) => Unresolved(r)'
    BY DEF Unresolved
  <2>2. \A w \in Workers : Working(w) => job[w] \in Ids
    BY DEF PoolInv, WorkerInv, Working
  <2>3. \A i \in 1 .. Len(queue) : queue'[i] # Exit => Unresolved(queue[i])'
    BY <1>3, <2>1 DEF PoolInv, PendingInv
  <2>4. \A w \in Workers : Working(w)' => Unresolved(job[w])' \/ Early(w)'
    BY <1>1, <1>2, <2>1, <2>2 DEF PoolInv, PendingInv, Unresolved, Early
  <2>5. mpc' \in Enqueueing => Unresolved(cur)'
    BY <2>1 DEF PoolInv, PendingInv
  <2> QED  BY <1>1, <2>3, <2>4, <2>5 DEF PendingInv, Unresolved, Early
<1> QED  BY <1>4, <1>5, <1>6, <1>7 DEF PoolInv

\* A new request is with main only.
LEMMA IssuePool ==
  ASSUME Types, PoolInv, Types',
         NEW type \in {"in_memory", "detach", "update"}, NEW how \in {"GET", "POST", "DELETE"},
         NEW label \in Fresh, Issue(type, how, label), UNCHANGED <<queue, pool, exiting>>,
         mpc \notin Leaving, mpc \notin Enqueueing
  PROVE  PoolInv'
<1> DEFINE new == Len(requests) + 1
<1>1. /\ new \notin Ids /\ Ids' = Ids \cup {new} /\ new \in Nat \ {0}
      /\ \A r \in Ids : requests'[r] = requests[r] /\ replies'[r] = replies[r]
      /\ requests'[new].type = type
      /\ replies'[new] = IF type = "detach" THEN "null" ELSE "pending"
      /\ cur' = new /\ mpc' = "enqueue" /\ ret' = label
  <2>1. Len(requests) \in Nat
    BY DEF Types
  <2> QED  BY <2>1, IssueEffects
<1>2. UNCHANGED <<wpc, job, header, custom, sent>>
  BY DEF pool
<1> HIDE DEF new
<1>3. \A w \in Workers : Working(w)' = Working(w)
  BY <1>2 DEF Working
<1>4. \A i \in 1 .. Len(queue) : queue[i] \in Ids \cup {Exit}
  BY DEF Types
<1>5. \A w \in Workers : Working(w) => job[w] \in Ids
  BY DEF PoolInv, WorkerInv, Working
<1>6. mpc' \in Enqueueing /\ mpc' \notin Leaving /\ ret' # "interrupted" /\ ret # "interrupted"
  BY <1>1 DEF Enqueueing, Leaving, Fresh, PoolInv, ExitInv
<1>7. WorkerInv'
  <2>1. \A w \in Workers : wpc[w] \notin {"dequeue", "exited"} => job[w] \in Ids
    BY DEF PoolInv, WorkerInv
  <2>2. \A w \in header : w \in Workers /\ wpc[w] \in {"perform", "aborted"} /\ requests[job[w]].type = "update"
    BY DEF PoolInv, WorkerInv, Types
  <2> QED  BY <1>1, <1>2, <2>1, <2>2 DEF WorkerInv
<1>8. ReplyInv'
  BY <1>1 DEF PoolInv, ReplyInv
<1>9. ExitInv'
  BY <1>1, <1>2, <1>6 DEF PoolInv, ExitInv, Leaving
<1>10. SentInv'
  BY <1>1, <1>2, <1>6 DEF PoolInv, SentInv
<1>11. PlaceInv'
  <2>1. \A i \in 1 .. Len(queue) : queue[i] # new
    BY <1>1, <1>4 DEF Exit
  <2>2. \A w \in Workers : Working(w) => job[w] # new
    BY <1>1, <1>5
  <2> QED  BY <1>1, <1>2, <1>3, <2>1, <2>2 DEF PoolInv, PlaceInv
<1>12. PendingInv'
  <2>1. \A r \in Ids : Unresolved(r)' = Unresolved(r)
    BY <1>1 DEF Unresolved
  <2>2. Unresolved(cur)'
    BY <1>1 DEF Unresolved
  <2>3. \A i \in 1 .. Len(queue) : queue[i] # Exit => Unresolved(queue[i])'
    BY <1>4, <2>1 DEF PoolInv, PendingInv
  <2>4. \A w \in Workers : Working(w)' => Unresolved(job[w])' \/ Early(w)'
    BY <1>2, <1>3, <1>5, <2>1 DEF PoolInv, PendingInv, Unresolved, Early
  <2> QED  BY <1>2, <2>2, <2>3, <2>4 DEF PendingInv, Unresolved, Early
<1> QED  BY <1>7, <1>8, <1>9, <1>10, <1>11, <1>12 DEF PoolInv

\* The queue with one more at its end, and with one less at its front.
LEMMA QueueAppended ==
  ASSUME Types, NEW r \in Ids \cup {Exit}, queue' = Append(queue, r)
  PROVE  /\ queue' \in Seq(Ids \cup {Exit}) /\ Len(queue') = Len(queue) + 1 /\ Len(queue) \in Nat
         /\ \A i \in 1 .. Len(queue) : queue'[i] = queue[i]
         /\ queue'[Len(queue) + 1] = r
<1>1. queue \in Seq(Ids \cup {Exit})
  BY DEF Types
<1> QED  BY <1>1, AppendProperties, LenProperties

LEMMA QueueTail ==
  ASSUME Types, queue # <<>>, queue' = Tail(queue)
  PROVE  /\ queue' \in Seq(Ids \cup {Exit}) /\ Len(queue') = Len(queue) - 1 /\ Len(queue) \in Nat \ {0}
         /\ \A i \in 1 .. Len(queue') : queue'[i] = queue[i + 1]
         /\ Head(queue) = queue[1] /\ queue[1] \in Ids \cup {Exit}
<1>1. queue \in Seq(Ids \cup {Exit})
  BY DEF Types
<1>2. Len(queue) \in Nat \ {0}
  BY <1>1, EmptySeq, LenProperties
<1> QED  BY <1>1, <1>2, HeadTailProperties

\* A worker's request is no exit.
LEMMA WorkerHasRequest ==
  ASSUME PoolInv, NEW w \in Workers, Working(w)
  PROVE  job[w] \in Ids /\ job[w] # Exit
  BY DEF PoolInv, WorkerInv, Working, Ids, Exit

\* The request that main has made is queued.
LEMMA EnqueueStorePool ==
  ASSUME Types, PoolInv, EnqueueStore, ret \in Fresh, cur \in Ids
  PROVE  Types' /\ PoolInv'
<1>0. UNCHANGED <<requests, replies, exiting, ret, cur, index, slots, parts, wpc, job, header, sent>>
  BY DEF EnqueueStore, heap, pool
<1>1. queue' = Append(queue, cur) /\ cur \in Ids \cup {Exit}
  BY DEF EnqueueStore
<1>2. /\ queue' \in Seq(Ids \cup {Exit}) /\ Len(queue') = Len(queue) + 1 /\ Len(queue) \in Nat
      /\ \A i \in 1 .. Len(queue) : queue'[i] = queue[i]
      /\ queue'[Len(queue) + 1] = cur
  BY <1>1, QueueAppended
<1>3. Types'
  BY <1>0, <1>2 DEF Types, Ids, Exit
<1>4. cur # Exit /\ mpc \in Enqueueing /\ mpc \notin Leaving /\ mpc' \notin Leaving \cup Enqueueing
      /\ ret # "interrupted"
  BY <1>0 DEF Ids, Exit, EnqueueStore, Enqueueing, Leaving, Fresh
<1>5. \A w \in Workers : Working(w)' = Working(w)
  BY <1>0 DEF Working
<1>6. WorkerInv' /\ ReplyInv'
  BY <1>0 DEF PoolInv, WorkerInv, ReplyInv, Ids
<1>7. ExitInv'
  BY <1>0, <1>2, <1>4 DEF PoolInv, ExitInv, Leaving
<1>8. SentInv'
  <2> SUFFICES ASSUME NEW r \in Ids
               PROVE  \/ \E m \in {"GET", "POST", "DELETE"} : <<r, m>> \in sent'
                      \/ \E i \in 1 .. Len(queue') : queue'[i] = r
                      \/ \E w \in Workers : wpc'[w] = "before" /\ job'[w] = r
    BY <1>0 DEF SentInv, Ids
  <2>1. CASE cur = r
    BY <1>2, <2>1
  <2>2. CASE cur # r
    <3>1. \/ \E m \in {"GET", "POST", "DELETE"} : <<r, m>> \in sent
          \/ \E i \in 1 .. Len(queue) : queue[i] = r
          \/ \E w \in Workers : wpc[w] = "before" /\ job[w] = r
      BY <1>4, <2>2 DEF PoolInv, SentInv
    <3> QED  BY <1>0, <1>2, <3>1
  <2> QED  BY <2>1, <2>2
<1>9. PlaceInv'
  BY <1>0, <1>2, <1>4, <1>5 DEF PoolInv, PlaceInv
<1>10. PendingInv'
  BY <1>0, <1>2, <1>4, <1>5 DEF PoolInv, PendingInv, Unresolved, Early
<1> QED  BY <1>3, <1>6, <1>7, <1>8, <1>9, <1>10 DEF PoolInv

\* Main begins to leave, or goes on leaving.
LEMMA LeavePool ==
  ASSUME Types, PoolInv, UNCHANGED <<heap, queue, cur, pool>>, mpc' \in Leaving, exiting',
         mpc' = "exited" => \A w \in Workers : wpc[w] = "exited",
         ret' = "interrupted" \/ (ret' = ret /\ mpc \notin Enqueueing)
  PROVE  PoolInv'
<1>1. UNCHANGED <<requests, replies, Ids, wpc, job, header, sent>>
  BY DEF heap, pool, Ids
<1>2. \A w \in Workers : Working(w)' = Working(w)
  BY <1>1 DEF Working
<1>3. mpc' \notin Enqueueing
  BY DEF Leaving, Enqueueing
<1>4. WorkerInv' /\ ReplyInv'
  BY <1>1 DEF PoolInv, WorkerInv, ReplyInv
<1>5. ExitInv'
  BY <1>1 DEF PoolInv, ExitInv
<1>6. SentInv'
  BY <1>1, <1>3 DEF PoolInv, SentInv
<1>7. PlaceInv' /\ PendingInv'
  BY <1>1, <1>2, <1>3 DEF PoolInv, PlaceInv, PendingInv, Unresolved, Early
<1> QED  BY <1>4, <1>5, <1>6, <1>7 DEF PoolInv

\* The exits go behind everything.
LEMMA ClearEnqueuePool ==
  ASSUME Types, PoolInv, ClearEnqueue
  PROVE  Types' /\ PoolInv'
<1>0. UNCHANGED <<requests, replies, exiting, mpc, ret, cur, slots, parts, wpc, job, header, sent>>
  BY DEF ClearEnqueue, heap, pool, locks
<1>1. queue' = Append(queue, Exit) /\ Exit \in Ids \cup {Exit} /\ mpc = "clear" /\ index' = index + 1
  BY DEF ClearEnqueue
<1>2. /\ queue' \in Seq(Ids \cup {Exit}) /\ Len(queue') = Len(queue) + 1 /\ Len(queue) \in Nat
      /\ \A i \in 1 .. Len(queue) : queue'[i] = queue[i]
      /\ queue'[Len(queue) + 1] = Exit
  BY <1>1, QueueAppended
<1>3. Types'
  BY <1>0, <1>1, <1>2 DEF Types, Ids, Exit
<1>4. mpc \in Leaving /\ mpc \notin Enqueueing /\ mpc # "exited"
  BY <1>1 DEF Leaving, Enqueueing
<1>5. \A w \in Workers : Working(w)' = Working(w)
  BY <1>0 DEF Working
<1>6. WorkerInv' /\ ReplyInv'
  BY <1>0 DEF PoolInv, WorkerInv, ReplyInv, Ids
<1>7. ExitInv'
  BY <1>0, <1>2, <1>4 DEF PoolInv, ExitInv
<1>8. SentInv'
  <2> SUFFICES ASSUME ret # "interrupted", NEW r \in Ids
               PROVE  \/ \E m \in {"GET", "POST", "DELETE"} : <<r, m>> \in sent
                      \/ \E i \in 1 .. Len(queue') : queue'[i] = r
                      \/ \E w \in Workers : wpc[w] = "before" /\ job[w] = r
    BY <1>0 DEF SentInv, Ids
  <2>1. \/ \E m \in {"GET", "POST", "DELETE"} : <<r, m>> \in sent
        \/ \E i \in 1 .. Len(queue) : queue[i] = r
        \/ \E w \in Workers : wpc[w] = "before" /\ job[w] = r
    BY <1>4 DEF PoolInv, SentInv
  <2> QED  BY <1>2, <2>1
<1>9. PlaceInv'
  BY <1>0, <1>2, <1>4, <1>5, WorkerHasRequest DEF PoolInv, PlaceInv
<1>10. PendingInv'
  BY <1>0, <1>2, <1>4, <1>5 DEF PoolInv, PendingInv, Unresolved, Early
<1> QED  BY <1>3, <1>6, <1>7, <1>8, <1>9, <1>10 DEF PoolInv

-----------------------------------------------------------------------------
(***************************************************************************)
(* The workers.                                                            *)
(***************************************************************************)

\* What a worker does to replies: it resolves some that are there.
Resolves ==
    \A r \in Ids : \/ replies'[r] = replies[r]
                   \/ /\ replies[r] \notin {"null", "freed"}
                      /\ replies'[r] \notin {"null", "freed", "pending"}

\* And to main: it wakes it.
LeavesMain ==
    /\ requests' = requests
    /\ UNCHANGED <<exiting, ret, cur, index, method, want, slots, parts>>
    /\ mpc' = mpc \/ (mpc = "await_asleep" /\ mpc' = "await")

LEMMA DequeuePool ==
  ASSUME Types, PoolInv, NEW w \in Workers, Dequeue(w)
  PROVE  Types' /\ PoolInv' /\ Resolves /\ LeavesMain
<1>0. UNCHANGED <<requests, replies, exiting, mpc, ret, cur, index, method, want, slots, parts, header, sent>>
  BY DEF Dequeue, heap, locks, main
<1>1. queue # <<>> /\ queue' = Tail(queue) /\ wpc[w] = "dequeue"
  BY DEF Dequeue
<1>2. /\ queue' \in Seq(Ids \cup {Exit}) /\ Len(queue') = Len(queue) - 1 /\ Len(queue) \in Nat \ {0}
      /\ \A i \in 1 .. Len(queue') : queue'[i] = queue[i + 1]
      /\ Head(queue) = queue[1] /\ queue[1] \in Ids \cup {Exit}
  BY <1>1, QueueTail
<1>3. Resolves /\ LeavesMain
  BY <1>0 DEF Resolves, LeavesMain
<1>4. CASE queue[1] = Exit
  <2>1. wpc' = [wpc EXCEPT ![w] = "exited"] /\ job' = job
    BY <1>2, <1>4 DEF Dequeue
  <2>2. Types'
    BY <1>0, <1>2, <2>1 DEF Types, Ids, Exit
  <2>3. /\ wpc'[w] = "exited"
        /\ \A v \in Workers : v # w => wpc'[v] = wpc[v]
    BY <2>1 DEF Types
  <2>4. \A v \in Workers : Working(v)' = Working(v)
    BY <1>1, <2>1, <2>3 DEF Working
  <2>5. WorkerInv' /\ ReplyInv'
    BY <1>0, <1>1, <2>1, <2>3 DEF PoolInv, WorkerInv, ReplyInv, Ids, Types
  <2>6. \A i \in 1 .. Len(queue) : queue[i] = Exit
    BY <1>2, <1>4 DEF PoolInv, ExitInv
  <2>7. ExitInv'
    BY <1>0, <1>1, <1>2, <2>3, <2>6 DEF PoolInv, ExitInv
  <2>8. SentInv'
    <3> SUFFICES ASSUME ret # "interrupted", NEW r \in Ids
                 PROVE  \/ \E m \in {"GET", "POST", "DELETE"} : <<r, m>> \in sent
                        \/ \E v \in Workers : wpc'[v] = "before" /\ job[v] = r
                        \/ mpc \in Enqueueing /\ cur = r
      BY <1>0, <2>1 DEF SentInv, Ids
    <3>1. r # Exit
      BY DEF Ids, Exit
    <3> QED  BY <1>1, <2>3, <2>6, <3>1 DEF PoolInv, SentInv
  <2>9. PlaceInv'
    <3>1. \A i, j \in 1 .. Len(queue') : queue'[i] = queue'[j] /\ queue'[i] # Exit => i = j
      BY <1>2 DEF PoolInv, PlaceInv
    <3>2. \A u \in Workers, i \in 1 .. Len(queue') : Working(u) => queue'[i] # job[u]
      BY <1>2 DEF PoolInv, PlaceInv
    <3>3. mpc \in Enqueueing => \A i \in 1 .. Len(queue') : queue'[i] # cur
      BY <1>2 DEF PoolInv, PlaceInv
    <3> QED  BY <1>0, <2>1, <2>4, <3>1, <3>2, <3>3 DEF PoolInv, PlaceInv
  <2>10. PendingInv'
    <3>1. \A r : Unresolved(r)' <=> Unresolved(r)
      BY <1>0 DEF Unresolved
    <3>2. \A i \in 1 .. Len(queue') : queue'[i] # Exit => Unresolved(queue'[i])
      BY <1>2 DEF PoolInv, PendingInv
    <3> QED  BY <1>0, <2>1, <2>4, <3>1, <3>2 DEF PoolInv, PendingInv, Early
  <2> QED  BY <1>3, <2>2, <2>5, <2>7, <2>8, <2>9, <2>10 DEF PoolInv
<1>5. CASE queue[1] # Exit
  <2>1. wpc' = [wpc EXCEPT ![w] = "before"] /\ job' = [job EXCEPT ![w] = queue[1]] /\ queue[1] \in Ids
    BY <1>2, <1>5 DEF Dequeue
  <2>2. Types'
    BY <1>0, <1>2, <2>1 DEF Types, Ids, Exit
  <2>3. /\ wpc'[w] = "before" /\ job'[w] = queue[1]
        /\ \A v \in Workers : v # w => wpc'[v] = wpc[v] /\ job'[v] = job[v]
    BY <2>1 DEF Types
  <2>4. Working(w)' /\ \A v \in Workers : v # w => Working(v)' = Working(v)
    BY <2>3 DEF Working
  <2>5. WorkerInv'
    <3>1. w \notin header
      BY <1>1 DEF PoolInv, WorkerInv
    <3> QED  BY <1>0, <2>1, <2>3, <3>1 DEF PoolInv, WorkerInv, Ids, Types
  <2>6. ReplyInv'
    BY <1>0 DEF PoolInv, ReplyInv, Ids
  <2>7. ExitInv'
    BY <1>0, <1>1, <1>2, <2>3 DEF PoolInv, ExitInv
  <2>8. SentInv'
    <3> SUFFICES ASSUME ret # "interrupted", NEW r \in Ids
                 PROVE  \/ \E m \in {"GET", "POST", "DELETE"} : <<r, m>> \in sent
                        \/ \E i \in 1 .. Len(queue') : queue'[i] = r
                        \/ \E v \in Workers : wpc'[v] = "before" /\ job'[v] = r
                        \/ mpc \in Enqueueing /\ cur = r
      BY <1>0 DEF SentInv, Ids
    <3>1. CASE queue[1] = r
      BY <2>3, <3>1
    <3>2. ASSUME NEW i \in 2 .. Len(queue), queue[i] = r
          PROVE  i - 1 \in 1 .. Len(queue') /\ queue'[i - 1] = r
      BY <1>2, <3>2
    <3>3. \/ \E m \in {"GET", "POST", "DELETE"} : <<r, m>> \in sent
          \/ \E i \in 1 .. Len(queue) : queue[i] = r
          \/ \E v \in Workers : wpc[v] = "before" /\ job[v] = r
          \/ mpc \in Enqueueing /\ cur = r
      BY DEF PoolInv, SentInv
    <3>4. CASE \E i \in 1 .. Len(queue) : queue[i] = r
      <4>1. PICK i \in 1 .. Len(queue) : queue[i] = r
        BY <3>4
      <4>2. i = 1 \/ i \in 2 .. Len(queue)
        BY <1>2
      <4> QED  BY <3>1, <3>2, <4>1, <4>2
    <3>5. CASE \E v \in Workers : wpc[v] = "before" /\ job[v] = r
      BY <1>1, <2>3, <3>5
    <3> QED  BY <3>3, <3>4, <3>5
  <2>9. PlaceInv'
    <3>1. \A v \in Workers : v # w /\ Working(v) => job[v] # queue[1]
      BY <1>2 DEF PoolInv, PlaceInv
    <3>2. \A i \in 1 .. Len(queue') : queue'[i] # queue[1]
      BY <1>2, <1>5 DEF PoolInv, PlaceInv
    <3>3. mpc \in Enqueueing => queue[1] # cur
      BY <1>2 DEF PoolInv, PlaceInv
    <3>4. \A i, j \in 1 .. Len(queue') : queue'[i] = queue'[j] /\ queue'[i] # Exit => i = j
      BY <1>2 DEF PoolInv, PlaceInv
    <3>5. \A u, v \in Workers : Working(u)' /\ Working(v)' /\ job'[u] = job'[v] => u = v
      BY <2>3, <2>4, <3>1 DEF PoolInv, PlaceInv
    <3>6. \A u \in Workers, i \in 1 .. Len(queue') : Working(u)' => queue'[i] # job'[u]
      BY <1>2, <2>3, <2>4, <3>2 DEF PoolInv, PlaceInv
    <3>7. mpc' \in Enqueueing => /\ \A i \in 1 .. Len(queue') : queue'[i] # cur'
                                /\ \A u \in Workers : Working(u)' => job'[u] # cur'
      BY <1>0, <1>2, <2>3, <2>4, <3>3 DEF PoolInv, PlaceInv
    <3> QED  BY <3>4, <3>5, <3>6, <3>7 DEF PlaceInv
  <2>10. PendingInv'
    BY <1>0, <1>2, <1>5, <2>3, <2>4 DEF PoolInv, PendingInv, Unresolved, Early
  <2> QED  BY <1>3, <2>2, <2>5, <2>6, <2>7, <2>8, <2>9, <2>10 DEF PoolInv
<1> QED  BY <1>4, <1>5

LEMMA BeforePerformPool ==
  ASSUME Types, PoolInv, NEW w \in Workers, BeforePerform(w)
  PROVE  Types' /\ PoolInv' /\ Resolves /\ LeavesMain
<1>0. UNCHANGED <<requests, replies, queue, exiting, mpc, ret, cur, index, method, want, slots, parts, job>>
  BY DEF BeforePerform, heap, locks, main
<1>1. /\ wpc[w] = "before" /\ wpc' = [wpc EXCEPT ![w] = "perform"]
      /\ header' = IF requests[job[w]].type = "update" THEN header \cup {w} ELSE header
  BY DEF BeforePerform
<1>2. wpc'[w] = "perform" /\ \A v \in Workers : v # w => wpc'[v] = wpc[v]
  BY <1>1 DEF Types
<1>3. \A v \in Workers : Working(v)' = Working(v)
  BY <1>0, <1>1, <1>2 DEF Working
<1>4. job[w] \in Ids /\ requests[job[w]].method \in {"GET", "POST", "DELETE"}
  <2>1. job[w] \in Ids
    BY <1>1 DEF PoolInv, WorkerInv
  <2>2. requests[job[w]] \in Requests
    BY <2>1 DEF Types, Ids
  <2> QED  BY <2>1, <2>2 DEF Requests
<1>5. Types'
  BY <1>0, <1>1 DEF Types, Ids
<1>6. Resolves /\ LeavesMain
  BY <1>0 DEF Resolves, LeavesMain
<1>7. WorkerInv' /\ ReplyInv'
  <2>1. ReplyInv'
    BY <1>0 DEF PoolInv, ReplyInv, Ids
  <2>2. \A v \in Workers : wpc'[v] \notin {"dequeue", "exited"} => job[v] \in Ids
    BY <1>1, <1>2, <1>4 DEF PoolInv, WorkerInv
  <2>3. \A v \in header' : wpc'[v] \in {"perform", "aborted"} /\ requests[job[v]].type = "update"
    BY <1>1, <1>2 DEF PoolInv, WorkerInv, Types
  <2> QED  BY <1>0, <2>1, <2>2, <2>3 DEF WorkerInv, Ids
<1>8. ExitInv'
  BY <1>0, <1>1, <1>2 DEF PoolInv, ExitInv
<1>9. SentInv'
  <2> SUFFICES ASSUME ret # "interrupted", NEW r \in Ids
               PROVE  \/ \E m \in {"GET", "POST", "DELETE"} : <<r, m>> \in sent'
                      \/ \E i \in 1 .. Len(queue) : queue[i] = r
                      \/ \E v \in Workers : wpc'[v] = "before" /\ job[v] = r
                      \/ mpc \in Enqueueing /\ cur = r
    BY <1>0 DEF SentInv, Ids
  <2>1. \E m \in {"GET", "POST", "DELETE"} : <<job[w], m>> \in sent' /\ sent \subseteq sent'
    BY <1>4 DEF BeforePerform
  <2>2. CASE job[w] = r
    BY <2>1, <2>2
  <2>3. CASE job[w] # r
    <3>1. \/ \E m \in {"GET", "POST", "DELETE"} : <<r, m>> \in sent
          \/ \E i \in 1 .. Len(queue) : queue[i] = r
          \/ \E v \in Workers : wpc[v] = "before" /\ job[v] = r
          \/ mpc \in Enqueueing /\ cur = r
      BY DEF PoolInv, SentInv
    <3> QED  BY <1>2, <2>1, <2>3, <3>1
  <2> QED  BY <2>2, <2>3
<1>10. PlaceInv' /\ PendingInv'
  <2>1. header \subseteq header'
    BY <1>1
  <2> QED  BY <1>0, <1>3, <2>1 DEF PoolInv, PlaceInv, PendingInv, Unresolved, Early
<1> QED  BY <1>5, <1>6, <1>7, <1>8, <1>9, <1>10 DEF PoolInv

\* A worker goes on in its transfer, or ends it, and resolves at most its own reply, which it
\* does only at the end if there are no malformed headers.
Performs(w, pc, a) ==
    /\ pc \in {"perform", "aborted", "broadcast", "dequeue"} /\ a \in States
    /\ wpc[w] \in {"perform", "aborted", "broadcast"}
    /\ wpc' = [wpc EXCEPT ![w] = pc]
    /\ wpc[w] = "broadcast" => pc = "dequeue"
    /\ job' = job \/ (pc = "dequeue" /\ job' = [job EXCEPT ![w] = NULL])
    /\ header' = IF pc \in {"perform", "aborted"} THEN header ELSE header \ {w}
    /\ \/ replies' = replies
       \/ /\ replies' = [replies EXCEPT ![job[w]] = a]
          /\ replies[job[w]] \notin {"null", "freed"} /\ a \notin {"null", "freed", "pending"}
          /\ pc = "broadcast" \/ (pc = "perform" /\ Early(w))
    /\ UNCHANGED <<requests, queue, exiting, ret, cur, index, method, want, slots, parts, sent>>
    /\ mpc' = mpc \/ (mpc = "await_asleep" /\ mpc' = "await")

LEMMA PerformPool ==
  ASSUME Types, PoolInv, NEW w \in Workers, NEW pc, NEW a, Performs(w, pc, a),
         mpc \in Enqueueing => cur \in Ids
  PROVE  Types' /\ PoolInv' /\ Resolves /\ LeavesMain
<1> USE DEF Performs
<1>1. Ids' = Ids /\ job[w] \in Ids
  BY DEF Ids, PoolInv, WorkerInv
<1>2. /\ replies' \in Seq(States) /\ Len(replies') = Len(requests)
      /\ \A r \in Ids : replies'[r] = replies[r] \/ (r = job[w] /\ replies'[r] = a /\ replies' # replies)
  <2>1. replies \in Seq(States) /\ Len(replies) = Len(requests) /\ job[w] \in 1 .. Len(replies)
    BY <1>1 DEF Types, Ids
  <2>2. [replies EXCEPT ![job[w]] = a] \in Seq(States) /\ Len([replies EXCEPT ![job[w]] = a]) = Len(replies)
        /\ \A r \in 1 .. Len(replies) :
             [replies EXCEPT ![job[w]] = a][r] = IF r = job[w] THEN a ELSE replies[r]
    BY <2>1, ExceptSeq
  <2> QED  BY <2>1, <2>2 DEF Ids
<1>3. wpc'[w] = pc /\ \A v \in Workers : v # w => wpc'[v] = wpc[v] /\ job'[v] = job[v]
  BY DEF Types
<1>4. Types'
  BY <1>1, <1>2 DEF Types, Ids
<1>5. Resolves /\ LeavesMain
  BY <1>2 DEF Resolves, LeavesMain
<1>6. /\ \A v \in Workers : Working(v)' => Working(v) /\ job'[v] = job[v]
      /\ wpc[w] # "before" /\ wpc[w] # "exited" /\ pc \notin {"before", "exited"}
  BY <1>3 DEF Working
<1>7. /\ mpc' \in Enqueueing <=> mpc \in Enqueueing
      /\ mpc' \in Leaving <=> mpc \in Leaving
      /\ mpc' = "exited" <=> mpc = "exited"
  BY DEF Enqueueing, Leaving
<1>8. WorkerInv'
  <2>1. \A v \in Workers : wpc'[v] \notin {"dequeue", "exited"} => job'[v] \in Ids
    BY <1>1, <1>3 DEF PoolInv, WorkerInv
  <2>2. \A v \in header' : wpc'[v] \in {"perform", "aborted"} /\ requests[job'[v]].type = "update"
    BY <1>3 DEF PoolInv, WorkerInv, Types
  <2> QED  BY <1>1, <2>1, <2>2 DEF WorkerInv
<1>9. ReplyInv'
  BY <1>1, <1>2 DEF PoolInv, ReplyInv
<1>10. ExitInv'
  BY <1>3, <1>6, <1>7 DEF PoolInv, ExitInv
<1>11. SentInv'
  <2> SUFFICES ASSUME ret # "interrupted", NEW r \in Ids
               PROVE  \/ \E m \in {"GET", "POST", "DELETE"} : <<r, m>> \in sent
                      \/ \E i \in 1 .. Len(queue) : queue[i] = r
                      \/ \E v \in Workers : wpc'[v] = "before" /\ job'[v] = r
                      \/ mpc' \in Enqueueing /\ cur = r
    BY <1>1 DEF SentInv
  <2>1. \A v \in Workers : wpc[v] = "before" => wpc'[v] = wpc[v] /\ job'[v] = job[v]
    BY <1>3, <1>6
  <2> QED  BY <1>7, <2>1 DEF PoolInv, SentInv
<1>12. PlaceInv'
  BY <1>6, <1>7 DEF PoolInv, PlaceInv
<1>13. PendingInv'
  <2>1. replies' # replies => Working(w) /\ (~ Working(w)' \/ Early(w)')
    BY <1>3 DEF Working, Early
  <2>2. \A v \in Workers : v # w => (Early(v)' <=> Early(v))
    BY DEF Early
  <2>3. \A i \in 1 .. Len(queue) : queue[i] # Exit => queue[i] \in Ids /\ (Working(w) => queue[i] # job[w])
    BY DEF Types, PoolInv, PlaceInv
  <2>4. \A i \in 1 .. Len(queue) : queue[i] # Exit => replies'[queue[i]] \in {"pending", "null"}
    BY <1>2, <2>1, <2>3 DEF PoolInv, PendingInv, Unresolved
  <2>5. ASSUME NEW v \in Workers, Working(v)'
        PROVE  replies'[job[v]] \in {"pending", "null"} \/ Early(v)'
    <3>1. Working(v) /\ job[v] \in Ids /\ (Unresolved(job[v]) \/ Early(v))
      BY <1>6, <2>5, WorkerHasRequest DEF PoolInv, PendingInv
    <3>2. Early(v) => Early(v)'
      <4>1. CASE v = w
        <5>1. pc \in {"perform", "aborted"}
          BY <1>3, <1>6, <2>5, <4>1 DEF Working
        <5> QED  BY <5>1 DEF Early
      <4> QED  BY <2>2, <4>1
    <3>3. replies'[job[v]] = replies[job[v]] \/ Early(v)'
      <4>1. CASE v = w
        BY <2>1, <2>5, <4>1
      <4>2. CASE v # w
        <5>1. replies' # replies => job[v] # job[w]
          BY <2>1, <3>1, <4>2 DEF PoolInv, PlaceInv
        <5> QED  BY <1>2, <3>1, <5>1
      <4> QED  BY <4>1, <4>2
    <3> QED  BY <3>1, <3>2, <3>3 DEF Unresolved
  <2>6. mpc \in Enqueueing => replies'[cur] \in {"pending", "null"}
    <3>1. mpc \in Enqueueing => cur \in Ids /\ Unresolved(cur) /\ (Working(w) => job[w] # cur)
      BY DEF PoolInv, PendingInv, PlaceInv
    <3>2. mpc \in Enqueueing => replies'[cur] = replies[cur]
      BY <1>2, <2>1, <3>1
    <3> QED  BY <3>1, <3>2 DEF Unresolved
  <2> QED  BY <1>6, <1>7, <2>4, <2>5, <2>6 DEF PendingInv, Unresolved, Early
<1> QED  BY <1>4, <1>5, <1>8, <1>9, <1>10, <1>11, <1>12, <1>13 DEF PoolInv

\* Every step of a worker is one of these.
LEMMA WorkerPool ==
  ASSUME Types, PoolInv, NEW w \in Workers, mpc \in Enqueueing => cur \in Ids,
         WorkerStep(w) \/ Deliver(w) \/ DeliverLocation(w)
  PROVE  Types' /\ PoolInv' /\ Resolves /\ LeavesMain
<1>1. CASE Dequeue(w)
  BY <1>1, DequeuePool
<1>2. CASE BeforePerform(w)
  BY <1>2, BeforePerformPool
<1>3. ASSUME wpc[w] \in {"perform", "aborted"}
      PROVE  /\ job[w] \in Ids /\ (w \in header => requests[job[w]].type = "update")
             /\ (requests[job[w]].type = "update" => replies[job[w]] # "null")
             /\ replies \in [Ids -> States]
  <2>1. job[w] \in Ids
    BY <1>3 DEF PoolInv, WorkerInv
  <2>2. replies \in [1 .. Len(replies) -> States]
    BY LenProperties DEF Types
  <2> QED  BY <2>1, <2>2 DEF PoolInv, WorkerInv, ReplyInv, Types, Ids
<1>4. CASE Broadcast(w)
  <2>1. /\ wpc[w] = "broadcast" /\ wpc' = [wpc EXCEPT ![w] = "dequeue"] /\ job' = [job EXCEPT ![w] = NULL]
        /\ UNCHANGED <<requests, queue, exiting, ret, cur, index, method, want, slots, parts, sent>>
        /\ header' = header /\ replies' = replies
        /\ (mpc' = mpc \/ (mpc = "await_asleep" /\ mpc' = "await"))
    BY <1>4 DEF Broadcast, heap, locks
  <2>2. w \notin header /\ "failed" \in States
    BY <2>1 DEF PoolInv, WorkerInv, States, Errors
  <2>3. Performs(w, "dequeue", "failed")
    BY <2>1, <2>2 DEF Performs
  <2> QED  BY <2>3, PerformPool
<1>5. CASE Deliver(w)
  <2>1. /\ wpc[w] = "perform" /\ job' = job
        /\ UNCHANGED <<requests, queue, exiting, ret, cur, index, method, want, slots, parts, sent>>
        /\ header' = header /\ replies' = replies /\ mpc' = mpc
    BY <1>5 DEF Deliver, locks, main
  <2>2. wpc' = [wpc EXCEPT ![w] = "perform"] \/ wpc' = [wpc EXCEPT ![w] = "aborted"]
    BY <1>5, <2>1 DEF Deliver, Types
  <2>3. "failed" \in States
    BY DEF States, Errors
  <2>4. Performs(w, "perform", "failed") \/ Performs(w, "aborted", "failed")
    BY <2>1, <2>2, <2>3 DEF Performs
  <2> QED  BY <2>4, PerformPool
<1>6. CASE DeliverLocation(w)
  <2>1. /\ wpc[w] = "perform" /\ job' = job /\ w \in header
        /\ UNCHANGED <<requests, queue, exiting, ret, cur, index, method, want, slots, parts, sent>>
        /\ header' = header /\ mpc' = mpc /\ wpc' = wpc
    BY <1>6 DEF DeliverLocation, locks, main, pool
  <2>2. wpc' = [wpc EXCEPT ![w] = "perform"]
    BY <2>1 DEF Types
  <2>3. "bad_location" \in States
    BY DEF States, Errors
  <2>4. replies' = replies \/ (/\ MalformedLocation
                               /\ replies[job[w]] # "freed" /\ replies' = [replies EXCEPT ![job[w]] = "bad_location"])
    BY <1>3, <1>6, <2>1 DEF DeliverLocation
  <2>5. replies[job[w]] # "null"
    BY <1>3, <2>1
  <2>6. Performs(w, "perform", "bad_location")
    BY <2>1, <2>2, <2>3, <2>4, <2>5 DEF Performs, Errors, Early
  <2> QED  BY <2>6, PerformPool
<1>7. ASSUME NEW result \in {0, 200, 302, 404}, AfterPerform(w, result)
      PROVE  Types' /\ PoolInv' /\ Resolves /\ LeavesMain
  <2> DEFINE a == Outcome(job[w], result)
  <2>1. /\ wpc[w] \in {"perform", "aborted"} /\ job' = job
        /\ UNCHANGED <<requests, queue, exiting, ret, cur, index, method, want, slots, parts, sent>>
        /\ mpc' = mpc /\ wpc' = [wpc EXCEPT ![w] = "broadcast"]
    BY <1>7 DEF AfterPerform, locks, main
  <2>2. a \in States /\ a \notin {"null", "freed", "pending"}
    BY DEF Outcome, States, Errors
  <2>3. replies' = replies \/ (replies[job[w]] = "pending" /\ replies' = [replies EXCEPT ![job[w]] = a])
    BY <1>7 DEF AfterPerform
  <2>4. header' = header \ {w}
    BY <1>3, <1>7, <2>1 DEF AfterPerform
  <2> HIDE DEF a
  <2>5. Performs(w, "broadcast", a)
    BY <2>1, <2>2, <2>3, <2>4 DEF Performs
  <2> QED  BY <2>5, PerformPool
<1> QED  BY <1>1, <1>2, <1>4, <1>5, <1>6, <1>7 DEF WorkerStep

\* Resolving a reply and waking main disturb nothing main relies on.
LEMMA WorkerMain ==
  ASSUME Types, MainInv, Resolves, LeavesMain
  PROVE  MainInv'
<1> SUFFICES ASSUME mpc' \notin Leaving
             PROVE  PointInv' /\ ApartInv' /\ FreedInv' /\ OwnedInv'
  BY DEF MainInv
<1>0. UNCHANGED <<requests, ret, cur, index, method, want, slots, parts, Ids>>
  BY DEF LeavesMain, Ids
<1>1. /\ mpc \notin Leaving /\ At' = At /\ (mpc' \in Enqueueing <=> mpc \in Enqueueing)
      /\ (mpc' \in Awaiting <=> mpc \in Awaiting) /\ (mpc' \in Awaited => mpc' = mpc)
  BY DEF LeavesMain, Leaving, Awaiting, Awaited, At, Enqueueing
<1>2. \A r \in Ids : /\ replies'[r] = "freed" <=> replies[r] = "freed"
                     /\ replies'[r] = "null" <=> replies[r] = "null"
                     /\ replies'[r] = "pending" => replies[r] = "pending"
  BY DEF Resolves
<1>3. PointInv
  BY <1>1 DEF MainInv
<1>4. /\ cur \in Ids \cup {NULL}
      /\ \A i \in 1 .. FlagSlots : slots[i] \in Ids \cup {NULL}
      /\ \A i \in 1 .. Len(parts) : parts[i] \in Ids
  <2>1. cur \in Ids \cup {NULL} /\ slots \in [1 .. FlagSlots -> Ids \cup {NULL}] /\ parts \in Seq(Ids)
    BY DEF Types
  <2> QED  BY <2>1, ElementOfSeq
<1>5. PointInv'
  <2>1. mpc \in Awaited => cur \in Ids
    BY <1>3 DEF PointInv, At, Awaited, Enqueueing, Awaiting, Fresh
  <2>2. mpc' \in Awaited => replies'[cur] # "pending"
    BY <1>1, <1>2, <1>3, <2>1 DEF PointInv
  <2> QED  BY <1>0, <1>1, <1>3, <2>2 DEF PointInv
<1>6. ApartInv'
  BY <1>0, <1>1 DEF MainInv, ApartInv
<1>7. FreedInv'
  <2>1. At \in Fresh \cup {"update_done", "video_done"} => cur \in Ids
    BY <1>3 DEF PointInv, Awaited
  <2>2. FreedInv
    BY <1>1 DEF MainInv
  <2> QED  BY <1>0, <1>1, <1>2, <1>4, <2>1, <2>2 DEF FreedInv
<1>8. OwnedInv'
  BY <1>0, <1>1, <1>2 DEF MainInv, OwnedInv
<1> QED  BY <1>5, <1>6, <1>7, <1>8

-----------------------------------------------------------------------------
(***************************************************************************)
(* What the steps of main have in common.                                  *)
(***************************************************************************)

Points == Fresh \cup Awaited \cup Bare

LEMMA PointNames ==
  /\ Points \cap (Enqueueing \cup Awaiting \cup Leaving) = {}
  /\ Enqueueing \cap (Awaiting \cup Leaving) = {} /\ Awaiting \cap Leaving = {}
  /\ "interrupted" \notin Points
BY DEF Points, Fresh, Awaited, Bare, Enqueueing, Awaiting, Leaving

LEMMA PoolParts == IInv <=> Types /\ PoolInv /\ MainInv
BY DEF IInv, PoolInv

\* What holds while main is not leaving.
LEMMA Staying ==
  ASSUME IInv, mpc \notin Leaving
  PROVE  /\ Types /\ PoolInv /\ ReplyInv /\ PointInv /\ ApartInv /\ FreedInv /\ OwnedInv
         /\ ret # "interrupted"
         /\ mpc \in Enqueueing => cur \in Ids /\ ret \in Fresh
         /\ mpc \in Points => At = mpc
<1>1. Types /\ PoolInv /\ ReplyInv /\ PointInv /\ ApartInv /\ FreedInv /\ OwnedInv
  BY DEF IInv, MainInv, PoolInv
<1>2. ret # "interrupted"
  BY DEF IInv, ExitInv
<1>3. mpc \in Enqueueing => cur \in Ids /\ ret \in Fresh
  BY <1>1 DEF PointInv, At
<1>4. mpc \in Points => At = mpc
  BY PointNames DEF At
<1> QED  BY <1>1, <1>2, <1>3, <1>4

\* A step of main from one point of its code to another, perhaps by way of an await.
LEMMA Quiet ==
  ASSUME IInv, mpc \in Points, mpc' \in Points \cup Awaiting,
         UNCHANGED <<requests, queue, pool, exiting>>, ret' = ret \/ ret' \in Awaited,
         \A r \in Ids : \/ replies'[r] = replies[r]
                        \/ replies[r] \notin {"pending", "null"} /\ replies'[r] = "freed",
         Types', PointInv', ApartInv', FreedInv', OwnedInv'
  PROVE  IInv'
<1>1. mpc \notin Leaving /\ mpc' \notin Leaving /\ mpc \notin Enqueueing /\ mpc' \notin Enqueueing
  BY PointNames
<1>2. Types /\ PoolInv /\ ret # "interrupted" /\ ret' # "interrupted"
  BY <1>1, Staying, PointNames DEF Points
<1>3. PoolInv'
  BY <1>1, <1>2, MainQuiet
<1> QED  BY <1>3 DEF IInv, PoolInv, MainInv

\* Main goes to or from the enqueue or the await it is in.
LEMMA SamePoint ==
  ASSUME IInv, mpc \notin Leaving, mpc' \notin Leaving,
         UNCHANGED <<requests, replies, ret, cur, index, method, want, slots, parts>>,
         At' = At, mpc' \in Enqueueing => mpc \in Enqueueing, mpc' \in Awaiting => mpc \in Awaiting,
         mpc' \in Awaited => replies[cur] # "pending"
  PROVE  MainInv'
<1>1. PointInv /\ ApartInv /\ FreedInv /\ OwnedInv /\ Ids' = Ids
  BY Staying DEF Ids
<1>2. PointInv'
  BY <1>1 DEF PointInv
<1>3. ApartInv'
  BY <1>1 DEF ApartInv
<1>4. FreedInv'
  BY <1>1 DEF FreedInv
<1>5. OwnedInv'
  BY <1>1 DEF OwnedInv
<1> QED  BY <1>2, <1>3, <1>4, <1>5 DEF MainInv

LEMMA SamePointInv ==
  ASSUME IInv, EnqueueLock \/ EnqueueStore \/ AwaitTest \/ AwaitWait \/ SpuriousWakeup
  PROVE  IInv'
<1>0. /\ mpc \in Enqueueing \cup Awaiting
      /\ UNCHANGED <<requests, replies, ret, cur, index, method, want, slots, parts, exiting>>
  BY DEF EnqueueLock, EnqueueStore, AwaitTest, AwaitWait, SpuriousWakeup, Enqueueing, Awaiting, heap, locks
<1>1. /\ mpc \notin Leaving /\ Types /\ PoolInv /\ PointInv /\ ret # "interrupted"
      /\ mpc \in Enqueueing => cur \in Ids /\ ret \in Fresh
      /\ mpc \in Awaiting => ret \in Awaited
  <2>1. mpc \notin Leaving
    BY <1>0, PointNames
  <2> QED  BY <2>1, Staying DEF PointInv
<1>2. CASE EnqueueStore
  <2>1. mpc \in Enqueueing /\ mpc' = ret
    BY <1>2 DEF EnqueueStore, Enqueueing
  <2>2. Types' /\ PoolInv'
    BY <1>1, <1>2, <2>1, EnqueueStorePool
  <2>3. mpc' \in Fresh /\ At' = At
    BY <1>0, <1>1, <2>1, PointNames DEF At, Points
  <2>4. mpc' \notin Awaited
    BY <2>3 DEF Fresh, Awaited
  <2>5. MainInv'
    BY <1>0, <1>1, <2>3, <2>4, SamePoint, PointNames DEF Points
  <2> QED  BY <2>2, <2>5, PoolParts DEF IInv, PoolInv
<1>3. CASE ~ EnqueueStore
  <2>1. /\ UNCHANGED <<queue, pool>>
        /\ \/ mpc \in Enqueueing /\ mpc' \in Enqueueing
           \/ mpc \in Awaiting /\ mpc' \in Awaiting
           \/ mpc \in Awaiting /\ mpc' = ret /\ replies[cur] # "pending"
    BY <1>3 DEF EnqueueLock, AwaitTest, AwaitWait, SpuriousWakeup, Enqueueing, Awaiting, pool, locks
  <2>2. mpc \in Awaiting => ret \in Awaited /\ ret \in Points /\ ret \notin Enqueueing \cup Awaiting \cup Leaving
    BY <1>1, PointNames DEF Points
  <2>3. /\ mpc' \notin Leaving /\ At' = At
        /\ mpc' \in Enqueueing <=> mpc \in Enqueueing
        /\ mpc' \in Awaiting => mpc \in Awaiting
        /\ mpc' \in Awaited => replies[cur] # "pending"
    BY <1>0, <2>1, <2>2, PointNames DEF At, Points
  <2>4. MainInv'
    BY <1>0, <1>1, <2>3, SamePoint
  <2>5. Types'
    BY <1>0, <1>1, <2>1 DEF Types, pool, Ids, Exit
  <2>6. PoolInv'
    BY <1>0, <1>1, <2>1, <2>3, <2>5, MainQuiet
  <2> QED  BY <2>4, <2>5, <2>6 DEF IInv, PoolInv
<1> QED  BY <1>2, <1>3

\* A request more.
LEMMA IssueInv ==
  ASSUME IInv, NEW type \in {"in_memory", "detach", "update"}, NEW how \in {"GET", "POST", "DELETE"},
         NEW label \in Fresh, Issue(type, how, label), mpc \in Bare,
         UNCHANGED <<queue, pool, exiting, want, slots, parts>>, index' \in Nat,
         label = "detached" <=> type = "detach",
         label = "flag_store" => index' \in 1 .. FlagSlots /\ slots[index'] = NULL,
         mpc \in InParts <=> label = "part_store",
         mpc \in InParts => mpc = "parts_request" /\ Len(parts) < want
  PROVE  IInv'
<1> DEFINE new == Len(requests) + 1
<1>1. mpc \in Points /\ mpc \notin Leaving /\ mpc \notin Enqueueing
  BY PointNames DEF Points
<1>2. /\ Types /\ PoolInv /\ ReplyInv /\ PointInv /\ ApartInv /\ FreedInv /\ OwnedInv
      /\ At = mpc /\ At \in Bare
  BY <1>1, Staying
<1>3. UNCHANGED <<wpc, job, header>>
  BY DEF pool
<1>4. Types'
  BY <1>2, <1>3, IssueTypes
<1>5. PoolInv'
  BY <1>1, <1>2, <1>4, IssuePool
<1>6. /\ new \notin Ids /\ new \in Nat /\ Ids' = Ids \cup {new}
      /\ \A r \in Ids : requests'[r] = requests[r] /\ replies'[r] = replies[r]
      /\ requests'[new].type = type
      /\ replies'[new] = IF type = "detach" THEN "null" ELSE "pending"
      /\ cur' = new /\ mpc' = "enqueue" /\ ret' = label
  BY <1>2, IssueEffects
<1> HIDE DEF new
<1>7. At' = label /\ At' \in Fresh /\ At' \notin Bare \cup Awaited /\ mpc' \in Enqueueing /\ mpc' \notin Awaited \cup Awaiting
  BY <1>6 DEF At, Enqueueing, Awaiting, Fresh, Bare, Awaited
<1>8. /\ \A i \in 1 .. FlagSlots : slots[i] \in Ids \cup {NULL}
      /\ \A i \in 1 .. Len(parts) : parts[i] \in Ids
      /\ new # NULL
  BY <1>2, <1>6, LenProperties, NullAssumption DEF Types
<1>9. PointInv'
  <2>1. /\ \A i \in 1 .. FlagSlots : slots[i] # NULL => requests'[slots[i]].type # "detach"
        /\ \A i \in 1 .. Len(parts) : requests'[parts[i]].type # "detach"
    BY <1>2, <1>6, <1>8 DEF PointInv
  <2>2. /\ At' = "detached" <=> requests'[cur'].type = "detach"
        /\ cur' \in Ids'
    BY <1>6, <1>7
  <2>3. /\ At' \in {"parts_request", "part_store"} => want \in 0 .. MaxParts
        /\ At' = "part_store" => Len(parts) < want
        /\ At' \in InParts <=> At' = "part_store"
        /\ At \notin InParts => parts = <<>>
    BY <1>2, <1>7 DEF PointInv, Fresh, InParts
  <2>4. /\ At' \notin {"flag_find", "await_all", "slot_done", "part_done", "part_cleaned", "parts_await",
                       "parts_cleanup", "parts_request"}
    BY <1>7 DEF Fresh
  <2> QED  BY <1>2, <1>6, <1>7, <2>1, <2>2, <2>3, <2>4 DEF PointInv
<1>10. ApartInv'
  BY <1>2, <1>6, <1>8 DEF ApartInv
<1>11. FreedInv'
  <2>1. At' \notin {"parts_cleanup", "part_cleaned", "parts_await", "part_done"}
    BY <1>7 DEF Fresh
  <2>2. \A i \in 1 .. Len(parts) : replies[parts[i]] # "freed"
    <3>1. CASE At = "parts_request"
      BY <1>2, <3>1 DEF FreedInv
    <3>2. CASE At # "parts_request"
      <4>1. parts = <<>>
        BY <1>2, <3>2 DEF PointInv
      <4> QED  BY <4>1, EmptySeq
    <3> QED  BY <3>1, <3>2
  <2> QED  BY <1>2, <1>6, <1>8, <2>1, <2>2 DEF FreedInv
<1>12. OwnedInv'
  <2>1. cur = NULL
    BY <1>2 DEF PointInv
  <2> QED  BY <1>2, <1>6, <2>1, NullAssumption DEF OwnedInv, Ids
<1> QED  BY <1>4, <1>5, <1>9, <1>10, <1>11, <1>12 DEF IInv, PoolInv, MainInv

-----------------------------------------------------------------------------
(***************************************************************************)
(* Main, action by action.                                                 *)
(***************************************************************************)

LEMMA IssuingInv ==
  ASSUME IInv, \/ RequestUpdate \/ RequestVideo \/ PartsRequest \/ FlagFindFree
               \/ \E m \in Methods : Detach(m)
  PROVE  IInv'
<1>1. mpc \in Bare /\ index \in Nat
  BY DEF RequestUpdate, RequestVideo, PartsRequest, FlagFindFree, Detach, Bare, IInv, Types
<1>2. /\ Types /\ PointInv /\ At = mpc
  BY <1>1, Staying, PointNames DEF Points
<1>3. CASE RequestUpdate
  <2>1. Issue("update", "GET", "startup") /\ mpc = "start"
        /\ UNCHANGED <<queue, pool, exiting, index, want, slots, parts>>
    BY <1>3 DEF RequestUpdate, locks
  <2>2. "startup" \in Fresh /\ mpc \notin InParts
    BY <2>1 DEF Fresh, InParts
  <2> QED  BY <1>1, <2>1, <2>2, IssueInv
<1>4. CASE RequestVideo
  <2>1. Issue("in_memory", "GET", "video_requested") /\ mpc = "idle"
        /\ UNCHANGED <<queue, pool, exiting, index, want, slots, parts>>
    BY <1>4 DEF RequestVideo, locks
  <2>2. "video_requested" \in Fresh /\ mpc \notin InParts
    BY <2>1 DEF Fresh, InParts
  <2> QED  BY <1>1, <2>1, <2>2, IssueInv
<1>5. CASE PartsRequest
  <2>1. Issue("in_memory", "GET", "part_store") /\ mpc = "parts_request" /\ Len(parts) < want
        /\ UNCHANGED <<queue, pool, exiting, index, want, slots, parts>>
    BY <1>5 DEF PartsRequest, locks
  <2>2. "part_store" \in Fresh /\ mpc \in InParts
    BY <2>1 DEF Fresh, InParts
  <2> QED  BY <1>1, <2>1, <2>2, IssueInv
<1>6. CASE FlagFindFree
  <2>1. Issue("in_memory", method, "flag_store") /\ mpc = "flag_find"
        /\ UNCHANGED <<queue, pool, exiting, want, slots, parts>>
    BY <1>6 DEF FlagFindFree, locks
  <2>2. index' \in 1 .. FlagSlots /\ slots[index'] = NULL /\ index' \in Nat
    BY <1>2, <1>6, BoundAssumption DEF FlagFindFree, Types
  <2>3. method \in {"GET", "POST", "DELETE"}
    BY <1>2, <2>1, MethodAssumption DEF PointInv
  <2>4. "flag_store" \in Fresh /\ mpc \notin InParts
    BY <2>1 DEF Fresh, InParts
  <2> QED  BY <1>1, <2>1, <2>2, <2>3, <2>4, IssueInv
<1>7. ASSUME NEW m \in Methods, Detach(m)
      PROVE  IInv'
  <2>1. Issue("detach", m, "detached") /\ mpc = "idle" /\ m \in {"GET", "POST", "DELETE"}
        /\ UNCHANGED <<queue, pool, exiting, index, want, slots, parts>>
    BY <1>7, MethodAssumption DEF Detach, locks
  <2>2. "detached" \in Fresh /\ mpc \notin InParts
    BY <2>1 DEF Fresh, InParts
  <2> QED  BY <1>1, <2>1, <2>2, IssueInv
<1> QED  BY <1>3, <1>4, <1>5, <1>6, <1>7

\* Leaving: nothing is claimed of main's variables any more.
LEMMA LeavingInv ==
  ASSUME IInv, Quit \/ Interrupt \/ ClearLock \/ ClearEnqueue \/ ClearJoin
  PROVE  IInv'
<1>1. Types /\ PoolInv
  BY DEF IInv, PoolInv
<1>2. CASE ClearEnqueue
  <2>1. Types' /\ PoolInv'
    BY <1>1, <1>2, ClearEnqueuePool
  <2>2. mpc' \in Leaving
    BY <1>2 DEF ClearEnqueue, Leaving
  <2> QED  BY <2>1, <2>2 DEF IInv, PoolInv, MainInv
<1>3. CASE ~ ClearEnqueue
  <2>1. UNCHANGED <<heap, queue, cur, pool, slots, parts>> /\ index' \in {index, 0}
    BY <1>3 DEF Quit, Interrupt, ClearLock, ClearJoin, locks
  <2>2. mpc' \in Leaving /\ exiting'
    BY <1>1, <1>3 DEF Quit, Interrupt, ClearLock, ClearJoin, locks, Leaving, PoolInv, ExitInv
  <2>3. mpc' = "exited" => \A w \in Workers : wpc[w] = "exited"
    BY <1>3 DEF Quit, Interrupt, ClearLock, ClearJoin
  <2>4. ret' = "interrupted" \/ (ret' = ret /\ mpc \notin Enqueueing)
    BY <1>3 DEF Quit, Interrupt, ClearLock, ClearJoin, Enqueueing
  <2>5. Types'
    BY <1>1, <2>1 DEF Types, heap, pool, Ids, Exit
  <2>6. PoolInv'
    BY <1>1, <2>1, <2>2, <2>3, <2>4, LeavePool
  <2> QED  BY <2>2, <2>5, <2>6 DEF IInv, PoolInv, MainInv
<1> QED  BY <1>2, <1>3

LEMMA StartIdleInv ==
  ASSUME IInv, SkipUpdate \/ (\E m \in Methods : SetFlag(m)) \/ AwaitAll \/ AwaitAllDone
  PROVE  IInv'
<1>0. UNCHANGED <<requests, replies, queue, pool, exiting, ret, cur, want, slots, parts>>
  BY DEF SkipUpdate, SetFlag, AwaitAll, AwaitAllDone, heap, locks
<1>1. /\ mpc \in {"start", "idle", "await_all"} /\ mpc' \in {"idle", "flag_find", "await_all"}
      /\ index' \in {index, 0, 1} /\ (mpc' = "await_all" => index' = 1)
      /\ (mpc' = "flag_find" => method' \in Methods)
  BY DEF SkipUpdate, SetFlag, AwaitAll, AwaitAllDone
<1>2. mpc \in Bare /\ mpc' \in Bare /\ mpc \in Points /\ mpc' \in Points /\ mpc \notin Leaving
  BY <1>1, PointNames DEF Bare, Points
<1>3. Types /\ PointInv /\ ApartInv /\ FreedInv /\ OwnedInv /\ At = mpc /\ At' = mpc'
  <2>1. At' = mpc'
    BY <1>2, PointNames DEF At
  <2> QED  BY <1>2, <2>1, Staying
<1>4. Types'
  BY <1>0, <1>1, <1>3 DEF Types, pool, Ids, Exit
<1>5. cur = NULL /\ parts = <<>> /\ Len(parts) = 0
  BY <1>1, <1>2, <1>3, EmptySeq DEF PointInv, InParts
<1>6. PointInv'
  <2>1. /\ mpc' \notin Fresh \cup Awaited \cup Enqueueing \cup Awaiting \cup InParts
        /\ mpc' \notin {"flag_store", "slot_done", "part_done", "part_cleaned", "parts_await", "parts_cleanup",
                        "parts_request", "part_store"}
    BY <1>1 DEF Fresh, Awaited, Enqueueing, Awaiting, InParts
  <2> QED  BY <1>0, <1>1, <1>2, <1>3, <1>5, <2>1, BoundAssumption DEF PointInv
<1>7. ApartInv' /\ FreedInv' /\ OwnedInv'
  <2>1. At' \notin Fresh \cup {"update_done", "video_done"}
    BY <1>1, <1>3 DEF Fresh
  <2> QED  BY <1>0, <1>3, <1>5, <2>1 DEF ApartInv, FreedInv, OwnedInv, Ids
<1> QED  BY <1>0, <1>2, <1>4, <1>6, <1>7, Quiet

LEMMA FlagStoreInv ==
  ASSUME IInv, FlagStore
  PROVE  IInv'
<1>0. /\ UNCHANGED <<requests, replies, queue, pool, exiting, ret, want, parts>>
      /\ mpc = "flag_store" /\ mpc' = "idle" /\ slots' = [slots EXCEPT ![index] = cur]
      /\ cur' = NULL /\ index' = 0
  BY DEF FlagStore, heap, locks
<1>1. mpc \in Points /\ mpc' \in Points /\ mpc \notin Leaving /\ At' = "idle"
  BY <1>0, PointNames DEF Points, Fresh, Bare, At
<1>2. Types /\ ReplyInv /\ PointInv /\ ApartInv /\ FreedInv /\ OwnedInv /\ At = "flag_store" /\ Ids' = Ids
  BY <1>0, <1>1, Staying DEF Ids
<1>3. /\ index \in 1 .. FlagSlots /\ slots[index] = NULL /\ cur \in Ids /\ cur # NULL
      /\ requests[cur].type # "detach" /\ parts = <<>> /\ Len(parts) = 0
  BY <1>2, EmptySeq, NullAssumption DEF PointInv, Fresh, InParts, Ids
<1>4. /\ slots'[index] = cur
      /\ \A i \in 1 .. FlagSlots : i # index => slots'[i] = slots[i]
  BY <1>0, <1>2, <1>3 DEF Types
<1>5. Types'
  BY <1>0, <1>2, <1>3 DEF Types, pool, Exit
<1>6. PointInv'
  <2>1. "idle" \in Bare /\ "idle" \notin Fresh \cup Awaited \cup InParts \cup Enqueueing \cup Awaiting
    BY DEF Bare, Fresh, Awaited, InParts, Enqueueing, Awaiting
  <2> QED  BY <1>0, <1>1, <1>2, <1>3, <1>4, <2>1, BoundAssumption DEF PointInv
<1>7. ApartInv'
  <2>1. \A i \in 1 .. FlagSlots : slots[i] # cur
    BY <1>2 DEF ApartInv, Fresh
  <2> QED  BY <1>0, <1>1, <1>2, <1>3, <1>4, <2>1 DEF ApartInv, Fresh
<1>8. FreedInv'
  <2>1. replies[cur] # "freed"
    BY <1>2 DEF FreedInv, Fresh
  <2> QED  BY <1>0, <1>1, <1>2, <1>3, <1>4, <2>1 DEF FreedInv, Fresh
<1>9. OwnedInv'
  BY <1>0, <1>2, <1>3, <1>4 DEF OwnedInv
<1> QED  BY <1>0, <1>1, <1>5, <1>6, <1>7, <1>8, <1>9, Quiet

LEMMA PartStoreInv ==
  ASSUME IInv, PartStore
  PROVE  IInv'
<1>0. /\ UNCHANGED <<requests, replies, queue, pool, exiting, ret, index, want, slots>>
      /\ mpc = "part_store" /\ mpc' = "parts_request" /\ parts' = Append(parts, cur)
      /\ cur' = NULL
  BY DEF PartStore, heap, locks
<1>1. mpc \in Points /\ mpc' \in Points /\ mpc \notin Leaving /\ At' = "parts_request"
  BY <1>0, PointNames DEF Points, Fresh, Bare, At
<1>2. Types /\ ReplyInv /\ PointInv /\ ApartInv /\ FreedInv /\ OwnedInv /\ At = "part_store" /\ Ids' = Ids
  BY <1>0, <1>1, Staying DEF Ids
<1>3. cur \in Ids /\ cur # NULL /\ requests[cur].type # "detach" /\ want \in 0 .. MaxParts /\ Len(parts) < want
  BY <1>2, NullAssumption DEF PointInv, Fresh, Ids
<1>4. /\ parts' \in Seq(Ids) /\ Len(parts') = Len(parts) + 1 /\ Len(parts) \in Nat
      /\ \A i \in 1 .. Len(parts) : parts'[i] = parts[i] /\ parts[i] \in Ids
      /\ parts'[Len(parts) + 1] = cur
  BY <1>0, <1>2, <1>3, AppendProperties, LenProperties DEF Types
<1>5. Types'
  BY <1>0, <1>2, <1>4 DEF Types, pool, Exit
<1>6. PointInv'
  <2>1. "parts_request" \in Bare \cap InParts /\ "parts_request" \notin Fresh \cup Awaited \cup Enqueueing \cup Awaiting
    BY DEF Bare, Fresh, Awaited, InParts, Enqueueing, Awaiting
  <2>2. \A i \in 1 .. Len(parts') : requests[parts'[i]].type # "detach"
    BY <1>2, <1>3, <1>4 DEF PointInv
  <2>3. Len(parts') <= want /\ Len(parts') <= MaxParts
    BY <1>3, <1>4, BoundAssumption
  <2> QED  BY <1>0, <1>1, <1>2, <1>3, <2>1, <2>2, <2>3 DEF PointInv
<1>7. ApartInv'
  <2>1. /\ \A i \in 1 .. FlagSlots : slots[i] # cur
        /\ \A i \in 1 .. Len(parts) : parts[i] # cur
    BY <1>2 DEF ApartInv, Fresh
  <2> QED  BY <1>0, <1>1, <1>2, <1>4, <2>1 DEF ApartInv, Fresh
<1>8. FreedInv'
  <2>1. replies[cur] # "freed"
    BY <1>2 DEF FreedInv, Fresh
  <2> QED  BY <1>0, <1>1, <1>2, <1>4, <2>1 DEF FreedInv, Fresh
<1>9. OwnedInv'
  <2> SUFFICES ASSUME NEW r \in Ids, replies[r] \notin {"null", "freed"}
               PROVE  \/ \E i \in 1 .. Len(parts') : parts'[i] = r
                      \/ \E i \in 1 .. FlagSlots : slots[i] = r
    BY <1>0, <1>2 DEF OwnedInv
  <2> QED  BY <1>2, <1>4 DEF OwnedInv
<1> QED  BY <1>0, <1>1, <1>5, <1>6, <1>7, <1>8, <1>9, Quiet

LEMMA DetachedInv ==
  ASSUME IInv, Detached
  PROVE  IInv'
<1>0. /\ UNCHANGED <<requests, replies, queue, pool, exiting, ret, index, want, slots, parts>>
      /\ mpc = "detached" /\ mpc' = "idle" /\ cur' = NULL
  BY DEF Detached, heap, locks
<1>1. mpc \in Points /\ mpc' \in Points /\ mpc \notin Leaving /\ At' = "idle"
  BY <1>0, PointNames DEF Points, Fresh, Bare, At
<1>2. Types /\ ReplyInv /\ PointInv /\ ApartInv /\ FreedInv /\ OwnedInv /\ At = "detached" /\ Ids' = Ids
  BY <1>0, <1>1, Staying DEF Ids
<1>3. cur \in Ids /\ replies[cur] = "null" /\ parts = <<>> /\ Len(parts) = 0
  BY <1>2, EmptySeq DEF PointInv, ReplyInv, Fresh, InParts
<1>5. Types'
  BY <1>0, <1>2 DEF Types, pool, Exit
<1>6. PointInv'
  <2>1. "idle" \in Bare /\ "idle" \notin Fresh \cup Awaited \cup InParts \cup Enqueueing \cup Awaiting
    BY DEF Bare, Fresh, Awaited, InParts, Enqueueing, Awaiting
  <2> QED  BY <1>0, <1>1, <1>2, <1>3, <2>1, BoundAssumption DEF PointInv
<1>7. ApartInv' /\ FreedInv'
  BY <1>0, <1>1, <1>2, <1>3 DEF ApartInv, FreedInv, Fresh
<1>8. OwnedInv'
  BY <1>0, <1>2, <1>3 DEF OwnedInv
<1> QED  BY <1>0, <1>1, <1>5, <1>6, <1>7, <1>8, Quiet

\* Main turns to a reply it holds.
LEMMA AwaitingInv ==
  ASSUME IInv, ResolveUpdate \/ VideoRequested \/ PartAwait \/ (AwaitSlot /\ slots[index] # NULL)
  PROVE  IInv'
<1>0. UNCHANGED <<requests, replies, queue, pool, exiting, index, slots, parts>> /\ mpc' = "await"
  BY DEF ResolveUpdate, VideoRequested, PartAwait, AwaitSlot, Await, heap, locks
<1>1. /\ mpc \in {"startup", "video_requested", "parts_await", "parts_cleanup", "await_all"}
      /\ ret' = CASE mpc = "startup" -> "update_done" [] mpc = "video_requested" -> "video_done"
                  [] mpc = "parts_await" -> "part_done" [] mpc = "parts_cleanup" -> "part_cleaned"
                  [] mpc = "await_all" -> "slot_done"
      /\ cur' = CASE mpc \in {"startup", "video_requested"} -> cur
                  [] mpc \in {"parts_await", "parts_cleanup"} -> parts[index]
                  [] mpc = "await_all" -> slots[index]
      /\ mpc \in {"parts_await", "parts_cleanup"} => index <= Len(parts)
      /\ mpc = "await_all" => index <= FlagSlots /\ slots[index] # NULL
      /\ want' # NULL => want' \in 0 .. MaxParts \/ want' = want
  BY DEF ResolveUpdate, VideoRequested, PartAwait, AwaitSlot, Await
<1>2. /\ mpc \in Points /\ mpc' \in Awaiting /\ mpc \notin Leaving /\ At' = ret' /\ ret' \in Awaited
      /\ ret' \notin Fresh \cup Bare /\ mpc' \notin Enqueueing /\ mpc' \notin Awaited
  BY <1>0, <1>1, PointNames DEF Points, Fresh, Bare, Awaited, At, Awaiting, Enqueueing
<1>3. Types /\ ReplyInv /\ PointInv /\ ApartInv /\ FreedInv /\ OwnedInv /\ At = mpc /\ Ids' = Ids
  BY <1>0, <1>2, Staying DEF Ids
<1>4. /\ mpc = "await_all" => index \in 1 .. FlagSlots
      /\ mpc \in {"parts_await", "parts_cleanup"} => index \in 1 .. Len(parts)
      /\ mpc \in {"startup", "video_requested"} => cur \in Ids /\ requests[cur].type # "detach"
      /\ mpc \notin {"startup", "video_requested"} => cur = NULL
      /\ mpc \notin {"parts_await", "parts_cleanup"} => parts = <<>>
      /\ FlagSlots \in Nat /\ Len(parts) \in Nat
  BY <1>1, <1>3, BoundAssumption, LenProperties DEF PointInv, Fresh, Bare, Types, InParts
<1>5. /\ \A i \in 1 .. FlagSlots : slots[i] \in Ids \cup {NULL}
      /\ \A i \in 1 .. Len(parts) : parts[i] \in Ids
  BY <1>3, LenProperties DEF Types
<1>6. cur' \in Ids /\ requests[cur'].type # "detach"
  BY <1>1, <1>3, <1>4, <1>5 DEF PointInv
<1>7. Types'
  BY <1>0, <1>3, <1>6 DEF Types, pool, Exit
<1>8. PointInv'
  <2>1. At' \in {"part_done", "part_cleaned"} => index \in 1 .. Len(parts) /\ cur' = parts[index]
    BY <1>1, <1>2, <1>4
  <2>2. At' = "slot_done" => index \in 1 .. FlagSlots /\ cur' = slots[index]
    BY <1>1, <1>2, <1>4
  <2>3. At' \notin InParts => parts = <<>>
    BY <1>1, <1>2, <1>4 DEF InParts
  <2>4. want' # NULL => want' \in 0 .. MaxParts
    BY <1>1, <1>3 DEF PointInv
  <2>5. At' \notin {"detached", "flag_store", "flag_find", "await_all", "parts_await", "parts_cleanup",
                    "parts_request", "part_store"}
    BY <1>2 DEF Awaited
  <2> QED  BY <1>0, <1>2, <1>3, <1>6, <2>1, <2>2, <2>3, <2>4, <2>5 DEF PointInv
<1>9. ApartInv'
  <2>1. At' \in Fresh \cup {"update_done", "video_done"} => At \in Fresh /\ cur' = cur
    BY <1>1, <1>2, <1>3 DEF Fresh
  <2> QED  BY <1>0, <1>3, <2>1 DEF ApartInv
<1>10. FreedInv'
  <2>1. At' \in Fresh \cup {"update_done", "video_done"} => At \in Fresh /\ cur' = cur
    BY <1>1, <1>2, <1>3 DEF Fresh
  <2>2. /\ At' \in {"parts_cleanup", "part_cleaned"} <=> At \in {"parts_cleanup", "part_cleaned"}
        /\ At' \in {"parts_await", "part_done"} <=> At \in {"parts_await", "part_done"}
    BY <1>1, <1>2, <1>3
  <2> QED  BY <1>0, <1>3, <2>1, <2>2 DEF FreedInv
<1>11. OwnedInv'
  BY <1>0, <1>1, <1>3, <1>4, NullAssumption DEF OwnedInv, Ids
<1> QED  BY <1>0, <1>2, <1>7, <1>8, <1>9, <1>10, <1>11, Quiet

\* Main goes on in the loop it is in, over the table or the parts, or begins the next one.
LEMMA LoopingInv ==
  ASSUME IInv, (AwaitSlot /\ slots[index] = NULL) \/ PartsRequested \/ PartFailed
  PROVE  IInv'
<1>0. UNCHANGED <<requests, replies, queue, pool, exiting, ret, slots, parts>>
  BY DEF AwaitSlot, PartsRequested, PartFailed, heap, locks
<1>1. \/ mpc = "await_all" /\ mpc' = "await_all" /\ index' = index + 1 /\ UNCHANGED <<cur, want>>
      \/ mpc = "parts_request" /\ mpc' = "parts_await" /\ index' = 1 /\ cur' = cur /\ want' = NULL
      \/ mpc = "part_done" /\ mpc' = "parts_cleanup" /\ index' = 1 /\ cur' = NULL /\ want' = want
  BY DEF AwaitSlot, PartsRequested, PartFailed
<1>2. mpc \in Points /\ mpc' \in Bare /\ mpc' \in Points /\ mpc \notin Leaving /\ At' = mpc'
  BY <1>1, PointNames DEF Points, Awaited, Bare, At
<1>3. Types /\ ReplyInv /\ PointInv /\ ApartInv /\ FreedInv /\ OwnedInv /\ At = mpc /\ Ids' = Ids
  BY <1>0, <1>2, Staying DEF Ids
<1>4. /\ cur' = NULL /\ Len(parts) \in Nat /\ index' \in Nat \ {0}
      /\ mpc \in {"await_all", "parts_request"} => cur = NULL
      /\ mpc = "part_done" => index \in 1 .. Len(parts) /\ cur = parts[index]
      /\ Len(parts) <= MaxParts /\ MaxParts \in Nat
  BY <1>1, <1>3, LenProperties, BoundAssumption DEF PointInv, Bare, Types
<1>5. Types'
  BY <1>0, <1>3, <1>4 DEF Types, pool, Exit
<1>6. PointInv'
  <2>1. mpc' \notin Fresh \cup Awaited \cup Enqueueing \cup Awaiting /\ mpc' # "parts_request" /\ mpc' # "flag_find"
    BY <1>1 DEF Fresh, Awaited, Enqueueing, Awaiting
  <2>2. At' \notin InParts => parts = <<>>
    BY <1>1, <1>2, <1>3 DEF PointInv, InParts
  <2>3. At' \in {"parts_await", "parts_cleanup"} => index' \in 1 .. Len(parts) + 1
    BY <1>1, <1>2, <1>4
  <2>4. want' # NULL => want' \in 0 .. MaxParts
    BY <1>1, <1>3 DEF PointInv
  <2> QED  BY <1>0, <1>2, <1>3, <1>4, <2>1, <2>2, <2>3, <2>4 DEF PointInv, Fresh, Awaited
<1>7. ApartInv'
  BY <1>0, <1>1, <1>2, <1>3 DEF ApartInv, Fresh
<1>8. FreedInv'
  <2>1. At' \notin Fresh \cup {"update_done", "video_done"}
    BY <1>1, <1>2 DEF Fresh
  <2> SUFFICES ASSUME NEW i \in 1 .. Len(parts)
               PROVE  /\ At' \notin {"parts_cleanup", "part_cleaned"} /\ (At' \in {"parts_await", "part_done"} => i >= index')
                           => replies[parts[i]] # "freed"
                      /\ Len(parts) <= 1 /\ At' \in {"parts_cleanup", "part_cleaned"} /\ i >= index'
                           => replies[parts[i]] # "freed"
                      /\ At' \in {"parts_await", "part_done", "parts_cleanup", "part_cleaned"} /\ i < index'
                           => replies[parts[i]] = "freed"
    BY <1>0, <1>3, <2>1 DEF FreedInv
  <2>2. CASE mpc = "await_all"
    <3>1. parts = <<>>
      BY <1>3, <2>2 DEF PointInv, InParts
    <3> QED  BY <3>1, EmptySeq
  <2>3. CASE mpc = "parts_request"
    BY <1>1, <1>2, <1>3, <1>4, <2>3 DEF FreedInv
  <2>4. CASE mpc = "part_done"
    <3>1. Len(parts) <= 1 => i = index
      BY <1>4, <2>4
    <3> QED  BY <1>1, <1>2, <1>3, <1>4, <2>4, <3>1 DEF FreedInv
  <2> QED  BY <1>1, <2>2, <2>3, <2>4
<1>9. OwnedInv'
  BY <1>0, <1>1, <1>3, <1>4, NullAssumption DEF OwnedInv, Ids
<1> QED  BY <1>0, <1>2, <1>5, <1>6, <1>7, <1>8, <1>9, Quiet

LEMMA PartsDoneInv ==
  ASSUME IInv, PartsDone
  PROVE  IInv'
<1>0. /\ UNCHANGED <<requests, replies, queue, pool, exiting, ret, cur, want, slots>>
      /\ mpc \in {"parts_await", "parts_cleanup"} /\ index > Len(parts)
      /\ mpc' = "idle" /\ parts' = <<>> /\ index' = 0
  BY DEF PartsDone, heap, locks
<1>1. mpc \in Points /\ mpc' \in Points /\ mpc \notin Leaving /\ At' = "idle"
  BY <1>0, PointNames DEF Points, Bare, At
<1>2. Types /\ ReplyInv /\ PointInv /\ ApartInv /\ FreedInv /\ OwnedInv /\ At = mpc /\ Ids' = Ids
  BY <1>0, <1>1, Staying DEF Ids
<1>3. Len(parts) \in Nat /\ index \in Nat /\ cur = NULL /\ Len(parts') = 0 /\ parts' \in Seq(Ids)
  BY <1>0, <1>2, LenProperties, EmptySeq DEF PointInv, Bare, Types
<1>4. Types'
  BY <1>0, <1>2, <1>3 DEF Types, pool, Exit
<1>5. PointInv'
  <2>1. "idle" \in Bare /\ "idle" \notin Fresh \cup Awaited \cup InParts \cup Enqueueing \cup Awaiting
    BY DEF Bare, Fresh, Awaited, InParts, Enqueueing, Awaiting
  <2> QED  BY <1>0, <1>1, <1>2, <1>3, <2>1, BoundAssumption DEF PointInv
<1>6. ApartInv' /\ FreedInv'
  BY <1>0, <1>1, <1>2, <1>3 DEF ApartInv, FreedInv, Fresh
<1>7. OwnedInv'
  <2>1. \A i \in 1 .. Len(parts) : replies[parts[i]] = "freed"
    BY <1>0, <1>2, <1>3 DEF FreedInv
  <2> QED  BY <1>0, <1>2, <1>3, <2>1 DEF OwnedInv
<1> QED  BY <1>0, <1>1, <1>4, <1>5, <1>6, <1>7, Quiet

\* Main has looked at a reply, and frees it.
LEMMA FreeingInv ==
  ASSUME IInv, UpdateDone \/ VideoDone
  PROVE  IInv'
<1>0. /\ UNCHANGED <<queue, pool, exiting, ret, index, slots, parts>> /\ Free(cur) /\ cur' = NULL
      /\ mpc \in {"update_done", "video_done"}
      /\ \/ mpc' = "idle" /\ want' \in {want, NULL}
         \/ mpc' = "parts_request" /\ want' = want /\ want # NULL
  BY DEF UpdateDone, VideoDone, locks
<1>1. mpc \in Points /\ mpc' \in Points /\ mpc \notin Leaving /\ At' = mpc' /\ mpc' \in Bare
  BY <1>0, PointNames DEF Points, Awaited, Bare, At
<1>2. Types /\ ReplyInv /\ PointInv /\ ApartInv /\ FreedInv /\ OwnedInv /\ At = mpc
  BY <1>1, Staying
<1>3. /\ cur \in Ids /\ replies[cur] \notin {"pending", "null"} /\ requests[cur].type # "detach"
      /\ parts = <<>> /\ Len(parts) = 0
  BY <1>0, <1>2, EmptySeq DEF PointInv, Awaited, InParts, ReplyInv
<1>4. /\ requests' = requests /\ Ids' = Ids
      /\ replies' \in Seq(States) /\ Len(replies') = Len(replies)
      /\ \A s \in Ids : replies'[s] = IF s = cur THEN "freed" ELSE replies[s]
  BY <1>0, <1>2, <1>3, FreeEffects
<1>5. \A i \in 1 .. FlagSlots : slots[i] # cur /\ (slots[i] = NULL \/ slots[i] \in Ids)
  BY <1>0, <1>2 DEF ApartInv, Types
<1>6. Types'
  BY <1>0, <1>2, <1>4 DEF Types, pool, Exit
<1>7. PointInv'
  <2>1. /\ mpc' \notin Fresh \cup Awaited \cup Enqueueing \cup Awaiting
        /\ mpc' \notin {"flag_find", "await_all", "parts_await", "parts_cleanup", "part_store"}
    BY <1>0 DEF Fresh, Awaited, Enqueueing, Awaiting
  <2>2. want' # NULL => want' \in 0 .. MaxParts
    BY <1>0, <1>2 DEF PointInv
  <2>3. At' = "parts_request" => want' # NULL /\ Len(parts) <= want'
    BY <1>0, <1>1, <1>3, <2>2
  <2> QED  BY <1>0, <1>1, <1>2, <1>3, <1>4, <2>1, <2>2, <2>3, BoundAssumption DEF PointInv, Fresh, Awaited
<1>8. ApartInv'
  <2>1. At' \notin Fresh \cup {"update_done", "video_done"}
    BY <1>0, <1>1 DEF Fresh
  <2> QED  BY <1>0, <1>2, <1>3, <2>1 DEF ApartInv
<1>9. FreedInv'
  <2>1. At' \notin Fresh \cup {"update_done", "video_done"}
    BY <1>0, <1>1 DEF Fresh
  <2>2. \A i \in 1 .. FlagSlots : slots[i] # NULL => replies'[slots[i]] # "freed"
    BY <1>2, <1>4, <1>5 DEF FreedInv
  <2> QED  BY <1>0, <1>3, <2>1, <2>2 DEF FreedInv
<1>10. OwnedInv'
  BY <1>0, <1>2, <1>3, <1>4 DEF OwnedInv
<1> QED  BY <1>0, <1>1, <1>3, <1>4, <1>6, <1>7, <1>8, <1>9, <1>10, Quiet

\* The table gives up the reply of the slot that has been awaited, or one found resolved.
LEMMA SlotFreedInv ==
  ASSUME IInv, SlotDone \/ FlagFindResolved
  PROVE  IInv'
<1>0. UNCHANGED <<queue, pool, exiting, ret, want, parts>>
  BY DEF SlotDone, FlagFindResolved, locks
<1>1. /\ mpc \in {"slot_done", "flag_find"} /\ mpc' \in {"await_all", "flag_find"}
      /\ mpc \in Points /\ mpc' \in Points /\ mpc \notin Leaving /\ At' = mpc' /\ mpc' \in Bare
  <2>1. mpc \in {"slot_done", "flag_find"} /\ mpc' \in {"await_all", "flag_find"}
    BY DEF SlotDone, FlagFindResolved
  <2> QED  BY <2>1, PointNames DEF Points, Awaited, Bare, At
<1>2. Types /\ ReplyInv /\ PointInv /\ ApartInv /\ FreedInv /\ OwnedInv /\ At = mpc
  BY <1>1, Staying
<1>3. PICK i \in 1 .. FlagSlots :
         /\ slots[i] # NULL /\ Free(slots[i]) /\ slots' = [slots EXCEPT ![i] = NULL]
         /\ replies[slots[i]] # "pending"
         /\ cur \in {NULL, slots[i]} /\ cur' = NULL
         /\ index' \in Nat /\ (mpc' = "await_all" => index' \in Nat \ {0})
         /\ (mpc' = "flag_find" => method' \in Methods)
  <2>1. CASE SlotDone
    <3>1. /\ mpc = "slot_done" /\ mpc' = "await_all" /\ Free(cur) /\ cur' = NULL /\ index' = index + 1
          /\ slots' = [slots EXCEPT ![index] = NULL]
      BY <2>1 DEF SlotDone
    <3>2. /\ index \in 1 .. FlagSlots /\ cur = slots[index] /\ cur \in Ids /\ cur # NULL
          /\ replies[cur] # "pending"
      BY <1>2, <3>1, NullAssumption DEF PointInv, Awaited, Ids
    <3>3. /\ slots[index] # NULL /\ Free(slots[index]) /\ replies[slots[index]] # "pending"
          /\ cur \in {NULL, slots[index]} /\ index' \in Nat \ {0} /\ mpc' # "flag_find"
      BY <3>1, <3>2, BoundAssumption
    <3> QED  BY <3>1, <3>2, <3>3
  <2>2. CASE FlagFindResolved
    <3>1. PICK i \in DOMAIN slots : /\ replies[slots[i]] # "pending" /\ Free(slots[i])
                                    /\ slots' = [slots EXCEPT ![i] = NULL] /\ slots[i] # NULL
      BY <2>2 DEF FlagFindResolved
    <3>2. mpc = "flag_find" /\ mpc' = "flag_find" /\ UNCHANGED <<cur, index, method>>
      BY <2>2 DEF FlagFindResolved
    <3>3. cur = NULL /\ method \in Methods /\ index \in Nat /\ i \in 1 .. FlagSlots
      BY <1>2, <3>1, <3>2 DEF PointInv, Bare, Types
    <3> QED  BY <3>1, <3>2, <3>3
  <2> QED  BY <2>1, <2>2
<1>4. /\ slots[i] \in Ids /\ replies[slots[i]] \notin {"pending", "null"}
      /\ requests[slots[i]].type # "detach" /\ parts = <<>> /\ Len(parts) = 0
  <2>1. slots[i] \in Ids /\ requests[slots[i]].type # "detach"
    BY <1>2, <1>3 DEF Types, PointInv
  <2>2. parts = <<>>
    BY <1>1, <1>2 DEF PointInv, InParts
  <2> QED  BY <1>2, <1>3, <2>1, <2>2, EmptySeq DEF ReplyInv
<1>5. /\ requests' = requests /\ Ids' = Ids
      /\ replies' \in Seq(States) /\ Len(replies') = Len(replies)
      /\ \A s \in Ids : replies'[s] = IF s = slots[i] THEN "freed" ELSE replies[s]
  BY <1>2, <1>3, <1>4, FreeEffects
<1>6. /\ slots' \in [1 .. FlagSlots -> Ids \cup {NULL}] /\ slots'[i] = NULL
      /\ \A j \in 1 .. FlagSlots : j # i => slots'[j] = slots[j] /\ slots[j] # slots[i]
      /\ \A j \in 1 .. FlagSlots : slots[j] = NULL \/ slots[j] \in Ids
  <2>1. slots \in [1 .. FlagSlots -> Ids \cup {NULL}]
    BY <1>2 DEF Types
  <2>2. \A j \in 1 .. FlagSlots : j # i => slots[j] # slots[i]
    BY <1>2, <1>3 DEF ApartInv
  <2> QED  BY <1>3, <2>1, <2>2
<1>7. Types'
  BY <1>0, <1>2, <1>3, <1>5, <1>6 DEF Types, pool, Exit
<1>8. PointInv'
  <2>1. /\ mpc' \notin Fresh \cup Awaited \cup InParts \cup Enqueueing \cup Awaiting
        /\ mpc' \notin {"parts_await", "parts_cleanup", "parts_request", "part_store"}
    BY <1>1 DEF Fresh, Awaited, InParts, Enqueueing, Awaiting
  <2>2. \A j \in 1 .. FlagSlots : slots'[j] # NULL => requests'[slots'[j]].type # "detach"
    BY <1>2, <1>5, <1>6 DEF PointInv
  <2> QED  BY <1>0, <1>1, <1>2, <1>3, <1>4, <2>1, <2>2, BoundAssumption DEF PointInv, Fresh, Awaited
<1>9. ApartInv'
  <2>1. At' \notin Fresh \cup {"update_done", "video_done"}
    BY <1>1 DEF Fresh
  <2> QED  BY <1>0, <1>2, <1>3, <1>4, <1>6, <2>1 DEF ApartInv
<1>10. FreedInv'
  <2>1. At' \notin Fresh \cup {"update_done", "video_done"}
    BY <1>1 DEF Fresh
  <2>2. \A j \in 1 .. FlagSlots : slots'[j] # NULL => replies'[slots'[j]] # "freed"
    BY <1>2, <1>5, <1>6 DEF FreedInv
  <2> QED  BY <1>0, <1>4, <2>1, <2>2 DEF FreedInv
<1>11. OwnedInv'
  <2> SUFFICES ASSUME NEW r \in Ids, replies'[r] \notin {"null", "freed"}
               PROVE  \E j \in 1 .. FlagSlots : slots'[j] = r
    BY <1>5 DEF OwnedInv
  <2>1. r # slots[i] /\ replies[r] \notin {"null", "freed"} /\ r # NULL
    BY <1>5, NullAssumption DEF Ids
  <2>2. PICK j \in 1 .. FlagSlots : slots[j] = r
    BY <1>2, <1>3, <1>4, <2>1 DEF OwnedInv
  <2> QED  BY <1>6, <2>1, <2>2
<1> QED  BY <1>0, <1>1, <1>3, <1>4, <1>5, <1>7, <1>8, <1>9, <1>10, <1>11, Quiet

LEMMA PartDoneInv ==
  ASSUME IInv, PartDone
  PROVE  IInv'
<1>0. /\ UNCHANGED <<queue, pool, exiting, ret, want, slots, parts>>
      /\ Free(cur) /\ cur' = NULL /\ index' = index + 1
      /\ \/ mpc = "part_done" /\ mpc' = "parts_await"
         \/ mpc = "part_cleaned" /\ mpc' = "parts_cleanup"
  BY DEF PartDone, locks
<1>1. mpc \in Points /\ mpc' \in Points /\ mpc \notin Leaving /\ At' = mpc' /\ mpc' \in Bare
  BY <1>0, PointNames DEF Points, Awaited, Bare, At
<1>2. Types /\ ReplyInv /\ PointInv /\ ApartInv /\ FreedInv /\ OwnedInv /\ At = mpc
  BY <1>1, Staying
<1>3. /\ cur \in Ids /\ index \in 1 .. Len(parts) /\ cur = parts[index] /\ Len(parts) \in Nat
      /\ replies[cur] \notin {"pending", "null"} /\ requests[cur].type # "detach"
  BY <1>0, <1>2, LenProperties DEF PointInv, Awaited, ReplyInv, Types
<1>4. /\ requests' = requests /\ Ids' = Ids
      /\ replies' \in Seq(States) /\ Len(replies') = Len(replies)
      /\ \A s \in Ids : replies'[s] = IF s = cur THEN "freed" ELSE replies[s]
  BY <1>0, <1>2, <1>3, FreeEffects
<1>5. /\ \A i \in 1 .. FlagSlots : slots[i] # cur /\ (slots[i] = NULL \/ slots[i] \in Ids)
      /\ \A i \in 1 .. Len(parts) : parts[i] \in Ids /\ (i # index => parts[i] # cur)
  <2>1. \A i \in 1 .. FlagSlots : slots[i] = NULL \/ slots[i] \in Ids
    BY <1>2 DEF Types
  <2>2. \A i \in 1 .. Len(parts) : parts[i] \in Ids
    BY <1>2, LenProperties DEF Types
  <2> QED  BY <1>2, <1>3, <2>1, <2>2 DEF ApartInv
<1>6. Types'
  BY <1>0, <1>2, <1>4 DEF Types, pool, Exit
<1>7. PointInv'
  <2>1. /\ mpc' \notin Fresh \cup Awaited \cup Enqueueing \cup Awaiting /\ mpc' \in InParts
        /\ mpc' \notin {"flag_find", "await_all", "parts_request", "part_store"}
    BY <1>0 DEF Fresh, Awaited, Enqueueing, Awaiting, InParts
  <2>2. index' \in 1 .. Len(parts) + 1
    BY <1>0, <1>3
  <2> QED  BY <1>0, <1>1, <1>2, <1>3, <1>4, <2>1, <2>2 DEF PointInv, Fresh, Awaited
<1>8. ApartInv'
  <2>1. At' \notin Fresh \cup {"update_done", "video_done"}
    BY <1>0, <1>1 DEF Fresh
  <2> QED  BY <1>0, <1>2, <2>1 DEF ApartInv
<1>9. FreedInv'
  <2>1. At' \notin Fresh \cup {"update_done", "video_done"}
    BY <1>0, <1>1 DEF Fresh
  <2>2. \A i \in 1 .. FlagSlots : slots[i] # NULL => replies'[slots[i]] # "freed"
    BY <1>2, <1>4, <1>5 DEF FreedInv
  <2> SUFFICES ASSUME NEW i \in 1 .. Len(parts)
               PROVE  /\ At' = "parts_await" /\ i >= index + 1 => replies'[parts[i]] # "freed"
                      /\ Len(parts) <= 1 /\ At' = "parts_cleanup" /\ i >= index + 1 => replies'[parts[i]] # "freed"
                      /\ i < index + 1 => replies'[parts[i]] = "freed"
    BY <1>0, <1>1, <2>1, <2>2 DEF FreedInv
  <2>3. i \in Nat /\ index \in Nat
    BY <1>3
  <2>4. CASE i = index
    BY <1>3, <1>4, <1>5, <2>3, <2>4
  <2>5. CASE i # index
    <3>1. replies'[parts[i]] = replies[parts[i]]
      BY <1>4, <1>5, <2>5
    <3>2. i >= index + 1 => i >= index
      BY <2>3
    <3>3. i < index + 1 => i < index
      BY <2>3, <2>5
    <3> QED  BY <1>0, <1>1, <1>2, <3>1, <3>2, <3>3 DEF FreedInv
  <2> QED  BY <2>4, <2>5
<1>10. OwnedInv'
  BY <1>0, <1>2, <1>3, <1>4 DEF OwnedInv
<1> QED  BY <1>0, <1>1, <1>3, <1>4, <1>6, <1>7, <1>8, <1>9, <1>10, Quiet

\* The workers see nothing of where main is, nor main of them but through replies.
LEMMA WorkerInvs ==
  ASSUME IInv, NEW w \in Workers, WorkerStep(w) \/ Deliver(w) \/ DeliverLocation(w)
  PROVE  IInv'
<1>1. Types /\ PoolInv /\ MainInv
  BY PoolParts
<1>2. mpc \in Enqueueing => cur \in Ids
  BY Staying, PointNames
<1>3. Types' /\ PoolInv' /\ Resolves /\ LeavesMain
  BY <1>1, <1>2, WorkerPool
<1>4. MainInv'
  BY <1>1, <1>3, WorkerMain
<1> QED  BY <1>3, <1>4 DEF IInv, PoolInv

LEMMA StutterInv ==
  ASSUME IInv, UNCHANGED vars
  PROVE  IInv'
<1>1. UNCHANGED <<requests, replies, queue, exiting, mpc, ret, cur, index, method, want, slots, parts,
                  wpc, job, header, sent>>
  BY DEF vars, heap, locks, main, pool
<1>2. Ids' = Ids /\ At' = At /\ \A w \in Workers : Working(w)' = Working(w)
  BY <1>1 DEF Ids, At, Working
<1>3. Types' /\ WorkerInv' /\ ReplyInv' /\ ExitInv'
  BY <1>1, <1>2 DEF IInv, Types, WorkerInv, ReplyInv, ExitInv
<1>4. SentInv' /\ PlaceInv' /\ PendingInv'
  BY <1>1, <1>2 DEF IInv, SentInv, PlaceInv, PendingInv, Unresolved, Early
<1>5. MainInv'
  BY <1>1, <1>2 DEF IInv, MainInv, PointInv, ApartInv, FreedInv, OwnedInv
<1> QED  BY <1>3, <1>4, <1>5 DEF IInv

LEMMA NextInv ==
  ASSUME IInv, [Next]_vars
  PROVE  IInv'
<1>1. CASE UNCHANGED vars
  BY <1>1, StutterInv
<1>2. CASE MainStep
  <2>1. CASE EnqueueLock \/ EnqueueStore \/ AwaitTest \/ AwaitWait
    BY <2>1, SamePointInv
  <2>2. CASE FlagFindFree \/ PartsRequest
    BY <2>2, IssuingInv
  <2>3. CASE ResolveUpdate \/ VideoRequested \/ PartAwait
    BY <2>3, AwaitingInv
  <2>4. CASE AwaitSlot
    BY <2>4, AwaitingInv, LoopingInv
  <2>5. CASE PartsRequested \/ PartFailed
    BY <2>5, LoopingInv
  <2>6. CASE UpdateDone \/ VideoDone
    BY <2>6, FreeingInv
  <2>7. CASE SlotDone \/ FlagFindResolved
    BY <2>7, SlotFreedInv
  <2>8. CASE ClearLock \/ ClearEnqueue \/ ClearJoin
    BY <2>8, LeavingInv
  <2>9. CASE AwaitAllDone
    BY <2>9, StartIdleInv
  <2> QED  BY <1>2, <2>1, <2>2, <2>3, <2>4, <2>5, <2>6, <2>7, <2>8, <2>9,
              FlagStoreInv, PartStoreInv, DetachedInv, PartDoneInv, PartsDoneInv DEF MainStep
<1>3. CASE MainCall
  <2>1. CASE RequestUpdate \/ RequestVideo \/ \E m \in Methods : Detach(m)
    BY <2>1, IssuingInv
  <2>2. CASE SkipUpdate \/ AwaitAll \/ \E m \in Methods : SetFlag(m)
    BY <2>2, StartIdleInv
  <2>3. CASE Quit
    BY <2>3, LeavingInv
  <2> QED  BY <1>3, <2>1, <2>2, <2>3 DEF MainCall
<1>4. CASE Interrupt \/ SpuriousWakeup
  BY <1>4, LeavingInv, SamePointInv
<1>5. ASSUME NEW w \in Workers, WorkerStep(w) \/ Deliver(w) \/ DeliverLocation(w)
      PROVE  IInv'
  BY <1>5, WorkerInvs
<1>6. CASE Finished
  BY <1>6, StutterInv DEF Finished
<1> QED  BY <1>1, <1>2, <1>3, <1>4, <1>5, <1>6 DEF Next

-----------------------------------------------------------------------------
(***************************************************************************)
(* The theorems.                                                           *)
(***************************************************************************)

\* The inductive invariant holds, with any number of workers and requests.
THEOREM Invariance == Spec => []IInv
<1>1. Init => IInv
  BY InitInv
<1>2. IInv /\ [Next]_vars => IInv'
  BY NextInv
<1> QED  BY <1>1, <1>2, PTL DEF Spec

\* No worker leaves while there are requests to perform, and when the program has exited in
\* order all of them have been sent (jf_net_clear queues the exits behind the requests).
THEOREM RequestsBeforeExitsAlways == Spec => []RequestsBeforeExits
<1>1. IInv => RequestsBeforeExits
  <2> SUFFICES ASSUME IInv
               PROVE  RequestsBeforeExits
    OBVIOUS
  <2>1. DOMAIN queue = 1 .. Len(queue)
    BY LenProperties DEF IInv, Types
  <2>2. (\E w \in Workers : wpc[w] = "exited") => \A i \in 1 .. Len(queue) : queue[i] = Exit
    BY DEF IInv, ExitInv
  <2>3. ASSUME mpc = "exited", ret # "interrupted", NEW r \in Ids
        PROVE  \E m \in {"GET", "POST", "DELETE"} : <<r, m>> \in sent
    <3>1. \A w \in Workers : wpc[w] = "exited"
      BY <2>3 DEF IInv, ExitInv
    <3>2. \A i \in 1 .. Len(queue) : queue[i] = Exit
      BY <2>2, <3>1, WorkerAssumption
    <3>3. r # Exit /\ mpc \notin Enqueueing
      BY <2>3 DEF Ids, Exit, Enqueueing
    <3> QED  BY <2>3, <3>1, <3>2, <3>3 DEF IInv, SentInv
  <2> QED  BY <2>1, <2>2, <2>3 DEF RequestsBeforeExits, Range
<1> QED  BY <1>1, Invariance, PTL

\* The update check's options are on no handle that performs another request.
THEOREM HandleResetAlways == Spec => []HandleReset
<1>1. IInv => HandleReset
  BY DEF IInv, WorkerInv, HandleReset
<1> QED  BY <1>1, Invariance, PTL

\* Until the program exits every reply has an owner that will free it, and the slots of the
\* flag table hold different replies, none of them freed.
THEOREM RepliesOwnedAlways == Spec => []RepliesOwned
<1>1. IInv => RepliesOwned
  <2> SUFFICES ASSUME IInv, ~ exiting
               PROVE  RepliesOwned
    BY DEF RepliesOwned
  <2>1. mpc \notin Leaving
    BY DEF IInv, ExitInv
  <2>2. Types /\ ApartInv /\ FreedInv /\ OwnedInv
    BY <2>1, Staying
  <2>3. DOMAIN slots = 1 .. FlagSlots /\ DOMAIN parts = 1 .. Len(parts)
    BY <2>2, LenProperties DEF Types
  <2>4. ASSUME NEW r \in Ids, replies[r] \notin {"null", "freed"}
        PROVE  cur = r \/ r \in Range(parts) \/ \E i \in DOMAIN slots : slots[i] = r
    BY <2>2, <2>3, <2>4 DEF OwnedInv, Range
  <2>5. ASSUME NEW i \in DOMAIN slots, NEW j \in DOMAIN slots, slots[i] # NULL
        PROVE  replies[slots[i]] # "freed" /\ (slots[i] = slots[j] => i = j)
    BY <2>2, <2>3, <2>5 DEF ApartInv, FreedInv
  <2> QED  BY <2>4, <2>5 DEF RepliesOwned
<1> QED  BY <1>1, Invariance, PTL

\* Main awaits and reads no reply it has freed, however many parts its videos have and however
\* large the flag table is, but in the clean-up after a failure among several parts, which goes
\* over the parts again from the first.
THEOREM NoStaleReplyAlways == Spec => []NoStaleReply
<1>1. IInv => NoStaleReply
  <2> SUFFICES ASSUME IInv, mpc \in Awaiting \cup Awaited, ~ CleansSeveral
               PROVE  replies[cur] # "freed"
    BY DEF NoStaleReply, LooksAtReply, Awaited
  <2>1. mpc \notin Leaving
    BY DEF Awaiting, Awaited, Leaving
  <2>2. Types /\ PointInv /\ FreedInv
    BY <2>1, Staying
  <2>3. At \in Awaited /\ cur \in Ids
    BY <2>1, <2>2, Staying, PointNames DEF PointInv, At, Points
  <2>4. CASE At \in {"update_done", "video_done"}
    BY <2>2, <2>4 DEF FreedInv
  <2>5. CASE At = "slot_done"
    BY <2>2, <2>3, <2>5, NullAssumption DEF PointInv, FreedInv, Ids
  <2>6. ASSUME At \in {"part_done", "part_cleaned"}
        PROVE  index \in 1 .. Len(parts) /\ cur = parts[index] /\ index >= index /\ Len(parts) \in Nat
    BY <2>2, <2>6, LenProperties DEF PointInv, Types
  <2>7. CASE At = "part_done"
    BY <2>2, <2>6, <2>7 DEF FreedInv
  <2>8. CASE At = "part_cleaned"
    <3>1. mpc = "part_cleaned" \/ (mpc \in Awaiting /\ ret = "part_cleaned")
      BY <2>8 DEF At, Enqueueing, Awaiting, Awaited
    <3>2. Len(parts) <= 1
      BY <2>6, <2>8, <3>1 DEF CleansSeveral
    <3> QED  BY <2>2, <2>6, <2>8, <3>2 DEF FreedInv
  <2> QED  BY <2>3, <2>4, <2>5, <2>7, <2>8 DEF Awaited
<1> QED  BY <1>1, Invariance, PTL

\* While a worker performs a request its reply is not freed, whenever main is interrupted, but
\* for an update check, and then only if a malformed Location header has been let through.
THEOREM RepliesOutliveTransfersAlways == Spec => []RepliesOutliveTransfers
<1>1. IInv => RepliesOutliveTransfers
  <2> SUFFICES ASSUME IInv, NEW w \in Workers, Working(w), replies[job[w]] = "freed"
               PROVE  MalformedLocation /\ requests[job[w]].type = "update" /\ w \in header
    BY DEF RepliesOutliveTransfers, Working
  <2>1. Early(w)
    BY DEF IInv, PendingInv, Unresolved
  <2> QED  BY <2>1 DEF Early, IInv, WorkerInv
<1> QED  BY <1>1, Invariance, PTL
=============================================================================
