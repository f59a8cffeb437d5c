----------------------------- MODULE SyncedQueue -----------------------------
(***************************************************************************)
(* jf_synced_queue (shared.c): a ring of slot_count payload pointers under *)
(* one mutex, with a condition variable for each side.  A slot holding     *)
(* NULL is free.  Both operations signal the other side after they have    *)
(* released the mutex, so other threads run between the store and the      *)
(* signal.  Threads that sleep on a condition variable are the members of  *)
(* cv_is_empty (consumers) and cv_is_full (producers).                     *)
(***************************************************************************)
EXTENDS Integers, FiniteSets

CONSTANTS
    Producers,      \* threads that call jf_synced_queue_enqueue
    Consumers,      \* threads that call jf_synced_queue_dequeue
    SlotCount,      \* slot_count
    Payloads,       \* the non-NULL pointers that can be queued
    NULL

ASSUME SlotCountAssumption == SlotCount \in Nat \ {0}
ASSUME ThreadAssumption == Producers \cap Consumers = {}
ASSUME NullAssumption == NULL \notin Payloads \cup Producers \cup Consumers

Threads == Producers \cup Consumers
Slots == 0 .. SlotCount - 1

VARIABLES
    slots,          \* q->slots
    current,        \* q->current: the slot dequeue reads
    next,           \* q->next: the slot enqueue writes
    mut,            \* owner of q->mut, or NULL
    cv_is_empty,    \* consumers asleep on q->cv_is_empty
    cv_is_full,     \* producers asleep on q->cv_is_full
    pc,             \* where each thread is in the operation it runs
    payload         \* enqueue's argument until stored, dequeue's local

vars == <<slots, current, next, mut, cv_is_empty, cv_is_full, pc, payload>>

\* Outside the queue; before the mutex; inside it, before and after the test of
\* the slot; asleep; past the unlock and before the signal.
PC == {"idle", "lock", "locked", "ready", "asleep", "signal"}

\* jf_synced_queue_new
Init ==
    /\ slots = [i \in Slots |-> NULL]
    /\ current = 0
    /\ next = 0
    /\ mut = NULL
    /\ cv_is_empty = {}
    /\ cv_is_full = {}
    /\ pc = [t \in Threads |-> "idle"]
    /\ payload = [t \in Threads |-> NULL]

Goto(t, label) == pc' = [pc EXCEPT ![t] = label]

\* pthread_mutex_lock, also on the way out of pthread_cond_wait.
Lock(t) ==
    /\ pc[t] = "lock"
    /\ mut = NULL
    /\ mut' = t
    /\ Goto(t, "locked")
    /\ UNCHANGED <<slots, current, next, cv_is_empty, cv_is_full, payload>>

\* The call: a NULL payload returns at once, anything else goes for the mutex.
Enqueue(p, v) ==
    /\ pc[p] = "idle"
    /\ IF v = NULL
       THEN UNCHANGED <<pc, payload>>
       ELSE /\ Goto(p, "lock")
            /\ payload' = [payload EXCEPT ![p] = v]
    /\ UNCHANGED <<slots, current, next, mut, cv_is_empty, cv_is_full>>

\* while (slots[next] != NULL) pthread_cond_wait(&cv_is_full, &mut)
EnqueueWait(p) ==
    /\ pc[p] = "locked"
    /\ slots[next] # NULL
    /\ mut' = NULL
    /\ cv_is_full' = cv_is_full \cup {p}
    /\ Goto(p, "asleep")
    /\ UNCHANGED <<slots, current, next, cv_is_empty, payload>>

\* Mutant: the store goes ahead on a full ring.
EnqueueTestUnguarded(p) ==
    /\ pc[p] = "locked"
    /\ Goto(p, "ready")
    /\ UNCHANGED <<slots, current, next, mut, cv_is_empty, cv_is_full, payload>>

\* The slot is free: out of the loop.
EnqueueTest(p) ==
    /\ pc[p] = "locked"
    /\ slots[next] = NULL
    /\ Goto(p, "ready")
    /\ UNCHANGED <<slots, current, next, mut, cv_is_empty, cv_is_full, payload>>

\* Mutant: enqueue returns without its signal.
EnqueueStoreSilent(p) ==
    /\ pc[p] = "ready"
    /\ slots' = [slots EXCEPT ![next] = payload[p]]
    /\ next' = (next + 1) % SlotCount
    /\ mut' = NULL
    /\ payload' = [payload EXCEPT ![p] = NULL]
    /\ Goto(p, "idle")
    /\ UNCHANGED <<current, cv_is_empty, cv_is_full>>

\* The store, which relies on the test made before it, and the unlock.
EnqueueStore(p) ==
    /\ pc[p] = "ready"
    /\ slots' = [slots EXCEPT ![next] = payload[p]]
    /\ next' = (next + 1) % SlotCount
    /\ mut' = NULL
    /\ payload' = [payload EXCEPT ![p] = NULL]
    /\ Goto(p, "signal")
    /\ UNCHANGED <<current, cv_is_empty, cv_is_full>>

\* pthread_cond_signal(&cv_is_empty): wakes one sleeper if there is one.
EnqueueSignal(p) ==
    /\ pc[p] = "signal"
    /\ \/ /\ cv_is_empty = {}
          /\ Goto(p, "idle")
          /\ UNCHANGED cv_is_empty
       \/ \E c \in cv_is_empty :
            /\ cv_is_empty' = cv_is_empty \ {c}
            /\ pc' = [pc EXCEPT ![p] = "idle", ![c] = "lock"]
    /\ UNCHANGED <<slots, current, next, mut, cv_is_full, payload>>

\* The call; what the previous call returned is dead.
Dequeue(c) ==
    /\ pc[c] = "idle"
    /\ Goto(c, "lock")
    /\ payload' = [payload EXCEPT ![c] = NULL]
    /\ UNCHANGED <<slots, current, next, mut, cv_is_empty, cv_is_full>>

\* while (slots[current] == NULL) pthread_cond_wait(&cv_is_empty, &mut)
DequeueWait(c) ==
    /\ pc[c] = "locked"
    /\ slots[current] = NULL
    /\ mut' = NULL
    /\ cv_is_empty' = cv_is_empty \cup {c}
    /\ Goto(c, "asleep")
    /\ UNCHANGED <<slots, current, next, cv_is_full, payload>>

\* There is a payload: out of the loop.
DequeueTest(c) ==
    /\ pc[c] = "locked"
    /\ slots[current] # NULL
    /\ Goto(c, "ready")
    /\ UNCHANGED <<slots, current, next, mut, cv_is_empty, cv_is_full, payload>>

\* Mutants: the index does not wrap around; the slot is not cleared; dequeue
\* returns without its signal.
DequeueTakeNoWrap(c) ==
    /\ pc[c] = "ready"
    /\ payload' = [payload EXCEPT ![c] = slots[current]]
    /\ slots' = [slots EXCEPT ![current] = NULL]
    /\ current' = current + 1
    /\ mut' = NULL
    /\ Goto(c, "signal")
    /\ UNCHANGED <<next, cv_is_empty, cv_is_full>>

DequeueTakeKeep(c) ==
    /\ pc[c] = "ready"
    /\ payload' = [payload EXCEPT ![c] = slots[current]]
    /\ current' = (current + 1) % SlotCount
    /\ mut' = NULL
    /\ Goto(c, "signal")
    /\ UNCHANGED <<slots, next, cv_is_empty, cv_is_full>>

DequeueTakeSilent(c) ==
    /\ pc[c] = "ready"
    /\ payload' = [payload EXCEPT ![c] = slots[current]]
    /\ slots' = [slots EXCEPT ![current] = NULL]
    /\ current' = (current + 1) % SlotCount
    /\ mut' = NULL
    /\ Goto(c, "idle")
    /\ UNCHANGED <<next, cv_is_empty, cv_is_full>>

\* The payload leaves its slot, and the unlock.
DequeueTake(c) ==
    /\ pc[c] = "ready"
    /\ payload' = [payload EXCEPT ![c] = slots[current]]
    /\ slots' = [slots EXCEPT ![current] = NULL]
    /\ current' = (current + 1) % SlotCount
    /\ mut' = NULL
    /\ Goto(c, "signal")
    /\ UNCHANGED <<next, cv_is_empty, cv_is_full>>

\* pthread_cond_signal(&cv_is_full)
DequeueSignal(c) ==
    /\ pc[c] = "signal"
    /\ \/ /\ cv_is_full = {}
          /\ Goto(c, "idle")
          /\ UNCHANGED cv_is_full
       \/ \E p \in cv_is_full :
            /\ cv_is_full' = cv_is_full \ {p}
            /\ pc' = [pc EXCEPT ![c] = "idle", ![p] = "lock"]
    /\ UNCHANGED <<slots, current, next, mut, cv_is_empty, payload>>

\* POSIX lets pthread_cond_wait return without a signal.
SpuriousWakeup(t) ==
    /\ t \in cv_is_empty \cup cv_is_full
    /\ cv_is_empty' = cv_is_empty \ {t}
    /\ cv_is_full' = cv_is_full \ {t}
    /\ Goto(t, "lock")
    /\ UNCHANGED <<slots, current, next, mut, payload>>

RunProducer(p) ==
    \/ Lock(p) \/ EnqueueWait(p) \/ EnqueueTest(p) \/ EnqueueStore(p) \/ EnqueueSignal(p)

RunConsumer(c) ==
    \/ Lock(c) \/ Dequeue(c) \/ DequeueWait(c) \/ DequeueTest(c)
    \/ DequeueTake(c) \/ DequeueSignal(c)

Next ==
    \/ \E p \in Producers : RunProducer(p) \/ \E v \in Payloads \cup {NULL} : Enqueue(p, v)
    \/ \E c \in Consumers : RunConsumer(c)
    \/ \E t \in Threads : SpuriousWakeup(t)

Spec == Init /\ [][Next]_vars

(***************************************************************************)
(* Fairness.  A thread that can run does run; producers need not call, but *)
(* the workers of net.c call jf_synced_queue_dequeue in a loop.  Nothing   *)
(* is assumed of the mutex beyond its being granted when it stays free,    *)
(* and nothing of spurious wakeups except that they end.                   *)
(***************************************************************************)
Fairness ==
    /\ \A p \in Producers : WF_vars(RunProducer(p))
    /\ \A c \in Consumers : WF_vars(RunConsumer(c))
    /\ <>[][\A t \in Threads : ~ SpuriousWakeup(t)]_vars

FairSpec == Spec /\ Fairness

-----------------------------------------------------------------------------
(***************************************************************************)
(* The queue the ring stands for.                                          *)
(***************************************************************************)

\* How many slots are in use, from the two indices and one slot.
Held ==
    IF slots[current] = NULL THEN 0
    ELSE IF current < next THEN next - current
    ELSE next + SlotCount - current

\* The k-th slot from the one dequeue reads next.
Index(k) == (current + k) % SlotCount

Items == [k \in 1 .. Held |-> slots[Index(k - 1)]]

Queue == INSTANCE Fifo WITH
    Capacity <- SlotCount,
    items <- Items,
    pending <- [p \in Producers |-> payload[p]],
    taken <- [c \in Consumers |-> payload[c]]

\* Every step of the ring is a step of the abstract bounded queue or leaves it
\* alone: payloads come out in the order they went in, each to exactly one
\* consumer, none is invented, dropped or overwritten, whatever the
\* interleaving (shared.c 319-350).
RefinesFifo == Queue!Spec

TypeOK ==
    /\ slots \in [Slots -> Payloads \cup {NULL}]
    /\ current \in Slots
    /\ next \in Slots
    /\ mut \in Threads \cup {NULL}
    /\ cv_is_empty \subseteq Consumers
    /\ cv_is_full \subseteq Producers
    /\ pc \in [Threads -> PC]
    /\ payload \in [Threads -> Payloads \cup {NULL}]

\* The slots in use are exactly the ones from current up to next, cyclically:
\* the NULL test on one slot that each side makes (shared.c 324, 339) really
\* tells whether the whole ring is full or empty.
RingInv ==
    /\ next = Index(Held)
    /\ \A k \in Slots : (slots[Index(k)] # NULL) <=> (k < Held)

Heading(S) == {t \in S : pc[t] \in {"lock", "locked", "ready"}}
Signalling(S) == {t \in S : pc[t] = "signal"}

\* While a consumer sleeps, every payload in the ring has a signal still to be
\* sent or a consumer on its way to it: signalling after the unlock, to one
\* sleeper at a time, loses no wakeup.  Likewise a free slot for a producer.
NoLostWakeup ==
    /\ cv_is_empty # {} =>
         Held <= Cardinality(Signalling(Producers)) + Cardinality(Heading(Consumers))
    /\ cv_is_full # {} =>
         SlotCount - Held <= Cardinality(Signalling(Consumers)) + Cardinality(Heading(Producers))

\* The oldest payload is always taken: the ring never holds one while all the
\* workers sleep for good.
HeadIsTaken ==
    \A i \in Slots : (current = i /\ slots[i] # NULL) ~> (current # i)

\* Producers are not stuck on a full ring: when all of them are in an enqueue, one
\* gets out of it.  (jf_net_request has one caller thread, the main one.)
EnqueueReturns ==
    (\A p \in Producers : pc[p] # "idle") ~> (\E p \in Producers : pc[p] = "idle")
=============================================================================
