-------------------------- MODULE SyncedQueueProofs --------------------------
(***************************************************************************)
(* Theorems about SyncedQueue for every number of threads, slots and       *)
(* payloads: its types, the shape of the ring, that it implements the      *)
(* abstract bounded queue Fifo, and that no wakeup is lost.                *)
(***************************************************************************)
EXTENDS SyncedQueue, SequenceTheorems, FiniteSetTheorems, TLAPS

USE SlotCountAssumption, ThreadAssumption, NullAssumption DEF Threads, Slots

-----------------------------------------------------------------------------
(***************************************************************************)
(* The inductive invariant.                                                *)
(***************************************************************************)

\* Only the owner of the mutex is between lock and unlock.
MutexInv == \A t \in Threads : pc[t] \in {"locked", "ready"} => mut = t

\* What each thread knows from its own program point.
CallInv ==
    /\ \A p \in Producers : (payload[p] # NULL) <=> (pc[p] \in {"lock", "locked", "ready", "asleep"})
    /\ \A c \in Consumers : pc[c] \in {"lock", "locked", "ready", "asleep"} => payload[c] = NULL
    /\ \A p \in Producers : pc[p] = "ready" => slots[next] = NULL
    /\ \A c \in Consumers : pc[c] = "ready" => slots[current] # NULL

SleepInv == \A t \in cv_is_empty \cup cv_is_full : pc[t] = "asleep"

IInv == TypeOK /\ MutexInv /\ CallInv /\ SleepInv /\ RingInv

-----------------------------------------------------------------------------
(***************************************************************************)
(* Arithmetic of the ring.                                                 *)
(***************************************************************************)

\* The indices wrap at most once.
LEMMA ModOnce == \A x \in 0 .. 2 * SlotCount - 1 :
                    x % SlotCount = IF x < SlotCount THEN x ELSE x - SlotCount
  BY SMT

\* What both operations do to their index.
LEMMA Successor ==
  ASSUME NEW i \in Slots
  PROVE  (i + 1) % SlotCount = IF i + 1 < SlotCount THEN i + 1 ELSE 0
  BY SMT

\* Index, without the modulus.
LEMMA IndexOnce ==
  ASSUME current \in Slots, NEW k \in 0 .. SlotCount
  PROVE  Index(k) = IF current + k < SlotCount THEN current + k
                    ELSE current + k - SlotCount
<1>1. current + k \in 0 .. 2 * SlotCount - 1
  OBVIOUS
<1> QED  BY <1>1, ModOnce DEF Index

\* Going round from current stays in the ring.
LEMMA IndexInSlots ==
  ASSUME current \in Slots, NEW k \in 0 .. SlotCount
  PROVE  Index(k) \in Slots
  BY IndexOnce

\* Different distances from current are different slots.
LEMMA IndexInjective ==
  ASSUME current \in Slots, NEW j \in Slots, NEW k \in Slots, Index(j) = Index(k)
  PROVE  j = k
<1>1. j \in 0 .. SlotCount /\ k \in 0 .. SlotCount
  OBVIOUS
<1> QED  BY <1>1, IndexOnce

\* Every slot is at some distance from current.
LEMMA IndexOnto ==
  ASSUME current \in Slots, NEW i \in Slots
  PROVE  \E k \in Slots : Index(k) = i
<1> DEFINE k == IF i < current THEN i + SlotCount - current ELSE i - current
<1>1. k \in Slots /\ k \in 0 .. SlotCount
  OBVIOUS
<1>2. Index(k) = i
  BY <1>1, IndexOnce
<1> QED  BY <1>1, <1>2

\* The ring holds no more than it has slots.
LEMMA HeldInRange ==
  ASSUME TypeOK
  PROVE  Held \in 0 .. SlotCount
  BY DEF TypeOK, Held

\* It is empty if its first slot is.
LEMMA HeldZero ==
  ASSUME TypeOK
  PROVE  (Held = 0) <=> (slots[current] = NULL)
  BY DEF TypeOK, Held

\* next points at a free slot only when the ring is not full.
LEMMA RoomWhenNextFree ==
  ASSUME TypeOK, RingInv, slots[next] = NULL
  PROVE  Held \in Slots
<1>1. Held \in 0 .. SlotCount
  BY HeldInRange
<1>2. ASSUME Held = SlotCount PROVE FALSE
  <2>1. next = current
    BY <1>2, IndexOnce DEF RingInv, TypeOK
  <2> QED  BY <1>2, <2>1, HeldZero
<1> QED  BY <1>1, <1>2

-----------------------------------------------------------------------------
(***************************************************************************)
(* The two steps that change the ring.                                     *)
(***************************************************************************)

\* A store in a free slot adds one payload at the far end.
LEMMA StoreRing ==
  ASSUME TypeOK, TypeOK', RingInv, slots[next] = NULL,
         NEW v \in Payloads, slots' = [slots EXCEPT ![next] = v],
         next' = (next + 1) % SlotCount, current' = current
  PROVE  /\ Held \in Slots
         /\ Held' = Held + 1
         /\ RingInv'
         /\ \A k \in Slots : slots'[Index(k)] = IF k = Held THEN v ELSE slots[Index(k)]
<1>1. Held \in Slots
  BY RoomWhenNextFree
<1>2. next' = IF next + 1 < SlotCount THEN next + 1 ELSE 0
  <2>1. next \in Slots
    BY DEF TypeOK
  <2> QED  BY <2>1, Successor
<1>3. next = IF current + Held < SlotCount THEN current + Held
             ELSE current + Held - SlotCount
  BY <1>1, IndexOnce DEF TypeOK, RingInv
<1>4. Held' = Held + 1
  <2>1. slots'[current] # NULL
    <3>1. CASE next = current
      BY <3>1 DEF TypeOK
    <3>2. CASE next # current
      <4>1. Held # 0
        BY <3>2, <1>3 DEF TypeOK
      <4> QED  BY <3>2, <4>1, HeldZero DEF TypeOK
    <3> QED  BY <3>1, <3>2
  <2>2. Held' = IF current < next' THEN next' - current ELSE next' + SlotCount - current
    BY <2>1 DEF Held
  <2> QED  BY <1>1, <1>2, <1>3, <2>2 DEF TypeOK
<1>5. \A k \in Slots : slots'[Index(k)] = IF k = Held THEN v ELSE slots[Index(k)]
  <2> TAKE k \in Slots
  <2>1. Index(k) \in Slots
    BY SMTT(30), IndexInSlots DEF TypeOK
  <2>2. (Index(k) = next) <=> (k = Held)
    BY <1>1, IndexInjective DEF TypeOK, RingInv
  <2> QED  BY <2>1, <2>2 DEF TypeOK
<1>6. \A k \in 0 .. SlotCount : Index(k)' = Index(k)
  BY DEF Index
<1>7. next' = Index(Held + 1)
  <2>1. Held + 1 \in 0 .. SlotCount /\ current \in Slots
    BY <1>1 DEF TypeOK
  <2>2. Index(Held + 1) = IF current + (Held + 1) < SlotCount THEN current + (Held + 1)
                          ELSE current + (Held + 1) - SlotCount
    BY <2>1, IndexOnce
  <2> QED  BY <1>1, <1>2, <1>3, <2>1, <2>2
<1>8. RingInv'
  <2>1. next' = Index(Held)'
    BY <1>4, <1>7 DEF Index
  <2>2. ASSUME NEW k \in Slots
        PROVE  (slots'[Index(k)'] # NULL) <=> (k < Held')
    <3>1. Index(k)' = Index(k)
      BY <1>6
    <3>2. (slots[Index(k)] # NULL) <=> (k < Held)
      BY DEF RingInv
    <3> QED  BY <1>1, <1>4, <1>5, <3>1, <3>2
  <2> QED  BY <2>1, <2>2 DEF RingInv
<1> QED  BY <1>1, <1>4, <1>5, <1>8

\* Taking the payload at current removes the oldest one.
LEMMA TakeRing ==
  ASSUME TypeOK, TypeOK', RingInv, slots[current] # NULL,
         slots' = [slots EXCEPT ![current] = NULL],
         current' = (current + 1) % SlotCount, next' = next
  PROVE  /\ Held \in 1 .. SlotCount
         /\ Held' = Held - 1
         /\ RingInv'
         /\ slots[Index(0)] = slots[current]
         /\ \A k \in Slots : k + 1 < Held => slots'[Index(k)'] = slots[Index(k + 1)]
<1>1. Held \in 1 .. SlotCount
  BY HeldInRange, HeldZero
<1>2. current' = IF current + 1 < SlotCount THEN current + 1 ELSE 0
  <2>1. current \in Slots
    BY DEF TypeOK
  <2> QED  BY <2>1, Successor
<1>3. next = IF current + Held < SlotCount THEN current + Held
             ELSE current + Held - SlotCount
  BY <1>1, IndexOnce DEF TypeOK, RingInv
<1>4. Index(0) = current
  BY IndexOnce DEF TypeOK
<1>5. \A k \in Slots : Index(k)' = IF k + 1 < SlotCount THEN Index(k + 1) ELSE current
  <2> TAKE k \in Slots
  <2>1. current' \in Slots /\ k \in 0 .. SlotCount /\ k + 1 \in 0 .. SlotCount
    BY DEF TypeOK
  <2>2. Index(k)' = IF current' + k < SlotCount THEN current' + k
                    ELSE current' + k - SlotCount
    <3>1. current' + k \in 0 .. 2 * SlotCount - 1
      BY <2>1
    <3>2. Index(k)' = (current' + k) % SlotCount
      BY DEF Index
    <3> QED  BY SMTT(30), <3>1, <3>2, ModOnce
  <2>3. Index(k + 1) = IF current + (k + 1) < SlotCount THEN current + (k + 1)
                       ELSE current + (k + 1) - SlotCount
    BY <2>1, IndexOnce DEF TypeOK
  <2> QED  BY <1>2, <2>2, <2>3 DEF TypeOK
<1>6. \A k \in Slots : k + 1 < SlotCount =>
         /\ k + 1 \in Slots
         /\ Index(k + 1) # current
         /\ Index(k + 1) \in Slots
  <2> SUFFICES ASSUME NEW k \in Slots, k + 1 < SlotCount
               PROVE  k + 1 \in Slots /\ Index(k + 1) # current /\ Index(k + 1) \in Slots
    OBVIOUS
  <2>1. k + 1 \in Slots /\ k + 1 \in 0 .. SlotCount
    OBVIOUS
  <2>2. Index(k + 1) \in Slots
    BY <2>1, IndexInSlots DEF TypeOK
  <2>3. Index(k + 1) # current
    BY <2>1, IndexOnce DEF TypeOK
  <2> QED  BY <2>1, <2>2, <2>3
<1>7. \A k \in Slots : slots'[Index(k)'] =
         IF k + 1 < SlotCount THEN slots[Index(k + 1)] ELSE NULL
  BY <1>5, <1>6 DEF TypeOK
<1>8. Held' = Held - 1
  <2>1. CASE SlotCount = 1
    <3>1. slots'[current'] = NULL /\ Held = 1
      BY <1>1, <1>2, <2>1 DEF TypeOK
    <3> QED  BY <3>1 DEF Held
  <2>2. CASE SlotCount # 1
    <3>1. 0 \in Slots /\ 1 \in Slots /\ 0 + 1 < SlotCount
      BY <2>2
    <3>2. Index(0)' = current'
      BY <1>2, <1>4, <1>5, <3>1, IndexOnce DEF TypeOK
    <3>3. slots'[current'] = slots[Index(1)]
      BY <1>7, <3>1, <3>2
    <3>4. (slots[Index(1)] # NULL) <=> (1 < Held)
      BY <3>1 DEF RingInv
    <3>5. CASE Held = 1
      BY <3>3, <3>4, <3>5 DEF Held
    <3>6. CASE Held # 1
      <4>1. slots'[current'] # NULL
        BY <1>1, <3>3, <3>4, <3>6
      <4>2. Held' = IF current' < next THEN next - current' ELSE next + SlotCount - current'
        BY <4>1 DEF Held
      <4>3. current \in Slots /\ next \in Slots /\ Held \in 2 .. SlotCount
        BY <1>1, <3>6 DEF TypeOK
      <4> QED  BY <1>2, <1>3, <4>2, <4>3
    <3> QED  BY <3>5, <3>6
  <2> QED  BY <2>1, <2>2
<1>9. RingInv'
  <2>1. next' = Index(Held)'
    <3>1. Held - 1 \in Slots
      BY <1>1
    <3>2. Index(Held)' = IF Held < SlotCount THEN Index(Held) ELSE current
      <4>1. Index(Held)' = (current' + (Held - 1)) % SlotCount
        BY <1>8 DEF Index
      <4>2. current' + (Held - 1) \in 0 .. 2 * SlotCount - 1
        BY <1>2, <3>1 DEF TypeOK
      <4>3. Index(Held) = IF current + Held < SlotCount THEN current + Held
                          ELSE current + Held - SlotCount
        BY <1>1, IndexOnce DEF TypeOK
      <4> DEFINE x == current' + (Held - 1)
      <4>4. x % SlotCount = IF x < SlotCount THEN x ELSE x - SlotCount
        <5>1. x \in 0 .. 2 * SlotCount - 1
          BY <4>2
        <5> HIDE DEF x
        <5> QED  BY <5>1, ModOnce
      <4>5. current \in Slots
        BY DEF TypeOK
      <4>6. Index(Held)' = IF x < SlotCount THEN x ELSE x - SlotCount
        BY <4>1, <4>4
      <4>7. x = IF current + 1 < SlotCount THEN current + Held ELSE current + Held - SlotCount
        BY <1>1, <1>2, <4>5
      <4> HIDE DEF x
      <4>8. CASE Held < SlotCount
        BY <1>1, <4>3, <4>5, <4>6, <4>7, <4>8
      <4>9. CASE ~ (Held < SlotCount)
        BY <1>1, <4>5, <4>6, <4>7, <4>9
      <4> QED  BY <4>8, <4>9
    <3> QED  BY <1>1, <1>3, <3>2, IndexOnce DEF TypeOK
  <2>2. ASSUME NEW k \in Slots
        PROVE  (slots'[Index(k)'] # NULL) <=> (k < Held')
    <3>1. CASE k + 1 < SlotCount
      <4>1. (slots[Index(k + 1)] # NULL) <=> (k + 1 < Held)
        BY <1>6, <3>1 DEF RingInv
      <4> QED  BY <1>1, <1>7, <1>8, <3>1, <4>1
    <3>2. CASE ~ (k + 1 < SlotCount)
      BY <1>1, <1>7, <1>8, <3>2
    <3> QED  BY <3>1, <3>2
  <2> QED  BY <2>1, <2>2 DEF RingInv
<1>10. \A k \in Slots : k + 1 < Held => slots'[Index(k)'] = slots[Index(k + 1)]
  BY <1>1, <1>7
<1> QED  BY <1>1, <1>4, <1>8, <1>9, <1>10

-----------------------------------------------------------------------------
(***************************************************************************)
(* The invariant is inductive.                                             *)
(***************************************************************************)

\* The queue starts empty, with nobody in it.
LEMMA InitInv == Init => IInv
<1> SUFFICES ASSUME Init PROVE IInv
  OBVIOUS
<1>1. TypeOK
  BY DEF Init, TypeOK, PC
<1>2. MutexInv /\ CallInv /\ SleepInv
  BY DEF Init, MutexInv, CallInv, SleepInv
<1>3. RingInv
  <2>1. Held = 0
    BY DEF Init, Held
  <2>2. next = Index(0)
    BY IndexOnce DEF Init
  <2>3. \A k \in Slots : slots[Index(k)] = NULL
    BY IndexInSlots DEF Init
  <2> QED  BY <2>1, <2>2, <2>3 DEF RingInv
<1> QED  BY <1>1, <1>2, <1>3 DEF IInv

\* Steps that leave slots and both indices alone.
LEMMA QuietRing ==
  ASSUME RingInv, UNCHANGED <<slots, current, next>>
  PROVE  RingInv' /\ Held' = Held /\ Items' = Items
<1>1. Held' = Held
  BY DEF Held
<1>2. \A k : Index(k)' = Index(k)
  BY DEF Index
<1> QED  BY <1>1, <1>2 DEF RingInv, Items

\* Every step of every thread keeps the invariant.
LEMMA NextInv == IInv /\ [Next]_vars => IInv'
<1> SUFFICES ASSUME IInv, [Next]_vars PROVE IInv'
  OBVIOUS
<1> USE DEF IInv
<1>1. ASSUME NEW t \in Threads, Lock(t) PROVE IInv'
  <2>1. TypeOK'
    BY <1>1 DEF TypeOK, PC, Lock, Goto
  <2>2. MutexInv' /\ CallInv' /\ SleepInv'
    BY <1>1 DEF TypeOK, Lock, Goto, MutexInv, CallInv, SleepInv
  <2> QED  BY <1>1, <2>1, <2>2, QuietRing DEF Lock
<1>2. ASSUME NEW p \in Producers, NEW v \in Payloads \cup {NULL}, Enqueue(p, v) PROVE IInv'
  <2>1. TypeOK'
    BY <1>2 DEF TypeOK, PC, Enqueue, Goto
  <2>2. MutexInv' /\ CallInv' /\ SleepInv'
    BY <1>2 DEF TypeOK, Enqueue, Goto, MutexInv, CallInv, SleepInv
  <2> QED  BY <1>2, <2>1, <2>2, QuietRing DEF Enqueue
<1>3. ASSUME NEW p \in Producers, EnqueueWait(p) PROVE IInv'
  <2>1. TypeOK'
    BY <1>3 DEF TypeOK, PC, EnqueueWait, Goto
  <2>2. MutexInv' /\ CallInv' /\ SleepInv'
    BY <1>3 DEF TypeOK, EnqueueWait, Goto, MutexInv, CallInv, SleepInv
  <2> QED  BY <1>3, <2>1, <2>2, QuietRing DEF EnqueueWait
<1>4. ASSUME NEW p \in Producers, EnqueueTest(p) PROVE IInv'
  <2>1. TypeOK'
    BY <1>4 DEF TypeOK, PC, EnqueueTest, Goto
  <2>2. MutexInv' /\ CallInv' /\ SleepInv'
    BY <1>4 DEF TypeOK, EnqueueTest, Goto, MutexInv, CallInv, SleepInv
  <2> QED  BY <1>4, <2>1, <2>2, QuietRing DEF EnqueueTest
<1>5. ASSUME NEW p \in Producers, EnqueueStore(p) PROVE IInv'
  <2>1. payload[p] \in Payloads /\ slots[next] = NULL
    BY <1>5 DEF EnqueueStore, CallInv, TypeOK
  <2>2. TypeOK'
    <3>1. next' \in Slots
      BY <1>5, Successor DEF EnqueueStore, TypeOK
    <3>2. slots' \in [Slots -> Payloads \cup {NULL}]
      BY <1>5, <2>1 DEF EnqueueStore, TypeOK
    <3> QED  BY <1>5, <3>1, <3>2 DEF TypeOK, PC, EnqueueStore, Goto
  <2>3. MutexInv' /\ CallInv' /\ SleepInv'
    <3>1. MutexInv' /\ SleepInv'
      BY <1>5 DEF TypeOK, EnqueueStore, Goto, MutexInv, SleepInv
    <3>2. \A t \in Threads : pc'[t] # "ready"
      BY <1>5 DEF TypeOK, EnqueueStore, Goto, MutexInv
    <3> QED  BY <1>5, <3>1, <3>2 DEF TypeOK, EnqueueStore, Goto, CallInv
  <2>4. RingInv'
    BY <1>5, <2>1, <2>2, StoreRing DEF EnqueueStore
  <2> QED  BY <2>2, <2>3, <2>4
<1>6. ASSUME NEW p \in Producers, EnqueueSignal(p) PROVE IInv'
  <2>1. TypeOK'
    BY <1>6 DEF TypeOK, PC, EnqueueSignal, Goto
  <2>2. MutexInv' /\ CallInv' /\ SleepInv'
    BY <1>6 DEF TypeOK, EnqueueSignal, Goto, MutexInv, CallInv, SleepInv
  <2> QED  BY <1>6, <2>1, <2>2, QuietRing DEF EnqueueSignal
<1>7. ASSUME NEW c \in Consumers, Dequeue(c) PROVE IInv'
  <2>1. TypeOK'
    BY <1>7 DEF TypeOK, PC, Dequeue, Goto
  <2>2. MutexInv' /\ CallInv' /\ SleepInv'
    BY <1>7 DEF TypeOK, Dequeue, Goto, MutexInv, CallInv, SleepInv
  <2> QED  BY <1>7, <2>1, <2>2, QuietRing DEF Dequeue
<1>8. ASSUME NEW c \in Consumers, DequeueWait(c) PROVE IInv'
  <2>1. TypeOK'
    BY <1>8 DEF TypeOK, PC, DequeueWait, Goto
  <2>2. MutexInv' /\ CallInv' /\ SleepInv'
    BY <1>8 DEF TypeOK, DequeueWait, Goto, MutexInv, CallInv, SleepInv
  <2> QED  BY <1>8, <2>1, <2>2, QuietRing DEF DequeueWait
<1>9. ASSUME NEW c \in Consumers, DequeueTest(c) PROVE IInv'
  <2>1. TypeOK'
    BY <1>9 DEF TypeOK, PC, DequeueTest, Goto
  <2>2. MutexInv' /\ CallInv' /\ SleepInv'
    BY <1>9 DEF TypeOK, DequeueTest, Goto, MutexInv, CallInv, SleepInv
  <2> QED  BY <1>9, <2>1, <2>2, QuietRing DEF DequeueTest
<1>10. ASSUME NEW c \in Consumers, DequeueTake(c) PROVE IInv'
  <2>1. slots[current] # NULL
    BY <1>10 DEF DequeueTake, CallInv
  <2>2. TypeOK'
    <3>1. current' \in Slots
      BY <1>10, Successor DEF DequeueTake, TypeOK
    <3> QED  BY <1>10, <3>1 DEF TypeOK, PC, DequeueTake, Goto
  <2>3. MutexInv' /\ CallInv' /\ SleepInv'
    <3>1. MutexInv' /\ SleepInv'
      BY <1>10 DEF TypeOK, DequeueTake, Goto, MutexInv, SleepInv
    <3>2. \A t \in Threads : pc'[t] # "ready"
      BY <1>10 DEF TypeOK, DequeueTake, Goto, MutexInv
    <3> QED  BY <1>10, <3>1, <3>2 DEF TypeOK, DequeueTake, Goto, CallInv
  <2>4. RingInv'
    BY <1>10, <2>1, <2>2, TakeRing DEF DequeueTake
  <2> QED  BY <2>2, <2>3, <2>4
<1>11. ASSUME NEW c \in Consumers, DequeueSignal(c) PROVE IInv'
  <2>1. TypeOK'
    BY <1>11 DEF TypeOK, PC, DequeueSignal, Goto
  <2>2. MutexInv' /\ CallInv' /\ SleepInv'
    BY <1>11 DEF TypeOK, DequeueSignal, Goto, MutexInv, CallInv, SleepInv
  <2> QED  BY <1>11, <2>1, <2>2, QuietRing DEF DequeueSignal
<1>12. ASSUME NEW t \in Threads, SpuriousWakeup(t) PROVE IInv'
  <2>1. TypeOK'
    BY <1>12 DEF TypeOK, PC, SpuriousWakeup, Goto
  <2>2. MutexInv' /\ CallInv' /\ SleepInv'
    BY <1>12 DEF TypeOK, SpuriousWakeup, Goto, MutexInv, CallInv, SleepInv
  <2> QED  BY <1>12, <2>1, <2>2, QuietRing DEF SpuriousWakeup
<1>13. CASE UNCHANGED vars
  <2>1. TypeOK' /\ MutexInv' /\ CallInv' /\ SleepInv'
    BY <1>13 DEF vars, TypeOK, MutexInv, CallInv, SleepInv
  <2> QED  BY <1>13, <2>1, QuietRing DEF vars
<1> QED
  BY <1>1, <1>2, <1>3, <1>4, <1>5, <1>6, <1>7, <1>8, <1>9, <1>10, <1>11, <1>12, <1>13
  DEF Next, RunProducer, RunConsumer

-----------------------------------------------------------------------------
(***************************************************************************)
(* Refinement.                                                             *)
(***************************************************************************)

\* The occupied slots are a sequence of payloads.
LEMMA ItemsSeq ==
  ASSUME TypeOK, RingInv
  PROVE  /\ Items \in Seq(Payloads)
         /\ Len(Items) = Held
         /\ \A k \in 1 .. Held : Items[k] = slots[Index(k - 1)]
<1>1. Held \in 0 .. SlotCount
  BY HeldInRange
<1>2. \A k \in 1 .. Held : slots[Index(k - 1)] \in Payloads
  <2> TAKE k \in 1 .. Held
  <2>1. k - 1 \in Slots /\ k - 1 \in 0 .. SlotCount /\ k - 1 < Held
    BY <1>1
  <2>2. Index(k - 1) \in Slots
    BY <2>1, IndexInSlots DEF TypeOK
  <2>3. slots[Index(k - 1)] # NULL
    BY <2>1 DEF RingInv
  <2> QED  BY <2>2, <2>3 DEF TypeOK
<1>3. Items \in [1 .. Held -> Payloads]
  BY <1>2 DEF Items
<1>4. Items \in Seq(Payloads)
  BY <1>1, <1>3, SeqDef
<1>5. Len(Items) = Held
  BY <1>1, <1>3, <1>4, LenProperties
<1> QED  BY <1>4, <1>5 DEF Items

\* A store appends its payload to what the ring stands for.
LEMMA StoreAppends ==
  ASSUME TypeOK, TypeOK', RingInv, slots[next] = NULL,
         NEW v \in Payloads, slots' = [slots EXCEPT ![next] = v],
         next' = (next + 1) % SlotCount, current' = current
  PROVE  Items' = Append(Items, v) /\ Len(Items) < SlotCount
<1>1. /\ Held \in Slots
      /\ Held' = Held + 1
      /\ RingInv'
      /\ \A k \in Slots : slots'[Index(k)] = IF k = Held THEN v ELSE slots[Index(k)]
  BY StoreRing
<1>2. /\ Items \in Seq(Payloads)
      /\ Len(Items) = Held
      /\ \A k \in 1 .. Held : Items[k] = slots[Index(k - 1)]
  BY ItemsSeq
<1>3. Items' = [k \in 1 .. Held + 1 |-> slots'[Index(k - 1)]]
  BY <1>1 DEF Items, Index
<1>4. \A k \in 1 .. Held + 1 : slots'[Index(k - 1)] = IF k = Held + 1 THEN v ELSE Items[k]
  <2> TAKE k \in 1 .. Held + 1
  <2>1. k - 1 \in Slots /\ (k - 1 = Held <=> k = Held + 1) /\ (k # Held + 1 => k \in 1 .. Held)
    BY <1>1
  <2> QED  BY <1>1, <1>2, <2>1
<1>5. Items' = [k \in 1 .. Held + 1 |-> IF k = Held + 1 THEN v ELSE Items[k]]
  BY <1>3, <1>4
<1>6. Items' \in Seq(Payloads) /\ Len(Items') = Held + 1
  <2>1. Items' \in [1 .. Held + 1 -> Payloads]
    <3>1. \A k \in 1 .. Held : Items[k] \in Payloads
      BY <1>2, ElementOfSeq
    <3> QED  BY <1>1, <1>5, <3>1
  <2>2. Held + 1 \in Nat
    BY <1>1
  <2>3. Items' \in Seq(Payloads)
    BY <2>1, <2>2, SeqDef
  <2> QED  BY <2>1, <2>2, <2>3, LenProperties
<1>7. /\ Append(Items, v) \in Seq(Payloads)
      /\ Len(Append(Items, v)) = Held + 1
      /\ \A k \in 1 .. Held : Append(Items, v)[k] = Items[k]
      /\ Append(Items, v)[Held + 1] = v
  <2>1. \A s \in Seq(Payloads) :
           /\ Append(s, v) \in Seq(Payloads)
           /\ Len(Append(s, v)) = Len(s) + 1
           /\ \A k \in 1 .. Len(s) : Append(s, v)[k] = s[k]
           /\ Append(s, v)[Len(s) + 1] = v
    BY AppendProperties
  <2> QED  BY <1>2, <2>1
<1>8. \A k \in 1 .. Held + 1 : Items'[k] = Append(Items, v)[k]
  BY <1>1, <1>5, <1>7
<1>9. Items' = Append(Items, v)
  BY <1>6, <1>7, <1>8, SeqEqual
<1> QED  BY <1>1, <1>2, <1>9

\* A take removes the head of what the ring stands for.
LEMMA TakeRemovesHead ==
  ASSUME TypeOK, TypeOK', RingInv, slots[current] # NULL,
         slots' = [slots EXCEPT ![current] = NULL],
         current' = (current + 1) % SlotCount, next' = next
  PROVE  /\ Items # <<>>
         /\ Head(Items) = slots[current]
         /\ Items' = Tail(Items)
<1>1. /\ Held \in 1 .. SlotCount
      /\ Held' = Held - 1
      /\ RingInv'
      /\ slots[Index(0)] = slots[current]
      /\ \A k \in Slots : k + 1 < Held => slots'[Index(k)'] = slots[Index(k + 1)]
  BY TakeRing
<1>2. /\ Items \in Seq(Payloads)
      /\ Len(Items) = Held
      /\ \A k \in 1 .. Held : Items[k] = slots[Index(k - 1)]
  BY ItemsSeq
<1>3. /\ Items' \in Seq(Payloads)
      /\ Len(Items') = Held'
      /\ \A k \in 1 .. Held' : Items'[k] = slots'[Index(k - 1)']
  <2>1. (TypeOK /\ RingInv =>
           /\ Items \in Seq(Payloads)
           /\ Len(Items) = Held
           /\ \A k \in 1 .. Held : Items[k] = slots[Index(k - 1)])'
    BY ItemsSeq, PTL
  <2> QED  BY <1>1, <2>1
<1>4. Items # <<>>
  BY <1>1, <1>2, EmptySeq
<1>5. Head(Items) = slots[current]
  <2>1. Items[1] = slots[Index(0)]
    BY <1>1, <1>2
  <2> QED  BY <1>1, <1>2, <1>4, <2>1
<1>6. /\ Tail(Items) \in Seq(Payloads)
      /\ Len(Tail(Items)) = Held - 1
      /\ \A k \in 1 .. Held - 1 : Tail(Items)[k] = Items[k + 1]
  BY <1>2, <1>4, HeadTailProperties
<1>7. \A k \in 1 .. Held - 1 : Items'[k] = Tail(Items)[k]
  <2> TAKE k \in 1 .. Held - 1
  <2>1. k - 1 \in Slots /\ (k - 1) + 1 = k /\ k < Held /\ k + 1 \in 1 .. Held /\ (k + 1) - 1 = k
    BY <1>1
  <2>2. Items'[k] = slots'[Index(k - 1)']
    BY <1>1, <1>3
  <2>3. slots'[Index(k - 1)'] = slots[Index(k)]
    BY <1>1, <2>1
  <2>4. Items[k + 1] = slots[Index(k)]
    BY <1>2, <2>1
  <2> QED  BY <1>6, <2>2, <2>3, <2>4
<1>8. Items' = Tail(Items)
  BY <1>1, <1>3, <1>6, <1>7, SeqEqual
<1> QED  BY <1>4, <1>5, <1>8

\* Every variable keeps its type in every behaviour.
THEOREM TypeCorrect == Spec => []TypeOK
<1>1. IInv => TypeOK
  BY DEF IInv
<1> QED  BY InitInv, NextInv, <1>1, PTL DEF Spec

\* In every behaviour the used slots run from current up to next: testing one
\* slot (shared.c 324, 339) decides whether the whole ring is full or empty.
THEOREM RingShape == Spec => []RingInv
<1>1. IInv => RingInv
  BY DEF IInv
<1> QED  BY InitInv, NextInv, <1>1, PTL DEF Spec

\* The empty ring is the empty queue.
LEMMA InitRefines == Init => Queue!Init
<1> SUFFICES ASSUME Init PROVE Queue!Init
  OBVIOUS
<1>1. Items = <<>>
  <2>1. IInv
    BY InitInv
  <2>2. Items \in Seq(Payloads) /\ Len(Items) = Held
    BY <2>1, ItemsSeq DEF IInv
  <2>3. Held = 0
    BY DEF Init, Held
  <2> QED  BY <2>2, <2>3, EmptySeq
<1> QED  BY <1>1 DEF Init, Queue!Init

\* A change of one producer's (consumer's) payload is a change of the mapped
\* variable at that producer (consumer) and leaves the other one alone.
LEMMA MapProducer ==
  ASSUME TypeOK, NEW p \in Producers, NEW v, payload' = [payload EXCEPT ![p] = v]
  PROVE  /\ [q \in Producers |-> payload'[q]] = [[q \in Producers |-> payload[q]] EXCEPT ![p] = v]
         /\ [c \in Consumers |-> payload'[c]] = [c \in Consumers |-> payload[c]]
<1>1. \A q \in Producers : payload'[q] = IF q = p THEN v ELSE payload[q]
  BY DEF TypeOK
<1>2. \A c \in Consumers : payload'[c] = payload[c]
  BY DEF TypeOK
<1> QED  BY <1>1, <1>2

\* The same for a consumer's payload.
LEMMA MapConsumer ==
  ASSUME TypeOK, NEW c \in Consumers, NEW v, payload' = [payload EXCEPT ![c] = v]
  PROVE  /\ [d \in Consumers |-> payload'[d]] = [[d \in Consumers |-> payload[d]] EXCEPT ![c] = v]
         /\ [p \in Producers |-> payload'[p]] = [p \in Producers |-> payload[p]]
<1>1. \A d \in Consumers : payload'[d] = IF d = c THEN v ELSE payload[d]
  BY DEF TypeOK
<1>2. \A p \in Producers : payload'[p] = payload[p]
  BY DEF TypeOK
<1> QED  BY <1>1, <1>2

\* Every step of the ring is one of the queue or none.
LEMMA NextRefines == IInv /\ IInv' /\ [Next]_vars => [Queue!Next]_(Queue!vars)
<1> SUFFICES ASSUME IInv, IInv', [Next]_vars
             PROVE  Queue!Next \/ UNCHANGED Queue!vars
  OBVIOUS
<1>1. ASSUME UNCHANGED <<slots, current, next, payload>>
      PROVE  UNCHANGED Queue!vars
  BY <1>1, QuietRing DEF IInv, Queue!vars
<1>2. ASSUME NEW p \in Producers, NEW v \in Payloads \cup {NULL}, Enqueue(p, v)
      PROVE  Queue!Next \/ UNCHANGED Queue!vars
  <2>1. CASE v = NULL
    BY <1>1, <1>2, <2>1 DEF Enqueue
  <2>2. CASE v # NULL
    <3>1. payload[p] = NULL
      BY <1>2 DEF Enqueue, IInv, CallInv
    <3>2. Items' = Items
      BY <1>2, QuietRing DEF Enqueue, IInv
    <3>3. Queue!Call(p, v)
      BY <1>2, <2>2, <3>1, <3>2, MapProducer DEF Enqueue, Queue!Call, IInv
    <3> QED  BY <2>2, <3>3 DEF Queue!Next
  <2> QED  BY <2>1, <2>2
<1>3. ASSUME NEW p \in Producers, EnqueueStore(p)
      PROVE  Queue!Next
  <2>1. payload[p] \in Payloads /\ slots[next] = NULL
    BY <1>3 DEF EnqueueStore, IInv, CallInv, TypeOK
  <2>2. Items' = Append(Items, payload[p]) /\ Len(Items) < SlotCount
    BY <1>3, <2>1, StoreAppends DEF EnqueueStore, IInv
  <2>3. Queue!Put(p)
    BY <1>3, <2>1, <2>2, MapProducer DEF EnqueueStore, Queue!Put, IInv
  <2> QED  BY <2>3 DEF Queue!Next
<1>4. ASSUME NEW c \in Consumers, Dequeue(c)
      PROVE  Queue!Next \/ UNCHANGED Queue!vars
  <2>1. CASE payload[c] = NULL
    <3>1. payload' = payload
      BY <1>4, <2>1 DEF Dequeue, IInv, TypeOK
    <3> QED  BY <1>1, <1>4, <3>1 DEF Dequeue
  <2>2. CASE payload[c] # NULL
    <3>1. Items' = Items
      BY <1>4, QuietRing DEF Dequeue, IInv
    <3>2. Queue!Release(c)
      BY <1>4, <2>2, <3>1, MapConsumer DEF Dequeue, Queue!Release, IInv
    <3> QED  BY <3>2 DEF Queue!Next
  <2> QED  BY <2>1, <2>2
<1>5. ASSUME NEW c \in Consumers, DequeueTake(c)
      PROVE  Queue!Next
  <2>1. payload[c] = NULL /\ slots[current] # NULL
    BY <1>5 DEF DequeueTake, IInv, CallInv
  <2>2. Items # <<>> /\ Head(Items) = slots[current] /\ Items' = Tail(Items)
    BY <1>5, <2>1, TakeRemovesHead DEF DequeueTake, IInv
  <2>3. Queue!Get(c)
    BY <1>5, <2>1, <2>2, MapConsumer DEF DequeueTake, Queue!Get, IInv
  <2> QED  BY <2>3 DEF Queue!Next
<1>6. ASSUME NEW t \in Threads,
             \/ Lock(t) \/ EnqueueWait(t) \/ EnqueueTest(t) \/ EnqueueSignal(t)
             \/ DequeueWait(t) \/ DequeueTest(t) \/ DequeueSignal(t) \/ SpuriousWakeup(t)
      PROVE  UNCHANGED Queue!vars
  BY <1>1, <1>6 DEF Lock, EnqueueWait, EnqueueTest, EnqueueSignal, DequeueWait,
                    DequeueTest, DequeueSignal, SpuriousWakeup
<1>7. CASE UNCHANGED vars
  BY <1>1, <1>7 DEF vars
<1> QED
  BY <1>2, <1>3, <1>4, <1>5, <1>6, <1>7 DEF Next, RunProducer, RunConsumer

\* The ring under its mutex and two condition variables implements the bounded
\* first-in first-out queue, for any number of threads, slots and payloads:
\* nothing is lost, duplicated, reordered or overwritten (shared.c 319-350).
THEOREM ImplementsFifo == Spec => RefinesFifo
<1>1. Spec => []IInv
  BY InitInv, NextInv, PTL DEF Spec
<1> QED  BY <1>1, InitRefines, NextRefines, PTL DEF Spec, Queue!Spec, RefinesFifo

-----------------------------------------------------------------------------
(***************************************************************************)
(* Wakeups.  A step moves at most two threads, each in or out of the sets  *)
(* of those that will signal and those that will look at the ring.         *)
(***************************************************************************)

\* One thread more.
LEMMA OneMore ==
  ASSUME NEW S, NEW x, IsFiniteSet(S), x \notin S
  PROVE  IsFiniteSet(S \cup {x}) /\ Cardinality(S \cup {x}) = Cardinality(S) + 1
  BY FS_AddElement

\* One thread less.
LEMMA OneLess ==
  ASSUME NEW S, NEW x, IsFiniteSet(S), x \in S
  PROVE  IsFiniteSet(S \ {x}) /\ Cardinality(S \ {x}) = Cardinality(S) - 1
  BY FS_RemoveElement

\* The sets that NoLostWakeup counts are finite.
LEMMA FiniteCounts ==
  ASSUME IsFiniteSet(Threads)
  PROVE  /\ IsFiniteSet(Signalling(Producers)) /\ Cardinality(Signalling(Producers)) \in Nat
         /\ IsFiniteSet(Signalling(Consumers)) /\ Cardinality(Signalling(Consumers)) \in Nat
         /\ IsFiniteSet(Heading(Producers)) /\ Cardinality(Heading(Producers)) \in Nat
         /\ IsFiniteSet(Heading(Consumers)) /\ Cardinality(Heading(Consumers)) \in Nat
<1>1. \A S \in SUBSET Threads : IsFiniteSet(S) /\ Cardinality(S) \in Nat
  BY FS_Subset, FS_CardinalityType
<1>2. /\ Signalling(Producers) \in SUBSET Threads /\ Signalling(Consumers) \in SUBSET Threads
      /\ Heading(Producers) \in SUBSET Threads /\ Heading(Consumers) \in SUBSET Threads
  BY DEF Signalling, Heading
<1> QED  BY <1>1, <1>2

\* A producer that finds the next slot taken sees a full ring.
LEMMA FullWhenNextTaken ==
  ASSUME TypeOK, RingInv, slots[next] # NULL
  PROVE  Held = SlotCount
<1>1. Held \in 0 .. SlotCount
  BY HeldInRange
<1>2. ASSUME Held \in Slots PROVE FALSE
  <2>1. slots[Index(Held)] = NULL
    BY <1>1, <1>2 DEF RingInv
  <2> QED  BY <2>1 DEF RingInv
<1> QED  BY <1>1, <1>2

\* Every step keeps a waker for each sleeper that has something to do.
LEMMA NextWakes ==
  ASSUME IsFiniteSet(Threads), IInv, IInv', NoLostWakeup, [Next]_vars
  PROVE  NoLostWakeup'
<1> DEFINE A == Signalling(Producers)
           B == Heading(Consumers)
           C == Signalling(Consumers)
           D == Heading(Producers)
<1> USE DEF IInv
<1>1. /\ IsFiniteSet(A) /\ IsFiniteSet(B) /\ IsFiniteSet(C) /\ IsFiniteSet(D)
      /\ Cardinality(A) \in Nat /\ Cardinality(B) \in Nat
      /\ Cardinality(C) \in Nat /\ Cardinality(D) \in Nat
      /\ Cardinality(A') \in Nat /\ Cardinality(B') \in Nat
      /\ Cardinality(C') \in Nat /\ Cardinality(D') \in Nat
  <2>1. (IsFiniteSet(Threads) =>
           /\ Cardinality(A) \in Nat /\ Cardinality(B) \in Nat
           /\ Cardinality(C) \in Nat /\ Cardinality(D) \in Nat)'
    BY FiniteCounts, PTL
  <2> QED  BY FiniteCounts, <2>1
<1>2. Held \in 0 .. SlotCount
  BY HeldInRange
<1>3. /\ cv_is_empty # {} => Held <= Cardinality(A) + Cardinality(B)
      /\ cv_is_full # {} => SlotCount - Held <= Cardinality(C) + Cardinality(D)
  BY DEF NoLostWakeup
<1> DEFINE Goal == /\ cv_is_empty' # {} => Held' <= Cardinality(A') + Cardinality(B')
                   /\ cv_is_full' # {} => SlotCount - Held' <= Cardinality(C') + Cardinality(D')
<1>4. SUFFICES Goal
  BY DEF NoLostWakeup
<1>5. ASSUME NEW t \in Threads, Lock(t) PROVE Goal
  <2>1. A' = A /\ B' = B /\ C' = C /\ D' = D
    BY <1>5 DEF Lock, Goto, TypeOK, Signalling, Heading
  <2>2. Held' = Held
    BY <1>5, QuietRing DEF Lock
  <2> QED  BY <1>5, <1>1, <1>2, <1>3, <2>1, <2>2 DEF Lock
<1>6. ASSUME NEW p \in Producers, NEW v \in Payloads \cup {NULL}, Enqueue(p, v) PROVE Goal
  <2>1. A' = A /\ B' = B /\ C' = C
    BY <1>6 DEF Enqueue, Goto, TypeOK, Signalling, Heading
  <2>2. D' = D \/ (p \notin D /\ D' = D \cup {p})
    BY <1>6 DEF Enqueue, Goto, TypeOK, Signalling, Heading
  <2>3. Held' = Held
    BY <1>6, QuietRing DEF Enqueue
  <2>4. Cardinality(D') >= Cardinality(D)
    <3>1. CASE D' = D
      BY <1>1, <3>1
    <3>2. CASE p \notin D /\ D' = D \cup {p}
      <4>1. Cardinality(D') = Cardinality(D) + 1
        BY <1>1, <3>2, OneMore
      <4> QED  BY <1>1, <4>1
    <3> QED  BY <2>2, <3>1, <3>2
  <2> QED  BY <1>6, <1>1, <1>2, <1>3, <2>1, <2>3, <2>4 DEF Enqueue
<1>7. ASSUME NEW p \in Producers, EnqueueWait(p) PROVE Goal
  <2>1. A' = A /\ B' = B
    BY <1>7 DEF EnqueueWait, Goto, TypeOK, Signalling, Heading
  <2>2. Held = SlotCount
    BY <1>7, FullWhenNextTaken DEF EnqueueWait
  <2>3. Held' = Held
    BY <1>7, QuietRing DEF EnqueueWait
  <2> QED  BY <1>7, <1>1, <1>3, <2>1, <2>2, <2>3 DEF EnqueueWait
<1>8. ASSUME NEW p \in Producers, EnqueueTest(p) PROVE Goal
  <2>1. A' = A /\ B' = B /\ C' = C /\ D' = D
    BY <1>8 DEF EnqueueTest, Goto, TypeOK, Signalling, Heading
  <2>2. Held' = Held
    BY <1>8, QuietRing DEF EnqueueTest
  <2> QED  BY <1>8, <1>1, <1>2, <1>3, <2>1, <2>2 DEF EnqueueTest
<1>9. ASSUME NEW p \in Producers, EnqueueStore(p) PROVE Goal
  <2>1. /\ p \notin A /\ A' = A \cup {p} /\ B' = B
        /\ C' = C /\ p \in D /\ D' = D \ {p}
    BY <1>9 DEF EnqueueStore, Goto, TypeOK, Signalling, Heading
  <2>2. Held' = Held + 1
    <3>1. payload[p] \in Payloads /\ slots[next] = NULL
      BY <1>9 DEF EnqueueStore, CallInv, TypeOK
    <3> QED  BY <1>9, <3>1, StoreRing DEF EnqueueStore
  <2>3. Cardinality(A') = Cardinality(A) + 1 /\ Cardinality(D') = Cardinality(D) - 1
    BY <1>1, <2>1, OneMore, OneLess
  <2> QED  BY <1>9, <1>1, <1>2, <1>3, <2>1, <2>2, <2>3 DEF EnqueueStore
<1>10. ASSUME NEW p \in Producers, EnqueueSignal(p) PROVE Goal
  <2>1. Held' = Held
    BY <1>10, QuietRing DEF EnqueueSignal
  <2>2. C' = C /\ D' = D
    BY <1>10 DEF EnqueueSignal, Goto, TypeOK, Signalling, Heading, SleepInv
  <2>3. CASE cv_is_empty = {}
    BY <1>10, <1>1, <1>3, <2>1, <2>2, <2>3 DEF EnqueueSignal
  <2>4. CASE cv_is_empty # {}
    <3>1. PICK c \in cv_is_empty : pc' = [pc EXCEPT ![p] = "idle", ![c] = "lock"]
      BY <1>10, <2>4 DEF EnqueueSignal
    <3>2. c \in Consumers /\ pc[c] = "asleep" /\ pc[p] = "signal"
      BY <1>10, <3>1 DEF TypeOK, SleepInv, EnqueueSignal
    <3>3. p \in A /\ A' = A \ {p} /\ c \notin B /\ B' = B \cup {c}
      BY <3>1, <3>2 DEF TypeOK, Signalling, Heading
    <3>4. Cardinality(A') = Cardinality(A) - 1 /\ Cardinality(B') = Cardinality(B) + 1
      BY <1>1, <3>3, OneMore, OneLess
    <3> QED  BY <1>10, <1>1, <1>2, <1>3, <2>1, <2>2, <2>4, <3>4 DEF EnqueueSignal
  <2> QED  BY <2>3, <2>4
<1>11. ASSUME NEW c \in Consumers, Dequeue(c) PROVE Goal
  <2>1. A' = A /\ c \notin B /\ B' = B \cup {c} /\ C' = C /\ D' = D
    BY <1>11 DEF Dequeue, Goto, TypeOK, Signalling, Heading
  <2>2. Held' = Held
    BY <1>11, QuietRing DEF Dequeue
  <2>3. Cardinality(B') = Cardinality(B) + 1
    BY <1>1, <2>1, OneMore
  <2> QED  BY <1>11, <1>1, <1>2, <1>3, <2>1, <2>2, <2>3 DEF Dequeue
<1>12. ASSUME NEW c \in Consumers, DequeueWait(c) PROVE Goal
  <2>1. C' = C /\ D' = D
    BY <1>12 DEF DequeueWait, Goto, TypeOK, Signalling, Heading
  <2>2. Held = 0
    BY <1>12, HeldZero DEF DequeueWait
  <2>3. Held' = Held
    BY <1>12, QuietRing DEF DequeueWait
  <2> QED  BY <1>12, <1>1, <1>3, <2>1, <2>2, <2>3 DEF DequeueWait
<1>13. ASSUME NEW c \in Consumers, DequeueTest(c) PROVE Goal
  <2>1. A' = A /\ B' = B /\ C' = C /\ D' = D
    BY <1>13 DEF DequeueTest, Goto, TypeOK, Signalling, Heading
  <2>2. Held' = Held
    BY <1>13, QuietRing DEF DequeueTest
  <2> QED  BY <1>13, <1>1, <1>2, <1>3, <2>1, <2>2 DEF DequeueTest
<1>14. ASSUME NEW c \in Consumers, DequeueTake(c) PROVE Goal
  <2>1. /\ A' = A /\ c \in B /\ B' = B \ {c}
        /\ c \notin C /\ C' = C \cup {c} /\ D' = D
    BY <1>14 DEF DequeueTake, Goto, TypeOK, Signalling, Heading
  <2>2. Held' = Held - 1
    <3>1. slots[current] # NULL
      BY <1>14 DEF DequeueTake, CallInv
    <3> QED  BY <1>14, <3>1, TakeRing DEF DequeueTake
  <2>3. Cardinality(C') = Cardinality(C) + 1 /\ Cardinality(B') = Cardinality(B) - 1
    BY <1>1, <2>1, OneMore, OneLess
  <2> QED  BY <1>14, <1>1, <1>2, <1>3, <2>1, <2>2, <2>3 DEF DequeueTake
<1>15. ASSUME NEW c \in Consumers, DequeueSignal(c) PROVE Goal
  <2>1. Held' = Held
    BY <1>15, QuietRing DEF DequeueSignal
  <2>2. A' = A /\ B' = B
    BY <1>15 DEF DequeueSignal, Goto, TypeOK, Signalling, Heading, SleepInv
  <2>3. CASE cv_is_full = {}
    BY <1>15, <1>1, <1>3, <2>1, <2>2, <2>3 DEF DequeueSignal
  <2>4. CASE cv_is_full # {}
    <3>1. PICK p \in cv_is_full : pc' = [pc EXCEPT ![c] = "idle", ![p] = "lock"]
      BY <1>15, <2>4 DEF DequeueSignal
    <3>2. p \in Producers /\ pc[p] = "asleep" /\ pc[c] = "signal"
      BY <1>15, <3>1 DEF TypeOK, SleepInv, DequeueSignal
    <3>3. c \in C /\ C' = C \ {c} /\ p \notin D /\ D' = D \cup {p}
      BY <3>1, <3>2 DEF TypeOK, Signalling, Heading
    <3>4. Cardinality(C') = Cardinality(C) - 1 /\ Cardinality(D') = Cardinality(D) + 1
      BY <1>1, <3>3, OneMore, OneLess
    <3> QED  BY <1>15, <1>1, <1>2, <1>3, <2>1, <2>2, <2>4, <3>4 DEF DequeueSignal
  <2> QED  BY <2>3, <2>4
<1>16. ASSUME NEW t \in Threads, SpuriousWakeup(t) PROVE Goal
  <2>1. Held' = Held
    BY <1>16, QuietRing DEF SpuriousWakeup
  <2>2. A' = A /\ C' = C
    BY <1>16 DEF SpuriousWakeup, Goto, TypeOK, Signalling, Heading, SleepInv
  <2>3. /\ B' = B \/ (t \notin B /\ B' = B \cup {t})
        /\ D' = D \/ (t \notin D /\ D' = D \cup {t})
    BY <1>16 DEF SpuriousWakeup, Goto, TypeOK, Signalling, Heading, SleepInv
  <2>4. Cardinality(B') >= Cardinality(B) /\ Cardinality(D') >= Cardinality(D)
    <3>1. ASSUME B' # B PROVE Cardinality(B') = Cardinality(B) + 1
      BY <1>1, <2>3, <3>1, OneMore
    <3>2. ASSUME D' # D PROVE Cardinality(D') = Cardinality(D) + 1
      BY <1>1, <2>3, <3>2, OneMore
    <3> QED  BY <1>1, <3>1, <3>2
  <2>5. (cv_is_empty' # {} => cv_is_empty # {}) /\ (cv_is_full' # {} => cv_is_full # {})
    BY <1>16 DEF SpuriousWakeup
  <2> QED  BY <1>1, <1>2, <1>3, <2>1, <2>2, <2>4, <2>5
<1>17. CASE UNCHANGED vars
  <2>1. A' = A /\ B' = B /\ C' = C /\ D' = D
    BY <1>17 DEF vars, Signalling, Heading
  <2>2. Held' = Held
    BY <1>17, QuietRing DEF vars
  <2> QED  BY <1>17, <1>3, <2>1, <2>2 DEF vars
<1> HIDE DEF Goal
<1> QED
  BY <1>5, <1>6, <1>7, <1>8, <1>9, <1>10, <1>11, <1>12, <1>13, <1>14, <1>15, <1>16, <1>17
  DEF Next, RunProducer, RunConsumer

\* In every behaviour, with any finite number of threads: while a consumer sleeps,
\* each payload in the ring has a signal to come or a consumer on its way, and
\* while a producer sleeps each free slot has, although both operations signal
\* after their unlock and wake one sleeper only (shared.c 319-350).
THEOREM WakeupsNotLost == ASSUME IsFiniteSet(Threads) PROVE Spec => []NoLostWakeup
<1>1. Init => NoLostWakeup
  BY DEF Init, NoLostWakeup
<1>2. IInv /\ IInv' /\ NoLostWakeup /\ [Next]_vars => NoLostWakeup'
  BY NextWakes
<1> QED  BY InitInv, NextInv, <1>1, <1>2, PTL DEF Spec
=============================================================================
