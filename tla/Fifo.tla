-------------------------------- MODULE Fifo --------------------------------
(***************************************************************************)
(* What jf_synced_queue promises its callers: a bounded first-in           *)
(* first-out queue shared by producers and consumers.  A call, the moment  *)
(* it takes effect and the return are separate steps, so an implementation *)
(* may interleave calls freely as long as each takes effect once, between  *)
(* its call and its return.                                                *)
(***************************************************************************)
EXTENDS Naturals, Sequences

CONSTANTS Producers, Consumers, Capacity, Payloads, NULL

VARIABLES
    items,      \* what is in the queue, oldest first
    pending,    \* per producer: the payload of a call not yet in effect
    taken       \* per consumer: the payload its last call obtained

vars == <<items, pending, taken>>

Init ==
    /\ items = <<>>
    /\ pending = [p \in Producers |-> NULL]
    /\ taken = [c \in Consumers |-> NULL]

\* A producer asks for v to be queued.
Call(p, v) ==
    /\ pending[p] = NULL
    /\ pending' = [pending EXCEPT ![p] = v]
    /\ UNCHANGED <<items, taken>>

\* The call takes effect, only when there is room.
Put(p) ==
    /\ pending[p] # NULL
    /\ Len(items) < Capacity
    /\ items' = Append(items, pending[p])
    /\ pending' = [pending EXCEPT ![p] = NULL]
    /\ UNCHANGED taken

\* A consumer obtains the oldest payload.
Get(c) ==
    /\ taken[c] = NULL
    /\ items # <<>>
    /\ taken' = [taken EXCEPT ![c] = Head(items)]
    /\ items' = Tail(items)
    /\ UNCHANGED pending

\* The consumer is done with what it obtained.
Release(c) ==
    /\ taken[c] # NULL
    /\ taken' = [taken EXCEPT ![c] = NULL]
    /\ UNCHANGED <<items, pending>>

Next ==
    \/ \E p \in Producers : \/ \E v \in Payloads : Call(p, v)
                            \/ Put(p)
    \/ \E c \in Consumers : Get(c) \/ Release(c)

Spec == Init /\ [][Next]_vars
=============================================================================
