------------------------------ MODULE SpscQueue ------------------------------
(***************************************************************************)
(* The reference solution of the benchmark's lock-free queue: a producer   *)
(* and a consumer share two counters and a ring of slots; a third thread   *)
(* asks for the size.                                                      *)
(*                                                                         *)
(* head and tail count without end here; what the code holds is their      *)
(* remainder by Modulus, 2 to the width of size_t. An acquire load may     *)
(* return an old value of the counter, though none older than the thread   *)
(* has seen, directly or through the thread whose store it reads; what was *)
(* written before the store is then visible. The n-th element pushed is n. *)
(***************************************************************************)
EXTENDS Integers, Sequences

CONSTANTS
    Capacity,   \* template parameter
    Modulus,    \* 2 ^ (bits of std::size_t)
    MaxPushes,  \* bound: elements pushed
    Raw         \* a slot that holds no element

ASSUME QueueAssumption ==
    /\ Capacity \in Nat \ {0}
    /\ Modulus \in Nat /\ Modulus > Capacity
    /\ MaxPushes \in Nat
    /\ Raw \notin Nat

VARIABLES
    head, tail,            \* head_ and tail_
    storage,               \* storage_
    producer, seen_head,   \* where the producer is, the head it last read
    consumer, seen_tail,   \* where the consumer is, the tail it last read
    out,                   \* try_pop()'s local
    observer,              \* where the thread that calls size_approx() is
    size_head, size_tail,  \* size_approx()'s locals
    popped,                \* history: what try_pop() has returned
    views                  \* history: views[h + 1] is the tail known to the store of head h

producerVars == <<producer, seen_head>>
consumerVars == <<consumer, seen_tail, out, popped, views>>
observerVars == <<observer, size_head, size_tail>>
vars == <<head, tail, storage, producerVars, consumerVars, observerVars>>

Slots == 0..(Capacity - 1)

\* storage_[(counter % Capacity) * sizeof(T)]
slot(counter) == (counter % Modulus) % Capacity

\* Mutants of Full and Empty: off by one.
FullOneLater(t, h) == (t - h) % Modulus = Capacity + 1
Full(t, h) == (t - h) % Modulus = Capacity

EmptyOneEarlier(h, t) == (t - h) % Modulus <= 1
Empty(h, t) == h % Modulus = t % Modulus

Init ==
    /\ head = 0 /\ tail = 0
    /\ storage = [s \in Slots |-> Raw]
    /\ producer = "idle" /\ seen_head = 0
    /\ consumer = "idle" /\ seen_tail = 0
    /\ out = 0
    /\ observer = "idle" /\ size_head = 0 /\ size_tail = 0
    /\ popped = <<>>
    /\ views = <<0>>

-----------------------------------------------------------------------------
(* try_push(): a push that finds no room returns false and is tried again. *)

PushLoad(h) ==
    /\ producer = "idle"
    /\ tail < MaxPushes
    /\ h \in seen_head..head
    /\ seen_head' = h
    /\ producer' = IF Full(tail, h) THEN "idle" ELSE "construct"
    /\ UNCHANGED <<head, tail, storage, consumerVars, observerVars>>

Construct ==
    /\ producer = "construct"
    /\ storage' = [storage EXCEPT ![slot(tail)] = tail]
    /\ producer' = "publish"
    /\ UNCHANGED <<head, tail, seen_head, consumerVars, observerVars>>

Publish ==
    /\ producer = "publish"
    /\ tail' = tail + 1
    /\ producer' = "idle"
    /\ UNCHANGED <<head, storage, seen_head, consumerVars, observerVars>>

-----------------------------------------------------------------------------
(* try_pop()                                                               *)

PopLoad(t) ==
    /\ consumer = "idle"
    /\ t \in seen_tail..tail
    /\ seen_tail' = t
    /\ consumer' = IF Empty(head, t) THEN "idle" ELSE "take"
    /\ UNCHANGED <<head, tail, storage, out, popped, views, producerVars, observerVars>>

\* The element is moved out and destroyed.
Take ==
    /\ consumer = "take"
    /\ out' = storage[slot(head)]
    /\ storage' = [storage EXCEPT ![slot(head)] = Raw]
    /\ consumer' = "release"
    /\ UNCHANGED <<head, tail, seen_tail, popped, views, producerVars, observerVars>>

Release ==
    /\ consumer = "release"
    /\ head' = head + 1
    /\ popped' = Append(popped, out)
    /\ views' = Append(views, seen_tail)
    /\ consumer' = "idle"
    /\ UNCHANGED <<tail, storage, seen_tail, out, producerVars, observerVars>>

-----------------------------------------------------------------------------
(* size_approx(), called by any thread.                                    *)

SizeLoadHead ==
    /\ observer = "idle"
    /\ size_head' \in 0..head
    /\ observer' = "tail"
    /\ UNCHANGED <<head, tail, storage, size_tail, producerVars, consumerVars>>

\* Mutant of SizeLoadTail: the head was loaded with relaxed order.
SizeLoadTailRelaxed ==
    /\ observer = "tail"
    /\ size_tail' \in 0..tail
    /\ observer' = "idle"
    /\ UNCHANGED <<head, tail, storage, size_head, producerVars, consumerVars>>

SizeLoadTail ==
    /\ observer = "tail"
    /\ size_tail' \in views[size_head + 1]..tail
    /\ observer' = "idle"
    /\ UNCHANGED <<head, tail, storage, size_head, producerVars, consumerVars>>

size_approx == (size_tail - size_head) % Modulus

-----------------------------------------------------------------------------
Producer == (\E h \in 0..head : PushLoad(h)) \/ Construct \/ Publish
Consumer == (\E t \in 0..tail : PopLoad(t)) \/ Take \/ Release
Observer == SizeLoadHead \/ SizeLoadTail

Next == Producer \/ Consumer \/ Observer

Spec == Init /\ [][Next]_vars

\* Both threads run, and a store is seen in the end by a thread that goes on loading.
Fairness ==
    /\ WF_vars(Construct) /\ WF_vars(Publish) /\ WF_vars(Take) /\ WF_vars(Release)
    /\ WF_vars(PushLoad(head)) /\ WF_vars(PopLoad(tail))
FairSpec == Spec /\ Fairness

-----------------------------------------------------------------------------
TypeOK ==
    /\ head \in Nat /\ tail \in Nat
    /\ storage \in [Slots -> Nat \cup {Raw}]
    /\ producer \in {"idle", "construct", "publish"} /\ seen_head \in Nat
    /\ consumer \in {"idle", "take", "release"} /\ seen_tail \in Nat
    /\ out \in Nat
    /\ observer \in {"idle", "tail"} /\ size_head \in Nat /\ size_tail \in Nat
    /\ popped \in Seq(Nat)
    /\ views \in Seq(Nat)

\* Full and Empty compare for equality, so no counter may ever run past the other, not
\* even as an old value of it shows: what each side knows of the other never leaves the
\* window of Capacity elements.
WindowKept ==
    /\ seen_head <= head /\ head <= seen_tail /\ seen_tail <= tail
    /\ tail - seen_head <= Capacity

\* task.json: "Elements come out in FIFO order", "exactly Capacity elements". The slots
\* between the counters, with the element on its way out, are a bounded FIFO queue,
\* whatever old values the threads read.
Queue == INSTANCE BoundedQueue WITH
    items <- [k \in 1..(tail - head) |->
                 IF k = 1 /\ consumer = "release" THEN out ELSE storage[slot(head + k - 1)]],
    taken <- popped
Implements == Queue!Spec

\* reference.hpp:44: "head is read first, so tail >= head": the difference never wraps
\* around zero.
SizeNotNegative == observer = "idle" => size_tail >= size_head

\* task.json:11, of size_approx(): "may be stale under concurrency but never larger than
\* Capacity".
SizeAtMostCapacity == observer = "idle" => size_approx <= Capacity

\* Neither thread is ever locked out: with both trying, everything comes through.
EverythingArrives == <>(head = MaxPushes)

=============================================================================
