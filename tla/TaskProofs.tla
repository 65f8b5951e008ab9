------------------------------ MODULE TaskProofs ------------------------------
(***************************************************************************)
(* Proofs about reference solutions of the benchmark's tasks. SpscQueue is *)
(* treated for every capacity and every width of the counters, as long as  *)
(* they have not wrapped around: what the threads know of each other stays *)
(* in the window, and the ring is a bounded FIFO queue. LruCache,          *)
(* TokenBucket and Duration follow.                                        *)
(***************************************************************************)
EXTENDS SpscQueue, LruCache, TokenBucket, AlgorithmProofs

\* Two counters that are less than Capacity apart never share a slot.
LEMMA ModInjective ==
  ASSUME NEW a \in Nat, NEW b \in Nat, a < b, b - a < Capacity
  PROVE  a % Capacity # b % Capacity
<1> DEFINE qa == a \div Capacity
           qb == b \div Capacity
<1>1. Capacity \in Nat /\ Capacity > 0
  BY QueueAssumption DEF QueueAssumption
<1>2. qa \in Int /\ qb \in Int /\ a = Capacity * qa + (a % Capacity)
      /\ b = Capacity * qb + (b % Capacity)
  BY <1>1
<1> SUFFICES ASSUME a % Capacity = b % Capacity PROVE FALSE
  OBVIOUS
<1> HIDE DEF qa, qb
<1>3. b - a = Capacity * qb - Capacity * qa
  BY <1>1, <1>2
<1>4. b - a = Capacity * (qb - qa)
  BY <1>1, <1>2, <1>3
<1>5. CASE qb - qa <= 0
  BY <1>1, <1>2, <1>4, <1>5
<1>6. CASE qb - qa >= 1
  BY <1>1, <1>2, <1>4, <1>6
<1> QED BY <1>2, <1>5, <1>6

\* Before they wrap around, the same of slot().
LEMMA SlotInjective ==
  ASSUME NEW a \in Nat, NEW b \in Nat, a # b, a < Modulus, b < Modulus,
         a - b < Capacity, b - a < Capacity
  PROVE  slot(a) # slot(b)
<1>1. a % Modulus = a /\ b % Modulus = b
  BY QueueAssumption DEF QueueAssumption
<1>2. a < b \/ b < a
  OBVIOUS
<1> QED BY <1>1, <1>2, ModInjective DEF slot

LEMMA SlotInRing ==
  ASSUME NEW a \in Nat
  PROVE  slot(a) \in Slots
BY QueueAssumption DEF QueueAssumption, slot, Slots

\* The counters, as the code compares them, and as they are.
LEMMA FullIs ==
  ASSUME NEW t \in Nat, NEW h \in Nat, h <= t, t - h <= Capacity
  PROVE  Full(t, h) <=> t - h = Capacity
BY QueueAssumption DEF QueueAssumption, Full

LEMMA EmptyIs ==
  ASSUME NEW t \in Nat, NEW h \in Nat, h <= t, t < Modulus
  PROVE  Empty(h, t) <=> h = t
BY QueueAssumption DEF QueueAssumption, Empty

-----------------------------------------------------------------------------
\* What each element of the ring is worth while it is between the counters: the slots
\* hold what was pushed, but for the element the consumer has in its hands; the one the
\* producer has constructed is there before the counter says so.
RingHolds ==
    /\ \A c \in head..(tail - 1) :
          ~(c = head /\ consumer = "release") => storage[slot(c)] = c
    /\ consumer = "release" => out = head
    /\ producer = "publish" => storage[slot(tail)] = tail

ProducerKnows == /\ tail <= MaxPushes
                 /\ producer # "idle" => tail - seen_head < Capacity /\ tail < MaxPushes
ConsumerKnows == consumer # "idle" => head < seen_tail

\* A thread that has read a head knows of a tail that is not behind it.
ViewsKnow == /\ Len(views) = head + 1
             /\ \A h \in 0..head : h <= views[h + 1] /\ views[h + 1] <= tail
             /\ size_head <= head

Inv == /\ TypeOK /\ WindowKept /\ RingHolds /\ ProducerKnows /\ ConsumerKnows /\ ViewsKnow
       /\ Len(popped) = head
       /\ SizeNotNegative

LEMMA InitInv == Init => Inv
<1> SUFFICES ASSUME Init PROVE Inv
  OBVIOUS
<1>1. TypeOK
  BY DEF Init, TypeOK
<1>2. WindowKept /\ ProducerKnows /\ ConsumerKnows /\ RingHolds
  BY QueueAssumption
     DEF Init, QueueAssumption, WindowKept, ProducerKnows, ConsumerKnows, RingHolds
<1> QED BY <1>1, <1>2 DEF Init, Inv, ViewsKnow, SizeNotNegative

LEMMA PushLoadInv == ASSUME Inv, NEW h \in 0..head, PushLoad(h) PROVE Inv'
<1>1. /\ head \in Nat /\ tail \in Nat /\ seen_head \in Nat /\ seen_tail \in Nat
      /\ h \in Nat /\ seen_head <= h /\ h <= head /\ h <= tail /\ tail - h <= Capacity
      /\ tail < MaxPushes /\ Capacity \in Nat /\ MaxPushes \in Nat
  BY QueueAssumption DEF Inv, TypeOK, WindowKept, PushLoad, QueueAssumption
<1>2. /\ seen_head' = h /\ UNCHANGED <<head, tail, storage, consumerVars, observerVars>>
      /\ producer' \in {"idle", "construct"}
      /\ producer' = "construct" => ~Full(tail, h)
  BY DEF PushLoad
<1>3. TypeOK'
  BY <1>1, <1>2 DEF Inv, TypeOK, consumerVars, observerVars
<1>4. WindowKept'
  BY <1>1, <1>2 DEF Inv, WindowKept, consumerVars
<1>5. ProducerKnows'
  BY <1>1, <1>2, FullIs DEF ProducerKnows
<1> QED BY <1>2, <1>3, <1>4, <1>5 DEF Inv, RingHolds, ConsumerKnows, ViewsKnow,
           SizeNotNegative, consumerVars, observerVars

LEMMA ConstructInv == ASSUME MaxPushes < Modulus, Inv, Construct PROVE Inv'
<1>1. /\ head \in Nat /\ tail \in Nat /\ head <= tail /\ tail - head < Capacity
      /\ tail < Modulus /\ Capacity \in Nat /\ Modulus \in Nat
  BY QueueAssumption
     DEF Inv, TypeOK, WindowKept, ProducerKnows, Construct, QueueAssumption
<1>2. /\ storage' = [storage EXCEPT ![slot(tail)] = tail] /\ producer' = "publish"
      /\ producer = "construct"
      /\ UNCHANGED <<head, tail, seen_head, consumerVars, observerVars>>
  BY DEF Construct
<1>3. TypeOK'
  BY <1>1, <1>2, SlotInRing DEF Inv, TypeOK, consumerVars, observerVars
<1>4. storage'[slot(tail)] = tail
  BY <1>1, <1>2, SlotInRing DEF Inv, TypeOK
<1>5. \A c \in head..(tail - 1) : storage'[slot(c)] = storage[slot(c)]
  <2> SUFFICES ASSUME NEW c \in head..(tail - 1) PROVE storage'[slot(c)] = storage[slot(c)]
    OBVIOUS
  <2>1. c \in Nat /\ c # tail /\ c < Modulus /\ c - tail < Capacity /\ tail - c < Capacity
    BY <1>1
  <2>2. slot(c) # slot(tail) /\ slot(c) \in Slots
    BY <1>1, <2>1, SlotInjective, SlotInRing
  <2> QED BY <1>2, <2>2 DEF Inv, TypeOK
<1>6. RingHolds'
  BY <1>2, <1>4, <1>5 DEF Inv, RingHolds, consumerVars, slot
<1> QED BY <1>2, <1>3, <1>6 DEF Inv, WindowKept, ProducerKnows, ConsumerKnows, ViewsKnow,
           SizeNotNegative, consumerVars, observerVars

LEMMA PublishInv == ASSUME Inv, Publish PROVE Inv'
<1>1. /\ head \in Nat /\ tail \in Nat /\ head <= tail /\ tail - seen_head < Capacity
      /\ tail < MaxPushes /\ Capacity \in Nat /\ MaxPushes \in Nat /\ seen_head \in Nat
      /\ seen_tail \in Nat /\ seen_tail <= tail /\ head <= seen_tail
  BY QueueAssumption DEF Inv, TypeOK, WindowKept, ProducerKnows, Publish, QueueAssumption
<1>2. /\ tail' = tail + 1 /\ producer = "publish" /\ producer' = "idle"
      /\ UNCHANGED <<head, storage, seen_head, consumerVars, observerVars>>
  BY DEF Publish
<1>3. TypeOK'
  BY <1>1, <1>2 DEF Inv, TypeOK, consumerVars, observerVars
<1>4. WindowKept' /\ ProducerKnows'
  BY <1>1, <1>2 DEF Inv, WindowKept, ProducerKnows, consumerVars
<1>5. RingHolds'
  <2>1. \A c \in head..tail : ~(c = head /\ consumer = "release") => storage[slot(c)] = c
    BY <1>1, <1>2 DEF Inv, RingHolds
  <2> QED BY <1>1, <1>2, <2>1 DEF Inv, RingHolds, consumerVars, slot
<1>6. ViewsKnow'
  <2>1. \A h \in 0..head : h <= views[h + 1] /\ views[h + 1] <= tail' /\ views[h + 1] \in Nat
    <3> SUFFICES ASSUME NEW h \in 0..head
                 PROVE  h <= views[h + 1] /\ views[h + 1] <= tail' /\ views[h + 1] \in Nat
      OBVIOUS
    <3>1. h + 1 \in 1..Len(views) /\ views \in Seq(Nat)
      BY <1>1 DEF Inv, TypeOK, ViewsKnow
    <3>2. views[h + 1] \in Nat
      BY <3>1
    <3> QED BY <1>1, <1>2, <3>2 DEF Inv, ViewsKnow
  <2> QED BY <1>2, <2>1 DEF Inv, ViewsKnow, consumerVars, observerVars
<1> QED BY <1>2, <1>3, <1>4, <1>5, <1>6 DEF Inv, ConsumerKnows, SizeNotNegative, consumerVars,
           observerVars

LEMMA PopLoadInv == ASSUME MaxPushes < Modulus, Inv, NEW t \in 0..tail, PopLoad(t) PROVE Inv'
<1>1. /\ head \in Nat /\ tail \in Nat /\ t \in Nat /\ head <= t /\ t <= tail /\ seen_head <= head
      /\ t < Modulus
  BY QueueAssumption
     DEF Inv, TypeOK, WindowKept, ProducerKnows, PopLoad, QueueAssumption
<1>2. /\ seen_tail' = t /\ consumer = "idle" /\ consumer' \in {"idle", "take"}
      /\ consumer' = "take" => ~Empty(head, t)
      /\ UNCHANGED <<head, tail, storage, out, popped, views, producerVars, observerVars>>
  BY DEF PopLoad
<1>3. TypeOK'
  BY <1>1, <1>2 DEF Inv, TypeOK, producerVars, observerVars
<1>4. WindowKept' /\ ConsumerKnows'
  BY <1>1, <1>2, EmptyIs DEF Inv, WindowKept, ConsumerKnows, producerVars
<1> QED BY <1>2, <1>3, <1>4 DEF Inv, RingHolds, ProducerKnows, ViewsKnow, SizeNotNegative,
           producerVars, observerVars, slot

LEMMA TakeInv == ASSUME MaxPushes < Modulus, Inv, Take PROVE Inv'
<1>1. /\ head \in Nat /\ tail \in Nat /\ head < tail /\ tail - head <= Capacity
      /\ tail <= MaxPushes
      /\ producer = "publish" => tail - head < Capacity
      /\ Capacity \in Nat /\ Modulus \in Nat /\ MaxPushes \in Nat
  BY QueueAssumption DEF Inv, TypeOK, WindowKept, ProducerKnows, ConsumerKnows, Take,
     QueueAssumption
<1>2. /\ out' = storage[slot(head)] /\ storage' = [storage EXCEPT ![slot(head)] = Raw]
      /\ consumer = "take" /\ consumer' = "release"
      /\ UNCHANGED <<head, tail, seen_tail, popped, views, producerVars, observerVars>>
  BY DEF Take
<1>3. out' = head
  BY <1>1, <1>2 DEF Inv, RingHolds
<1>4. TypeOK'
  BY <1>1, <1>2, <1>3, SlotInRing DEF Inv, TypeOK, producerVars, observerVars
<1>5. \A c \in (head + 1)..tail :
         c - head < Capacity => storage'[slot(c)] = storage[slot(c)]
  <2> SUFFICES ASSUME NEW c \in (head + 1)..tail, c - head < Capacity
               PROVE  storage'[slot(c)] = storage[slot(c)]
    OBVIOUS
  <2>1. c \in Nat /\ c # head /\ c < Modulus /\ head < Modulus /\ head - c < Capacity
    BY <1>1
  <2>2. slot(c) # slot(head) /\ slot(c) \in Slots
    BY <1>1, <2>1, SlotInjective, SlotInRing
  <2> QED BY <1>2, <2>2 DEF Inv, TypeOK
<1>6. RingHolds'
  <2>1. \A c \in head..(tail - 1) : c # head => storage'[slot(c)] = c
    BY <1>1, <1>2, <1>5 DEF Inv, RingHolds
  <2>2. producer = "publish" => storage'[slot(tail)] = tail
    BY <1>1, <1>5 DEF Inv, RingHolds
  <2> QED BY <1>2, <1>3, <2>1, <2>2 DEF RingHolds, producerVars, slot
<1> QED BY <1>2, <1>4, <1>6 DEF Inv, WindowKept, ProducerKnows, ConsumerKnows, ViewsKnow,
           SizeNotNegative, producerVars, observerVars

LEMMA ReleaseInv == ASSUME Inv, Release PROVE Inv'
<1>1. /\ head \in Nat /\ tail \in Nat /\ seen_tail \in Nat /\ head < seen_tail
      /\ seen_tail <= tail /\ seen_head \in Nat /\ seen_head <= head
      /\ popped \in Seq(Nat) /\ out \in Nat /\ views \in Seq(Nat) /\ Len(views) = head + 1
      /\ size_head \in Nat /\ size_head <= head
  BY DEF Inv, TypeOK, WindowKept, ConsumerKnows, ViewsKnow, Release
<1>2. /\ head' = head + 1 /\ popped' = Append(popped, out) /\ views' = Append(views, seen_tail)
      /\ consumer = "release" /\ consumer' = "idle"
      /\ UNCHANGED <<tail, storage, seen_tail, out, producerVars, observerVars>>
  BY DEF Release
<1>3. TypeOK' /\ Len(popped') = head'
  BY <1>1, <1>2 DEF Inv, TypeOK, producerVars, observerVars
<1>4. WindowKept'
  BY <1>1, <1>2 DEF Inv, WindowKept, producerVars
<1>5. RingHolds'
  BY <1>1, <1>2 DEF Inv, RingHolds, producerVars, slot
<1>6. ViewsKnow'
  <2>1. Len(views') = head' + 1
    BY <1>1, <1>2
  <2>2. \A h \in 0..head' : h <= views'[h + 1] /\ views'[h + 1] <= tail
    <3> SUFFICES ASSUME NEW h \in 0..head' PROVE h <= views'[h + 1] /\ views'[h + 1] <= tail
      OBVIOUS
    <3>1. CASE h = head'
      <4>1. views'[h + 1] = seen_tail
        BY <1>1, <1>2, <3>1
      <4> QED BY <1>1, <1>2, <3>1, <4>1
    <3>2. CASE h # head'
      <4>1. h \in 0..head /\ h + 1 \in 1..Len(views)
        BY <1>1, <1>2, <3>2
      <4>2. views'[h + 1] = views[h + 1]
        BY <1>1, <1>2, <4>1
      <4> QED BY <4>1, <4>2 DEF Inv, ViewsKnow
    <3> QED BY <3>1, <3>2
  <2>3. size_head' <= head'
    BY <1>1, <1>2 DEF observerVars
  <2> QED BY <1>2, <2>1, <2>2, <2>3 DEF ViewsKnow
<1> QED BY <1>2, <1>3, <1>4, <1>5, <1>6 DEF Inv, ProducerKnows, ConsumerKnows, SizeNotNegative,
           producerVars, observerVars

LEMMA SizeInv == ASSUME Inv, Observer PROVE Inv'
<1>1. /\ UNCHANGED <<head, tail, storage, producerVars, consumerVars>>
      /\ head \in Nat /\ tail \in Nat /\ size_head \in Nat /\ size_head <= head
      /\ views \in Seq(Nat) /\ Len(views) = head + 1
  BY DEF Observer, SizeLoadHead, SizeLoadTail, Inv, TypeOK, ViewsKnow
<1>2. CASE SizeLoadHead
  <2>1. size_head' \in 0..head /\ observer' = "tail" /\ size_tail' = size_tail
    BY <1>2 DEF SizeLoadHead
  <2>2. TypeOK'
    BY <1>1, <2>1 DEF Inv, TypeOK, producerVars, consumerVars
  <2> QED BY <1>1, <2>1, <2>2 DEF Inv, WindowKept, RingHolds, ProducerKnows, ConsumerKnows,
             ViewsKnow, SizeNotNegative, producerVars, consumerVars, slot
<1>3. CASE SizeLoadTail
  <2>1. /\ size_tail' \in views[size_head + 1]..tail /\ observer' = "idle"
        /\ size_head' = size_head
    BY <1>3 DEF SizeLoadTail
  <2>2. size_head <= views[size_head + 1] /\ views[size_head + 1] \in Nat
    <3>1. size_head \in 0..head /\ size_head + 1 \in 1..Len(views)
      BY <1>1
    <3>2. views[size_head + 1] \in Nat
      BY <1>1, <3>1
    <3> QED BY <3>1, <3>2 DEF Inv, ViewsKnow
  <2>3. size_tail' \in Nat /\ size_tail' >= size_head
    BY <1>1, <2>1, <2>2
  <2>4. TypeOK'
    BY <1>1, <2>1, <2>3 DEF Inv, TypeOK, producerVars, consumerVars
  <2> QED BY <1>1, <2>1, <2>3, <2>4 DEF Inv, WindowKept, RingHolds, ProducerKnows,
             ConsumerKnows, ViewsKnow, SizeNotNegative, producerVars, consumerVars, slot
<1> QED BY <1>2, <1>3 DEF Observer

LEMMA NextInv == ASSUME MaxPushes < Modulus, Inv, [Next]_vars PROVE Inv'
<1>1. CASE UNCHANGED vars
  BY <1>1 DEF vars, producerVars, consumerVars, observerVars, Inv, TypeOK, WindowKept, RingHolds,
              ProducerKnows, ConsumerKnows, ViewsKnow, SizeNotNegative, slot
<1>2. CASE Producer
  BY <1>2, PushLoadInv, ConstructInv, PublishInv DEF Producer
<1>3. CASE Consumer
  BY <1>3, PopLoadInv, TakeInv, ReleaseInv DEF Consumer
<1>4. CASE Observer
  BY <1>4, SizeInv
<1> QED BY <1>1, <1>2, <1>3, <1>4 DEF Next

\* Until the counters wrap around, what producer and consumer know of each other stays in
\* the window, so that comparing for equality is enough (reference.hpp:25, 33), and the
\* size is never taken from a tail that is behind its head (reference.hpp:44).
THEOREM CountersInOrder ==
  ASSUME MaxPushes < Modulus
  PROVE  Spec => [](TypeOK /\ WindowKept /\ SizeNotNegative)
<1>1. Inv /\ [Next]_vars => Inv'
  BY NextInv
<1>2. Inv => TypeOK /\ WindowKept /\ SizeNotNegative
  BY DEF Inv
<1> QED BY InitInv, <1>1, <1>2, PTL DEF Spec

-----------------------------------------------------------------------------
(* The refinement: what is between the counters is the abstract queue.     *)

Window(h, t) == [k \in 1..(t - h) |-> h + k - 1]

Items == [k \in 1..(tail - head) |->
             IF k = 1 /\ consumer = "release" THEN out ELSE storage[slot(head + k - 1)]]

LEMMA ItemsAre == ASSUME Inv PROVE Items = Window(head, tail)
<1>1. head \in Nat /\ tail \in Nat
  BY DEF Inv, TypeOK
<1> SUFFICES ASSUME NEW k \in 1..(tail - head)
             PROVE  (IF k = 1 /\ consumer = "release" THEN out ELSE storage[slot(head + k - 1)])
                       = head + k - 1
  BY DEF Items, Window
<1>2. head + k - 1 \in head..(tail - 1) /\ (k = 1 <=> head + k - 1 = head)
  BY <1>1
<1> QED BY <1>1, <1>2 DEF Inv, RingHolds

LEMMA WindowGrows ==
  ASSUME NEW h \in Nat, NEW t \in Nat, h <= t
  PROVE  Window(h, t + 1) = Append(Window(h, t), t) /\ Len(Window(h, t)) = t - h
<1>1. t - h \in Nat /\ t + 1 - h = (t - h) + 1
  OBVIOUS
<1> QED BY <1>1 DEF Window

LEMMA WindowShrinks ==
  ASSUME NEW h \in Nat, NEW t \in Nat, h < t
  PROVE  /\ Window(h + 1, t) = Tail(Window(h, t)) /\ Head(Window(h, t)) = h
         /\ Window(h, t) # <<>>
<1>1. t - h \in Nat /\ t - h >= 1 /\ t - (h + 1) = (t - h) - 1
  OBVIOUS
<1>2. Window(h, t) \in Seq(Nat) /\ Len(Window(h, t)) = t - h /\ Window(h, t)[1] = h
  BY <1>1 DEF Window
<1>3. /\ Tail(Window(h, t)) \in Seq(Nat) /\ Len(Tail(Window(h, t))) = (t - h) - 1
      /\ \A k \in 1..((t - h) - 1) : Tail(Window(h, t))[k] = Window(h, t)[k + 1]
  BY <1>1, <1>2, HeadTailProperties
<1>4. \A k \in 1..((t - h) - 1) : Window(h, t)[k + 1] = Window(h + 1, t)[k]
  BY <1>1 DEF Window
<1>5. Window(h + 1, t) \in Seq(Nat) /\ Len(Window(h + 1, t)) = (t - h) - 1
  BY <1>1 DEF Window
<1>6. Window(h + 1, t) = Tail(Window(h, t))
  BY <1>3, <1>4, <1>5, SeqEqual
<1>7. Window(h, t) # <<>> /\ Head(Window(h, t)) = h
  BY <1>1, <1>2
<1> QED BY <1>6, <1>7

LEMMA RefinementStep ==
  ASSUME Inv, Inv', [Next]_vars
  PROVE  [Queue!Next]_(Queue!vars)
<1>1. /\ head \in Nat /\ tail \in Nat /\ head <= tail /\ Len(popped) = head
      /\ Items = Window(head, tail) /\ Items' = Window(head', tail')
  <2>1. (Inv => Items = Window(head, tail))'
    BY ItemsAre, PTL
  <2>2. head \in Nat /\ tail \in Nat /\ seen_tail \in Nat
    BY DEF Inv, TypeOK
  <2>3. head <= tail /\ Len(popped) = head
    BY <2>2 DEF Inv, WindowKept
  <2> QED BY <2>1, <2>2, <2>3, ItemsAre
<1>2. CASE UNCHANGED <<head, tail, popped>>
  BY <1>1, <1>2 DEF Queue!vars, Items
<1>3. CASE Publish
  <2>1. tail' = tail + 1 /\ head' = head /\ popped' = popped /\ tail - head < Capacity
    BY <1>1, <1>3, QueueAssumption
       DEF Publish, consumerVars, Inv, TypeOK, WindowKept, ProducerKnows, QueueAssumption
  <2>2. Items' = Append(Items, tail) /\ Len(Items) = tail - head
    BY <1>1, <2>1, WindowGrows
  <2>3. tail = Len(popped) + Len(Items)
    BY <1>1, <2>2
  <2>4. Len(Items) < Capacity /\ Items' = Append(Items, Len(popped) + Len(Items))
    BY <2>1, <2>2, <2>3
  <2> QED BY <2>1, <2>4 DEF Queue!Next, Queue!Put, Items
<1>4. CASE Release
  <2>1. /\ head' = head + 1 /\ tail' = tail /\ popped' = Append(popped, out) /\ out = head
        /\ head < tail
    BY <1>1, <1>4 DEF Release, Inv, TypeOK, RingHolds, ConsumerKnows, WindowKept
  <2>2. Items' = Tail(Items) /\ Head(Items) = out /\ Items # <<>>
    BY <1>1, <2>1, WindowShrinks
  <2> QED BY <2>1, <2>2 DEF Queue!Next, Queue!Get, Items
<1>5. ASSUME Next, ~Publish, ~Release PROVE UNCHANGED <<head, tail, popped>>
  BY <1>5 DEF Next, Producer, Consumer, Observer, PushLoad, Construct, PopLoad, Take,
              SizeLoadHead, SizeLoadTail, consumerVars
<1>6. UNCHANGED vars => UNCHANGED <<head, tail, popped>>
  BY DEF vars, consumerVars
<1> QED BY <1>2, <1>3, <1>4, <1>5, <1>6

LEMMA RefinementInit == Init => Queue!Init
<1> SUFFICES ASSUME Init PROVE Queue!Init
  OBVIOUS
<1>1. tail = 0 /\ head = 0 /\ popped = <<>>
  BY DEF Init
<1>2. 1..(tail - head) = {}
  BY <1>1
<1> QED BY <1>1, <1>2 DEF Queue!Init

\* Until the counters wrap around, the ring of slots is a FIFO queue of exactly Capacity
\* elements, whatever old values of the counters the threads read and however their steps
\* interleave (reference.hpp:23-39).
THEOREM RingIsAQueue ==
  ASSUME MaxPushes < Modulus
  PROVE  Spec => Implements
<1>1. Inv /\ [Next]_vars => Inv'
  BY NextInv
<1>2. Inv /\ Inv' /\ [Next]_vars => [Queue!Next]_(Queue!vars)
  BY RefinementStep
<1> QED BY InitInv, <1>1, <1>2, RefinementInit, PTL DEF Spec, Implements, Queue!Spec

---------------------------------------------------------------------------
(* The task lru-cache. *)

Entries == [key : Keys, value : Nat]

LEMMA Prepended ==
  ASSUME NEW S, NEW x \in S, NEW s \in Seq(S)
  PROVE  /\ <<x>> \o s \in Seq(S)
         /\ Len(<<x>> \o s) = Len(s) + 1
         /\ \A i \in 1..(Len(s) + 1) : (<<x>> \o s)[i] = IF i = 1 THEN x ELSE s[i - 1]
<1> DEFINE one == <<x>>
<1>1. one \in Seq(S) /\ Len(one) = 1 /\ one[1] = x
  OBVIOUS
<1> HIDE DEF one
<1>2. /\ one \o s \in Seq(S)
      /\ Len(one \o s) = Len(one) + Len(s)
      /\ \A i \in 1..(Len(one) + Len(s)) :
             (one \o s)[i] = IF i <= Len(one) THEN one[i] ELSE s[i - Len(one)]
  BY <1>1, ConcatProperties, Zenon
<1>3. Len(s) \in Nat
  OBVIOUS
<1>4. Len(one \o s) = Len(s) + 1
  BY <1>1, <1>2, <1>3
<1>5. \A i \in 1..(Len(s) + 1) : (one \o s)[i] = IF i = 1 THEN x ELSE s[i - 1]
  BY <1>1, <1>2, <1>3
<1> QED BY <1>2, <1>4, <1>5 DEF one

LEMMA SplicedKeepsAll ==
  ASSUME NEW S, NEW s \in Seq(S), NEW p \in 1..Len(s)
  PROVE  /\ Spliced(s, p) \in Seq(S)
         /\ Len(Spliced(s, p)) = Len(s)
         /\ \A i \in 1..Len(s) : Spliced(s, p)[i] = IF i = 1 THEN s[p] ELSE IF i <= p THEN s[i - 1] ELSE s[i]
<1> DEFINE f == [i \in 1..Len(s) |-> IF i = 1 THEN s[p] ELSE IF i <= p THEN s[i - 1] ELSE s[i]]
<1>1. Spliced(s, p) = f
  BY DEF Spliced
<1>2. \A i \in 1..Len(s) : f[i] \in S
  OBVIOUS
<1>3. f \in Seq(S) /\ Len(f) = Len(s)
  BY <1>2
<1> QED BY <1>1, <1>3

\* What holds after every operation: of every entry what the properties say, position by position.
CacheInv ==
    /\ CacheTypeOK
    /\ Len(items) <= capacity
    /\ \A i \in DOMAIN items : items[i].key \in index /\ items[i].value = stored[items[i].key]
    /\ \A key \in index : \E i \in DOMAIN items : items[i].key = key
    /\ \A i, j \in DOMAIN items : i < j => used[items[i].key] > used[items[j].key]
    /\ \A in \in index, gone \in Keys \ index : used[in] > used[gone]
    /\ Len(items) < capacity => \A gone \in Keys \ index : used[gone] = 0

LEMMA CacheTypes ==
  ASSUME CacheInv
  PROVE  /\ capacity \in Nat /\ uses \in Nat /\ Len(items) \in Nat
         /\ items \in Seq(Entries) /\ DOMAIN items = 1..Len(items)
         /\ \A k \in Keys : used[k] \in 0..uses /\ used[k] \in Int
         /\ \A i \in 1..Len(items) : items[i] \in Entries /\ items[i].key \in Keys
         /\ \A i, j \in 1..Len(items) : items[i].key = items[j].key => i = j
<1>1. /\ capacity \in Nat /\ uses \in Nat
      /\ items \in Seq(Entries)
      /\ \A k \in Keys : used[k] \in 0..uses
  <2>1. capacity \in Nat /\ uses \in Nat /\ items \in Seq(Entries)
    BY CacheAssumption DEF CacheInv, CacheTypeOK, Entries
  <2>2. used \in [Keys -> 0..uses]
    BY DEF CacheInv, CacheTypeOK
  <2> QED BY <2>1, <2>2
<1>2. \A k \in Keys : used[k] \in Int
  <2> SUFFICES ASSUME NEW k \in Keys PROVE used[k] \in Int
    OBVIOUS
  <2>1. used[k] \in 0..uses
    BY <1>1
  <2> QED BY <2>1
<1>3. Len(items) \in Nat /\ DOMAIN items = 1..Len(items) /\ \A i \in 1..Len(items) : items[i] \in Entries
  BY <1>1
<1>4. \A i \in 1..Len(items) : items[i].key \in Keys
  BY <1>3 DEF Entries
<1>5. ASSUME NEW i \in 1..Len(items), NEW j \in 1..Len(items), items[i].key = items[j].key PROVE i = j
  <2>1. ~(i < j) /\ ~(j < i)
    BY <1>2, <1>3, <1>4, <1>5 DEF CacheInv
  <2> QED BY <2>1
<1> QED BY <1>1, <1>2, <1>3, <1>4, <1>5

LEMMA PositionOfKey ==
  ASSUME CacheInv, NEW key \in index
  PROVE  /\ Position(key) \in 1..Len(items)
         /\ items[Position(key)].key = key
         /\ \A i \in 1..Len(items) : items[i].key = key => i = Position(key)
<1>1. \E i \in DOMAIN items : items[i].key = key
  BY DEF CacheInv
<1>2. Position(key) \in DOMAIN items /\ items[Position(key)].key = key
  BY <1>1 DEF Position
<1> QED BY <1>2, CacheTypes

LEMMA CacheInvSuffices == CacheInv => CacheKeepsTheMostRecent
<1> SUFFICES ASSUME CacheInv PROVE CacheKeepsTheMostRecent
  OBVIOUS
<1>1. ListAndIndexAgree
  <2>1. index = {items[i].key : i \in DOMAIN items}
    BY DEF CacheInv
  <2> QED BY <2>1, CacheTypes DEF CacheInv, ListAndIndexAgree
<1>2. \A key \in index : Found(key) = stored[key]
  BY PositionOfKey, CacheTypes DEF CacheInv, Found
<1> QED BY <1>1, <1>2 DEF CacheInv, CacheKeepsTheMostRecent

\* An operation that finds the key: its entry moves to the front, perhaps with a new value.
LEMMA MovedToFront ==
  ASSUME CacheInv, NEW key \in index, NEW s \in Seq(Entries), Len(s) = Len(items),
         \A i \in 1..Len(items) : s[i].key = items[i].key,
         \A i \in 1..Len(items) : s[i].key # key => s[i] = items[i],
         s[Position(key)].value = stored'[key],
         \A k \in Keys : k # key => stored'[k] = stored[k],
         stored' \in [Keys -> Nat],
         Uses(key), items' = Spliced(s, Position(key)), UNCHANGED index
  PROVE  CacheInv'
<1> DEFINE p == Position(key)
           from(i) == IF i = 1 THEN p ELSE IF i <= p THEN i - 1 ELSE i
<1>1. /\ p \in 1..Len(items) /\ items[p].key = key
      /\ \A i \in 1..Len(items) : items[i].key = key => i = p
  BY PositionOfKey
<1>2. /\ items' \in Seq(Entries) /\ Len(items') = Len(items)
      /\ \A i \in 1..Len(items) : items'[i] = IF i = 1 THEN s[p] ELSE IF i <= p THEN s[i - 1] ELSE s[i]
  <2>1. p \in 1..Len(s)
    BY <1>1
  <2>2. items' = Spliced(s, p)
    OBVIOUS
  <2> HIDE DEF p
  <2>3. Spliced(s, p) \in Seq(Entries) /\ Len(Spliced(s, p)) = Len(s)
        /\ \A i \in 1..Len(s) : Spliced(s, p)[i] = IF i = 1 THEN s[p] ELSE IF i <= p THEN s[i - 1] ELSE s[i]
    BY <2>1, SplicedKeepsAll, Zenon
  <2> QED BY <2>2, <2>3, Zenon
<1> HIDE DEF p
<1>t. /\ capacity \in Nat /\ uses \in Nat /\ Len(items) \in Nat
      /\ DOMAIN items = 1..Len(items) /\ DOMAIN items' = 1..Len(items)
      /\ \A k \in Keys : used[k] \in 0..uses /\ used[k] \in Int
      /\ \A i \in 1..Len(items) : items[i].key \in Keys
      /\ key \in Keys /\ index \subseteq Keys
  <2>1. index \subseteq Keys
    BY DEF CacheInv, CacheTypeOK
  <2>2. DOMAIN items' = 1..Len(items)
    BY <1>2
  <2> QED BY <2>1, <2>2, CacheTypes
<1>3. \A i \in 1..Len(items) : from(i) \in 1..Len(items) /\ items'[i] = s[from(i)] /\ (from(i) = p <=> i = 1)
  BY <1>1, <1>2, <1>t
<1>4. \A i, j \in 1..Len(items) : 1 < i /\ i < j => from(i) < from(j)
  BY <1>1, <1>t
<1>5. used' = [used EXCEPT ![key] = uses + 1] /\ uses' = uses + 1 /\ capacity' = capacity /\ index' = index
  BY DEF Uses
<1>6. CacheTypeOK'
  <2>1. used' \in [Keys -> 0..uses']
    <3>1. used \in [Keys -> 0..uses] /\ uses \in Nat
      BY DEF CacheInv, CacheTypeOK
    <3>2. ASSUME NEW n \in Nat, NEW f \in [Keys -> 0..n]
          PROVE  [f EXCEPT ![key] = n + 1] \in [Keys -> 0..(n + 1)]
      <4>1. \A k \in Keys : f[k] \in 0..(n + 1)
        OBVIOUS
      <4>2. n + 1 \in 0..(n + 1)
        OBVIOUS
      <4> DEFINE R == 0..(n + 1)
      <4> HIDE DEF R
      <4>3. [f EXCEPT ![key] = n + 1] \in [Keys -> R]
        BY <4>1, <4>2 DEF R
      <4> QED BY <4>3 DEF R
    <3> QED BY <1>5, <3>1, <3>2, Zenon
  <2>2. capacity' \in Capacities /\ index' \subseteq Keys /\ uses' \in Nat /\ stored' \in [Keys -> Nat]
    BY <1>5, <1>t, SMTT(30) DEF CacheInv, CacheTypeOK
  <2> QED BY <1>2, <2>1, <2>2 DEF CacheTypeOK, Entries
<1> HIDE DEF from
<1>7. \A i \in 1..Len(items) : items'[i].key \in index' /\ items'[i].value = stored'[items'[i].key]
  <2> SUFFICES ASSUME NEW i \in 1..Len(items)
               PROVE  items'[i].key \in index' /\ items'[i].value = stored'[items'[i].key]
    OBVIOUS
  <2>1. items'[i] = s[from(i)] /\ from(i) \in 1..Len(items) /\ s[from(i)].key = items[from(i)].key
    BY <1>3
  <2>2. CASE from(i) = p
    BY <2>1, <2>2, <1>1, <1>5 DEF p
  <2>3. CASE from(i) # p
    <3>1. items[from(i)].key # key
      BY <2>1, <2>3, <1>1
    <3>2. s[from(i)] = items[from(i)]
      BY <3>1, <2>1
    <3> QED BY <2>1, <3>1, <3>2, <1>5, <1>t DEF CacheInv
  <2> QED BY <2>2, <2>3
<1>8. ASSUME NEW k \in index PROVE \E i \in 1..Len(items) : items'[i].key = k
  <2>1. PICK i \in 1..Len(items) : items[i].key = k
    BY <1>t DEF CacheInv
  <2>2. \E j \in 1..Len(items) : from(j) = i
    <3>1. CASE i = p
      <4>1. 1 \in 1..Len(items)
        BY <1>1, <1>t
      <4>2. from(1) = p
        BY <4>1, <1>3
      <4> QED BY <3>1, <4>1, <4>2
    <3>2. CASE i < p
      <4>1. i + 1 \in 1..Len(items) /\ i + 1 # 1 /\ i + 1 <= p /\ (i + 1) - 1 = i
        BY <3>2, <1>1, <1>t
      <4>2. from(i + 1) = i
        BY <4>1 DEF from
      <4> QED BY <4>1, <4>2
    <3>3. CASE i > p
      BY <3>3, <1>1, <1>t DEF from
    <3> QED BY <1>1, <1>t, <3>1, <3>2, <3>3
  <2>3. PICK j \in 1..Len(items) : from(j) = i
    BY <2>2
  <2>4. items'[j] = s[i] /\ s[i].key = items[i].key
    BY <2>1, <2>3, <1>3
  <2> QED BY <2>1, <2>4
<1>9. ASSUME NEW i \in 1..Len(items), NEW j \in 1..Len(items), i < j
      PROVE  used'[items'[i].key] > used'[items'[j].key]
  <2>1. /\ from(i) \in 1..Len(items) /\ items'[i].key = items[from(i)].key
        /\ from(j) \in 1..Len(items) /\ items'[j].key = items[from(j)].key
    <3>1. ASSUME NEW m \in 1..Len(items)
          PROVE  from(m) \in 1..Len(items) /\ items'[m].key = items[from(m)].key
      <4>1. from(m) \in 1..Len(items) /\ items'[m] = s[from(m)]
        BY <1>3, Zenon
      <4>2. s[from(m)].key = items[from(m)].key
        BY <4>1, Zenon
      <4> QED BY <4>1, <4>2, Zenon
    <3> QED BY <3>1, Zenon
  <2>2. from(j) # p /\ items[from(j)].key # key
    <3>1. j # 1
      BY <1>9, <1>t
    <3>2. from(j) # p
      BY <3>1, <1>3, Zenon
    <3> QED BY <3>2, <2>1, <1>1, Zenon
  <2>3. used'[items'[j].key] = used[items[from(j)].key]
    BY <2>1, <2>2, <1>5, <1>t DEF CacheInv, CacheTypeOK
  <2>4. CASE i = 1
    <3>1. used'[items'[i].key] = uses + 1
      BY <2>1, <2>4, <1>1, <1>3, <1>5, <1>t DEF CacheInv, CacheTypeOK
    <3> QED BY <2>1, <2>3, <3>1, <1>t
  <2>5. CASE i # 1
    <3>1. items[from(i)].key # key
      BY <2>1, <2>5, <1>1, <1>3, <1>t
    <3>2. used'[items'[i].key] = used[items[from(i)].key]
      BY <2>1, <3>1, <1>5, <1>t DEF CacheInv, CacheTypeOK
    <3>3. from(i) < from(j)
      BY <2>5, <1>4, <1>9, <1>t
    <3> QED BY <2>1, <2>3, <3>2, <3>3, <1>t DEF CacheInv
  <2> QED BY <2>4, <2>5
<1>10. \A in \in index, gone \in Keys \ index : used'[in] > used'[gone]
  <2> SUFFICES ASSUME NEW in \in index, NEW gone \in Keys \ index PROVE used'[in] > used'[gone]
    OBVIOUS
  <2>1. used'[gone] = used[gone] /\ used[gone] \in 0..uses /\ used[in] \in Int /\ used[in] > used[gone]
    BY <1>5, <1>t DEF CacheInv, CacheTypeOK
  <2>2. used'[in] = used[in] \/ used'[in] = uses + 1
    BY <1>5, <1>t DEF CacheInv, CacheTypeOK
  <2> QED BY <2>1, <2>2, <1>t
<1>11. Len(items) < capacity => \A gone \in Keys \ index : used'[gone] = 0
  BY <1>5, <1>t DEF CacheInv, CacheTypeOK
<1> QED BY <1>t, <1>2, <1>5, <1>6, <1>7, <1>8, <1>9, <1>10, <1>11 DEF CacheInv

LEMMA MissKeeps ==
  ASSUME CacheInv, NEW key \in Keys, Miss(key) PROVE CacheInv'
<1>1. uses \in Nat /\ uses' = uses + 1 /\ UNCHANGED <<capacity, items, index, used, stored>>
  BY DEF Miss, CacheInv, CacheTypeOK
<1>2. used' \in [Keys -> 0..uses'] /\ uses' \in Nat
  BY <1>1 DEF CacheInv, CacheTypeOK
<1> QED BY <1>1, <1>2 DEF CacheInv, CacheTypeOK

LEMMA HitKeeps ==
  ASSUME CacheInv, NEW key \in Keys, Hit(key) PROVE CacheInv'
<1>1. key \in index /\ Uses(key) /\ items' = Spliced(items, Position(key)) /\ index' = index /\ stored' = stored
  BY DEF Hit, Touched
<1>2. items \in Seq(Entries) /\ stored \in [Keys -> Nat]
  BY CacheTypes DEF CacheInv, CacheTypeOK
<1>3. items[Position(key)].value = stored'[key]
  BY <1>1, PositionOfKey, CacheTypes DEF CacheInv
<1> QED BY <1>1, <1>2, <1>3, MovedToFront

LEMMA PutKeeps ==
  ASSUME CacheInv, NEW key \in Keys, put(key) PROVE CacheInv'
<1>1. /\ Uses(key) /\ stored' = [stored EXCEPT ![key] = uses + 1]
      /\ used' = [used EXCEPT ![key] = uses + 1] /\ uses' = uses + 1 /\ capacity' = capacity
  BY DEF put, Uses
<1>t. /\ capacity \in Nat /\ uses \in Nat /\ Len(items) \in Nat
      /\ items \in Seq(Entries) /\ DOMAIN items = 1..Len(items)
      /\ \A k \in Keys : used[k] \in 0..uses /\ used[k] \in Int
      /\ \A i \in 1..Len(items) : items[i] \in Entries /\ items[i].key \in Keys
      /\ \A i, j \in 1..Len(items) : items[i].key = items[j].key => i = j
      /\ stored \in [Keys -> Nat] /\ used \in [Keys -> 0..uses] /\ index \subseteq Keys
  BY CacheTypes DEF CacheInv, CacheTypeOK
<1>2. used' \in [Keys -> 0..uses'] /\ stored' \in [Keys -> Nat] /\ uses' \in Nat
  BY <1>1, <1>t
<1>3. CASE capacity = 0 /\ UNCHANGED <<items, index>>
  <2>1. Len(items) = 0 /\ index = {}
    BY <1>3, <1>t DEF CacheInv
  <2> QED BY <1>1, <1>2, <1>3, <1>t, <2>1 DEF CacheInv, CacheTypeOK
<1>4. CASE /\ key \in index
           /\ items' = Spliced([items EXCEPT ![Position(key)].value = uses + 1], Position(key))
           /\ UNCHANGED index
  <2> DEFINE p == Position(key)
             s == [items EXCEPT ![p].value = uses + 1]
  <2>1. p \in 1..Len(items) /\ items[p].key = key
    BY <1>4, PositionOfKey
  <2> HIDE DEF p
  <2>2. /\ s \in Seq(Entries) /\ Len(s) = Len(items)
        /\ s[p] = Entry(key, uses + 1)
        /\ \A i \in 1..Len(items) : i # p => s[i] = items[i]
    <3>1. [items[p] EXCEPT !.value = uses + 1] = Entry(key, uses + 1)
      BY <2>1, <1>t DEF Entries, Entry
    <3>2. Entry(key, uses + 1) \in Entries
      BY <1>t DEF Entries, Entry
    <3>3. s = [items EXCEPT ![p] = Entry(key, uses + 1)]
      BY <3>1, <2>1, <1>t
    <3>4. s \in Seq(Entries) /\ Len(s) = Len(items)
      <4> DEFINE f == [i \in 1..Len(items) |-> IF i = p THEN Entry(key, uses + 1) ELSE items[i]]
      <4>1. s = f
        BY <3>3, <2>1, <1>t
      <4>2. \A i \in 1..Len(items) : f[i] \in Entries
        BY <3>2, <1>t
      <4>3. Len(items) \in Nat
        BY <1>t
      <4>4. f \in Seq(Entries) /\ Len(f) = Len(items)
        BY <4>2, <4>3
      <4> HIDE DEF f, s
      <4> QED BY <4>1, <4>4
    <3>5. s[p] = Entry(key, uses + 1) /\ \A i \in 1..Len(items) : i # p => s[i] = items[i]
      BY <3>3, <2>1, <1>t
    <3> QED BY <3>4, <3>5
  <2> HIDE DEF s
  <2>3. \A i \in 1..Len(items) : s[i].key = items[i].key
    BY <2>1, <2>2, <1>t DEF Entry
  <2>4. \A i \in 1..Len(items) : s[i].key # key => s[i] = items[i]
    BY <2>1, <2>2, <1>t DEF Entry
  <2>5. s[p].value = stored'[key] /\ \A k \in Keys : k # key => stored'[k] = stored[k]
    BY <2>2, <1>1, <1>t DEF Entry
  <2>6. items' = Spliced(s, p)
    BY <1>4 DEF s, p
  <2> QED BY <1>1, <1>2, <1>4, <2>2, <2>3, <2>4, <2>5, <2>6, MovedToFront DEF p
<1>5. CASE /\ capacity # 0 /\ key \notin index
           /\ items' = <<Entry(key, uses + 1)>> \o Listed
           /\ index' = Indexed \cup {key}
  <2> DEFINE n == Len(Listed)
  <2>1. /\ Listed \in Seq(Entries) /\ n \in Nat /\ n <= Len(items) /\ n < capacity
        /\ \A i \in 1..n : Listed[i] = items[i]
        /\ n = IF AtCapacity THEN Len(items) - 1 ELSE Len(items)
    <3>1. CASE AtCapacity
      <4>1. Len(items) # 0 /\ Len(items) - 1 \in 0..Len(items) /\ Len(items) = capacity
        BY <1>5, <1>t, <3>1 DEF AtCapacity
      <4>2. /\ SubSeq(items, 1, Len(items) - 1) \in Seq(Entries)
            /\ Len(SubSeq(items, 1, Len(items) - 1)) = Len(items) - 1
            /\ \A i \in 1..(Len(items) - 1) : SubSeq(items, 1, Len(items) - 1)[i] = items[i]
        BY <4>1, <1>t
      <4> QED BY <4>1, <4>2, <3>1, <1>t DEF Listed
    <3>2. CASE ~AtCapacity
      <4>1. Listed = items /\ Len(items) # capacity /\ Len(items) <= capacity
        BY <3>2 DEF Listed, AtCapacity, CacheInv
      <4>2. items \in Seq(Entries) /\ Len(items) \in Nat /\ capacity \in Nat
        BY <1>t
      <4>3. Len(items) < capacity
        BY <4>1, <4>2
      <4> QED BY <3>2, <4>1, <4>2, <4>3
    <3> QED BY <3>1, <3>2
  <2>2. /\ \A i \in 1..n : items[i].key \in Indexed
        /\ \A k \in Indexed : k \in index /\ \E i \in 1..n : items[i].key = k
        /\ AtCapacity => /\ Len(items) \in 1..Len(items) /\ items[Len(items)].key \in index
                   /\ Indexed = index \ {items[Len(items)].key}
        /\ ~AtCapacity => Indexed = index
    <3>1. CASE AtCapacity
      <4>1. Len(items) \in 1..Len(items) /\ n = Len(items) - 1 /\ Indexed = index \ {items[Len(items)].key}
        BY <1>5, <1>t, <2>1, <3>1 DEF AtCapacity, Indexed
      <4>2. \A i \in 1..n : items[i].key \in Indexed
        <5>1. ASSUME NEW i \in 1..n PROVE i \in 1..Len(items) /\ items[i].key # items[Len(items)].key
          BY <4>1, <1>t
        <5> QED BY <4>1, <5>1, <1>t DEF CacheInv
      <4>3. ASSUME NEW k \in Indexed PROVE \E i \in 1..n : items[i].key = k
        <5>1. PICK i \in 1..Len(items) : items[i].key = k
          BY <4>1, <1>t DEF CacheInv
        <5>2. i # Len(items)
          BY <5>1, <4>1
        <5> QED BY <5>1, <5>2, <4>1, <1>t
      <4> QED BY <3>1, <4>1, <4>2, <4>3, <1>t DEF CacheInv
    <3>2. CASE ~AtCapacity
      BY <3>2, <2>1, <1>t DEF Indexed, CacheInv
    <3> QED BY <3>1, <3>2
  <2>3. Entry(key, uses + 1) \in Entries
    BY <1>t DEF Entry, Entries
  <2> HIDE DEF n
  <2>4. /\ items' \in Seq(Entries) /\ Len(items') = n + 1
        /\ \A i \in 1..(n + 1) : items'[i] = IF i = 1 THEN Entry(key, uses + 1) ELSE Listed[i - 1]
    BY <1>5, <2>1, <2>3, Prepended DEF n
  <2>5. /\ items'[1].key = key /\ items'[1].value = uses + 1
        /\ \A i \in 2..(n + 1) : i - 1 \in 1..n /\ items'[i] = items[i - 1] /\ items[i - 1].key # key
                                 /\ items[i - 1].key \in Indexed
    <3>1. items'[1] = Entry(key, uses + 1)
      BY <2>1, <2>4
    <3>2. ASSUME NEW i \in 2..(n + 1) PROVE i - 1 \in 1..n /\ items'[i] = items[i - 1]
      BY <2>1, <2>4
    <3>3. \A i \in 1..n : items[i].key # key /\ items[i].key \in Indexed
      BY <1>5, <2>2
    <3> QED BY <3>1, <3>2, <3>3 DEF Entry
  <2>d. DOMAIN items' = 1..(n + 1) /\ n + 1 <= capacity
    <3>1. DOMAIN items' = 1..(n + 1)
      BY <2>4, LenProperties
    <3>2. n + 1 <= capacity
      <4>1. n \in Nat /\ n < capacity /\ capacity \in Nat
        BY <2>1, <1>t, Zenon
      <4> QED BY <4>1
    <3> QED BY <3>1, <3>2
  <2>u. /\ used'[key] = uses + 1
        /\ \A k \in Keys : k # key => used'[k] = used[k] /\ stored'[k] = stored[k]
        /\ stored'[key] = uses + 1
    BY <1>1, <1>t
  <2>k. \A i \in 1..n : i \in 1..Len(items) /\ items[i].key \in Keys
    <3>1. n \in Nat /\ Len(items) \in Nat /\ n <= Len(items)
      BY <2>1, <1>t, Zenon
    <3>2. \A i \in 1..n : i \in 1..Len(items)
      BY <3>1
    <3>3. \A i \in 1..Len(items) : items[i].key \in Keys
      BY <1>t, Zenon
    <3> QED BY <3>2, <3>3, Zenon
  <2>6. \A i \in DOMAIN items' : items'[i].key \in index' /\ items'[i].value = stored'[items'[i].key]
    <3> SUFFICES ASSUME NEW i \in 1..(n + 1)
                 PROVE  items'[i].key \in index' /\ items'[i].value = stored'[items'[i].key]
      BY <2>d
    <3>1. CASE i = 1
      BY <3>1, <2>5, <2>u, <1>5
    <3>2. CASE i # 1
      <4>1. i \in 2..(n + 1) /\ i - 1 \in 1..n
        BY <3>2, <2>1
      <4>2. /\ items'[i] = items[i - 1] /\ items[i - 1].key # key /\ items[i - 1].key \in Indexed
            /\ items[i - 1].key \in Keys /\ items[i - 1].value = stored[items[i - 1].key]
        BY <4>1, <2>5, <2>k, <1>t DEF CacheInv
      <4> QED BY <4>2, <2>u, <1>5
    <3> QED BY <3>1, <3>2
  <2>7. \A k \in index' : \E i \in DOMAIN items' : items'[i].key = k
    <3> SUFFICES ASSUME NEW k \in index' PROVE \E i \in 1..(n + 1) : items'[i].key = k
      BY <2>d
    <3>1. CASE k = key
      BY <3>1, <2>5, <2>1
    <3>2. CASE k \in Indexed
      <4>1. PICK i \in 1..n : items[i].key = k
        BY <3>2, <2>2
      <4>2. i + 1 \in 2..(n + 1) /\ (i + 1) - 1 = i
        BY <2>1
      <4> QED BY <4>1, <4>2, <2>1, <2>5
    <3> QED BY <3>1, <3>2, <1>5
  <2>8. \A i, j \in DOMAIN items' : i < j => used'[items'[i].key] > used'[items'[j].key]
    <3> SUFFICES ASSUME NEW i \in 1..(n + 1), NEW j \in 1..(n + 1), i < j
                 PROVE  used'[items'[i].key] > used'[items'[j].key]
      BY <2>d
    <3>1. j \in 2..(n + 1) /\ j - 1 \in 1..n
      BY <2>1
    <3>2. used'[items'[j].key] = used[items[j - 1].key] /\ used[items[j - 1].key] \in 0..uses
      BY <3>1, <2>5, <2>u, <2>k, <1>t
    <3>3. CASE i = 1
      BY <3>2, <3>3, <2>5, <2>u, <1>t
    <3>4. CASE i # 1
      <4>1. i \in 2..(n + 1) /\ i - 1 \in 1..n /\ i - 1 < j - 1
        BY <3>4, <2>1
      <4>2. used'[items'[i].key] = used[items[i - 1].key]
        BY <4>1, <2>5, <2>u, <2>k
      <4>3. used[items[i - 1].key] > used[items[j - 1].key]
        BY <3>1, <4>1, <2>k, <1>t DEF CacheInv
      <4> QED BY <3>2, <4>2, <4>3
    <3> QED BY <3>3, <3>4
  <2>9. \A in \in index', gone \in Keys \ index' : used'[in] > used'[gone]
    <3> SUFFICES ASSUME NEW in \in index', NEW gone \in Keys \ index' PROVE used'[in] > used'[gone]
      OBVIOUS
    <3>1. gone # key /\ gone \notin Indexed /\ used'[gone] = used[gone] /\ used[gone] \in 0..uses
      BY <1>5, <2>u, <1>t
    <3>2. CASE in = key
      BY <3>1, <3>2, <2>u, <1>t
    <3>3. CASE in # key
      <4>1. in \in Indexed /\ in \in index /\ in \in Keys /\ used'[in] = used[in] /\ used[in] \in Int
        BY <3>3, <1>5, <2>2, <2>u, <1>t
      <4>2. CASE gone \notin index
        BY <3>1, <4>1, <4>2 DEF CacheInv
      <4>3. CASE gone \in index
        <5>1. AtCapacity /\ gone = items[Len(items)].key /\ n = Len(items) - 1
          BY <3>1, <4>3, <2>1, <2>2 DEF n
        <5>2. PICK i \in 1..n : items[i].key = in
          BY <4>1, <2>2
        <5>3. i \in 1..Len(items) /\ Len(items) \in 1..Len(items) /\ i < Len(items)
          BY <5>1, <5>2, <1>t
        <5> QED BY <3>1, <4>1, <5>1, <5>2, <5>3, <1>t DEF CacheInv
      <4> QED BY <4>2, <4>3
    <3> QED BY <3>2, <3>3
  <2>10. Len(items') < capacity => \A gone \in Keys \ index' : used'[gone] = 0
    <3> SUFFICES ASSUME Len(items') < capacity, NEW gone \in Keys \ index' PROVE used'[gone] = 0
      OBVIOUS
    <3>1. ~AtCapacity /\ Len(items) < capacity
      <4>1. n + 1 < capacity /\ n = IF AtCapacity THEN Len(items) - 1 ELSE Len(items)
        BY <2>1, <2>4
      <4>2. n \in Nat /\ Len(items) \in Nat /\ capacity \in Nat
        BY <1>t, <2>1 DEF n
      <4> QED BY <4>1, <4>2 DEF AtCapacity
    <3>2. gone # key /\ gone \notin index
      BY <3>1, <1>5, <2>2
    <3> QED BY <3>1, <3>2, <2>u DEF CacheInv
  <2>11. index' \subseteq Keys
    BY <1>5, <1>t, <2>2
  <2> QED BY <1>1, <1>2, <1>t, <2>4, <2>d, <2>6, <2>7, <2>8, <2>9, <2>10, <2>11
          DEF CacheInv, CacheTypeOK, Entries
<1> QED BY <1>3, <1>4, <1>5 DEF put

\* For every set of keys, every capacity and however long the cache is used, it keeps exactly the
\* keys used last, in order, with their last values (lru-cache/reference.hpp:14-34).
THEOREM CacheIsLru == CacheSpec => []CacheKeepsTheMostRecent
<1>1. CacheInit => CacheInv
  BY CacheAssumption DEF CacheInit, CacheInv, CacheTypeOK
<1>2. CacheInv /\ [CacheNext]_cacheVars => CacheInv'
  <2>1. CacheInv /\ UNCHANGED cacheVars => CacheInv'
    BY DEF CacheInv, CacheTypeOK, cacheVars
  <2> QED BY <2>1, HitKeeps, MissKeeps, PutKeeps DEF CacheNext, get
<1> QED BY <1>1, <1>2, CacheInvSuffices, PTL DEF CacheSpec

---------------------------------------------------------------------------
(* The task token-bucket. *)

\* What is in the bucket counts as given: it may be acquired at once.
BucketInv ==
    /\ BucketTypeOK
    /\ last = highest
    /\ \A mark \in marks :
           /\ mark.highest <= highest
           /\ tokens + given - mark.given <= burst + rate * (highest - mark.highest)

LEMMA RefilledBounds ==
  ASSUME BucketInv, NEW now \in Int
  PROVE  /\ Refilled(now) \in 0..burst
         /\ now <= last => Refilled(now) = tokens
         /\ now > last => Refilled(now) <= tokens + rate * (now - last)
<1>1. /\ rate \in Nat /\ burst \in Nat /\ tokens \in 0..burst /\ last \in Int
  BY BucketAssumption DEF BucketInv, BucketTypeOK
<1>2. CASE now <= last
  BY <1>1, <1>2 DEF Refilled
<1>3. CASE now > last
  <2>1. /\ (now - last) * rate \in Nat /\ (now - last) * rate = rate * (now - last)
    BY <1>1, <1>3
  <2>2. Refilled(now) = AtMost(burst, tokens + (now - last) * rate)
    BY <1>1, <1>3 DEF Refilled
  <2> QED BY <1>1, <1>3, <2>1, <2>2 DEF AtMost
<1> QED BY <1>1, <1>2, <1>3

\* A call that takes n of what refill() has left keeps the invariant.
LEMMA CallKeeps ==
  ASSUME BucketInv, NEW now \in Int, Reads(now), NEW n \in Nat, n <= Refilled(now),
         tokens' = Refilled(now) - n, given' = given + n
  PROVE  BucketInv'
<1>1. /\ rate \in Nat /\ burst \in Nat /\ tokens \in 0..burst /\ last \in Int /\ last = highest
      /\ given \in Nat /\ calls \in Nat
  BY BucketAssumption DEF BucketInv, BucketTypeOK
<1> DEFINE r == Refilled(now)
<1>2. r \in 0..burst /\ (now <= last => r = tokens) /\ (now > last => r <= tokens + rate * (now - last))
  BY RefilledBounds
<1>3. /\ highest' = (IF now > last THEN now ELSE last) /\ last' = highest' /\ highest' \in Int
  BY <1>1 DEF Reads, Newest
<1>4. r <= tokens + rate * (highest' - highest)
  BY <1>1, <1>2, <1>3
<1>5. tokens' + given' = r + given /\ tokens' \in 0..burst /\ given' \in Nat
  BY <1>1, <1>2
<1> HIDE DEF r
<1>6. marks' = marks \cup {Mark(given, highest')} /\ clock' \in Int /\ calls' \in Nat
  BY <1>1 DEF Reads
<1>7. marks' \subseteq [given : Nat, highest : Int]
  BY <1>1, <1>3, <1>6 DEF BucketInv, BucketTypeOK, Mark
<1>8. ASSUME NEW mark \in marks'
      PROVE  /\ mark.highest <= highest'
             /\ tokens' + given' - mark.given <= burst + rate * (highest' - mark.highest)
  <2>1. CASE mark = Mark(given, highest')
    <3>1. mark.highest = highest' /\ mark.given = given /\ rate * (highest' - highest') = 0
      BY <1>1, <1>3, <2>1 DEF Mark
    <3> QED BY <1>1, <1>2, <1>3, <1>5, <3>1
  <2>2. CASE mark \in marks
    <3>1. /\ mark.given \in Nat /\ mark.highest \in Int /\ mark.highest <= highest
          /\ tokens + given - mark.given <= burst + rate * (highest - mark.highest)
      BY <2>2 DEF BucketInv, BucketTypeOK
    <3>2. rate * (highest' - mark.highest) = rate * (highest' - highest) + rate * (highest - mark.highest)
      BY <1>1, <1>3, <3>1
    <3>3. highest \in Int /\ highest <= highest'
      BY <1>1, <1>3
    <3>4. /\ rate * (highest' - highest) \in Int /\ rate * (highest - mark.highest) \in Int
      BY <1>1, <1>3, <3>1
    <3> DEFINE x == rate * (highest' - highest)
               y == rate * (highest - mark.highest)
    <3>5. /\ tokens + given - mark.given <= burst + y /\ r <= tokens + x /\ x \in Int /\ y \in Int
          /\ rate * (highest' - mark.highest) = x + y
      BY <1>4, <3>1, <3>2, <3>4
    <3> HIDE DEF x, y
    <3>6. tokens' + given' - mark.given <= burst + (x + y)
      BY <1>1, <1>2, <1>5, <3>1, <3>5
    <3> QED BY <1>3, <3>1, <3>3, <3>5, <3>6
  <2> QED BY <1>6, <2>1, <2>2
<1> QED BY <1>3, <1>5, <1>6, <1>7, <1>8 DEF BucketInv, BucketTypeOK

LEMMA BucketInvHolds == BucketSpec => []BucketInv
<1>1. BucketInit => BucketInv
  BY BucketAssumption DEF BucketInit, BucketInv, BucketTypeOK, Mark
<1>2. BucketInv /\ [BucketNext]_bucketVars => BucketInv'
  <2> SUFFICES ASSUME BucketInv, [BucketNext]_bucketVars PROVE BucketInv'
    OBVIOUS
  <2>1. ASSUME NEW step \in Steps, Look(clock + step) PROVE BucketInv'
    <3>1. clock + step \in Int /\ given \in Nat
      BY BucketAssumption DEF BucketInv, BucketTypeOK
    <3>2. Refilled(clock + step) \in 0..burst /\ burst \in Nat
      BY <3>1, RefilledBounds, BucketAssumption
    <3>3. tokens' = Refilled(clock + step) - 0 /\ given' = given + 0 /\ 0 <= Refilled(clock + step)
      BY <2>1, <3>1, <3>2 DEF Look
    <3> QED BY <2>1, <3>1, <3>3, CallKeeps DEF Look
  <2>2. ASSUME NEW step \in Steps, NEW n \in Amounts, try_acquire(clock + step, n) PROVE BucketInv'
    <3>1. clock + step \in Int /\ given \in Nat /\ n \in Nat
      BY BucketAssumption DEF BucketInv, BucketTypeOK
    <3>2. Refilled(clock + step) \in 0..burst /\ burst \in Nat
      BY <3>1, RefilledBounds, BucketAssumption
    <3>3. CASE n > Refilled(clock + step) /\ tokens' = Refilled(clock + step) /\ UNCHANGED given
      <4>1. tokens' = Refilled(clock + step) - 0 /\ given' = given + 0 /\ 0 <= Refilled(clock + step)
        BY <3>1, <3>2, <3>3
      <4> QED BY <2>2, <3>1, <4>1, CallKeeps DEF try_acquire
    <3>4. CASE n <= Refilled(clock + step) /\ tokens' = Refilled(clock + step) - n /\ given' = given + n
      BY <2>2, <3>1, <3>4, CallKeeps DEF try_acquire
    <3> QED BY <2>2, <3>3, <3>4 DEF try_acquire
  <2>3. CASE UNCHANGED bucketVars
    BY <2>3 DEF bucketVars, BucketInv, BucketTypeOK
  <2> QED BY <2>1, <2>2, <2>3 DEF BucketNext
<1> QED BY <1>1, <1>2, PTL DEF BucketSpec

\* Rounding up: the least number of ticks that are worth n tokens.
LEMMA TicksAreLeast ==
  ASSUME NEW n \in Nat \ {0}, rate \in Nat \ {0}
  PROVE  /\ Ticks(n) \in Nat \ {0}
         /\ Ticks(n) * rate >= n
         /\ (Ticks(n) - 1) * rate < n
<1> DEFINE m == n + rate - 1
           q == m \div rate
<1>1. m \in Nat /\ m >= rate
  OBVIOUS
<1> HIDE DEF m
<1>2. q \in Int /\ m = q * rate + (m % rate) /\ m % rate \in 0..(rate - 1)
  BY <1>1
<1>3. q \in Nat \ {0}
  BY <1>1, <1>2
<1> HIDE DEF q
<1>4. q * rate >= n /\ (q - 1) * rate = q * rate - rate
  BY <1>2, <1>3 DEF m
<1>5. (q - 1) * rate < n
  BY <1>1, <1>2, <1>3, <1>4 DEF m
<1> QED BY <1>3, <1>4, <1>5 DEF Ticks, q, m

THEOREM BucketKeeps == BucketSpec => []BucketKeepsTheRate
<1>1. BucketInv => RateIsKept
  <2> SUFFICES ASSUME BucketInv, NEW mark \in marks
               PROVE  given - mark.given <= burst + rate * (highest - mark.highest)
    BY DEF RateIsKept
  <2>1. /\ mark.given \in Nat /\ given \in Nat /\ tokens \in Nat
        /\ rate * (highest - mark.highest) \in Int /\ burst \in Nat
        /\ tokens + given - mark.given <= burst + rate * (highest - mark.highest)
    BY BucketAssumption DEF BucketInv, BucketTypeOK
  <2> QED BY <2>1
<1>2. BucketInv => WaitIsExact
  <2> SUFFICES ASSUME BucketInv, clock = last, NEW n \in Amounts
               PROVE  LET wait == time_until_available(clock, n)
                      IN  IF wait = Forever THEN \A step \in Steps : n > Refilled(clock + step)
                          ELSE /\ n <= Refilled(clock + wait)
                               /\ wait > 0 => n > Refilled(clock + wait - 1)
    BY DEF WaitIsExact
  <2>1. /\ n \in Nat /\ clock \in Int /\ Refilled(clock) = tokens /\ tokens \in 0..burst
        /\ rate \in Nat /\ burst \in Nat
    BY BucketAssumption, RefilledBounds DEF BucketInv, BucketTypeOK
  <2>2. CASE n <= tokens
    <3>1. time_until_available(clock, n) = 0 /\ clock + 0 = clock
      BY <2>1, <2>2 DEF time_until_available
    <3> QED BY <2>1, <2>2, <3>1 DEF Forever
  <2>3. CASE n > tokens /\ (n > burst \/ rate = 0)
    <3>1. time_until_available(clock, n) = Forever
      BY <2>1, <2>3 DEF time_until_available
    <3>2. ASSUME NEW step \in Steps PROVE n > Refilled(clock + step)
      <4>1. clock + step \in Int
        BY <2>1, BucketAssumption
      <4>2. CASE n > burst
        BY <2>1, <4>1, <4>2, RefilledBounds
      <4>3. CASE rate = 0
        <5>1. Refilled(clock + step) <= tokens /\ Refilled(clock + step) \in 0..burst
          BY <2>1, <4>1, <4>3, RefilledBounds
        <5> QED BY <2>1, <2>3, <5>1
      <4> QED BY <2>3, <4>2, <4>3
    <3> QED BY <3>1, <3>2
  <2>4. CASE n > tokens /\ ~(n > burst \/ rate = 0)
    <3> DEFINE t == Ticks(n - tokens)
    <3>1. n - tokens \in Nat \ {0} /\ rate \in Nat \ {0}
      BY <2>1, <2>4
    <3>2. t \in Nat \ {0} /\ t * rate >= n - tokens /\ (t - 1) * rate < n - tokens
      BY <3>1, TicksAreLeast
    <3>3. time_until_available(clock, n) = t /\ t # Forever
      BY <2>1, <2>4, <3>2 DEF time_until_available, Forever
    <3> HIDE DEF t
    <3>4. n <= Refilled(clock + t)
      <4>1. clock + t > last /\ (clock + t) - last = t /\ t * rate \in Int
        BY <2>1, <3>2
      <4>2. Refilled(clock + t) = AtMost(burst, tokens + t * rate)
        BY <2>1, <3>2, <4>1 DEF Refilled
      <4> QED BY <2>1, <2>4, <3>2, <4>1, <4>2 DEF AtMost
    <3>5. n > Refilled(clock + t - 1)
      <4>1. clock + t - 1 \in Int /\ (clock + t - 1) - last = t - 1 /\ (t - 1) * rate = rate * (t - 1)
        BY <2>1, <3>2
      <4>2. rate * (t - 1) \in Int
        BY <2>1, <3>2
      <4>3. CASE t = 1
        <5>1. Refilled(clock + t - 1) = tokens
          BY <2>1, <4>3
        <5> QED BY <2>1, <2>4, <5>1
      <4>4. CASE t > 1
        <5>1. clock + t - 1 > last
          BY <2>1, <3>2, <4>4
        <5>2. Refilled(clock + t - 1) \in 0..burst /\ Refilled(clock + t - 1) <= tokens + rate * (t - 1)
          BY <4>1, <5>1, RefilledBounds
        <5> QED BY <2>1, <3>2, <4>1, <4>2, <5>2
      <4> QED BY <3>2, <4>3, <4>4
    <3> QED BY <3>3, <3>4, <3>5
  <2> QED BY <2>1, <2>2, <2>3, <2>4
<1> QED BY <1>1, <1>2, BucketInvHolds, PTL DEF BucketKeepsTheRate

-----------------------------------------------------------------------------
(* The task parse-duration.                                                *)

LEMMA UnitsAre ==
  ASSUME NEW name \in DOMAIN Unit
  PROVE  Unit[name] \in Nat \ {0} /\ Unit[name] <= Durations!Ten(Digits)
<1>1. Unit \in [DOMAIN Unit -> Nat \ {0}] /\ \A x \in DOMAIN Unit : Unit[x] <= Durations!Ten(Digits)
  BY DurationAssumption, Zenon DEF Durations!ConstantsOK
<1> QED BY <1>1

LEMMA DigitsAre ==
  ASSUME NEW c \in Durations!Digit
  PROVE  DigitValue[c] \in 0..9
<1>1. DigitValue \in [Durations!Digit -> 0..9]
  BY DurationAssumption, Zenon DEF Durations!ConstantsOK
<1> QED BY <1>1

\* A digit, the point and a unit are three things.
LEMMA CharactersAre ==
  /\ "." \notin Durations!Digit /\ "." \notin DOMAIN Unit
  /\ \A c \in DOMAIN Unit : c \notin Durations!Digit
BY DurationAssumption, Zenon DEF Durations!ConstantsOK

LEMMA LimitsAre == kLimit \in Nat \ {0} /\ Digits \in Nat
BY DurationAssumption, Zenon DEF Durations!ConstantsOK

LEMMA TenIs ==
  /\ Durations!Ten(0) = 1
  /\ \A n \in Nat : Durations!Ten(n) \in Nat \ {0} /\ Durations!Ten(n + 1) = 10 * Durations!Ten(n)
<1> DEFINE D == [p \in Nat \X Nat |-> 10 * p[1]]
           Is(f) == f = [n \in Nat |-> IF n = 0 THEN 1 ELSE 10 * f[n - 1]]
           power == CHOOSE f : Is(f)
<1>1. D \in [Nat \X Nat -> Nat]
  OBVIOUS
<1>2. PICK g \in [Nat -> Nat] : Unfolds(g, 1, D)
  <2> HIDE DEF D
  <2>1. ASSUME NEW one \in Nat PROVE \E g \in [Nat -> Nat] : Unfolds(g, one, D)
    BY <1>1, RecursiveFunction, Zenon
  <2> QED BY <2>1
<1>3. Is(g)
  <2>1. ASSUME NEW n \in Nat, n # 0 PROVE g[n] = 10 * g[n - 1]
    <3>1. n - 1 \in Nat /\ (n - 1) + 1 = n
      BY <2>1
    <3>2. g[(n - 1) + 1] = D[<<g[n - 1], n - 1>>]
      BY <1>2, <3>1 DEF Unfolds
    <3> QED BY <3>1, <3>2
  <2> QED BY <1>2, <2>1 DEF Unfolds
<1> HIDE DEF Is
<1>4. Is(power)
  BY <1>3
<1> HIDE DEF power
<1>5. power[0] = 1 /\ \A n \in Nat : power[n + 1] = 10 * power[n]
  <2>1. ASSUME NEW n \in Nat PROVE power[n + 1] = 10 * power[n]
    <3>1. n + 1 \in Nat /\ n + 1 # 0 /\ (n + 1) - 1 = n
      OBVIOUS
    <3> QED BY <1>4, <3>1 DEF Is
  <2>2. power[0] = 1
    BY <1>4 DEF Is
  <2> QED BY <2>1, <2>2
<1> DEFINE T == {n \in Nat : power[n] \in Nat \ {0}}
<1>6. T = Nat
  <2>1. 0 \in T
    BY <1>5
  <2>2. ASSUME NEW n \in T PROVE n + 1 \in T
    BY <1>5
  <2>3. T \in SUBSET Nat
    OBVIOUS
  <2> HIDE DEF T
  <2> QED BY <2>1, <2>2, <2>3, Ind
<1>7. \A n : Durations!Ten(n) = power[n]
  BY DEF Durations!Ten, power, Is
<1>8. \A n \in Nat : n \in T
  BY <1>6
<1>9. \A n \in Nat : power[n] \in Nat \ {0}
  BY <1>8 DEF T
<1> HIDE DEF T
<1>10. \A n \in Nat : Durations!Ten(n) \in Nat \ {0}
  BY <1>7, <1>9
<1>11. \A n \in Nat : Durations!Ten(n + 1) = 10 * Durations!Ten(n)
  BY <1>5, <1>7
<1>12. Durations!Ten(0) = 1
  BY <1>5, <1>7
<1> QED BY <1>10, <1>11, <1>12

LEMMA TenAdds ==
  ASSUME NEW a \in Nat, NEW b \in Nat
  PROVE  Durations!Ten(a + b) = Durations!Ten(a) * Durations!Ten(b)
<1> DEFINE T == {n \in Nat : Durations!Ten(a + n) = Durations!Ten(a) * Durations!Ten(n)}
<1>0. Durations!Ten(a) \in Nat
  BY TenIs
<1>1. 0 \in T
  <2>1. a + 0 = a
    OBVIOUS
  <2> QED BY <1>0, <2>1, TenIs
<1>2. ASSUME NEW n \in T PROVE n + 1 \in T
  <2>1. n \in Nat /\ a + (n + 1) = (a + n) + 1 /\ a + n \in Nat
    OBVIOUS
  <2>2. Durations!Ten((a + n) + 1) = 10 * Durations!Ten(a + n) /\ Durations!Ten(n + 1) = 10 * Durations!Ten(n)
        /\ Durations!Ten(n) \in Nat
    BY <2>1, TenIs
  <2>3. Durations!Ten(a + n) = Durations!Ten(a) * Durations!Ten(n)
    OBVIOUS
  <2> QED BY <1>0, <2>1, <2>2, <2>3
<1>3. T \in SUBSET Nat
  OBVIOUS
<1> HIDE DEF T
<1>4. b \in T
  BY <1>1, <1>2, <1>3, Ind
<1> QED BY <1>4 DEF T

\* Spelling: places i + 1 to j of s are digits.
Spells(s, i, j) ==
    /\ i \in Nat /\ j \in Nat /\ i <= j /\ j <= Len(s)
    /\ \A k \in (i + 1)..j : s[k] \in Durations!Digit

LEMMA SpellsPart ==
  ASSUME NEW s, NEW i, NEW j, Spells(s, i, j), NEW k \in i..j
  PROVE  Spells(s, i, k) /\ Spells(s, k, j)
<1>1. i \in Nat /\ j \in Nat /\ i <= j /\ k \in Nat /\ i <= k /\ k <= j
  BY DEF Spells
<1>2. (i + 1)..k \subseteq (i + 1)..j /\ (k + 1)..j \subseteq (i + 1)..j
  BY <1>1
<1> QED BY <1>1, <1>2 DEF Spells

\* What is spelt up to each place, by the definition's function.
Spelling(s, i, m, g) ==
    /\ g \in [0..m -> Nat] /\ g[0] = 0
    /\ \A n \in 1..m : g[n] = g[n - 1] * 10 + DigitValue[s[i + n]]

LEMMA SpellingIs ==
  ASSUME NEW s, NEW i, NEW j, Spells(s, i, j)
  PROVE  \E g : Spelling(s, i, j - i, g) /\ Durations!Number(s, i, j) = g[j - i]
<1> DEFINE m == j - i
           D == [p \in Nat \X (1..m) |-> p[1] * 10 + DigitValue[s[i + p[2]]]]
           Is(f) == f = [n \in 0..m |-> IF n = 0 THEN 0 ELSE f[n - 1] * 10 + DigitValue[s[i + n]]]
           value == CHOOSE f : Is(f)
<1>0. m \in Nat /\ \A n \in 1..m : DigitValue[s[i + n]] \in Nat
  <2>1. i \in Nat /\ j \in Nat /\ i <= j
    BY DEF Spells
  <2>2. ASSUME NEW n \in 1..m PROVE DigitValue[s[i + n]] \in Nat
    <3>1. i + n \in (i + 1)..j
      BY <2>1
    <3>2. s[i + n] \in Durations!Digit
      BY <3>1 DEF Spells
    <3> QED BY <3>2, DigitsAre
  <2> QED BY <2>1, <2>2
<1> HIDE DEF m
<1>1. D \in [Nat \X (1..m) -> Nat]
  BY <1>0
<1>2. PICK g \in [0..m -> Nat] : Iterates(g, 0, m, D)
  <2> HIDE DEF D
  <2>1. ASSUME NEW zero \in Nat PROVE \E g \in [0..m -> Nat] : Iterates(g, zero, m, D)
    BY <1>0, <1>1, RecursiveUpTo, Zenon
  <2> QED BY <2>1
<1>3. ASSUME NEW n \in 1..m PROVE g[n] = g[n - 1] * 10 + DigitValue[s[i + n]]
  <2>1. n - 1 \in 0..m
    BY <1>0
  <2>2. g[n - 1] \in Nat
    BY <2>1
  <2> QED BY <1>2, <2>2 DEF Iterates
<1>4. Spelling(s, i, m, g)
  BY <1>2, <1>3 DEF Iterates, Spelling
<1>5. Is(g)
  <2>1. \A n \in 0..m : n # 0 => n \in 1..m
    BY <1>0
  <2> QED BY <1>2, <1>3, <2>1 DEF Iterates
<1> HIDE DEF Is
<1>6. Is(value)
  BY <1>5
<1> HIDE DEF value
<1>7. Spelling(s, i, m, value)
  <2>1. \A n \in 1..m : n - 1 \in 0..m /\ n \in 0..m /\ n # 0
    BY <1>0
  <2>2. value[0] = 0
    BY <1>0, <1>6 DEF Is
  <2>3. \A n \in 1..m : value[n] = value[n - 1] * 10 + DigitValue[s[i + n]]
    BY <1>6, <2>1 DEF Is
  <2>4. value \in [0..m -> Nat]
    <3> DEFINE T == {n \in 0..m : value[n] \in Nat}
    <3>1. 0 \in T
      BY <1>0, <2>2
    <3>2. ASSUME NEW n \in 1..m, n - 1 \in T PROVE n \in T
      BY <1>0, <2>1, <2>3, <3>2
    <3>3. T \in SUBSET (0..m)
      OBVIOUS
    <3> HIDE DEF T
    <3>4. T = 0..m
      BY <1>0, <3>1, <3>2, <3>3, IndUpTo, Zenon
    <3> QED BY <1>6, <3>4 DEF T, Is
  <2> QED BY <2>2, <2>3, <2>4 DEF Spelling
<1>8. Durations!Number(s, i, j) = value[m]
  BY Zenon DEF Durations!Number, value, Is, m
<1> QED BY <1>7, <1>8, Zenon DEF m

\* A function like that is the same as far as two of them go.
LEMMA SpellingAlike ==
  ASSUME NEW s, NEW i, NEW m \in Nat, NEW n \in 0..m, NEW g, NEW h, Spelling(s, i, m, g), Spelling(s, i, n, h)
  PROVE  g[n] = h[n]
<1> DEFINE T == {k \in 0..n : g[k] = h[k]}
<1>1. 0 \in T
  BY DEF Spelling
<1>2. ASSUME NEW k \in 1..n, k - 1 \in T PROVE k \in T
  <2>1. k \in 1..m /\ g[k - 1] = h[k - 1] /\ k \in 0..n
    BY <1>2
  <2> QED BY <2>1 DEF Spelling
<1>3. T \in SUBSET (0..n) /\ n \in Nat
  OBVIOUS
<1> HIDE DEF T
<1>4. T = 0..n
  BY <1>1, <1>2, <1>3, IndUpTo, Zenon
<1>5. n \in T
  BY <1>3, <1>4
<1> QED BY <1>5 DEF T

LEMMA NumberIs ==
  ASSUME NEW s, NEW i, NEW j, Spells(s, i, j)
  PROVE  /\ Durations!Number(s, i, j) \in Nat
         /\ i = j => Durations!Number(s, i, j) = 0
         /\ i < j => Durations!Number(s, i, j) = Durations!Number(s, i, j - 1) * 10 + DigitValue[s[j]]
<1>0. i \in Nat /\ j \in Nat /\ i <= j
  BY DEF Spells
<1>1. PICK g : Spelling(s, i, j - i, g) /\ Durations!Number(s, i, j) = g[j - i]
  BY SpellingIs, Zenon
<1>2. j - i \in 0..(j - i) /\ j - i \in Nat
  BY <1>0
<1>3. Durations!Number(s, i, j) \in Nat /\ (i = j => Durations!Number(s, i, j) = 0)
  BY <1>0, <1>1, <1>2 DEF Spelling
<1>4. CASE i < j
  <2>1. j - 1 \in i..j /\ (j - 1) - i \in 0..(j - i) /\ j - i \in 1..(j - i) /\ (j - i) - 1 = (j - 1) - i /\ i + (j - i) = j
    BY <1>0, <1>4
  <2>2. Spells(s, i, j - 1)
    BY <2>1, SpellsPart, Zenon
  <2>3. PICK h : Spelling(s, i, (j - 1) - i, h) /\ Durations!Number(s, i, j - 1) = h[(j - 1) - i]
    BY <2>2, SpellingIs, Zenon
  <2>4. g[(j - 1) - i] = h[(j - 1) - i]
    <3> DEFINE m == j - i
               n == (j - 1) - i
    <3>1. m \in Nat /\ n \in 0..m /\ Spelling(s, i, m, g) /\ Spelling(s, i, n, h)
      BY <1>1, <1>2, <2>1, <2>3
    <3> HIDE DEF m, n
    <3>2. g[n] = h[n]
      BY <3>1, SpellingAlike
    <3> QED BY <3>2 DEF n
  <2>5. g[j - i] = g[(j - 1) - i] * 10 + DigitValue[s[j]]
    BY <1>1, <2>1 DEF Spelling
  <2> QED BY <1>1, <1>3, <1>4, <2>3, <2>4, <2>5, <1>0
<1> QED BY <1>0, <1>3, <1>4

\* A number is its first digits, moved, and the rest, which is less than the move.
LEMMA NumberSplits ==
  ASSUME NEW s, NEW i, NEW j, NEW k \in i..j, Spells(s, i, j)
  PROVE  Durations!Number(s, i, j) = Durations!Number(s, i, k) * Durations!Ten(j - k) + Durations!Number(s, k, j)
<1>0. i \in Nat /\ j \in Nat /\ i <= k /\ k <= j /\ k \in Nat /\ j - k \in Nat
  BY DEF Spells
<1> DEFINE SplitAt(m) == Durations!Number(s, i, k + m) =
                            Durations!Number(s, i, k) * Durations!Ten(m) + Durations!Number(s, k, k + m)
           T == {m \in 0..(j - k) : SplitAt(m)}
<1>1. \A m \in 0..(j - k) : Spells(s, i, k + m) /\ Spells(s, k, k + m)
  <2> SUFFICES ASSUME NEW m \in 0..(j - k) PROVE Spells(s, i, k + m) /\ Spells(s, k, k + m)
    OBVIOUS
  <2>1. k + m \in i..j /\ k \in i..(k + m)
    BY <1>0
  <2>2. Spells(s, i, k + m)
    BY <2>1, SpellsPart, Zenon
  <2> QED BY <2>1, <2>2, SpellsPart, Zenon
<1>2. 0 \in T
  <2>1. k + 0 = k /\ 0 \in 0..(j - k)
    BY <1>0
  <2>2. Spells(s, i, k) /\ Spells(s, k, k)
    BY <1>1, <2>1
  <2>3. Durations!Number(s, i, k) \in Nat /\ Durations!Number(s, k, k) = 0
    BY <2>2, NumberIs
  <2> QED BY <2>1, <2>3, TenIs
<1>3. ASSUME NEW m \in 1..(j - k), m - 1 \in T PROVE m \in T
  <2>1. /\ m \in Nat /\ m - 1 \in 0..(j - k) /\ m \in 0..(j - k) /\ (m - 1) + 1 = m /\ m - 1 \in Nat
        /\ (k + m) - 1 = k + (m - 1) /\ i < k + m /\ k < k + m /\ k \in i..j
    BY <1>0
  <2> DEFINE N == Durations!Number(s, i, k)
             A == Durations!Number(s, i, k + (m - 1))
             B == Durations!Number(s, k, k + (m - 1))
             d == DigitValue[s[k + m]]
             t == Durations!Ten(m - 1)
  <2>2. Durations!Number(s, i, k + m) = A * 10 + d
    <3>1. Spells(s, i, k + m)
      BY <1>1, <2>1
    <3> QED BY <2>1, <3>1, NumberIs
  <2>3. Durations!Number(s, k, k + m) = B * 10 + d
    <3>1. Spells(s, k, k + m)
      BY <1>1, <2>1
    <3> QED BY <2>1, <3>1, NumberIs
  <2>4. A \in Nat /\ B \in Nat /\ N \in Nat
    <3>1. Spells(s, i, k + (m - 1)) /\ Spells(s, k, k + (m - 1)) /\ Spells(s, i, k)
      BY <1>1, <2>1, SpellsPart
    <3> QED BY <3>1, NumberIs
  <2>5. d \in Nat
    <3>1. k + m \in (i + 1)..j
      BY <1>0, <2>1
    <3>2. s[k + m] \in Durations!Digit
      BY <3>1 DEF Spells
    <3> QED BY <3>2, DigitsAre
  <2>6. Durations!Ten(m) = 10 * t /\ t \in Nat
    BY <2>1, TenIs
  <2>7. A = N * t + B
    BY <1>3
  <2> HIDE DEF N, A, B, d, t
  <2>8. A * 10 + d = N * (10 * t) + (B * 10 + d)
    BY <2>4, <2>5, <2>6, <2>7
  <2> QED BY <2>1, <2>2, <2>3, <2>6, <2>8 DEF N
<1>4. T \in SUBSET (0..(j - k))
  OBVIOUS
<1> HIDE DEF T
<1>5. T = 0..(j - k)
  BY <1>0, <1>2, <1>3, <1>4, IndUpTo, Zenon
<1>6. SplitAt(j - k)
  BY <1>0, <1>5 DEF T
<1>7. k + (j - k) = j
  BY <1>0
<1> QED BY <1>6, <1>7

LEMMA NumberBelow ==
  ASSUME NEW s, NEW i, NEW j, Spells(s, i, j)
  PROVE  Durations!Number(s, i, j) < Durations!Ten(j - i)
<1>0. i \in Nat /\ j \in Nat /\ i <= j /\ j - i \in Nat
  BY DEF Spells
<1> DEFINE T == {m \in 0..(j - i) : Durations!Number(s, i, i + m) < Durations!Ten(m)}
<1>1. \A m \in 0..(j - i) : Spells(s, i, i + m)
  <2> SUFFICES ASSUME NEW m \in 0..(j - i) PROVE Spells(s, i, i + m)
    OBVIOUS
  <2>1. i + m \in i..j
    BY <1>0
  <2> QED BY <2>1, SpellsPart, Zenon
<1>2. 0 \in T
  <2>1. i + 0 = i /\ 0 \in 0..(j - i)
    BY <1>0
  <2>2. Spells(s, i, i)
    BY <1>1, <2>1
  <2>3. Durations!Number(s, i, i) = 0
    BY <2>2, NumberIs
  <2> QED BY <2>1, <2>3, TenIs
<1>3. ASSUME NEW m \in 1..(j - i), m - 1 \in T PROVE m \in T
  <2>1. /\ m - 1 \in 0..(j - i) /\ m \in 0..(j - i) /\ (m - 1) + 1 = m /\ m - 1 \in Nat
        /\ (i + m) - 1 = i + (m - 1) /\ i < i + m /\ i + m \in (i + 1)..j
    BY <1>0
  <2>2. Spells(s, i, i + m) /\ Spells(s, i, i + (m - 1))
    BY <1>1, <2>1
  <2>3. Durations!Number(s, i, i + m) = Durations!Number(s, i, i + (m - 1)) * 10 + DigitValue[s[i + m]]
    BY <2>1, <2>2, NumberIs
  <2>4. Durations!Number(s, i, i + (m - 1)) \in Nat
    BY <2>2, NumberIs
  <2>5. DigitValue[s[i + m]] \in 0..9
    <3>1. s[i + m] \in Durations!Digit
      BY <2>1 DEF Spells
    <3> QED BY <3>1, DigitsAre
  <2>6. Durations!Ten(m) = 10 * Durations!Ten(m - 1) /\ Durations!Ten(m - 1) \in Nat
    BY <2>1, TenIs
  <2>7. Durations!Number(s, i, i + (m - 1)) < Durations!Ten(m - 1)
    BY <1>3
  <2> QED BY <2>1, <2>3, <2>4, <2>5, <2>6, <2>7
<1>4. T \in SUBSET (0..(j - i))
  OBVIOUS
<1> HIDE DEF T
<1>5. T = 0..(j - i)
  BY <1>0, <1>2, <1>3, <1>4, IndUpTo, Zenon
<1>6. j - i \in T /\ i + (j - i) = j
  BY <1>0, <1>5
<1> QED BY <1>6 DEF T

LEMMA DivIs ==
  ASSUME NEW x \in Nat, NEW d \in Nat \ {0}
  PROVE  x \div d \in Nat /\ d * (x \div d) <= x /\ x < d * (x \div d) + d
<1> DEFINE q == x \div d
<1>1. q \in Int /\ x = d * q + (x % d) /\ x % d \in 0..(d - 1)
  OBVIOUS
<1>2. q >= 0
  OBVIOUS
<1> HIDE DEF q
<1>3. q \in Nat /\ d * q <= x /\ x < d * q + d
  <2> DEFINE r == x % d
             p == d * q
  <2>1. p \in Int
    BY <1>1
  <2>2. x = p + r /\ r \in 0..(d - 1)
    BY <1>1
  <2> HIDE DEF p, r
  <2>3. q \in Nat /\ p <= x /\ x < p + d
    BY <1>1, <1>2, <2>1, <2>2
  <2> QED BY <2>3 DEF p
<1> QED BY <1>3 DEF q

\* No product of naturals is less than one of smaller naturals.
LEMMA Times ==
  ASSUME NEW a \in Nat, NEW b \in Nat, NEW c \in Nat, a <= b
  PROVE  a * c <= b * c /\ c * a <= c * b
<1>1. PICK k \in Nat : b = a + k
  <2>1. b - a \in Nat /\ b = a + (b - a)
    OBVIOUS
  <2> QED BY <2>1
<1>2. b * c = a * c + k * c /\ c * b = c * a + c * k
  BY <1>1
<1>3. a * c \in Nat /\ k * c \in Nat /\ c * a \in Nat /\ c * k \in Nat
  BY <1>1
<1> DEFINE ac == a * c  kc == k * c  ca == c * a  ck == c * k  bc == b * c  cb == c * b
<1>4. bc = ac + kc /\ cb = ca + ck /\ ac \in Nat /\ kc \in Nat /\ ca \in Nat /\ ck \in Nat
  BY <1>2, <1>3
<1> HIDE DEF ac, kc, ca, ck, bc, cb
<1>5. ac <= bc /\ ca <= cb
  BY <1>4
<1> QED BY <1>5 DEF ac, bc, ca, cb

LEMMA TimesBelow ==
  ASSUME NEW a \in Nat, NEW b \in Nat, NEW c \in Nat \ {0}, a < b
  PROVE  a * c < b * c /\ c * a < c * b
<1>1. a + 1 <= b /\ a + 1 \in Nat
  OBVIOUS
<1>2. (a + 1) * c <= b * c /\ c * (a + 1) <= c * b
  BY <1>1, Times
<1>3. (a + 1) * c = a * c + c /\ c * (a + 1) = c * a + c /\ a * c \in Nat /\ b * c \in Nat /\ c * a \in Nat /\ c * b \in Nat
  OBVIOUS
<1> DEFINE ac == a * c  ca == c * a  bc == b * c  cb == c * b
<1>4. ac + c <= bc /\ ca + c <= cb /\ ac \in Nat /\ bc \in Nat /\ ca \in Nat /\ cb \in Nat
  BY <1>2, <1>3
<1> HIDE DEF ac, ca, bc, cb
<1>5. ac < bc /\ ca < cb
  BY <1>4
<1> QED BY <1>5 DEF ac, bc, ca, cb

\* The quotient is the only number between.
LEMMA QuotientIs ==
  ASSUME NEW x \in Nat, NEW d \in Nat \ {0}, NEW q \in Nat, d * q <= x, x < d * (q + 1)
  PROVE  x \div d = q
<1> DEFINE p == x \div d
<1>1. p \in Nat /\ d * p <= x /\ x < d * (p + 1)
  <2>1. x \div d \in Nat /\ d * (x \div d) <= x /\ x < d * (x \div d) + d
    BY DivIs
  <2>2. d * ((x \div d) + 1) = d * (x \div d) + d
    BY <2>1
  <2> QED BY <2>1, <2>2
<1> HIDE DEF p
<1>2. ASSUME NEW a \in Nat, NEW b \in Nat, d * a <= x, x < d * (b + 1) PROVE a <= b
  <2> SUFFICES ASSUME ~(a <= b) PROVE FALSE
    OBVIOUS
  <2>1. b + 1 <= a /\ b + 1 \in Nat
    OBVIOUS
  <2>2. d * (b + 1) <= d * a
    BY <2>1, Times
  <2>3. d * (b + 1) \in Nat /\ d * a \in Nat
    OBVIOUS
  <2> DEFINE m == d * (b + 1)  n == d * a
  <2>4. m <= n /\ n <= x /\ x < m /\ m \in Nat /\ n \in Nat
    BY <1>2, <2>2, <2>3
  <2> HIDE DEF m, n
  <2> QED BY <2>4
<1>3. p <= q
  BY <1>1, <1>2
<1>4. q <= p
  BY <1>1, <1>2
<1>5. p = q
  BY <1>1, <1>3, <1>4
<1> QED BY <1>5 DEF p

\* The whole part divides on its own.
LEMMA WholeApart ==
  ASSUME NEW w \in Nat, NEW f \in Nat, NEW u \in Nat, NEW t \in Nat \ {0}
  PROVE  ((w * t + f) * u) \div t = w * u + ((f * u) \div t)
<1> DEFINE q == (f * u) \div t
           fu == f * u
           wu == w * u
<1>1. fu \in Nat /\ wu \in Nat
  OBVIOUS
<1>2. (w * t + f) * u = t * wu + fu
  OBVIOUS
<1>3. q \in Nat /\ t * q <= fu /\ fu < t * q + t
  BY <1>1, DivIs
<1> HIDE DEF q, fu, wu
<1>4. t * (wu + q) = t * wu + t * q /\ t * ((wu + q) + 1) = (t * wu + t * q) + t
  BY <1>1, <1>3
<1>5. t * wu \in Nat /\ t * q \in Nat
  BY <1>1, <1>3
<1> DEFINE a == t * wu  b == t * q  x == t * wu + fu
<1>6. x \in Nat /\ a + b <= x /\ x < (a + b) + t
  BY <1>1, <1>3, <1>5
<1>7. t * (wu + q) <= x /\ x < t * ((wu + q) + 1)
  BY <1>4, <1>6
<1> HIDE DEF x
<1>8. x \div t = wu + q
  BY <1>1, <1>3, <1>6, <1>7, QuotientIs
<1> QED BY <1>2, <1>8 DEF x, wu, q, fu

\* What is lost of a fraction of which only the first digits are read: a is what they spell, b
\* the rest, t and v the powers of ten of their numbers.
Loss(a, b, t, v, u, l) == ((a * v + b) * u) \div (t * v) = ((a * u) \div t) + l /\ (t % u = 0 => l = 0)
LEMMA Loses ==
  ASSUME NEW a \in Nat, NEW b \in Nat, NEW t \in Nat \ {0}, NEW v \in Nat \ {0}, NEW u \in Nat \ {0},
         b < v, u <= t
  PROVE  \E l \in {0, 1} : Loss(a, b, t, v, u, l)
<1> DEFINE q == (a * u) \div t
           x == (a * v + b) * u
           d == t * v
<1>1. q \in Nat /\ t * q <= a * u /\ a * u < t * q + t
  <2>1. a * u \in Nat
    OBVIOUS
  <2> QED BY <2>1, DivIs
<1>2. x \in Nat /\ d \in Nat \ {0}
  OBVIOUS
<1>3. x = (a * u) * v + b * u
  OBVIOUS
<1> HIDE DEF q, x, d
<1>4. d * q <= x
  <2>1. (t * q) * v <= (a * u) * v
    <3>1. t * q \in Nat /\ a * u \in Nat
      BY <1>1
    <3> QED BY <1>1, <3>1, Times
  <2>2. d * q = (t * q) * v
    BY <1>1 DEF d
  <2>3. (t * q) * v \in Nat /\ (a * u) * v \in Nat /\ b * u \in Nat
    BY <1>1
  <2> DEFINE m == (t * q) * v  n == (a * u) * v  k == b * u
  <2>4. m <= n /\ d * q = m /\ x = n + k /\ m \in Nat /\ n \in Nat /\ k \in Nat
    BY <1>3, <2>1, <2>2, <2>3
  <2> HIDE DEF m, n, k
  <2> QED BY <2>4
<1>5. x < d * (q + 2)
  <2>1. (a * u) * v < (t * q + t) * v
    <3>1. a * u \in Nat /\ t * q + t \in Nat
      BY <1>1
    <3> QED BY <1>1, <3>1, TimesBelow
  <2>2. b * u <= v * t
    <3>1. b * u <= v * u
      BY Times
    <3>2. v * u <= v * t
      BY Times
    <3>3. b * u \in Nat /\ v * u \in Nat /\ v * t \in Nat
      OBVIOUS
    <3> DEFINE m == b * u  n == v * u  k == v * t
    <3>4. m <= n /\ n <= k /\ m \in Nat /\ n \in Nat /\ k \in Nat
      BY <3>1, <3>2, <3>3
    <3> HIDE DEF m, n, k
    <3>5. m <= k
      BY <3>4
    <3> QED BY <3>5 DEF m, k
  <2>3. d * (q + 2) = (t * q + t) * v + v * t
    BY <1>1 DEF d
  <2>4. (a * u) * v \in Nat /\ (t * q + t) * v \in Nat /\ b * u \in Nat /\ v * t \in Nat
    BY <1>1
  <2> DEFINE m == (a * u) * v  n == (t * q + t) * v  k == b * u  h == v * t
  <2>5. m < n /\ k <= h /\ x = m + k /\ d * (q + 2) = n + h /\ m \in Nat /\ n \in Nat /\ k \in Nat /\ h \in Nat
    BY <1>3, <2>1, <2>2, <2>3, <2>4
  <2> HIDE DEF m, n, k, h
  <2> QED BY <2>5
<1>6. CASE x < d * (q + 1)
  <2>1. x \div d = q
    BY <1>1, <1>2, <1>4, <1>6, QuotientIs
  <2>2. x \div d = q + 0 /\ 0 \in {0, 1}
    BY <1>1, <2>1
  <2> QED BY <2>2 DEF x, d, q, Loss
<1>7. CASE ~(x < d * (q + 1))
  <2>1. d * (q + 1) <= x
    <3>1. d * (q + 1) \in Nat
      BY <1>1, <1>2
    <3> QED BY <1>2, <1>7, <3>1
  <2>2. q + 1 \in Nat /\ (q + 1) + 1 = q + 2
    BY <1>1
  <2>3. x < d * ((q + 1) + 1)
    BY <1>5, <2>2
  <2>4. x \div d = q + 1
    BY <1>2, <2>1, <2>2, <2>3, QuotientIs
  <2>5. t % u # 0
    <3> SUFFICES ASSUME t % u = 0 PROVE FALSE
      OBVIOUS
    <3> DEFINE c == t \div u
    <3>1. c \in Nat /\ t = u * c
      <4>1. t \div u \in Int /\ t = u * (t \div u) + (t % u)
        OBVIOUS
      <4>2. t \div u \in Nat
        BY DivIs
      <4> QED BY <4>1, <4>2
    <3> HIDE DEF c
    <3>2. a < c * (q + 1)
      <4> SUFFICES ASSUME ~(a < c * (q + 1)) PROVE FALSE
        OBVIOUS
      <4>1. c * (q + 1) \in Nat /\ c * (q + 1) <= a
        BY <1>1, <3>1
      <4>2. (c * (q + 1)) * u <= a * u
        BY <4>1, Times
      <4>3. (c * (q + 1)) * u = t * q + t
        BY <1>1, <3>1
      <4>4. t * q + t \in Nat /\ a * u \in Nat
        BY <1>1
      <4> DEFINE m == t * q + t  n == a * u
      <4>5. n < m /\ m <= n /\ m \in Nat /\ n \in Nat
        BY <1>1, <4>2, <4>3, <4>4
      <4> HIDE DEF m, n
      <4> QED BY <4>5
    <3>3. a * v + b < (c * (q + 1)) * v
      <4> DEFINE k == c * (q + 1)
      <4>1. k \in Nat /\ a + 1 <= k /\ a + 1 \in Nat
        BY <1>1, <3>1, <3>2
      <4> HIDE DEF k
      <4>2. (a + 1) * v <= k * v
        BY <4>1, Times
      <4>3. (a + 1) * v = a * v + v /\ a * v \in Nat /\ k * v \in Nat
        BY <4>1
      <4> DEFINE m == a * v  n == k * v
      <4>4. m + v <= n /\ m \in Nat /\ n \in Nat
        BY <4>2, <4>3
      <4> HIDE DEF m, n
      <4>5. m + b < n
        BY <4>4
      <4> QED BY <4>5 DEF m, n, k
    <3>4. (a * v + b) * u < ((c * (q + 1)) * v) * u
      <4>1. a * v + b \in Nat /\ (c * (q + 1)) * v \in Nat
        BY <1>1, <3>1
      <4> QED BY <3>3, <4>1, TimesBelow
    <3>5. ((c * (q + 1)) * v) * u = d * (q + 1)
      BY <1>1, <3>1 DEF d
    <3> QED BY <1>7, <3>4, <3>5 DEF x
  <2> QED BY <2>4, <2>5 DEF x, d, q, Loss
<1> QED BY <1>6, <1>7

\* The fraction s[p + 1], ..., s[f] with the whole part w in a unit of u nanoseconds, as it is
\* read and as it is.
ReadTo(p, f) == p + Durations!Lesser(f - p, Digits)
FractionRead(s, p, f, u) == (Durations!Number(s, p, ReadTo(p, f)) * u) \div Durations!Ten(Durations!Lesser(f - p, Digits))
Exactly(s, w, p, f, u) ==
    ((w * Durations!Ten(f - p) + Durations!Number(s, p, f)) * u) \div Durations!Ten(f - p)

LEMMA LesserIs ==
  ASSUME NEW p, NEW f, p \in Nat, f \in Nat, p <= f
  PROVE  /\ Durations!Lesser(f - p, Digits) \in 0..(f - p) /\ ReadTo(p, f) \in p..f
         /\ ReadTo(p, f) - p = Durations!Lesser(f - p, Digits)
         /\ f - p <= Digits => Durations!Lesser(f - p, Digits) = f - p /\ ReadTo(p, f) = f
         /\ f - p > Digits => Durations!Lesser(f - p, Digits) = Digits
BY LimitsAre DEF Durations!Lesser, ReadTo

LEMMA FractionLoses ==
  ASSUME NEW s, NEW p, NEW f, Spells(s, p, f), NEW w \in Nat, NEW u \in Nat \ {0}, u <= Durations!Ten(Digits)
  PROVE  /\ FractionRead(s, p, f, u) \in Nat
         /\ \E l \in {0, 1} : /\ Exactly(s, w, p, f, u) = (w * u + FractionRead(s, p, f, u)) + l
                              /\ l = 1 => f - p > Digits /\ Durations!Ten(Digits) % u # 0
<1> DEFINE read == Durations!Lesser(f - p, Digits)
           k == ReadTo(p, f)
           t == Durations!Ten(read)
           v == Durations!Ten(f - k)
           a == Durations!Number(s, p, k)
           b == Durations!Number(s, k, f)
           all == Durations!Number(s, p, f)
<1>1. p \in Nat /\ f \in Nat /\ p <= f /\ f - p \in Nat
  BY DEF Spells
<1>2. read \in Nat /\ k \in p..f /\ k - p = read /\ f - k \in Nat /\ f - p = read + (f - k)
  BY <1>1, LesserIs
<1>3. Spells(s, p, k) /\ Spells(s, k, f)
  BY <1>2, SpellsPart, Zenon
<1>4. a \in Nat /\ b \in Nat /\ all \in Nat
  BY <1>3, NumberIs
<1>5. b < v
  BY <1>3, NumberBelow
<1>6. t \in Nat \ {0} /\ v \in Nat \ {0} /\ Durations!Ten(f - p) = t * v
  BY <1>2, TenIs, TenAdds
<1>7. all = a * v + b
  BY <1>2, NumberSplits
<1>8. FractionRead(s, p, f, u) = (a * u) \div t
  BY DEF FractionRead
<1>9. Exactly(s, w, p, f, u) = w * u + ((all * u) \div (t * v))
  <2>1. t * v \in Nat \ {0}
    BY <1>6
  <2>2. ((w * (t * v) + all) * u) \div (t * v) = w * u + ((all * u) \div (t * v))
    BY <1>4, <2>1, WholeApart
  <2> QED BY <1>6, <2>2 DEF Exactly
<1>10. f - p > Digits => t = Durations!Ten(Digits)
  BY <1>1, LesserIs
<1>11. f - p <= Digits => all = a /\ v = 1
  <2>1. ASSUME f - p <= Digits PROVE k = f /\ f - k = 0
    BY <1>1, <2>1, LesserIs
  <2> QED BY <2>1, TenIs
<1> HIDE DEF read, k, t, v, a, b, all
<1>12. (a * u) \div t \in Nat
  <2>1. a * u \in Nat
    BY <1>4
  <2> QED BY <1>6, <2>1, DivIs
<1>13. CASE f - p <= Digits
  <2>1. t * v = t
    BY <1>6, <1>11, <1>13
  <2>2. Exactly(s, w, p, f, u) = w * u + ((a * u) \div t)
    BY <1>9, <1>11, <1>13, <2>1
  <2>3. w * u \in Nat
    OBVIOUS
  <2>4. Exactly(s, w, p, f, u) = (w * u + FractionRead(s, p, f, u)) + 0
    BY <1>8, <1>12, <2>2, <2>3
  <2> QED BY <1>8, <1>12, <2>4
<1>14. CASE f - p > Digits
  <2>1. u <= t
    BY <1>10, <1>14
  <2>a. a \in Nat /\ b \in Nat /\ t \in Nat \ {0} /\ v \in Nat \ {0} /\ b < v
    BY <1>4, <1>5, <1>6
  <2>b. PICK l \in {0, 1} : Loss(a, b, t, v, u, l)
    BY <2>a, <2>1, Loses
  <2>2. ((a * v + b) * u) \div (t * v) = ((a * u) \div t) + l /\ (t % u = 0 => l = 0)
    BY <2>b DEF Loss
  <2>3. w * u \in Nat
    OBVIOUS
  <2>4. (all * u) \div (t * v) = ((a * u) \div t) + l
    BY <1>7, <2>2
  <2>5. Exactly(s, w, p, f, u) = (w * u + FractionRead(s, p, f, u)) + l
    <3> DEFINE x == (all * u) \div (t * v)  y == (a * u) \div t  z == w * u
    <3>1. x = y + l /\ y \in Nat /\ z \in Nat /\ FractionRead(s, p, f, u) = y /\ Exactly(s, w, p, f, u) = z + x
      BY <1>8, <1>9, <1>12, <2>3, <2>4
    <3> HIDE DEF x, y, z
    <3>2. Exactly(s, w, p, f, u) = (z + FractionRead(s, p, f, u)) + l
      BY <2>2, <3>1
    <3> QED BY <3>2 DEF z
  <2>6. l = 1 => Durations!Ten(Digits) % u # 0
    BY <1>10, <1>14, <2>2
  <2> QED BY <1>8, <1>12, <1>14, <2>2, <2>5, <2>6
<1>15. f - p <= Digits \/ f - p > Digits
  BY <1>1, LimitsAre
<1> QED BY <1>13, <1>14, <1>15

\* Where a run of characters of C after place i ends.
RunEnds(s, i, C, j) ==
    j \in i..Len(s) /\ (\A k \in (i + 1)..j : s[k] \in C) /\ (j < Len(s) => s[j + 1] \notin C)

LEMMA RunIs ==
  ASSUME NEW A, NEW s \in Seq(A), NEW i \in 0..Len(s), NEW C
  PROVE  /\ RunEnds(s, i, C, Durations!Run(s, i, C))
         /\ \A j : RunEnds(s, i, C, j) => j = Durations!Run(s, i, C)
<1>0. Len(s) \in Nat /\ i \in Nat /\ i <= Len(s)
  OBVIOUS
<1> DEFINE T == {j \in i..Len(s) : j = Len(s) \/ s[j + 1] \notin C}
<1>1. PICK e \in T : \A j \in T : e <= j
  <2>1. Len(s) \in T /\ T \in SUBSET Nat
    BY <1>0
  <2> HIDE DEF T
  <2> QED BY <2>1, Least
<1>2. RunEnds(s, i, C, e)
  <2>1. ASSUME NEW k \in (i + 1)..e PROVE s[k] \in C
    <3>1. k - 1 \in i..Len(s) /\ ~(e <= k - 1) /\ (k - 1) + 1 = k /\ k - 1 # Len(s)
      BY <1>0, <1>1
    <3> QED BY <1>1, <3>1
  <2> QED BY <1>0, <1>1, <2>1 DEF RunEnds
<1>3. ASSUME NEW j, NEW h, RunEnds(s, i, C, j), RunEnds(s, i, C, h) PROVE ~(j < h)
  <2> SUFFICES ASSUME j < h PROVE FALSE
    OBVIOUS
  <2>1. j \in i..Len(s) /\ h \in i..Len(s) /\ j + 1 \in (i + 1)..h /\ j < Len(s)
    BY <1>0, <1>3 DEF RunEnds
  <2> QED BY <1>3, <2>1 DEF RunEnds
<1>4. ASSUME NEW j, NEW h, RunEnds(s, i, C, j), RunEnds(s, i, C, h) PROVE j = h
  <2>1. ~(j < h) /\ ~(h < j)
    BY <1>3, <1>4
  <2>2. j \in i..Len(s) /\ h \in i..Len(s)
    BY <1>4 DEF RunEnds
  <2> QED BY <1>0, <2>1, <2>2
<1>5. Durations!Run(s, i, C) = CHOOSE j \in i..Len(s) : RunEnds(s, i, C, j)
  <2>1. \A j \in i..Len(s) : RunEnds(s, i, C, j) <=> (\A k \in (i + 1)..j : s[k] \in C) /\ (j < Len(s) => s[j + 1] \notin C)
    BY DEF RunEnds
  <2> QED BY <2>1 DEF Durations!Run
<1>6. e \in i..Len(s)
  BY <1>1
<1>7. RunEnds(s, i, C, Durations!Run(s, i, C))
  BY <1>2, <1>5, <1>6, Zenon
<1> QED BY <1>4, <1>7

LEMMA EndsAre ==
  ASSUME NEW A, NEW s \in Seq(A)
  PROVE  /\ Len(s) \in Nat /\ DOMAIN s = 1..Len(s) /\ Durations!Ends(s) \subseteq 1..Len(s)
         /\ \A e \in Durations!Ends(s) : s[e] \in DOMAIN Unit
         /\ \A e \in 1..Len(s) : s[e] \in DOMAIN Unit => e \in Durations!Ends(s)
BY DEF Durations!Ends

\* The component that ends at e starts at i.
StartsAt(s, e, i) ==
    /\ i \in {0} \cup Durations!Ends(s)
    /\ i < e /\ \A j \in Durations!Ends(s) : j < e => j <= i

LEMMA StartIs ==
  ASSUME NEW A, NEW s \in Seq(A), NEW e \in Durations!Ends(s)
  PROVE  /\ StartsAt(s, e, Durations!Start(s, e))
         /\ \A i : StartsAt(s, e, i) => i = Durations!Start(s, e)
<1>0. Len(s) \in Nat /\ Durations!Ends(s) \subseteq 1..Len(s) /\ e \in 1..Len(s)
  BY EndsAre
<1> DEFINE T == {e - i : i \in {j \in {0} \cup Durations!Ends(s) : j < e}}
<1>1. PICK d \in T : \A n \in T : d <= n
  <2>1. e - 0 \in T
    BY <1>0
  <2>2. T \in SUBSET Nat
    BY <1>0
  <2> HIDE DEF T
  <2> QED BY <2>1, <2>2, Least
<1>2. PICK i \in {0} \cup Durations!Ends(s) : i < e /\ d = e - i
  BY <1>1
<1>3. StartsAt(s, e, i)
  <2>1. ASSUME NEW j \in Durations!Ends(s), j < e PROVE j <= i
    <3>1. e - j \in T
      BY <2>1
    <3>2. e - i <= e - j
      BY <1>1, <1>2, <3>1
    <3> QED BY <1>0, <1>2, <3>2
  <2> QED BY <1>2, <2>1 DEF StartsAt
<1>4. ASSUME NEW j, StartsAt(s, e, j) PROVE j = i
  <2>1. i \in Nat /\ j \in Nat /\ i < e /\ j < e
    BY <1>0, <1>2, <1>4 DEF StartsAt
  <2>2. i <= j
    BY <1>2, <1>4, <2>1 DEF StartsAt
  <2>3. j <= i
    BY <1>2, <1>3, <1>4, <2>1 DEF StartsAt
  <2> QED BY <2>1, <2>2, <2>3
<1>5. Durations!Start(s, e) = CHOOSE k \in {0} \cup Durations!Ends(s) : StartsAt(s, e, k)
  <2>1. \A k \in {0} \cup Durations!Ends(s) :
           StartsAt(s, e, k) <=> k < e /\ \A j \in Durations!Ends(s) : j < e => j <= k
    BY DEF StartsAt
  <2> QED BY <2>1 DEF Durations!Start
<1>6. StartsAt(s, e, Durations!Start(s, e))
  BY <1>2, <1>3, <1>5, Zenon
<1> QED BY <1>4, <1>6

\* The component from i to e is whole, up to place w, and a fraction, from place p.
Shape(s, i, e, w, p) ==
    /\ Spells(s, i, w) /\ Spells(s, p, e - 1) /\ i <= w /\ p <= e - 1
    /\ \/ p = w + 1 /\ s[p] = "."
       \/ p = w /\ w = e - 1
    /\ ~(w = i /\ p = e - 1)

LEMMA ShapeIs ==
  ASSUME NEW A, NEW s \in Seq(A), NEW e \in Durations!Ends(s), Durations!WellFormed(s, e)
  PROVE  Shape(s, Durations!Start(s, e), e, Durations!Whole(s, e), Durations!PointAt(s, e))
<1> DEFINE i == Durations!Start(s, e)
           p == Durations!PointAt(s, e)
           w == Durations!Whole(s, e)
           P == Durations!Spelt(s, e)
<1>0. Len(s) \in Nat /\ Durations!Ends(s) \subseteq 1..Len(s) /\ e \in 1..Len(s)
  BY EndsAre
<1>1. i \in Nat /\ i < e
  BY <1>0, StartIs DEF StartsAt
<1>2. P = (i + 1)..(e - 1)
  BY DEF Durations!Spelt
<1>3. /\ \A k \in P : s[k] \in Durations!Digit \cup {"."}
      /\ \A j, k \in P : s[j] = "." /\ s[k] = "." => j = k
      /\ \E k \in P : s[k] \in Durations!Digit
  BY Zenon DEF Durations!WellFormed
<1>4. CASE \E k \in P : s[k] = "."
  <2>1. p \in P /\ s[p] = "." /\ w = p - 1
    <3>1. p = CHOOSE k \in P : s[k] = "."
      BY <1>4 DEF Durations!PointAt
    <3>2. p \in P /\ s[p] = "."
      BY <1>4, <3>1, Zenon
    <3> QED BY <1>4, <3>2 DEF Durations!Whole
  <2> HIDE DEF i, p, w, P
  <2>2. \A k \in P : k # p => s[k] \in Durations!Digit
    BY <1>3, <2>1
  <2>3. Spells(s, i, w) /\ Spells(s, p, e - 1)
    BY <1>0, <1>1, <1>2, <2>1, <2>2 DEF Spells
  <2>4. ~(w = i /\ p = e - 1)
    <3> SUFFICES ASSUME w = i, p = e - 1 PROVE FALSE
      OBVIOUS
    <3>1. \A k \in P : k = p
      BY <1>0, <1>1, <1>2, <2>1
    <3> QED BY <1>3, <2>1, <3>1, CharactersAre
  <2>5. p = w + 1 /\ i <= w /\ p <= e - 1
    BY <1>0, <1>1, <1>2, <2>1
  <2>6. Shape(s, i, e, w, p)
    BY <2>1, <2>3, <2>4, <2>5 DEF Shape
  <2> QED BY <2>6 DEF i, p, w
<1>5. CASE ~\E k \in P : s[k] = "."
  <2>1. p = e - 1 /\ w = e - 1
    BY <1>5 DEF Durations!PointAt, Durations!Whole
  <2> HIDE DEF i, p, w, P
  <2>2. \A k \in P : s[k] \in Durations!Digit
    BY <1>3, <1>5
  <2>3. Spells(s, i, w) /\ Spells(s, p, e - 1) /\ i <= w
    BY <1>0, <1>1, <1>2, <2>1, <2>2 DEF Spells
  <2>4. w # i
    BY <1>0, <1>1, <1>2, <1>3, <2>1
  <2>5. p = w /\ w = e - 1 /\ p <= e - 1
    BY <1>0, <2>1
  <2>6. Shape(s, i, e, w, p)
    BY <2>3, <2>4, <2>5 DEF Shape
  <2> QED BY <2>6 DEF i, p, w
<1> QED BY <1>4, <1>5

\* Whatever has that shape is a component, with these parts.
LEMMA ShapeMakes ==
  ASSUME NEW A, NEW s \in Seq(A), NEW e \in Durations!Ends(s), NEW i \in Nat, NEW w \in Nat, NEW p \in Nat,
         i = 0 \/ i \in Durations!Ends(s), Shape(s, i, e, w, p)
  PROVE  /\ Durations!WellFormed(s, e) /\ Durations!Start(s, e) = i
         /\ Durations!Whole(s, e) = w /\ Durations!PointAt(s, e) = p
<1>0. Len(s) \in Nat /\ Durations!Ends(s) \subseteq 1..Len(s) /\ e \in 1..Len(s)
  BY EndsAre
<1>1. /\ i <= w /\ p <= e - 1 /\ ~(w = i /\ p = e - 1)
      /\ \/ p = w + 1 /\ s[p] = "."
         \/ p = w /\ w = e - 1
      /\ \A k \in (i + 1)..w : s[k] \in Durations!Digit
      /\ \A k \in (p + 1)..(e - 1) : s[k] \in Durations!Digit
  <2>1. Spells(s, i, w) /\ Spells(s, p, e - 1)
    BY DEF Shape
  <2>2. /\ i <= w /\ p <= e - 1
        /\ \/ p = w + 1 /\ s[p] = "."
           \/ p = w /\ w = e - 1
    BY DEF Shape
  <2>5. ~(w = i /\ p = e - 1)
    BY DEF Shape
  <2>3. \A k \in (i + 1)..w : s[k] \in Durations!Digit
    BY <2>1, Zenon DEF Spells
  <2>4. \A k \in (p + 1)..(e - 1) : s[k] \in Durations!Digit
    BY <2>1, Zenon DEF Spells
  <2> QED BY <2>2, <2>3, <2>4, <2>5
<1>2. \A k \in (i + 1)..(e - 1) : k \in (i + 1)..w \/ k \in (p + 1)..(e - 1) \/ (k = p /\ p = w + 1)
  BY <1>0, <1>1
<1>3. \A k \in (i + 1)..(e - 1) : s[k] \in Durations!Digit \cup {"."}
  BY <1>1, <1>2
<1>4. \A k \in (i + 1)..(e - 1) : s[k] = "." => k = p /\ p = w + 1
  BY <1>1, <1>2, CharactersAre
<1>5. i < e
  BY <1>0, <1>1
<1>6. StartsAt(s, e, i)
  <2>1. ASSUME NEW j \in Durations!Ends(s), j < e PROVE j <= i
    <3> SUFFICES ASSUME ~(j <= i) PROVE FALSE
      OBVIOUS
    <3>1. j \in (i + 1)..(e - 1)
      BY <1>0, <2>1
    <3>2. s[j] \in DOMAIN Unit
      BY EndsAre
    <3> QED BY <1>3, <3>1, <3>2, CharactersAre
  <2> QED BY <1>5, <2>1 DEF StartsAt
<1>7. Durations!Start(s, e) = i
  BY <1>6, StartIs
<1>8. Durations!Spelt(s, e) = (i + 1)..(e - 1)
  BY <1>7 DEF Durations!Spelt
<1>9. Durations!WellFormed(s, e)
  <2>1. PICK k \in (i + 1)..(e - 1) : s[k] \in Durations!Digit
    <3>1. CASE w # i
      <4>1. w \in (i + 1)..w /\ w \in (i + 1)..(e - 1)
        BY <1>0, <1>1, <3>1
      <4> QED BY <1>1, <4>1
    <3>2. CASE p # e - 1
      <4>1. e - 1 \in (p + 1)..(e - 1) /\ e - 1 \in (i + 1)..(e - 1)
        BY <1>0, <1>1, <3>2
      <4> QED BY <1>1, <4>1
    <3> QED BY <1>1, <3>1, <3>2
  <2> QED BY <1>3, <1>4, <1>8, <2>1 DEF Durations!WellFormed
<1>10. CASE p = w + 1 /\ s[p] = "."
  <2>1. p \in (i + 1)..(e - 1)
    BY <1>0, <1>1, <1>10
  <2>2. \E k \in (i + 1)..(e - 1) : s[k] = "."
    BY <1>10, <2>1
  <2>3. Durations!PointAt(s, e) = CHOOSE k \in (i + 1)..(e - 1) : s[k] = "."
    BY <1>8, <2>2 DEF Durations!PointAt
  <2>4. Durations!PointAt(s, e) = p
    BY <1>4, <2>2, <2>3
  <2>5. Durations!Whole(s, e) = p - 1
    BY <1>8, <2>2, <2>4 DEF Durations!Whole
  <2> QED BY <1>7, <1>9, <1>10, <2>4, <2>5
<1>11. CASE p = w /\ w = e - 1
  <2>1. ~\E k \in (i + 1)..(e - 1) : s[k] = "."
    BY <1>4, <1>11
  <2>2. Durations!PointAt(s, e) = e - 1 /\ Durations!Whole(s, e) = e - 1
    BY <1>8, <2>1 DEF Durations!PointAt, Durations!Whole
  <2> QED BY <1>7, <1>9, <1>11, <2>2
<1> QED BY <1>1, <1>10, <1>11

\* What is added for the component that ends at e.
Taken(s, e) ==
    Durations!Number(s, Durations!Start(s, e), Durations!Whole(s, e)) * Unit[s[e]]
        + FractionRead(s, Durations!PointAt(s, e), e - 1, Unit[s[e]])

LEMMA TakenIs ==
  ASSUME NEW A, NEW s \in Seq(A), NEW e \in Durations!Ends(s), Durations!WellFormed(s, e)
  PROVE  /\ Taken(s, e) \in Nat
         /\ Durations!Number(s, Durations!Start(s, e), Durations!Whole(s, e)) \in Nat
         /\ Durations!Number(s, Durations!Start(s, e), Durations!Whole(s, e)) <= Taken(s, e)
         /\ \E l \in {0, 1} :
               /\ Durations!Nanoseconds(s, e) = Taken(s, e) + l
               /\ l = 1 => Durations!Places(s, e) > Digits /\ Durations!Ten(Digits) % Unit[s[e]] # 0
<1> DEFINE p == Durations!PointAt(s, e)
           w == Durations!Number(s, Durations!Start(s, e), Durations!Whole(s, e))
           u == Unit[s[e]]
           f == e - 1
           ten == Durations!Ten(Digits)
           k == FractionRead(s, p, f, u)
<1>1. Spells(s, p, f) /\ w \in Nat
  <2>1. Shape(s, Durations!Start(s, e), e, Durations!Whole(s, e), p)
    BY ShapeIs
  <2>2. Spells(s, p, f) /\ Spells(s, Durations!Start(s, e), Durations!Whole(s, e))
    BY <2>1, Zenon DEF Shape
  <2> QED BY <2>2, NumberIs
<1>2. u \in Nat \ {0} /\ u <= ten
  BY EndsAre, UnitsAre
<1>3. Durations!Nanoseconds(s, e) = Exactly(s, w, p, f, u) /\ Durations!Places(s, e) = f - p
  BY DEF Durations!Nanoseconds, Exactly, Durations!Places
<1>4. Taken(s, e) = w * u + k
  BY DEF Taken
<1> HIDE DEF p, w, u, f, ten
<1>5. k \in Nat /\ \E l \in {0, 1} : /\ Exactly(s, w, p, f, u) = (w * u + k) + l
                                     /\ l = 1 => f - p > Digits /\ ten % u # 0
  BY <1>1, <1>2, FractionLoses DEF ten
<1>6. w * u + k \in Nat /\ w <= w * u + k
  <2>1. w * 1 <= w * u /\ w * u \in Nat
    <3>1. 1 <= u
      BY <1>2
    <3> QED BY <1>1, <1>2, <3>1, Times
  <2> DEFINE m == w * u
  <2>2. m \in Nat /\ w <= m
    BY <1>1, <2>1
  <2> HIDE DEF m, k
  <2>3. m + k \in Nat /\ w <= m + k
    BY <1>1, <1>5, <2>2
  <2> QED BY <2>3 DEF m
<1>7. Taken(s, e) \in Nat /\ w <= Taken(s, e)
  BY <1>4, <1>6
<1>8. \E l \in {0, 1} : /\ Durations!Nanoseconds(s, e) = Taken(s, e) + l
                        /\ l = 1 => Durations!Places(s, e) > Digits /\ ten % u # 0
  <2> HIDE DEF k
  <2>1. PICK l \in {0, 1} : Exactly(s, w, p, f, u) = (w * u + k) + l /\ (l = 1 => f - p > Digits /\ ten % u # 0)
    BY <1>5
  <2>2. Durations!Nanoseconds(s, e) = Taken(s, e) + l
    BY <1>3, <1>4, <2>1
  <2>3. l = 1 => Durations!Places(s, e) > Digits /\ ten % u # 0
    BY <1>3, <2>1
  <2> QED BY <2>2, <2>3
<1> QED BY <1>1, <1>7, <1>8 DEF w, u, ten

---------------------------------------------------------------------------
(* A round of the loop. *)

WholeTo(s, i) == Durations!Run(s, i, Durations!Digit)
PointTo(s, i) == IF WholeTo(s, i) < Len(s) /\ s[WholeTo(s, i) + 1] = "." THEN WholeTo(s, i) + 1 ELSE WholeTo(s, i)
FractionTo(s, i) == Durations!Run(s, PointTo(s, i), Durations!Digit)
NameTo(s, i) == Durations!Run(s, FractionTo(s, i), Durations!Letters(s))

\* What the text after i is, a component or not, and what that adds.
Component(s, i) ==
    /\ ~(WholeTo(s, i) = i /\ FractionTo(s, i) = PointTo(s, i))
    /\ NameTo(s, i) = FractionTo(s, i) + 1 /\ s[NameTo(s, i)] \in DOMAIN Unit
Added(s, i) ==
    Durations!Number(s, i, WholeTo(s, i)) * Unit[s[NameTo(s, i)]]
        + FractionRead(s, PointTo(s, i), FractionTo(s, i), Unit[s[NameTo(s, i)]])
Fits(s, i, total) ==
    Durations!Number(s, i, WholeTo(s, i)) <= kLimit /\ total + Added(s, i) <= kLimit

LEMMA RoundEnds ==
  ASSUME NEW A, NEW s \in Seq(A), NEW i \in 0..Len(s)
  PROVE  /\ i <= WholeTo(s, i) /\ WholeTo(s, i) <= PointTo(s, i) /\ PointTo(s, i) <= FractionTo(s, i)
         /\ FractionTo(s, i) <= NameTo(s, i) /\ NameTo(s, i) <= Len(s)
         /\ WholeTo(s, i) \in Nat /\ PointTo(s, i) \in Nat /\ FractionTo(s, i) \in Nat /\ NameTo(s, i) \in Nat
         /\ Spells(s, i, WholeTo(s, i)) /\ Spells(s, PointTo(s, i), FractionTo(s, i))
         /\ \/ PointTo(s, i) = WholeTo(s, i) + 1 /\ s[PointTo(s, i)] = "."
            \/ PointTo(s, i) = WholeTo(s, i) /\ FractionTo(s, i) = PointTo(s, i)
<1> DEFINE w == WholeTo(s, i)
           p == PointTo(s, i)
           f == FractionTo(s, i)
           n == NameTo(s, i)
<1>0. Len(s) \in Nat
  OBVIOUS
<1>1. RunEnds(s, i, Durations!Digit, w) /\ w \in i..Len(s)
  <2>1. RunEnds(s, i, Durations!Digit, w)
    BY RunIs DEF WholeTo
  <2> QED BY <2>1 DEF RunEnds
<1>2. p \in w..Len(s) /\ ((p = w + 1 /\ s[p] = ".") \/ p = w)
  BY <1>0, <1>1 DEF PointTo
<1>3. p \in 0..Len(s)
  BY <1>0, <1>1, <1>2
<1>4. RunEnds(s, p, Durations!Digit, f) /\ f \in p..Len(s)
  <2>1. RunEnds(s, p, Durations!Digit, f)
    BY <1>3, RunIs DEF FractionTo
  <2> QED BY <2>1 DEF RunEnds
<1>5. f \in 0..Len(s)
  BY <1>0, <1>3, <1>4
<1>6. n \in f..Len(s)
  <2>1. RunEnds(s, f, Durations!Letters(s), n)
    BY <1>5, RunIs DEF NameTo
  <2> QED BY <2>1 DEF RunEnds
<1>7. Spells(s, i, w) /\ Spells(s, p, f)
  BY <1>0, <1>1, <1>3, <1>4 DEF RunEnds, Spells
<1>8. p = w => f = p
  <2> SUFFICES ASSUME p = w PROVE f = p
    OBVIOUS
  <2>1. RunEnds(s, p, Durations!Digit, w)
    BY <1>0, <1>1 DEF RunEnds
  <2>2. w = f
    BY <1>3, <2>1, RunIs DEF FractionTo
  <2> QED BY <2>2
<1> HIDE DEF w, p, f, n
<1>9. i <= w /\ w <= p /\ p <= f /\ f <= n /\ n <= Len(s) /\ w \in Nat /\ p \in Nat /\ f \in Nat /\ n \in Nat
  BY <1>0, <1>1, <1>2, <1>4, <1>6
<1> QED BY <1>2, <1>7, <1>8, <1>9 DEF w, p, f, n

LEMMA ComponentIs ==
  ASSUME NEW A, NEW s \in Seq(A), NEW r, r.at \in 0..Len(s), r.total \in Nat
  PROVE  /\ Component(s, r.at) => Added(s, r.at) \in Nat
         /\ Component(s, r.at) /\ Fits(s, r.at, r.total) =>
               Durations!Component(s, r) =
                   [ok |-> TRUE, at |-> NameTo(s, r.at), total |-> r.total + Added(s, r.at)]
         /\ ~(Component(s, r.at) /\ Fits(s, r.at, r.total)) =>
               Durations!Component(s, r) = [r EXCEPT !.ok = FALSE]
<1> DEFINE i == r.at
           w == WholeTo(s, i)
           p == PointTo(s, i)
           f == FractionTo(s, i)
           n == NameTo(s, i)
           u == Unit[s[n]]
           Total == (r.total + Durations!Number(s, i, w) * u) + FractionRead(s, p, f, u)
           Bad == \/ w = i /\ f = p
                  \/ Durations!Number(s, i, w) > kLimit
                  \/ n # f + 1 \/ s[n] \notin DOMAIN Unit
                  \/ Total > kLimit
<1>1. Durations!Component(s, r) =
         IF Bad THEN [r EXCEPT !.ok = FALSE] ELSE [ok |-> TRUE, at |-> n, total |-> Total]
  BY Zenon DEF Durations!Component, WholeTo, PointTo, FractionTo, NameTo, FractionRead, ReadTo
<1>2. /\ w \in Nat /\ p \in Nat /\ f \in Nat /\ n \in Nat
      /\ Spells(s, i, w) /\ Spells(s, p, f)
  <2>1. i \in 0..Len(s)
    OBVIOUS
  <2> HIDE DEF i
  <2> QED BY <2>1, RoundEnds
<1>3. Durations!Number(s, i, w) \in Nat
  BY <1>2, NumberIs
<1>4. ASSUME Component(s, i) PROVE u \in Nat \ {0} /\ FractionRead(s, p, f, u) \in Nat
  <2>1. s[n] \in DOMAIN Unit
    BY <1>4 DEF Component
  <2> HIDE DEF n
  <2>2. u \in Nat \ {0} /\ u <= Durations!Ten(Digits)
    BY <2>1, UnitsAre
  <2> HIDE DEF u, p, f
  <2>3. 0 \in Nat
    OBVIOUS
  <2> QED BY <1>2, <2>2, <2>3, FractionLoses
<1>5. Added(s, i) = Durations!Number(s, i, w) * u + FractionRead(s, p, f, u)
  BY DEF Added
<1>6. Component(s, i) <=> ~(w = i /\ f = p) /\ n = f + 1 /\ s[n] \in DOMAIN Unit
  BY DEF Component
<1>7. Fits(s, i, r.total) <=> Durations!Number(s, i, w) <= kLimit /\ r.total + Added(s, i) <= kLimit
  BY DEF Fits
<1> DEFINE N == Durations!Number(s, i, w)
           k == FractionRead(s, p, f, u)
           t == r.total
<1>8. ASSUME Component(s, i) PROVE Added(s, i) \in Nat /\ Total = t + Added(s, i)
  <2>1. N \in Nat /\ u \in Nat /\ k \in Nat /\ t \in Nat
    BY <1>3, <1>4, <1>8
  <2> DEFINE m == N * u
  <2>2. m \in Nat
    <3> HIDE DEF N, u
    <3> QED BY <2>1
  <2>3. Added(s, i) = m + k /\ Total = (t + m) + k
    BY <1>5
  <2> HIDE DEF m, k, t, Total, i
  <2> QED BY <2>1, <2>2, <2>3
<1>9. N \in Nat /\ kLimit \in Nat /\ t \in Nat
  BY <1>3, LimitsAre
<1> HIDE DEF i, w, p, f, n, u, k, Total
<1>10. ASSUME Component(s, i), Fits(s, i, t) PROVE ~Bad
  <2>1. Added(s, i) \in Nat /\ Total = t + Added(s, i) /\ t + Added(s, i) <= kLimit /\ N <= kLimit
    BY <1>7, <1>8, <1>10
  <2>2. ~(Total > kLimit) /\ ~(N > kLimit)
    <3> HIDE DEF N, t
    <3> QED BY <1>9, <2>1
  <2> QED BY <1>6, <1>10, <2>2
<1>11. ASSUME ~(Component(s, i) /\ Fits(s, i, t)) PROVE Bad
  <2>1. CASE ~Component(s, i)
    BY <1>6, <2>1
  <2>2. CASE Component(s, i) /\ ~Fits(s, i, t)
    <3>1. Added(s, i) \in Nat /\ Total = t + Added(s, i) /\ (~(N <= kLimit) \/ ~(t + Added(s, i) <= kLimit))
      BY <1>7, <1>8, <2>2
    <3>2. Total > kLimit \/ N > kLimit
      <4> HIDE DEF N, t
      <4> QED BY <1>9, <3>1
    <3> QED BY <3>2
  <2> QED BY <1>11, <2>1, <2>2
<1>12. ASSUME Component(s, i), Fits(s, i, t)
       PROVE  Durations!Component(s, r) = [ok |-> TRUE, at |-> n, total |-> t + Added(s, i)]
  <2>1. Durations!Component(s, r) = [ok |-> TRUE, at |-> n, total |-> Total]
    <3> HIDE DEF Bad
    <3> QED BY <1>1, <1>10, <1>12
  <2>2. Total = t + Added(s, i)
    BY <1>8, <1>12
  <2> QED BY <2>1, <2>2
<1>13. ASSUME ~(Component(s, i) /\ Fits(s, i, t)) PROVE Durations!Component(s, r) = [r EXCEPT !.ok = FALSE]
  <2> HIDE DEF Bad
  <2> QED BY <1>1, <1>11, <1>13
<1>14. Component(s, i) => Added(s, i) \in Nat
  BY <1>8
<1>15. Component(s, i) /\ Fits(s, i, t) =>
          Durations!Component(s, r) = [ok |-> TRUE, at |-> n, total |-> t + Added(s, i)]
  BY <1>12
<1>16. ~(Component(s, i) /\ Fits(s, i, t)) => Durations!Component(s, r) = [r EXCEPT !.ok = FALSE]
  BY <1>13
<1> QED BY <1>14, <1>15, <1>16, Zenon DEF i, n

\* A round that goes on has read one component of the text.
LEMMA ComponentEnds ==
  ASSUME NEW A, NEW s \in Seq(A), NEW i \in 0..Len(s), i = 0 \/ i \in Durations!Ends(s), Component(s, i)
  PROVE  /\ NameTo(s, i) \in Durations!Ends(s) /\ Durations!WellFormed(s, NameTo(s, i))
         /\ StartsAt(s, NameTo(s, i), i) /\ Added(s, i) = Taken(s, NameTo(s, i))
         /\ Durations!Whole(s, NameTo(s, i)) = WholeTo(s, i)
<1> DEFINE w == WholeTo(s, i)
           p == PointTo(s, i)
           f == FractionTo(s, i)
           n == NameTo(s, i)
<1>1. /\ i <= w /\ w <= p /\ p <= f /\ f <= n /\ n <= Len(s)
      /\ w \in Nat /\ p \in Nat /\ f \in Nat /\ n \in Nat
      /\ Spells(s, i, w) /\ Spells(s, p, f)
      /\ \/ p = w + 1 /\ s[p] = "."
         \/ p = w /\ f = p
  BY RoundEnds
<1>2. ~(w = i /\ f = p) /\ n = f + 1 /\ s[n] \in DOMAIN Unit
  BY DEF Component
<1> HIDE DEF w, p, f, n
<1>3. i \in Nat /\ Len(s) \in Nat
  OBVIOUS
<1>4. n \in Durations!Ends(s) /\ n - 1 = f
  <2>1. n \in 1..Len(s) /\ n - 1 = f
    BY <1>1, <1>2, <1>3
  <2> QED BY <1>2, <2>1, EndsAre
<1>5. Shape(s, i, n, w, p)
  BY <1>1, <1>2, <1>4 DEF Shape
<1>6. /\ Durations!WellFormed(s, n) /\ Durations!Start(s, n) = i
      /\ Durations!Whole(s, n) = w /\ Durations!PointAt(s, n) = p
  BY <1>1, <1>3, <1>4, <1>5, ShapeMakes
<1>7. StartsAt(s, n, i)
  BY <1>4, <1>6, StartIs
<1>8. Added(s, i) = Taken(s, n)
  BY <1>4, <1>6 DEF Added, Taken, w, p, f, n
<1> QED BY <1>4, <1>6, <1>7, <1>8 DEF n, w

LEMMA NextEnd ==
  ASSUME NEW A, NEW s \in Seq(A), Durations!Valid(s), NEW i \in Nat, i < Len(s),
         i = 0 \/ i \in Durations!Ends(s)
  PROVE  \E e \in Durations!Ends(s) : StartsAt(s, e, i) /\ Durations!WellFormed(s, e)
<1> DEFINE T == {e \in Durations!Ends(s) : i < e}
<1>1. Len(s) \in Durations!Ends(s) /\ \A e \in Durations!Ends(s) : Durations!WellFormed(s, e)
  BY DEF Durations!Valid
<1>2. Len(s) \in T /\ T \in SUBSET Nat
  BY <1>1, EndsAre
<1>3. PICK e \in T : \A j \in T : e <= j
  <2> HIDE DEF T
  <2> QED BY <1>2, Least
<1>4. ASSUME NEW j \in Durations!Ends(s), j < e PROVE j <= i
  <2>1. j \in Nat /\ e \in Nat /\ ~(e <= j)
    BY <1>2, <1>4, EndsAre
  <2> QED BY <1>3, <2>1
<1>5. StartsAt(s, e, i)
  BY <1>4 DEF StartsAt
<1> QED BY <1>1, <1>5

\* Of a valid text each round reads a component.
LEMMA ValidGoesOn ==
  ASSUME NEW A, NEW s \in Seq(A), Durations!Valid(s), NEW i \in Nat, i < Len(s),
         i = 0 \/ i \in Durations!Ends(s)
  PROVE  Component(s, i)
<1>0. Len(s) \in Nat /\ i \in 0..Len(s)
  OBVIOUS
<1>1. PICK e \in Durations!Ends(s) : StartsAt(s, e, i) /\ Durations!WellFormed(s, e)
  BY NextEnd
<1>2. e \in 1..Len(s) /\ s[e] \in DOMAIN Unit /\ i < e
  BY <1>1, EndsAre DEF StartsAt
<1>3. Durations!Start(s, e) = i
  BY <1>1, StartIs
<1> DEFINE w == Durations!Whole(s, e)
           p == Durations!PointAt(s, e)
<1>4. Shape(s, i, e, w, p)
  BY <1>1, <1>3, ShapeIs
<1> HIDE DEF w, p
<1>5. /\ Spells(s, i, w) /\ Spells(s, p, e - 1) /\ i <= w /\ p <= e - 1
      /\ w \in Nat /\ p \in Nat
  BY <1>4 DEF Shape, Spells
<1>6. \/ p = w + 1 /\ s[p] = "."
      \/ p = w /\ w = e - 1
  BY <1>4 DEF Shape
<1>7. s[e] \notin Durations!Digit /\ s[e] # "."
  BY <1>2, CharactersAre
<1>8. WholeTo(s, i) = w
  <2>1. s[w + 1] \notin Durations!Digit
    <3>1. CASE p = w + 1 /\ s[p] = "."
      BY <3>1, CharactersAre
    <3>2. CASE p = w /\ w = e - 1
      <4>1. w + 1 = e
        BY <1>2, <3>2
      <4> QED BY <1>7, <4>1
    <3> QED BY <1>6, <3>1, <3>2
  <2>2. w \in i..Len(s)
    BY <1>0, <1>2, <1>5, <1>6
  <2>3. \A k \in (i + 1)..w : s[k] \in Durations!Digit
    BY <1>5 DEF Spells
  <2>4. RunEnds(s, i, Durations!Digit, w)
    BY <2>1, <2>2, <2>3 DEF RunEnds
  <2> QED BY <1>0, <2>4, RunIs DEF WholeTo
<1>9. PointTo(s, i) = p
  <2>1. CASE p = w + 1 /\ s[p] = "."
    <3>1. w < Len(s) /\ s[w + 1] = "."
      BY <1>0, <1>2, <1>5, <2>1
    <3> QED BY <1>8, <2>1, <3>1 DEF PointTo
  <2>2. CASE p = w /\ w = e - 1
    <3>1. w + 1 = e
      BY <1>2, <2>2
    <3>2. s[w + 1] # "."
      BY <1>7, <3>1
    <3> QED BY <1>8, <2>2, <3>2 DEF PointTo
  <2> QED BY <1>6, <2>1, <2>2
<1>10. FractionTo(s, i) = e - 1
  <2>1. p \in 0..Len(s) /\ e - 1 \in p..Len(s) /\ (e - 1) + 1 = e
    BY <1>0, <1>2, <1>5
  <2>2. \A k \in (p + 1)..(e - 1) : s[k] \in Durations!Digit
    BY <1>5 DEF Spells
  <2>3. RunEnds(s, p, Durations!Digit, e - 1)
    BY <1>7, <2>1, <2>2 DEF RunEnds
  <2> QED BY <1>9, <2>1, <2>3, RunIs DEF FractionTo
<1>11. NameTo(s, i) = e
  <2>1. e - 1 \in 0..Len(s) /\ e \in (e - 1)..Len(s)
    BY <1>0, <1>2
  <2>2. s[e] \in Durations!Letters(s)
    <3>1. e \in DOMAIN s
      BY <1>2, EndsAre
    <3> QED BY <1>7, <3>1 DEF Durations!Letters
  <2>3. ASSUME e < Len(s) PROVE s[e + 1] \notin Durations!Letters(s)
    <3>1. PICK h \in Durations!Ends(s) : StartsAt(s, h, e) /\ Durations!WellFormed(s, h)
      <4>1. e \in Nat
        BY <1>2
      <4> QED BY <2>3, <4>1, NextEnd
    <3>2. Durations!Start(s, h) = e /\ e < h /\ h \in 1..Len(s)
      BY <3>1, StartIs, EndsAre DEF StartsAt
    <3>3. Durations!Spelt(s, h) = (e + 1)..(h - 1)
      BY <3>2 DEF Durations!Spelt
    <3>4. PICK k \in (e + 1)..(h - 1) : s[k] \in Durations!Digit
      BY <3>1, <3>3 DEF Durations!WellFormed
    <3>5. e + 1 \in (e + 1)..(h - 1)
      BY <1>2, <3>2, <3>4
    <3>6. s[e + 1] \in Durations!Digit \cup {"."}
      BY <3>1, <3>3, <3>5 DEF Durations!WellFormed
    <3> QED BY <3>6 DEF Durations!Letters
  <2>4. \A k \in ((e - 1) + 1)..e : s[k] \in Durations!Letters(s)
    <3>1. \A k \in ((e - 1) + 1)..e : k = e
      BY <1>2
    <3> QED BY <2>2, <3>1
  <2>5. RunEnds(s, e - 1, Durations!Letters(s), e)
    BY <2>1, <2>3, <2>4 DEF RunEnds
  <2> QED BY <1>10, <2>1, <2>5, RunIs DEF NameTo
<1>12. ~(w = i /\ p = e - 1)
  BY <1>4 DEF Shape
<1>13. e = (e - 1) + 1
  BY <1>2
<1> QED BY <1>2, <1>8, <1>9, <1>10, <1>11, <1>12, <1>13 DEF Component

---------------------------------------------------------------------------
(* The loop. *)

\* What the components up to each place add up to, as they are read.
TotalsOf(s, g) ==
    /\ g \in [0..Len(s) -> Nat] /\ g[0] = 0
    /\ \A n \in 1..Len(s) :
          g[n] = g[n - 1] + (IF n \in Durations!Ends(s) /\ Durations!WellFormed(s, n) THEN Taken(s, n) ELSE 0)

LEMMA TotalsExist ==
  ASSUME NEW A, NEW s \in Seq(A)
  PROVE  \E g : TotalsOf(s, g)
<1> DEFINE m == Len(s)
           of(n) == IF n \in Durations!Ends(s) /\ Durations!WellFormed(s, n) THEN Taken(s, n) ELSE 0
           E == [p \in Nat \X (1..m) |-> p[1] + of(p[2])]
<1>1. m \in Nat
  OBVIOUS
<1>2. \A n : of(n) \in Nat
  BY TakenIs
<1> HIDE DEF of, m
<1>3. E \in [Nat \X (1..m) -> Nat]
  BY <1>2
<1>4. PICK g \in [0..m -> Nat] : Iterates(g, 0, m, E)
  <2> HIDE DEF E
  <2>1. ASSUME NEW zero \in Nat PROVE \E g \in [0..m -> Nat] : Iterates(g, zero, m, E)
    BY <1>1, <1>3, RecursiveUpTo, Zenon
  <2> QED BY <2>1
<1>5. ASSUME NEW n \in 1..m PROVE g[n] = g[n - 1] + of(n)
  <2>1. n - 1 \in 0..m /\ g[n - 1] \in Nat
    BY <1>1
  <2> QED BY <1>4, <2>1 DEF Iterates
<1>6. g[0] = 0
  BY <1>4 DEF Iterates
<1> QED BY <1>5, <1>6 DEF TotalsOf, of, m

LEMMA TotalsAre ==
  ASSUME NEW A, NEW s \in Seq(A), NEW g, TotalsOf(s, g)
  PROVE  /\ \A n \in 0..Len(s) : g[n] \in Nat
         /\ \A n \in 1..Len(s) : g[n - 1] <= g[n]
         /\ \A n \in 1..Len(s) : n \notin Durations!Ends(s) => g[n] = g[n - 1]
         /\ \A n \in Durations!Ends(s) : Durations!WellFormed(s, n) => g[n] = g[n - 1] + Taken(s, n)
<1> DEFINE of(n) == IF n \in Durations!Ends(s) /\ Durations!WellFormed(s, n) THEN Taken(s, n) ELSE 0
<1>1. Len(s) \in Nat /\ Durations!Ends(s) \subseteq 1..Len(s)
  BY EndsAre
<1>2. \A n : of(n) \in Nat
  BY TakenIs
<1>3. g \in [0..Len(s) -> Nat] /\ \A n \in 1..Len(s) : g[n] = g[n - 1] + of(n)
  BY DEF TotalsOf
<1>4. \A n : n \notin Durations!Ends(s) => of(n) = 0
  OBVIOUS
<1>5. \A n \in Durations!Ends(s) : Durations!WellFormed(s, n) => of(n) = Taken(s, n)
  OBVIOUS
<1> HIDE DEF of
<1>6. \A n \in 0..Len(s) : g[n] \in Nat
  BY <1>3
<1>7. ASSUME NEW n \in 1..Len(s) PROVE g[n - 1] <= g[n] /\ (n \notin Durations!Ends(s) => g[n] = g[n - 1])
  <2>1. g[n - 1] \in Nat /\ g[n] = g[n - 1] + of(n) /\ of(n) \in Nat
    <3>1. n - 1 \in 0..Len(s)
      BY <1>1
    <3> QED BY <1>2, <1>3, <1>6, <3>1
  <2> QED BY <1>4, <2>1
<1>8. \A n \in Durations!Ends(s) : Durations!WellFormed(s, n) => g[n] = g[n - 1] + Taken(s, n)
  BY <1>1, <1>3, <1>5
<1> QED BY <1>6, <1>7, <1>8

LEMMA TotalsGrow ==
  ASSUME NEW A, NEW s \in Seq(A), NEW g, TotalsOf(s, g), NEW j \in 0..Len(s), NEW i \in 0..j
  PROVE  /\ g[i] <= g[j]
         /\ (\A n \in (i + 1)..j : n \notin Durations!Ends(s)) => g[j] = g[i]
<1> DEFINE Flat(k) == \A n \in (i + 1)..k : n \notin Durations!Ends(s)
           T == {k \in 0..j : i <= k => g[i] <= g[k] /\ (Flat(k) => g[k] = g[i])}
<1>1. j \in Nat /\ i \in Nat /\ Len(s) \in Nat /\ j <= Len(s) /\ \A k \in 0..j : g[k] \in Nat
  BY TotalsAre
<1>2. 0 \in T
  <2>1. 0 \in 0..j /\ (i <= 0 => i = 0)
    BY <1>1
  <2> QED BY <1>1, <2>1
<1>3. ASSUME NEW k \in 1..j, k - 1 \in T PROVE k \in T
  <2>1. k \in 0..j /\ k - 1 \in 0..j /\ k \in 1..Len(s)
    BY <1>1
  <2>2. g[k - 1] <= g[k] /\ (k \notin Durations!Ends(s) => g[k] = g[k - 1]) /\ g[k] \in Nat /\ g[k - 1] \in Nat /\ g[i] \in Nat
    BY <1>1, <2>1, TotalsAre
  <2>3. CASE i = k
    BY <2>1, <2>2, <2>3
  <2>4. CASE i < k
    <3>1. g[i] <= g[k - 1] /\ (Flat(k - 1) => g[k - 1] = g[i])
      BY <1>1, <1>3, <2>4
    <3>2. Flat(k) => Flat(k - 1) /\ k \notin Durations!Ends(s)
      BY <1>1, <2>4
    <3> HIDE DEF Flat
    <3> QED BY <2>1, <2>2, <3>1, <3>2
  <2>5. CASE ~(i <= k)
    BY <2>1, <2>5
  <2> QED BY <1>1, <2>3, <2>4, <2>5
<1>4. T \in SUBSET (0..j)
  OBVIOUS
<1> HIDE DEF T
<1>5. T = 0..j
  BY <1>1, <1>2, <1>3, <1>4, IndUpTo, Zenon
<1>6. j \in T /\ i <= j
  BY <1>1, <1>5
<1> QED BY <1>6 DEF T

LEMMA TotalsAdd ==
  ASSUME NEW A, NEW s \in Seq(A), NEW g, TotalsOf(s, g), NEW e \in Durations!Ends(s), NEW i \in Nat,
         StartsAt(s, e, i), Durations!WellFormed(s, e)
  PROVE  g[e] = g[i] + Taken(s, e)
<1>1. e \in 1..Len(s) /\ Len(s) \in Nat /\ i < e
  BY EndsAre DEF StartsAt
<1>2. \A n \in (i + 1)..(e - 1) : n \notin Durations!Ends(s)
  <2> SUFFICES ASSUME NEW n \in Durations!Ends(s), n \in (i + 1)..(e - 1) PROVE FALSE
    OBVIOUS
  <2>1. n < e /\ ~(n <= i)
    BY <1>1
  <2> QED BY <2>1 DEF StartsAt
<1>3. e - 1 \in 0..Len(s) /\ i \in 0..(e - 1)
  BY <1>1
<1>4. g[e - 1] = g[i]
  BY <1>2, <1>3, TotalsGrow
<1> QED BY <1>4, TotalsAre

\* What is known between two rounds.
Rounded(s) == [ok : BOOLEAN, at : {0} \cup Durations!Ends(s), total : 0..kLimit]
FirstRound == [ok |-> TRUE, at |-> 0, total |-> 0]
NextRound(s, r) == IF r.ok /\ r.at < Len(s) THEN Durations!Component(s, r) ELSE r

LEMMA NextRoundIs ==
  ASSUME NEW A, NEW s \in Seq(A), NEW r \in Rounded(s)
  PROVE  /\ NextRound(s, r) \in Rounded(s)
         /\ \/ /\ r.ok /\ r.at < Len(s) /\ Component(s, r.at) /\ Fits(s, r.at, r.total)
               /\ NextRound(s, r) = [ok |-> TRUE, at |-> NameTo(s, r.at),
                                     total |-> r.total + Taken(s, NameTo(s, r.at))]
            \/ /\ r.ok /\ r.at < Len(s) /\ ~(Component(s, r.at) /\ Fits(s, r.at, r.total))
               /\ NextRound(s, r) = [ok |-> FALSE, at |-> r.at, total |-> r.total]
            \/ (r.ok => r.at = Len(s)) /\ NextRound(s, r) = r
<1> DEFINE i == r.at
           t == r.total
           n == NameTo(s, i)
<1>1. /\ r.ok \in BOOLEAN /\ i \in {0} \cup Durations!Ends(s) /\ t \in 0..kLimit
      /\ r = [ok |-> r.ok, at |-> i, total |-> t]
  BY Zenon DEF Rounded
<1>2. i \in 0..Len(s) /\ i \in Nat /\ Len(s) \in Nat /\ t \in Nat /\ kLimit \in Nat /\ (i = 0 \/ i \in Durations!Ends(s))
  BY <1>1, EndsAre, LimitsAre
<1>3. CASE r.ok /\ i < Len(s) /\ Component(s, i) /\ Fits(s, i, t)
  <2>1. n \in Durations!Ends(s) /\ Added(s, i) = Taken(s, n)
    <3> HIDE DEF i
    <3> QED BY <1>2, <1>3, ComponentEnds DEF n
  <2>2. NextRound(s, r) = [ok |-> TRUE, at |-> n, total |-> t + Added(s, i)] /\ Added(s, i) \in Nat
    <3>1. NextRound(s, r) = Durations!Component(s, r)
      BY <1>3 DEF NextRound
    <3>2. Durations!Component(s, r) = [ok |-> TRUE, at |-> NameTo(s, r.at), total |-> r.total + Added(s, r.at)]
          /\ Added(s, r.at) \in Nat
      BY <1>2, <1>3, ComponentIs, Zenon
    <3> QED BY <3>1, <3>2
  <2>3. t + Added(s, i) \in 0..kLimit
    <3>1. t + Added(s, i) <= kLimit
      BY <1>3, Zenon DEF Fits
    <3> HIDE DEF t, i
    <3> QED BY <1>2, <2>2, <3>1
  <2>4. NextRound(s, r) \in Rounded(s)
    <3> HIDE DEF n, t, i
    <3> QED BY <2>1, <2>2, <2>3 DEF Rounded
  <2> QED BY <1>3, <2>1, <2>2, <2>4
<1>4. CASE r.ok /\ i < Len(s) /\ ~(Component(s, i) /\ Fits(s, i, t))
  <2>1. NextRound(s, r) = Durations!Component(s, r)
    BY <1>4 DEF NextRound
  <2>2. Durations!Component(s, r) = [r EXCEPT !.ok = FALSE]
    BY <1>2, <1>4, ComponentIs, Zenon
  <2>3. [r EXCEPT !.ok = FALSE] = [ok |-> FALSE, at |-> i, total |-> t]
    <3> DEFINE q == [r EXCEPT !.ok = FALSE]
    <3>1. q \in Rounded(s) /\ q.ok = FALSE /\ q.at = i /\ q.total = t
      BY DEF Rounded
    <3> HIDE DEF q
    <3>2. q = [ok |-> q.ok, at |-> q.at, total |-> q.total]
      BY <3>1, Zenon DEF Rounded
    <3>3. q = [ok |-> FALSE, at |-> i, total |-> t]
      BY <3>1, <3>2
    <3> QED BY <3>3 DEF q
  <2>4. NextRound(s, r) \in Rounded(s)
    <3> HIDE DEF t, i
    <3> QED BY <1>1, <2>1, <2>2, <2>3 DEF Rounded
  <2> QED BY <1>4, <2>1, <2>2, <2>3, <2>4
<1>5. CASE ~(r.ok /\ i < Len(s))
  <2>1. NextRound(s, r) = r
    BY <1>5 DEF NextRound
  <2>2. r.ok => i = Len(s)
    <3> HIDE DEF i
    <3> QED BY <1>2, <1>5
  <2> QED BY <2>1, <2>2
<1> QED BY <1>3, <1>4, <1>5

LEMMA RoundsFollow ==
  ASSUME NEW A, NEW s \in Seq(A)
  PROVE  /\ Durations!Rounds(s)[0] = FirstRound
         /\ \A n \in 0..Len(s) : Durations!Rounds(s)[n] \in Rounded(s)
         /\ \A n \in 1..Len(s) : Durations!Rounds(s)[n] = NextRound(s, Durations!Rounds(s)[n - 1])
<1> DEFINE m == Len(s)
           R == Rounded(s)
           Is(f) == f = [n \in 0..m |-> IF n = 0 THEN [ok |-> TRUE, at |-> 0, total |-> 0]
                                        ELSE IF f[n - 1].ok /\ f[n - 1].at < Len(s)
                                          THEN Durations!Component(s, f[n - 1])
                                        ELSE f[n - 1]]
           after == CHOOSE f : Is(f)
           E == [p \in R \X (1..m) |-> NextRound(s, p[1])]
<1>1. m \in Nat /\ \A r \in R : NextRound(s, r) \in R
  BY NextRoundIs
<1>2. FirstRound \in R
  BY LimitsAre DEF FirstRound, Rounded
<1>3. Is(after) /\ \A f : Is(f) => /\ f[0] = FirstRound
                                   /\ \A n \in 1..m : f[n] = NextRound(s, f[n - 1])
  <2> HIDE DEF R
  <2>1. E \in [R \X (1..m) -> R]
    BY <1>1
  <2>2. PICK g \in [0..m -> R] : Iterates(g, FirstRound, m, E)
    <3> HIDE DEF E
    <3>1. ASSUME NEW a \in R PROVE \E g \in [0..m -> R] : Iterates(g, a, m, E)
      BY <1>1, <2>1, RecursiveUpTo, Zenon
    <3> QED BY <1>2, <3>1
  <2>3. g[0] = FirstRound
    BY <2>2 DEF Iterates
  <2>4. ASSUME NEW n \in 1..m PROVE g[n] = NextRound(s, g[n - 1])
    <3>1. n - 1 \in 0..m
      BY <1>1
    <3>2. g[n - 1] \in R
      BY <3>1
    <3>3. g[n] = E[<<g[n - 1], n>>]
      BY <2>2 DEF Iterates
    <3> QED BY <3>2, <3>3
  <2>5. Is(g)
    <3>1. \A n \in 0..m : n # 0 => n \in 1..m
      BY <1>1
    <3>2. \A n \in 0..m : n # 0 => g[n] = IF g[n - 1].ok /\ g[n - 1].at < Len(s)
                                            THEN Durations!Component(s, g[n - 1]) ELSE g[n - 1]
      BY <2>4, <3>1, Zenon DEF NextRound
    <3>3. g = [n \in 0..m |-> g[n]]
      OBVIOUS
    <3>4. g[0] = [ok |-> TRUE, at |-> 0, total |-> 0]
      BY <2>3 DEF FirstRound
    <3> QED BY <3>2, <3>3, <3>4, Zenon
  <2>6. Is(after)
    <3> HIDE DEF Is
    <3> QED BY <2>5
  <2>7. ASSUME NEW f, Is(f) PROVE f[0] = FirstRound
    <3>1. 0 \in 0..m
      BY <1>1
    <3> QED BY <2>7, <3>1, Zenon DEF FirstRound
  <2>8. ASSUME NEW f, Is(f), NEW n \in 1..m PROVE f[n] = NextRound(s, f[n - 1])
    <3>1. n \in 0..m /\ n # 0
      BY <1>1
    <3> QED BY <2>8, <3>1, Zenon DEF NextRound
  <2> HIDE DEF after, Is
  <2> QED BY <2>6, <2>7, <2>8
<1>4. Durations!Rounds(s) = after
  BY Zenon DEF Durations!Rounds
<1> HIDE DEF after, Is, E
<1>5. after[0] = FirstRound /\ \A n \in 1..m : after[n] = NextRound(s, after[n - 1])
  BY <1>3
<1> DEFINE T == {n \in 0..m : after[n] \in R}
<1>6. T = 0..m
  <2> HIDE DEF R
  <2>1. 0 \in T
    BY <1>1, <1>2, <1>5
  <2>2. ASSUME NEW n \in 1..m, n - 1 \in T PROVE n \in T
    <3>1. n \in 0..m /\ after[n - 1] \in R
      BY <1>1, <2>2
    <3>2. NextRound(s, after[n - 1]) \in R
      BY <1>1, <3>1, Zenon
    <3> QED BY <1>5, <3>1, <3>2
  <2>3. T \in SUBSET (0..m)
    OBVIOUS
  <2> HIDE DEF T
  <2> QED BY <1>1, <2>1, <2>2, <2>3, IndUpTo, Zenon
<1>7. \A n \in 0..m : after[n] \in R
  BY <1>6
<1> HIDE DEF T
<1> QED BY <1>4, <1>5, <1>7 DEF m, R

\* After n rounds: what has been read is components, and is added up; a text that was given up
\* is none, or too large.
LoopInv(s, g, n, r) ==
    /\ r \in Rounded(s) /\ r.total = g[r.at]
    /\ \A e \in Durations!Ends(s) : e <= r.at => Durations!WellFormed(s, e)
    /\ r.ok => r.at = Len(s) \/ r.at >= n
    /\ ~r.ok => ~Durations!Valid(s) \/ g[Len(s)] > kLimit

LEMMA LoopStep ==
  ASSUME NEW A, NEW s \in Seq(A), NEW g, TotalsOf(s, g), NEW n \in 1..Len(s), NEW r, LoopInv(s, g, n - 1, r)
  PROVE  LoopInv(s, g, n, NextRound(s, r))
<1> DEFINE i == r.at
           t == r.total
           q == NextRound(s, r)
           e == NameTo(s, i)
<1>1. /\ r \in Rounded(s) /\ t = g[i]
      /\ \A j \in Durations!Ends(s) : j <= i => Durations!WellFormed(s, j)
      /\ r.ok => i = Len(s) \/ i >= n - 1
      /\ ~r.ok => ~Durations!Valid(s) \/ g[Len(s)] > kLimit
  BY DEF LoopInv
<1>2. /\ i \in {0} \cup Durations!Ends(s) /\ i \in 0..Len(s) /\ i \in Nat /\ Len(s) \in Nat
      /\ t \in Nat /\ kLimit \in Nat /\ (i = 0 \/ i \in Durations!Ends(s)) /\ n \in Nat
  <2>1. i \in {0} \cup Durations!Ends(s) /\ t \in 0..kLimit
    BY <1>1, Zenon DEF Rounded
  <2> QED BY <2>1, EndsAre, LimitsAre
<1>3. q \in Rounded(s)
  BY <1>1, NextRoundIs
<1>4. CASE /\ r.ok /\ i < Len(s) /\ Component(s, i) /\ Fits(s, i, t)
           /\ q = [ok |-> TRUE, at |-> e, total |-> t + Taken(s, e)]
  <2>1. e \in Durations!Ends(s) /\ Durations!WellFormed(s, e) /\ StartsAt(s, e, i)
    <3> HIDE DEF i
    <3> QED BY <1>2, <1>4, ComponentEnds DEF e
  <2>2. g[e] = g[i] + Taken(s, e)
    <3> HIDE DEF i, e
    <3> QED BY <1>2, <2>1, TotalsAdd
  <2>3. q.ok = TRUE /\ q.at = e /\ q.total = t + Taken(s, e)
    <3> HIDE DEF i, e, t, q
    <3> QED BY <1>4
  <2> HIDE DEF i, e, t, q
  <2>4. e \in Nat /\ i < e
    BY <2>1, EndsAre DEF StartsAt
  <2>5. ASSUME NEW j \in Durations!Ends(s), j <= e PROVE Durations!WellFormed(s, j)
    <3>1. j \in Nat
      BY EndsAre
    <3>2. CASE j = e
      BY <2>1, <3>2
    <3>3. CASE j < e
      <4>1. j <= i
        BY <2>1, <3>3 DEF StartsAt
      <4> QED BY <1>1, <4>1
    <3> QED BY <2>4, <2>5, <3>1, <3>2, <3>3
  <2>6. e >= n
    BY <1>1, <1>2, <1>4, <2>4
  <2> QED BY <1>1, <1>3, <2>2, <2>3, <2>5, <2>6 DEF LoopInv, q
<1>5. CASE /\ r.ok /\ i < Len(s) /\ ~(Component(s, i) /\ Fits(s, i, t))
           /\ q = [ok |-> FALSE, at |-> i, total |-> t]
  <2>1. q.ok = FALSE /\ q.at = i /\ q.total = t
    <3> HIDE DEF i, t, q
    <3> QED BY <1>5
  <2>2. ASSUME Durations!Valid(s) PROVE g[Len(s)] > kLimit
    <3> HIDE DEF i, t, q
    <3>1. Component(s, i)
      BY <1>2, <1>5, <2>2, ValidGoesOn
    <3>2. /\ e \in Durations!Ends(s) /\ Durations!WellFormed(s, e) /\ StartsAt(s, e, i)
          /\ Added(s, i) = Taken(s, e)
      BY <1>2, <3>1, ComponentEnds DEF e
    <3> DEFINE w == Durations!Number(s, i, WholeTo(s, i))
               a == Taken(s, e)
               c == g[Len(s)]
               d == g[e]
    <3>3. ~(w <= kLimit /\ t + a <= kLimit)
      <4>1. ~Fits(s, i, t)
        BY <1>5, <3>1
      <4> QED BY <3>2, <4>1 DEF Fits
    <3>4. w \in Nat /\ a \in Nat /\ w <= a
      <4>1. Durations!Start(s, e) = i
        BY <3>2, StartIs
      <4>2. Durations!Whole(s, e) = WholeTo(s, i)
        BY <1>2, <3>1, ComponentEnds DEF e
      <4> QED BY <3>2, <4>1, <4>2, TakenIs
    <3>5. d = t + a
      <4> HIDE DEF e
      <4> QED BY <1>1, <1>2, <3>2, TotalsAdd
    <3>6. d <= c /\ d \in Nat /\ c \in Nat
      <4>1. e \in 0..Len(s) /\ Len(s) \in 0..Len(s)
        BY <1>2, <3>2, EndsAre
      <4> HIDE DEF e
      <4> QED BY <4>1, TotalsAre, TotalsGrow
    <3> HIDE DEF w, a, c, d
    <3>7. c > kLimit
      BY <1>2, <3>3, <3>4, <3>5, <3>6
    <3> QED BY <3>7 DEF c
  <2> HIDE DEF i, t, q
  <2> QED BY <1>1, <1>3, <2>1, <2>2 DEF LoopInv, q
<1>6. CASE (r.ok => i = Len(s)) /\ q = r
  BY <1>1, <1>3, <1>6 DEF LoopInv
<1>7. \/ /\ r.ok /\ i < Len(s) /\ Component(s, i) /\ Fits(s, i, t)
         /\ q = [ok |-> TRUE, at |-> e, total |-> t + Taken(s, e)]
      \/ /\ r.ok /\ i < Len(s) /\ ~(Component(s, i) /\ Fits(s, i, t))
         /\ q = [ok |-> FALSE, at |-> i, total |-> t]
      \/ (r.ok => i = Len(s)) /\ q = r
  BY <1>1, NextRoundIs
<1> HIDE DEF i, t, q, e
<1>8. LoopInv(s, g, n, q)
  BY <1>4, <1>5, <1>6, <1>7 DEF q
<1> QED BY <1>8 DEF q

\* The text that the loop reads to its end is valid, and is what it adds up to.
LEMMA LoopEnds ==
  ASSUME NEW A, NEW s \in Seq(A), s # <<>>, NEW g, TotalsOf(s, g)
  PROVE  /\ Durations!Rounds(s)[Len(s)].ok \in BOOLEAN
         /\ Durations!Rounds(s)[Len(s)].ok =>
               /\ Durations!Valid(s) /\ g[Len(s)] \in 0..kLimit
               /\ Durations!Rounds(s)[Len(s)].total = g[Len(s)]
         /\ ~Durations!Rounds(s)[Len(s)].ok => ~Durations!Valid(s) \/ g[Len(s)] > kLimit
<1> DEFINE m == Len(s)
           f == Durations!Rounds(s)
           T == {n \in 0..m : LoopInv(s, g, n, f[n])}
<1>1. m \in Nat /\ m # 0 /\ Durations!Ends(s) \subseteq 1..m
  BY EndsAre, EmptySeq
<1>2. /\ f[0] = FirstRound /\ \A n \in 0..m : f[n] \in Rounded(s)
      /\ \A n \in 1..m : f[n] = NextRound(s, f[n - 1])
  BY RoundsFollow
<1> HIDE DEF m, f
<1>3. 0 \in T
  <2>1. f[0] \in Rounded(s) /\ 0 \in 0..m
    BY <1>1, <1>2
  <2>2. f[0].ok = TRUE /\ f[0].at = 0 /\ f[0].total = 0
    BY <1>2 DEF FirstRound
  <2>3. g[0] = 0
    BY DEF TotalsOf
  <2>4. \A e \in Durations!Ends(s) : ~(e <= 0)
    BY <1>1
  <2> QED BY <2>1, <2>2, <2>3, <2>4 DEF LoopInv
<1>4. ASSUME NEW n \in 1..m, n - 1 \in T PROVE n \in T
  <2>1. n \in 0..m /\ LoopInv(s, g, n - 1, f[n - 1]) /\ n \in 1..Len(s)
    BY <1>1, <1>4 DEF m
  <2>2. LoopInv(s, g, n, NextRound(s, f[n - 1]))
    BY <2>1, LoopStep
  <2>3. f[n] = NextRound(s, f[n - 1])
    BY <1>2
  <2> QED BY <2>1, <2>2, <2>3
<1>5. T \in SUBSET (0..m)
  OBVIOUS
<1>6. LoopInv(s, g, m, f[m])
  <2>1. T = 0..m
    <3> HIDE DEF T
    <3> QED BY <1>1, <1>3, <1>4, <1>5, IndUpTo, Zenon
  <2>2. m \in T
    BY <1>1, <2>1
  <2> QED BY <2>2
<1> DEFINE r == f[m]
<1>7. /\ r \in Rounded(s) /\ r.total = g[r.at]
      /\ \A e \in Durations!Ends(s) : e <= r.at => Durations!WellFormed(s, e)
      /\ r.ok => r.at = m \/ r.at >= m
      /\ ~r.ok => ~Durations!Valid(s) \/ g[m] > kLimit
  BY <1>6 DEF LoopInv, m
<1> HIDE DEF r
<1>8. r.ok \in BOOLEAN /\ r.at \in {0} \cup Durations!Ends(s) /\ r.total \in 0..kLimit
  BY <1>7, Zenon DEF Rounded
<1>9. ASSUME r.ok PROVE Durations!Valid(s) /\ g[m] \in 0..kLimit /\ r.total = g[m]
  <2>1. r.at = m
    BY <1>1, <1>7, <1>8, <1>9
  <2>2. m \in Durations!Ends(s)
    BY <1>1, <1>8, <2>1
  <2>3. \A e \in Durations!Ends(s) : Durations!WellFormed(s, e)
    BY <1>1, <1>7, <2>1
  <2>4. Durations!Valid(s)
    BY <2>2, <2>3 DEF Durations!Valid, m
  <2> QED BY <1>7, <1>8, <2>1, <2>4
<1> QED BY <1>7, <1>8, <1>9 DEF r, f, m

\* The sum of the components is that total, if what they lose is.
LEMMA SumIs ==
  ASSUME NEW A, NEW s \in Seq(A), NEW g, TotalsOf(s, g), Durations!Valid(s), NEW lost,
         \A e \in Durations!Ends(s) : Durations!Nanoseconds(s, e) - lost[e] = Taken(s, e)
  PROVE  Durations!Sum(s, lost)[Len(s)] = g[Len(s)]
<1> DEFINE m == Len(s)
           part(n) == Durations!Nanoseconds(s, n) - lost[n]
           Is(f) == f = [n \in 0..m |-> IF n = 0 THEN 0
                                        ELSE IF n \in Durations!Ends(s) THEN f[n - 1] + part(n)
                                        ELSE f[n - 1]]
           sum == CHOOSE f : Is(f)
<1>1. /\ m \in Nat /\ g \in [0..m -> Nat] /\ g[0] = 0 /\ Durations!Ends(s) \subseteq 1..m
      /\ \A n \in 1..m : n \notin Durations!Ends(s) => g[n] = g[n - 1]
      /\ \A n \in Durations!Ends(s) : g[n] = g[n - 1] + part(n)
  <2>1. \A n \in Durations!Ends(s) : Durations!WellFormed(s, n)
    BY DEF Durations!Valid
  <2>2. \A n \in Durations!Ends(s) : g[n] = g[n - 1] + Taken(s, n)
    BY <2>1, TotalsAre
  <2>3. \A n \in 1..m : n \notin Durations!Ends(s) => g[n] = g[n - 1]
    BY TotalsAre
  <2> QED BY <2>2, <2>3, EndsAre DEF TotalsOf
<1>2. Durations!Sum(s, lost) = sum
  BY Zenon DEF Durations!Sum
<1> HIDE DEF m, part
<1>3. \A n \in 0..m : n # 0 => n \in 1..m
  BY <1>1
<1>4. Is(g)
  <2>1. g = [n \in 0..m |-> g[n]]
    BY <1>1
  <2>2. \A n \in 0..m : g[n] = IF n = 0 THEN 0 ELSE IF n \in Durations!Ends(s) THEN g[n - 1] + part(n) ELSE g[n - 1]
    BY <1>1, <1>3
  <2> QED BY <2>1, <2>2, Zenon
<1>5. Is(sum)
  <2> HIDE DEF Is
  <2> QED BY <1>4
<1> HIDE DEF sum
<1>6. /\ sum[0] = 0
      /\ \A n \in 1..m : sum[n] = IF n \in Durations!Ends(s) THEN sum[n - 1] + part(n) ELSE sum[n - 1]
  <2>1. 0 \in 0..m /\ \A n \in 1..m : n \in 0..m /\ n # 0
    BY <1>1
  <2> QED BY <1>5, <2>1, Zenon
<1> HIDE DEF Is
<1> DEFINE T == {n \in 0..m : sum[n] = g[n]}
<1>7. 0 \in T
  BY <1>1, <1>6
<1>8. ASSUME NEW n \in 1..m, n - 1 \in T PROVE n \in T
  <2>1. n \in 0..m /\ sum[n - 1] = g[n - 1]
    BY <1>1, <1>8
  <2> QED BY <1>1, <1>6, <2>1
<1>9. T \in SUBSET (0..m)
  OBVIOUS
<1> HIDE DEF T
<1>10. T = 0..m
  BY <1>1, <1>7, <1>8, <1>9, IndUpTo, Zenon
<1>11. m \in T
  BY <1>1, <1>10
<1>12. sum[m] = g[m]
  BY <1>11 DEF T
<1> QED BY <1>2, <1>12 DEF m

\* What each component loses.
LostOf(s) ==
    [e \in Durations!Ends(s) |->
        IF Durations!WellFormed(s, e) THEN Durations!Nanoseconds(s, e) - Taken(s, e) ELSE 0]

LEMMA LostIs ==
  ASSUME NEW A, NEW s \in Seq(A)
  PROVE  /\ LostOf(s) \in [Durations!Ends(s) -> {0, 1}]
         /\ \A e \in Durations!Ends(s) :
               LostOf(s)[e] = 1 => Durations!Places(s, e) > Digits /\ Durations!Ten(Digits) % Unit[s[e]] # 0
         /\ \A e \in Durations!Ends(s) :
               Durations!WellFormed(s, e) => Durations!Nanoseconds(s, e) - LostOf(s)[e] = Taken(s, e)
<1>1. ASSUME NEW e \in Durations!Ends(s), Durations!WellFormed(s, e)
      PROVE  /\ LostOf(s)[e] \in {0, 1}
             /\ LostOf(s)[e] = 1 => Durations!Places(s, e) > Digits /\ Durations!Ten(Digits) % Unit[s[e]] # 0
             /\ Durations!Nanoseconds(s, e) - LostOf(s)[e] = Taken(s, e)
  <2> DEFINE x == Durations!Nanoseconds(s, e)
             y == Taken(s, e)
  <2>1. PICK l \in {0, 1} : /\ x = y + l
                            /\ l = 1 => Durations!Places(s, e) > Digits /\ Durations!Ten(Digits) % Unit[s[e]] # 0
    BY <1>1, TakenIs
  <2>2. y \in Nat
    BY <1>1, TakenIs
  <2>3. LostOf(s)[e] = x - y
    BY <1>1 DEF LostOf
  <2> HIDE DEF x, y
  <2>4. LostOf(s)[e] = l /\ x - l = y
    BY <2>1, <2>2, <2>3
  <2> QED BY <2>1, <2>4 DEF x, y
<1>2. ASSUME NEW e \in Durations!Ends(s), ~Durations!WellFormed(s, e) PROVE LostOf(s)[e] = 0
  BY <1>2 DEF LostOf
<1>3. \A e \in Durations!Ends(s) : LostOf(s)[e] \in {0, 1}
  BY <1>1, <1>2
<1>4. LostOf(s) \in [Durations!Ends(s) -> {0, 1}]
  <2>1. LostOf(s) = [e \in Durations!Ends(s) |-> LostOf(s)[e]]
    BY DEF LostOf
  <2> QED BY <1>3, <2>1
<1>5. ASSUME NEW e \in Durations!Ends(s), LostOf(s)[e] = 1
      PROVE  Durations!Places(s, e) > Digits /\ Durations!Ten(Digits) % Unit[s[e]] # 0
  <2>1. Durations!WellFormed(s, e)
    BY <1>2, <1>5
  <2> QED BY <1>1, <1>5, <2>1
<1> QED BY <1>1, <1>4, <1>5

LEMMA UnsignedIs ==
  ASSUME NEW A, NEW text \in Seq(A)
  PROVE  Durations!Unsigned(text) \in Seq(A)
<1>1. text # <<>> => Tail(text) \in Seq(A)
  BY HeadTailProperties
<1> QED BY <1>1 DEF Durations!Unsigned

LEMMA DurationIsExact ==
  ASSUME NEW A, NEW text \in Seq(A)
  PROVE  Durations!ExactOrNothing(text)
<1> DEFINE s == Durations!Unsigned(text)
           neg == Durations!Negative(text)
           lost == LostOf(s)
           end == Durations!Rounds(s)[Len(s)]
           total == (IF neg THEN -1 ELSE 1) * Durations!Sum(s, lost)[Len(s)]
           zero == s = <<"0">>
           V == Durations!Valid(s)
<1>1. s \in Seq(A)
  BY UnsignedIs
<1>2. neg \in BOOLEAN /\ zero \in BOOLEAN /\ V \in BOOLEAN
  <2>1. neg \in BOOLEAN
    BY Zenon DEF Durations!Negative
  <2>2. V \in BOOLEAN
    BY Zenon DEF Durations!Valid
  <2> QED BY <2>1, <2>2
<1>3. Durations!parse_duration(text) =
         IF zero THEN <<0>>
         ELSE IF s = <<>> \/ ~end.ok \/ Durations!Exceeds(end.total, neg) THEN <<>>
         ELSE IF neg THEN <<-end.total>> ELSE <<end.total>>
  BY Zenon DEF Durations!parse_duration, Durations!None
<1>4. Durations!ParsedBut(text, lost) <=>
         Durations!parse_duration(text) =
             IF zero THEN <<0>> ELSE IF V /\ total \in (-kLimit)..(kLimit - 1) THEN <<total>> ELSE <<>>
  BY Zenon DEF Durations!ParsedBut, Durations!None
<1> HIDE DEF s, neg, lost, end, total, zero, V
<1>5. /\ lost \in [Durations!Ends(s) -> {0, 1}]
      /\ \A e \in Durations!Ends(s) :
            lost[e] = 1 => Durations!Places(s, e) > Digits /\ Durations!Ten(Digits) % Unit[s[e]] # 0
      /\ \A e \in Durations!Ends(s) :
            Durations!WellFormed(s, e) => Durations!Nanoseconds(s, e) - lost[e] = Taken(s, e)
  BY <1>1, LostIs DEF lost
<1>6. PICK g : TotalsOf(s, g)
  BY <1>1, TotalsExist
<1> DEFINE x == g[Len(s)]
<1>7. x \in Nat /\ kLimit \in Nat
  <2>1. Len(s) \in 0..Len(s)
    BY <1>1
  <2> QED BY <1>1, <1>6, <2>1, TotalsAre, LimitsAre
<1>8. V => total = (IF neg THEN -1 ELSE 1) * x
  <2> SUFFICES ASSUME V PROVE total = (IF neg THEN -1 ELSE 1) * x
    OBVIOUS
  <2>1. Durations!Valid(s) /\ \A e \in Durations!Ends(s) : Durations!WellFormed(s, e)
    BY DEF V, Durations!Valid
  <2>2. Durations!Sum(s, lost)[Len(s)] = x
    BY <1>1, <1>5, <1>6, <2>1, SumIs
  <2> QED BY <2>2 DEF total
<1>9. V => s # <<>>
  BY Zenon DEF V, Durations!Valid
<1>10. s # <<>> => /\ end.ok \in BOOLEAN
                   /\ end.ok => V /\ x \in 0..kLimit /\ end.total = x
                   /\ ~end.ok => ~V \/ x > kLimit
  BY <1>1, <1>6, LoopEnds DEF end, V
<1> HIDE DEF x
<1>11. Durations!ParsedBut(text, lost)
  <2>1. CASE zero
    BY <1>3, <1>4, <2>1
  <2>2. CASE ~zero /\ s = <<>>
    BY <1>3, <1>4, <1>9, <2>2, Zenon
  <2>3. CASE ~zero /\ s # <<>> /\ ~end.ok
    <3>1. ~(V /\ total \in (-kLimit)..(kLimit - 1))
      <4>1. ASSUME V, total \in (-kLimit)..(kLimit - 1) PROVE FALSE
        <5>1. x > kLimit /\ total = (IF neg THEN -1 ELSE 1) * x
          BY <1>8, <1>10, <2>3, <4>1
        <5> QED BY <1>7, <4>1, <5>1
      <4> QED BY <4>1
    <3> QED BY <1>3, <1>4, <2>3, <3>1, Zenon
  <2>4. CASE ~zero /\ s # <<>> /\ end.ok
    <3>1. V /\ x \in 0..kLimit /\ end.total = x /\ total = (IF neg THEN -1 ELSE 1) * x
      BY <1>8, <1>10, <2>4
    <3>2. Durations!Exceeds(end.total, neg) <=> x > kLimit \/ (~neg /\ x = kLimit)
      BY <3>1, Zenon DEF Durations!Exceeds
    <3>3. CASE neg
      <4>0. -x \in (-kLimit)..(kLimit - 1) /\ ~(x > kLimit) /\ (-1) * x = -x
        <5>1. x \in Nat /\ kLimit \in Nat /\ x <= kLimit /\ (x = 0 => kLimit > 0)
          BY <1>7, <3>1, LimitsAre
        <5> QED BY <5>1
      <4>1. total = -x /\ total \in (-kLimit)..(kLimit - 1) /\ ~(x > kLimit)
        BY <3>1, <3>3, <4>0, Zenon
      <4>2. Durations!parse_duration(text) = <<-end.total>>
        BY <1>3, <2>4, <3>2, <3>3, <4>1, Zenon
      <4>3. Durations!parse_duration(text) = <<total>>
        BY <3>1, <4>1, <4>2, Zenon
      <4> QED BY <1>4, <2>4, <3>1, <4>1, <4>3, Zenon
    <3>4. CASE ~neg
      <4>1. total = x /\ (total \in (-kLimit)..(kLimit - 1) <=> x # kLimit) /\ ~(x > kLimit)
        BY <1>7, <3>1, <3>4
      <4>2. CASE x = kLimit
        <5>1. Durations!parse_duration(text) = <<>>
          BY <1>3, <2>4, <3>2, <3>4, <4>2, Zenon
        <5> QED BY <1>4, <2>4, <4>1, <4>2, <5>1, Zenon
      <4>3. CASE x # kLimit
        <5>1. Durations!parse_duration(text) = <<end.total>>
          BY <1>3, <2>4, <3>2, <3>4, <4>1, <4>3, Zenon
        <5>2. Durations!parse_duration(text) = <<total>>
          BY <3>1, <4>1, <5>1, Zenon
        <5> QED BY <1>4, <2>4, <3>1, <4>1, <4>3, <5>2, Zenon
      <4> QED BY <4>2, <4>3
    <3> QED BY <3>3, <3>4
  <2> QED BY <1>10, <2>1, <2>2, <2>3, <2>4
<1> QED BY <1>5, <1>11, Zenon DEF Durations!ExactOrNothing, s

\* The task parse-duration, for every text, every table of units and every width: the duration
\* is the sum of what its components say, less a nanosecond at most of one whose fraction has
\* more digits than are read in a unit that is not a divisor of a power of ten, and it is there
\* exactly when the text is well formed and that is a number of the width.
THEOREM DurationsHold == InputSpec => []DurationExactOrNothing
<1>1. Inputs => DurationExactOrNothing
  BY DurationIsExact DEF Inputs, DurationExactOrNothing
<1> QED BY <1>1, InputsHold, PTL

=============================================================================
