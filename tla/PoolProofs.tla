------------------------------ MODULE PoolProofs ------------------------------
(***************************************************************************)
(* ThreadPool, for any number of workers, callers and tasks: no task is    *)
(* lost, doubled or overtaken, no wakeup is missed.                        *)
(***************************************************************************)
EXTENDS ThreadPool, TLAPS, FiniteSetTheorems, SequenceTheorems

LEMMA WorkersFinite == IsFiniteSet(Workers) /\ Cardinality(Workers) \in Nat
                       /\ Workers # {} /\ Workers \subseteq Nat
<1>1. /\ (IF threads = 0 THEN 1 ELSE threads) \in Nat
      /\ (IF threads = 0 THEN 1 ELSE threads) >= 1
  BY PoolAssumption DEF PoolAssumption
<1>2. IsFiniteSet(Workers)
  BY <1>1, FS_Interval DEF Workers
<1>3. 1 \in Workers /\ Workers \subseteq Nat
  BY <1>1 DEF Workers
<1> QED BY <1>2, <1>3, FS_CardinalityType

\* What is not said of the count of tasks in TypeOK.
Types == /\ queue \in Seq(Nat)
         /\ \A j \in 1..Len(queue) : queue[j] \in 1..Len(futures)
         /\ active \in Nat
         /\ stopping \in BOOLEAN
         /\ pc \in [Workers -> {"loop", "work_cv", "run", "notify", "finish", "exited"}]
         /\ job \in [Workers -> Nat]
         /\ \A w \in Workers : job[w] <= Len(futures)
         /\ at \in [Callers -> {"idle", "notify", "wait_idle", "idle_cv", "notify_all", "join",
                                "gone"}]
         /\ futures \in Seq({"pending", "value", "exception"})

Inv == Types /\ Accounted /\ Awake

LEMMA TypesImply == Inv => TypeOK
<1> SUFFICES ASSUME Inv PROVE TypeOK
  OBVIOUS
<1>1. active \in 0..Cardinality(Workers)
  <2>1. Busy \in SUBSET Workers
    BY DEF Busy
  <2>2. Cardinality(Busy) <= Cardinality(Workers)
    BY <2>1, WorkersFinite, FS_Subset
  <2> QED BY <2>2, WorkersFinite DEF Inv, Types, Accounted
<1>2. queue \in Seq(1..Len(futures))
  <2>1. Len(queue) \in Nat /\ queue = [j \in 1..Len(queue) |-> queue[j]]
    BY DEF Inv, Types
  <2>2. \A j \in 1..Len(queue) : queue[j] \in 1..Len(futures)
    BY DEF Inv, Types
  <2> QED BY <2>1, <2>2
<1>3. job \in [Workers -> 0..Len(futures)]
  BY DEF Inv, Types
<1> QED BY <1>1, <1>2, <1>3 DEF Inv, Types, TypeOK

LEMMA InitInv == Init => Inv
<1> SUFFICES ASSUME Init PROVE Inv
  OBVIOUS
<1>1. Busy = {} /\ Running = {} /\ Waiting = {}
  BY DEF Init, Busy, Running, Waiting
<1>2. Types
  <2>1. <<>> \in Seq(Nat) /\ Len(<<>>) = 0 /\ <<>> \in Seq({"pending", "value", "exception"})
    OBVIOUS
  <2>2. queue = <<>> /\ futures = <<>>
    BY DEF Init
  <2>3. /\ pc \in [Workers -> {"loop", "work_cv", "run", "notify", "finish", "exited"}]
        /\ job \in [Workers -> Nat] /\ \A w \in Workers : job[w] = 0
        /\ at \in [Callers -> {"idle", "notify", "wait_idle", "idle_cv", "notify_all", "join",
                               "gone"}]
    BY DEF Init
  <2>4. \A j \in 1..Len(queue) : queue[j] \in 1..Len(futures)
    BY <2>1, <2>2
  <2>5. active = 0 /\ stopping = FALSE
    BY DEF Init
  <2>6. /\ queue \in Seq(Nat) /\ futures \in Seq({"pending", "value", "exception"})
        /\ Len(futures) = 0
    BY <2>1, <2>2
  <2>7. \A w \in Workers : job[w] <= Len(futures)
    BY <2>3, <2>6
  <2>8. active \in Nat /\ stopping \in BOOLEAN
    BY <2>5
  <2> QED BY <2>3, <2>4, <2>6, <2>7, <2>8 DEF Types
<1>3. Accounted
  BY <1>1, FS_EmptySet
     DEF Init, Accounted, QueueOrdered, JobsDistinct, JobsFirst, PendingPlaced
<1>4. Awake
  BY <1>1 DEF Init, Awake
<1> QED BY <1>2, <1>3, <1>4 DEF Inv


-----------------------------------------------------------------------------
(* The steps.                                                              *)

\* A step that moves no task.
LEMMA Unmoved ==
  ASSUME Accounted, UNCHANGED <<queue, active, job, futures>>, Running' = Running, Busy' = Busy
  PROVE  Accounted'
BY DEF Accounted, QueueOrdered, JobsDistinct, JobsFirst, PendingPlaced, Queued

LEMMA QuietStep ==
  ASSUME Inv,
         \/ \E w \in Workers : Wait(w) \/ Exit(w) \/ NotifyFromTask(w) \/ WakeWorker(w)
         \/ \E c \in Callers : CallerStep(c) \/ wait_idle(c) \/ WakeCaller(c)
         \/ Destroy \/ OwnerStep
  PROVE  Types' /\ Accounted'
<1> USE DEF Inv, Types
<1>1. UNCHANGED <<queue, active, job, futures>>
  BY DEF Wait, Exit, NotifyFromTask, WakeWorker, CallerStep, Notify, Idle, wait_idle, WakeCaller,
         Destroy, OwnerStep, NotifyAll, Join
<1>2. \A some \in OneOf : some \subseteq Waiting
  BY DEF OneOf
<1>3. /\ pc' \in [Workers -> {"loop", "work_cv", "run", "notify", "finish", "exited"}]
      /\ Running' = Running /\ Busy' = Busy
  <2> USE DEF Running, Busy, Goto, Woken, Waiting
  <2>1. CASE \E w \in Workers : Wait(w) \/ Exit(w) \/ WakeWorker(w)
    BY <2>1 DEF Wait, Exit, WakeWorker
  <2>2. CASE \E w \in Workers : NotifyFromTask(w)
    BY <2>2, <1>2 DEF NotifyFromTask
  <2>3. CASE \E c \in Callers : Notify(c)
    BY <2>3, <1>2 DEF Notify
  <2>4. CASE NotifyAll
    BY <2>4 DEF NotifyAll
  <2>5. CASE (\E c \in Callers : Idle(c) \/ wait_idle(c) \/ WakeCaller(c)) \/ Destroy \/ Join
    BY <2>5 DEF Idle, wait_idle, WakeCaller, Destroy, Join
  <2> QED BY <2>1, <2>2, <2>3, <2>4, <2>5 DEF CallerStep, OwnerStep
<1>4. stopping' \in BOOLEAN /\ at' \in [Callers -> {"idle", "notify", "wait_idle", "idle_cv",
                                                   "notify_all", "join", "gone"}]
  BY PoolAssumption
     DEF PoolAssumption, CallerTo, Wait, Exit, NotifyFromTask, WakeWorker, CallerStep, Notify, Idle,
         wait_idle, WakeCaller, Destroy, OwnerStep, NotifyAll, Join
<1>5. Types'
  BY <1>1, <1>3, <1>4
<1> QED BY <1>1, <1>3, <1>5, Unmoved

\* A task is submitted.
LEMMA EnqueueStep ==
  ASSUME Types, Accounted, Enqueue, UNCHANGED <<active, job>>, Running' = Running, Busy' = Busy
  PROVE  /\ queue' \in Seq(Nat) /\ futures' \in Seq({"pending", "value", "exception"})
         /\ Len(futures') = Len(futures) + 1
         /\ \A j \in 1..Len(queue') : queue'[j] \in 1..Len(futures')
         /\ \A k : Queued(k)' <=> Queued(k) \/ k = Len(futures) + 1
         /\ Accounted'
<1>0. PICK n : n = Len(futures) + 1
  OBVIOUS
<1>1. n \in Nat /\ n > 0 /\ n = Len(futures) + 1 /\ Len(futures) \in Nat /\ queue \in Seq(Nat) /\ futures \in Seq({"pending", "value", "exception"})
      /\ Len(queue) \in Nat
  BY <1>0 DEF Types
<1>2. /\ queue' \in Seq(Nat) /\ Len(queue') = Len(queue) + 1 /\ queue'[Len(queue) + 1] = n
      /\ \A j \in 1..Len(queue) : queue'[j] = queue[j]
  BY <1>1, AppendProperties DEF Enqueue
<1>3. /\ futures' \in Seq({"pending", "value", "exception"})
      /\ Len(futures') = n /\ futures'[n] = "pending"
      /\ \A k \in 1..Len(futures) : futures'[k] = futures[k]
  BY <1>1, AppendProperties DEF Enqueue
<1>4. \A j \in 1..Len(queue) : queue[j] \in 1..Len(futures)
  BY DEF Types
<1>5. \A j \in 1..Len(queue') : j \in 1..Len(queue) \/ j = Len(queue) + 1
  BY <1>1, <1>2
<1>6. QueueOrdered'
  <2> SUFFICES ASSUME NEW j \in 1..Len(queue'), NEW k \in 1..Len(queue'), j < k
               PROVE  queue'[j] < queue'[k]
    BY DEF QueueOrdered
  <2>1. j \in 1..Len(queue) /\ queue'[j] = queue[j]
    BY <1>1, <1>2
  <2>2. CASE k \in 1..Len(queue)
    BY <1>2, <2>1, <2>2 DEF Accounted, QueueOrdered
  <2>3. CASE k = Len(queue) + 1
    BY <1>1, <1>2, <1>4, <2>1, <2>3
  <2> QED BY <1>5, <2>2, <2>3
<1>7. JobsDistinct'
  BY DEF Accounted, JobsDistinct
<1>8. JobsFirst'
  <2>1. \A w \in Running : job[w] <= Len(futures) /\ job[w] \in Nat
    BY DEF Types, Running
  <2> SUFFICES ASSUME NEW w \in Running
               PROVE  job[w] > 0 /\ \A j \in 1..Len(queue') : job[w] < queue'[j]
    BY DEF JobsFirst
  <2>2. job[w] > 0 /\ \A j \in 1..Len(queue) : job[w] < queue[j]
    BY DEF Accounted, JobsFirst
  <2>3. job[w] < n
    BY <1>1, <2>1
  <2> QED BY <1>2, <1>5, <2>2, <2>3
<1>12. \A k : Queued(k)' <=> Queued(k) \/ k = n
  <2>1. ASSUME NEW k, Queued(k)' PROVE Queued(k) \/ k = n
    <3>1. PICK j \in 1..Len(queue') : queue'[j] = k
      BY <2>1 DEF Queued
    <3> QED BY <3>1, <1>5, <1>2 DEF Queued
  <2>2. ASSUME NEW k, Queued(k) PROVE Queued(k)'
    <3>1. PICK j \in 1..Len(queue) : queue[j] = k
      BY <2>2 DEF Queued
    <3>2. j \in 1..Len(queue') /\ queue'[j] = k
      BY <3>1, <1>1, <1>2
    <3> QED BY <3>2 DEF Queued
  <2>3. Queued(n)'
    <3>1. Len(queue) + 1 \in 1..Len(queue')
      BY <1>1, <1>2
    <3> QED BY <3>1, <1>2 DEF Queued
  <2> QED BY <2>1, <2>2, <2>3
<1>9. PendingPlaced'
  <2>1. \A w \in Running : job[w] # n
    BY <1>1 DEF Types, Running
  <2>2. ~Queued(n)
    BY <1>1, <1>4 DEF Queued
  <2>3. \A k \in 1..Len(futures) : k # n
    BY <1>1
  <2>4. \A k \in 1..n : k \in 1..Len(futures) \/ k = n
    BY <1>1
  <2> QED BY <1>1, <1>3, <1>12, <2>1, <2>2, <2>3, <2>4 DEF Accounted, PendingPlaced
<1>10. \A j \in 1..Len(queue') : queue'[j] \in 1..Len(futures')
  <2> SUFFICES ASSUME NEW j \in 1..Len(queue') PROVE queue'[j] \in 1..n
    BY <1>3
  <2>1. CASE j \in 1..Len(queue)
    <3>1. queue'[j] = queue[j] /\ queue[j] \in 1..Len(futures)
      BY <1>2, <1>4, <2>1
    <3> QED BY <1>1, <3>1
  <2>2. CASE j = Len(queue) + 1
    BY <1>1, <1>2, <2>2
  <2> QED BY <1>5, <2>1, <2>2
<1>11. active' = Cardinality(Busy')
  BY DEF Accounted
<1> QED BY <1>1, <1>2, <1>3, <1>6, <1>7, <1>8, <1>9, <1>10, <1>11, <1>12 DEF Accounted

LEMMA SubmitStep ==
  ASSUME Inv, (\E w \in Workers : SubmitFromTask(w)) \/ (\E c \in Callers : Submit(c))
  PROVE  Types' /\ Accounted'
<1> USE DEF Inv
<1>1. /\ Enqueue /\ UNCHANGED <<active, stopping, job>>
      /\ pc' \in [Workers -> {"loop", "work_cv", "run", "notify", "finish", "exited"}]
      /\ at' \in [Callers -> {"idle", "notify", "wait_idle", "idle_cv", "notify_all", "join",
                              "gone"}]
      /\ Running' = Running /\ Busy' = Busy
  BY DEF SubmitFromTask, Submit, Types, Goto, CallerTo, Running, Busy
<1>2. /\ queue' \in Seq(Nat) /\ futures' \in Seq({"pending", "value", "exception"})
      /\ Len(futures') = Len(futures) + 1
      /\ \A j \in 1..Len(queue') : queue'[j] \in 1..Len(futures')
      /\ Accounted'
  BY <1>1, EnqueueStep
<1>3. \A w \in Workers : job'[w] <= Len(futures')
  BY <1>1, <1>2 DEF Types
<1> QED BY <1>1, <1>2, <1>3 DEF Types

LEMMA TakeStep ==
  ASSUME Inv, NEW w \in Workers, Take(w)
  PROVE  /\ Types' /\ Accounted'
         /\ Queued(Head(queue)) /\ \A k : Queued(k)' <=> Queued(k) /\ k # Head(queue)
         /\ \A k : Queued(k) => Head(queue) <= k
<1> USE DEF Inv
<1>1. /\ pc[w] = "loop" /\ queue # <<>> /\ queue \in Seq(Nat) /\ Len(queue) \in Nat
      /\ job' = [job EXCEPT ![w] = Head(queue)] /\ queue' = Tail(queue) /\ active' = active + 1
      /\ pc' = [pc EXCEPT ![w] = "run"] /\ UNCHANGED <<stopping, at, futures>>
  BY DEF Take, Goto, Types
<1>2. PICK h : h = queue[1]
  OBVIOUS
<1>3. /\ Len(queue) >= 1 /\ Head(queue) = h /\ h \in Nat /\ h \in 1..Len(futures)
      /\ Tail(queue) \in Seq(Nat) /\ Len(Tail(queue)) = Len(queue) - 1
      /\ \A j \in 1..(Len(queue) - 1) : Tail(queue)[j] = queue[j + 1]
  <2>1. Len(queue) >= 1
    BY <1>1, EmptySeq
  <2>2. 1 \in 1..Len(queue)
    BY <1>1, <2>1
  <2> QED BY <1>1, <1>2, <2>1, <2>2, HeadTailProperties DEF Types
<1>4. /\ w \notin Running /\ Running' = Running \cup {w}
      /\ w \notin Busy /\ Busy' = Busy \cup {w}
  BY <1>1 DEF Running, Busy, Types
<1>5. job'[w] = h /\ \A v \in Running : job'[v] = job[v]
  BY <1>1, <1>3, <1>4 DEF Types, Running
<1>6. \A j \in 1..(Len(queue) - 1) : j + 1 \in 1..Len(queue) /\ queue[j + 1] \in Nat
                                    /\ h < queue[j + 1]
  <2> SUFFICES ASSUME NEW j \in 1..(Len(queue) - 1)
               PROVE  /\ j + 1 \in 1..Len(queue) /\ queue[j + 1] \in Nat
                      /\ h < queue[j + 1]
    OBVIOUS
  <2>1. j + 1 \in 1..Len(queue) /\ 1 \in 1..Len(queue) /\ 1 < j + 1
    BY <1>1, <1>3
  <2> QED BY <1>1, <1>2, <2>1 DEF Accounted, QueueOrdered
<1>7. Types'
  <2>1. queue' \in Seq(Nat) /\ \A j \in 1..Len(queue') : queue'[j] \in 1..Len(futures')
    BY <1>1, <1>3, <1>6 DEF Types
  <2>2. job' \in [Workers -> Nat] /\ \A v \in Workers : job'[v] <= Len(futures')
    BY <1>1, <1>3 DEF Types
  <2>3. active' \in Nat
    BY <1>1 DEF Types
  <2>4. pc' \in [Workers -> {"loop", "work_cv", "run", "notify", "finish", "exited"}]
    BY <1>1 DEF Types
  <2> QED BY <1>1, <2>1, <2>2, <2>3, <2>4 DEF Types
<1>8. active' = Cardinality(Busy')
  <2>1. IsFiniteSet(Busy)
    BY WorkersFinite, FS_Subset DEF Busy
  <2> QED BY <1>1, <1>4, <2>1, FS_AddElement DEF Accounted
<1>9. QueueOrdered'
  <2> SUFFICES ASSUME NEW j \in 1..(Len(queue) - 1), NEW k \in 1..(Len(queue) - 1), j < k
               PROVE  Tail(queue)[j] < Tail(queue)[k]
    BY <1>1, <1>3 DEF QueueOrdered
  <2>1. j + 1 \in 1..Len(queue) /\ k + 1 \in 1..Len(queue) /\ j + 1 < k + 1
    BY <1>1
  <2> QED BY <1>3, <2>1 DEF Accounted, QueueOrdered
<1>10. \A v \in Running : job[v] > 0 /\ job[v] < h /\ job[v] \in Nat
                          /\ \A j \in 1..(Len(queue) - 1) : job[v] < queue[j + 1]
  <2>1. 1 \in 1..Len(queue)
    BY <1>1, <1>3
  <2> QED BY <1>2, <1>6, <2>1 DEF Accounted, JobsFirst, Types, Running
<1>11. JobsDistinct'
  <2> SUFFICES ASSUME NEW u \in Running \cup {w}, NEW v \in Running \cup {w}, job'[u] = job'[v]
               PROVE  u = v
    BY <1>4 DEF JobsDistinct
  <2>1. CASE u \in Running /\ v \in Running
    BY <1>5, <2>1 DEF Accounted, JobsDistinct
  <2>2. CASE u = w /\ v \in Running
    BY <1>3, <1>5, <1>10, <2>2
  <2>3. CASE u \in Running /\ v = w
    BY <1>3, <1>5, <1>10, <2>3
  <2> QED BY <2>1, <2>2, <2>3
<1>12. JobsFirst'
  <2> SUFFICES ASSUME NEW v \in Running \cup {w}
               PROVE  job'[v] > 0 /\ \A j \in 1..(Len(queue) - 1) : job'[v] < Tail(queue)[j]
    BY <1>1, <1>3, <1>4 DEF JobsFirst
  <2> QED BY <1>3, <1>5, <1>6, <1>10
<1>13. \A k : Queued(k) <=> Queued(k)' \/ k = h
  <2>1. ASSUME NEW k, Queued(k) PROVE Queued(k)' \/ k = h
    <3>1. PICK j \in 1..Len(queue) : queue[j] = k
      BY <2>1 DEF Queued
    <3>2. CASE j = 1
      BY <1>2, <3>1, <3>2
    <3>3. CASE j # 1
      <4>1. j - 1 \in 1..(Len(queue) - 1) /\ (j - 1) + 1 = j
        BY <1>1, <3>3
      <4>2. j - 1 \in 1..Len(queue') /\ queue'[j - 1] = k
        BY <1>1, <1>3, <3>1, <4>1
      <4> QED BY <4>2 DEF Queued
    <3> QED BY <3>2, <3>3
  <2>2. ASSUME NEW k, Queued(k)' PROVE Queued(k)
    <3>1. PICK j \in 1..Len(queue') : queue'[j] = k
      BY <2>2 DEF Queued
    <3> QED BY <1>1, <1>3, <1>6, <3>1 DEF Queued
  <2>3. Queued(h)
    <3>1. 1 \in 1..Len(queue)
      BY <1>1, <1>3
    <3> QED BY <1>2, <3>1 DEF Queued
  <2> QED BY <2>1, <2>2, <2>3
<1>14. PendingPlaced'
  <2> SUFFICES ASSUME NEW k \in 1..Len(futures)
               PROVE  futures[k] = "pending" <=> Queued(k)' \/ \E v \in Running' : job'[v] = k
    BY <1>1 DEF PendingPlaced
  <2>1. (\E v \in Running' : job'[v] = k) <=> k = h \/ \E v \in Running : job[v] = k
    BY <1>4, <1>5
  <2> QED BY <1>13, <2>1 DEF Accounted, PendingPlaced
<1>15. ~Queued(h)'
  <2> SUFFICES ASSUME NEW j \in 1..(Len(queue) - 1) PROVE Tail(queue)[j] # h
    BY <1>1, <1>3 DEF Queued
  <2> QED BY <1>3, <1>6
<1>16. \A k : Queued(k) => h <= k
  <2> SUFFICES ASSUME NEW j \in 1..Len(queue) PROVE h <= queue[j]
    BY DEF Queued
  <2>1. 1 \in 1..Len(queue) /\ queue[j] \in Nat
    BY <1>1, <1>3 DEF Types
  <2>2. CASE j = 1
    BY <1>2, <1>3, <2>2
  <2>3. CASE j # 1
    <3>1. 1 < j
      BY <2>3
    <3> QED BY <1>2, <1>3, <2>1, <3>1 DEF Accounted, QueueOrdered
  <2> QED BY <2>2, <2>3
<1>17. Types' /\ Accounted'
  BY <1>7, <1>8, <1>9, <1>11, <1>12, <1>14 DEF Accounted
<1>18. Queued(h) /\ \A k : Queued(k)' <=> Queued(k) /\ k # h
  BY <1>13, <1>15
<1> QED BY <1>3, <1>16, <1>17, <1>18

LEMMA CompleteStep ==
  ASSUME Inv, NEW w \in Workers, Complete(w)
  PROVE  Types' /\ Accounted'
<1> USE DEF Inv
<1>1. PICK how \in {"value", "exception"} : futures' = [futures EXCEPT ![job[w]] = how]
  BY DEF Complete
<1>2. /\ pc[w] = "run" /\ pc' = [pc EXCEPT ![w] = "finish"]
      /\ UNCHANGED <<queue, active, stopping, job, at>>
  BY DEF Complete, Goto
<1>3. /\ w \in Running /\ Running' = Running \ {w} /\ Busy' = Busy
  BY <1>2 DEF Running, Busy, Types
<1>4. job[w] \in 1..Len(futures) /\ Len(futures) \in Nat
  BY <1>3 DEF Types, Accounted, JobsFirst
<1>5. /\ futures' \in Seq({"pending", "value", "exception"}) /\ Len(futures') = Len(futures)
      /\ \A k \in 1..Len(futures) : futures'[k] = IF k = job[w] THEN how ELSE futures[k]
  BY <1>1, <1>4, ExceptSeq DEF Types
<1>6. Types'
  BY <1>2, <1>5 DEF Types
<1>7. QueueOrdered' /\ JobsDistinct' /\ JobsFirst' /\ active' = Cardinality(Busy')
  BY <1>2, <1>3 DEF Accounted, QueueOrdered, JobsDistinct, JobsFirst
<1>8. PendingPlaced'
  <2> SUFFICES ASSUME NEW k \in 1..Len(futures)
               PROVE  futures'[k] = "pending" <=> Queued(k) \/ \E v \in Running \ {w} : job[v] = k
    BY <1>2, <1>3, <1>5 DEF PendingPlaced, Queued
  <2>1. CASE k = job[w]
    <3>1. ~Queued(k)
      BY <1>3, <2>1 DEF Queued, Accounted, JobsFirst, Types
    <3>2. ~ \E v \in Running \ {w} : job[v] = k
      BY <1>3, <2>1 DEF Accounted, JobsDistinct
    <3> QED BY <1>5, <2>1, <3>1, <3>2
  <2>2. CASE k # job[w]
    BY <1>5, <2>2 DEF Accounted, PendingPlaced
  <2> QED BY <2>1, <2>2
<1> QED BY <1>6, <1>7, <1>8 DEF Accounted

LEMMA FinishStep ==
  ASSUME Inv, NEW w \in Workers, Finish(w)
  PROVE  Types' /\ Accounted'
<1> USE DEF Inv
<1>1. /\ pc[w] = "finish" /\ pc' = [pc EXCEPT ![w] = "loop"] /\ active' = active - 1
      /\ UNCHANGED <<queue, stopping, job, futures>>
  BY DEF Finish, Goto
<1>2. /\ w \in Busy /\ Busy' = Busy \ {w} /\ Running' = Running
  BY <1>1 DEF Running, Busy, Types
<1>3. IsFiniteSet(Busy) /\ IsFiniteSet(Busy')
  BY WorkersFinite, FS_Subset DEF Busy
<1>4. active' = Cardinality(Busy') /\ active' \in Nat
  <2>1. active' = Cardinality(Busy')
    BY <1>1, <1>2, <1>3, FS_RemoveElement DEF Accounted
  <2> QED BY <1>3, <2>1, FS_CardinalityType
<1>5. at' \in [Callers -> {"idle", "notify", "wait_idle", "idle_cv", "notify_all", "join", "gone"}]
  BY DEF Finish, IdleNotified, Types
<1>6. Types'
  BY <1>1, <1>4, <1>5 DEF Types
<1>7. QueueOrdered' /\ JobsDistinct' /\ JobsFirst' /\ PendingPlaced'
  BY <1>1, <1>2 DEF Accounted, QueueOrdered, JobsDistinct, JobsFirst, PendingPlaced, Queued
<1> QED BY <1>4, <1>6, <1>7 DEF Accounted

LEMMA AwakeStep ==
  ASSUME Inv, [Next]_vars
  PROVE  Awake'
<1> USE DEF Inv, Types, Awake, Waiting
\* A worker that does something does not wait, unless it finds the queue empty.
<1>1. ASSUME NEW w \in Workers, WorkerStep(w) \/ SubmitFromTask(w) \/ WakeWorker(w), ~Wait(w)
      PROVE  Awake'
  <2>1. pc'[w] # "work_cv" /\ w \notin Waiting' /\ w \in Workers
    BY <1>1 DEF WorkerStep, SubmitFromTask, WakeWorker, Take, Exit, NotifyFromTask, Complete,
                Finish, Goto, Woken
  <2>2. Waiting' \subseteq Waiting
    <3>1. CASE NotifyFromTask(w)
      BY <3>1 DEF NotifyFromTask, OneOf, Woken
    <3>2. CASE ~NotifyFromTask(w)
      BY <1>1, <3>2 DEF WorkerStep, SubmitFromTask, WakeWorker, Take, Exit, Complete, Finish, Goto
    <3> QED BY <3>1, <3>2
  <2>3. stopping' = stopping /\ (at[Owner] = "notify_all" => at'[Owner] = "notify_all")
    BY <1>1, PoolAssumption
       DEF PoolAssumption, WorkerStep, SubmitFromTask, WakeWorker, Take, Exit, NotifyFromTask,
           Complete, Finish, IdleNotified
  <2> QED BY <2>1, <2>2, <2>3
<1>2. ASSUME NEW w \in Workers, Wait(w) PROVE Awake'
  BY <1>2 DEF Wait, Goto
\* A caller that has submitted notifies; whoever is notified does not wait.
<1>3. ASSUME NEW c \in Callers, Submit(c) PROVE Awake'
  BY <1>3, PoolAssumption DEF PoolAssumption, Submit, CallerTo, Usable
<1>4. ASSUME NEW c \in Callers, Notify(c) PROVE Awake'
  <2>1. PICK some \in OneOf : pc' = Woken(some)
    BY <1>4 DEF Notify
  <2>2. Waiting' = Waiting \ some
    BY <2>1 DEF Woken, OneOf
  <2>3. Waiting' # Workers
    BY <2>2, WorkersFinite DEF OneOf
  <2>4. stopping' = stopping /\ (at[Owner] = "notify_all" => at'[Owner] = "notify_all")
    BY <1>4, PoolAssumption DEF PoolAssumption, Notify, CallerTo
  <2> QED BY <2>2, <2>3, <2>4
<1>5. ASSUME NEW c \in Callers, Idle(c) \/ wait_idle(c) \/ WakeCaller(c) PROVE Awake'
  BY <1>5, PoolAssumption DEF PoolAssumption, Idle, wait_idle, WakeCaller, CallerTo
<1>6. CASE Destroy
  BY <1>6, PoolAssumption DEF PoolAssumption, Destroy, CallerTo
<1>7. CASE NotifyAll
  <2>1. Waiting' = {}
    BY <1>7 DEF NotifyAll, Woken
  <2> QED BY <2>1, WorkersFinite
<1>8. CASE Join
  BY <1>8, PoolAssumption DEF PoolAssumption, Join, CallerTo
<1>9. CASE UNCHANGED vars
  BY <1>9 DEF vars
<1> QED BY <1>1, <1>2, <1>3, <1>4, <1>5, <1>6, <1>7, <1>8, <1>9
        DEF Next, CallerStep, OwnerStep

LEMMA NextInv == Inv /\ [Next]_vars => Inv'
<1> SUFFICES ASSUME Inv, [Next]_vars PROVE Types' /\ Accounted'
  BY AwakeStep DEF Inv
<1>1. CASE UNCHANGED vars
  BY <1>1 DEF vars, Inv, Types, Accounted, QueueOrdered, JobsDistinct, JobsFirst, PendingPlaced,
              Queued, Running, Busy
<1>2. CASE Next
  BY <1>2, QuietStep, SubmitStep, TakeStep, CompleteStep, FinishStep DEF Next, WorkerStep
<1> QED BY <1>1, <1>2

\* No task is lost, doubled or overtaken: active_ counts the workers that have a task, and
\* the futures that are not ready are those of the tasks in the queue, in the order of
\* submit(), and of the tasks that run.
THEOREM TasksAccounted == Spec => [](TypeOK /\ Accounted)
<1> QED BY InitInv, NextInv, TypesImply, PTL DEF Spec, Inv

\* No wakeup is missed: submit() and the destructor notify after they have unlocked the
\* mutex, and yet a task is never in the queue with every worker asleep and no notification
\* on its way, nor is a worker asleep when the destructor joins it.
THEOREM NoLostWakeup == Spec => []Awake
<1>1. Inv => Awake
  BY DEF Inv
<1> QED BY <1>1, InitInv, NextInv, PTL DEF Spec

-----------------------------------------------------------------------------
(* What the task asks for.                                                 *)

\* Where the destructor is, and what the workers that have left say of the queue: a task may
\* still submit another when some workers are gone, the one that runs it stays for it.
Drained == /\ stopping => ~Usable
           /\ \A w \in Workers : pc[w] = "exited" => stopping
           /\ (\A w \in Workers : pc[w] = "exited") => queue = <<>>

LEMMA DrainedInit == Init => Drained
BY WorkersFinite DEF Init, Drained

LEMMA DrainedStep ==
  ASSUME Inv, Drained, [Next]_vars
  PROVE  Drained'
<1> USE PoolAssumption DEF PoolAssumption, Inv, Types, Drained, Usable
<1>1. ASSUME NEW w \in Workers, WorkerStep(w) \/ SubmitFromTask(w) \/ WakeWorker(w), ~Exit(w)
      PROVE  Drained'
  <2>1. pc'[w] # "exited" /\ \A v \in Workers : pc'[v] = "exited" => pc[v] = "exited"
    <3>1. CASE NotifyFromTask(w)
      BY <3>1 DEF NotifyFromTask, Woken
    <3>2. CASE ~NotifyFromTask(w)
      BY <1>1, <3>2 DEF WorkerStep, Take, Wait, Complete, Finish, SubmitFromTask, WakeWorker, Goto
    <3> QED BY <3>1, <3>2
  <2>2. stopping' = stopping /\ (~Usable => ~Usable')
    BY <1>1 DEF WorkerStep, Take, Wait, NotifyFromTask, Complete, Finish, SubmitFromTask, WakeWorker,
                IdleNotified
  <2> QED BY <2>1, <2>2
<1>2. ASSUME NEW w \in Workers, Exit(w) PROVE Drained'
  BY <1>2 DEF Exit, Goto
<1>3. ASSUME NEW c \in Callers, Submit(c) PROVE Drained'
  BY <1>3, WorkersFinite DEF Submit, CallerTo
<1>4. ASSUME NEW c \in Callers, Notify(c) \/ Idle(c) \/ wait_idle(c) \/ WakeCaller(c)
      PROVE  Drained'
  <2>1. \A v \in Workers : pc'[v] = "exited" <=> pc[v] = "exited"
    BY <1>4 DEF Notify, Idle, wait_idle, WakeCaller, Woken, OneOf, Waiting
  <2>2. stopping' = stopping /\ queue' = queue /\ (~Usable => ~Usable')
    BY <1>4 DEF Notify, Idle, wait_idle, WakeCaller, CallerTo
  <2> QED BY <2>1, <2>2
<1>5. CASE Destroy
  BY <1>5 DEF Destroy, CallerTo
<1>6. CASE NotifyAll
  <2>1. \A v \in Workers : pc'[v] = "exited" <=> pc[v] = "exited"
    BY <1>6 DEF NotifyAll, Woken, Waiting
  <2> QED BY <1>6, <2>1 DEF NotifyAll, CallerTo
<1>7. CASE Join
  BY <1>7 DEF Join, CallerTo
<1>8. CASE UNCHANGED vars
  BY <1>8 DEF vars
<1> QED BY <1>1, <1>2, <1>3, <1>4, <1>5, <1>6, <1>7, <1>8 DEF Next, CallerStep, OwnerStep

\* The tasks of TaskPool, one by one.
TasksTold ==
    /\ Tasks \in Seq({"queued", "running", "done"}) /\ Len(Tasks) = Len(futures)
    /\ \A k \in 1..Len(futures) :
          /\ Tasks[k] = "queued" <=> Queued(k)
          /\ Tasks[k] = "running" <=> \E w \in Running : job[w] = k
          /\ Tasks[k] = "done" <=> futures[k] # "pending"

LEMMA TasksAre == Types /\ Accounted => TasksTold
<1> SUFFICES ASSUME Types, Accounted PROVE TasksTold
  OBVIOUS
<1>1. Len(futures) \in Nat
  BY DEF Types
<1>2. Tasks \in Seq({"queued", "running", "done"}) /\ Len(Tasks) = Len(futures)
  BY <1>1 DEF Tasks, TaskState
<1>3. ASSUME NEW k \in 1..Len(futures)
      PROVE  /\ Tasks[k] = "queued" <=> Queued(k)
             /\ Tasks[k] = "running" <=> \E w \in Running : job[w] = k
             /\ Tasks[k] = "done" <=> futures[k] # "pending"
  <2>1. Tasks[k] = TaskState(k)
    BY DEF Tasks
  <2>2. futures[k] = "pending" <=> Queued(k) \/ \E w \in Running : job[w] = k
    BY DEF Accounted, PendingPlaced
  <2>3. ASSUME NEW w \in Running, job[w] = k PROVE ~Queued(k)
    BY <2>3 DEF Accounted, JobsFirst, Types, Queued
  <2> QED BY <2>1, <2>2, <2>3 DEF TaskState
<1> QED BY <1>2, <1>3 DEF TasksTold

LEMMA TasksWillBe == (Types /\ Accounted)' => TasksTold'
BY TasksAre, PTL

LEMMA RefinementInit == Init => Promise!Init
<1> SUFFICES ASSUME Init PROVE Tasks = <<>> /\ Blocked = {} /\ Life = "open"
  BY DEF Promise!Init
<1>1. Tasks = <<>>
  BY DEF Init, Tasks
<1> QED BY <1>1, PoolAssumption DEF PoolAssumption, Init, Blocked, Life

LEMMA SubmitPromised ==
  ASSUME Inv, Inv', (\E w \in Workers : SubmitFromTask(w)) \/ (\E c \in Callers : Submit(c))
  PROVE  Promise!Submit
<1> USE DEF Inv
<1>1. TasksTold /\ TasksTold'
  BY TasksAre, TasksWillBe
<1>2. /\ Enqueue /\ UNCHANGED <<active, job>> /\ Running' = Running /\ Busy' = Busy
      /\ Blocked' = Blocked /\ Life' = Life
  BY PoolAssumption DEF PoolAssumption, SubmitFromTask, Submit, Types, Goto, CallerTo, Running,
                        Busy, Blocked, Life, Usable
<1>3. PICK n : n = Len(futures) + 1
  OBVIOUS
<1>4. /\ Len(futures) \in Nat /\ Len(futures') = n /\ n \in Nat /\ n \in 1..n
      /\ \A k : Queued(k)' <=> Queued(k) \/ k = n
  BY <1>2, <1>3, EnqueueStep DEF Types
<1>5. /\ futures'[n] = "pending" /\ \A k \in 1..Len(futures) : futures'[k] = futures[k]
  BY <1>2, <1>3, AppendProperties DEF Enqueue, Types
<1>6. Tasks' = Append(Tasks, "queued")
  <2> DEFINE States == {"queued", "running", "done"}
  <2>1. Tasks \in Seq(States) /\ Len(Tasks) = Len(futures) /\ Tasks' \in Seq(States)
        /\ Len(Tasks') = n
    BY <1>1, <1>4 DEF TasksTold
  <2>2. /\ Append(Tasks, "queued") \in Seq(States) /\ Len(Append(Tasks, "queued")) = n
        /\ Append(Tasks, "queued")[n] = "queued"
        /\ \A k \in 1..Len(futures) : Append(Tasks, "queued")[k] = Tasks[k]
    BY <1>3, <2>1, AppendProperties
  <2>3. \A k \in 1..n : k \in 1..Len(futures) \/ k = n
    BY <1>3, <1>4
  <2>4. \A k \in 1..n : Tasks'[k] = TaskState(k)'
    BY <1>4 DEF Tasks
  <2>5. \A k \in 1..Len(futures) : Tasks[k] = TaskState(k) /\ k \in 1..n /\ k # n
    BY <1>3, <1>4 DEF Tasks
  <2>6. ASSUME NEW k \in 1..n PROVE Tasks'[k] = Append(Tasks, "queued")[k]
    <3>1. CASE k \in 1..Len(futures)
      BY <1>4, <1>5, <2>2, <2>4, <2>5, <3>1 DEF TaskState
    <3>2. CASE k = n
      BY <1>4, <1>5, <2>2, <2>4, <3>2 DEF TaskState
    <3> QED BY <2>3, <3>1, <3>2
  <2> QED BY <2>1, <2>2, <2>6, SeqEqual
<1>7. Life = "open" \/ Promise!In("running") # {}
  <2>1. CASE \E c \in Callers : Submit(c)
    BY <2>1 DEF Submit, Usable, Life
  <2>2. CASE \E w \in Workers : SubmitFromTask(w)
    <3>1. PICK w \in Running : TRUE
      BY <2>2 DEF SubmitFromTask, Running
    <3>2. job[w] \in 1..Len(futures)
      BY <3>1, <1>4 DEF Types, Accounted, JobsFirst, Running
    <3> QED BY <1>1, <3>1, <3>2 DEF TasksTold, Promise!In
  <2> QED BY <2>1, <2>2
<1> QED BY <1>2, <1>6, <1>7 DEF Promise!Submit

\* TaskPool extends FiniteSets, and the instance has its own copy of it.
LEMMA SameCardinality == \A S : Promise!Cardinality(S) = Cardinality(S)
BY DEF Promise!Cardinality, Cardinality

LEMMA TakePromised ==
  ASSUME Inv, Inv', NEW w \in Workers, Take(w)
  PROVE  Promise!Start(Head(queue)) /\ Head(queue) \in 1..Len(Tasks)
<1> USE DEF Inv
<1>1. TasksTold /\ TasksTold'
  BY TasksAre, TasksWillBe
<1>2. PICK h : h = Head(queue)
  OBVIOUS
<1>3. /\ Queued(h) /\ \A k : Queued(k)' <=> Queued(k) /\ k # h
      /\ \A k : Queued(k) => h <= k
  BY <1>2, TakeStep
<1>4. h \in 1..Len(futures) /\ futures[h] = "pending"
  <2>1. h \in 1..Len(futures)
    BY <1>3 DEF Queued, Types
  <2> QED BY <1>3, <2>1 DEF Accounted, PendingPlaced
<1>5. futures' = futures /\ Blocked' = Blocked /\ Life' = Life
  BY DEF Take, Blocked, Life
<1>6. Tasks' = [Tasks EXCEPT ![h] = "running"]
  BY <1>3, <1>4, <1>5 DEF Tasks, TaskState
<1>7. h \in Promise!In("queued") /\ \A j \in Promise!In("queued") : h <= j
  BY <1>1, <1>3, <1>4 DEF TasksTold, Promise!In
<1>8. Cardinality(Promise!In("running")) < Cardinality(Workers)
  <2> DEFINE f == [v \in Running |-> job[v]]
  <2>1. /\ Running \subseteq Workers \ {w} /\ IsFiniteSet(Running)
        /\ IsFiniteSet(Workers \ {w}) /\ Cardinality(Workers \ {w}) = Cardinality(Workers) - 1
    BY WorkersFinite, FS_Subset, FS_RemoveElement DEF Running, Take
  <2>2. \A v \in Running : job[v] \in 1..Len(futures)
    BY DEF Types, Accounted, JobsFirst, Running
  <2>3. f \in Surjection(Running, Promise!In("running"))
    <3>1. \A k \in Promise!In("running") : \E v \in Running : job[v] = k
      BY <1>1 DEF TasksTold, Promise!In
    <3>2. \A v \in Running : job[v] \in Promise!In("running")
      BY <1>1, <2>2 DEF TasksTold, Promise!In
    <3> QED BY <3>1, <3>2 DEF Surjection
  <2>4. Cardinality(Promise!In("running")) <= Cardinality(Running)
        /\ IsFiniteSet(Promise!In("running"))
    BY <2>1, <2>3, FS_Surjection
  <2>5. Cardinality(Running) <= Cardinality(Workers) - 1
    BY <2>1, FS_Subset
  <2>6. Cardinality(Running) \in Nat /\ Cardinality(Promise!In("running")) \in Nat
    BY <2>1, <2>4, FS_CardinalityType
  <2> QED BY <2>4, <2>5, <2>6, WorkersFinite
<1>9. h \in 1..Len(Tasks)
  BY <1>1, <1>4 DEF TasksTold
<1> QED BY <1>2, <1>5, <1>6, <1>7, <1>8, <1>9, SameCardinality DEF Promise!Start

LEMMA CompletePromised ==
  ASSUME Inv, NEW w \in Workers, Complete(w)
  PROVE  Promise!Complete(job[w]) /\ job[w] \in 1..Len(Tasks)
<1> USE DEF Inv
<1>1. TasksTold
  BY TasksAre
<1>2. PICK how \in {"value", "exception"} : futures' = [futures EXCEPT ![job[w]] = how]
  BY DEF Complete
<1>3. w \in Running /\ job[w] \in 1..Len(futures)
  <2>1. w \in Running
    BY DEF Complete, Running
  <2> QED BY <2>1 DEF Types, Accounted, JobsFirst
<1>4. job[w] \in Promise!In("running") /\ job[w] \in 1..Len(Tasks)
  BY <1>1, <1>3 DEF TasksTold, Promise!In
<1>5. queue' = queue /\ Blocked' = Blocked /\ Life' = Life
  BY DEF Complete, Blocked, Life
<1>6. /\ Len(futures') = Len(futures)
      /\ \A k \in 1..Len(futures) : futures'[k] = IF k = job[w] THEN how ELSE futures[k]
  BY <1>2, <1>3, ExceptSeq DEF Types
<1>7. Tasks' = [Tasks EXCEPT ![job[w]] = "done"]
  BY <1>2, <1>3, <1>5, <1>6 DEF Tasks, TaskState, Queued
<1> QED BY <1>4, <1>5, <1>7 DEF Promise!Complete

\* Where nothing is left to do, all that was submitted is done.
LEMMA NothingLeftToDo ==
  ASSUME Inv, queue = <<>>, Running = {}
  PROVE  Promise!AllDone
<1>1. TasksTold
  BY TasksAre DEF Inv
<1>2. \A k \in 1..Len(futures) : futures[k] # "pending"
  BY DEF Inv, Accounted, PendingPlaced, Queued
<1> QED BY <1>1, <1>2 DEF TasksTold, Promise!AllDone, Promise!In

LEMMA RefinementStep ==
  ASSUME Inv, Inv', Drained, [Next]_vars
  PROVE  [Promise!Next]_(Promise!vars)
<1> USE PoolAssumption DEF PoolAssumption, Inv
\* A worker moves no task but by Take and Complete.
<1>1. ASSUME NEW w \in Workers, WorkerStep(w) \/ WakeWorker(w), ~Take(w), ~Complete(w)
      PROVE  UNCHANGED Promise!vars
  <2>1. UNCHANGED <<queue, futures>>
    BY <1>1 DEF WorkerStep, Wait, Exit, NotifyFromTask, Finish, WakeWorker
  <2>2. Tasks' = Tasks
    BY <2>1 DEF Tasks, TaskState, Queued
  <2>3. Blocked' = Blocked /\ Life' = Life
    BY <1>1 DEF WorkerStep, Wait, Exit, NotifyFromTask, Finish, WakeWorker, IdleNotified, Blocked,
                Life, Types
  <2> QED BY <2>2, <2>3 DEF Promise!vars
<1>2. ASSUME NEW w \in Workers, Take(w) PROVE Promise!Next
  BY <1>2, TakePromised DEF Promise!Next
<1>3. ASSUME NEW w \in Workers, Complete(w) PROVE Promise!Next
  BY <1>3, CompletePromised DEF Promise!Next
<1>4. ASSUME (\E w \in Workers : SubmitFromTask(w)) \/ (\E c \in Callers : Submit(c))
      PROVE  Promise!Next
  BY <1>4, SubmitPromised DEF Promise!Next
\* Nor does a caller but by Submit.
<1>5. ASSUME (\E c \in Callers : CallerStep(c) \/ wait_idle(c) \/ WakeCaller(c)) \/ Destroy
             \/ OwnerStep
      PROVE  Tasks' = Tasks
  <2>1. UNCHANGED <<queue, futures>>
    BY <1>5 DEF CallerStep, Notify, Idle, wait_idle, WakeCaller, Destroy, OwnerStep, NotifyAll, Join
  <2> QED BY <2>1 DEF Tasks, TaskState, Queued
<1>6. ASSUME NEW c \in Callers, Notify(c) \/ WakeCaller(c) PROVE UNCHANGED Promise!vars
  BY <1>5, <1>6 DEF CallerStep, Notify, WakeCaller, CallerTo, Blocked, Life, Types, Promise!vars
<1>7. ASSUME NEW c \in Callers, wait_idle(c) PROVE Promise!Next
  <2>1. Life = "open" /\ Life' = Life /\ c \notin Blocked /\ Blocked' = Blocked \cup {c}
    BY <1>7 DEF wait_idle, Usable, CallerTo, Blocked, Life, Types
  <2> QED BY <1>5, <1>7, <2>1 DEF Promise!WaitIdle, Promise!Next
<1>8. ASSUME NEW c \in Callers, Idle(c) PROVE Promise!Next \/ UNCHANGED Promise!vars
  <2>1. CASE IsIdle
    <3>1. IsFiniteSet(Busy) /\ Cardinality(Busy) = 0
      BY <2>1, WorkersFinite, FS_Subset DEF IsIdle, Accounted, Busy
    <3>2. Busy = {}
      BY <3>1, FS_EmptySet
    <3>3. queue = <<>> /\ Running = {}
      BY <2>1, <3>2 DEF IsIdle, Busy, Running
    <3>4. Promise!AllDone
      BY <3>3, NothingLeftToDo
    <3>5. c \in Blocked /\ Blocked' = Blocked \ {c} /\ Life' = Life
      BY <1>8, <2>1 DEF Idle, CallerTo, Blocked, Life, Types
    <3> QED BY <1>5, <1>8, <3>4, <3>5 DEF CallerStep, Promise!Idle, Promise!Next
  <2>2. CASE ~IsIdle
    <3>1. Blocked' = Blocked /\ Life' = Life
      BY <1>8, <2>2 DEF Idle, CallerTo, Blocked, Life, Types
    <3> QED BY <1>5, <1>8, <3>1 DEF CallerStep, Promise!vars
  <2> QED BY <2>1, <2>2
<1>9. ASSUME Destroy PROVE Promise!Next
  <2>1. Life = "open" /\ Life' = "closing" /\ Blocked = {} /\ Blocked' = {}
    BY <1>9 DEF Destroy, CallerTo, Blocked, Life, Types
  <2> QED BY <1>5, <1>9, <2>1 DEF Promise!Close, Promise!Next
<1>10. ASSUME NotifyAll PROVE UNCHANGED Promise!vars
  BY <1>5, <1>10 DEF OwnerStep, NotifyAll, CallerTo, Blocked, Life, Types, Promise!vars
<1>11. ASSUME Join PROVE Promise!Next
  <2>1. queue = <<>> /\ Running = {}
    BY <1>11 DEF Join, Drained, Running
  <2>2. Promise!AllDone
    BY <2>1, NothingLeftToDo
  <2>3. Life = "closing" /\ Life' = "closed" /\ Blocked' = Blocked
    BY <1>11 DEF Join, CallerTo, Blocked, Life, Types
  <2> QED BY <1>5, <1>11, <2>2, <2>3 DEF OwnerStep, Promise!Closed, Promise!Next
<1>12. CASE UNCHANGED vars
  BY <1>12 DEF vars, Tasks, TaskState, Queued, Blocked, Life, Promise!vars
<1> QED BY <1>1, <1>2, <1>3, <1>4, <1>6, <1>7, <1>8, <1>9, <1>10, <1>11, <1>12
        DEF Next, WorkerStep, CallerStep, OwnerStep

\* Tasks start in the order of submit(), once each, no more at a time than there are
\* workers; wait_idle() returns when all are done, and so does the destructor, tasks that
\* tasks have submitted meanwhile included.
THEOREM PoolKeepsItsPromise == Spec => Implements
<1>1. Inv /\ Drained /\ [Next]_vars => Inv' /\ Drained'
  BY NextInv, DrainedStep
<1>2. Inv /\ Inv' /\ Drained /\ [Next]_vars => [Promise!Next]_(Promise!vars)
  BY RefinementStep
<1> QED BY InitInv, DrainedInit, RefinementInit, <1>1, <1>2, PTL DEF Spec, Implements, Promise!Spec

=============================================================================
