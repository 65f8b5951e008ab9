------------------------------ MODULE ThreadPool ------------------------------
(***************************************************************************)
(* The reference solution of the benchmark's thread pool: worker threads,  *)
(* the threads that use the pool, a queue under a mutex and two condition  *)
(* variables.                                                              *)
(*                                                                         *)
(* All that the mutex protects is touched under it only, so what a thread  *)
(* does from lock to unlock, or to a wait, is one step; a notification     *)
(* that follows the unlock is a step of its own. wait() with a predicate   *)
(* is a loop: a thread that has been notified, or that wakes up without    *)
(* it, looks at the predicate again, under the mutex. Task k is the k-th   *)
(* submitted.                                                              *)
(***************************************************************************)
EXTENDS Integers, Sequences, FiniteSets

CONSTANTS
    threads,   \* the constructor's argument, any std::size_t
    Callers,   \* threads that use the pool
    Owner,     \* the one of them that destroys it
    MaxTasks   \* bound: tasks submitted

ASSUME PoolAssumption ==
    /\ threads \in Nat
    /\ Owner \in Callers
    /\ MaxTasks \in Nat

VARIABLES
    queue,     \* queue_
    active,    \* active_
    stopping,  \* stopping_
    pc,        \* where each worker is
    job,       \* the task it has taken
    at,        \* where each caller is
    futures    \* the shared state of the future of each task

vars == <<queue, active, stopping, pc, job, at, futures>>

Workers == 1..(IF threads = 0 THEN 1 ELSE threads)

Init ==
    /\ queue = <<>>
    /\ active = 0
    /\ stopping = FALSE
    /\ pc = [w \in Workers |-> "loop"]
    /\ job = [w \in Workers |-> 0]
    /\ at = [c \in Callers |-> "idle"]
    /\ futures = <<>>

Goto(w, l) == pc' = [pc EXCEPT ![w] = l]
CallerTo(c, l) == at' = [at EXCEPT ![c] = l]

\* The threads blocked in work_cv_, and in idle_cv_.
Waiting == {w \in Workers : pc[w] = "work_cv"}
Woken(some) == [w \in Workers |-> IF w \in some THEN "loop" ELSE pc[w]]

\* notify_one() wakes any of the threads that are blocked. (Mutant: it is forgotten.)
OneOfNone == {{}}
OneOf == IF Waiting = {} THEN {{}} ELSE {{w} : w \in Waiting}

\* submit(), as far as the unlock.
Enqueue ==
    /\ Len(futures) < MaxTasks
    /\ queue' = Append(queue, Len(futures) + 1)
    /\ futures' = Append(futures, "pending")

-----------------------------------------------------------------------------
(* worker_loop()                                                           *)

\* Mutant of Take: the last that came is the first to go.
TakeNewest(w) ==
    /\ pc[w] = "loop"
    /\ queue # <<>>
    /\ job' = [job EXCEPT ![w] = queue[Len(queue)]]
    /\ queue' = SubSeq(queue, 1, Len(queue) - 1)
    /\ active' = active + 1
    /\ Goto(w, "run")
    /\ UNCHANGED <<stopping, at, futures>>

Take(w) ==
    /\ pc[w] = "loop"
    /\ queue # <<>>
    /\ job' = [job EXCEPT ![w] = Head(queue)]
    /\ queue' = Tail(queue)
    /\ active' = active + 1
    /\ Goto(w, "run")
    /\ UNCHANGED <<stopping, at, futures>>

Wait(w) ==
    /\ pc[w] = "loop"
    /\ queue = <<>> /\ ~stopping
    /\ Goto(w, "work_cv")
    /\ UNCHANGED <<queue, active, stopping, job, at, futures>>

\* Mutant of Exit: the queue is not drained.
ExitAtOnce(w) ==
    /\ pc[w] = "loop"
    /\ stopping
    /\ Goto(w, "exited")
    /\ UNCHANGED <<queue, active, stopping, job, at, futures>>

Exit(w) ==
    /\ pc[w] = "loop"
    /\ queue = <<>> /\ stopping
    /\ Goto(w, "exited")
    /\ UNCHANGED <<queue, active, stopping, job, at, futures>>

\* The task submits another one; the notification follows.
SubmitFromTask(w) ==
    /\ pc[w] = "run"
    /\ Enqueue
    /\ Goto(w, "notify")
    /\ UNCHANGED <<active, stopping, job, at>>

NotifyFromTask(w) ==
    /\ pc[w] = "notify"
    /\ \E some \in OneOf : pc' = [Woken(some) EXCEPT ![w] = "run"]
    /\ UNCHANGED <<queue, active, stopping, job, at, futures>>

\* The packaged_task keeps what the task returns or throws.
Complete(w) ==
    /\ pc[w] = "run"
    /\ \E how \in {"value", "exception"} : futures' = [futures EXCEPT ![job[w]] = how]
    /\ Goto(w, "finish")
    /\ UNCHANGED <<queue, active, stopping, job, at>>

\* notify_all() of idle_cv_: whoever is blocked looks again.
IdleNotified == [c \in Callers |-> IF at[c] = "idle_cv" THEN "wait_idle" ELSE at[c]]

\* Mutant of Finish: whoever waits for the pool to be idle is not told.
FinishQuietly(w) ==
    /\ pc[w] = "finish"
    /\ active' = active - 1
    /\ Goto(w, "loop")
    /\ UNCHANGED <<queue, stopping, job, at, futures>>

Finish(w) ==
    /\ pc[w] = "finish"
    /\ active' = active - 1
    /\ at' = IF queue = <<>> /\ active' = 0 THEN IdleNotified ELSE at
    /\ Goto(w, "loop")
    /\ UNCHANGED <<queue, stopping, job, futures>>

\* A wakeup nobody has asked for.
WakeWorker(w) ==
    /\ pc[w] = "work_cv"
    /\ Goto(w, "loop")
    /\ UNCHANGED <<queue, active, stopping, job, at, futures>>

-----------------------------------------------------------------------------
(* The threads that use the pool. None of them may do so once the owner is *)
(* destroying it, and the owner does not while another is in a call.       *)

Usable == at[Owner] \notin {"notify_all", "join", "gone"}

Submit(c) ==
    /\ at[c] = "idle" /\ Usable
    /\ Enqueue
    /\ CallerTo(c, "notify")
    /\ UNCHANGED <<active, stopping, pc, job>>

Notify(c) ==
    /\ at[c] = "notify"
    /\ \E some \in OneOf : pc' = Woken(some)
    /\ CallerTo(c, "idle")
    /\ UNCHANGED <<queue, active, stopping, job, futures>>

wait_idle(c) ==
    /\ at[c] = "idle" /\ Usable
    /\ CallerTo(c, "wait_idle")
    /\ UNCHANGED <<queue, active, stopping, pc, job, futures>>

\* The predicate.
IsIdle == queue = <<>> /\ active = 0

\* wait_idle() returns, or blocks.
Idle(c) ==
    /\ at[c] = "wait_idle"
    /\ CallerTo(c, IF IsIdle THEN "idle" ELSE "idle_cv")
    /\ UNCHANGED <<queue, active, stopping, pc, job, futures>>

WakeCaller(c) ==
    /\ at[c] = "idle_cv"
    /\ CallerTo(c, "wait_idle")
    /\ UNCHANGED <<queue, active, stopping, pc, job, futures>>

\* ~ThreadPool()
Destroy ==
    /\ \A c \in Callers : at[c] = "idle"
    /\ stopping' = TRUE
    /\ CallerTo(Owner, "notify_all")
    /\ UNCHANGED <<queue, active, pc, job, futures>>

\* Mutant of NotifyAll: one worker is told.
NotifyOneOnly ==
    /\ at[Owner] = "notify_all"
    /\ \E some \in OneOf : pc' = Woken(some)
    /\ CallerTo(Owner, "join")
    /\ UNCHANGED <<queue, active, stopping, job, futures>>

NotifyAll ==
    /\ at[Owner] = "notify_all"
    /\ pc' = Woken(Waiting)
    /\ CallerTo(Owner, "join")
    /\ UNCHANGED <<queue, active, stopping, job, futures>>

Join ==
    /\ at[Owner] = "join"
    /\ \A w \in Workers : pc[w] = "exited"
    /\ CallerTo(Owner, "gone")
    /\ UNCHANGED <<queue, active, stopping, pc, job, futures>>

-----------------------------------------------------------------------------
WorkerStep(w) == Take(w) \/ Wait(w) \/ Exit(w) \/ NotifyFromTask(w) \/ Complete(w) \/ Finish(w)
CallerStep(c) == Notify(c) \/ Idle(c)
OwnerStep == NotifyAll \/ Join

Next == \/ \E w \in Workers : WorkerStep(w) \/ SubmitFromTask(w) \/ WakeWorker(w)
        \/ \E c \in Callers : CallerStep(c) \/ Submit(c) \/ wait_idle(c) \/ WakeCaller(c)
        \/ Destroy \/ OwnerStep

Spec == Init /\ [][Next]_vars

\* Threads run and get the mutex, tasks return. Nobody has to wake up unasked, to submit,
\* to wait or to destroy.
FairSpec == /\ Spec
            /\ \A w \in Workers : WF_vars(WorkerStep(w))
            /\ \A c \in Callers : WF_vars(CallerStep(c))
            /\ WF_vars(OwnerStep)

-----------------------------------------------------------------------------
TypeOK ==
    /\ queue \in Seq(1..Len(futures))
    /\ active \in 0..Cardinality(Workers)
    /\ stopping \in BOOLEAN
    /\ pc \in [Workers -> {"loop", "work_cv", "run", "notify", "finish", "exited"}]
    /\ job \in [Workers -> 0..Len(futures)]
    /\ at \in [Callers -> {"idle", "notify", "wait_idle", "idle_cv", "notify_all", "join",
                           "gone"}]
    /\ futures \in Seq({"pending", "value", "exception"})

\* Workers with a task in their hands, and those that have not completed it.
Busy == {w \in Workers : pc[w] \in {"run", "notify", "finish"}}
Running == {w \in Workers : pc[w] \in {"run", "notify"}}
Queued(k) == \E j \in 1..Len(queue) : queue[j] = k

\* Nothing is forgotten between the queue, the workers and the futures: active_ counts the
\* workers that have a task, and the tasks whose futures are not ready are those in the
\* queue, in the order they were submitted, and those being run, each in one place.
QueueOrdered == \A j, k \in 1..Len(queue) : j < k => queue[j] < queue[k]
JobsDistinct == \A v, w \in Running : job[v] = job[w] => v = w
JobsFirst == \A w \in Running : job[w] > 0 /\ \A k \in 1..Len(queue) : job[w] < queue[k]
PendingPlaced == \A k \in 1..Len(futures) :
    futures[k] = "pending" <=> Queued(k) \/ \E w \in Running : job[w] = k
Accounted == /\ active = Cardinality(Busy)
             /\ QueueOrdered /\ JobsDistinct /\ JobsFirst /\ PendingPlaced

\* A task that no worker has taken will be: while the queue is not empty, a worker is on its
\* way to the queue, or a notification is, and once the pool is stopping none is blocked for
\* good. This is what a lost wakeup would break.
Awake ==
    /\ queue # <<>> /\ Waiting = Workers => \E c \in Callers : at[c] \in {"notify", "notify_all"}
    /\ stopping /\ Waiting # {} => at[Owner] = "notify_all"

\* task.json: "The destructor runs every task that was already submitted", "wait_idle()
\* blocks until the queue is empty and no task is running".
TaskState(k) == IF futures[k] # "pending" THEN "done"
                ELSE IF Queued(k) THEN "queued" ELSE "running"
Tasks == [k \in 1..Len(futures) |-> TaskState(k)]
Blocked == {c \in Callers : at[c] \in {"wait_idle", "idle_cv"}}
Life == IF at[Owner] \in {"notify_all", "join"} THEN "closing"
        ELSE IF at[Owner] = "gone" THEN "closed" ELSE "open"
Promise == INSTANCE TaskPool WITH
    Width <- Cardinality(Workers), tasks <- Tasks, waiting <- Blocked, pool <- Life
Implements == Promise!Spec

\* Every future becomes ready, without help from the callers.
EveryTaskRuns == \A k \in 1..MaxTasks :
    Len(futures) >= k /\ futures[k] = "pending" ~> Len(futures) >= k /\ futures[k] # "pending"

\* wait_idle() returns, though it is woken on another condition variable than the workers,
\* by whichever of them is the last; the destructor returns too.
EveryCallReturns ==
    /\ \A c \in Callers : at[c] = "wait_idle" ~> at[c] = "idle"
    /\ at[Owner] = "notify_all" ~> at[Owner] = "gone"

=============================================================================
