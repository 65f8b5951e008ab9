------------------------------- MODULE TaskPool -------------------------------
(***************************************************************************)
(* What the benchmark's task asks of a thread pool: tasks start in the     *)
(* order they were submitted, each of them once, no more than Width at a   *)
(* time; wait_idle() returns when nothing is left to do, the destructor    *)
(* when everything that was ever submitted has run, what tasks themselves  *)
(* submit included.                                                        *)
(***************************************************************************)
EXTENDS Naturals, Sequences, FiniteSets

CONSTANTS Callers,  \* threads that use the pool
          Width     \* how many tasks may run at a time

VARIABLES tasks,    \* the state of each task, in the order of submission
          waiting,  \* callers in wait_idle()
          pool      \* "open", "closing" (in the destructor) or "closed"

vars == <<tasks, waiting, pool>>

In(s) == {k \in 1..Len(tasks) : tasks[k] = s}
AllDone == In("done") = 1..Len(tasks)

Init == tasks = <<>> /\ waiting = {} /\ pool = "open"

\* By a thread while the pool is open, by a task that runs at any time.
Submit == /\ pool = "open" \/ In("running") # {}
          /\ tasks' = Append(tasks, "queued")
          /\ UNCHANGED <<waiting, pool>>

Start(k) == /\ k \in In("queued") /\ \A j \in In("queued") : k <= j
            /\ Cardinality(In("running")) < Width
            /\ tasks' = [tasks EXCEPT ![k] = "running"]
            /\ UNCHANGED <<waiting, pool>>

Complete(k) == /\ k \in In("running")
               /\ tasks' = [tasks EXCEPT ![k] = "done"]
               /\ UNCHANGED <<waiting, pool>>

WaitIdle(c) == /\ pool = "open" /\ c \notin waiting
               /\ waiting' = waiting \cup {c}
               /\ UNCHANGED <<tasks, pool>>

Idle(c) == /\ c \in waiting
           /\ AllDone
           /\ waiting' = waiting \ {c}
           /\ UNCHANGED <<tasks, pool>>

Close == /\ pool = "open" /\ waiting = {}
         /\ pool' = "closing"
         /\ UNCHANGED <<tasks, waiting>>

Closed == /\ pool = "closing"
          /\ AllDone
          /\ pool' = "closed"
          /\ UNCHANGED <<tasks, waiting>>

Next == \/ Submit \/ Close \/ Closed
        \/ \E k \in 1..Len(tasks) : Start(k) \/ Complete(k)
        \/ \E c \in Callers : WaitIdle(c) \/ Idle(c)

Spec == Init /\ [][Next]_vars

=============================================================================
