-------------------------------- MODULE Spawn --------------------------------
(***************************************************************************)
(* eval::run_process() from several threads at once: which descriptors the *)
(* children inherit, who gets the end of file, and who is killed.          *)
(*                                                                         *)
(* A child is a copy of the whole process at fork(): it has the write end  *)
(* of every pipe that any thread has open, until exec() closes those that  *)
(* were close-on-exec. g_spawn_mutex is there for that. What one call does *)
(* with its own child, its output and its clock is RunProcess; here it     *)
(* reads, is late or not, waits and kills, and what a child leaves behind  *)
(* in its group is left out: a process id is free again once waitpid() has *)
(* returned it. A call is <<thread, number>> and names its pipe and its    *)
(* child too.                                                              *)
(***************************************************************************)
EXTENDS Naturals

CONSTANTS
    Threads,   \* worker threads of the runner
    Pids,      \* process ids the kernel has to give
    NoThread,  \* g_spawn_mutex is free
    MaxCalls   \* bound: calls of one thread

ASSUME SpawnAssumption == /\ MaxCalls \in Nat
                          /\ NoThread \notin Threads
                          /\ Pids # {}

VARIABLES
    at,         \* where each thread is in run_process()
    n,          \* calls the thread has made
    lock,       \* holder of g_spawn_mutex
    open,       \* pipes whose write end this process has open
    cloexec,    \* those of them that are close-on-exec
    process,    \* the state of the child of each call
    pid,        \* its process id
    grouped,    \* children that lead a process group of their own
    holds,      \* the write ends a child has
    keeps,      \* those that its exec() will leave open
    timed_out   \* calls that have run late

spawnVars == <<at, n, lock, open, cloexec, process, pid, grouped, holds, keeps, timed_out>>

Calls == Threads \X (1..MaxCalls)
Cur(t) == <<t, n[t]>>

Alive == {p \in Calls : process[p] \in {"forked", "ready", "running"}}
Zombie(p) == process[p] \in {"exited", "killed"}
FreePids == Pids \ {pid[p] : p \in {q \in Calls : q \in Alive \/ Zombie(q)}}

SpawnInit ==
    /\ at = [t \in Threads |-> "idle"]
    /\ n = [t \in Threads |-> 0]
    /\ lock = NoThread
    /\ open = {}
    /\ cloexec = {}
    /\ process = [p \in Calls |-> "none"]
    /\ pid = [p \in Calls |-> CHOOSE id \in Pids : TRUE]
    /\ grouped = {}
    /\ holds = [p \in Calls |-> {}]
    /\ keeps = [p \in Calls |-> {}]
    /\ timed_out = {}

Goto(t, l) == at' = [at EXCEPT ![t] = l]
kernel == <<process, pid, grouped, holds, keeps>>

\* Processes that end give up what they hold.
End(dead, how) ==
    /\ process' = [p \in Calls |-> IF p \in dead THEN how ELSE process[p]]
    /\ holds' = [p \in Calls |-> IF p \in dead THEN {} ELSE holds[p]]

Group(id) == {p \in Alive : pid[p] = id /\ p \in grouped}

-----------------------------------------------------------------------------
(* A thread in run_process().                                              *)

Call(t) ==
    /\ at[t] = "idle"
    /\ n[t] < MaxCalls
    /\ n' = [n EXCEPT ![t] = @ + 1]
    /\ Goto(t, "lock")
    /\ UNCHANGED <<lock, open, cloexec, kernel, timed_out>>

\* Mutant of Lock: there is no g_spawn_mutex.
LockNothing(t) ==
    /\ at[t] = "lock"
    /\ Goto(t, "pipe")
    /\ UNCHANGED <<n, lock, open, cloexec, kernel, timed_out>>

Lock(t) ==
    /\ at[t] = "lock"
    /\ lock = NoThread
    /\ lock' = t
    /\ Goto(t, "pipe")
    /\ UNCHANGED <<n, open, cloexec, kernel, timed_out>>

Pipe(t) ==
    /\ at[t] = "pipe"
    /\ open' = open \cup {Cur(t)}
    /\ Goto(t, "cloexec")
    /\ UNCHANGED <<n, lock, cloexec, kernel, timed_out>>

PipeFails(t) ==
    /\ at[t] = "pipe"
    /\ lock' = NoThread
    /\ Goto(t, "idle")
    /\ UNCHANGED <<n, open, cloexec, kernel, timed_out>>

set_cloexec(t) ==
    /\ at[t] = "cloexec"
    /\ cloexec' = cloexec \cup {Cur(t)}
    /\ Goto(t, "fork")
    /\ UNCHANGED <<n, lock, open, kernel, timed_out>>

\* The child is a copy; the lock is released in the parent.
Fork(t) ==
    /\ at[t] = "fork"
    /\ \E id \in FreePids : pid' = [pid EXCEPT ![Cur(t)] = id]
    /\ process' = [process EXCEPT ![Cur(t)] = "forked"]
    /\ holds' = [holds EXCEPT ![Cur(t)] = open]
    /\ keeps' = [keeps EXCEPT ![Cur(t)] = open \ cloexec]
    /\ lock' = NoThread
    /\ Goto(t, "close")
    /\ UNCHANGED <<n, open, cloexec, grouped, timed_out>>

\* Mutant of ForkFails: the error path does not unlock.
ForkFailsLocked(t) ==
    /\ at[t] = "fork"
    /\ open' = open \ {Cur(t)}
    /\ cloexec' = cloexec \ {Cur(t)}
    /\ Goto(t, "idle")
    /\ UNCHANGED <<n, lock, kernel, timed_out>>

ForkFails(t) ==
    /\ at[t] = "fork"
    /\ open' = open \ {Cur(t)}
    /\ cloexec' = cloexec \ {Cur(t)}
    /\ lock' = NoThread
    /\ Goto(t, "idle")
    /\ UNCHANGED <<n, kernel, timed_out>>

\* Mutant of CloseWrite: the parent keeps its copy of the write end.
CloseNothing(t) ==
    /\ at[t] = "close"
    /\ grouped' = grouped \cup {Cur(t)}
    /\ Goto(t, "read")
    /\ UNCHANGED <<n, lock, open, cloexec, process, pid, holds, keeps, timed_out>>

\* setpgid(pid, pid) and close(fds[1]).
CloseWrite(t) ==
    /\ at[t] = "close"
    /\ grouped' = grouped \cup {Cur(t)}
    /\ open' = open \ {Cur(t)}
    /\ cloexec' = cloexec \ {Cur(t)}
    /\ Goto(t, "read")
    /\ UNCHANGED <<n, lock, process, pid, holds, keeps, timed_out>>

\* Somebody has the write end of p's pipe.
Held(p) == p \in open \/ \E q \in Calls : p \in holds[q]

SeeEof(t) ==
    /\ at[t] = "read"
    /\ ~Held(Cur(t))
    /\ Goto(t, "wait")
    /\ UNCHANGED <<n, lock, open, cloexec, kernel, timed_out>>

\* The deadline has passed: kill(-pid) and kill(pid), in either loop.
kill_group(t) ==
    /\ at[t] \in {"read", "wait"}
    /\ Cur(t) \notin timed_out
    /\ timed_out' = timed_out \cup {Cur(t)}
    /\ End(Group(pid[Cur(t)]) \cup ({Cur(t)} \cap Alive), "killed")
    /\ Goto(t, "wait")
    /\ UNCHANGED <<n, lock, open, cloexec, pid, grouped, keeps>>

\* waitpid() has the child: its process id is free again.
ReapChild(t) ==
    /\ at[t] = "wait"
    /\ Zombie(Cur(t))
    /\ process' = [process EXCEPT ![Cur(t)] = "reaped"]
    /\ Goto(t, "reaped")
    /\ UNCHANGED <<n, lock, open, cloexec, pid, grouped, holds, keeps, timed_out>>

\* waitpid() fails: the child is gone without us. The call returns its error.
LoseChild(t) ==
    /\ at[t] = "wait"
    /\ Zombie(Cur(t))
    /\ process' = [process EXCEPT ![Cur(t)] = "reaped"]
    /\ Goto(t, "idle")
    /\ UNCHANGED <<n, lock, open, cloexec, pid, grouped, holds, keeps, timed_out>>

\* Strays of a call that was not late are killed, by the id of the group: it may be
\* somebody else's by now.
ReturnFrom(t) ==
    /\ at[t] = "reaped"
    /\ IF Cur(t) \in timed_out THEN UNCHANGED <<process, holds>>
                               ELSE End(Group(pid[Cur(t)]), "killed")
    /\ Goto(t, "idle")
    /\ UNCHANGED <<n, lock, open, cloexec, pid, grouped, keeps, timed_out>>

Step(t) == \/ Lock(t) \/ Pipe(t) \/ PipeFails(t) \/ set_cloexec(t) \/ Fork(t) \/ ForkFails(t)
           \/ CloseWrite(t) \/ SeeEof(t) \/ kill_group(t) \/ ReapChild(t) \/ LoseChild(t)
           \/ ReturnFrom(t)

-----------------------------------------------------------------------------
(* The child of call p.                                                    *)

\* setpgid(0, 0), then its pipe becomes stdout and stderr, which exec() keeps.
Redirect(p) ==
    /\ process[p] = "forked"
    /\ process' = [process EXCEPT ![p] = "ready"]
    /\ grouped' = grouped \cup {p}
    /\ keeps' = [keeps EXCEPT ![p] = @ \cup {p}]
    /\ UNCHANGED <<at, n, lock, open, cloexec, pid, holds, timed_out>>

Exec(p) ==
    /\ process[p] = "ready"
    /\ process' = [process EXCEPT ![p] = "running"]
    /\ holds' = [holds EXCEPT ![p] = keeps[p]]
    /\ UNCHANGED <<at, n, lock, open, cloexec, pid, grouped, keeps, timed_out>>

\* chdir() or exec() has failed, or the program is over.
ExitChild(p) ==
    /\ process[p] \in {"forked", "ready", "running"}
    /\ End({p}, "exited")
    /\ UNCHANGED <<at, n, lock, open, cloexec, pid, grouped, keeps, timed_out>>

SpawnNext == \/ \E t \in Threads : Call(t) \/ Step(t)
             \/ \E p \in Calls : Redirect(p) \/ Exec(p) \/ ExitChild(p)

SpawnSpec == SpawnInit /\ [][SpawnNext]_spawnVars

\* Threads run and their deadlines pass; a child gets as far as its program, which
\* may run for ever.
SpawnFairSpec == /\ SpawnSpec
                 /\ \A t \in Threads : WF_spawnVars(Step(t))
                 /\ \A p \in Calls : WF_spawnVars(Redirect(p) \/ Exec(p))

-----------------------------------------------------------------------------
ChildStates == {"none", "forked", "ready", "running", "exited", "killed", "reaped"}
SpawnTypeOK ==
    /\ at \in [Threads -> {"idle", "lock", "pipe", "cloexec", "fork", "close", "read", "wait",
                           "reaped"}]
    /\ n \in [Threads -> 0..MaxCalls]
    /\ lock \in Threads \cup {NoThread}
    /\ open \subseteq Calls /\ cloexec \subseteq open
    /\ process \in [Calls -> ChildStates]
    /\ pid \in [Calls -> Pids]
    /\ grouped \subseteq Calls /\ timed_out \subseteq Calls
    /\ holds \in [Calls -> SUBSET Calls]
    /\ keeps \in [Calls -> SUBSET Calls]

\* process.cpp:20-22: "otherwise the write end could leak into an unrelated child and we
\* would never see EOF". No program that a call runs has the pipe of another call open.
NoLeak == \A p \in Calls : process[p] = "running" => holds[p] \subseteq {p}

\* When a child is over, its pipe comes to its end: no other thread's child, caught
\* between fork() and exec(), holds the reader up for ever.
EofArrives == \A p \in Calls : Zombie(p) ~> ~Held(p)

\* Every call returns, though all of them need the one lock and some of them fail.
EveryCallReturns == \A t \in Threads : at[t] # "idle" ~> at[t] = "idle"

\* A child is killed only because its own call has run late. Not so: ReturnFrom's kill may
\* reach the child of another call, once process ids have wrapped around (the README).
OnlyTheLateAreKilled == \A p \in Calls : process[p] = "killed" => p \in timed_out

=============================================================================
