------------------------------ MODULE RunProcess ------------------------------
(***************************************************************************)
(* eval::run_process(): one call, from the fork to its result, beside the  *)
(* child it has spawned, what the child leaves running, the pipe between   *)
(* them and the clock.                                                     *)
(*                                                                         *)
(* The parent's steps are its system calls: it may be descheduled between  *)
(* any two of them while the clock runs and the child goes on. Output is   *)
(* counted in pieces of one read(); the start marker is a piece.           *)
(***************************************************************************)
EXTENDS Integers, Sequences

CONSTANTS
    timeout,           \* ProcessOptions::timeout
    startup_grace,     \* ProcessOptions::startup_grace
    await_marker,      \* ProcessOptions::start_marker is set
    max_output_bytes,  \* ProcessOptions::max_output_bytes, in pieces
    PipeCapacity,      \* the kernel's pipe buffer, in pieces
    MaxWrites          \* bound: pieces the history counts; the tree may write more

ASSUME ProcessAssumption ==
    /\ timeout \in Nat /\ startup_grace \in Nat /\ max_output_bytes \in Nat
    /\ await_marker \in BOOLEAN
    /\ PipeCapacity \in Nat \ {0}
    /\ MaxWrites \in Nat

VARIABLES
    pc,         \* the parent: "check", "poll", "read", "wait", "late", "reaped", "done"
    left,       \* time left before deadline, 0 from then on
    eof,        \* the read end has reached the end of file
    result,     \* timed_out, started (startup is set), output, truncated, and the status
                \* of the child, or "error" where the call returns one
    pipe,       \* what is in the pipe
    read_open,  \* the parent still has its end
    child,      \* "running", or its wait status: "zero", "nonzero", "signal"
    child_out,  \* the child still has the pipe as its output
    stray,      \* a process the child started: "none", "group", "own" (it left
                \* the child's process group), "gone"
    stray_out,  \* it still has the pipe as its output
    written,    \* history: pieces written so far
    spent       \* history: time since the start, then since the marker was read

parentVars == <<left, spent, eof, result, read_open>>
childVars == <<child, child_out, stray, stray_out>>
vars == <<pc, parentVars, pipe, childVars, written>>

\* Mutant of FirstDeadline: the grace is forgotten.
DeadlineWithoutGrace == timeout
FirstDeadline == timeout + (IF await_marker THEN startup_grace ELSE 0)

Init ==
    /\ pc = "check"
    /\ left = FirstDeadline
    /\ spent = 0
    /\ eof = FALSE
    /\ result = [timed_out |-> FALSE, started |-> FALSE, output |-> 0, truncated |-> FALSE,
                 status |-> "none"]
    /\ pipe = <<>>
    /\ read_open = TRUE
    /\ child = "running"
    /\ child_out = TRUE
    /\ stray = "none"
    /\ stray_out = FALSE
    /\ written = 0

StrayAlive == stray \in {"group", "own"}
Writers == (child = "running" /\ child_out) \/ (StrayAlive /\ stray_out)
AtEof == pipe = <<>> /\ ~Writers
Late == left = 0

\* kill(-pid) and kill(pid): the child if it still runs, and its group. A process
\* that has left the group is not reached.
KillTree ==
    /\ child' = IF child = "running" THEN "signal" ELSE child
    /\ stray' = IF stray = "group" THEN "gone" ELSE stray
    /\ UNCHANGED <<child_out, stray_out>>

KillGroup == KillTree /\ result' = [result EXCEPT !.timed_out = TRUE]

\* The reading loop is left: close(fds[0]).
LeaveLoop == pc' = "wait" /\ read_open' = FALSE

-----------------------------------------------------------------------------
(* The parent.                                                             *)

\* remaining_ms(deadline) is 0.
Expire ==
    /\ pc = "check"
    /\ Late
    /\ KillGroup
    /\ LeaveLoop
    /\ UNCHANGED <<left, spent, eof, pipe, written>>

Poll ==
    /\ pc = "check"
    /\ ~Late
    /\ pc' = "poll"
    /\ UNCHANGED <<parentVars, pipe, childVars, written>>

\* poll() finds something to read, or the end of the file.
Ready ==
    /\ pc = "poll"
    /\ pipe # <<>> \/ AtEof
    /\ pc' = "read"
    /\ UNCHANGED <<parentVars, pipe, childVars, written>>

\* poll() times out, or is interrupted (EINTR): the loop re-checks the deadline.
NotReady ==
    /\ pc = "poll"
    /\ Late \/ ~AtEof
    /\ pc' = "check"
    /\ UNCHANGED <<parentVars, pipe, childVars, written>>

\* poll() fails: the loop is left with the child running.
PollFails ==
    /\ pc = "poll"
    /\ LeaveLoop
    /\ UNCHANGED <<left, spent, eof, result, pipe, childVars, written>>

\* There is room for a piece.
Fits == result.output < max_output_bytes

\* read() returns a piece. There may be no room for it. The first marker that
\* fits is taken out again and restarts the clock.
Read ==
    /\ pc = "read"
    /\ pipe # <<>>
    /\ pipe' = Tail(pipe)
    /\ LET marker == await_marker /\ ~result.started /\ Head(pipe) = "marker" /\ Fits
       IN /\ result' = IF marker
                         THEN [result EXCEPT !.started = TRUE]
                         ELSE [result EXCEPT !.output = IF Fits THEN @ + 1 ELSE @,
                                             !.truncated = @ \/ ~Fits]
          /\ left' = IF marker THEN timeout ELSE left
          /\ spent' = IF marker THEN 0 ELSE spent
    /\ UNCHANGED <<pc, eof, read_open, childVars, written>>

\* Mutant of ReadEof: a hangup is taken for the end of the file.
ReadEofOnHangup ==
    /\ pc = "read"
    /\ ~Writers
    /\ eof' = TRUE
    /\ LeaveLoop
    /\ UNCHANGED <<left, spent, result, pipe, childVars, written>>

\* read() returns 0.
ReadEof ==
    /\ pc = "read"
    /\ AtEof
    /\ eof' = TRUE
    /\ LeaveLoop
    /\ UNCHANGED <<left, spent, result, pipe, childVars, written>>

\* EAGAIN, or a real error: back to the deadline.
ReadNothing ==
    /\ pc = "read"
    /\ pipe = <<>>
    /\ Writers
    /\ pc' = "check"
    /\ UNCHANGED <<parentVars, pipe, childVars, written>>

\* waitpid() has the child.
Reap ==
    /\ pc = "wait"
    /\ child # "running"
    /\ result' = [result EXCEPT !.status = IF result.timed_out /\ child = "signal"
                                             THEN "none" ELSE child]
    /\ pc' = "reaped"
    /\ UNCHANGED <<left, spent, eof, read_open, pipe, childVars, written>>

\* waitpid() fails: the child is gone without us, as where SIGCHLD is ignored. The error
\* is returned at once, and nobody is killed.
WaitFails ==
    /\ pc = "wait"
    /\ child # "running"
    /\ result' = [result EXCEPT !.status = "error"]
    /\ pc' = "done"
    /\ UNCHANGED <<left, spent, eof, read_open, pipe, childVars, written>>

\* It has not. The child may end before the parent goes on.
StillRunning ==
    /\ pc = "wait"
    /\ child = "running"
    /\ pc' = "late"
    /\ UNCHANGED <<parentVars, pipe, childVars, written>>

\* Mutant of Overdue: the wait is not bounded.
OverdueNever == FALSE
Overdue == Late /\ ~result.timed_out

\* The deadline holds here too. The parent sleeps and asks again.
Pause ==
    /\ pc = "late"
    /\ IF Overdue THEN KillGroup ELSE UNCHANGED <<result, childVars>>
    /\ pc' = "wait"
    /\ UNCHANGED <<left, spent, eof, read_open, pipe, written>>

\* Mutant of Return: what the child left behind is not killed.
ReturnOnly ==
    /\ pc = "reaped"
    /\ pc' = "done"
    /\ UNCHANGED <<parentVars, pipe, childVars, written>>

\* The strays are killed, if that was not done, and the result is returned.
Return ==
    /\ pc = "reaped"
    /\ IF result.timed_out THEN UNCHANGED childVars ELSE KillTree
    /\ pc' = "done"
    /\ UNCHANGED <<parentVars, pipe, written>>

Parent == Expire \/ Poll \/ Ready \/ NotReady \/ PollFails \/ Read \/ ReadEof \/ ReadNothing
          \/ Reap \/ WaitFails \/ StillRunning \/ Pause \/ Return

-----------------------------------------------------------------------------
(* The child, what it leaves behind, and the clock.                        *)

Write(piece) ==
    /\ Writers
    /\ read_open
    /\ Len(pipe) < PipeCapacity
    /\ pipe' = Append(pipe, piece)
    /\ written' = IF written < MaxWrites THEN written + 1 ELSE written
    /\ UNCHANGED <<pc, parentVars, childVars>>

Exit(status) ==
    /\ child = "running"
    /\ child' = status
    /\ UNCHANGED <<pc, parentVars, pipe, child_out, stray, stray_out, written>>

CloseOutput ==
    /\ child = "running" /\ child_out
    /\ child_out' = FALSE
    /\ UNCHANGED <<pc, parentVars, pipe, child, stray, stray_out, written>>

\* The child starts a process of its own, which inherits what output it has.
Spawn(kind) ==
    /\ child = "running"
    /\ stray = "none"
    /\ stray' = kind
    /\ stray_out' = child_out
    /\ UNCHANGED <<pc, parentVars, pipe, child, child_out, written>>

\* That process sends its output elsewhere, as a daemon does: it no longer holds the pipe,
\* and the end of the file comes while it runs on.
StrayRedirects ==
    /\ StrayAlive /\ stray_out
    /\ stray_out' = FALSE
    /\ UNCHANGED <<pc, parentVars, pipe, child, child_out, stray, written>>

StrayExits ==
    /\ StrayAlive
    /\ stray' = "gone"
    /\ UNCHANGED <<pc, parentVars, pipe, child, child_out, stray_out, written>>

Writes == \E piece \in {"data", "marker"} : Write(piece)

Tree == Writes \/ (\E status \in {"zero", "nonzero", "signal"} : Exit(status))
        \/ CloseOutput \/ (\E kind \in {"group", "own"} : Spawn(kind))
        \/ StrayRedirects \/ StrayExits

Tick ==
    /\ left > 0
    /\ left' = left - 1
    /\ spent' = spent + 1
    /\ UNCHANGED <<pc, eof, result, read_open, pipe, childVars, written>>

Next == Parent \/ Tree \/ Tick

Spec == Init /\ [][Next]_vars

\* The parent runs and time passes; nothing is asked of the child.
FairSpec == Spec /\ WF_vars(Parent) /\ WF_vars(Tick)

-----------------------------------------------------------------------------
Statuses == {"none", "zero", "nonzero", "signal", "error"}
TypeOK ==
    /\ pc \in {"check", "poll", "read", "wait", "late", "reaped", "done"}
    /\ left \in 0..FirstDeadline
    /\ spent \in 0..FirstDeadline
    /\ eof \in BOOLEAN /\ read_open \in BOOLEAN
    /\ child_out \in BOOLEAN /\ stray_out \in BOOLEAN
    /\ result \in [timed_out : BOOLEAN, started : BOOLEAN, output : 0..max_output_bytes,
                   truncated : BOOLEAN, status : Statuses]
    /\ pipe \in Seq({"data", "marker"}) /\ Len(pipe) <= PipeCapacity
    /\ child \in {"running", "zero", "nonzero", "signal"}
    /\ stray \in {"none", "group", "own", "gone"}
    /\ written \in 0..MaxWrites

\* process.hpp:43-44: "The child gets its own process group so the whole tree (...) is
\* killed on timeout"; process.cpp:162: "reap stray grandchildren". Whichever way the loops
\* are left, nothing of the child's group is alive when the call returns, though it may have
\* sent its output elsewhere and outlived the end of the file. The one exception is a call
\* that returns the error of waitpid() before it was late: it leaves what it finds.
NothingLeft ==
    pc = "done" /\ (result.status # "error" \/ result.timed_out)
        => child # "running" /\ stray # "group"

\* process.hpp:22-23: "timeout only starts counting once the child prints this marker
\* (...). Until then the budget is startup_grace + timeout". Nobody is killed for being
\* late before the budget that applies has been spent, measured from the marker's read.
BudgetSpent ==
    result.timed_out => spent = IF await_marker /\ ~result.started THEN startup_grace + timeout
                                                              ELSE timeout

\* A result that reached the end of file without truncation has all the tree wrote,
\* except the marker that was taken out.
OutputComplete ==
    eof /\ ~result.truncated /\ written < MaxWrites
        => result.output + (IF result.started THEN 1 ELSE 0) = written

\* process.hpp:43: "Runs a child process with a wall-clock timeout". The call returns, in
\* time or late. Not so where the child writes for ever: the inner loop reads on while there
\* is something to read, and does not look at the deadline.
RunEnds == <>(pc = "done")

\* What holds of every child: a call that does not return is in the inner loop for good,
\* and it is there because writing never stops. No child that hangs, closes its output,
\* leaves processes behind or is killed in any order keeps the call.
OnlyWritingHoldsIt == <>(pc = "done") \/ (<>[](pc = "read") /\ []<><<Writes>>_vars)

=============================================================================
