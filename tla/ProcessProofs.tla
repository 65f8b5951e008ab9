----------------------------- MODULE ProcessProofs -----------------------------
(***************************************************************************)
(* Theorems about RunProcess, for any budgets, any limit on the output and *)
(* any child: the types, that nothing of the child's group outlives the    *)
(* call, that nobody is killed for being late too early, and that no       *)
(* output is lost.                                                         *)
(***************************************************************************)
EXTENDS RunProcess, TLAPS

\* The budget that applies: the marker's arrival changes it.
Budget == IF await_marker /\ ~result.started THEN startup_grace + timeout ELSE timeout

\* Time is charged to the budget, tick by tick.
Charged == /\ result.started => await_marker
           /\ spent + left = Budget

\* Whoever was killed for being late was late, and is not read from any more.
Killed == result.timed_out => /\ left = 0
                              /\ child # "running" /\ stray # "group"
                              /\ pc \in {"wait", "late", "reaped", "done"}

\* Once waitpid() has answered, the child is over; and so is its group when the call
\* returns, unless the answer was an error.
Ended == /\ pc \in {"reaped", "done"} => child # "running"
         /\ pc = "done" /\ result.status # "error" => stray # "group"

\* Every piece written is in the result or still in the pipe; after the end of the file
\* there is nobody left to write.
Counted == /\ eof => pipe = <<>> /\ ~Writers /\ pc \in {"wait", "late", "reaped", "done"}
           /\ ~result.truncated /\ written < MaxWrites
                 => result.output + (IF result.started THEN 1 ELSE 0) + Len(pipe) = written

Inv == TypeOK /\ Charged /\ Killed /\ Ended /\ Counted

-----------------------------------------------------------------------------
Results == [timed_out : BOOLEAN, started : BOOLEAN, output : 0..max_output_bytes,
            truncated : BOOLEAN, status : Statuses]

LEMMA BudgetType == FirstDeadline \in Nat /\ timeout \in Nat /\ timeout <= FirstDeadline
  BY ProcessAssumption DEF ProcessAssumption, FirstDeadline

LEMMA InitInv == Init => Inv
<1> SUFFICES ASSUME Init PROVE Inv
  OBVIOUS
<1> USE ProcessAssumption, BudgetType DEF ProcessAssumption, Init
<1>1. TypeOK
  <2>1. /\ FirstDeadline \in 0..FirstDeadline /\ 0 \in 0..FirstDeadline
        /\ 0 \in 0..MaxWrites /\ 0 <= PipeCapacity
    OBVIOUS
  <2>2. <<>> \in Seq({"data", "marker"}) /\ Len(<<>>) = 0
    OBVIOUS
  <2>3. result \in Results
    <3>1. 0 \in 0..max_output_bytes
      OBVIOUS
    <3>2. result = [timed_out |-> FALSE, started |-> FALSE, output |-> 0, truncated |-> FALSE,
                    status |-> "none"]
      OBVIOUS
    <3> QED BY ONLY <3>1, <3>2 DEF Results, Statuses
  <2> QED BY ONLY Init, <2>1, <2>2, <2>3 DEF TypeOK, Results, Init
<1>2. Charged
  BY DEF Charged, Budget, FirstDeadline
<1>3. Killed /\ Ended /\ Counted
  BY DEF Killed, Ended, Counted
<1> QED BY <1>1, <1>2, <1>3 DEF Inv

\* The two ways to be killed for being late.
LEMMA KillStep ==
  ASSUME Inv, Expire \/ (Pause /\ Overdue)
  PROVE  Inv'
<1> USE DEF Inv
<1>1. /\ Late /\ pc' = "wait" /\ KillGroup
      /\ UNCHANGED <<left, spent, eof, pipe, written>>
      /\ pc \in {"check", "late"}
      /\ read_open' \in BOOLEAN
  BY DEF Expire, Pause, Overdue, LeaveLoop, TypeOK
<1>2. /\ result' = [result EXCEPT !.timed_out = TRUE]
      /\ child' = (IF child = "running" THEN "signal" ELSE child)
      /\ stray' = (IF stray = "group" THEN "gone" ELSE stray)
      /\ child_out' = child_out /\ stray_out' = stray_out
  BY <1>1 DEF KillGroup, KillTree
<1>3. result' \in Results /\ result \in Results
  BY <1>2 DEF TypeOK, Results
<1>4. /\ result'.timed_out /\ result'.started = result.started
      /\ result'.output = result.output /\ result'.truncated = result.truncated
  BY <1>2, <1>3 DEF Results
<1>5. TypeOK'
  BY <1>1, <1>2, <1>3 DEF TypeOK, Results
<1>6. Charged' /\ Killed' /\ Ended'
  BY <1>1, <1>2, <1>4 DEF Charged, Budget, Killed, Ended, Late, TypeOK
<1>7. Counted'
  BY <1>1, <1>2, <1>4 DEF Counted, Writers, StrayAlive, TypeOK
<1> QED BY <1>5, <1>6, <1>7

\* Steps of the parent that look, wait or leave, and change no more than that.
LEMMA QuietStep ==
  ASSUME Inv, Poll \/ Ready \/ NotReady \/ PollFails \/ ReadEof \/ ReadNothing \/ StillRunning
              \/ (Pause /\ ~Overdue)
  PROVE  Inv'
<1> USE DEF Inv
<1> USE DEF Poll, Ready, NotReady, PollFails, ReadEof, ReadNothing, StillRunning, Pause, LeaveLoop,
            parentVars, childVars
<1>1. /\ \/ pc \in {"check", "poll", "read"} /\ pc' \in {"check", "poll", "read", "wait"}
         \/ pc \in {"wait", "late"} /\ pc' \in {"wait", "late"}
      /\ UNCHANGED <<left, spent, result, pipe, child, child_out, stray, stray_out, written>>
      /\ read_open' \in BOOLEAN
  BY DEF TypeOK
<1>2. eof' = eof \/ (eof' = TRUE /\ pc' = "wait" /\ pipe = <<>> /\ ~Writers)
  BY DEF AtEof
<1> HIDE DEF Poll, Ready, NotReady, PollFails, ReadEof, ReadNothing, StillRunning, Pause, LeaveLoop,
             parentVars, childVars
<1>3. TypeOK'
  <2>1. eof' \in BOOLEAN
    BY <1>2 DEF TypeOK
  <2> QED BY <1>1, <2>1 DEF TypeOK
<1>4. Charged' /\ Killed' /\ Ended'
  BY <1>1 DEF Charged, Budget, Killed, Ended
<1>5. Counted'
  BY <1>1, <1>2 DEF Counted, Writers, StrayAlive
<1> QED BY <1>3, <1>4, <1>5

LEMMA ReadStep ==
  ASSUME Inv, Read
  PROVE  Inv'
<1> USE ProcessAssumption, BudgetType DEF Inv, ProcessAssumption
<1> DEFINE marker == await_marker /\ ~result.started /\ Head(pipe) = "marker" /\ Fits
<1>1. /\ pc = "read" /\ pc' = "read" /\ pipe # <<>> /\ pipe' = Tail(pipe)
      /\ UNCHANGED <<eof, read_open, child, child_out, stray, stray_out, written>>
      /\ left' = (IF marker THEN timeout ELSE left) /\ spent' = (IF marker THEN 0 ELSE spent)
      /\ result' = IF marker
                     THEN [result EXCEPT !.started = TRUE]
                     ELSE [result EXCEPT !.output = IF Fits THEN @ + 1 ELSE @,
                                         !.truncated = @ \/ ~Fits]
  BY DEF Read, childVars
<1>2. /\ pipe \in Seq({"data", "marker"}) /\ pipe' \in Seq({"data", "marker"})
      /\ Len(pipe) \in Nat /\ Len(pipe') = Len(pipe) - 1
  BY <1>1 DEF TypeOK
<1>3. result \in Results /\ result.output \in 0..max_output_bytes
  BY DEF TypeOK, Results
<1>4. result' \in Results /\ result'.timed_out = result.timed_out
  <2>1. CASE marker
    BY <1>1, <1>3, <2>1 DEF Results
  <2>2. CASE ~marker
    <3>1. (IF Fits THEN result.output + 1 ELSE result.output) \in 0..max_output_bytes
      BY <1>3 DEF Fits
    <3>2. (result.truncated \/ ~Fits) \in BOOLEAN
      OBVIOUS
    <3> HIDE DEF marker
    <3> QED BY <1>1, <1>3, <2>2, <3>1, <3>2 DEF Results
  <2> QED BY <2>1, <2>2
<1>5. CASE marker
  <2>1. /\ result'.started /\ ~result.started /\ await_marker
        /\ result'.output = result.output /\ result'.truncated = result.truncated
    BY <1>1, <1>3, <1>5 DEF Results
  <2>2. left' = timeout /\ spent' = 0
    BY <1>1, <1>5
  <2>3. TypeOK'
    BY <1>1, <1>2, <1>4, <2>2 DEF TypeOK, Results
  <2>4. Charged'
    BY <2>1, <2>2 DEF Charged, Budget
  <2>5. Killed' /\ Ended'
    BY <1>1, <1>4 DEF Killed, Ended
  <2>6. Counted'
    BY <1>1, <1>2, <1>3, <2>1 DEF Counted, TypeOK
  <2> QED BY <2>3, <2>4, <2>5, <2>6
<1>6. CASE ~marker
  <2>1. /\ result'.started = result.started
        /\ result'.output = (IF Fits THEN result.output + 1 ELSE result.output)
        /\ result'.truncated = (result.truncated \/ ~Fits)
    BY <1>1, <1>3, <1>6 DEF Results
  <2>2. left' = left /\ spent' = spent
    BY <1>1, <1>6
  <2>3. TypeOK'
    BY <1>1, <1>2, <1>4, <2>2 DEF TypeOK, Results
  <2>4. Charged'
    BY <2>1, <2>2 DEF Charged, Budget
  <2>5. Killed' /\ Ended'
    BY <1>1, <1>4 DEF Killed, Ended
  <2>6. Counted'
    <3>1. eof = FALSE /\ eof' = FALSE
      BY <1>1 DEF Counted, TypeOK
    <3>2. ASSUME ~result'.truncated, written < MaxWrites
          PROVE  result'.output + (IF result.started THEN 1 ELSE 0) + Len(pipe') = written
      <4>1. Fits /\ ~result.truncated /\ result'.output = result.output + 1
        BY <2>1, <3>2
      <4>2. result.output + (IF result.started THEN 1 ELSE 0) + Len(pipe) = written
        BY <3>2, <4>1 DEF Counted
      <4> QED BY <1>2, <1>3, <4>1, <4>2
    <3> QED BY <1>1, <2>1, <3>1, <3>2 DEF Counted
  <2> QED BY <2>3, <2>4, <2>5, <2>6
<1> QED BY <1>5, <1>6

\* waitpid() has the child or fails, the strays are killed.
LEMMA EndStep ==
  ASSUME Inv, Reap \/ WaitFails \/ Return
  PROVE  Inv'
<1> USE DEF Inv
<1>1. CASE Reap \/ WaitFails
  <2>1. /\ pc = "wait" /\ child # "running"
        /\ UNCHANGED <<left, spent, eof, read_open, pipe, child, child_out, stray, stray_out,
                       written>>
        /\ \E s \in Statuses : /\ result' = [result EXCEPT !.status = s]
                               /\ pc' = (IF s = "error" THEN "done" ELSE "reaped")
    BY <1>1 DEF Reap, WaitFails, childVars, TypeOK, Statuses
  <2>2. result \in Results /\ result' \in Results
    BY <2>1 DEF TypeOK, Results
  <2>3. /\ result'.timed_out = result.timed_out /\ result'.started = result.started
        /\ result'.output = result.output /\ result'.truncated = result.truncated
        /\ pc' = (IF result'.status = "error" THEN "done" ELSE "reaped")
    BY <2>1, <2>2 DEF Results
  <2>4. TypeOK'
    BY <2>1, <2>2, <2>3 DEF TypeOK, Results
  <2>5. Charged' /\ Killed' /\ Ended'
    BY <2>1, <2>3 DEF Charged, Budget, Killed, Ended
  <2>6. Counted'
    BY <2>1, <2>3 DEF Counted, Writers, StrayAlive
  <2> QED BY <2>4, <2>5, <2>6
<1>2. CASE Return
  <2>1. /\ pc = "reaped" /\ pc' = "done" /\ child # "running"
        /\ UNCHANGED <<left, spent, eof, result, read_open, pipe, written>>
    BY <1>2 DEF Return, parentVars, Ended
  <2>2. /\ child' = child /\ child_out' = child_out /\ stray_out' = stray_out
        /\ stray' = (IF stray = "group" THEN "gone" ELSE stray)
    BY <1>2, <2>1 DEF Return, KillTree, childVars, Killed
  <2>3. TypeOK'
    BY <2>1, <2>2 DEF TypeOK
  <2>4. Charged' /\ Killed' /\ Ended'
    BY <2>1, <2>2 DEF Charged, Budget, Killed, Ended
  <2>5. Counted'
    BY <2>1, <2>2 DEF Counted, Writers, StrayAlive
  <2> QED BY <2>3, <2>4, <2>5
<1> QED BY <1>1, <1>2

\* The child and what it has started.
LEMMA TreeStep ==
  ASSUME Inv, Tree
  PROVE  Inv'
<1> USE DEF Inv
<1>1. UNCHANGED <<pc, left, spent, eof, result, read_open>>
  BY DEF Tree, Writes, Write, Exit, CloseOutput, Spawn, StrayRedirects, StrayExits, parentVars
<1>2. Charged'
  BY <1>1 DEF Charged, Budget
<1>3. CASE Writes
  <2>1. PICK piece \in {"data", "marker"} : Write(piece)
    BY <1>3 DEF Writes
  <2>2. /\ Writers /\ Len(pipe) < PipeCapacity /\ pipe' = Append(pipe, piece)
        /\ written' = (IF written < MaxWrites THEN written + 1 ELSE written)
        /\ UNCHANGED <<child, child_out, stray, stray_out>>
    BY <2>1 DEF Write, childVars
  <2>3. pipe \in Seq({"data", "marker"}) /\ written \in 0..MaxWrites /\ MaxWrites \in Nat
    BY ProcessAssumption DEF TypeOK, ProcessAssumption
  <2>4. pipe' \in Seq({"data", "marker"}) /\ Len(pipe) \in Nat /\ Len(pipe') = Len(pipe) + 1
    BY <2>2, <2>3
  <2>5. TypeOK'
    BY <1>1, <2>2, <2>3, <2>4, ProcessAssumption DEF TypeOK, ProcessAssumption
  <2>6. Killed' /\ Ended'
    BY <1>1, <2>2 DEF Killed, Ended
  <2>7. Counted'
    <3>1. ~eof
      BY <2>2 DEF Counted
    <3>2. result.output \in Nat
      BY ProcessAssumption DEF TypeOK, ProcessAssumption
    <3> QED BY <1>1, <2>2, <2>3, <2>4, <3>1, <3>2 DEF Counted
  <2> QED BY <1>2, <2>5, <2>6, <2>7
<1>4. CASE Tree /\ ~Writes
  <2>1. /\ UNCHANGED <<pipe, written>>
        /\ child' \in {"running", "zero", "nonzero", "signal"}
        /\ child_out' \in BOOLEAN /\ stray_out' \in BOOLEAN
        /\ stray' \in {"none", "group", "own", "gone"}
        /\ child # "running" => child' # "running" /\ (stray # "group" => stray' # "group")
    BY <1>4 DEF Tree, Exit, CloseOutput, Spawn, StrayRedirects, StrayExits, StrayAlive, TypeOK
  <2>2. ~Writers => ~Writers'
    BY <1>4 DEF Tree, Exit, CloseOutput, Spawn, StrayRedirects, StrayExits, Writers, StrayAlive,
                TypeOK
  <2>3. TypeOK'
    BY <1>1, <2>1 DEF TypeOK
  <2>4. Killed' /\ Ended'
    BY <1>1, <2>1 DEF Killed, Ended
  <2>5. Counted'
    BY <1>1, <2>1, <2>2 DEF Counted
  <2> QED BY <1>2, <2>3, <2>4, <2>5
<1> QED BY <1>3, <1>4

LEMMA TickStep ==
  ASSUME Inv, Tick
  PROVE  Inv'
<1> USE ProcessAssumption, BudgetType DEF Inv, ProcessAssumption
<1>1. /\ left > 0 /\ left' = left - 1 /\ spent' = spent + 1
      /\ UNCHANGED <<pc, eof, result, read_open, pipe, child, child_out, stray, stray_out, written>>
  BY DEF Tick, childVars
<1>2. left \in 0..FirstDeadline /\ spent \in 0..FirstDeadline /\ spent + left = Budget
  BY DEF TypeOK, Charged
<1>3. Budget \in Nat /\ Budget <= FirstDeadline
  BY DEF Budget, FirstDeadline
<1>4. left' \in 0..FirstDeadline /\ spent' \in 0..FirstDeadline /\ spent' + left' = Budget
  BY <1>1, <1>2, <1>3
<1>5. TypeOK'
  BY <1>1, <1>4 DEF TypeOK
<1>6. Charged'
  BY <1>1, <1>4 DEF Charged, Budget
<1>7. Killed' /\ Ended'
  BY <1>1, <1>2 DEF Killed, Ended
<1>8. Counted'
  BY <1>1 DEF Counted, Writers, StrayAlive
<1> QED BY <1>5, <1>6, <1>7, <1>8

\* The inductive invariant: types, the clock, who is dead, and where the output is.
THEOREM Invariant == Spec => []Inv
<1>1. Inv /\ [Next]_vars => Inv'
  <2> SUFFICES ASSUME Inv, [Next]_vars PROVE Inv'
    OBVIOUS
  <2>1. CASE Parent
    BY <2>1, KillStep, QuietStep, ReadStep, EndStep DEF Parent
  <2>2. CASE Tree
    BY <2>2, TreeStep
  <2>3. CASE Tick
    BY <2>3, TickStep
  <2>4. CASE UNCHANGED vars
    BY <2>4 DEF vars, parentVars, childVars, Inv, TypeOK, Charged, Budget, Killed, Ended, Counted,
                Writers, StrayAlive
  <2> QED BY <2>1, <2>2, <2>3, <2>4 DEF Next
<1> QED BY InitInv, <1>1, PTL DEF Spec

\* Every variable keeps its type; the output stays within max_output_bytes.
THEOREM TypeCorrect == Spec => []TypeOK
<1>1. Inv => TypeOK
  BY DEF Inv
<1> QED BY <1>1, Invariant, PTL

\* Whichever way the loops were left, nothing of the child's group is alive when the call
\* returns (process.cpp:106-110, 159, 162): the child, and what it has started that did not
\* leave the group, whether it kept the pipe or sent its output elsewhere and outlived the
\* end of the file. A call that returns waitpid()'s error (line 158) before it was late has
\* killed nobody, and is the exception the property names.
THEOREM NothingIsLeft == Spec => []NothingLeft
<1>1. Inv => NothingLeft
  BY DEF Inv, Killed, Ended, NothingLeft
<1> QED BY <1>1, Invariant, PTL

\* Nobody is killed for being late before the budget that applies is spent
\* (process.cpp:103-105, 141-144).
THEOREM KilledWhenLate == Spec => []BudgetSpent
<1>1. Inv => BudgetSpent
  <2> SUFFICES ASSUME Inv, result.timed_out
               PROVE  spent = IF await_marker /\ ~result.started THEN startup_grace + timeout
                                                                 ELSE timeout
    BY DEF BudgetSpent
  <2>1. left = 0 /\ spent \in Nat /\ spent + left = Budget
    BY BudgetType DEF Inv, Killed, Charged, TypeOK
  <2> QED BY <2>1 DEF Budget
<1> QED BY <1>1, Invariant, PTL

\* A result that has met the end of the file without truncation holds all that was
\* written, save the marker (process.cpp:128-148).
THEOREM OutputIsComplete == Spec => []OutputComplete
<1>1. Inv => OutputComplete
  <2> SUFFICES ASSUME Inv, eof, ~result.truncated, written < MaxWrites
               PROVE  result.output + (IF result.started THEN 1 ELSE 0) = written
    BY DEF OutputComplete
  <2>1. Len(pipe) = 0 /\ result.output \in Nat
    BY ProcessAssumption DEF Inv, Counted, TypeOK, ProcessAssumption
  <2> QED BY <2>1 DEF Inv, Counted
<1> QED BY <1>1, Invariant, PTL

=============================================================================
