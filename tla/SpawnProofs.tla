----------------------------- MODULE SpawnProofs -----------------------------
(***************************************************************************)
(* No program started by one thread inherits the pipe of another, for any  *)
(* number of threads and calls.                                            *)
(*                                                                         *)
(* NoLeak speaks of a program that runs; what makes it so was decided when *)
(* its process was forked. The inductive invariant says that a pipe is     *)
(* without its close-on-exec flag only while its thread is between pipe()  *)
(* and set_cloexec(), that a thread there holds g_spawn_mutex, and that a  *)
(* child will therefore keep no pipe but its own.                          *)
(***************************************************************************)
EXTENDS Spawn, TLAPS

LockHeld == \A t \in Threads : at[t] \in {"pipe", "cloexec", "fork"} => lock = t
InCall == \A t \in Threads : at[t] # "idle" => n[t] # 0
Opened == \A t \in Threads : at[t] \in {"cloexec", "fork", "close"} => Cur(t) \in open
Flagged == \A p \in open \ cloexec : \E t \in Threads : at[t] = "cloexec" /\ p = Cur(t)
KeepsOwn == \A p \in Calls : keeps[p] \subseteq {p}

Inv == SpawnTypeOK /\ LockHeld /\ InCall /\ Opened /\ Flagged /\ KeepsOwn /\ NoLeak

LEMMA CurType ==
  ASSUME SpawnTypeOK, InCall, NEW t \in Threads, at[t] # "idle"
  PROVE  Cur(t) \in Calls
BY SpawnAssumption DEF SpawnTypeOK, InCall, Cur, Calls, SpawnAssumption

\* A process that ends holds nothing.
LEMMA EndOK ==
  ASSUME SpawnTypeOK, NoLeak, NEW dead, NEW how \in {"exited", "killed"}, End(dead, how)
  PROVE  /\ process' \in [Calls -> ChildStates]
         /\ holds' \in [Calls -> SUBSET Calls]
         /\ NoLeak'
BY DEF SpawnTypeOK, NoLeak, End, ChildStates

LEMMA InitInv == SpawnInit => Inv
<1> SUFFICES ASSUME SpawnInit PROVE Inv
  OBVIOUS
<1>1. SpawnTypeOK
  BY SpawnAssumption DEF SpawnInit, SpawnTypeOK, SpawnAssumption, ChildStates
<1> QED BY <1>1 DEF SpawnInit, Inv, LockHeld, InCall, Opened, Flagged, KeepsOwn, NoLeak

LEMMA ThreadStep ==
  ASSUME Inv, NEW t \in Threads, Call(t) \/ Step(t)
  PROVE  Inv'
<1> USE DEF Inv, LockHeld, InCall, Opened, Flagged, KeepsOwn, NoLeak, Goto, kernel
<1>1. at[t] # "idle" => Cur(t) \in Calls
  BY CurType
<1>2. CASE Call(t)
  BY <1>2, SpawnAssumption DEF Call, SpawnTypeOK, Cur, SpawnAssumption
<1>3. CASE Lock(t)
  BY <1>3, SpawnAssumption DEF Lock, SpawnTypeOK, Cur, SpawnAssumption
<1>4. CASE Pipe(t)
  BY <1>1, <1>4 DEF Pipe, SpawnTypeOK, Cur
<1>5. CASE PipeFails(t)
  BY <1>5 DEF PipeFails, SpawnTypeOK, Cur
<1>6. CASE set_cloexec(t)
  <2>1. Cur(t) \in open
    BY <1>6 DEF set_cloexec
  <2> QED BY <1>1, <1>6, <2>1 DEF set_cloexec, SpawnTypeOK, Cur
<1>7. CASE Fork(t)
  <2>1. open \ cloexec = {}
    BY <1>7 DEF Fork
  <2>2. pid' \in [Calls -> Pids]
    BY <1>7 DEF Fork, FreePids, SpawnTypeOK
  <2>3. Cur(t) \in Calls /\ open \in SUBSET Calls
    BY <1>1, <1>7 DEF Fork, SpawnTypeOK
  <2>4. SpawnTypeOK'
    BY <1>7, <2>1, <2>2, <2>3 DEF Fork, SpawnTypeOK, ChildStates
  <2> QED BY <1>7, <2>1, <2>3, <2>4 DEF Fork, SpawnTypeOK, Cur
<1>8. CASE ForkFails(t)
  BY <1>8 DEF ForkFails, SpawnTypeOK, Cur
<1>9. CASE CloseWrite(t)
  BY <1>1, <1>9 DEF CloseWrite, SpawnTypeOK, Cur
<1>10. CASE SeeEof(t)
  BY <1>10 DEF SeeEof, SpawnTypeOK, Cur
<1>11. CASE kill_group(t)
  BY <1>1, <1>11, EndOK DEF kill_group, SpawnTypeOK, Cur
<1>12. CASE ReapChild(t)
  BY <1>1, <1>12 DEF ReapChild, SpawnTypeOK, Cur, ChildStates
<1>13. CASE ReturnFrom(t)
  BY <1>1, <1>13, EndOK DEF ReturnFrom, SpawnTypeOK, Cur
<1>14. CASE LoseChild(t)
  BY <1>1, <1>14 DEF LoseChild, SpawnTypeOK, Cur, ChildStates
<1> QED BY <1>2, <1>3, <1>4, <1>5, <1>6, <1>7, <1>8, <1>9, <1>10, <1>11, <1>12, <1>13, <1>14
       DEF Step

LEMMA ChildStep ==
  ASSUME Inv, NEW p \in Calls, Redirect(p) \/ Exec(p) \/ ExitChild(p)
  PROVE  Inv'
<1> USE DEF Inv, LockHeld, InCall, Opened, Flagged, KeepsOwn, NoLeak
<1>1. CASE Redirect(p)
  BY <1>1 DEF Redirect, SpawnTypeOK, Cur, ChildStates
<1>2. CASE Exec(p)
  BY <1>2 DEF Exec, SpawnTypeOK, Cur, ChildStates
<1>3. CASE ExitChild(p)
  BY <1>3, EndOK DEF ExitChild, SpawnTypeOK, Cur
<1> QED BY <1>1, <1>2, <1>3

LEMMA NextInv == Inv /\ [SpawnNext]_spawnVars => Inv'
<1> SUFFICES ASSUME Inv, [SpawnNext]_spawnVars PROVE Inv'
  OBVIOUS
<1>1. CASE UNCHANGED spawnVars
  BY <1>1 DEF spawnVars, Inv, SpawnTypeOK, LockHeld, InCall, Opened, Flagged, KeepsOwn, NoLeak, Cur
<1>2. CASE SpawnNext
  BY <1>2, ThreadStep, ChildStep DEF SpawnNext
<1> QED BY <1>1, <1>2

\* The descriptors, flags and children of any number of threads have their types, and no
\* program has the pipe of another call open: g_spawn_mutex does what process.cpp:20-22
\* wants of it.
THEOREM NoForeignPipe == SpawnSpec => [](SpawnTypeOK /\ NoLeak)
<1>1. Inv => SpawnTypeOK /\ NoLeak
  BY DEF Inv
<1> QED BY <1>1, InitInv, NextInv, PTL DEF SpawnSpec

=============================================================================
