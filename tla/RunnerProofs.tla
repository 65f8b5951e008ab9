------------------------------ MODULE RunnerProofs ------------------------------
(***************************************************************************)
(* Theorems about Runner, for any number of tasks, jobs and repair rounds, *)
(* any replies and any outcomes: every task is done by one worker, its     *)
(* conversation is one the repair loop can have had, and its result, once  *)
(* stored, is what on_result and the reports are given.                    *)
(***************************************************************************)
EXTENDS Runner, FiniteSetTheorems, TLAPS

Working == {"prepare", "ask", "compile", "test"}
Holding == Working \cup {"report", "callback"}
Holders == {w \in Workers : pc[w] \in Holding}

\* Every task below the counter was claimed by one worker, and has no result before that
\* worker stores it; the others have none.
OnceOnly ==
    /\ \A w \in Workers : pc[w] \in Holding => task[w] \in 1..(next - 1)
    /\ \A v, w \in Workers : v # w /\ v \in Holders /\ w \in Holders => task[v] # task[w]
    /\ \A w \in Workers : pc[w] \in Working => results[task[w]] = <<>>
    /\ \A i \in next..NumTasks : results[i] = <<>>

\* The attempts of a task under way: rounds in order, none of them final.
Unfinished(all) ==
    \A j \in 1..Len(all) : all[j].round = j - 1 /\ all[j].outcome \notin Final
Conversation ==
    \A w \in Workers : pc[w] \in Working =>
        /\ Len(attempts[w]) = round[w] /\ Unfinished(attempts[w])
        /\ pc[w] = "prepare" \/ options.use_reference => round[w] = 0

\* Every task below the counter is in a worker's hands or has been reported as it is.
ReportOf(i) == [task |-> i, attempts |-> results[i]]
Reports == {reported[k] : k \in 1..Len(reported)}
Delivered ==
    /\ \A w \in Workers : pc[w] \in {"report", "callback"} => results[task[w]] # <<>>
    /\ \A i \in 1..(next - 1) : \/ \E w \in Holders : task[w] = i
                                \/ results[i] # <<>> /\ ReportOf(i) \in Reports
    /\ Len(reported) + Cardinality(Holders) = next - 1
    /\ \A w \in Workers : pc[w] = "exited" => next = NumTasks + 1
    /\ main \in {"report", "done"} => \A w \in Workers : pc[w] = "exited"

Inv == TypeOK /\ OnceOnly /\ Conversation /\ Delivered /\ ResultsWellFormed

-----------------------------------------------------------------------------
(* What a step of a worker does, without where it does it.                 *)

Places == {"claim", "exited"} \cup Holding
Records == [round : Nat, outcome : Outcomes, utf8 : BOOLEAN, ran : BOOLEAN]

Stored(w, all) ==
    /\ all # <<>> /\ WellFormed(all)
    /\ results' = [results EXCEPT ![task[w]] = all]
    /\ attempts' = [attempts EXCEPT ![w] = all]
    /\ round' = round
    /\ pc' = [pc EXCEPT ![w] = "report"]

Continued(w, all) ==
    /\ ~options.use_reference /\ round[w] < RepairRounds
    /\ Len(all) = round[w] + 1 /\ Unfinished(all)
    /\ results' = results
    /\ attempts' = [attempts EXCEPT ![w] = all]
    /\ round' = [round EXCEPT ![w] = @ + 1]
    /\ pc' = [pc EXCEPT ![w] = "ask"]

Moved(w) ==
    /\ \E l \in {"ask", "compile", "test"} : pc' = [pc EXCEPT ![w] = l]
    /\ UNCHANGED <<results, attempts, round>>

Work(w) == Prepare(w) \/ PrepareFails(w) \/ Ask(w) \/ Compile(w) \/ RunTests(w)

LEMMA JobsType == Jobs \in Nat \ {0} /\ RepairRounds \in Nat /\ NumTasks \in Nat \ {0}
  BY RunnerAssumption DEF RunnerAssumption, Jobs, RepairRounds

LEMMA WorkersFinite == IsFiniteSet(Workers) /\ 1 \in Workers
<1>1. IsFiniteSet(1..Jobs)
  BY JobsType, FS_Interval
<1> QED BY <1>1, JobsType DEF Workers

LEMMA OneAttempt ==
  ASSUME NEW a \in Records, a.round = 0, a.outcome \in Final
  PROVE  <<a>> \in Attempts /\ <<a>> # <<>> /\ WellFormed(<<a>>)
<1>1. <<a>> \in Seq(Records) /\ Len(<<a>>) = 1 /\ <<a>>[1] = a
  OBVIOUS
<1> QED BY <1>1 DEF Attempts, Records, WellFormed, Last

LEMMA AttemptType ==
  ASSUME NEW r \in Nat, NEW o \in Outcomes, NEW u \in BOOLEAN, NEW t \in BOOLEAN
  PROVE  /\ Attempt(r, o, u, t) \in Records
         /\ Attempt(r, o, u, t).round = r /\ Attempt(r, o, u, t).outcome = o
  BY DEF Attempt, Records

LEMMA RecordEffect ==
  ASSUME Inv, NEW w \in Workers, NEW a \in Records, a.round = round[w],
         pc[w] \in Working, Record(w, a)
  PROVE  /\ \E all \in Attempts : Stored(w, all) \/ Continued(w, all)
         /\ workdirs' \subseteq workdirs \cup {task[w]}
<1> DEFINE all == Append(attempts[w], a)
<1>1. attempts[w] \in Seq(Records) /\ round[w] \in 0..RepairRounds /\ RepairRounds \in Nat
  BY JobsType DEF Inv, TypeOK, Attempts, Records
<1>2. Len(attempts[w]) = round[w] /\ Unfinished(attempts[w])
      /\ (options.use_reference => round[w] = 0)
  BY DEF Inv, Conversation
<1>3. /\ all \in Attempts /\ all # <<>> /\ Len(all) = round[w] + 1
      /\ \A j \in 1..round[w] : all[j] = attempts[w][j]
      /\ all[round[w] + 1] = a
  BY <1>1, <1>2 DEF Attempts, Records
<1>4. \A j \in 1..Len(all) : /\ all[j].round = j - 1
                             /\ j < Len(all) => all[j].outcome \notin Final
  <2> SUFFICES ASSUME NEW j \in 1..Len(all)
               PROVE  all[j].round = j - 1 /\ (j < Len(all) => all[j].outcome \notin Final)
    OBVIOUS
  <2>1. CASE j = round[w] + 1
    BY <1>1, <1>3, <2>1
  <2>2. CASE j \in 1..round[w]
    BY <1>1, <1>2, <1>3, <2>2 DEF Unfinished
  <2> QED BY <1>1, <1>3, <2>1, <2>2
<1>5. Last(all) = a
  BY <1>3 DEF Last
<1> HIDE DEF all
<1>6. CASE options.use_reference \/ Done(a.outcome, round[w])
  <2>1. Finish(w, all)
    BY <1>6 DEF Record, all
  <2>2. WellFormed(all)
    <3>1. Last(all).outcome \in Final \/ options.use_reference \/ Len(all) = RepairRounds + 1
      BY <1>1, <1>3, <1>5, <1>6 DEF Done
    <3> QED BY <1>4, <3>1 DEF WellFormed
  <2>3. Stored(w, all) /\ workdirs' \subseteq workdirs \cup {task[w]}
    BY <1>3, <2>1, <2>2 DEF Finish, Stored, Goto
  <2> QED BY <1>3, <2>3
<1>7. CASE ~(options.use_reference \/ Done(a.outcome, round[w]))
  <2>1. /\ attempts' = [attempts EXCEPT ![w] = all]
        /\ round' = [round EXCEPT ![w] = @ + 1]
        /\ pc' = [pc EXCEPT ![w] = "ask"]
        /\ UNCHANGED <<results, workdirs>>
    BY <1>7 DEF Record, Goto, all
  <2>2. round[w] < RepairRounds /\ a.outcome \notin Final
    BY <1>1, <1>7 DEF Done
  <2>3. Unfinished(all)
    BY <1>1, <1>3, <1>4, <2>2 DEF Unfinished
  <2>4. Continued(w, all)
    BY <1>3, <1>7, <2>1, <2>2, <2>3 DEF Continued
  <2> QED BY <1>3, <2>1, <2>4
<1> QED BY <1>6, <1>7

LEMMA WorkEffect ==
  ASSUME Inv, NEW w \in Workers, Work(w)
  PROVE  /\ pc[w] \in Working
         /\ UNCHANGED <<options, main, next, task, mutex, reported>>
         /\ workdirs' \subseteq workdirs \cup {task[w]}
         /\ Moved(w) \/ \E all \in Attempts : Stored(w, all) \/ Continued(w, all)
<1> USE DEF Working
<1>1. /\ round[w] \in Nat /\ Texts \subseteq BOOLEAN
      /\ {"kPass", "kCompileError", "kTestFailure", "kTimeout", "kCrash", "kNoCode", "kApiError",
          "kHarnessError"} = Outcomes
  BY JobsType, RunnerAssumption DEF Inv, TypeOK, RunnerAssumption, Outcomes
<1> DEFINE failed == Attempt(0, "kHarnessError", TRUE, FALSE)
<1>2. <<failed>> \in Attempts /\ <<failed>> # <<>> /\ WellFormed(<<failed>>)
  <2>1. failed \in Records /\ failed.round = 0 /\ failed.outcome = "kHarnessError"
    BY <1>1, AttemptType
  <2> QED BY <2>1, OneAttempt DEF Final
<1> HIDE DEF failed
<1>3. CASE Prepare(w)
  <2>1. pc[w] = "prepare" /\ UNCHANGED <<options, main, next, task, mutex, reported>>
    BY <1>3 DEF Prepare
  <2>2. \/ Finish(w, <<failed>>)
        \/ /\ workdirs' = workdirs \cup {task[w]}
           /\ Moved(w)
    BY <1>3 DEF Prepare, Moved, Goto, failed
  <2>3. CASE Finish(w, <<failed>>)
    <3>1. Stored(w, <<failed>>) /\ workdirs' \subseteq workdirs \cup {task[w]}
      BY <1>2, <2>3 DEF Finish, Stored, Goto
    <3> QED BY <1>2, <2>1, <3>1
  <2> QED BY <2>1, <2>2, <2>3
<1>4. CASE PrepareFails(w)
  <2>1. pc[w] = "prepare" /\ UNCHANGED <<options, main, next, task, mutex, reported>>
        /\ workdirs' \subseteq workdirs \cup {task[w]}
    BY <1>4 DEF PrepareFails
  <2>2. Stored(w, <<failed>>)
    BY <1>2, <1>4 DEF PrepareFails, Stored, Goto, failed
  <2> QED BY <1>2, <2>1, <2>2
<1>5. CASE Ask(w) \/ Compile(w) \/ RunTests(w)
  <2>1. pc[w] \in Working /\ UNCHANGED <<options, main, next, task, mutex, reported>>
    BY <1>5 DEF Ask, Compile, RunTests
  <2>2. \/ \E o \in Outcomes, u \in BOOLEAN, t \in BOOLEAN : Record(w, Attempt(round[w], o, u, t))
        \/ Moved(w) /\ workdirs' = workdirs
    <3>1. CASE Ask(w)
      BY <1>1, <3>1 DEF Ask, Moved, Goto
    <3>2. CASE Compile(w)
      BY <1>1, <3>2 DEF Compile, Moved, Goto
    <3>3. CASE RunTests(w)
      <4>1. (~options.relative_root) \in BOOLEAN
        OBVIOUS
      <4> QED BY <1>1, <3>3, <4>1 DEF RunTests
    <3> QED BY <1>5, <3>1, <3>2, <3>3
  <2>3. ASSUME NEW o \in Outcomes, NEW u \in BOOLEAN, NEW t \in BOOLEAN,
               Record(w, Attempt(round[w], o, u, t))
        PROVE  /\ \E all \in Attempts : Stored(w, all) \/ Continued(w, all)
               /\ workdirs' \subseteq workdirs \cup {task[w]}
    <3>1. /\ Attempt(round[w], o, u, t) \in Records
          /\ Attempt(round[w], o, u, t).round = round[w]
      BY <1>1, AttemptType
    <3> QED BY <2>1, <2>3, <3>1, RecordEffect
  <2> QED BY <2>1, <2>2, <2>3
<1> QED BY <1>3, <1>4, <1>5 DEF Work

-----------------------------------------------------------------------------
(* The invariant.                                                          *)

LEMMA InitInv == Init => Inv
<1> SUFFICES ASSUME Init PROVE Inv
  OBVIOUS
<1> USE JobsType DEF Init
<1>1. TypeOK
  <2>1. <<>> \in Attempts /\ <<>> \in Seq([task : 1..NumTasks, attempts : Attempts])
    BY DEF Attempts
  <2> QED BY <2>1 DEF TypeOK
<1>2. OnceOnly /\ Conversation /\ ResultsWellFormed
  BY DEF OnceOnly, Conversation, ResultsWellFormed, Holders, Holding, Working
<1>3. Delivered
  <2>1. Holders = {}
    BY DEF Holders, Holding, Working
  <2>2. Cardinality(Holders) = 0
    BY <2>1, FS_EmptySet
  <2>3. Len(reported) = 0 /\ 1..(next - 1) = {}
    OBVIOUS
  <2> QED BY <2>2, <2>3 DEF Delivered
<1> QED BY <1>1, <1>2, <1>3 DEF Inv

LEMMA HoldersFinite ==
  ASSUME NEW S, S \subseteq Workers
  PROVE  IsFiniteSet(S) /\ Cardinality(S) \in Nat
  BY WorkersFinite, FS_Subset, FS_CardinalityType

\* Steps of a worker that stores or continues a conversation, and no more.
LEMMA WorkStep ==
  ASSUME Inv, NEW w \in Workers, main = "run", Work(w)
  PROVE  Inv'
<1>1. /\ pc[w] \in Working /\ workdirs' \subseteq workdirs \cup {task[w]}
      /\ UNCHANGED <<options, main, next, task, mutex, reported>>
      /\ Moved(w) \/ \E all \in Attempts : Stored(w, all) \/ Continued(w, all)
  BY WorkEffect
<1>2. /\ pc \in [Workers -> Places] /\ task \in [Workers -> 0..NumTasks]
      /\ round \in [Workers -> 0..RepairRounds] /\ attempts \in [Workers -> Attempts]
      /\ results \in [1..NumTasks -> Attempts] /\ next \in 1..(NumTasks + 1)
      /\ RepairRounds \in Nat /\ NumTasks \in Nat
  BY JobsType DEF Inv, TypeOK, Places, Holding, Working
<1>3. /\ w \in Holders /\ task[w] \in 1..(next - 1) /\ task[w] \in 1..NumTasks
      /\ results[task[w]] = <<>>
  BY <1>1, <1>2 DEF Inv, OnceOnly, Holders, Holding
<1>4. /\ \A v \in Workers : v # w => pc'[v] = pc[v]
      /\ pc' \in [Workers -> Places] /\ pc'[w] \in {"ask", "compile", "test", "report"}
  BY <1>1, <1>2 DEF Moved, Stored, Continued, Places, Holding, Working
<1>5. Holders' = Holders
  BY <1>1, <1>4 DEF Holders, Holding, Working
<1>6. /\ round' \in [Workers -> 0..RepairRounds] /\ attempts' \in [Workers -> Attempts]
      /\ results' \in [1..NumTasks -> Attempts]
  <2>1. CASE Moved(w)
    BY <1>2, <2>1 DEF Moved
  <2>2. ASSUME NEW all \in Attempts, Stored(w, all)
        PROVE  /\ round' \in [Workers -> 0..RepairRounds] /\ attempts' \in [Workers -> Attempts]
               /\ results' \in [1..NumTasks -> Attempts]
    BY <1>2, <1>3, <2>2 DEF Stored
  <2>3. ASSUME NEW all \in Attempts, Continued(w, all)
        PROVE  /\ round' \in [Workers -> 0..RepairRounds] /\ attempts' \in [Workers -> Attempts]
               /\ results' \in [1..NumTasks -> Attempts]
    <3>1. round[w] + 1 \in 0..RepairRounds
      BY <1>2, <2>3 DEF Continued
    <3> QED BY <1>2, <2>3, <3>1 DEF Continued
  <2> QED BY <1>1, <2>1, <2>2, <2>3
<1>7. TypeOK'
  <2>1. workdirs' \subseteq 1..NumTasks
    BY <1>1, <1>3 DEF Inv, TypeOK
  <2> QED BY <1>1, <1>4, <1>6, <2>1 DEF Inv, TypeOK, Places, Holding, Working
<1>8. /\ \A i \in 1..NumTasks : i # task[w] => results'[i] = results[i]
      /\ pc'[w] # "report" => results' = results
      /\ pc'[w] = "report" => results'[task[w]] # <<>> /\ WellFormed(results'[task[w]])
  BY <1>1, <1>2, <1>3 DEF Moved, Stored, Continued
<1>9. OnceOnly'
  <2>1. \A v \in Workers : pc'[v] \in Working => results'[task[v]] = <<>>
    <3> SUFFICES ASSUME NEW v \in Workers, pc'[v] \in Working PROVE results'[task[v]] = <<>>
      OBVIOUS
    <3>1. CASE v = w
      BY <1>3, <1>8, <3>1 DEF Working
    <3>2. CASE v # w
      <4>1. v \in Holders /\ results[task[v]] = <<>> /\ task[v] # task[w] /\ task[v] \in 1..NumTasks
        BY <1>2, <1>3, <1>4, <3>2 DEF Inv, OnceOnly, Holders, Holding
      <4> QED BY <1>8, <4>1
    <3> QED BY <3>1, <3>2
  <2>2. \A i \in next..NumTasks : results'[i] = <<>>
    BY <1>2, <1>3, <1>8 DEF Inv, OnceOnly
  <2>3. \A v \in Workers : pc'[v] \in Holding => v \in Holders
    BY <1>5 DEF Holders
  <2> QED BY <1>1, <1>5, <2>1, <2>2, <2>3 DEF Inv, OnceOnly, Holders
<1>10. Conversation'
  <2> SUFFICES ASSUME NEW v \in Workers, pc'[v] \in Working
               PROVE  /\ Len(attempts'[v]) = round'[v] /\ Unfinished(attempts'[v])
                      /\ pc'[v] = "prepare" \/ options.use_reference => round'[v] = 0
    BY <1>1 DEF Conversation
  <2>1. CASE v # w
    <3>1. attempts'[v] = attempts[v] /\ round'[v] = round[v] /\ pc'[v] = pc[v]
      BY <1>1, <1>2, <1>4, <2>1 DEF Moved, Stored, Continued
    <3> QED BY <3>1 DEF Inv, Conversation
  <2>2. CASE v = w
    <3>1. CASE Moved(w)
      <4>1. attempts'[w] = attempts[w] /\ round'[w] = round[w]
        BY <3>1 DEF Moved
      <4> QED BY <1>1, <1>4, <2>2, <4>1 DEF Inv, Conversation
    <3>2. CASE \E all \in Attempts : Stored(w, all)
      <4>1. pc'[w] = "report"
        BY <1>2, <3>2 DEF Stored
      <4> QED BY <2>2, <4>1 DEF Working
    <3>3. CASE \E all \in Attempts : Continued(w, all)
      <4>1. PICK all \in Attempts : Continued(w, all)
        BY <3>3
      <4>2. attempts'[w] = all /\ round'[w] = round[w] + 1 /\ pc'[w] = "ask"
        BY <1>2, <4>1 DEF Continued
      <4> QED BY <2>2, <4>1, <4>2 DEF Continued
    <3> QED BY <1>1, <3>1, <3>2, <3>3
  <2> QED BY <2>1, <2>2
<1>11. ResultsWellFormed'
  <2> SUFFICES ASSUME NEW i \in 1..NumTasks, results'[i] # <<>>
               PROVE  WellFormed(results[i])'
    BY DEF ResultsWellFormed
  <2>1. WellFormed(results'[i])
    <3>1. CASE i = task[w]
      BY <1>3, <1>4, <1>8, <3>1
    <3>2. CASE i # task[w]
      BY <1>8, <3>2 DEF Inv, ResultsWellFormed
    <3> QED BY <3>1, <3>2
  <2> QED BY <1>1, <2>1 DEF WellFormed, Last
<1>12. Delivered'
  <2>1. \A v \in Workers : pc'[v] \in {"report", "callback"} => results'[task[v]] # <<>>
    <3> SUFFICES ASSUME NEW v \in Workers, pc'[v] \in {"report", "callback"}
                 PROVE  results'[task[v]] # <<>>
      OBVIOUS
    <3>1. CASE v = w
      BY <1>4, <1>8, <3>1
    <3>2. CASE v # w
      <4>1. v \in Holders /\ results[task[v]] # <<>> /\ task[v] # task[w] /\ task[v] \in 1..NumTasks
        BY <1>2, <1>3, <1>4, <3>2 DEF Inv, OnceOnly, Delivered, Holders, Holding
      <4> QED BY <1>8, <4>1
    <3> QED BY <3>1, <3>2
  <2>2. ASSUME NEW i \in 1..(next - 1), ~\E v \in Holders : task[v] = i
        PROVE  results'[i] # <<>> /\ ReportOf(i)' \in Reports'
    <3>1. i # task[w] /\ i \in 1..NumTasks
      BY <1>2, <1>3, <2>2
    <3>2. results'[i] = results[i] /\ results[i] # <<>> /\ ReportOf(i) \in Reports
      BY <1>8, <2>2, <3>1 DEF Inv, Delivered
    <3> QED BY <1>1, <3>2 DEF ReportOf, Reports
  <2>3. \A v \in Workers : pc'[v] = "exited" => pc[v] = "exited"
    BY <1>4
  <2> QED BY <1>1, <1>5, <2>1, <2>2, <2>3 DEF Inv, Delivered
<1> QED BY <1>7, <1>9, <1>10, <1>11, <1>12 DEF Inv

LEMMA ClaimStep ==
  ASSUME Inv, NEW w \in Workers, main = "run", Claim(w)
  PROVE  Inv'
<1>1. /\ pc[w] = "claim" /\ next <= NumTasks /\ next' = next + 1
      /\ task' = [task EXCEPT ![w] = next]
      /\ round' = [round EXCEPT ![w] = 0]
      /\ attempts' = [attempts EXCEPT ![w] = <<>>]
      /\ pc' = [pc EXCEPT ![w] = "prepare"]
      /\ UNCHANGED <<options, main, results, workdirs, mutex, reported>>
  BY DEF Claim, Goto
<1>2. /\ pc \in [Workers -> Places] /\ task \in [Workers -> 0..NumTasks]
      /\ round \in [Workers -> 0..RepairRounds] /\ attempts \in [Workers -> Attempts]
      /\ next \in 1..(NumTasks + 1) /\ RepairRounds \in Nat /\ NumTasks \in Nat
  BY JobsType DEF Inv, TypeOK, Places, Holding, Working
<1>3. /\ w \notin Holders /\ Holders' = Holders \cup {w}
  BY <1>1, <1>2 DEF Holders, Holding, Working
<1>4. /\ pc'[w] = "prepare" /\ task'[w] = next /\ attempts'[w] = <<>> /\ round'[w] = 0
      /\ \A v \in Workers : v # w => /\ pc'[v] = pc[v] /\ task'[v] = task[v]
                                     /\ attempts'[v] = attempts[v] /\ round'[v] = round[v]
  BY <1>1, <1>2
<1>5. TypeOK'
  <2>1. next \in 0..NumTasks /\ next' \in 1..(NumTasks + 1) /\ <<>> \in Attempts
        /\ 0 \in 0..RepairRounds
    BY <1>1, <1>2 DEF Attempts
  <2>2. /\ task' \in [Workers -> 0..NumTasks] /\ round' \in [Workers -> 0..RepairRounds]
        /\ attempts' \in [Workers -> Attempts] /\ pc' \in [Workers -> Places]
    BY <1>1, <1>2, <2>1 DEF Places, Holding, Working
  <2> QED BY <1>1, <2>1, <2>2 DEF Inv, TypeOK, Places, Holding, Working
<1>6. OnceOnly'
  <2>1. \A v \in Holders : task[v] \in 1..(next - 1) /\ v # w
    BY <1>3 DEF Inv, OnceOnly, Holders
  <2>2. results[next] = <<>> /\ \A i \in (next + 1)..NumTasks : results[i] = <<>>
    BY <1>1, <1>2 DEF Inv, OnceOnly
  <2>3. \A v \in Workers : pc'[v] \in Holding => task'[v] \in 1..(next' - 1)
    <3> SUFFICES ASSUME NEW v \in Workers, pc'[v] \in Holding PROVE task'[v] \in 1..(next' - 1)
      OBVIOUS
    <3>1. CASE v = w
      BY <1>1, <1>2, <1>4, <3>1
    <3>2. CASE v # w
      <4>1. task[v] \in 1..(next - 1)
        BY <1>4, <2>1, <3>2 DEF Holders
      <4> QED BY <1>1, <1>2, <1>4, <3>2, <4>1
    <3> QED BY <3>1, <3>2
  <2>4. ASSUME NEW u \in Workers, NEW v \in Workers, u # v, u \in Holders', v \in Holders'
        PROVE  task'[u] # task'[v]
    <3>1. CASE u = w
      BY <1>2, <1>3, <1>4, <2>1, <2>4, <3>1
    <3>2. CASE v = w
      BY <1>2, <1>3, <1>4, <2>1, <2>4, <3>2
    <3>3. CASE u # w /\ v # w
      BY <1>3, <1>4, <2>4, <3>3 DEF Inv, OnceOnly
    <3> QED BY <3>1, <3>2, <3>3
  <2>5. \A v \in Workers : pc'[v] \in Working => results'[task'[v]] = <<>>
    BY <1>1, <1>4, <2>2 DEF Inv, OnceOnly
  <2> QED BY <1>1, <1>2, <2>2, <2>3, <2>4, <2>5 DEF OnceOnly
<1>7. Conversation'
  <2>1. Len(<<>>) = 0 /\ Unfinished(<<>>)
    BY DEF Unfinished
  <2> QED BY <1>1, <1>4, <2>1 DEF Inv, Conversation
<1>8. ResultsWellFormed'
  BY <1>1 DEF Inv, ResultsWellFormed, WellFormed, Last
<1>9. Delivered'
  <2>1. \A v \in Workers : pc'[v] \in {"report", "callback"} => results'[task'[v]] # <<>>
    BY <1>1, <1>4 DEF Inv, Delivered
  <2>2. ASSUME NEW i \in 1..(next' - 1), ~\E v \in Holders' : task'[v] = i
        PROVE  results'[i] # <<>> /\ ReportOf(i)' \in Reports'
    <3>1. i # next /\ i \in 1..(next - 1)
      BY <1>1, <1>2, <1>3, <1>4, <2>2
    <3>2. ~\E v \in Holders : task[v] = i
      BY <1>3, <1>4, <2>2 DEF Holders
    <3>3. results[i] # <<>> /\ ReportOf(i) \in Reports
      BY <3>1, <3>2 DEF Inv, Delivered
    <3> QED BY <1>1, <3>3 DEF ReportOf, Reports
  <2>3. Len(reported') + Cardinality(Holders') = next' - 1
    <3>1. Holders \subseteq Workers
      BY DEF Holders
    <3>2. Cardinality(Holders') = Cardinality(Holders) + 1 /\ Cardinality(Holders) \in Nat
      BY <1>3, <3>1, HoldersFinite, FS_AddElement
    <3>3. Len(reported) \in Nat /\ Len(reported) + Cardinality(Holders) = next - 1
      BY DEF Inv, TypeOK, Delivered
    <3> QED BY <1>1, <1>2, <3>2, <3>3
  <2>4. \A v \in Workers : pc'[v] # "exited"
    BY <1>1, <1>2, <1>4 DEF Inv, Delivered
  <2> QED BY <1>1, <2>1, <2>2, <2>3, <2>4 DEF Delivered
<1> QED BY <1>5, <1>6, <1>7, <1>8, <1>9 DEF Inv

LEMMA OnResultStep ==
  ASSUME Inv, NEW w \in Workers, main = "run", OnResult(w)
  PROVE  Inv'
<1> DEFINE entry == [task |-> task[w], attempts |-> results[task[w]]]
<1>1. /\ pc[w] = "callback" /\ reported' = Append(reported, entry)
      /\ mutex' = 0 /\ pc' = [pc EXCEPT ![w] = "claim"]
      /\ UNCHANGED <<main, next, options, task, round, attempts, results, workdirs>>
  BY DEF OnResult, Goto, locals
<1>2. /\ pc \in [Workers -> Places] /\ task \in [Workers -> 0..NumTasks]
      /\ results \in [1..NumTasks -> Attempts]
      /\ reported \in Seq([task : 1..NumTasks, attempts : Attempts])
      /\ next \in 1..(NumTasks + 1) /\ NumTasks \in Nat
  BY JobsType DEF Inv, TypeOK, Places, Holding, Working
<1>3. /\ w \in Holders /\ Holders' = Holders \ {w}
      /\ \A v \in Workers : v # w => pc'[v] = pc[v]
      /\ pc'[w] = "claim"
  BY <1>1, <1>2 DEF Holders, Holding, Working
<1>4. task[w] \in 1..(next - 1) /\ task[w] \in 1..NumTasks /\ results[task[w]] # <<>>
  BY <1>1, <1>2, <1>3 DEF Inv, OnceOnly, Delivered, Holders
<1>5. entry = ReportOf(task[w]) /\ entry \in [task : 1..NumTasks, attempts : Attempts]
  BY <1>2, <1>4 DEF ReportOf
<1> HIDE DEF entry
<1>6. /\ reported' \in Seq([task : 1..NumTasks, attempts : Attempts])
      /\ Len(reported) \in Nat /\ Len(reported') = Len(reported) + 1
      /\ \A k \in 1..Len(reported) : reported'[k] = reported[k]
      /\ reported'[Len(reported) + 1] = entry
  BY <1>1, <1>2, <1>5
<1>7. Reports \subseteq Reports' /\ entry \in Reports'
  BY <1>6 DEF Reports
<1>8. TypeOK'
  BY <1>1, <1>6 DEF Inv, TypeOK
<1>9. OnceOnly'
  <2>1. \A v \in Workers : pc'[v] \in Holding => pc[v] \in Holding /\ v \in Holders
    BY <1>3 DEF Holders, Holding, Working
  <2>2. \A v \in Workers : pc'[v] \in Working => pc[v] \in Working
    BY <1>3 DEF Working
  <2> QED BY <1>1, <1>3, <2>1, <2>2 DEF Inv, OnceOnly
<1>10. Conversation'
  BY <1>1, <1>3 DEF Inv, Conversation, Working
<1>11. ResultsWellFormed'
  BY <1>1 DEF Inv, ResultsWellFormed, WellFormed, Last
<1>12. Delivered'
  <2>1. \A v \in Workers : pc'[v] \in {"report", "callback"} => results'[task'[v]] # <<>>
    BY <1>1, <1>3 DEF Inv, Delivered
  <2>2. ASSUME NEW i \in 1..(next' - 1), ~\E v \in Holders' : task'[v] = i
        PROVE  results'[i] # <<>> /\ ReportOf(i)' \in Reports'
    <3>1. ReportOf(i)' = ReportOf(i) /\ results'[i] = results[i] /\ i \in 1..(next - 1)
      BY <1>1 DEF ReportOf
    <3>2. CASE i = task[w]
      BY <1>4, <1>5, <1>7, <3>1, <3>2
    <3>3. CASE i # task[w]
      <4>1. ~\E v \in Holders : task[v] = i
        BY <1>1, <1>3, <2>2, <3>3
      <4> QED BY <1>7, <3>1, <4>1 DEF Inv, Delivered
    <3> QED BY <3>2, <3>3
  <2>3. Len(reported') + Cardinality(Holders') = next' - 1
    <3>1. Holders \subseteq Workers
      BY DEF Holders
    <3>2. Cardinality(Holders') = Cardinality(Holders) - 1 /\ Cardinality(Holders) \in Nat
      BY <1>3, <3>1, HoldersFinite, FS_RemoveElement
    <3>3. Len(reported) + Cardinality(Holders) = next - 1
      BY DEF Inv, Delivered
    <3> QED BY <1>1, <1>2, <1>6, <3>2, <3>3
  <2>4. \A v \in Workers : pc'[v] = "exited" => pc[v] = "exited"
    BY <1>3
  <2> QED BY <1>1, <2>1, <2>2, <2>3, <2>4 DEF Inv, Delivered
<1> QED BY <1>8, <1>9, <1>10, <1>11, <1>12 DEF Inv

\* Steps that only change where one thread is, and what the mutex says.
LEMMA QuietStep ==
  ASSUME Inv,
         \/ \E w \in Workers : main = "run" /\ (NoMoreTasks(w) \/ AskThrows(w) \/ LockCallback(w))
         \/ Join \/ WriteReports
         \/ UNCHANGED vars
  PROVE  Inv'
<1>1. UNCHANGED <<next, options, task, round, attempts, results, workdirs, reported>>
  BY DEF NoMoreTasks, AskThrows, LockCallback, Join, WriteReports, vars, locals
<1>2. /\ pc \in [Workers -> Places] /\ mutex \in Workers \cup {0}
      /\ main \in {"run", "report", "done", "terminated"}
      /\ next \in 1..(NumTasks + 1) /\ NumTasks \in Nat
  BY JobsType DEF Inv, TypeOK, Places, Holding, Working
<1>3. \/ pc' = pc
      \/ \E w \in Workers : /\ pc[w] = "claim" /\ next > NumTasks /\ main' = main /\ main = "run"
                            /\ pc' = [pc EXCEPT ![w] = "exited"]
      \/ \E w \in Workers : /\ pc[w] = "report" /\ main' = main /\ main = "run"
                            /\ pc' = [pc EXCEPT ![w] = "callback"]
  BY DEF NoMoreTasks, AskThrows, LockCallback, Join, WriteReports, vars, Goto
<1>4. /\ main' \in {"run", "report", "done", "terminated"}
      /\ main' \in {"report", "done"} => pc' = pc /\ \A w \in Workers : pc[w] = "exited"
      /\ mutex' \in Workers \cup {0}
  <2>1. CASE \E w \in Workers : main = "run" /\ (NoMoreTasks(w) \/ AskThrows(w) \/ LockCallback(w))
    BY <1>2, <2>1 DEF NoMoreTasks, AskThrows, LockCallback
  <2>2. CASE Join
    BY <1>2, <2>2 DEF Join, locals
  <2>3. CASE WriteReports
    BY <1>2, <2>3 DEF WriteReports, Inv, Delivered
  <2>4. CASE UNCHANGED vars
    BY <1>2, <2>4 DEF vars, Inv, Delivered
  <2> QED BY <2>1, <2>2, <2>3, <2>4
<1>5. /\ pc' \in [Workers -> Places] /\ Holders' = Holders
      /\ \A v \in Workers : pc'[v] \in Holding <=> pc[v] \in Holding
      /\ \A v \in Workers : pc'[v] \in Working => pc[v] \in Working /\ pc'[v] = pc[v]
      /\ \A v \in Workers : pc'[v] \in {"report", "callback"} => pc[v] \in {"report", "callback"}
      /\ \A v \in Workers : pc'[v] = "exited" => next = NumTasks + 1
  <2>1. \A v \in Workers : pc[v] = "exited" => next = NumTasks + 1
    BY DEF Inv, Delivered
  <2> QED BY <1>2, <1>3, <2>1 DEF Holders, Holding, Working, Places
<1>6. TypeOK'
  BY <1>1, <1>4, <1>5 DEF Inv, TypeOK, Places, Holding, Working
<1>7. OnceOnly'
  BY <1>1, <1>5 DEF Inv, OnceOnly
<1>8. Conversation'
  BY <1>1, <1>5 DEF Inv, Conversation
<1>9. ResultsWellFormed'
  BY <1>1 DEF Inv, ResultsWellFormed, WellFormed, Last
<1>10. Delivered'
  <2>1. \A i \in 1..(next - 1) : ReportOf(i)' = ReportOf(i) /\ Reports' = Reports
    BY <1>1 DEF ReportOf, Reports
  <2> QED BY <1>1, <1>4, <1>5, <2>1 DEF Inv, Delivered
<1> QED BY <1>6, <1>7, <1>8, <1>9, <1>10 DEF Inv

-----------------------------------------------------------------------------
LEMMA StepKinds ==
  ASSUME [Next]_vars
  PROVE  \/ \E w \in Workers : main = "run" /\ (Claim(w) \/ Work(w) \/ OnResult(w))
         \/ \E w \in Workers : main = "run" /\ (NoMoreTasks(w) \/ AskThrows(w) \/ LockCallback(w))
         \/ Join \/ WriteReports
         \/ UNCHANGED vars
  BY DEF Next, Worker, Work

LEMMA Step == Inv /\ [Next]_vars => Inv'
  BY StepKinds, ClaimStep, WorkStep, OnResultStep, QuietStep

\* The inductive invariant: whose a task is, how far its conversation has come, and which
\* results have been delivered.
THEOREM Invariant == Spec => []Inv
  BY InitInv, Step, PTL DEF Spec

\* Every variable keeps its type; no conversation exceeds its repair rounds.
THEOREM TypeCorrect == Spec => []TypeOK
<1>1. Inv => TypeOK
  BY DEF Inv
<1> QED BY <1>1, Invariant, PTL

\* The attempts of every result are ones the repair loop can have made (runner.cpp:280-315).
THEOREM ConversationsWellFormed == Spec => []ResultsWellFormed
<1>1. Inv => ResultsWellFormed
  BY DEF Inv
<1> QED BY <1>1, Invariant, PTL

\* When the reports are written every task has its result, and on_result has been given it
\* once (runner.cpp:336-354).
THEOREM EveryTaskIsReported == Spec => []EveryTaskReported
<1>1. Inv => EveryTaskReported
  <2> SUFFICES ASSUME Inv, main \in {"report", "done"}
               PROVE  /\ Len(reported) = NumTasks
                      /\ \A i \in 1..NumTasks : results[i] # <<>> /\ ReportOf(i) \in Reports
    BY DEF EveryTaskReported, ReportOf, Reports
  <2>1. \A w \in Workers : pc[w] = "exited"
    BY DEF Inv, Delivered
  <2>2. Holders = {} /\ next = NumTasks + 1
    BY <2>1, WorkersFinite DEF Inv, Delivered, Holders, Holding, Working
  <2>3. Cardinality(Holders) = 0
    BY <2>2, FS_EmptySet
  <2>4. Len(reported) \in Nat /\ Len(reported) + 0 = NumTasks
    BY <2>2, <2>3, JobsType DEF Inv, TypeOK, Delivered
  <2>5. \A i \in 1..NumTasks : results[i] # <<>> /\ ReportOf(i) \in Reports
    BY <2>2, JobsType DEF Inv, Delivered
  <2> QED BY <2>4, <2>5
<1> QED BY <1>1, Invariant, PTL

\* A stored result is never changed: the slots of report.results are disjoint, and a
\* callback reads what will be reported (runner.cpp:336-341).
THEOREM StoredForGood == Spec => ResultsStable
<1>1. Inv /\ [Next]_vars => \A i \in 1..NumTasks : results[i] # <<>> => results'[i] = results[i]
  <2> SUFFICES ASSUME Inv, [Next]_vars, NEW i \in 1..NumTasks, results[i] # <<>>
               PROVE  results'[i] = results[i]
    OBVIOUS
  <2>1. CASE \E w \in Workers : Work(w)
    <3>1. PICK w \in Workers : Work(w)
      BY <2>1
    <3>2. /\ pc[w] \in Working
          /\ Moved(w) \/ \E all \in Attempts : Stored(w, all) \/ Continued(w, all)
      BY <3>1, WorkEffect
    <3>3. i # task[w]
      BY <3>2 DEF Inv, OnceOnly
    <3> QED BY <3>2, <3>3 DEF Inv, TypeOK, Moved, Stored, Continued
  <2>2. CASE ~\E w \in Workers : Work(w)
    <3>1. results' = results
      BY <2>2, StepKinds DEF Claim, OnResult, NoMoreTasks, AskThrows, LockCallback, Join,
                             WriteReports, vars
    <3> QED BY <3>1
  <2> QED BY <2>1, <2>2
<1> QED BY <1>1, Invariant, PTL DEF Spec, ResultsStable

=============================================================================
