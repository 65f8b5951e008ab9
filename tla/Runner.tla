-------------------------------- MODULE Runner --------------------------------
(***************************************************************************)
(* eval::Runner and the command that starts it: a pool of threads takes    *)
(* tasks from a shared counter; each task is a conversation in which the   *)
(* model's solution is compiled, run and, if it fails, sent back for       *)
(* repair; a callback under a mutex hears of every result; the main thread *)
(* joins the pool and writes the reports.                                  *)
(*                                                                         *)
(* send() is what ChatSession says of it and run_process() what RunProcess *)
(* does. A text is known by whether it is UTF-8: the output of a compiler  *)
(* or a test need not be, and truncate_log() and substr() cut through      *)
(* characters; json::dump() throws on what is not. Times are left out.     *)
(***************************************************************************)
EXTENDS Integers, Sequences, FiniteSets

CONSTANTS
    NumTasks,        \* tasks.size()
    jobs,            \* RunnerOptions::jobs, any int
    repair_rounds,   \* RunnerOptions::repair_rounds, any int
    Settings,        \* the ways the command may have been called
    Texts            \* whether texts are UTF-8: a subset of BOOLEAN

ASSUME RunnerAssumption ==
    /\ NumTasks \in Nat \ {0}
    /\ jobs \in Int /\ repair_rounds \in Int
    /\ Settings \subseteq [use_reference : BOOLEAN, has_reference : BOOLEAN,
                          has_client : BOOLEAN, keep_workdirs : BOOLEAN,
                          relative_root : BOOLEAN]
    /\ Texts \subseteq BOOLEAN /\ Texts # {}

VARIABLES
    options,   \* RunnerOptions, whether there is a client and tasks have a reference.hpp
    main,      \* the main thread: "run", "report", "done", or "terminated"
    next,      \* the shared counter
    pc,        \* where each worker is
    task,      \* the task it works on
    round,     \* the round of the repair loop
    attempts,  \* result.attempts of that task
    results,   \* report.results, by task; <<>> until it is assigned
    workdirs,  \* tasks whose build directory exists
    mutex,     \* holder of callback_mutex, or 0
    reported   \* history: what on_result was given

locals == <<options, task, round, attempts>>
vars == <<main, next, pc, locals, results, workdirs, mutex, reported>>

Outcomes == {"kPass", "kCompileError", "kTestFailure", "kTimeout", "kCrash", "kNoCode",
             "kApiError", "kHarnessError"}

\* What ends a task, whatever rounds are left.
Final == {"kPass", "kHarnessError", "kApiError"}

RepairRounds == IF repair_rounds < 0 THEN 0 ELSE repair_rounds
Jobs == LET n == IF jobs < 1 THEN 1 ELSE jobs IN IF n < NumTasks THEN n ELSE NumTasks
Workers == 1..Jobs

Attempt(r, outcome, utf8, ran) == [round |-> r, outcome |-> outcome, utf8 |-> utf8, ran |-> ran]
Last(s) == s[Len(s)]

Init ==
    /\ options \in Settings
    /\ main = "run"
    /\ next = 1
    /\ pc = [w \in Workers |-> "claim"]
    /\ task = [w \in Workers |-> 0]
    /\ round = [w \in Workers |-> 0]
    /\ attempts = [w \in Workers |-> <<>>]
    /\ results = [i \in 1..NumTasks |-> <<>>]
    /\ workdirs = {}
    /\ mutex = 0
    /\ reported = <<>>

Goto(w, l) == pc' = [pc EXCEPT ![w] = l]

\* run_task() returns to the worker: the directory goes, unless it is kept, and the result
\* is stored.
Finish(w, all) ==
    /\ results' = [results EXCEPT ![task[w]] = all]
    /\ workdirs' = IF options.keep_workdirs THEN workdirs \cup {task[w]} ELSE workdirs \ {task[w]}
    /\ attempts' = [attempts EXCEPT ![w] = all]
    /\ Goto(w, "report")
    /\ UNCHANGED round

\* An attempt ends the repair loop. (Mutant: only the rounds do.)
DoneWhenExhausted(outcome, r) == r = RepairRounds
Done(outcome, r) == outcome \in Final \/ r = RepairRounds

Record(w, a) ==
    LET all == Append(attempts[w], a)
    IN IF options.use_reference \/ Done(a.outcome, round[w])
         THEN Finish(w, all)
         ELSE /\ attempts' = [attempts EXCEPT ![w] = all]
              /\ round' = [round EXCEPT ![w] = @ + 1]
              /\ Goto(w, "ask")
              /\ UNCHANGED <<results, workdirs>>

-----------------------------------------------------------------------------
(* A worker.                                                               *)

\* Mutant of Claim: every worker counts for itself.
ClaimOwn(w) ==
    /\ pc[w] = "claim"
    /\ task[w] < NumTasks
    /\ task' = [task EXCEPT ![w] = @ + 1]
    /\ round' = [round EXCEPT ![w] = 0]
    /\ attempts' = [attempts EXCEPT ![w] = <<>>]
    /\ Goto(w, "prepare")
    /\ UNCHANGED <<options, main, next, results, workdirs, mutex, reported>>

\* next.fetch_add(1)
Claim(w) ==
    /\ pc[w] = "claim"
    /\ next <= NumTasks
    /\ next' = next + 1
    /\ task' = [task EXCEPT ![w] = next]
    /\ round' = [round EXCEPT ![w] = 0]
    /\ attempts' = [attempts EXCEPT ![w] = <<>>]
    /\ Goto(w, "prepare")
    /\ UNCHANGED <<options, main, results, workdirs, mutex, reported>>

\* Mutant of NoMoreTasks: off by one.
NoMoreTasksEarly(w) ==
    /\ pc[w] = "claim"
    /\ next >= NumTasks
    /\ Goto(w, "exited")
    /\ UNCHANGED <<main, next, locals, results, workdirs, mutex, reported>>

NoMoreTasks(w) ==
    /\ pc[w] = "claim"
    /\ next > NumTasks
    /\ Goto(w, "exited")
    /\ UNCHANGED <<main, next, locals, results, workdirs, mutex, reported>>

\* The directory and its files are there. A task without a reference, and a runner
\* without a client, have an attempt to say so.
Prepare(w) ==
    /\ pc[w] = "prepare"
    /\ IF IF options.use_reference THEN options.has_reference ELSE options.has_client
         THEN /\ workdirs' = workdirs \cup {task[w]}
              /\ Goto(w, IF options.use_reference THEN "compile" ELSE "ask")
              /\ UNCHANGED <<round, attempts, results>>
         ELSE Finish(w, <<Attempt(0, "kHarnessError", TRUE, FALSE)>>)
    /\ UNCHANGED <<options, main, next, task, mutex, reported>>

\* They are not: run_task() returns at once, and what is there of them stays.
PrepareFails(w) ==
    /\ pc[w] = "prepare"
    /\ LET all == <<Attempt(0, "kHarnessError", TRUE, FALSE)>>
       IN /\ results' = [results EXCEPT ![task[w]] = all]
          /\ attempts' = [attempts EXCEPT ![w] = all]
    /\ \E made \in BOOLEAN : workdirs' = IF made THEN workdirs \cup {task[w]} ELSE workdirs
    /\ Goto(w, "report")
    /\ UNCHANGED <<options, main, next, task, round, mutex, reported>>

\* The message is the task's prompt, or says what was wrong with the last attempt.
Sendable(w) == attempts[w] # <<>> => Last(attempts[w]).utf8

\* chat.send(): the call fails, the reply has no code, or it has.
Ask(w) ==
    /\ pc[w] = "ask"
    /\ Sendable(w)
    /\ \/ \E utf8 \in Texts : Record(w, Attempt(round[w], "kApiError", utf8, FALSE))
       \/ \E utf8 \in Texts : Record(w, Attempt(round[w], "kNoCode", utf8, FALSE))
       \/ Goto(w, "compile") /\ UNCHANGED <<round, attempts, results, workdirs>>
    /\ UNCHANGED <<options, main, next, task, mutex, reported>>

\* json::dump() throws in send(): nothing between there and the thread catches it.
AskThrows(w) ==
    /\ pc[w] = "ask"
    /\ ~Sendable(w)
    /\ main' = "terminated"
    /\ UNCHANGED <<next, pc, locals, results, workdirs, mutex, reported>>

\* evaluate(), up to the compiler's exit: solution.hpp cannot be written, the process or
\* the compiler cannot be started, it fails (or is late), or there is a binary.
Compile(w) ==
    /\ pc[w] = "compile"
    /\ \/ Record(w, Attempt(round[w], "kHarnessError", TRUE, FALSE))
       \/ \E utf8 \in Texts : Record(w, Attempt(round[w], "kCompileError", utf8, FALSE))
       \/ Goto(w, "test") /\ UNCHANGED <<round, attempts, results, workdirs>>
    /\ UNCHANGED <<options, main, next, task, mutex, reported>>

\* evaluate(), the rest: argv[0] is the binary's path from here, looked up from inside
\* workdir. A child whose exec() fails says so and exits with 127, as a test might.
RunTests(w) ==
    /\ pc[w] = "test"
    /\ \/ Record(w, Attempt(round[w], "kHarnessError", TRUE, FALSE))
       \/ /\ ~options.relative_root
          /\ Record(w, Attempt(round[w], "kPass", TRUE, TRUE))
       \/ \E utf8 \in Texts, outcome \in {"kTestFailure", "kTimeout", "kCrash"} :
             /\ options.relative_root => outcome = "kTestFailure"
             /\ Record(w, Attempt(round[w], outcome, utf8, ~options.relative_root))
    /\ UNCHANGED <<options, main, next, task, mutex, reported>>

\* std::lock_guard lock(callback_mutex)
LockCallback(w) ==
    /\ pc[w] = "report"
    /\ mutex = 0
    /\ mutex' = w
    /\ Goto(w, "callback")
    /\ UNCHANGED <<main, next, locals, results, workdirs, reported>>

\* Mutant of OnResult: the mutex is not released.
OnResultLocked(w) ==
    /\ pc[w] = "callback"
    /\ reported' = Append(reported, [task |-> task[w], attempts |-> results[task[w]]])
    /\ Goto(w, "claim")
    /\ UNCHANGED <<main, next, locals, results, workdirs, mutex>>

OnResult(w) ==
    /\ pc[w] = "callback"
    /\ reported' = Append(reported, [task |-> task[w], attempts |-> results[task[w]]])
    /\ mutex' = 0
    /\ Goto(w, "claim")
    /\ UNCHANGED <<main, next, locals, results, workdirs>>

Worker(w) ==
    /\ main = "run"
    /\ \/ Claim(w) \/ NoMoreTasks(w) \/ Prepare(w) \/ PrepareFails(w) \/ Ask(w) \/ AskThrows(w)
       \/ Compile(w) \/ RunTests(w) \/ LockCallback(w) \/ OnResult(w)

-----------------------------------------------------------------------------
(* The main thread.                                                        *)

Join ==
    /\ main = "run"
    /\ \A w \in Workers : pc[w] = "exited"
    /\ main' = "report"
    /\ UNCHANGED <<next, pc, locals, results, workdirs, mutex, reported>>

\* to_markdown(), and with --report-json to_json(report).dump(2), which throws on a
\* detail that is not UTF-8.
WriteReports ==
    /\ main = "report"
    /\ \E report_json \in BOOLEAN :
           LET writable == \A i \in 1..NumTasks : \A j \in 1..Len(results[i]) : results[i][j].utf8
           IN  main' = IF report_json /\ ~writable THEN "terminated" ELSE "done"
    /\ UNCHANGED <<next, pc, locals, results, workdirs, mutex, reported>>

Next == (\E w \in Workers : Worker(w)) \/ Join \/ WriteReports

Spec == Init /\ [][Next]_vars

\* Threads are scheduled; send() and run_process() return.
FairSpec == Spec /\ (\A w \in Workers : WF_vars(Worker(w))) /\ WF_vars(Join \/ WriteReports)

-----------------------------------------------------------------------------
Attempts == Seq([round : Nat, outcome : Outcomes, utf8 : BOOLEAN, ran : BOOLEAN])
TypeOK ==
    /\ options \in Settings
    /\ main \in {"run", "report", "done", "terminated"}
    /\ next \in 1..(NumTasks + 1)
    /\ pc \in [Workers -> {"claim", "prepare", "ask", "compile", "test", "report", "callback",
                           "exited"}]
    /\ task \in [Workers -> 0..NumTasks]
    /\ round \in [Workers -> 0..RepairRounds]
    /\ attempts \in [Workers -> Attempts]
    /\ results \in [1..NumTasks -> Attempts]
    /\ workdirs \subseteq 1..NumTasks
    /\ mutex \in Workers \cup {0}
    /\ reported \in Seq([task : 1..NumTasks, attempts : Attempts])

\* The conversation that a result tells of is one the repair loop can have had: rounds in
\* order, only the last attempt final, and no round given up that was not used.
WellFormed(all) ==
    /\ \A j \in 1..Len(all) : /\ all[j].round = j - 1
                              /\ j < Len(all) => all[j].outcome \notin Final
    /\ Last(all).outcome \in Final \/ options.use_reference \/ Len(all) = RepairRounds + 1
ResultsWellFormed == \A i \in 1..NumTasks : results[i] # <<>> => WellFormed(results[i])

\* No two workers have the same task, so a result that has been stored is never changed,
\* under the callback that reads it or after.
ResultsStable == [][\A i \in 1..NumTasks : results[i] # <<>> => results'[i] = results[i]]_vars

\* When the reports are written every task has its result, and on_result has been given
\* each of them once, as it is in the report.
EveryTaskReported ==
    main \in {"report", "done"} =>
        /\ Len(reported) = NumTasks
        /\ \A i \in 1..NumTasks :
              /\ results[i] # <<>>
              /\ [task |-> i, attempts |-> results[i]] \in {reported[k] : k \in 1..Len(reported)}

\* No thread waits for ever for a task, the mutex or the others.
RunEnds == <>(main \in {"done", "terminated"})

\* README.md:36: "Each attempt is classified as pass, (...) api_error or harness_error": no
\* attempt of a task ends the run instead.
AttemptsAreClassified == [][main = "run" => main' # "terminated"]_vars

\* runner.hpp:26: "kHarnessError, // local problem (filesystem, compiler missing, ...)": an
\* attempt whose tests never ran, though it was compiled, is not a failure of its tests.
TestFailuresHaveRun ==
    \A i \in 1..NumTasks : \A j \in 1..Len(results[i]) :
        results[i][j].outcome = "kTestFailure" => results[i][j].ran

=============================================================================
