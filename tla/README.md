# gemini-cpp in TLA+

`gemini-cpp` is a C++20 client for the Gemini API (`include/gemini`, `src/*.cpp`), a command-line
program on top of it (`apps/main.cpp`), and a benchmark that asks a model for C++ code, compiles it,
runs hidden tests and lets the model repair what failed (`include/gemini/eval`, `src/eval`, `tasks/`).
This directory holds its TLA+ models, the TLC configurations that check them on small instances, and
theorems about them that TLAPS has checked. Paths in comments are relative to the repository.

1. [The system](#the-system)
2. [The modules](#the-modules)
3. [The runs](#the-runs)
4. [Fairness](#fairness)
5. [What is proved](#what-is-proved)
6. [Where code and documentation disagree](#where-code-and-documentation-disagree)
7. [What is not modelled](#what-is-not-modelled)
8. [The plan](#the-plan)

Run a model with `tlc -config MCClient.cfg MCClient`, check a proof with `tlapm ClientProofs.tla`.
`PROJECT.json` maps every definition to the lines it stands for, and lists the runs, the hazards and
the theorems.

## The system

| Component | State | Operations | What makes it correct |
|---|---|---|---|
| **Client** `client.{hpp,cpp}` | configuration; five atomic counters shared by all threads; a jitter engine under a mutex | `generate`, `stream`, `count_tokens`, `list_models`, each a loop of attempts (`with_retry`); `metrics` | A stream never shows a piece twice; a stopped stream is a success; a list of models is complete; counters agree; every call returns |
| **Errors** `error.{hpp,cpp}` | none | `retryable`, `describe` | Only transient errors are tried again |
| **CurlTransport** `curl_transport.*` | a curl handle per thread | `perform`, with or without a body callback | The total timeout or the stall detection ends every transfer; only a 2xx body reaches the stream's parser |
| **Wire format** `serialization.*`, `json.*` | none | request and response (de)serialisation, `parse_api_error` | Signatures and calls survive the round trip; the category of an error is right |
| **Types and merging** `types.*` | none | `merge`, `append_part`, accessors | The merged chunks are the answer |
| **SseParser** `sse.*` | line and event buffers | `feed`, `finish` | Events do not depend on how the stream is cut |
| **RetryPolicy** `retry.*` | none | `delay_for` | Delays grow, are capped, respect the server's hint |
| **ChatSession** `chat.*` | `history_`, `usage_` | `send` with its tool loop, `reset` | All or nothing; well-formed requests; bounded rounds |
| **ToolRegistry** `tools.*` | a map of handlers | `add`, `declarations`, `invoke` | Every call gets one response |
| **run_process** `eval/process.*` | a global mutex, a pipe, a child | `run_process` | Returns, kills the whole tree, loses no output, leaks no descriptor |
| **Runner** `eval/runner.*` | a shared task counter, result slots, a callback mutex | `run`, `run_task`, `evaluate` | Every task once, every attempt classified, the repair loop stops when it should |
| **Code extraction, tasks, reports** `eval/{code_extract,task,report}.*` | none | pure functions and file reading | – |
| **Command line** `apps/main.cpp`, `cli_args.*` | a SIGINT flag | `generate`, `chat`, `count`, `models`, `eval` | – |
| **Logging** `log.*` | two atomics, one mutex | `log` | Lines are not mixed |
| **Benchmark tasks** `tasks/*/reference.hpp` | one data structure or parser each: SPSC queue, thread pool, LRU cache, token bucket, duration and version parsers | their interfaces | What `task.json` promises of them |

How they interact. The REPL and every worker of the runner own a `ChatSession`; all sessions share one
`Client` by reference, and so its counters and its transport. `send()` calls `generate` or `stream`
synchronously; a stream calls back through the transport, the SSE parser and the client into the
session's `on_chunk`, whose `false` travels the same way back and makes curl abort the transfer. The
runner's workers share one atomic counter of tasks, write disjoint slots of the report and call
`on_result` under a mutex; each attempt calls `run_process` twice (compiler, test binary), and all
those calls share one spawn mutex and the process's table of descriptors.

Where it is hard. A retry after a part of the answer was shown; two scopes of state in a stream
(attempt and call); errors in the middle of a tool loop; exceptions that pass the code that undoes
things; a child that is late, closes its output, forks, or floods the pipe; `fork()` in one thread
while another is between two system calls; process ids that are used again; text from a compiler that
is not UTF-8; a lock-free queue whose threads read old values. `PROJECT.json` lists each of these
hazards at its line with the properties that would notice.

## The modules

| Module | Stands for | Kind |
|---|---|---|
| `ApiError` | `error.cpp`, `wire::parse_api_error` | operators |
| `ClientPromise` | what callers may rely on, the network left out | abstract specification |
| `Client` | `client.cpp`, `curl_transport.cpp` as it meets it | implements `ClientPromise` |
| `ChatSession` | `chat.cpp`, `ToolRegistry::invoke` as it meets it | built on `ClientPromise` |
| `RunProcess` | one `run_process()` beside its child, the pipe and the clock | state machine |
| `Spawn` | several `run_process()` in one process: descriptors, locks, process ids | state machine |
| `Runner` | `runner.cpp` and the end of `cmd_eval()` | state machine |
| `TaskPool` | what `tasks/thread-pool/task.json` asks for | abstract specification |
| `ThreadPool` | `tasks/thread-pool/reference.hpp` | implements `TaskPool` |
| `BoundedQueue` | what `tasks/spsc-queue/task.json` asks for | abstract specification |
| `SpscQueue` | `tasks/spsc-queue/reference.hpp` | implements `BoundedQueue` |
| `Repl` | `cmd_chat()` of `main.cpp` and the handler of SIGINT | built on `ChatSession` |
| `Sse` | `sse.cpp` | state machine |
| `Algorithms` | the parts below that compute a result from their input: an input that grows, and the properties that are proved | state machine |
| `Types` | `types.cpp`: responses, their readers, merging | operators |
| `Wire` | `serialization.cpp`: parts and turns to JSON and back | operators |
| `Backoff` | `retry.cpp` and the hints read by `serialization.cpp` | operators |
| `Expression` | the parser of the tool `evaluate_expression` in `tools.cpp` | operators |
| `CodeExtract` | `eval/code_extract.cpp` | operators |
| `CliArgs` | `apps/cli_args.hpp` | operators |
| `Listing` | what properties say of a selection that keeps its order | operators |
| `Duration`, `Semver` | `tasks/parse-duration/reference.hpp`, `tasks/semver-compare/reference.hpp` | operators |
| `LruCache`, `TokenBucket` | `tasks/lru-cache/reference.hpp`, `tasks/token-bucket/reference.hpp` | state machines |
| `MC*` | small instances; `MCProcess` is that of `RunProcess` and `Spawn`, `MCAlgorithms` that of all the operators, of the SSE parser, the cache, the bucket and the SPSC queue | for TLC |
| `*Proofs` | theorems | for TLAPS |

Every constant's assumptions are named (`ClientAssumption`, ...), and every bound that exists only
for TLC is called a bound where it is declared. Definitions whose comment starts with "Mutant" are
plausible mistakes in the definition that follows them; no specification uses them. They exist to show that
each property notices some mistake.

### Client and ClientPromise

A thread `c` is at `pc[c]`; the other variables have the names of the locals of `stream()`,
`list_models()` and `with_retry()`. `Invoke` is the first counter; `Reject` validation; `Throw` a
`json::dump()` that throws; `Accept` the entry into `with_retry`; `Attempt` the head of its loop with
the second counter. What the server can do is `Answer`, `Malformed`, `Chunk`, `EndOfStream`, `Refuse`,
`Break`, `FallSilent`, `TimeOut`; each settles on the attempt's `result`, in the order in which the
code tests for a parse error, a stop by the callback, an HTTP error and a transport error.
`Backoff`, `Wake`, `Return` and `NextPage` are the decision, with the counters for retries and
failures. A step touches at most one shared counter, so any interleaving of their updates is a
behaviour. A chunk is where it comes from – attempt, place, kind – and no text, which is
enough to see whether something is shown twice, mixed up or lost. A page is a datum too. Token and
latency totals, delays and the text of errors are left out.

`ClientPromise` has a caller in one of three phases who is shown pieces 1, 2, 3, ... and gets back either
exactly those or an error; a caller who stopped the stream gets an error only for a blocked prompt. The
refinement mapping hides the attempts: `shown` is the callback's history by place, `stopped` is
`caller_stopped`.

### ChatSession

The session is the one caller of an instance of `ClientPromise`, whose actions are taken jointly with
its own: `Ask` with `Call`, `Chunk` with `Show`, `Reply` and `NoCandidates` with `ReturnOk`, `Fail` and
`Raise` with `ReturnErr`. Since `Client` implements `ClientPromise`, what is shown here of the session
is not about a client of its own invention. The history is a sequence of turns; a turn is its role and the number of
calls or results in it. `Rollback` is the lambda of `send()`; `Raise` is every exception that unwinds
past it: a request that cannot be encoded, a callback, a handler that throws something else than
`std::exception`, an observer. `raised` remembers such an exception until `reset()`.

### Repl

`Repl` composes `ChatSession` with the loop that reads lines (`Line`, `Reset`, `Quit`) and with the
handler `on_sigint`, which may run between any two steps. `stdout_printer` is the session's `Chunk` with
the printer's answer to it: stop if the flag is set. `TakeUp` clears the flag where a line is taken up. Blank lines, `/usage`
and `/history` change nothing and are left out. `repl` is `"terminated"` once an exception has left
`cmd_chat()`, which nothing catches. `MCChatSession` lets the session be used
either by any program (`repl = "none"`: any order of `send` and `reset`, also after an exception) or by the REPL.

### RunProcess and Spawn

`RunProcess` starts after the fork and has one parent, whose steps are its system calls (`check` the
deadline, `poll`, `read`, `waitpid`, kill), a child that writes, closes its output, forks a process
into its group or out of it, exits or hangs, and a clock that may tick between any two steps. What the
child has started may outlive it, with the pipe still its output or redirected (`StrayRedirects`), so
the end of the file may come with a process of the group still running. `WaitFails` is the error of
`waitpid()`, which is returned with nobody killed; `StillRunning` and `Pause` are the look at a child that
runs and the look at the deadline, between which the child may end. Nothing bounds what the tree writes; `MaxWrites`
bounds only what the history `written` counts. Output is counted in pieces of one `read()`; the start marker is one of them, so a marker cut in two by `read()` is
out of sight.

`Spawn` looks at the same function from the other side: several threads, each between the lock, `pipe()`,
`FD_CLOEXEC`, `fork()` and the closing of its write end; children that hold a copy of every open write
end until `exec()`; process ids, few enough to be used again. `ReadEof` is enabled when nobody holds
the write end; `LoseChild` is the error of `waitpid()`. Here a child's output and clock are a choice. A call that was late kills its group
in whichever loop it is.

### Runner

`options` is one of the ways the command may have been called, fixed at the start. Each worker goes
`claim`, `prepare`, then `ask`, `compile`, `test` for every round, `report`, `callback`. `send()` and
`run_process()` are what the other modules say of them: they return, with a result that is chosen. A
text is known by whether it is UTF-8, because that is what decides between a repair prompt and an
exception that nobody catches (`AskThrows`), and between a report and none (`WriteReports`). An
attempt carries `ran`, whether its tests were executed at all. `workdirs` are the directories that are left: each path
out of `run_task()` removes its own, or keeps it (`Finish`, `PrepareFails`). Whether a JSON report was asked for is open.

### ThreadPool and TaskPool

What the mutex protects is touched under it only, so a thread's way from lock to unlock, or to a wait,
is one step: `Take`, `Wait`, `Exit` and `Finish` are the critical sections of `worker_loop()`,
`Enqueue` that of `submit()`, which a caller (`Submit`) or a running task (`SubmitFromTask`) enters.
The notifications of `submit()` and of the destructor come after the unlock and are steps of their
own, between which anything may happen; the one of `idle_cv_` is made under the lock and is part of `Finish`.
A waiting thread may also wake up unasked (`WakeWorker`, `WakeCaller`). That nobody uses the pool while it
is destroyed (`Usable`) is the callers' duty. In the refinement a task is queued, running or done
by its future and the queue, and the destructor is `closing` from the flag to the last join.

### SpscQueue and BoundedQueue

Every load, construction, destruction and store is a step. Counters are unbounded in the model and
taken modulo `Modulus` where the code uses them, so that history can be talked about. An acquire load
returns any value between the last one the thread knows of and the current one; `views` records which
tail a stored head had seen, which is what release and acquire promise a third thread. The refinement
maps the slots between the counters to the abstract queue, with the element that is in
`try_pop()`'s hands first.

### Sse

The parser's members are the variables; `feed` takes a piece of up to `MaxPiece` characters and reads every
line that it completes, `finish` the rest. The loop of `feed` over the buffer is a function of its rounds (`Rounds`), each of which reads a line
or leaves everything as it is. The handler says stop at its `limit`-th event. A field name is one character, so a cut inside a
name is a cut beside it; that character, a colon, a space, a carriage return and a newline are all that the code tells apart. What
a stream says is defined a second time, character by character and with no buffer (`Reading`, `Meaning`), and the
properties compare the two.

### The algorithms

Most of these modules have no variables: each translates functions of the code as operators and states next to them,
as operators on an input, what they should yield. In `Algorithms`, an input of one of them (`subject`) grows by one element
after the other, and the invariants look at every prefix; it has the parts that theorems are about, and says in
`ElementsAssumption` what their inputs are made of. `MCAlgorithms` adds the parser whose module uses `RECURSIVE`, `Expression`, and gives
each part its elements. `Sse`, `LruCache` and `TokenBucket` are state
machines, with a call as an action; `MCAlgorithms` runs each beside an input that stays empty (`subject` is `"sse"`, `"cache"` or
`"bucket"`), so every behaviour of `MCSpec` is one of `InputSpec`, of `SseSpec`, of `CacheSpec` and of `BucketSpec`; and, as a subject
of its own (`"ring"`), the threads of `SpscQueue`, with its fairness (`RingFairness`).

* `Types`: a text is a sequence of words, so that gluing and losing can be told apart. The three strings of a
  response that take the latest value are one; usage has its four counts, of which two decide whether it is taken over. Each of the three loops of a merge, over chunks, over candidates and over parts,
  is a function of its rounds.
* `Wire`: a JSON value is its type and what it holds; an object is the keys it has. A field of the wrong type is
  skipped where the code tests the type and an exception where it does not. `Recognised` is what `parse_part()` goes by, the name of a
  field together with its type; `PartsSurvive` speaks of that, and a part of a known kind that is not recognised is what
  `MalformedPartsRefused` is about.
* `Backoff`: delays are whole milliseconds; `Fraction` and `Second` scale the parts of a hint down; the
  random number is any one in the range of the jitter.
* `Expression`: over tokens, in place of a number the tree it is computed by; the errors of the arithmetic are left
  out. `kMaxDepth` is 4, so that the limit is met.
* `CodeExtract`: over lines, each as long as another; indentation and the spelling of a language are left out: "cpp" is any of
  the eight names of C++, "py" any other word, "braced" an info string such as `{x}` that leaves no language and yet closes no block.
* `CliArgs`: words, options and options with an inline value; a mistake is an answer of its own. An option whose value is the
  next argument waits for it (`pending`), so that each round reads one argument.
* `LruCache`: the list and the index apart, as they are two structures that have to agree.
* `TokenBucket`: whole tokens and ticks, a clock that may go back.
* `Duration`: the width of the result, the units, the digits and how many of a fraction are read are parameters, small enough for
  overflow on each path, and a fraction that is not read to its end, to happen in six characters. The three loops of the function are
  a function of its rounds (`Rounds`) and of where a run of characters ends (`Run`). What a text means is said by its places: a component
  ends at each unit and starts where the one before has ended.
* `Semver`: versions once parsed; identifiers are numbers or words by their place in the alphabet.

## The runs

| Run | Instance and bounds | Checks |
|---|---|---|
| `client` | 2 threads, 2 calls in all, 2 attempts, 2 pages, 2 chunks, one status each that succeeds, is final, is tried again | `ShownIsAggregate`, `MetricsConserved`, `ModelsComplete`, `Implements`, `EveryCallReturns` |
| `chat` | a program or the REPL; 2 tool rounds, 2 calls per reply, 2 chunks, `send()` from histories shorter than 3 turns, 4 error codes, exceptions everywhere | `RequestWellFormed`, `AllOrNothing`, `CutByItsOwnCtrlC`, `EverySendReturns` |
| `chat_rollback` | the same | `RolledBack` is violated |
| `process` | one call: timeout 2, grace 1, a marker, 2 pieces of output kept, a pipe of 2, any number of pieces written; or many: 2 threads, 2 calls each, 2 process ids | `NothingLeft`, `BudgetSpent`, `OutputComplete`, `OneCallReturns`; `NoLeak`, `EofArrives`, `EveryCallReturns` |
| `process_endless` | one call, the same | `RunEnds` is violated |
| `runner` | 2 workers, 2 tasks, 1 repair round, three ways to call the command, any texts | `ResultsWellFormed`, `EveryTaskReported`, `ResultsStable`, `RunEnds` |
| `runner_text` | a model, any texts | `AttemptsAreClassified` is violated |
| `runner_relative` | `--use-reference` with a relative work directory | `TestFailuresHaveRun` is violated |
| `pool` | 2 workers, 2 callers, 3 tasks | `Accounted`, `Awake`, `Implements`, `EveryTaskRuns`, `EveryCallReturns` |
| `algorithms` | inputs up to the lengths of `Bound` | `StreamAddsUp` (4 chunks), `PartsSurvive` (3 parts), `ExpressionParsed` (6 tokens), `ReplyYieldsTheSource` (5 lines), `DelayWithinBounds` (every policy and error), `ArgumentsHaveOnePart` (5 arguments), `CutsDoNotMatter` and `OnlyTheUnfinishedIsKept` (7 characters in pieces of up to 4, a handler that stops at its first or second event), `CacheKeepsTheMostRecent` (6 operations), `BucketKeepsTheRate` (4), `DurationExactOrNothing` (6 characters), `VersionsOrdered` (3 versions); the SPSC queue, of capacity 2 with counters modulo 4 and 6 pushes: `SizeNotNegative`, `Implements`, `RingDelivers` |
| `part_dropped` | turns of the same parts | `MalformedPartsRefused` is violated |
| `duration_truncated` | durations of 6 characters; one digit of a fraction is read, and of two units one divides ten | `FractionsTruncated` is violated |

Why these are enough. *client*: everything a thread does to another goes through the counters, so two threads show
every interleaving of two updates, and both calls can also be made by one thread in sequence; two
attempts have a first that is retried and a last that is not; two pages have a page that leads on and
one that ends the list, and each may be retried; two chunks have a first, after which a retry would be wrong, and
a second that could be shown out of place. *chat*: two rounds have a round in the middle and a last
one, after which the loop gives up; a history of two turns is one that a rollback must not touch;
`MaxUsage` cuts sequences of sends that keep failing, not the length of one; Ctrl-C comes before, between and after
the chunks of each request of the tool loop, at the prompt, and during an earlier line. *process*: grace and timeout differ, so
that charging one for the other shows; the tree may write for ever, and the four pieces that are counted are more than fit into
the output, or into the pipe, after which `OutputComplete` no longer speaks; all orders of exit, hangup, redirection, marker, deadline and last output
occur. Of many calls, a leak takes one thread that forks and one that has a pipe open; the second call of a thread meets the first one's
children. *runner*: with two workers and two tasks a worker may do both, and finish first or
last; one repair round has a first, a last, and an end before the last. *pool*: two workers are a last and another that is busy
or asleep, two callers one that submits and one that waits or destroys; three tasks keep both
workers busy with one in the queue, and a task that submits has company. *algorithms*: each bound is the length at
which every branch is taken and the mistake that is its mutant shows; two fragments can be glued, kept
apart, or parted by a third, and four chunks do it in two candidates; a reply of five lines is a block with a fence
inside it, or two blocks; two entries and six operations evict twice; a total order is a property of
three; seven characters of a stream hold two events, or one of two lines and the start of another, with carriage returns, and pieces
of up to four hold several newlines and end anywhere; 6 pushes through a ring of 2 modulo 4 wrap the counters
around and reuse each slot three times. Of `size_approx()` only the lower half is a property of a passing run: the upper one is not kept (below).

The type invariants (`TypeOK`) are theorems, so the runs do not list them. They also bound what the code
bounds: `i` stays below `max_attempts`, `round` within `repair_rounds`, output within `max_output_bytes`.

`CHECK_DEADLOCK FALSE` stands in every configuration because each of these systems may stop: callers
stop calling, a call is over, the tasks are done. That nobody gets stuck before is what the liveness
properties say.

## Fairness

* `Client`: weak fairness of each thread's steps, which include `TimeOut`: threads are scheduled, a
  sleeper wakes, and curl has a total timeout on unary requests and stall detection on streams
  (`curl_transport.cpp:130-137`). Nothing is assumed of the server. Nobody is forced to call. A
  stream of chunks without end is cut by `MaxChunks`; a server that sends only
  comments for ever would keep stall detection quiet, and is not modelled.
* `ChatSession` and `Repl` (`MCFairSpec`): weak fairness of the session's own steps, of which the client's answer is one
  (`EveryCallReturns` of `Client`); tools return. Nothing is assumed of the user.
* `RunProcess`: the parent runs and time passes. Nothing is assumed of the child, so a call need not return: `OneCallReturns`
  says that it returns, or is in the inner loop for good with a tree that never stops writing; `RunEnds`, that it returns, is
  refuted (`process_endless`).
* `Spawn`: threads run, and their deadlines pass; a child reaches its program, which may run for ever.
* `Runner`: workers are scheduled and the main thread joins them; `send()` and `run_process()` return.
* `ThreadPool`: threads get the mutex, callers go on with the call they are in, tasks return.
  Nobody has to submit, to wait, to destroy, or to wake up unasked.
* `SpscQueue`: both threads run and keep trying, and a load repeated for ever sees the newest value in
  the end. The third thread has no fairness.

## What is proved

For every value of the constants that their assumptions allow, with no bound on threads, calls, chunks, rounds,
tasks, characters or lines:

| Theorem | In | Says |
|---|---|---|
| `TypeCorrect` | `ClientProofs` | `Spec => []TypeOK` |
| `Invariant` | | `StreamInv` is inductive with the types |
| `NeverShownTwice` | | `Spec => []ShownIsAggregate` |
| `CountersAddUp` | | `Spec => []MetricsConserved` |
| `ClientKeepsItsPromise` | | `Client` implements `ClientPromise` |
| `ListIsComplete` | | `Spec => []ModelsComplete` |
| `SendIsAllOrNothing` | `ChatProofs` | `Spec => AllOrNothing` |
| `RequestsWellFormed` | | well-formed requests, bounded rounds |
| `ReplIsASession` | | `ReplSpec => Spec`: the REPL uses the session as a program may |
| `LineIsAllOrNothing` | | `ReplSpec => AllOrNothing` |
| `CtrlCIsForTheReply` | | `ReplSpec => CutByItsOwnCtrlC` |
| `TypeCorrect` | `ProcessProofs` | `Spec => []TypeOK` |
| `NothingIsLeft` | | `Spec => []NothingLeft`: the group is dead when the call returns, save where it returns the error of `waitpid()` before it was late |
| `KilledWhenLate` | | `Spec => []BudgetSpent` |
| `OutputIsComplete` | | `Spec => []OutputComplete` |
| `TypeCorrect` | `RunnerProofs` | `Spec => []TypeOK` |
| `ConversationsWellFormed` | | `Spec => []ResultsWellFormed` |
| `EveryTaskIsReported` | | `Spec => []EveryTaskReported` |
| `StoredForGood` | | `Spec => ResultsStable` |
| `NoForeignPipe` | `SpawnProofs` | `SpawnSpec => [](SpawnTypeOK /\ NoLeak)` |
| `TasksAccounted` | `PoolProofs` | `Spec => [](TypeOK /\ Accounted)` |
| `NoLostWakeup` | | `Spec => []Awake` |
| `PoolKeepsItsPromise` | | `ThreadPool` implements `TaskPool` |
| `CountersInOrder` | `TaskProofs` | the window is kept, the size never negative |
| `RingIsAQueue` | | `SpscQueue` implements `BoundedQueue` |
| `CacheIsLru` | | `CacheSpec => []CacheKeepsTheMostRecent` |
| `BucketKeeps` | | `BucketSpec => []BucketKeepsTheRate` |
| `DurationsHold` | | `InputSpec => []DurationExactOrNothing` |
| `StreamsAreRead` | `AlgorithmProofs` | `SseSpec => []CutsDoNotMatter` |
| `StreamsAreNotKept` | | `SseSpec => []OnlyTheUnfinishedIsKept` |
| `DelaysHold` | | `InputSpec => []DelayWithinBounds` |
| `VersionsHold` | | `InputSpec => []VersionsOrdered` |
| `RepliesHold` | | `InputSpec => []ReplyYieldsTheSource` |
| `PartsHold` | | `InputSpec => []PartsSurvive`: exactly the parts that are not recognised are skipped, malformed ones of a known kind among them |
| `StreamsAddUp` | | `InputSpec => []StreamAddsUp` |
| `ArgumentsHold` | | `InputSpec => []ArgumentsHaveOnePart` |

*Client.* `ShownIsAggregate` is not inductive: nothing in it keeps a thread that has shown a chunk from
going back to the loop, where the next attempt empties `aggregate`. `StreamInv` says what does: a
thread in `loop` or `sleep` has delivered nothing, and from the first chunk on, `aggregate`, the
callback's history and a successful result are the same. Only `with_retry`'s `can_retry` makes it so. A step of one thread
leaves all of another's variables alone (`OthersSame`), so the proof is one case per action for the thread that moves.
The refinement proves each action to be a step of `ClientPromise` or a stutter. `MetricsConserved`
counts the threads about to send; the proof follows the cardinality of that set as one
thread joins or leaves it, for a finite set of threads. `ModelsComplete` rests on `ListOK`: what is gathered is the pages before
the one that is asked for, and an answer in hand is that page and has set the token to the next.

*ChatSession.* The invariant has four parts beside the types: `Extends`, the history begins with what
`send()` found and `checkpoint` is its length, so that cutting it there restores it, however many rounds have
been pushed; `RoundsBounded`, its length is told by the number of rounds; the tool loop runs
only with tools; and `Shape`, as long as no exception has left a `send()`: turns alternate, calls are answered, and none is
pending where the session is idle. `Shape` is conditional because exceptions really destroy it.

*Repl.* Every step of the REPL is a step of the session or leaves it alone, so what is proved of sessions holds of
a chat. The flag is what the property needs only during a reply (`FlagIsPressed`); at the prompt it may hold an old Ctrl-C, which
is why clearing it before `send()`, and nowhere else, is enough.

*RunProcess.* The invariant says in parts that what is spent and what is left add up to the budget that applies (`Charged`), what a
late call has already done to its group (`Killed`), who is dead when the loops are left (`Ended`), and where every piece that was
written is: in the pipe, in the result, or the marker (`Counted`). `NothingLeft` takes more than the end of the file, which does
not tell that nobody is left: the kill after `waitpid()` does it, for a call that was not late, and `Killed` for one that
was. The invariant excepts the error of `waitpid()`, which is returned before that kill. `OutputComplete` follows from the last of these once the
pipe is empty and has no writer.

*Runner.* `OnceOnly` says that the tasks claimed, held and reported are distinct and below the shared counter; it is what makes a
result stable. `Conversation` ties a worker's place to the attempts recorded so far. `Delivered` counts:
the tasks handed out are those reported and those still held, so when the last worker has gone, all are reported; that step
is by the cardinality of the set of holders.

*Spawn.* `NoLeak` speaks of running children only. What makes it inductive is that a write end that is
not yet close-on-exec belongs to the thread that holds the lock (`LockHeld`, `Opened`, `Flagged`), so that `fork()`,
which needs the lock, copies no unflagged pipe, and a child keeps only its own (`KeepsOwn`).

*ThreadPool.* `Accounted` is inductive in its parts: a task that runs was taken from the front of a
queue in order of submission (`QueueOrdered`), so it is older than all that wait (`JobsFirst`) and no other worker has it
(`JobsDistinct`), so completing it takes exactly one number off those that are pending (`PendingPlaced`).
`Awake` is inductive because a worker goes to sleep only where the queue is empty, under the lock that
`submit()` needs, and whoever makes it non-empty, or sets `stopping_`, has a notification yet to make. The refinement needs `Drained`: a worker leaves an empty queue, yet
a task that another still runs may fill it again; when all have left it is empty. That `Width` is
respected follows from the map of running workers onto running tasks.

*SpscQueue.* The invariant says what each side knows (`ProducerKnows`, `ConsumerKnows`,
`ViewsKnow`), that old values stay within a window of `Capacity` (`WindowKept`), and that the slots
between the counters hold what was pushed (`RingHolds`). The theorems assume `MaxPushes < Modulus`: until the
counters have wrapped. The reason is real: `counter % Capacity` jumps where a
counter of `w` bits wraps around unless `Capacity` divides `2^w`. TLC covers the wrap-around for a capacity that divides.

*LruCache.* `CacheInv` speaks of the operations and not of positions: the list is sorted by last use, nothing was used
later than the last operation, and of the keys that are not indexed none was used later than one that is. So an entry that
moves to the front is in order there, and the last, which is dropped, was used before all that stay. That no key is twice in
the list follows from the order.

*TokenBucket.* Every call leaves a mark of what had been given, and of the newest reading of the clock, when it began. For each
mark, what has been given since and what is in the bucket now come to no more than a burst and the worth of the time since;
the bucket holds no more than a burst, and its `last_` is the newest reading, so that time which has been paid for once is
not paid for again when the clock goes back and forth.

*Induction over data.* The library's induction theorems take an operator, which the provers cannot instantiate. `AlgorithmProofs`
begins with what replaces them, stated of sets: a set of numbers with an element has a least one (`Least`, from the theorem that `<`
is well-founded on the naturals, which has no operator), so a set of numbers that has 0 and with each its
successor has all (`Ind`); and a function that is defined by recursion on numbers satisfies its
definition (`RecursiveFunction`, `RecursiveUpTo`), which is shown by cutting it off at ever larger numbers. A property
of every input is then the set of the lengths, or rounds, for which it holds.

*Sse.* Two loops are compared that do not go in step: `feed` reads a line at once, `Reading` a character. `LoopReads`
is by induction over the rounds: after each, the parser has the events, the data and the place that the reading has at
that newline, up to the event at which the handler stops. It rests on what a reading does between two newlines
(`CharsCollect`, `LineIsTheRest`), on one line (`Processed`), and on a reading of a longer text not taking back what it has
said of a shorter one (`ReadAlike`, `SaidStaysSaid`). The invariant `SseInv` has these parts: `StreamReads`, where the stream goes on; `Complete`, when
it has been finished; `Stopped`, after a handler's false, when only the events up to then matter.

*RetryPolicy.* A delay is bounded because the product is capped before it is used, and the jitter is cut off where it
would leave the bounds; a hint is rounded up by each of the two conversions, so it is never undercut.

*Versions.* `Compares(op, S)` says that a comparison is a total order of `S`. Numbers and
identifiers have one; sequences are compared at the first place where they differ, or by their lengths, which is
an order again (`LexicographicCompares`); and so are pairs, by one part and then by the other (`KeyThenPart`). A version is built
from these.

*Durations.* A number is what its first digits spell, moved by the power of ten of the rest, and what the rest spells
(`NumberSplits`), which is less than that power (`NumberBelow`). So what a fraction loses by the digits that are not read is less than a
unit's worth of the last digit that is, hence at most a nanosecond, and nothing if the unit divides the power of ten (`Loses`).
A round of the loop that goes on has read the component that ends at the next unit (`ComponentEnds`), and of a valid text each round
goes on (`ValidGoesOn`): where a run of digits ends is the same by the loop and by the places (`RunIs`, `ShapeIs`). The invariant of
the loop, `LoopInv`, is that what has been read is components and has been added up, and that a text that was given up is none or
too large; sums of what each component adds only grow (`TotalsGrow`), so a text that was too large in the middle is too large. A
constant is assumed of the code: no unit has more nanoseconds than the power of ten of the digits that are read (3.6e12 and 1e18),
without which more than one could be lost.

*Replies.* The rounds of `find_code_blocks()` depend on the lines read and on no others (`RoundsAlike`), so a line
more is one step more (`OneMoreLine`), and what a step and the end of the reply may change is a matter of cases. Between the
two fences of a source no line closes the block (`FencedIsRead`, by induction over the lines). The block that
is compiled is the first of the longest by induction over the blocks (`BestIsBest`).

*Arguments.* Which arguments are values is what the rounds say: those for which an option waits (`pending`). The property
says it by place alone, so the proof takes that set as its witness and shows, by induction over the rounds, that
what is parsed so far lists the words, the flags and the values at the places up to here (`Parsed`, `AllParsed`). `Lists`
grows by a place at a time (`ListsMore`, `ListsSame`). That nothing waits at the end, and that no round before has
failed, is what an accepted command line is.

*Parts.* What `parse_part()` makes of a JSON value is a part it understands, an error of its own, or the one error that is skipped
(`PartShape`), and which of these depends on the type of the value and the keys it has. The rounds of
`parse_content()` list the parts at the known places up to here, or have ended with the first wrong one (`ContentIs`, by
induction in `ContentEnds`). An understood part is read from what is written of it (`ComesBack`): in each
object that `to_json()` makes, the keys it writes are distinct, and no key is read that it has not written. A whole turn follows by
a second induction (`ReadBack`). A value of `ElementsAssumption` may be anything, but what says it is a Boolean is one.

*Merging.* What is said of a part by itself, its words as what they are, its signature, its visible text, its call, is a
function into sequences, and of several parts the concatenation (`FlatMap`). `Faithful` says that two parts that are
glued say what they say one after the other, which holds of the four because a text is only continued by a text of the same
kind and at most one of the two is signed. For any faithful reader, then, `append_part()` adds what the fragment says
(`AppendSays`), so does the loop over a candidate's parts (`JoinedSays`). `Mirrors(h, cs, L)` is the invariant of the loops over
candidates and chunks: `cs` has one candidate for each index of the list `L` of those that came, compact, with what the
reader `h` finds in the parts of `L` with that index, and the last reason among them. A candidate more keeps it (`MirrorsMore`, by
cases of whether its index is known), so a chunk does (`MergedMirrors`), and so all of them (`AggregateMirrors`). The properties
are this for each reader. For the printed text the candidates have one index, so that the first of a chunk is all there is of
it (`ReadsOne`).

Model-checked only:

* all liveness, which needs `ENABLED`; and what the violations show, which are behaviours;
* `ExpressionParsed`: the parser is translated as `RECURSIVE` operators, without which the grammar would not be recognised in
  it, and the prover's arithmetic is lost in a module with one.

## Where code and documentation disagree

Six runs end in a violation, each of one property that states what a document or a comment says:

* `chat_rollback`: "On error the history is rolled back" (`chat.hpp:31`) is true of returned errors
  only. An exception leaves the user's turn, or calls without answers, in `history_`, and the next request carries it.
* `runner_text`: output of a compiler or a test that is not UTF-8, or was cut inside a character by
  `truncate_log()`, goes into the repair prompt; `dump()` throws and ends the whole evaluation.
* `runner_relative`: with a relative `--work-dir`, `argv[0]` of the test binary is looked up from inside
  the directory it is relative to; every solution that compiles becomes a test failure.
* `duration_truncated`: "Fractions are truncated toward zero at nanosecond precision" (`tasks/parse-duration/task.json:14`), but
  the reference reads eighteen digits of a fraction, the others being "below 1ns" (`reference.hpp:37`), and `0.00000000001666666667m`,
  which is 1.0000000002ns, is parsed as 0. At most a nanosecond is lost of each component, and only of minutes and hours, which
  do not divide 10^18 nanoseconds; `DurationExactOrNothing` says just that.

* `process_endless`: "a wall-clock timeout" (`process.hpp:43`) does not hold against a child that
  refills the pipe as fast as it is read: the inner loop does not look at the deadline (`process.cpp:127-149`).
* `part_dropped`: "malformed known kinds are real errors" (`serialization.cpp:150-151`), but a `text` that is no string, or a
  `functionCall` or `functionResponse` that is no object, is skipped in silence like an unknown kind.

Others were met while modelling and have no run, most being visible in a few lines:

* `process.cpp:158`: where `waitpid()` fails, the error is returned without killing what the child has left in its group
  (`WaitFails` models it, and `NothingLeft` excepts it). It takes a process that ignores SIGCHLD or reaps children elsewhere.
* `size_approx()` of the SPSC queue may exceed `Capacity`, though `task.json:11` says never:
  `tlc -config MCSpscQueueSize.cfg SpscQueue` refutes `SizeAtMostCapacity`.
* A `thought` that is no Boolean is an exception (`serialization.cpp:120`), which leaves `parse_content()` and, in a stream, passes
  through the SSE parser and curl's callback.
* A `Retry-After` or a `RetryInfo` of more than 2^63 milliseconds overflows (`serialization.cpp:272`, `240`).
* `kCancelled` is "caller aborted (e.g. Ctrl-C during streaming)" (`error.hpp:17`), and `main.cpp:250-251` prints `[cancelled]` for it.
  A stopped stream returns what it has as a success (`client.cpp:189`), so that branch is never taken.
* `main.cpp:155`: the chunk at which Ctrl-C is noticed is not printed, yet it is in the history.
* `process.cpp:162` kills strays after `waitpid()`, by a process id that has been given back: with concurrent
  calls, and ids wrapping around in between, the group may be another's. TLC refutes `OnlyTheLateAreKilled` of `Spawn` when it is added to `MCProcess.cfg`.
* `client.hpp:39` counts as failures the calls that ultimately failed; a call rejected by validation, or ended by an
  exception, is counted as a request but not as a failure (`client.cpp:142`).
* `README.md:25` promises errors as values; a message that is not UTF-8 leaves `generate()` and `stream()` as an
  exception (`client.cpp:145`).
* `main.cpp:368`: a report with a detail that is not UTF-8 is not written: `dump(2)` throws after all
  the work is done (`WriteReports` models it).
* `runner.cpp:267-273`: a failed preparation leaves what it has made of the build directory
  (`PrepareFails` models it).
* `main.cpp:219`: Ctrl-C cancels the reply, but a cancelled stream is a success whose function calls, if it had any
  by then, are run, and the model is asked again (`chat.cpp:38`).
* `reference.hpp:53` of the SPSC queue: wrap-around keeps the arithmetic correct only for capacities
  that divide `2^w`. It takes 2^64 pushes of a 64-bit counter.

## What is not modelled

`PROJECT.json` says so component by component. In short: formatting, logging, wording and layout have no state that
anything else reads. Reading task files happens once, before anything runs
concurrently; `ask` and the other commands of `main.cpp` are one call each, and the conversion of numbers in options is not
modelled. Settings of a request, usage counts, embeddings and the list of models are copied field by field, in one direction only. `MetricsConserved`
is about attempts, retries and loops; the counters of requests and failures are modelled and no property relates them, as what `client.hpp:39` says of them is not kept (above). Within
`Client` the bytes of events and bodies are what control flow asks of them: parses or not, is UTF-8 or not. Real
time appears only in `RunProcess` and `TokenBucket`, as ticks, and in `Backoff` as milliseconds; arithmetic in `double` is left out
everywhere, with its rounding and its errors. Delays are unbounded integers, so their overflow (above) is out of sight. `RLIMIT` and the child's standard input are left out. Fallible calls whose failure ends in the same result are one action.
`Semver` begins where versions have been split into identifiers. curl and the tests are modelled, or read, as
the rest of the code meets them.

## The plan

Done, in this order: the client and its promise; the session on top of it; the processes; the runner;
the SPSC queue; the thread pool; their theorems; the SSE parser; merging and parts on the wire; the delays; the other
algorithms; the REPL with its SIGINT flag on top of the session; theorems about processes, the runner and the REPL; the cache
and the bucket as state machines; theorems about them, the SSE parser, delays, versions, replies, arguments, parts, merging and durations.

What is left, in the order of its worth:

1. The counts and the exit code of a report (`report.cpp:52-70`), on top of `Runner`'s results.
2. `parse()` of the version parser over characters.

Modules with theorems use recursive functions instead of `RECURSIVE` operators. Liveness stays with TLC. The number of runs is kept
small; where a new question needs one, related ones are joined, as `runner` joins three ways to call the
command, `process` one call and many, and `algorithms` thirteen subjects.
