-------------------------------- MODULE Client --------------------------------
(***************************************************************************)
(* gemini::Client: threads that share one client make logical calls; each  *)
(* call is a loop of HTTP attempts (with_retry) over a network that may    *)
(* answer, refuse, answer nonsense, break the connection or go silent.     *)
(*                                                                         *)
(* Every access to a shared atomic counter is a step of its own; what a    *)
(* thread does between two of them is local to it. A chunk, an answer or a *)
(* page is a datum: the attempt that brought it, its place in that attempt *)
(* and its kind. Delays, latencies and token totals are left out.          *)
(***************************************************************************)
EXTENDS ApiError, Integers, Sequences, FiniteSets

CONSTANTS
    Callers,       \* threads sharing the client
    max_attempts,  \* RetryPolicy::max_attempts, any int
    HttpStatuses,  \* what the server may answer with
    ApiStatuses,   \* error.status of a refusal
    Requests,      \* requests callers make: "good", "rejected", "unencodable"
    Pages,         \* pages of the server's model list
    MaxChunks,     \* bound: chunks of one streamed answer
    MaxRequests    \* bound: logical calls in a behaviour

ASSUME ClientAssumption ==
    /\ IsFiniteSet(Callers)
    /\ max_attempts \in Int
    /\ HttpStatuses \subseteq Nat
    /\ Pages \in Nat \ {0}
    /\ MaxChunks \in Nat
    /\ MaxRequests \in Nat

VARIABLES
    pc,             \* where each caller is
    op,             \* the method it has called
    i,              \* with_retry's loop counter
    delivered_any,  \* stream(): a chunk has been delivered in this call
    aggregate,      \* stream(): the chunks merged in this attempt
    caller_stopped, \* stream(): the callback returned false
    url,            \* list_models(): the page this with_retry asks for
    page_token,     \* list_models(): 0 is the empty token, p leads to page p
    all,            \* list_models(): the pages gathered
    result,         \* what the last attempt returned
    reply,          \* what the last call returned
    metrics,        \* the shared counters
    seen,           \* history: what the callback was given in this call
    loops           \* history: with_retry invocations so far

locals == <<op, delivered_any, aggregate, caller_stopped, url, page_token, all, seen>>
vars == <<pc, i, locals, result, reply, metrics, loops>>

Ops == {"generate", "stream", "count_tokens", "list_models"}
PcValues == {"idle", "validate", "loop", "sent", "silent", "decide", "sleep"}
Kinds == {"text",      \* has candidates
          "blocked",   \* no candidates, a promptFeedback.blockReason
          "bare"}      \* neither: usage metadata only

MaxAttempts == IF max_attempts > 1 THEN max_attempts ELSE 1

Datum == [att : Nat, k : Nat, kind : Kinds \cup {"page"}]
Ok(v) == [ok |-> TRUE, code |-> "none", value |-> v]
Err(e) == [ok |-> FALSE, code |-> e, value |-> <<>>]
Result == [ok : BOOLEAN, code : ErrorCode \cup {"none", "exception"}, value : Seq(Datum)]

Init ==
    /\ pc = [c \in Callers |-> "idle"]
    /\ op = [c \in Callers |-> "generate"]
    /\ i = [c \in Callers |-> 0]
    /\ delivered_any = [c \in Callers |-> FALSE]
    /\ aggregate = [c \in Callers |-> <<>>]
    /\ caller_stopped = [c \in Callers |-> FALSE]
    /\ url = [c \in Callers |-> 1]
    /\ page_token = [c \in Callers |-> 0]
    /\ all = [c \in Callers |-> <<>>]
    /\ result = [c \in Callers |-> Ok(<<>>)]
    /\ reply = [c \in Callers |-> Ok(<<>>)]
    /\ metrics = [requests |-> 0, attempts |-> 0, retries |-> 0, failures |-> 0]
    /\ seen = [c \in Callers |-> <<>>]
    /\ loops = 0

Goto(c, l) == pc' = [pc EXCEPT ![c] = l]
Count(counter) == metrics' = [metrics EXCEPT ![counter] = @ + 1]

-----------------------------------------------------------------------------
(* A call is counted first, then validated.                                *)

Invoke(c, o) ==
    /\ pc[c] = "idle"
    /\ metrics.requests < MaxRequests
    /\ Count("requests")
    /\ op' = [op EXCEPT ![c] = o]
    /\ delivered_any' = [delivered_any EXCEPT ![c] = FALSE]
    /\ aggregate' = [aggregate EXCEPT ![c] = <<>>]
    /\ caller_stopped' = [caller_stopped EXCEPT ![c] = FALSE]
    /\ page_token' = [page_token EXCEPT ![c] = 0]
    /\ all' = [all EXCEPT ![c] = <<>>]
    /\ seen' = [seen EXCEPT ![c] = <<>>]
    /\ Goto(c, "validate")
    /\ UNCHANGED <<i, url, result, reply, loops>>

\* No API key, no model name, or (list_models() has no request) no contents.
Reject(c) ==
    /\ pc[c] = "validate"
    /\ "rejected" \in Requests
    /\ \E e \in {"kConfig", "kInvalidArgument"} :
          /\ op[c] = "list_models" => e = "kConfig"
          /\ reply' = [reply EXCEPT ![c] = Err(e)]
    /\ Goto(c, "idle")
    /\ UNCHANGED <<i, locals, result, metrics, loops>>

\* json::dump() throws on a string that is not UTF-8, through the caller.
Throw(c) ==
    /\ pc[c] = "validate"
    /\ "unencodable" \in Requests
    /\ op[c] # "list_models"
    /\ reply' = [reply EXCEPT ![c] = Err("exception")]
    /\ Goto(c, "idle")
    /\ UNCHANGED <<i, locals, result, metrics, loops>>

\* with_retry is entered; the url of a list page is built before it.
EnterLoop(c) ==
    /\ i' = [i EXCEPT ![c] = 0]
    /\ url' = [url EXCEPT ![c] = IF page_token[c] = 0 THEN 1 ELSE page_token[c]]
    /\ loops' = loops + 1
    /\ Goto(c, "loop")

Accept(c) ==
    /\ pc[c] = "validate"
    /\ "good" \in Requests
    /\ EnterLoop(c)
    /\ UNCHANGED <<op, delivered_any, aggregate, caller_stopped, page_token, all, seen,
                   result, reply, metrics>>

-----------------------------------------------------------------------------
(* One attempt: a request is sent, the answer arrives whole (unary) or in  *)
(* server-sent events (stream).                                            *)

Attempt(c) ==
    /\ pc[c] = "loop"
    /\ Count("attempts")
    /\ aggregate' = [aggregate EXCEPT ![c] = <<>>]
    /\ caller_stopped' = [caller_stopped EXCEPT ![c] = FALSE]
    /\ Goto(c, "sent")
    /\ UNCHANGED <<i, op, delivered_any, url, page_token, all, seen, result, reply, loops>>

\* The attempt returns r to with_retry.
Settle(c, r) ==
    /\ result' = [result EXCEPT ![c] = r]
    /\ Goto(c, "decide")

\* list_models(): the page r is appended to what was gathered. (Mutant: it replaces it.)
GatheredLast(c) == result[c].value
Gathered(c) == all[c] \o result[c].value

\* perform() takes the write error of curl for what it is when the callback stopped
\* the stream. (Mutant: it is a failure of the transport.)
StoppedIsFailure(v) == Err("kTransport")
Stopped(v) == Ok(v)

\* A complete 2xx answer of a unary call.
Answer(c) ==
    /\ pc[c] = "sent"
    /\ \/ /\ op[c] = "generate"
          /\ \E kind \in Kinds : Settle(c, Ok(<<[att |-> i[c], k |-> 1, kind |-> kind]>>))
          /\ UNCHANGED page_token
       \/ /\ op[c] = "count_tokens"
          /\ Settle(c, Ok(<<>>))
          /\ UNCHANGED page_token
       \/ /\ op[c] = "list_models"
          /\ Settle(c, Ok(<<[att |-> i[c], k |-> url[c], kind |-> "page"]>>))
          /\ page_token' = [page_token EXCEPT ![c] = IF url[c] < Pages THEN url[c] + 1 ELSE 0]
    /\ UNCHANGED <<i, op, delivered_any, aggregate, caller_stopped, url, all, seen,
                   reply, metrics, loops>>

\* A 2xx body, or an event of a stream, that does not parse.
Malformed(c) ==
    /\ pc[c] = "sent"
    /\ Settle(c, Err("kParse"))
    /\ UNCHANGED <<i, locals, reply, metrics, loops>>

\* An event of a stream: merged, then shown to the callback, which may stop
\* the stream. The last event may lack its blank line: parser.finish() then
\* delivers it, and the stream is over whatever the callback says. ("[DONE]"
\* changes nothing.)
Chunk(c) ==
    /\ pc[c] = "sent"
    /\ op[c] = "stream"
    /\ Len(aggregate[c]) < MaxChunks
    /\ \E kind \in Kinds :
          LET d == [att |-> i[c], k |-> Len(aggregate[c]) + 1, kind |-> kind]
          IN /\ aggregate' = [aggregate EXCEPT ![c] = Append(@, d)]
             /\ seen' = [seen EXCEPT ![c] = Append(@, d)]
    /\ delivered_any' = [delivered_any EXCEPT ![c] = TRUE]
    /\ \E stop, trailing \in BOOLEAN :
          /\ caller_stopped' = [caller_stopped EXCEPT ![c] = stop]
          /\ \/ stop /\ Settle(c, Stopped(aggregate'[c]))
             \/ ~stop /\ trailing /\ Settle(c, Ok(aggregate'[c]))
             \/ ~stop /\ ~trailing /\ UNCHANGED <<pc, result>>
    /\ UNCHANGED <<i, op, url, page_token, all, reply, metrics, loops>>

\* The server closes a 2xx stream.
EndOfStream(c) ==
    /\ pc[c] = "sent"
    /\ op[c] = "stream"
    /\ Settle(c, Ok(aggregate[c]))
    /\ UNCHANGED <<i, locals, reply, metrics, loops>>

\* Anything but 2xx; on_body keeps such a body from the stream's parser.
Refuse(c) ==
    /\ pc[c] = "sent"
    /\ aggregate[c] = <<>>
    /\ \E s \in HttpStatuses, a \in ApiStatuses :
          ~Success(s) /\ Settle(c, Err(CodeForStatus(s, a)))
    /\ UNCHANGED <<i, locals, reply, metrics, loops>>

\* curl fails: no connection, or one that breaks.
Break(c) ==
    /\ pc[c] = "sent"
    /\ Settle(c, Err("kTransport"))
    /\ UNCHANGED <<i, locals, reply, metrics, loops>>

\* Nothing more ever comes ...
FallSilent(c) ==
    /\ pc[c] = "sent"
    /\ Goto(c, "silent")
    /\ UNCHANGED <<i, locals, result, reply, metrics, loops>>

\* Mutant of TimeOut: a stream has no stall detection.
TimeOutUnary(c) ==
    /\ pc[c] = "silent"
    /\ op[c] # "stream"
    /\ Settle(c, Err("kTimeout"))
    /\ UNCHANGED <<i, locals, reply, metrics, loops>>

\* ... and curl gives up: CURLOPT_TIMEOUT_MS, or the stall detection of a stream.
TimeOut(c) ==
    /\ pc[c] = "silent"
    /\ Settle(c, Err("kTimeout"))
    /\ UNCHANGED <<i, locals, reply, metrics, loops>>

-----------------------------------------------------------------------------
(* with_retry's decision, and what the call makes of the result.           *)

\* Mutant of CanRetry: a stream is retried whatever it has delivered.
CanRetryAlways(c) == TRUE

CanRetry(c) == op[c] = "stream" => ~delivered_any[c]

Again(c) == /\ ~result[c].ok
            /\ Retryable(result[c].code)
            /\ i[c] + 1 < MaxAttempts
            /\ CanRetry(c)

\* Mutant of Backoff: the retry is not counted.
BackoffUncounted(c) ==
    /\ pc[c] = "decide"
    /\ Again(c)
    /\ Goto(c, "sleep")
    /\ UNCHANGED <<i, locals, result, reply, metrics, loops>>

Backoff(c) ==
    /\ pc[c] = "decide"
    /\ Again(c)
    /\ Count("retries")
    /\ Goto(c, "sleep")
    /\ UNCHANGED <<i, locals, result, reply, loops>>

Wake(c) ==
    /\ pc[c] = "sleep"
    /\ i' = [i EXCEPT ![c] = @ + 1]
    /\ Goto(c, "loop")
    /\ UNCHANGED <<locals, result, reply, metrics, loops>>

CheckBlocked(r) ==
    LET kinds == {r.value[j].kind : j \in 1..Len(r.value)}
    IN IF r.ok /\ "blocked" \in kinds /\ "text" \notin kinds THEN Err("kBlocked") ELSE r

Outcome(c) == IF op[c] \in {"generate", "stream"} THEN CheckBlocked(result[c]) ELSE result[c]

\* generate(), stream() and count_tokens() return; a failed page ends list_models().
Return(c) ==
    /\ pc[c] = "decide"
    /\ ~Again(c)
    /\ op[c] = "list_models" => ~result[c].ok
    /\ reply' = [reply EXCEPT ![c] = Outcome(c)]
    /\ IF Outcome(c).ok THEN UNCHANGED metrics ELSE Count("failures")
    /\ Goto(c, "idle")
    /\ UNCHANGED <<i, locals, result, loops>>

\* A page has come: the next one, or the list is complete.
NextPage(c) ==
    /\ pc[c] = "decide"
    /\ op[c] = "list_models"
    /\ result[c].ok
    /\ all' = [all EXCEPT ![c] = Gathered(c)]
    /\ IF page_token[c] = 0
         THEN /\ reply' = [reply EXCEPT ![c] = Ok(all'[c])]
              /\ Goto(c, "idle")
              /\ UNCHANGED <<i, url, loops>>
         ELSE EnterLoop(c) /\ UNCHANGED reply
    /\ UNCHANGED <<op, delivered_any, aggregate, caller_stopped, page_token, seen,
                   result, metrics>>

Step(c) == \/ Reject(c) \/ Throw(c) \/ Accept(c) \/ Attempt(c)
           \/ Answer(c) \/ Malformed(c) \/ Chunk(c) \/ EndOfStream(c) \/ Refuse(c)
           \/ Break(c) \/ FallSilent(c) \/ TimeOut(c)
           \/ Backoff(c) \/ Wake(c) \/ Return(c) \/ NextPage(c)

Next == \E c \in Callers : Step(c) \/ \E o \in Ops : Invoke(c, o)

\* Threads are scheduled, curl's timers fire, the sleeper returns.
Fairness == \A c \in Callers : WF_vars(Step(c))

Spec == Init /\ [][Next]_vars
FairSpec == Spec /\ Fairness

-----------------------------------------------------------------------------
\* The variables have their types, and with_retry never exceeds its attempts.
TypeOK ==
    /\ pc \in [Callers -> PcValues]
    /\ op \in [Callers -> Ops]
    /\ i \in [Callers -> 0..(MaxAttempts - 1)]
    /\ delivered_any \in [Callers -> BOOLEAN]
    /\ aggregate \in [Callers -> Seq(Datum)]
    /\ caller_stopped \in [Callers -> BOOLEAN]
    /\ url \in [Callers -> 1..Pages]
    /\ page_token \in [Callers -> 0..Pages]
    /\ all \in [Callers -> Seq(Datum)]
    /\ result \in [Callers -> Result]
    /\ reply \in [Callers -> Result]
    /\ metrics \in [{"requests", "attempts", "retries", "failures"} -> Nat]
    /\ seen \in [Callers -> Seq(Datum)]
    /\ loops \in Nat

\* client.hpp: "callers never see duplicated output". What the callback of a
\* stream has been given is exactly what the current attempt has merged: no
\* retry ever starts an answer again under a caller who has seen part of one.
ShownIsAggregate ==
    \A c \in Callers : op[c] = "stream" /\ seen[c] # <<>> => seen[c] = aggregate[c]

\* What makes ShownIsAggregate and Implements inductive: delivered_any, the callback's
\* history, the merged answer and the result of the attempt agree at every point of a
\* call, and a call that has shown something is never on its way back to the loop.
StreamOK(c) ==
    /\ ~delivered_any[c] => seen[c] = <<>> /\ ~caller_stopped[c]
    /\ op[c] # "stream" => ~delivered_any[c]
    /\ \A j \in 1..Len(seen[c]) : seen[c][j].k = j
    /\ pc[c] = "validate" => ~delivered_any[c] /\ aggregate[c] = <<>>
    /\ pc[c] \in {"loop", "sleep"} => ~delivered_any[c]
    /\ op[c] = "stream" /\ pc[c] \in {"sent", "silent", "decide"} => aggregate[c] = seen[c]
    /\ delivered_any[c] => aggregate[c] = seen[c]
    /\ caller_stopped[c] => pc[c] \in {"decide", "idle"}
    /\ pc[c] = "decide" =>
          /\ IF result[c].ok THEN result[c].code = "none"
                             ELSE result[c].code \in ErrorCode /\ result[c].value = <<>>
          /\ caller_stopped[c] => result[c].ok
          /\ op[c] = "stream" /\ result[c].ok => result[c].value = seen[c]
StreamInv == \A c \in Callers : StreamOK(c)

\* The counters of MetricsSnapshot stay consistent whatever the interleaving of
\* the threads: "HTTP attempts including retries" is one per with_retry loop plus
\* one per retry, less the threads that are about to send.
MetricsConserved ==
    metrics.attempts + Cardinality({c \in Callers : pc[c] \in {"loop", "sleep"}})
        = loops + metrics.retries

\* A list_models() that succeeds has every page of the server once and in order,
\* though pages are retried and the token is overwritten by each attempt.
ModelsComplete ==
    \A c \in Callers : pc[c] = "idle" /\ op[c] = "list_models" /\ reply[c].ok
        => [j \in 1..Len(reply[c].value) |-> reply[c].value[j].k] = [p \in 1..Pages |-> p]

\* Every call returns to its caller, also when the server stops answering.
EveryCallReturns == \A c \in Callers : pc[c] # "idle" ~> pc[c] = "idle"

\* A call that is past its first counter, seen from outside: what the callback was
\* shown, by place, and what was returned.
Places(s) == [j \in 1..Len(s) |-> s[j].k]
Phase(c) == CASE pc[c] = "idle" -> "idle"
              [] pc[c] # "idle" /\ op[c] = "stream" -> "stream"
              [] OTHER -> "unary"
Promise == INSTANCE ClientPromise WITH
    Failures <- ErrorCode \cup {"exception"},
    phase <- [c \in Callers |-> Phase(c)],
    shown <- [c \in Callers |-> Places(seen[c])],
    stopped <- caller_stopped,
    reply <- [c \in Callers |-> [reply[c] EXCEPT !.value = Places(@)]]

\* The client with its retries, refusals and broken connections implements what
\* ClientPromise says its callers see.
Implements == Promise!Spec

=============================================================================
