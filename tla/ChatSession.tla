------------------------------ MODULE ChatSession ------------------------------
(***************************************************************************)
(* gemini::ChatSession: a conversation on top of a client. send() asks,    *)
(* runs the tools the model calls, feeds their results back and asks       *)
(* again, until the model answers in words.                                *)
(*                                                                         *)
(* The client is what ClientPromise says of it: the actions of its one     *)
(* caller, the session, are taken jointly with the session's. A turn of    *)
(* the history is its role and what it holds; words are left out.          *)
(***************************************************************************)
EXTENDS Integers, Sequences

CONSTANTS
    ErrorCode,        \* enum class ErrorCode
    max_tool_rounds,  \* ChatOptions::max_tool_rounds, any int
    Tools,            \* whether the session has a ToolRegistry
    Raises,           \* where an exception may leave send(): "encode", "callback",
                      \* "handler" (other than std::exception), "observer"
    MaxCalls,         \* bound: function calls in one reply
    MaxShown,         \* bound: chunks of one reply
    MaxHistory,       \* bound: no send() starts from so long a history
    MaxUsage          \* bound: no send() starts after so many answers

ASSUME ChatAssumption ==
    /\ max_tool_rounds \in Int
    /\ Tools \in BOOLEAN
    /\ MaxCalls \in Nat
    /\ {"kParse", "kInvalidArgument"} \subseteq ErrorCode
    /\ ErrorCode \cap {"ok", "exception"} = {}

VARIABLES
    phase, shown, stopped, reply,  \* the client, seen by this caller
    at,          \* where send() is
    streamed,    \* on_chunk is set
    history,     \* history_
    usage,       \* usage_: the answers accounted for
    checkpoint,  \* history_.size() when send() was entered
    round,       \* the rounds of tools run so far
    results,     \* the calls of the reply still to run, and the results so far
    outcome,     \* how the last send() ended: "ok", an ErrorCode or "exception"
    before,      \* history: the history when send() was entered
    raised       \* history: an exception has left a send() since the last reset()

clientVars == <<phase, shown, stopped, reply>>
vars == <<clientVars, at, streamed, history, usage, checkpoint, round, results, outcome,
          before, raised>>

me == "session"
Client == INSTANCE ClientPromise WITH
    Callers <- {me},
    Failures <- ErrorCode \cup {"exception"}

\* n is the number of function calls, or of function responses, in the turn.
Turn(role, n) == [role |-> role, n |-> n]
Turns == [role : {"user", "model"}, n : Nat]
NoResults == [calls |-> 0, done |-> 0]

Init ==
    /\ Client!Init
    /\ at = "idle"
    /\ streamed = FALSE
    /\ history = <<>>
    /\ usage = 0
    /\ checkpoint = 0
    /\ round = 0
    /\ results = NoResults
    /\ outcome = "ok"
    /\ before = <<>>
    /\ raised = FALSE

\* send() returns to its caller.
Leave(how) == at' = "idle" /\ outcome' = how

\* The rollback lambda. (Mutants: it is forgotten; it takes back the last turn only.)
RollbackNothing(e) == UNCHANGED history /\ Leave(e)
RollbackLast(e) == history' = SubSeq(history, 1, Len(history) - 1) /\ Leave(e)
Rollback(e) == /\ history' = SubSeq(history, 1, checkpoint)
               /\ Leave(e)

reset ==
    /\ at = "idle"
    /\ history' = <<>>
    /\ usage' = 0
    /\ raised' = FALSE
    /\ UNCHANGED <<clientVars, at, streamed, checkpoint, round, results, outcome, before>>

send(with_callback) ==
    /\ at = "idle"
    /\ Len(history) < MaxHistory
    /\ usage < MaxUsage
    /\ checkpoint' = Len(history)
    /\ before' = history
    /\ history' = Append(history, Turn("user", 0))
    /\ round' = 0
    /\ streamed' = with_callback
    /\ at' = "loop"
    /\ UNCHANGED <<clientVars, usage, results, outcome, raised>>

\* The loop's condition.
MayAsk == round <= max_tool_rounds

\* The head of the loop: build_request() and the client's call.
Ask ==
    /\ at = "loop"
    /\ MayAsk
    /\ Client!Call(me, IF streamed THEN "stream" ELSE "unary")
    /\ at' = "asking"
    /\ UNCHANGED <<streamed, history, usage, checkpoint, round, results, outcome, before, raised>>

\* The loop ends without an answer.
GiveUp ==
    /\ at = "loop"
    /\ ~MayAsk
    /\ Rollback("kInvalidArgument")
    /\ UNCHANGED <<clientVars, streamed, usage, checkpoint, round, results, before, raised>>

\* A chunk reaches on_chunk through the client.
Chunk ==
    /\ at = "asking"
    /\ Len(shown[me]) < MaxShown
    /\ Client!Show(me)
    /\ UNCHANGED <<at, streamed, history, usage, checkpoint, round, results, outcome, before,
                   raised>>

\* Mutant of Fail: an error of the client is met by asking again.
FailAsksAgain ==
    /\ at = "asking"
    /\ \E e \in ErrorCode : Client!ReturnErr(me, e)
    /\ at' = "loop"
    /\ UNCHANGED <<streamed, history, usage, checkpoint, round, results, outcome, before, raised>>

Fail ==
    /\ at = "asking"
    /\ \E e \in ErrorCode : Client!ReturnErr(me, e) /\ Rollback(e)
    /\ UNCHANGED <<streamed, usage, checkpoint, round, results, before, raised>>

\* The client returns a response: a unary one, or what a stream has shown.
Responds == Client!ReturnOk(me, IF streamed THEN shown[me] ELSE <<1>>)

NoCandidates ==
    /\ at = "asking"
    /\ Responds
    /\ usage' = usage + 1
    /\ Rollback("kParse")
    /\ UNCHANGED <<streamed, checkpoint, round, results, before, raised>>

\* The reply enters the history; its function calls, if there are tools, come next.
Reply(calls) ==
    /\ at = "asking"
    /\ streamed => shown[me] # <<>>
    /\ Responds
    /\ usage' = usage + 1
    /\ history' = Append(history, Turn("model", calls))
    /\ IF calls = 0 \/ ~Tools
         THEN Leave("ok") /\ UNCHANGED results
         ELSE /\ results' = [calls |-> calls, done |-> 0]
              /\ at' = "tools"
              /\ UNCHANGED outcome
    /\ UNCHANGED <<streamed, checkpoint, round, before, raised>>

\* ToolRegistry::invoke() turns an unknown name, a handler's error and its
\* std::exception into a response; the observer hears of it.
RunTool ==
    /\ at = "tools"
    /\ results.done < results.calls
    /\ results' = [results EXCEPT !.done = @ + 1]
    /\ UNCHANGED <<clientVars, at, streamed, history, usage, checkpoint, round, outcome, before, raised>>

FeedBack ==
    /\ at = "tools"
    /\ results.done = results.calls
    /\ history' = Append(history, Turn("user", results.done))
    /\ results' = NoResults
    /\ round' = round + 1
    /\ at' = "loop"
    /\ UNCHANGED <<clientVars, streamed, usage, checkpoint, outcome, before, raised>>

\* An exception unwinds send() past the rollback. One comes out of the client's call:
\* json::dump() of a request that is not UTF-8, before anything is sent, or the callback.
\* The other comes out of the tools: a handler that throws something else than a
\* std::exception, an observer.
Raise ==
    /\ \/ /\ at = "asking"
          /\ \/ "encode" \in Raises /\ shown[me] = <<>>
             \/ "callback" \in Raises /\ streamed /\ ~stopped[me]
          /\ Client!ReturnErr(me, "exception")
       \/ /\ at = "tools"
          /\ {"handler", "observer"} \cap Raises # {}
          /\ results.done < results.calls
          /\ UNCHANGED clientVars
    /\ Leave("exception")
    /\ raised' = TRUE
    /\ UNCHANGED <<streamed, history, usage, checkpoint, round, results, before>>

Step == \/ Ask \/ GiveUp \/ Chunk \/ Fail \/ NoCandidates
        \/ \E calls \in 0..MaxCalls : Reply(calls)
        \/ RunTool \/ FeedBack \/ Raise

Next == reset \/ (\E with_callback \in BOOLEAN : send(with_callback)) \/ Step

Spec == Init /\ [][Next]_vars

\* The thread runs, tools return, and every call of the client returns
\* (Client's EveryCallReturns).
FairSpec == Spec /\ WF_vars(Step)

-----------------------------------------------------------------------------
TypeOK ==
    /\ phase \in [{me} -> {"idle"} \cup Client!Kinds]
    /\ stopped \in [{me} -> BOOLEAN]
    /\ at \in {"idle", "loop", "asking", "tools"}
    /\ streamed \in BOOLEAN
    /\ history \in Seq(Turns)
    /\ usage \in Nat
    /\ checkpoint \in Nat
    /\ round \in Nat
    /\ results \in [calls : Nat, done : Nat]
    /\ outcome \in {"ok", "exception"} \cup ErrorCode
    /\ before \in Seq(Turns)
    /\ raised \in BOOLEAN

\* A send() that returns is all or nothing. However many rounds of tools it has pushed,
\* one that returns an error leaves the history as it found it, and one that succeeds has
\* only added to it, up to a reply of the model that calls no tool.
AllOrNothing ==
    [][at # "idle" /\ at' = "idle" =>
          IF outcome' = "ok"
            THEN /\ SubSeq(history', 1, Len(before)) = before
                 /\ history'[Len(history')].role = "model"
                 /\ Tools => history'[Len(history')].n = 0
            ELSE outcome' # "exception" => history' = before]_vars

\* chat.hpp:31: "On error the history is rolled back so the session stays consistent",
\* an exception being an error too.
RolledBack == [][at # "idle" /\ at' = "idle" /\ outcome' # "ok" => history' = before]_vars

\* The turns a request carries: they alternate, starting and ending with the user's,
\* and the calls of a turn have their responses in the next one (a session without
\* tools keeps what the model called unasked). It holds until an exception leaves a
\* send(), and again after reset().
Alternates(h) == \A j \in 1..Len(h) : h[j].role = IF j % 2 = 1 THEN "user" ELSE "model"
Answered(h) == \A j \in 1..(Len(h) - 1) : h[j].role = "model" => h[j + 1].n = h[j].n
RequestWellFormed ==
    at = "asking" /\ ~raised => /\ Alternates(history)
                                /\ Len(history) % 2 = 1
                                /\ Tools => Answered(history)

\* A send() makes at most max_tool_rounds + 1 requests: each of them ends in a turn of
\* the user that this send() has added.
RoundsBounded ==
    at # "idle" => /\ Len(history) = Len(before) + 2 * round + (IF at = "tools" THEN 2 ELSE 1)
                   /\ at # "loop" => round <= max_tool_rounds

\* Every send() returns, however often the model asks for tools.
EverySendReturns == at # "idle" ~> at = "idle"

=============================================================================
