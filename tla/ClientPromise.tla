---------------------------- MODULE ClientPromise ----------------------------
(***************************************************************************)
(* What gemini::Client promises the threads that call it, with the         *)
(* attempts, the retries and the network left out:                         *)
(*                                                                         *)
(*   - the pieces of an answer are shown to the caller's callback in       *)
(*     order, each of them once, whatever happens on the wire;             *)
(*   - a callback that asked to stop is not called again;                  *)
(*   - a stream that succeeds returns exactly what it has shown, and a     *)
(*     stream that was stopped is not reported as a failure of the         *)
(*     network.                                                            *)
(*                                                                         *)
(* Client implements this specification (property Implements of MCClient,  *)
(* theorem ClientKeepsItsPromise); ChatSession is built on it.             *)
(***************************************************************************)
EXTENDS Naturals, Sequences

CONSTANTS Callers,   \* the threads that share the client
          Failures   \* how a call can fail: enum class ErrorCode, and any exception

VARIABLES
    phase,    \* phase[c]: "idle", or the kind of call c is in
    shown,    \* shown[c]: the pieces c's callback has been given in this call
    stopped,  \* stopped[c]: c's callback has returned false in this call
    reply     \* reply[c]: what c's last call returned

vars == <<phase, shown, stopped, reply>>

Kinds == {"stream", "unary"}

Ok(v) == [ok |-> TRUE, code |-> "none", value |-> v]
Err(e) == [ok |-> FALSE, code |-> e, value |-> <<>>]

Init == /\ phase = [c \in Callers |-> "idle"]
        /\ shown = [c \in Callers |-> <<>>]
        /\ stopped = [c \in Callers |-> FALSE]
        /\ reply = [c \in Callers |-> Ok(<<>>)]

Call(c, kind) ==
    /\ phase[c] = "idle"
    /\ phase' = [phase EXCEPT ![c] = kind]
    /\ shown' = [shown EXCEPT ![c] = <<>>]
    /\ stopped' = [stopped EXCEPT ![c] = FALSE]
    /\ UNCHANGED reply

\* The next piece, and no other, reaches the callback.
Show(c) ==
    /\ phase[c] = "stream"
    /\ ~stopped[c]
    /\ shown' = [shown EXCEPT ![c] = Append(@, Len(@) + 1)]
    /\ \E stop \in BOOLEAN : stopped' = [stopped EXCEPT ![c] = stop]
    /\ UNCHANGED <<phase, reply>>

\* A successful stream returns what it showed. A stream the caller stopped can
\* only fail because the whole prompt turned out to be blocked.
ReturnOk(c, v) ==
    /\ phase[c] # "idle"
    /\ phase[c] = "stream" => v = shown[c]
    /\ phase' = [phase EXCEPT ![c] = "idle"]
    /\ reply' = [reply EXCEPT ![c] = Ok(v)]
    /\ UNCHANGED <<shown, stopped>>

ReturnErr(c, e) ==
    /\ phase[c] # "idle"
    /\ stopped[c] => e = "kBlocked"
    /\ phase' = [phase EXCEPT ![c] = "idle"]
    /\ reply' = [reply EXCEPT ![c] = Err(e)]
    /\ UNCHANGED <<shown, stopped>>

Next == \E c \in Callers :
            \/ \E kind \in Kinds : Call(c, kind)
            \/ Show(c)
            \/ \E v \in {reply'[c].value} : ReturnOk(c, v)
            \/ \E e \in Failures : ReturnErr(c, e)

Spec == Init /\ [][Next]_vars

=============================================================================
