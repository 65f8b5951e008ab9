----------------------------- MODULE ClientProofs -----------------------------
(***************************************************************************)
(* Client, for every set of callers, every retry policy and every server:  *)
(* its types, the invariant of its streams, and that it implements         *)
(* ClientPromise.                                                          *)
(***************************************************************************)
EXTENDS Client, TLAPS, FiniteSetTheorems, SequenceTheorems

LEMMA CodeForStatusType ==
  ASSUME NEW s \in Nat, NEW a
  PROVE  CodeForStatus(s, a) \in ErrorCode
BY DEF CodeForStatus, ErrorCode

LEMMA MaxAttemptsType == MaxAttempts \in Nat /\ MaxAttempts >= 1
BY ClientAssumption DEF MaxAttempts, ClientAssumption

LEMMA OkType ==
  ASSUME NEW v \in Seq(Datum) PROVE Ok(v) \in Result
BY DEF Ok, Result

LEMMA ErrType ==
  ASSUME NEW e \in ErrorCode \cup {"exception"} PROVE Err(e) \in Result
<1>1. <<>> \in Seq(Datum)
  OBVIOUS
<1> QED BY <1>1 DEF Err, Result

LEMMA DatumType ==
  ASSUME NEW a \in Nat, NEW k \in Nat, NEW kind \in Kinds \cup {"page"}
  PROVE  [att |-> a, k |-> k, kind |-> kind] \in Datum
BY DEF Datum

\* An attempt that settles on a result hands it to with_retry.
LEMMA SettleType ==
  ASSUME NEW c \in Callers, NEW r \in Result, Settle(c, r),
         pc \in [Callers -> PcValues], result \in [Callers -> Result]
  PROVE  /\ result' = [result EXCEPT ![c] = r]
         /\ result' \in [Callers -> Result]
         /\ pc' \in [Callers -> PcValues]
         /\ pc'[c] = "decide"
BY DEF Settle, Goto, PcValues

Counters == {"requests", "attempts", "retries", "failures"}

LEMMA CountType ==
  ASSUME NEW counter \in Counters, metrics \in [Counters -> Nat], Count(counter)
  PROVE  metrics' \in [Counters -> Nat]
<1> SUFFICES metrics[counter] + 1 \in Nat
  BY DEF Count
<1> QED OBVIOUS

\* Every variable keeps its type; with_retry's counter stays below its bound because
\* Wake is reached only through Again.
CounterOK == \A c \in Callers : pc[c] = "sleep" => i[c] + 1 < MaxAttempts
IType == TypeOK /\ CounterOK

LEMMA TypeStep == IType /\ [Next]_vars => IType'
<1> SUFFICES ASSUME IType, [Next]_vars PROVE IType'
  OBVIOUS
<1> USE ClientAssumption, MaxAttemptsType, OkType, ErrType, DatumType
        DEF IType, TypeOK, CounterOK, ClientAssumption, locals, Goto, Count, PcValues, Ops
<1>1. ASSUME NEW c \in Callers, NEW o \in Ops, Invoke(c, o) PROVE IType'
  <2>1. metrics' \in [Counters -> Nat]
    BY <1>1, CountType DEF Invoke, Counters
  <2>2. "validate" \in PcValues /\ <<>> \in Seq(Datum) /\ 0 \in 0..Pages
    OBVIOUS
  <2> QED BY <1>1, <2>1, <2>2 DEF Invoke, Counters
<1>2. ASSUME NEW c \in Callers, Reject(c) PROVE IType'
  BY <1>2 DEF Reject, ErrorCode
<1>3. ASSUME NEW c \in Callers, Throw(c) PROVE IType'
  BY <1>3 DEF Throw
<1>4. ASSUME NEW c \in Callers, Accept(c) PROVE IType'
  BY <1>4 DEF Accept, EnterLoop
<1>5. ASSUME NEW c \in Callers, Attempt(c) PROVE IType'
  <2>1. metrics' \in [Counters -> Nat]
    BY <1>5, CountType DEF Attempt, Counters
  <2>2. /\ aggregate' \in [Callers -> Seq(Datum)] /\ caller_stopped' \in [Callers -> BOOLEAN]
        /\ UNCHANGED <<i, op, delivered_any, url, page_token, all, seen, result, reply, loops>>
    BY <1>5 DEF Attempt
  <2>3. pc' \in [Callers -> PcValues] /\ \A b \in Callers : pc'[b] = "sleep" => pc[b] = "sleep"
    BY <1>5 DEF Attempt
  <2>4. CounterOK'
    BY <2>2, <2>3
  <2> HIDE DEF CounterOK, PcValues
  <2> QED BY <2>1, <2>2, <2>3, <2>4 DEF Counters
<1>6. ASSUME NEW c \in Callers, Answer(c) PROVE IType'
  <2>1. i[c] \in Nat /\ url[c] \in Nat
    OBVIOUS
  <2>2. \A kind \in Kinds : <<[att |-> i[c], k |-> 1, kind |-> kind]>> \in Seq(Datum)
    BY <2>1
  <2>3. <<[att |-> i[c], k |-> url[c], kind |-> "page"]>> \in Seq(Datum)
    BY <2>1
  <2>4. result' \in [Callers -> Result]
    <3>1. CASE op[c] = "generate"
      <4>1. PICK kind \in Kinds : Settle(c, Ok(<<[att |-> i[c], k |-> 1, kind |-> kind]>>))
        BY <1>6, <3>1 DEF Answer
      <4> QED BY <4>1, <2>2, SettleType
    <3>2. CASE op[c] = "count_tokens"
      <4>1. Settle(c, Ok(<<>>)) /\ <<>> \in Seq(Datum)
        BY <1>6, <3>2 DEF Answer
      <4> QED BY <4>1, SettleType
    <3>3. CASE op[c] = "list_models"
      <4>1. Settle(c, Ok(<<[att |-> i[c], k |-> url[c], kind |-> "page"]>>))
        BY <1>6, <3>3 DEF Answer
      <4> QED BY <4>1, <2>3, SettleType
    <3> QED BY <1>6, <3>1, <3>2, <3>3 DEF Answer
  <2>5. page_token' \in [Callers -> 0..Pages]
    <3>1. (IF url[c] < Pages THEN url[c] + 1 ELSE 0) \in 0..Pages
      OBVIOUS
    <3>2. \/ page_token' = page_token
          \/ page_token' = [page_token EXCEPT ![c] = IF url[c] < Pages THEN url[c] + 1 ELSE 0]
      BY <1>6 DEF Answer
    <3> QED BY <3>1, <3>2
  <2>6. pc' = [pc EXCEPT ![c] = "decide"] /\ UNCHANGED <<i, op, delivered_any, aggregate,
            caller_stopped, url, all, seen, reply, metrics, loops>>
    BY <1>6 DEF Answer, Settle
  <2>7. pc' \in [Callers -> PcValues]
    BY <2>6
  <2>8. CounterOK'
    <3>1. \A b \in Callers : pc'[b] = "sleep" => pc[b] = "sleep"
      BY <2>6
    <3> QED BY <2>6, <3>1
  <2> HIDE DEF CounterOK, PcValues
  <2> QED BY <2>4, <2>5, <2>6, <2>7, <2>8
<1>7. ASSUME NEW c \in Callers, Malformed(c) PROVE IType'
  BY <1>7 DEF Malformed, Settle, ErrorCode
<1>8. ASSUME NEW c \in Callers, Chunk(c) PROVE IType'
  <2> DEFINE d(kind) == [att |-> i[c], k |-> Len(aggregate[c]) + 1, kind |-> kind]
  <2>1. \A kind \in Kinds : d(kind) \in Datum
    <3>1. i[c] \in Nat /\ Len(aggregate[c]) + 1 \in Nat
      OBVIOUS
    <3> QED BY <3>1
  <2> HIDE DEF d
  <2>2. PICK kind \in Kinds : /\ aggregate' = [aggregate EXCEPT ![c] = Append(@, d(kind))]
                              /\ seen' = [seen EXCEPT ![c] = Append(@, d(kind))]
    BY <1>8 DEF Chunk, d
  <2>3. aggregate' \in [Callers -> Seq(Datum)] /\ seen' \in [Callers -> Seq(Datum)]
    BY <2>1, <2>2
  <2>4. result' \in [Callers -> Result] /\ pc' \in [Callers -> PcValues]
    <3>1. aggregate'[c] \in Seq(Datum)
      BY <2>3
    <3>2. Ok(aggregate'[c]) \in Result
      BY <3>1
    <3>3. Settle(c, Ok(aggregate'[c])) \/ UNCHANGED <<pc, result>>
      BY <1>8 DEF Chunk, Stopped
    <3> QED BY <3>2, <3>3, SettleType
  <2>5. CounterOK'
    BY <1>8 DEF Chunk, Settle
  <2> QED BY <1>8, <2>3, <2>4, <2>5 DEF Chunk
<1>9. ASSUME NEW c \in Callers, EndOfStream(c) PROVE IType'
  BY <1>9 DEF EndOfStream, Settle
<1>10. ASSUME NEW c \in Callers, Refuse(c) PROVE IType'
  <2>1. PICK e \in ErrorCode : Settle(c, Err(e))
    BY <1>10, CodeForStatusType DEF Refuse
  <2>2. result' \in [Callers -> Result] /\ pc' \in [Callers -> PcValues]
    BY <2>1, SettleType
  <2>3. UNCHANGED <<i, locals, reply, metrics, loops>>
    BY <1>10 DEF Refuse
  <2>4. CounterOK'
    BY <2>1, <2>3 DEF Settle
  <2> QED BY <2>2, <2>3, <2>4
<1>11. ASSUME NEW c \in Callers, Break(c) PROVE IType'
  BY <1>11 DEF Break, Settle, ErrorCode
<1>12. ASSUME NEW c \in Callers, FallSilent(c) PROVE IType'
  BY <1>12 DEF FallSilent
<1>13. ASSUME NEW c \in Callers, TimeOut(c) PROVE IType'
  BY <1>13 DEF TimeOut, Settle, ErrorCode
<1>14. ASSUME NEW c \in Callers, Backoff(c) PROVE IType'
  <2>1. metrics' \in [Counters -> Nat]
    BY <1>14, CountType DEF Backoff, Counters
  <2>2. pc' = [pc EXCEPT ![c] = "sleep"] /\ i[c] + 1 < MaxAttempts
        /\ UNCHANGED <<i, locals, result, reply, loops>>
    BY <1>14 DEF Backoff, Again
  <2>3. pc' \in [Callers -> PcValues]
    BY <2>2
  <2>4. CounterOK'
    BY <2>2
  <2> HIDE DEF CounterOK, PcValues
  <2> QED BY <2>1, <2>2, <2>3, <2>4 DEF Counters
<1>15. ASSUME NEW c \in Callers, Wake(c) PROVE IType'
  <2>1. /\ pc[c] = "sleep" /\ i' = [i EXCEPT ![c] = i[c] + 1] /\ pc' = [pc EXCEPT ![c] = "loop"]
        /\ UNCHANGED <<locals, result, reply, metrics, loops>>
    BY <1>15 DEF Wake
  <2>2. i[c] + 1 \in 0..(MaxAttempts - 1)
    BY <2>1
  <2>3. i' \in [Callers -> 0..(MaxAttempts - 1)] /\ pc' \in [Callers -> PcValues]
    BY <2>1, <2>2
  <2>4. CounterOK'
    BY <2>1
  <2> HIDE DEF CounterOK, PcValues
  <2> QED BY <2>1, <2>3, <2>4
<1>16. ASSUME NEW c \in Callers, Return(c) PROVE IType'
  <2>1. Outcome(c) \in Result
    BY DEF Outcome, CheckBlocked, ErrorCode
  <2>2. reply' \in [Callers -> Result]
    BY <1>16, <2>1 DEF Return
  <2>3. metrics' \in [Counters -> Nat]
    <3>1. metrics' = metrics \/ Count("failures")
      BY <1>16 DEF Return
    <3> QED BY <3>1, CountType DEF Counters
  <2>4. pc' = [pc EXCEPT ![c] = "idle"] /\ UNCHANGED <<i, locals, result, loops>>
    BY <1>16 DEF Return
  <2>5. pc' \in [Callers -> PcValues]
    BY <2>4
  <2>6. CounterOK'
    BY <2>4
  <2> HIDE DEF CounterOK, PcValues
  <2> QED BY <2>2, <2>3, <2>4, <2>5, <2>6 DEF Counters
<1>17. ASSUME NEW c \in Callers, NextPage(c) PROVE IType'
  <2>1. all'[c] \in Seq(Datum) /\ all' \in [Callers -> Seq(Datum)]
    BY <1>17 DEF NextPage, Gathered, Result
  <2>2. reply' \in [Callers -> Result]
    <3> DEFINE r == Ok(all'[c])
    <3>1. r \in Result
      BY <2>1
    <3>2. reply' = [reply EXCEPT ![c] = r] \/ UNCHANGED reply
      <4>1. CASE page_token[c] = 0
        BY <1>17, <4>1 DEF NextPage
      <4>2. CASE page_token[c] # 0
        BY <1>17, <4>2 DEF NextPage
      <4> QED BY <4>1, <4>2
    <3> HIDE DEF r
    <3> QED BY <3>1, <3>2
  <2>3. pc' \in [Callers -> PcValues] /\ i' \in [Callers -> 0..(MaxAttempts - 1)]
        /\ url' \in [Callers -> 1..Pages] /\ loops' \in Nat /\ CounterOK'
    <3>1. CASE page_token[c] = 0
      BY <1>17, <3>1 DEF NextPage
    <3>2. CASE page_token[c] # 0
      <4>1. EnterLoop(c)
        BY <1>17, <3>2 DEF NextPage
      <4>2. url' \in [Callers -> 1..Pages]
        BY <4>1 DEF EnterLoop
      <4> QED BY <4>1, <4>2 DEF EnterLoop
    <3> QED BY <3>1, <3>2
  <2> QED BY <1>17, <2>1, <2>2, <2>3 DEF NextPage
<1>18. CASE UNCHANGED vars
  BY <1>18 DEF vars
<1> QED BY <1>1, <1>2, <1>3, <1>4, <1>5, <1>6, <1>7, <1>8, <1>9, <1>10, <1>11, <1>12,
           <1>13, <1>14, <1>15, <1>16, <1>17, <1>18 DEF Next, Step

-----------------------------------------------------------------------------
(* The streams. StreamOK(c) speaks of caller c only, so a step of another  *)
(* caller leaves it alone (SameOK), and a step of c has to restore it.     *)

Same(d) == /\ pc'[d] = pc[d] /\ op'[d] = op[d] /\ delivered_any'[d] = delivered_any[d]
           /\ aggregate'[d] = aggregate[d] /\ caller_stopped'[d] = caller_stopped[d]
           /\ seen'[d] = seen[d] /\ result'[d] = result[d]

LEMMA SameOK ==
  ASSUME NEW d \in Callers, StreamOK(d), Same(d) PROVE StreamOK(d)'
BY DEF StreamOK, Same

LEMMA OthersSame ==
  ASSUME IType, NEW c \in Callers, NEW o \in Ops, Step(c) \/ Invoke(c, o),
         NEW d \in Callers \ {c}
  PROVE  Same(d)
<1> USE DEF Same, IType, TypeOK, locals, Goto, Settle
<1>1. CASE Invoke(c, o)
  BY <1>1 DEF Invoke
<1>2. CASE Reject(c) \/ Throw(c)
  BY <1>2 DEF Reject, Throw
<1>3. CASE Accept(c)
  BY <1>3 DEF Accept, EnterLoop
<1>4. CASE Attempt(c)
  BY <1>4 DEF Attempt
<1>5. CASE Answer(c)
  BY <1>5 DEF Answer
<1>6. CASE Malformed(c) \/ EndOfStream(c) \/ Break(c) \/ FallSilent(c) \/ TimeOut(c)
  BY <1>6 DEF Malformed, EndOfStream, Break, FallSilent, TimeOut
<1>7. CASE Refuse(c)
  BY <1>7 DEF Refuse
<1>8. CASE Chunk(c)
  BY <1>8 DEF Chunk
<1>9. CASE Backoff(c) \/ Wake(c) \/ Return(c)
  BY <1>9 DEF Backoff, Wake, Return
<1>10. CASE NextPage(c)
  BY <1>10 DEF NextPage, EnterLoop
<1> QED BY <1>1, <1>2, <1>3, <1>4, <1>5, <1>6, <1>7, <1>8, <1>9, <1>10 DEF Step

LEMMA OwnStep ==
  ASSUME IType, NEW c \in Callers, StreamOK(c), NEW o \in Ops, Step(c) \/ Invoke(c, o)
  PROVE  StreamOK(c)'
<1> USE DEF StreamOK, IType, TypeOK, locals, Goto
<1>1. CASE Invoke(c, o)
  BY <1>1 DEF Invoke
<1>2. CASE Reject(c) \/ Throw(c)
  BY <1>2 DEF Reject, Throw
<1>3. CASE Accept(c)
  BY <1>3 DEF Accept, EnterLoop
<1>4. CASE Attempt(c)
  BY <1>4 DEF Attempt
<1>5. CASE Answer(c)
  BY <1>5 DEF Answer, Settle, Ok
<1>6. CASE Malformed(c) \/ Break(c) \/ TimeOut(c)
  BY <1>6 DEF Malformed, Break, TimeOut, Settle, Err, ErrorCode
<1>7. CASE EndOfStream(c)
  BY <1>7 DEF EndOfStream, Settle, Ok
<1>8. CASE FallSilent(c)
  BY <1>8 DEF FallSilent
<1>9. CASE Refuse(c)
  <2>1. PICK s \in HttpStatuses, a \in ApiStatuses : Settle(c, Err(CodeForStatus(s, a)))
    BY <1>9 DEF Refuse
  <2>2. CodeForStatus(s, a) \in ErrorCode
    BY CodeForStatusType, ClientAssumption DEF ClientAssumption
  <2> QED BY <1>9, <2>1, <2>2 DEF Refuse, Settle, Err
<1>10. CASE Chunk(c)
  <2> DEFINE d(kind) == [att |-> i[c], k |-> Len(aggregate[c]) + 1, kind |-> kind]
  <2>1. PICK kind \in Kinds : /\ aggregate' = [aggregate EXCEPT ![c] = Append(@, d(kind))]
                              /\ seen' = [seen EXCEPT ![c] = Append(@, d(kind))]
    BY <1>10 DEF Chunk
  <2>2. aggregate[c] = seen[c] /\ seen[c] \in Seq(Datum)
    BY <1>10 DEF Chunk
  <2>3. d(kind).k = Len(seen[c]) + 1
    BY <2>2
  <2> HIDE DEF d
  <2>4. aggregate'[c] = seen'[c] /\ seen'[c] = Append(seen[c], d(kind))
    BY <2>1, <2>2
  <2>5. \A j \in 1..Len(seen'[c]) : seen'[c][j].k = j
    BY <2>2, <2>3, <2>4
  <2>6. /\ delivered_any'[c] /\ op'[c] = "stream"
        /\ \/ /\ pc'[c] = "decide"
              /\ result'[c] = Ok(aggregate'[c])
           \/ /\ pc'[c] = "sent"
              /\ ~caller_stopped'[c]
    BY <1>10 DEF Chunk, Settle, Stopped
  <2>7. pc'[c] = "decide" => result'[c].ok /\ result'[c].code = "none" /\ result'[c].value = seen'[c]
    BY <2>4, <2>6 DEF Ok
  <2> QED BY <2>4, <2>5, <2>6, <2>7
<1>11. CASE Backoff(c)
  BY <1>11 DEF Backoff, Again, CanRetry
<1>12. CASE Wake(c) \/ Return(c)
  BY <1>12 DEF Wake, Return
<1>13. CASE NextPage(c)
  BY <1>13 DEF NextPage, EnterLoop
<1> QED BY <1>1, <1>2, <1>3, <1>4, <1>5, <1>6, <1>7, <1>8, <1>9, <1>10, <1>11, <1>12,
           <1>13 DEF Step

LEMMA StreamStep == IType /\ StreamInv /\ [Next]_vars => StreamInv'
<1> SUFFICES ASSUME IType, StreamInv, [Next]_vars, NEW d \in Callers PROVE StreamOK(d)'
  BY DEF StreamInv
<1>1. CASE UNCHANGED vars
  <2>1. Same(d)
    BY <1>1 DEF vars, locals, Same
  <2> QED BY <2>1, SameOK DEF StreamInv
<1>2. CASE Next
  <2>1. PICK c \in Callers : Step(c) \/ \E o \in Ops : Invoke(c, o)
    BY <1>2 DEF Next
  <2>2. PICK o \in Ops : Step(c) \/ Invoke(c, o)
    BY <2>1 DEF Ops
  <2>3. CASE d = c
    BY <2>2, <2>3, OwnStep DEF StreamInv
  <2>4. CASE d # c
    BY <2>2, <2>4, OthersSame, SameOK DEF StreamInv
  <2> QED BY <2>3, <2>4
<1> QED BY <1>1, <1>2

LEMMA InitInv == Init => IType /\ StreamInv
<1> SUFFICES ASSUME Init PROVE IType /\ StreamInv
  OBVIOUS
<1>1. metrics \in [Counters -> Nat]
  BY DEF Init, Counters
<1>2. Ok(<<>>) \in Result
  <2>1. <<>> \in Seq(Datum)
    OBVIOUS
  <2> QED BY <2>1, OkType
<1>3. IType
  BY <1>1, <1>2, ClientAssumption, MaxAttemptsType
     DEF Init, IType, TypeOK, CounterOK, ClientAssumption, PcValues, Ops, Counters
<1>4. StreamInv
  BY DEF Init, StreamInv, StreamOK
<1> QED BY <1>3, <1>4

\* The variables of the client have their types in every behaviour, and no with_retry
\* sends more than max(1, max_attempts) attempts (client.cpp:93-97).
THEOREM TypeCorrect == Spec => []TypeOK
<1>1. IType => TypeOK
  BY DEF IType
<1> QED BY <1>1, InitInv, TypeStep, PTL DEF Spec

\* The streams' invariant holds in every behaviour.
THEOREM Invariant == Spec => [](IType /\ StreamInv)
BY InitInv, TypeStep, StreamStep, PTL DEF Spec

\* No caller of stream() ever sees a piece of an answer twice or out of an attempt that
\* was given up (client.cpp:166, 182-183, 202).
THEOREM NeverShownTwice == Spec => []ShownIsAggregate
<1>1. IType /\ StreamInv => ShownIsAggregate
  BY DEF StreamInv, StreamOK, ShownIsAggregate, IType, TypeOK
<1> QED BY <1>1, Invariant, PTL

-----------------------------------------------------------------------------
(* The refinement: what a caller sees of each step is a step of            *)
(* ClientPromise, or nothing.                                              *)

LEMMA PlacesAppend ==
  ASSUME NEW s \in Seq(Datum), NEW d \in Datum
  PROVE  Places(Append(s, d)) = Append(Places(s), d.k)
BY DEF Places, Datum

SeenSame(d) == /\ Phase(d)' = Phase(d) /\ seen'[d] = seen[d]
               /\ caller_stopped'[d] = caller_stopped[d] /\ reply'[d] = reply[d]

LEMMA Stutter ==
  ASSUME IType, IType', \A d \in Callers : SeenSame(d)
  PROVE  UNCHANGED Promise!vars
<1>1. caller_stopped' = caller_stopped
  BY DEF SeenSame, IType, TypeOK
<1>2. [d \in Callers |-> Phase(d)]' = [d \in Callers |-> Phase(d)]
  BY DEF SeenSame
<1>3. [d \in Callers |-> Places(seen[d])]' = [d \in Callers |-> Places(seen[d])]
  BY DEF SeenSame
<1>4. [d \in Callers |-> [reply[d] EXCEPT !.value = Places(@)]]'
        = [d \in Callers |-> [reply[d] EXCEPT !.value = Places(@)]]
  BY DEF SeenSame
<1> QED BY <1>1, <1>2, <1>3, <1>4 DEF Promise!vars

\* The steps inside a call that no caller notices.
LEMMA Unseen ==
  ASSUME IType, StreamInv, NEW c \in Callers,
         \/ Accept(c) \/ Attempt(c) \/ Answer(c) \/ Malformed(c) \/ EndOfStream(c)
         \/ Refuse(c) \/ Break(c) \/ FallSilent(c) \/ TimeOut(c) \/ Backoff(c) \/ Wake(c)
         \/ NextPage(c) /\ page_token[c] # 0,
         NEW d \in Callers
  PROVE  SeenSame(d)
<1> USE DEF SeenSame, Phase, IType, TypeOK, locals, Goto, Settle
<1>1. CASE Accept(c)
  BY <1>1 DEF Accept, EnterLoop
<1>2. CASE Attempt(c)
  <2>1. ~caller_stopped[c]
    BY <1>2 DEF Attempt, StreamInv, StreamOK
  <2> QED BY <1>2, <2>1 DEF Attempt
<1>3. CASE Answer(c)
  BY <1>3 DEF Answer
<1>4. CASE Malformed(c) \/ EndOfStream(c) \/ Break(c)
  BY <1>4 DEF Malformed, EndOfStream, Break
<1>5. CASE Refuse(c)
  BY <1>5 DEF Refuse
<1>6. CASE FallSilent(c) \/ TimeOut(c)
  BY <1>6 DEF FallSilent, TimeOut
<1>7. CASE Backoff(c) \/ Wake(c)
  BY <1>7 DEF Backoff, Wake
<1>8. CASE NextPage(c) /\ page_token[c] # 0
  BY <1>8 DEF NextPage, EnterLoop
<1> QED BY <1>1, <1>2, <1>3, <1>4, <1>5, <1>6, <1>7, <1>8

LEMMA InvokeSeen ==
  ASSUME IType, NEW c \in Callers, NEW o \in Ops, Invoke(c, o)
  PROVE  \E kind \in Promise!Kinds : Promise!Call(c, kind)
<1> DEFINE kind == IF o = "stream" THEN "stream" ELSE "unary"
<1>1. kind \in Promise!Kinds
  BY DEF Promise!Kinds
<1>2. \A d \in Callers : Phase(d)' = IF d = c THEN kind ELSE Phase(d)
  BY DEF Invoke, Goto, Phase, IType, TypeOK
<1>3. \A d \in Callers : seen'[d] = IF d = c THEN <<>> ELSE seen[d]
  BY DEF Invoke, IType, TypeOK
<1>4. Places(<<>>) = <<>>
  BY DEF Places
<1> HIDE DEF kind
<1>5. [d \in Callers |-> Phase(d)]' = [[d \in Callers |-> Phase(d)] EXCEPT ![c] = kind]
  BY <1>2
<1>6. [d \in Callers |-> Places(seen[d])]'
        = [[d \in Callers |-> Places(seen[d])] EXCEPT ![c] = <<>>]
  BY <1>3, <1>4
<1>7. Phase(c) = "idle" /\ caller_stopped' = [caller_stopped EXCEPT ![c] = FALSE] /\ reply' = reply
  BY DEF Invoke, Phase
<1> QED BY <1>1, <1>5, <1>6, <1>7 DEF Promise!Call

LEMMA ChunkSeen ==
  ASSUME IType, StreamInv, NEW c \in Callers, Chunk(c)
  PROVE  Promise!Show(c)
<1> DEFINE d(kind) == [att |-> i[c], k |-> Len(aggregate[c]) + 1, kind |-> kind]
<1>1. PICK kind \in Kinds : seen' = [seen EXCEPT ![c] = Append(@, d(kind))]
  BY DEF Chunk
<1>2. /\ aggregate[c] = seen[c] /\ seen[c] \in Seq(Datum) /\ i[c] \in Nat
      /\ op[c] = "stream" /\ pc[c] = "sent" /\ ~caller_stopped[c]
  <2>1. op[c] = "stream" /\ pc[c] = "sent"
    BY DEF Chunk
  <2>2. aggregate[c] = seen[c] /\ ~caller_stopped[c]
    BY <2>1 DEF StreamInv, StreamOK
  <2>3. seen[c] \in Seq(Datum) /\ i[c] \in 0..(MaxAttempts - 1)
    BY DEF IType, TypeOK
  <2> QED BY <2>1, <2>2, <2>3, MaxAttemptsType
<1>3. d(kind) \in Datum /\ d(kind).k = Len(seen[c]) + 1
  BY <1>2 DEF Datum
<1>4. Len(Places(seen[c])) = Len(seen[c])
  BY <1>2 DEF Places
<1> HIDE DEF d
<1>5. Places(seen'[c]) = Append(Places(seen[c]), Len(Places(seen[c])) + 1)
  BY <1>1, <1>2, <1>3, <1>4, PlacesAppend DEF IType, TypeOK
<1>6. \A e \in Callers \ {c} : seen'[e] = seen[e]
  BY <1>1 DEF IType, TypeOK
<1>7. [e \in Callers |-> Places(seen[e])]'
        = [[e \in Callers |-> Places(seen[e])] EXCEPT ![c] = Append(@, Len(@) + 1)]
  BY <1>5, <1>6
<1>8. \A e \in Callers : Phase(e)' = Phase(e)
  BY <1>2 DEF Chunk, Settle, Goto, Phase, IType, TypeOK
<1>9. [e \in Callers |-> Phase(e)]' = [e \in Callers |-> Phase(e)]
  BY <1>8
<1>10. Phase(c) = "stream"
  BY <1>2 DEF Phase
<1>11. /\ \E stop \in BOOLEAN : caller_stopped' = [caller_stopped EXCEPT ![c] = stop]
       /\ reply' = reply
  BY DEF Chunk
<1>12. [e \in Callers |-> [reply[e] EXCEPT !.value = Places(@)]]'
         = [e \in Callers |-> [reply[e] EXCEPT !.value = Places(@)]]
  BY <1>11
<1> QED BY <1>2, <1>7, <1>9, <1>10, <1>11, <1>12 DEF Promise!Show

\* A call that returns r: its caller's phase and reply change, and nothing else.
Returned(c, r) == /\ pc[c] # "idle"
                  /\ pc' = [pc EXCEPT ![c] = "idle"]
                  /\ reply' = [reply EXCEPT ![c] = r]
                  /\ UNCHANGED <<op, seen, caller_stopped>>

LEMMA ReturnSeen ==
  ASSUME IType, NEW c \in Callers, NEW r \in Result, Returned(c, r),
         \/ r.ok /\ r.code = "none" /\ (op[c] = "stream" => r.value = seen[c])
         \/ ~r.ok /\ r.code \in ErrorCode \cup {"exception"} /\ r.value = <<>>
               /\ (caller_stopped[c] => r.code = "kBlocked")
  PROVE  Promise!Next
<1> DEFINE repl(d) == [reply[d] EXCEPT !.value = Places(@)]
           v == Places(r.value)
<1>1. \A d \in Callers : Phase(d)' = IF d = c THEN "idle" ELSE Phase(d)
  BY DEF Returned, Phase, IType, TypeOK
<1>2. [d \in Callers |-> Phase(d)]' = [[d \in Callers |-> Phase(d)] EXCEPT ![c] = "idle"]
  BY <1>1
<1>3. Phase(c) # "idle" /\ (Phase(c) = "stream" => op[c] = "stream")
  BY DEF Returned, Phase
<1>4. [d \in Callers |-> Places(seen[d])]' = [d \in Callers |-> Places(seen[d])]
  BY DEF Returned
<1>5. reply'[c] = r /\ \A d \in Callers \ {c} : reply'[d] = reply[d]
  BY DEF Returned, IType, TypeOK
<1>6. [r EXCEPT !.value = Places(@)] = [ok |-> r.ok, code |-> r.code, value |-> v]
  BY DEF Result
<1>7. [d \in Callers |-> repl(d)]'
        = [[d \in Callers |-> repl(d)] EXCEPT ![c] = [ok |-> r.ok, code |-> r.code, value |-> v]]
  BY <1>5, <1>6
<1>8. caller_stopped' = caller_stopped
  BY DEF Returned
<1>9. CASE r.ok
  <2>1. Promise!Ok(v) = [ok |-> r.ok, code |-> r.code, value |-> v]
    BY <1>9 DEF Promise!Ok
  <2>2. [d \in Callers |-> [reply'[d] EXCEPT !.value = Places(@)]][c].value = v
    BY <1>5, <1>6
  <2> HIDE DEF repl, v
  <2>3. Phase(c) = "stream" => v = Places(seen[c])
    BY <1>3, <1>9 DEF v
  <2>4. Promise!ReturnOk(c, v)
    BY <1>2, <1>3, <1>4, <1>7, <1>8, <2>1, <2>3 DEF Promise!ReturnOk, repl
  <2>5. \E w \in {[d \in Callers |-> [reply'[d] EXCEPT !.value = Places(@)]][c].value} :
            Promise!ReturnOk(c, w)
    BY <2>2, <2>4
  <2> QED BY <2>5 DEF Promise!Next
<1>10. CASE ~r.ok
  <2>1. v = <<>>
    BY <1>10 DEF Places
  <2>2. Promise!Err(r.code) = [ok |-> r.ok, code |-> r.code, value |-> v]
    BY <1>10, <2>1 DEF Promise!Err, Result
  <2> HIDE DEF v
  <2>3. Promise!ReturnErr(c, r.code)
    BY <1>2, <1>3, <1>4, <1>7, <1>8, <1>10, <2>2 DEF Promise!ReturnErr
  <2> QED BY <1>10, <2>3 DEF Promise!Next
<1> QED BY <1>9, <1>10

LEMMA RefinementStep ==
  ASSUME IType, IType', StreamInv, [Next]_vars
  PROVE  [Promise!Next]_(Promise!vars)
<1>1. CASE UNCHANGED vars
  <2>1. \A d \in Callers : SeenSame(d)
    BY <1>1 DEF vars, locals, SeenSame, Phase
  <2> QED BY <2>1, Stutter
<1>2. CASE \E c \in Callers : \E o \in Ops : Invoke(c, o)
  BY <1>2, InvokeSeen DEF Promise!Next
<1>3. CASE \E c \in Callers : Step(c)
  <2>1. PICK c \in Callers : Step(c)
    BY <1>3
  <2>2. CASE Reject(c)
    <3>1. PICK e \in {"kConfig", "kInvalidArgument"} : reply' = [reply EXCEPT ![c] = Err(e)]
      BY <2>2 DEF Reject
    <3>2. e \in ErrorCode /\ Err(e) \in Result /\ ~Err(e).ok /\ Err(e).code = e
          /\ Err(e).value = <<>>
      BY <3>1, ErrType DEF ErrorCode, Err
    <3>3. ~caller_stopped[c]
      BY <2>2 DEF Reject, StreamInv, StreamOK
    <3>4. Returned(c, Err(e))
      BY <2>2, <3>1 DEF Reject, Returned, locals, Goto
    <3> QED BY <3>2, <3>3, <3>4, ReturnSeen
  <2>3. CASE Throw(c)
    <3> DEFINE e == "exception"
    <3>1. Err(e) \in Result /\ ~Err(e).ok /\ Err(e).code = e /\ Err(e).value = <<>>
      BY ErrType DEF ErrorCode, Err
    <3>2. ~caller_stopped[c]
      BY <2>3 DEF Throw, StreamInv, StreamOK
    <3>3. Returned(c, Err(e))
      BY <2>3 DEF Throw, Returned, locals, Goto
    <3> QED BY <3>1, <3>2, <3>3, ReturnSeen
  <2>4. CASE Chunk(c)
    BY <2>4, ChunkSeen DEF Promise!Next
  <2>5. CASE Return(c)
    <3> DEFINE r == Outcome(c)
    <3>1. pc[c] = "decide" /\ StreamOK(c) /\ result[c] \in Result
      BY <2>5 DEF Return, StreamInv, IType, TypeOK
    <3>2. r \in {result[c], Err("kBlocked")}
      BY DEF Outcome, CheckBlocked
    <3>3. r \in Result
      BY <3>1, <3>2, ErrType DEF ErrorCode
    <3>4. \/ r.ok /\ r.code = "none" /\ (op[c] = "stream" => r.value = seen[c])
          \/ ~r.ok /\ r.code \in ErrorCode /\ r.value = <<>>
                /\ (caller_stopped[c] => r.code = "kBlocked")
      BY <3>1, <3>2 DEF StreamOK, Err, ErrorCode
    <3>5. Returned(c, r)
      BY <2>5 DEF Return, Returned, locals, Goto
    <3> HIDE DEF r
    <3> QED BY <3>3, <3>4, <3>5, ReturnSeen
  <2>6. CASE NextPage(c) /\ page_token[c] = 0
    <3> DEFINE r == Ok(all'[c])
    <3>1. r \in Result /\ r.ok /\ r.code = "none" /\ op[c] = "list_models"
      BY <2>6, OkType DEF NextPage, IType, TypeOK, Ok
    <3>2. Returned(c, r)
      BY <2>6 DEF NextPage, Returned, Goto
    <3> HIDE DEF r
    <3> QED BY <3>1, <3>2, ReturnSeen
  <2>7. CASE \/ Accept(c) \/ Attempt(c) \/ Answer(c) \/ Malformed(c) \/ EndOfStream(c)
             \/ Refuse(c) \/ Break(c) \/ FallSilent(c) \/ TimeOut(c) \/ Backoff(c) \/ Wake(c)
             \/ NextPage(c) /\ page_token[c] # 0
    BY <2>7, Unseen, Stutter
  <2> QED BY <2>1, <2>2, <2>3, <2>4, <2>5, <2>6, <2>7 DEF Step
<1> QED BY <1>1, <1>2, <1>3 DEF Next

LEMMA RefinementInit == Init => Promise!Init
<1> SUFFICES ASSUME Init PROVE Promise!Init
  OBVIOUS
<1>1. [c \in Callers |-> Phase(c)] = [c \in Callers |-> "idle"]
  BY DEF Init, Phase
<1>2. Places(<<>>) = <<>>
  BY DEF Places
<1>3. [c \in Callers |-> Places(seen[c])] = [c \in Callers |-> <<>>]
  BY <1>2 DEF Init
<1>4. \A c \in Callers : [reply[c] EXCEPT !.value = Places(@)] = Promise!Ok(<<>>)
  BY <1>2 DEF Init, Promise!Ok, Ok
<1> QED BY <1>1, <1>3, <1>4 DEF Init, Promise!Init

\* Whatever the network does and however the threads interleave, the client implements
\* ClientPromise, also when a request cannot be encoded (client.cpp:91-108, 159-207).
THEOREM ClientKeepsItsPromise == Spec => Implements
<1>1. IType /\ StreamInv /\ [Next]_vars /\ IType' => [Promise!Next]_(Promise!vars)
  BY RefinementStep
<1> QED BY <1>1, RefinementInit, Invariant, PTL DEF Spec, Implements, Promise!Spec

-----------------------------------------------------------------------------
(* The counters.                                                           *)

AboutToSend == {c \in Callers : pc[c] \in {"loop", "sleep"}}

\* What a step of c does to the number of threads about to send.
LEMMA Joins ==
  ASSUME IType, NEW c \in Callers, NEW l \in {"loop", "sleep"},
         pc[c] \notin {"loop", "sleep"}, Goto(c, l)
  PROVE  Cardinality(AboutToSend') = Cardinality(AboutToSend) + 1
<1>1. IsFiniteSet(AboutToSend)
  BY FS_Subset, ClientAssumption DEF ClientAssumption, AboutToSend
<1>2. c \notin AboutToSend /\ AboutToSend' = AboutToSend \cup {c}
  BY DEF AboutToSend, Goto, IType, TypeOK
<1> QED BY <1>1, <1>2, FS_AddElement

LEMMA Leaves ==
  ASSUME IType, NEW c \in Callers, pc[c] \in {"loop", "sleep"}, Goto(c, "sent")
  PROVE  Cardinality(AboutToSend') = Cardinality(AboutToSend) - 1
<1>1. IsFiniteSet(AboutToSend)
  BY FS_Subset, ClientAssumption DEF ClientAssumption, AboutToSend
<1>2. c \in AboutToSend /\ AboutToSend' = AboutToSend \ {c}
  BY DEF AboutToSend, Goto, IType, TypeOK
<1> QED BY <1>1, <1>2, FS_RemoveElement

LEMMA Stays ==
  ASSUME IType, NEW c \in Callers, NEW l \in PcValues, Goto(c, l) \/ UNCHANGED pc,
         Goto(c, l) => (pc[c] \in {"loop", "sleep"} <=> l \in {"loop", "sleep"})
  PROVE  AboutToSend' = AboutToSend
BY DEF AboutToSend, Goto, IType, TypeOK

LEMMA MetricsStep == IType /\ MetricsConserved /\ [Next]_vars => MetricsConserved'
<1> SUFFICES ASSUME IType, MetricsConserved, [Next]_vars PROVE MetricsConserved'
  OBVIOUS
<1> DEFINE N == Cardinality(AboutToSend)
           Balance == metrics.attempts + N = loops + metrics.retries
<1>1. /\ N \in Nat /\ loops \in Nat /\ metrics \in [Counters -> Nat]
      /\ metrics.attempts \in Nat /\ metrics.retries \in Nat
      /\ metrics.attempts + N = loops + metrics.retries
  <2>1. IsFiniteSet(AboutToSend)
    BY FS_Subset, ClientAssumption DEF ClientAssumption, AboutToSend
  <2> QED BY <2>1, FS_CardinalityType DEF MetricsConserved, AboutToSend, IType, TypeOK, Counters
<1>2. SUFFICES Balance'
  BY DEF MetricsConserved, AboutToSend
<1>3. ASSUME NEW counter \in Counters, Count(counter)
      PROVE  \A n \in Counters : metrics'[n] = IF n = counter THEN metrics[n] + 1 ELSE metrics[n]
  BY <1>1, <1>3 DEF Count
<1>4. CASE UNCHANGED vars
  BY <1>1, <1>4 DEF vars, AboutToSend
<1>5. ASSUME NEW c \in Callers, NEW o \in Ops, Invoke(c, o) PROVE Balance'
  <2>1. N' = N
    BY <1>5, Stays DEF Invoke, PcValues
  <2>2. metrics'.attempts = metrics.attempts /\ metrics'.retries = metrics.retries
    BY <1>3, <1>5 DEF Invoke, Counters
  <2> HIDE DEF N
  <2> QED BY <1>1, <1>5, <2>1, <2>2 DEF Invoke
<1>6. ASSUME NEW c \in Callers, Step(c) PROVE Balance'
  <2>1. CASE Accept(c)
    <3>1. N' = N + 1
      BY <2>1, Joins DEF Accept, EnterLoop
    <3> HIDE DEF N
    <3> QED BY <1>1, <2>1, <3>1 DEF Accept, EnterLoop
  <2>2. CASE Attempt(c)
    <3>1. N' = N - 1
      BY <2>2, Leaves DEF Attempt
    <3>2. metrics'.attempts = metrics.attempts + 1 /\ metrics'.retries = metrics.retries
      BY <1>3, <2>2 DEF Attempt, Counters
    <3>3. loops' = loops
      BY <2>2 DEF Attempt
    <3> HIDE DEF N
    <3> QED BY <1>1, <3>1, <3>2, <3>3
  <2>3. CASE Backoff(c)
    <3>1. N' = N + 1
      BY <2>3, Joins DEF Backoff
    <3>2. metrics'.retries = metrics.retries + 1 /\ metrics'.attempts = metrics.attempts
      BY <1>3, <2>3 DEF Backoff, Counters
    <3> HIDE DEF N
    <3> QED BY <1>1, <2>3, <3>1, <3>2 DEF Backoff
  <2>4. CASE NextPage(c) /\ page_token[c] # 0
    <3>1. EnterLoop(c) /\ pc[c] = "decide" /\ metrics' = metrics
      BY <2>4 DEF NextPage
    <3>2. N' = N + 1
      BY <3>1, Joins DEF EnterLoop
    <3> HIDE DEF N
    <3> QED BY <1>1, <3>1, <3>2 DEF EnterLoop
  <2>5. CASE Return(c)
    <3>1. N' = N
      BY <2>5, Stays DEF Return, PcValues
    <3>2. metrics'.attempts = metrics.attempts /\ metrics'.retries = metrics.retries
      <4>1. metrics' = metrics \/ Count("failures")
        BY <2>5 DEF Return
      <4> QED BY <1>3, <4>1 DEF Counters
    <3> HIDE DEF N
    <3> QED BY <1>1, <2>5, <3>1, <3>2 DEF Return
  <2>6. ASSUME metrics' = metrics, loops' = loops, N' = N PROVE Balance'
    <3> HIDE DEF N
    <3> QED BY <1>1, <2>6
  <2>7. CASE Reject(c) \/ Throw(c) \/ (NextPage(c) /\ page_token[c] = 0)
    <3>1. N' = N
      BY <2>7, Stays DEF Reject, Throw, NextPage, PcValues
    <3> QED BY <2>6, <2>7, <3>1 DEF Reject, Throw, NextPage
  <2>8. CASE Answer(c) \/ Malformed(c) \/ EndOfStream(c) \/ Refuse(c) \/ Break(c) \/ FallSilent(c)
             \/ TimeOut(c)
    <3>1. PICK l \in {"decide", "silent"} : Goto(c, l)
      BY <2>8 DEF Answer, Malformed, EndOfStream, Refuse, Break, FallSilent, TimeOut, Settle
    <3>2. pc[c] \in {"sent", "silent"} /\ metrics' = metrics /\ loops' = loops
      BY <2>8 DEF Answer, Malformed, EndOfStream, Refuse, Break, FallSilent, TimeOut
    <3>3. N' = N
      BY <3>1, <3>2, Stays DEF PcValues
    <3> QED BY <2>6, <3>2, <3>3
  <2>9. CASE Chunk(c)
    <3>1. N' = N
      BY <2>9, Stays DEF Chunk, Settle, PcValues
    <3> QED BY <2>6, <2>9, <3>1 DEF Chunk
  <2>10. CASE Wake(c)
    <3>1. N' = N
      BY <2>10, Stays DEF Wake, PcValues
    <3> QED BY <2>6, <2>10, <3>1 DEF Wake
  <2> QED BY <1>6, <2>1, <2>2, <2>3, <2>4, <2>5, <2>7, <2>8, <2>9, <2>10 DEF Step
<1> QED BY <1>4, <1>5, <1>6 DEF Next

\* The attempts and the retries the client reports add up for every number of threads
\* (client.cpp:95, 105).
THEOREM CountersAddUp == Spec => []MetricsConserved
<1>1. Init => MetricsConserved
  <2> SUFFICES ASSUME Init PROVE MetricsConserved
    OBVIOUS
  <2>1. {c \in Callers : pc[c] \in {"loop", "sleep"}} = {}
    BY DEF Init
  <2> QED BY <2>1, FS_EmptySet DEF Init, MetricsConserved
<1> QED BY <1>1, InitInv, TypeStep, MetricsStep, PTL DEF Spec

-----------------------------------------------------------------------------
(* The list of models. What has been gathered is the pages before the one  *)
(* that is asked for, whatever an attempt that failed has left behind, and *)
(* the token is looked at only after an answer has overwritten it.         *)

InOrder(pages) == \A j \in 1..Len(pages) : pages[j].k = j

ListOK(c) == op[c] = "list_models" =>
    /\ InOrder(all[c])
    /\ pc[c] = "validate" => all[c] = <<>> /\ page_token[c] = 0
    /\ pc[c] \in {"loop", "sent", "silent", "decide", "sleep"} => url[c] = Len(all[c]) + 1
    /\ pc[c] = "decide" /\ result[c].ok =>
          /\ Len(result[c].value) = 1 /\ result[c].value[1].k = url[c]
          /\ page_token[c] = IF url[c] < Pages THEN url[c] + 1 ELSE 0
    /\ pc[c] = "idle" /\ reply[c].ok => Len(reply[c].value) = Pages /\ InOrder(reply[c].value)
ListInv == \A c \in Callers : ListOK(c)

SameList(d) == /\ pc'[d] = pc[d] /\ op'[d] = op[d] /\ url'[d] = url[d] /\ all'[d] = all[d]
               /\ page_token'[d] = page_token[d] /\ result'[d] = result[d] /\ reply'[d] = reply[d]

LEMMA SameListOK ==
  ASSUME NEW d \in Callers, ListOK(d), SameList(d) PROVE ListOK(d)'
BY DEF ListOK, SameList

LEMMA OthersSameList ==
  ASSUME IType, NEW c \in Callers, NEW o \in Ops, Step(c) \/ Invoke(c, o),
         NEW d \in Callers \ {c}
  PROVE  SameList(d)
<1> USE DEF SameList, IType, TypeOK, locals, Goto, Settle
<1>1. CASE Invoke(c, o)
  BY <1>1 DEF Invoke
<1>2. CASE Reject(c) \/ Throw(c)
  BY <1>2 DEF Reject, Throw
<1>3. CASE Accept(c)
  BY <1>3 DEF Accept, EnterLoop
<1>4. CASE Attempt(c)
  BY <1>4 DEF Attempt
<1>5. CASE Answer(c)
  BY <1>5 DEF Answer
<1>6. CASE Malformed(c) \/ EndOfStream(c) \/ Break(c) \/ FallSilent(c) \/ TimeOut(c)
  BY <1>6 DEF Malformed, EndOfStream, Break, FallSilent, TimeOut
<1>7. CASE Refuse(c)
  BY <1>7 DEF Refuse
<1>8. CASE Chunk(c)
  BY <1>8 DEF Chunk
<1>9. CASE Backoff(c) \/ Wake(c) \/ Return(c)
  BY <1>9 DEF Backoff, Wake, Return
<1>10. CASE NextPage(c)
  BY <1>10 DEF NextPage, EnterLoop
<1> QED BY <1>1, <1>2, <1>3, <1>4, <1>5, <1>6, <1>7, <1>8, <1>9, <1>10 DEF Step

\* A page that is the next one, put behind those gathered.
LEMMA PageInOrder ==
  ASSUME NEW pages \in Seq(Datum), NEW page \in Seq(Datum), InOrder(pages),
         Len(page) = 1, page[1].k = Len(pages) + 1
  PROVE  /\ pages \o page \in Seq(Datum)
         /\ Len(pages \o page) = Len(pages) + 1
         /\ InOrder(pages \o page)
<1>0. Len(pages) \in Nat
  OBVIOUS
<1>1. /\ pages \o page \in Seq(Datum) /\ Len(pages \o page) = Len(pages) + 1
      /\ \A j \in 1..(Len(pages) + 1) :
            (pages \o page)[j] = IF j <= Len(pages) THEN pages[j] ELSE page[j - Len(pages)]
  <2>1. /\ pages \o page \in Seq(Datum) /\ Len(pages \o page) = Len(pages) + Len(page)
        /\ \A j \in 1..Len(pages) + Len(page) :
              (pages \o page)[j] = IF j <= Len(pages) THEN pages[j] ELSE page[j - Len(pages)]
    BY ConcatProperties, Zenon
  <2> QED BY <2>1
<1>2. ASSUME NEW j \in 1..(Len(pages) + 1) PROVE (pages \o page)[j].k = j
  <2>1. CASE j <= Len(pages)
    <3>1. (pages \o page)[j] = pages[j] /\ j \in 1..Len(pages)
      BY <1>1, <2>1
    <3> QED BY <3>1 DEF InOrder
  <2>2. CASE j = Len(pages) + 1
    <3>1. (pages \o page)[j] = page[1]
      <4>1. j - Len(pages) = 1 /\ ~(j <= Len(pages))
        BY <1>0, <2>2
      <4>2. (pages \o page)[j] = page[j - Len(pages)]
        BY <1>1, <4>1
      <4> QED BY <4>1, <4>2, Zenon
    <3> QED BY <2>2, <3>1
  <2>3. j <= Len(pages) \/ j = Len(pages) + 1
    BY <1>0
  <2> QED BY <2>1, <2>2, <2>3, Zenon
<1> QED BY <1>1, <1>2 DEF InOrder

LEMMA OwnListStep ==
  ASSUME IType, NEW c \in Callers, ListOK(c), NEW o \in Ops, Step(c) \/ Invoke(c, o)
  PROVE  ListOK(c)'
<1>1. CASE Invoke(c, o)
  <2>1. /\ pc'[c] = "validate" /\ all'[c] = <<>> /\ page_token'[c] = 0
    BY <1>1 DEF Invoke, Goto, IType, TypeOK
  <2> QED BY <2>1 DEF ListOK, InOrder
<1>2. CASE Reject(c) \/ Throw(c)
  <2>1. pc'[c] = "idle" /\ ~reply'[c].ok /\ op'[c] = op[c] /\ all'[c] = all[c]
    BY <1>2 DEF Reject, Throw, Goto, Err, locals, IType, TypeOK
  <2> QED BY <2>1 DEF ListOK
<1>3. CASE Accept(c)
  <2>1. /\ pc[c] = "validate" /\ pc'[c] = "loop" /\ op'[c] = op[c] /\ all'[c] = all[c]
        /\ page_token[c] = 0 => url'[c] = 1
    BY <1>3 DEF Accept, EnterLoop, Goto, IType, TypeOK
  <2> QED BY <2>1 DEF ListOK
<1>4. CASE Attempt(c) \/ Wake(c) \/ FallSilent(c)
  <2>1. /\ pc[c] \in {"loop", "sent", "sleep"} /\ pc'[c] \in {"loop", "sent", "silent"}
        /\ op'[c] = op[c] /\ all'[c] = all[c] /\ url'[c] = url[c]
    BY <1>4 DEF Attempt, Wake, FallSilent, Goto, locals, IType, TypeOK
  <2> QED BY <2>1 DEF ListOK
<1>5. CASE Answer(c)
  <2>1. /\ pc[c] = "sent" /\ pc'[c] = "decide" /\ op'[c] = op[c] /\ all'[c] = all[c]
        /\ url'[c] = url[c]
    BY <1>5 DEF Answer, Settle, Goto, IType, TypeOK
  <2> DEFINE page == [att |-> i[c], k |-> url[c], kind |-> "page"]
  <2>2. ASSUME op[c] = "list_models"
        PROVE  /\ result'[c].value = <<page>>
               /\ page_token'[c] = IF url[c] < Pages THEN url[c] + 1 ELSE 0
    BY <1>5, <2>2 DEF Answer, Settle, Ok, IType, TypeOK
  <2>3. Len(<<page>>) = 1 /\ <<page>>[1] = page /\ page.k = url[c]
    OBVIOUS
  <2> HIDE DEF page
  <2> QED BY <2>1, <2>2, <2>3 DEF ListOK
<1>6. CASE Malformed(c) \/ Refuse(c) \/ Break(c) \/ TimeOut(c)
  <2>1. \E e : Settle(c, Err(e))
    BY <1>6 DEF Malformed, Refuse, Break, TimeOut
  <2>2. pc'[c] = "decide" /\ ~result'[c].ok
    BY <2>1 DEF Settle, Goto, Err, IType, TypeOK
  <2>3. /\ pc[c] \in {"sent", "silent"} /\ op'[c] = op[c] /\ all'[c] = all[c] /\ url'[c] = url[c]
    BY <1>6 DEF Malformed, Refuse, Break, TimeOut, locals
  <2> QED BY <2>2, <2>3 DEF ListOK
<1>7. CASE Chunk(c) \/ EndOfStream(c)
  <2>1. op'[c] = "stream"
    BY <1>7 DEF Chunk, EndOfStream, locals
  <2> QED BY <2>1 DEF ListOK
<1>8. CASE Backoff(c)
  <2>1. /\ pc[c] = "decide" /\ pc'[c] = "sleep"
        /\ op'[c] = op[c] /\ all'[c] = all[c] /\ url'[c] = url[c]
    BY <1>8 DEF Backoff, Goto, locals, IType, TypeOK
  <2> QED BY <2>1 DEF ListOK
<1>9. CASE Return(c)
  <2>1. pc'[c] = "idle" /\ op'[c] = op[c] /\ all'[c] = all[c] /\ reply'[c] = Outcome(c)
    BY <1>9 DEF Return, Goto, locals, IType, TypeOK
  <2>2. op[c] = "list_models" => ~reply'[c].ok
    BY <1>9, <2>1 DEF Return, Outcome
  <2> QED BY <2>1, <2>2 DEF ListOK
<1>10. CASE NextPage(c)
  <2> DEFINE gathered == all[c] \o result[c].value
  <2>1. /\ pc[c] = "decide" /\ op[c] = "list_models" /\ result[c].ok /\ op'[c] = op[c]
        /\ all'[c] = gathered
    BY <1>10 DEF NextPage, Gathered, IType, TypeOK
  <2>2. /\ all[c] \in Seq(Datum) /\ result[c].value \in Seq(Datum) /\ InOrder(all[c])
        /\ Len(result[c].value) = 1 /\ result[c].value[1].k = Len(all[c]) + 1
        /\ url[c] = Len(all[c]) + 1 /\ url[c] \in 1..Pages
        /\ page_token[c] = IF url[c] < Pages THEN url[c] + 1 ELSE 0
    BY <2>1 DEF ListOK, IType, TypeOK, Result
  <2>3. gathered \in Seq(Datum) /\ Len(gathered) = url[c] /\ InOrder(gathered)
    BY <2>2, PageInOrder
  <2> HIDE DEF gathered
  <2>4. CASE page_token[c] = 0
    <3>1. Len(gathered) = Pages
      BY <2>2, <2>3, <2>4, ClientAssumption DEF ClientAssumption
    <3>2. reply'[c] = Ok(all'[c]) /\ pc'[c] = "idle"
      BY <1>10, <2>4 DEF NextPage, Goto, IType, TypeOK
    <3> QED BY <2>1, <2>3, <3>1, <3>2 DEF ListOK, Ok
  <2>5. CASE page_token[c] # 0
    <3>1. pc'[c] = "loop" /\ url'[c] = page_token[c]
      BY <1>10, <2>5 DEF NextPage, EnterLoop, Goto, IType, TypeOK
    <3>2. page_token[c] = Len(gathered) + 1
      BY <2>2, <2>3, <2>5
    <3> QED BY <2>1, <2>3, <3>1, <3>2 DEF ListOK
  <2> QED BY <2>4, <2>5
<1> QED BY <1>1, <1>2, <1>3, <1>4, <1>5, <1>6, <1>7, <1>8, <1>9, <1>10 DEF Step

LEMMA ListStep == IType /\ ListInv /\ [Next]_vars => ListInv'
<1> SUFFICES ASSUME IType, ListInv, [Next]_vars, NEW d \in Callers PROVE ListOK(d)'
  BY DEF ListInv
<1>1. CASE UNCHANGED vars
  <2>1. SameList(d)
    BY <1>1 DEF vars, locals, SameList
  <2> QED BY <2>1, SameListOK DEF ListInv
<1>2. CASE Next
  <2>1. PICK c \in Callers : Step(c) \/ \E o \in Ops : Invoke(c, o)
    BY <1>2 DEF Next
  <2>2. PICK o \in Ops : Step(c) \/ Invoke(c, o)
    BY <2>1 DEF Ops
  <2>3. CASE d = c
    BY <2>2, <2>3, OwnListStep DEF ListInv
  <2>4. CASE d # c
    BY <2>2, <2>4, OthersSameList, SameListOK DEF ListInv
  <2> QED BY <2>3, <2>4
<1> QED BY <1>1, <1>2

\* list_models() returns every page once and in order, however often a page is asked for
\* and whatever other threads do (client.cpp:230-258).
THEOREM ListIsComplete == Spec => []ModelsComplete
<1>1. Init => ListInv
  BY DEF Init, ListInv, ListOK
<1>2. IType /\ ListInv => ModelsComplete
  <2> SUFFICES ASSUME IType, ListInv, NEW c \in Callers,
                      pc[c] = "idle", op[c] = "list_models", reply[c].ok
               PROVE  [j \in 1..Len(reply[c].value) |-> reply[c].value[j].k]
                        = [p \in 1..Pages |-> p]
    BY DEF ModelsComplete
  <2>1. Len(reply[c].value) = Pages /\ InOrder(reply[c].value)
    BY DEF ListInv, ListOK
  <2> QED BY <2>1 DEF InOrder
<1> QED BY <1>1, <1>2, InitInv, TypeStep, ListStep, PTL DEF Spec

=============================================================================
