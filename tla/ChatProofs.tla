------------------------------ MODULE ChatProofs ------------------------------
(***************************************************************************)
(* ChatSession, for every limit of tool rounds, with and without tools:    *)
(* send() is all or nothing, its requests are well formed and bounded. And *)
(* Repl: the REPL uses its session as any program might, so all this holds *)
(* of a chat, and Ctrl-C is for the reply it was pressed in.               *)
(***************************************************************************)
EXTENDS Repl, TLAPS, SequenceTheorems

\* The history a send() has pushed so far is the one it found, a turn of the user, and a
\* pair of turns for each round of tools.
Extends == /\ checkpoint = Len(before)
           /\ Len(history) > checkpoint
           /\ \A j \in 1..checkpoint : history[j] = before[j]

\* No call is left without responses, and none is pending after the last turn.
Settled == /\ Tools => Answered(history)
           /\ Tools /\ history # <<>> => history[Len(history)].n = 0

\* What holds of the turns as long as no exception has left a send().
Shape ==
    /\ Alternates(history)
    /\ at = "idle" => Len(history) % 2 = 0 /\ Settled
    /\ at \in {"loop", "asking"} => Len(history) % 2 = 1 /\ (Tools => Answered(history))
    /\ at = "tools" => /\ Len(history) % 2 = 0
                       /\ Answered(history)
                       /\ history[Len(history)].n = results.calls
    /\ at # "idle" => /\ Alternates(before) /\ Len(before) % 2 = 0
                      /\ Tools => Answered(before)
                      /\ Tools /\ before # <<>> => before[Len(before)].n = 0

Inv ==
    /\ TypeOK
    /\ at # "idle" => Extends
    /\ at = "tools" => Tools
    /\ RoundsBounded
    /\ ~raised => Shape

LEMMA PrefixRestored ==
  ASSUME NEW h \in Seq(Turns), NEW b \in Seq(Turns), Len(h) >= Len(b),
         \A j \in 1..Len(b) : h[j] = b[j]
  PROVE  SubSeq(h, 1, Len(b)) = b
<1> DEFINE s == SubSeq(h, 1, Len(b))
<1>1. Len(b) \in 0..Len(h)
  OBVIOUS
<1>2. s \in Seq(Turns) /\ Len(s) = Len(b) /\ \A j \in 1..Len(b) : s[j] = h[j]
  BY <1>1, SubSeqProperties
<1> HIDE DEF s
<1>3. Len(s) = Len(b) /\ \A j \in 1..Len(s) : s[j] = b[j]
  BY <1>2
<1> QED BY <1>2, <1>3, SeqEqual DEF s

\* A turn added at the end keeps the alternation when its role is the next one.
LEMMA PushTurn ==
  ASSUME NEW h \in Seq(Turns), NEW n \in Nat, NEW role \in {"user", "model"}
  PROVE  /\ Append(h, Turn(role, n)) \in Seq(Turns)
         /\ Len(Append(h, Turn(role, n))) = Len(h) + 1
         /\ Append(h, Turn(role, n))[Len(h) + 1] = Turn(role, n)
         /\ \A j \in 1..Len(h) : Append(h, Turn(role, n))[j] = h[j]
         /\ Alternates(h) /\ role = (IF Len(h) % 2 = 0 THEN "user" ELSE "model")
               => Alternates(Append(h, Turn(role, n)))
<1> DEFINE t == Turn(role, n)
<1>1. t \in Turns /\ t.role = role
  BY DEF Turn, Turns
<1> HIDE DEF t
<1>2. /\ Append(h, t) \in Seq(Turns) /\ Len(Append(h, t)) = Len(h) + 1
      /\ Append(h, t)[Len(h) + 1] = t
      /\ \A j \in 1..Len(h) : Append(h, t)[j] = h[j]
  BY <1>1, AppendProperties
<1>3. Alternates(h) /\ role = (IF Len(h) % 2 = 0 THEN "user" ELSE "model")
        => Alternates(Append(h, t))
  <2> SUFFICES ASSUME Alternates(h), role = IF Len(h) % 2 = 0 THEN "user" ELSE "model",
                      NEW j \in 1..(Len(h) + 1)
               PROVE  Append(h, t)[j].role = IF j % 2 = 1 THEN "user" ELSE "model"
    BY <1>2 DEF Alternates
  <2>1. CASE j \in 1..Len(h)
    BY <1>2, <2>1 DEF Alternates
  <2>2. CASE j = Len(h) + 1
    <3>1. Len(h) \in Nat
      OBVIOUS
    <3>2. (Len(h) % 2 = 0) <=> (j % 2 = 1)
      BY <2>2, <3>1
    <3> QED BY <1>1, <1>2, <2>2, <3>2
  <2> QED BY <2>1, <2>2
<1> QED BY <1>2, <1>3 DEF t

LEMMA PushAnswered ==
  ASSUME NEW h \in Seq(Turns), NEW t \in Turns, Answered(h),
         h # <<>> => h[Len(h)].role = "user" \/ t.n = h[Len(h)].n
  PROVE  Answered(Append(h, t))
<1>1. /\ Append(h, t) \in Seq(Turns) /\ Len(Append(h, t)) = Len(h) + 1
      /\ Append(h, t)[Len(h) + 1] = t
      /\ \A j \in 1..Len(h) : Append(h, t)[j] = h[j]
  BY AppendProperties
<1> SUFFICES ASSUME NEW j \in 1..Len(h), Append(h, t)[j].role = "model"
             PROVE  Append(h, t)[j + 1].n = Append(h, t)[j].n
  BY <1>1 DEF Answered
<1>2. Len(h) \in Nat /\ h # <<>>
  OBVIOUS
<1>3. CASE j = Len(h)
  <2>1. h[j].role = "model"
    BY <1>1
  <2> QED BY <1>1, <1>2, <1>3, <2>1
<1>4. CASE j # Len(h)
  <2>1. j \in 1..(Len(h) - 1) /\ j + 1 \in 1..Len(h)
    BY <1>2, <1>4
  <2> QED BY <1>1, <2>1 DEF Answered
<1> QED BY <1>3, <1>4

\* A send() that fails gives back the history it found, and with it all that was known
\* of that history.
LEMMA RollbackOK ==
  ASSUME Inv, at # "idle", NEW e \in ErrorCode, Rollback(e), usage' \in Nat,
         phase' \in [{me} -> {"idle"} \cup Client!Kinds], stopped' \in [{me} -> BOOLEAN],
         UNCHANGED <<streamed, checkpoint, round, results, before, raised>>
  PROVE  Inv' /\ history' = before
<1>1. history' = before /\ at' = "idle" /\ outcome' = e
  <2>1. /\ history \in Seq(Turns) /\ before \in Seq(Turns) /\ checkpoint = Len(before)
        /\ Len(history) >= Len(before) /\ \A j \in 1..Len(before) : history[j] = before[j]
    BY DEF Inv, TypeOK, Extends
  <2> QED BY <2>1, PrefixRestored DEF Rollback, Leave
<1>2. TypeOK'
  BY <1>1 DEF Inv, TypeOK
<1>3. RoundsBounded'
  BY <1>1 DEF RoundsBounded
<1>4. ~raised => Shape'
  BY <1>1 DEF Inv, Shape, Settled, Alternates, Answered
<1> QED BY <1>1, <1>2, <1>3, <1>4 DEF Inv

LEMMA ClientTypes ==
  ASSUME TypeOK
  PROVE  /\ \A kind \in Client!Kinds : Client!Call(me, kind) =>
               /\ phase' \in [{me} -> {"idle"} \cup Client!Kinds]
               /\ stopped' \in [{me} -> BOOLEAN]
         /\ Client!Show(me) =>
               /\ phase' \in [{me} -> {"idle"} \cup Client!Kinds]
               /\ stopped' \in [{me} -> BOOLEAN]
         /\ \A v : Client!ReturnOk(me, v) =>
               /\ phase' \in [{me} -> {"idle"} \cup Client!Kinds]
               /\ stopped' \in [{me} -> BOOLEAN]
         /\ \A e : Client!ReturnErr(me, e) =>
               /\ phase' \in [{me} -> {"idle"} \cup Client!Kinds]
               /\ stopped' \in [{me} -> BOOLEAN]
BY DEF TypeOK, Client!Call, Client!Show, Client!ReturnOk, Client!ReturnErr

LEMMA SendStep == ASSUME Inv, NEW b \in BOOLEAN, send(b) PROVE Inv'
<1>1. history \in Seq(Turns) /\ Len(history) \in Nat /\ at = "idle"
  BY DEF Inv, TypeOK, send
<1> DEFINE t == Turn("user", 0)
<1>2. history' = Append(history, t) /\ before' = history /\ checkpoint' = Len(history)
      /\ round' = 0 /\ at' = "loop" /\ raised' = raised
  BY DEF send
<1>3. t \in Turns /\ t.n = 0
  BY DEF Turn, Turns
<1>4. /\ history' \in Seq(Turns) /\ Len(history') = Len(history) + 1
      /\ \A j \in 1..Len(history) : history'[j] = history[j]
      /\ Alternates(history) /\ Len(history) % 2 = 0 => Alternates(history)'
  BY <1>1, <1>2, PushTurn DEF Alternates
<1> HIDE DEF t
<1>5. TypeOK'
  <2>1. /\ UNCHANGED <<clientVars, usage, results, outcome, raised>> /\ streamed' = b
    BY DEF send
  <2>2. history' \in Seq(Turns) /\ before' \in Seq(Turns) /\ checkpoint' \in Nat
        /\ round' \in Nat /\ at' \in {"idle", "loop", "asking", "tools"}
    BY <1>1, <1>2, <1>4
  <2> QED BY <2>1, <2>2 DEF Inv, TypeOK, clientVars
<1>6. Extends' /\ RoundsBounded'
  BY <1>1, <1>2, <1>4 DEF Extends, RoundsBounded
<1>7. ~raised => Shape'
  <2> SUFFICES ASSUME ~raised PROVE Shape'
    OBVIOUS
  <2>1. Alternates(history) /\ Len(history) % 2 = 0 /\ Settled
    BY <1>1 DEF Inv, Shape
  <2>2. Len(history') % 2 = 1
    BY <1>1, <1>4, <2>1
  <2>3. Tools => Answered(history)'
    <3>1. SUFFICES ASSUME Tools PROVE Answered(Append(history, t))
      BY <1>2 DEF Answered
    <3>2. Answered(history) /\ (history # <<>> => history[Len(history)].n = t.n)
      BY <1>3, <2>1, <3>1 DEF Settled
    <3> QED BY <1>1, <1>3, <3>2, PushAnswered
  <2>4. Alternates(before)' /\ Len(before') % 2 = 0 /\ (Tools => Answered(before)')
        /\ (Tools /\ before' # <<>> => before'[Len(before')].n = 0)
    BY <1>2, <2>1 DEF Settled, Alternates, Answered
  <2> QED BY <1>2, <1>4, <2>1, <2>2, <2>3, <2>4 DEF Shape
<1> QED BY <1>2, <1>5, <1>6, <1>7 DEF Inv

LEMMA ReplyStep ==
  ASSUME Inv, NEW calls \in 0..MaxCalls, Reply(calls)
  PROVE  /\ Inv'
         /\ at' = "idle" => /\ outcome' = "ok"
                            /\ SubSeq(history', 1, Len(before)) = before
                            /\ history'[Len(history')].role = "model"
                            /\ Tools => history'[Len(history')].n = 0
<1> DEFINE t == Turn("model", calls)
<1>1. /\ history \in Seq(Turns) /\ Len(history) \in Nat /\ at = "asking" /\ calls \in Nat
      /\ Extends /\ RoundsBounded /\ TypeOK
  BY ChatAssumption DEF Inv, TypeOK, Reply, ChatAssumption
<1>2. history' = Append(history, t) /\ UNCHANGED <<before, checkpoint, round, raised>>
  BY DEF Reply
<1>3. t \in Turns /\ t.n = calls /\ t.role = "model"
  BY <1>1 DEF Turn, Turns
<1>4. /\ history' \in Seq(Turns) /\ Len(history') = Len(history) + 1
      /\ history'[Len(history')] = t
      /\ \A j \in 1..Len(history) : history'[j] = history[j]
      /\ Alternates(history) /\ Len(history) % 2 = 1 => Alternates(history)'
  <2> HIDE DEF t
  <2>1. /\ Append(history, t) \in Seq(Turns) /\ Len(Append(history, t)) = Len(history) + 1
        /\ Append(history, t)[Len(history) + 1] = t
        /\ \A j \in 1..Len(history) : Append(history, t)[j] = history[j]
        /\ Alternates(history) /\ "model" = (IF Len(history) % 2 = 0 THEN "user" ELSE "model")
              => Alternates(Append(history, t))
    BY <1>1, PushTurn DEF t
  <2>2. Len(history) % 2 = 1 => "model" = (IF Len(history) % 2 = 0 THEN "user" ELSE "model")
    BY <1>1
  <2> QED BY <1>2, <2>1, <2>2 DEF Alternates
<1> HIDE DEF t
<1>5. /\ phase' \in [{me} -> {"idle"} \cup Client!Kinds] /\ stopped' \in [{me} -> BOOLEAN]
  BY <1>1, ClientTypes DEF Reply, Responds
<1>6. TypeOK'
  BY <1>1, <1>2, <1>4, <1>5 DEF TypeOK, Reply, Leave
<1>7. Extends'
  BY <1>1, <1>2, <1>4 DEF Extends
<1>8. SubSeq(history', 1, Len(before)) = before
  <2>1. /\ history' \in Seq(Turns) /\ before \in Seq(Turns) /\ before' = before
        /\ Len(history') >= Len(before) /\ \A j \in 1..Len(before) : history'[j] = before[j]
    BY <1>1, <1>2, <1>4, <1>7 DEF Extends, TypeOK
  <2> QED BY <2>1, PrefixRestored
<1>9. ~raised => /\ Alternates(history)' /\ Len(history') % 2 = 0
                 /\ Tools => Answered(history)'
                 /\ Alternates(before)' /\ Len(before') % 2 = 0
                 /\ Tools => Answered(before)'
                 /\ Tools /\ before' # <<>> => before'[Len(before')].n = 0
  <2> SUFFICES ASSUME ~raised PROVE
                 /\ Alternates(history)' /\ Len(history') % 2 = 0
                 /\ Tools => Answered(history)'
                 /\ Alternates(before)' /\ Len(before') % 2 = 0
                 /\ Tools => Answered(before)'
                 /\ Tools /\ before' # <<>> => before'[Len(before')].n = 0
    OBVIOUS
  <2>1. Alternates(history) /\ Len(history) % 2 = 1 /\ (Tools => Answered(history))
    BY <1>1 DEF Inv, Shape
  <2>2. Len(history') % 2 = 0
    BY <1>1, <1>4, <2>1
  <2>3. Tools => Answered(history)'
    <3>1. SUFFICES ASSUME Tools PROVE Answered(Append(history, t))
      BY <1>2 DEF Answered
    <3>2. history[Len(history)].role = "user"
      BY <1>1, <2>1 DEF Alternates
    <3> QED BY <1>1, <1>3, <2>1, <3>1, <3>2, PushAnswered
  <2>4. Alternates(before)' /\ Len(before') % 2 = 0 /\ (Tools => Answered(before)')
        /\ (Tools /\ before' # <<>> => before'[Len(before')].n = 0)
    BY <1>1, <1>2 DEF Inv, Shape, Alternates, Answered
  <2> QED BY <1>4, <2>1, <2>2, <2>3, <2>4
<1>10. CASE calls = 0 \/ ~Tools
  <2>1. at' = "idle" /\ outcome' = "ok"
    BY <1>10 DEF Reply, Leave
  <2>2. RoundsBounded'
    BY <2>1 DEF RoundsBounded
  <2>3. ~raised => Shape'
    BY <1>3, <1>4, <1>9, <1>10, <2>1 DEF Shape, Settled
  <2> QED BY <1>2, <1>3, <1>4, <1>6, <1>8, <1>10, <2>1, <2>2, <2>3 DEF Inv
<1>11. CASE ~(calls = 0 \/ ~Tools)
  <2>1. at' = "tools" /\ results' = [calls |-> calls, done |-> 0] /\ Tools
    BY <1>11, ChatAssumption DEF Reply, ChatAssumption
  <2>2. RoundsBounded'
    <3>1. round \in Nat /\ Len(before) \in Nat /\ round <= max_tool_rounds
          /\ Len(history) = Len(before) + 2 * round + 1
      BY <1>1 DEF RoundsBounded, TypeOK
    <3>2. Len(history') = Len(before') + 2 * round' + 2
      BY <1>2, <1>4, <3>1
    <3> QED BY <1>2, <2>1, <3>1, <3>2 DEF RoundsBounded
  <2>3. history'[Len(history')].n = results'.calls
    BY <1>3, <1>4, <2>1
  <2>4. ~raised => Shape'
    BY <1>9, <2>1, <2>3 DEF Shape
  <2> QED BY <1>2, <1>6, <1>7, <2>1, <2>2, <2>4 DEF Inv
<1> QED BY <1>10, <1>11

LEMMA FeedBackStep == ASSUME Inv, FeedBack PROVE Inv'
<1> DEFINE t == Turn("user", results.done)
<1>1. /\ history \in Seq(Turns) /\ Len(history) \in Nat /\ Tools /\ results.done \in Nat
      /\ results.done = results.calls /\ at = "tools" /\ Extends /\ RoundsBounded /\ TypeOK
  BY DEF Inv, TypeOK, FeedBack
<1>2. history' = Append(history, t) /\ UNCHANGED <<before, checkpoint, raised>>
      /\ round' = round + 1 /\ at' = "loop"
  BY DEF FeedBack
<1>3. t \in Turns /\ t.n = results.done
  BY <1>1 DEF Turn, Turns
<1>4. /\ history' \in Seq(Turns) /\ Len(history') = Len(history) + 1
      /\ \A j \in 1..Len(history) : history'[j] = history[j]
      /\ Alternates(history) /\ Len(history) % 2 = 0 => Alternates(history)'
  BY <1>1, <1>2, PushTurn DEF Alternates
<1> HIDE DEF t
<1>5. TypeOK'
  BY <1>1, <1>2, <1>4 DEF TypeOK, FeedBack, clientVars, NoResults
<1>6. Extends'
  BY <1>1, <1>2, <1>4 DEF Extends
<1>7. RoundsBounded'
  <2>1. round \in Nat /\ Len(before) \in Nat /\ Len(history) = Len(before) + 2 * round + 2
    BY <1>1 DEF RoundsBounded, TypeOK
  <2> QED BY <1>2, <1>4, <2>1 DEF RoundsBounded
<1>8. ~raised => Shape'
  <2> SUFFICES ASSUME ~raised PROVE Shape'
    OBVIOUS
  <2>1. /\ Alternates(history) /\ Len(history) % 2 = 0 /\ Answered(history)
        /\ history[Len(history)].n = results.done
    BY <1>1 DEF Inv, Shape
  <2>2. Answered(history)'
    BY <1>1, <1>2, <1>3, <2>1, PushAnswered DEF Answered
  <2>3. Len(history') % 2 = 1
    BY <1>1, <1>4, <2>1
  <2>4. Alternates(before)' /\ Len(before') % 2 = 0 /\ (Tools => Answered(before)')
        /\ (Tools /\ before' # <<>> => before'[Len(before')].n = 0)
    BY <1>1, <1>2 DEF Inv, Shape, Alternates, Answered
  <2> QED BY <1>2, <1>4, <2>1, <2>2, <2>3, <2>4 DEF Shape
<1> QED BY <1>2, <1>5, <1>6, <1>7, <1>8 DEF Inv

\* The steps that leave the history and the checkpoint alone.
LEMMA QuietStep ==
  ASSUME Inv, Ask \/ Chunk \/ RunTool
  PROVE  Inv' /\ at' # "idle"
<1>1. UNCHANGED <<history, before, checkpoint, round, streamed, usage, outcome, raised>>
  BY DEF Ask, Chunk, RunTool
<1>2. Alternates(history)' = Alternates(history) /\ Answered(history)' = Answered(history)
      /\ Alternates(before)' = Alternates(before) /\ Answered(before)' = Answered(before)
      /\ (Extends => Extends')
  BY <1>1 DEF Inv, Alternates, Answered, Extends
<1>3. CASE Ask
  <2>1. (IF streamed THEN "stream" ELSE "unary") \in Client!Kinds
    BY DEF Client!Kinds
  <2>2. phase' \in [{me} -> {"idle"} \cup Client!Kinds] /\ stopped' \in [{me} -> BOOLEAN]
    BY <1>3, <2>1, ClientTypes DEF Ask, Inv
  <2>3. TypeOK'
    BY <1>1, <1>3, <2>2 DEF Inv, TypeOK, Ask
  <2>4. RoundsBounded'
    BY <1>1, <1>3 DEF Inv, RoundsBounded, Ask, MayAsk
  <2>5. at = "loop" /\ at' = "asking"
    BY <1>3 DEF Ask
  <2>6. ~raised => Shape'
    BY <1>1, <1>2, <2>5 DEF Inv, Shape
  <2> QED BY <1>1, <1>2, <2>3, <2>4, <2>5, <2>6 DEF Inv
<1>4. CASE Chunk
  <2>1. phase' \in [{me} -> {"idle"} \cup Client!Kinds] /\ stopped' \in [{me} -> BOOLEAN]
    BY <1>4, ClientTypes DEF Chunk, Inv
  <2>3. TypeOK'
    BY <1>1, <1>4, <2>1 DEF Inv, TypeOK, Chunk
  <2>4. RoundsBounded'
    BY <1>1, <1>4 DEF Inv, RoundsBounded, Chunk
  <2>5. at = "asking" /\ at' = "asking"
    BY <1>4 DEF Chunk
  <2>6. ~raised => Shape'
    BY <1>1, <1>2, <2>5 DEF Inv, Shape
  <2> QED BY <1>1, <1>2, <2>3, <2>4, <2>5, <2>6 DEF Inv
<1>5. CASE RunTool
  <2>1. TypeOK'
    <3>1. results.calls \in Nat /\ results.done \in Nat
          /\ results' = [results EXCEPT !.done = results.done + 1]
      BY <1>5 DEF Inv, TypeOK, RunTool
    <3>2. results' \in [calls : Nat, done : Nat]
      BY <3>1, <1>5 DEF Inv, TypeOK
    <3>3. phase' = phase /\ stopped' = stopped /\ at' = at
      BY <1>5 DEF RunTool, clientVars
    <3> QED BY <1>1, <3>2, <3>3 DEF Inv, TypeOK
  <2>2. results'.calls = results.calls
    BY <1>5 DEF RunTool, Inv, TypeOK
  <2>3. RoundsBounded'
    BY <1>1, <1>5 DEF Inv, RoundsBounded, RunTool
  <2>4. at = "tools" /\ at' = "tools"
    BY <1>5 DEF RunTool
  <2>5. ~raised => Shape'
    BY <1>1, <1>2, <2>2, <2>4 DEF Inv, Shape
  <2> QED BY <1>1, <1>2, <2>1, <2>3, <2>4, <2>5 DEF Inv
<1> QED BY <1>3, <1>4, <1>5

LEMMA FailedStep ==
  ASSUME Inv, GiveUp \/ Fail \/ NoCandidates
  PROVE  Inv' /\ history' = before /\ outcome' \in ErrorCode
<1> SUFFICES \E e \in ErrorCode :
        /\ Rollback(e) /\ at # "idle" /\ usage' \in Nat
        /\ phase' \in [{me} -> {"idle"} \cup Client!Kinds] /\ stopped' \in [{me} -> BOOLEAN]
        /\ UNCHANGED <<streamed, checkpoint, round, results, before, raised>>
  BY RollbackOK DEF Rollback, Leave
<1>1. CASE GiveUp
  BY <1>1, ChatAssumption DEF GiveUp, clientVars, Inv, TypeOK, ChatAssumption
<1>2. CASE Fail
  BY <1>2, ClientTypes DEF Fail, Inv, TypeOK
<1>3. CASE NoCandidates
  <2>1. phase' \in [{me} -> {"idle"} \cup Client!Kinds] /\ stopped' \in [{me} -> BOOLEAN]
    BY <1>3, ClientTypes DEF NoCandidates, Responds, Inv
  <2> QED BY <1>3, <2>1, ChatAssumption DEF NoCandidates, Inv, TypeOK, ChatAssumption
<1> QED BY <1>1, <1>2, <1>3

\* An exception leaves the turns where they are and gives up their shape.
LEMMA RaiseStep == ASSUME Inv, Raise PROVE Inv' /\ outcome' = "exception"
<1>1. /\ at' = "idle" /\ outcome' = "exception" /\ raised' = TRUE
      /\ UNCHANGED <<streamed, history, usage, checkpoint, round, results, before>>
  BY DEF Raise, Leave
<1>2. phase' \in [{me} -> {"idle"} \cup Client!Kinds] /\ stopped' \in [{me} -> BOOLEAN]
  <2>1. CASE Client!ReturnErr(me, "exception")
    BY <2>1, ClientTypes DEF Inv
  <2>2. CASE UNCHANGED clientVars
    BY <2>2 DEF clientVars, Inv, TypeOK
  <2> QED BY <2>1, <2>2 DEF Raise
<1>3. TypeOK'
  BY <1>1, <1>2 DEF Inv, TypeOK
<1> QED BY <1>1, <1>3 DEF Inv, RoundsBounded

LEMMA ResetStep == ASSUME Inv, reset PROVE Inv'
<1>1. history' = <<>> /\ at' = "idle" /\ at = "idle" /\ usage' = 0 /\ raised' = FALSE
  BY DEF reset
<1>2. TypeOK'
  <2>1. history' \in Seq(Turns) /\ usage' \in Nat
    BY <1>1
  <2> QED BY <1>1, <2>1 DEF Inv, TypeOK, reset, clientVars
<1>3. Shape' /\ RoundsBounded'
  BY <1>1 DEF Shape, Alternates, Answered, Settled, RoundsBounded
<1> QED BY <1>1, <1>2, <1>3 DEF Inv

LEMMA InitInv == Init => Inv
<1> SUFFICES ASSUME Init PROVE Inv
  OBVIOUS
<1>1. TypeOK
  <2>1. <<>> \in Seq(Turns)
    OBVIOUS
  <2> QED BY <2>1 DEF Init, TypeOK, Client!Init, NoResults
<1> QED BY <1>1 DEF Init, Inv, Shape, Alternates, Answered, Settled, RoundsBounded

AllOrNothingStep ==
    at # "idle" /\ at' = "idle" =>
          IF outcome' = "ok"
            THEN /\ SubSeq(history', 1, Len(before)) = before
                 /\ history'[Len(history')].role = "model"
                 /\ Tools => history'[Len(history')].n = 0
            ELSE outcome' # "exception" => history' = before

LEMMA NextStep ==
  ASSUME Inv, [Next]_vars
  PROVE  Inv' /\ AllOrNothingStep
<1>1. CASE UNCHANGED vars
  <2>1. AllOrNothingStep
    BY <1>1 DEF vars, AllOrNothingStep
  <2> QED BY <1>1, <2>1 DEF vars, clientVars, Inv, Shape, TypeOK, Alternates, Answered, Settled,
                            Extends, RoundsBounded
<1>2. CASE reset
  BY <1>2, ResetStep DEF reset, AllOrNothingStep
<1>3. CASE \E b \in BOOLEAN : send(b)
  BY <1>3, SendStep DEF send, AllOrNothingStep
<1>4. CASE Ask \/ Chunk \/ RunTool
  BY <1>4, QuietStep DEF AllOrNothingStep
<1>5. CASE GiveUp \/ Fail \/ NoCandidates
  BY <1>5, FailedStep, ChatAssumption DEF AllOrNothingStep, ChatAssumption
<1>6. CASE \E calls \in 0..MaxCalls : Reply(calls)
  BY <1>6, ReplyStep DEF AllOrNothingStep
<1>7. CASE FeedBack
  BY <1>7, FeedBackStep DEF FeedBack, AllOrNothingStep
<1>8. CASE Raise
  BY <1>8, RaiseStep, ChatAssumption DEF AllOrNothingStep, ChatAssumption
<1> QED BY <1>1, <1>2, <1>3, <1>4, <1>5, <1>6, <1>7, <1>8 DEF Next, Step

\* A send() that returns is all or nothing, whatever the client answers, however many
\* tools it calls and whatever exceptions have gone before (chat.cpp:28-32, 39, 43, 47, 62).
THEOREM SendIsAllOrNothing == Spec => AllOrNothing
<1>1. Inv /\ [Next]_vars => Inv'
  BY NextStep
<1>2. Inv /\ [Next]_vars => [AllOrNothingStep]_vars
  BY NextStep
<1> QED BY InitInv, <1>1, <1>2, PTL DEF Spec, AllOrNothing, AllOrNothingStep

\* Until an exception leaves a send(), every request alternates the roles, ends with the
\* user and answers every call the model made; and no send() ever makes more than
\* max_tool_rounds + 1 requests (chat.cpp:36-60).
THEOREM RequestsWellFormed == Spec => [](TypeOK /\ RequestWellFormed /\ RoundsBounded)
<1>1. Inv /\ [Next]_vars => Inv'
  BY NextStep
<1>2. Inv => TypeOK /\ RequestWellFormed /\ RoundsBounded
  BY DEF Inv, Shape, RequestWellFormed
<1> QED BY InitInv, <1>1, <1>2, PTL DEF Spec

---------------------------------------------------------------------------
(* The REPL. *)

LEMMA ReplStepIsSessionStep == [ReplNext]_<<vars, replVars>> => [Next]_vars
<1> SUFFICES ASSUME [ReplNext]_<<vars, replVars>> PROVE Next \/ UNCHANGED vars
  OBVIOUS
<1>1. CASE on_sigint \/ Quit
  BY <1>1 DEF on_sigint, Quit
<1>2. CASE Reset \/ Line
  BY <1>2 DEF Reset, Line, Next
<1>3. CASE stdout_printer \/ Answer \/ Terminate
  BY <1>3 DEF stdout_printer, Answer, Terminate, Next, Step
<1>4. CASE UNCHANGED <<vars, replVars>>
  BY <1>4
<1> QED BY <1>1, <1>2, <1>3, <1>4 DEF ReplNext

\* Whatever the user types and whenever Ctrl-C is pressed, the session sees a program that
\* calls send() and reset() as they may be called (main.cpp:223-257).
THEOREM ReplIsASession == ReplSpec => Spec
<1>1. ReplInit => Init
  BY DEF ReplInit
<1> QED BY <1>1, ReplStepIsSessionStep, PTL DEF ReplSpec, Spec

\* So a line that fails leaves the conversation as it was, and one that succeeds adds to it.
THEOREM LineIsAllOrNothing == ReplSpec => AllOrNothing
  BY ReplIsASession, SendIsAllOrNothing, PTL

ShownType == shown \in [{me} -> Seq(Nat)]

LEMMA ShownTypeHolds == Spec => []ShownType
<1>1. Init => ShownType
  BY DEF Init, Client!Init, ShownType
<1>2. ShownType /\ [Next]_vars => ShownType'
  <2> SUFFICES ASSUME ShownType, [Next]_vars PROVE ShownType'
    OBVIOUS
  <2>1. CASE Ask
    BY <2>1 DEF Ask, Client!Call, ShownType
  <2>2. CASE Chunk
    <3>1. shown[me] \in Seq(Nat) /\ Append(shown[me], Len(shown[me]) + 1) \in Seq(Nat)
      BY DEF ShownType
    <3> QED BY <2>2, <3>1 DEF Chunk, Client!Show, ShownType
  <2>3. CASE ~Ask /\ ~Chunk
    <3>1. shown' = shown
      BY <2>3 DEF Next, Step, reset, send, GiveUp, Fail, Responds, NoCandidates, Reply, RunTool,
                  FeedBack, Raise, Client!ReturnOk, Client!ReturnErr, vars, clientVars
    <3> QED BY <3>1 DEF ShownType
  <2> QED BY <2>1, <2>2, <2>3
<1> QED BY <1>1, <1>2, PTL DEF Spec

\* During a reply the flag says what has happened since the line was taken up.
FlagIsPressed == repl = "open" /\ at # "idle" => g_interrupted = pressed

\* A reply is cut short by a Ctrl-C of its own line, at its next chunk, and by no other
\* (main.cpp:155, 245).
THEOREM CtrlCIsForTheReply == ReplSpec => CutByItsOwnCtrlC
<1>1. ReplInit => FlagIsPressed
  BY DEF ReplInit, FlagIsPressed
<1>2. FlagIsPressed /\ [ReplNext]_<<vars, replVars>> => FlagIsPressed'
  <2> SUFFICES ASSUME FlagIsPressed, [ReplNext]_<<vars, replVars>> PROVE FlagIsPressed'
    OBVIOUS
  <2>1. CASE on_sigint
    BY <2>1 DEF on_sigint, FlagIsPressed
  <2>2. CASE Quit \/ Terminate
    BY <2>2 DEF Quit, Terminate, FlagIsPressed
  <2>3. CASE Reset
    BY <2>3 DEF Reset, reset, replVars, FlagIsPressed
  <2>4. CASE Line
    BY <2>4 DEF Line, TakeUp, FlagIsPressed
  <2>5. CASE stdout_printer \/ Answer
    <3>1. at # "idle"
      BY <2>5
      DEF stdout_printer, Answer, Chunk, Ask, GiveUp, Fail, NoCandidates, Reply, RunTool, FeedBack
    <3> QED BY <2>5, <3>1 DEF stdout_printer, Answer, replVars, FlagIsPressed
  <2>6. CASE UNCHANGED <<vars, replVars>>
    BY <2>6 DEF vars, replVars, FlagIsPressed
  <2> QED BY <2>1, <2>2, <2>3, <2>4, <2>5, <2>6 DEF ReplNext
<1>3. /\ FlagIsPressed /\ ShownType /\ TypeOK /\ [ReplNext]_<<vars, replVars>>
      => [repl = "open" /\ Len(shown'[me]) > Len(shown[me])
            => stopped'[me] = pressed]_<<vars, replVars>>
  <2> SUFFICES ASSUME FlagIsPressed, ShownType, TypeOK, ReplNext,
                      repl = "open", Len(shown'[me]) > Len(shown[me])
               PROVE  stopped'[me] = pressed
    OBVIOUS
  <2>1. shown[me] \in Seq(Nat) /\ Len(shown[me]) \in Nat
    BY DEF ShownType
  <2>2. CASE stdout_printer
    <3>1. stopped' = [stopped EXCEPT ![me] = g_interrupted] /\ at = "asking"
      BY <2>2 DEF stdout_printer, Chunk
    <3> QED BY <3>1 DEF FlagIsPressed, TypeOK
  <2>3. CASE ~stdout_printer
    <3>1. [Next]_vars /\ (shown' = shown \/ Ask)
      BY <2>3, ReplStepIsSessionStep
         DEF ReplNext, on_sigint, Quit, Reset, Line, Answer, Terminate, vars, clientVars, reset, send,
             GiveUp, Fail, Responds, NoCandidates, Reply, RunTool, FeedBack, Raise,
             Client!ReturnOk, Client!ReturnErr
    <3>2. Ask => Len(shown'[me]) = 0
      BY DEF Ask, Client!Call, ShownType
    <3> QED BY <2>1, <3>1, <3>2
  <2> QED BY <2>2, <2>3
<1>4. Spec => [](TypeOK /\ ShownType)
  BY RequestsWellFormed, ShownTypeHolds, PTL
<1> QED BY <1>1, <1>2, <1>3, <1>4, ReplIsASession, PTL DEF ReplSpec, CutByItsOwnCtrlC

=============================================================================
