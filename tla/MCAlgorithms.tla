------------------------------ MODULE MCAlgorithms ------------------------------
(***************************************************************************)
(* The parts of the program that compute a result from their input alone,  *)
(* over every input of a bounded length, and SseParser and the reference   *)
(* solutions of the tasks lru-cache, token-bucket and spsc-queue, each on  *)
(* its own.                                                                *)
(***************************************************************************)
EXTENDS Algorithms, Sse, LruCache, TokenBucket, SpscQueue, TLC

Calculator == INSTANCE Expression WITH kMaxDepth <- 4

---------------------------------------------------------------------------
(* The elements of the inputs. *)

\* Chunks of a stream: a fragment of the first candidate or of another, of two parts or none, or
\* of both.
Fragments ==
    {Merging!Part("text", <<"a">>, FALSE, ""), Merging!Part("text", <<"b">>, FALSE, "s"),
     Merging!Part("text", <<>>, FALSE, "t"), Merging!Part("text", <<"c">>, TRUE, ""),
     Merging!Part("call", <<"f">>, FALSE, "s")}
Chunk(candidate, parts, finish_reason, usage) ==
    Merging!Response(<<Merging!Candidate(candidate, parts, finish_reason)>>, usage, "")
Used(prompt, total) == [prompt |-> prompt, candidates |-> 1, thoughts |-> 1, total |-> total]
Chunks ==
    {Chunk(0, <<part>>, "", Merging!NoUsage) : part \in Fragments}
    \cup {Chunk(0, <<part, Merging!Part("text", <<"d">>, FALSE, "")>>, "", Used(1, 2)) : part \in Fragments}
    \cup {Chunk(1, <<Merging!Part("text", <<"e">>, FALSE, "")>>, "", Merging!NoUsage),
          Chunk(0, <<>>, "STOP", Used(1, 4)),
          Chunk(0, <<>>, "OTHER", Used(0, 0)),
          Merging!Response(<<>>, Merging!NoUsage, "v"),
          Merging!Response(<<Merging!Candidate(1, <<Merging!Part("call", <<"g">>, FALSE, "")>>, ""),
                             Merging!Candidate(0, <<Merging!Part("text", <<"h">>, FALSE, "")>>, "")>>,
                           Merging!NoUsage, "")}

\* What stands where a part should: any combination of the fields parse_part() looks at, of the
\* right type and of another, and one it does not know.
Holds(key, values) == {<<>>} \cup {key :> value : value \in values}
Parts ==
    {JSON!Object(text @@ thought @@ signature @@ call @@ response @@ other) :
        text \in Holds("text", {JSON!String(<<"x">>), JSON!Number}),
        thought \in Holds("thought", {JSON!Bool(TRUE), JSON!Bool(FALSE), JSON!Number}),
        signature \in Holds("thoughtSignature", {JSON!String("s"), JSON!Number}),
        call \in Holds("functionCall", {JSON!Number, JSON!Object(<<>>),
                     JSON!Object("name" :> JSON!String("f")),
                     JSON!Object("name" :> JSON!String("f") @@ "id" :> JSON!String("1") @@ "args" :> JSON!Number)}),
        response \in Holds("functionResponse", {JSON!Object(<<>>),
                     JSON!Object("name" :> JSON!String("f") @@ "id" :> JSON!String("1"))}),
        other \in Holds("inlineData", {JSON!Object(<<>>)})} \cup {JSON!Number}
\* Longer turns are made of these.
CommonParts ==
    {JSON!Object("text" :> JSON!String(<<"x">>) @@ "thoughtSignature" :> JSON!String("s")),
     JSON!Object("functionCall" :> JSON!Object("name" :> JSON!String("f"))),
     JSON!Object("functionCall" :> JSON!Object(<<>>)),
     JSON!Object("text" :> JSON!Number),
     JSON!Object("inlineData" :> JSON!Object(<<>>)), JSON!Number}

ReplyLines ==
    {Replies!Text("code"), Replies!Text("blank"), Replies!Text("#include"),
     Replies!Run("tick", 3, "cpp"), Replies!Run("tick", 3, ""), Replies!Run("tick", 4, ""),
     Replies!Run("tilde", 3, ""), Replies!Run("tilde", 3, "py"), Replies!Run("tick", 3, "braced"), Replies!Run("tick", 2, "")}

Policies ==
    [initial_backoff : {0, 2, 9}, max_backoff : {0, 8}, multiplier : {1, 3}, jitter : {0, 20, 150}]
Errors == [details : {<<>>} \cup [1..1 -> {-1, 0, 9, 99}] \cup [1..2 -> {-1, 6}], header : {-1, 0, 2, 5}]
Failures == Policies \X (-1..3) \X Errors

Arguments ==
    LET words == {Options!Word("a"), Options!Option("json"), Options!Option("model"), Options!End}
    IN  words \cup {Options!Option("task"), Options!Option("wrong"), Options!Inline("json", Options!Word("a"))}
              \cup {Options!Inline("model", word) : word \in words}

Identifiers == {Versions!Num(1), Versions!Num(2), Versions!Word(1), Versions!Word(2)}
AllVersions ==
    {Versions!Version(core, pre) :
        core \in {<<1, 0, 0>>, <<1, 0, 2>>, <<1, 1, 0>>},
        pre \in {<<>>} \cup [1..1 -> Identifiers] \cup [1..2 -> {Versions!Num(1), Versions!Word(1)}]}

AllElements ==
    [merge |-> Chunks, json |-> Parts, turn |-> CommonParts,
     expression |-> {"n", "f", "+", "-", "*", "^", "(", ")"}, reply |-> ReplyLines, delay |-> Failures,
     arguments |-> Arguments, duration |-> {"-", "+", "0", "8", ".", "m", "u"}, version |-> AllVersions,
     sse |-> {}, cache |-> {}, bucket |-> {}, ring |-> {}]
Longest ==
    [merge |-> 4, json |-> 1, turn |-> 3, expression |-> 6, reply |-> 5, delay |-> 1, arguments |-> 5,
     duration |-> 6, version |-> 3, sse |-> 0, cache |-> 0, bucket |-> 0, ring |-> 0]

PartsOnly == [turn |-> CommonParts]
PartsBound == [turn |-> Longest.turn]

DurationOnly == [duration |-> AllElements.duration]
DurationBound == [duration |-> Longest.duration]

\* A unit that is a part of 10^Digits, and one that is not.
MCUnit == "u" :> 10 @@ "m" :> 6
MCDigitValue == "0" :> 0 @@ "8" :> 8

MCSteps == {-1, 0, 1, 2, 4}
MCAmounts == 0..4

---------------------------------------------------------------------------
MCInit ==
    /\ InputInit /\ SseInit /\ CacheInit /\ BucketInit /\ Init
    /\ subject # "sse" => \A n \in Limits : limit <= n
    /\ subject # "cache" => capacity = 0

MCNext ==
    \/ Grow /\ UNCHANGED <<sseVars, cacheVars, bucketVars, vars>>
    \/ subject = "sse" /\ SseNext /\ UNCHANGED <<inputVars, cacheVars, bucketVars, vars>>
    \/ subject = "cache" /\ CacheNext /\ UNCHANGED <<inputVars, sseVars, bucketVars, vars>>
    \/ subject = "bucket" /\ BucketNext /\ UNCHANGED <<inputVars, sseVars, cacheVars, vars>>
    \/ subject = "ring" /\ Next /\ UNCHANGED <<inputVars, sseVars, cacheVars, bucketVars>>

\* Fairness of SpscQueue, where the ring is what runs.
RingFairness ==
    /\ WF_vars(subject = "ring" /\ Construct) /\ WF_vars(subject = "ring" /\ Publish)
    /\ WF_vars(subject = "ring" /\ Take) /\ WF_vars(subject = "ring" /\ Release)
    /\ WF_vars(subject = "ring" /\ PushLoad(head)) /\ WF_vars(subject = "ring" /\ PopLoad(tail))

MCSpec == /\ MCInit /\ [][MCNext]_<<inputVars, sseVars, cacheVars, bucketVars, vars>>
          /\ RingFairness

---------------------------------------------------------------------------
(* Properties. Their parts are stated, in words, where they are defined.   *)

\* ExpressionParser: a text is parsed by the grammar's only tree for it, or refused.
ExpressionParsed == subject = "expression" => Calculator!ParsesTheGrammar(input)

\* SpscQueue: all that is pushed arrives.
RingDelivers == subject = "ring" => EverythingArrives

=============================================================================
