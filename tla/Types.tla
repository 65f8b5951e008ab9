--------------------------------- MODULE Types ---------------------------------
(***************************************************************************)
(* gemini::GenerateResponse: its readers, and merge(), which folds the     *)
(* chunks of a stream into one answer. A text is a sequence of words; a    *)
(* call or a response of a function is one word. "" is an empty signature, *)
(* reason or version.                                                      *)
(***************************************************************************)
EXTENDS Integers, SequencesExt

Kind == {"text", "call", "response"}

\* struct Part, Candidate, GenerateResponse. The three latest-wins strings are one here.
Part(kind, words, thought, signature) ==
    [kind |-> kind, words |-> words, thought |-> thought, signature |-> signature]
Candidate(index, parts, finish_reason) ==
    [index |-> index, parts |-> parts, finish_reason |-> finish_reason]
Response(candidates, usage, version) ==
    [candidates |-> candidates, usage |-> usage, version |-> version]

Parts == [kind : Kind, words : Seq(STRING), thought : BOOLEAN, signature : STRING]
Candidates == [index : Int, parts : Seq(Parts), finish_reason : STRING]
Usages == [prompt : Int, candidates : Int, thoughts : Int, total : Int]
Responses == [candidates : Seq(Candidates), usage : Usages, version : STRING]

NoUsage == [prompt |-> 0, candidates |-> 0, thoughts |-> 0, total |-> 0]
Empty == Response(<<>>, NoUsage, "")

---------------------------------------------------------------------------
(* Readers: of the first candidate, whatever its index.                    *)

Visible(part) == part.kind = "text" /\ ~part.thought

text(response) ==
    LET parts == Head(response.candidates).parts
    IN  IF response.candidates = <<>> THEN <<>>
        ELSE FlattenSeq([i \in DOMAIN parts |-> IF Visible(parts[i]) THEN parts[i].words ELSE <<>>])

function_calls(response) ==
    LET parts == Head(response.candidates).parts
    IN  IF response.candidates = <<>> THEN <<>>
        ELSE FlattenSeq([i \in DOMAIN parts |-> IF parts[i].kind = "call" THEN parts[i].words ELSE <<>>])

---------------------------------------------------------------------------
(* merge() *)

\* A fragment continues the last part unless both carry a signature.
\* Mutants of Continues: a signed part is never continued; a thought is continued by a text.
ContinuesThought(last, incoming) ==
    /\ last.kind = "text" /\ incoming.kind = "text"
    /\ last.signature = "" \/ incoming.signature = ""
ContinuesUnsigned(last, incoming) ==
    /\ last.kind = "text" /\ incoming.kind = "text"
    /\ last.thought = incoming.thought
    /\ last.signature = ""
Continues(last, incoming) ==
    /\ last.kind = "text" /\ incoming.kind = "text"
    /\ last.thought = incoming.thought
    /\ last.signature = "" \/ incoming.signature = ""

\* Mutant of Signed: the signature of a fragment that is glued is dropped.
SignedFirst(last, incoming) == last.signature
Signed(last, incoming) == IF last.signature = "" THEN incoming.signature ELSE last.signature

Glued(last, incoming) ==
    [last EXCEPT !.words = @ \o incoming.words, !.signature = Signed(last, incoming)]

append_part(parts, incoming) ==
    IF parts # <<>> /\ Continues(Last(parts), incoming)
    THEN Append(Front(parts), Glued(Last(parts), incoming))
    ELSE Append(parts, incoming)

\* Mutant of Latest: the latest value wins though it is empty.
LatestOfAll(old, new, none) == new
Latest(old, new, none) == IF new = none THEN old ELSE new

\* The guard of the usage looks at two of its four counts: the others alone say nothing.
Reported(usage) == IF usage.total # 0 \/ usage.prompt # 0 THEN usage ELSE NoUsage

\* Mutant of Same: the position in the list is taken for the index.
SameAsFirst(candidate, incoming) == TRUE
Same(candidate, incoming) == candidate.index = incoming.index

\* The loop over the parts of an incoming candidate.
Joined(parts, incoming) ==
    LET r[k \in 0..Len(incoming)] == IF k = 0 THEN parts ELSE append_part(r[k - 1], incoming[k])
    IN  r[Len(incoming)]

Told(candidate, incoming) ==
    Candidate(candidate.index, Joined(candidate.parts, incoming.parts),
              Latest(candidate.finish_reason, incoming.finish_reason, ""))

merge_candidate(candidates, incoming) ==
    LET all == IF \E i \in DOMAIN candidates : Same(candidates[i], incoming) THEN candidates
               ELSE Append(candidates, Candidate(incoming.index, <<>>, ""))
        it == CHOOSE i \in DOMAIN all :
                  Same(all[i], incoming) /\ \A j \in 1..(i - 1) : ~Same(all[j], incoming)
    IN  [all EXCEPT ![it] = Told(@, incoming)]

\* The loop over the candidates of a chunk.
Merged(candidates, incoming) ==
    LET r[k \in 0..Len(incoming)] == IF k = 0 THEN candidates ELSE merge_candidate(r[k - 1], incoming[k])
    IN  r[Len(incoming)]

merge(response, chunk) ==
    Response(Merged(response.candidates, chunk.candidates),
             Latest(response.usage, Reported(chunk.usage), NoUsage),
             Latest(response.version, chunk.version, ""))

\* What Client::stream() returns of these chunks.
Aggregate(chunks) ==
    LET r[k \in 0..Len(chunks)] == IF k = 0 THEN Empty ELSE merge(r[k - 1], chunks[k])
    IN  r[Len(chunks)]

---------------------------------------------------------------------------
(* Properties, of every sequence of chunks.                                *)

\* The candidates of the chunks, one after the other, and the parts of those with this index.
Sent(chunks) == FlattenSeq([i \in DOMAIN chunks |-> chunks[i].candidates])
PartsOf(candidates, n) ==
    FlattenSeq([i \in DOMAIN candidates |->
                   IF candidates[i].index = n THEN candidates[i].parts ELSE <<>>])
Indexes(candidates) == {candidates[i].index : i \in DOMAIN candidates}

\* The words of the parts one by one, each with what kind of part it is in.
Spoken(parts) ==
    FlattenSeq([i \in DOMAIN parts |-> [w \in DOMAIN parts[i].words |->
                    <<parts[i].kind, parts[i].thought, parts[i].words[w]>>]])
Signatures(parts) ==
    FlattenSeq([i \in DOMAIN parts |->
                   IF parts[i].signature = "" THEN <<>> ELSE <<parts[i].signature>>])

\* Every candidate has each word that was sent to it once and in order, as the kind of
\* part it was sent as, and every signature in order: none is lost, none is made up, and
\* no candidate gets the words of another. There is one candidate for each index.
NothingLostOrMoved(chunks) ==
    LET answer == Aggregate(chunks).candidates
        sent == Sent(chunks)
    IN  /\ Indexes(answer) = Indexes(sent)
        /\ \A i, j \in DOMAIN answer : answer[i].index = answer[j].index => i = j
        /\ \A n \in Indexes(sent) :
            /\ Spoken(PartsOf(answer, n)) = Spoken(PartsOf(sent, n))
            /\ Signatures(PartsOf(answer, n)) = Signatures(PartsOf(sent, n))

\* The aggregate looks like a unary response: two texts of the same kind stand side by side
\* only where each has a signature of its own.
Unary(parts) ==
    \A i \in 1..(Len(parts) - 1) :
        parts[i].kind = "text" /\ parts[i + 1].kind = "text" /\ parts[i].thought = parts[i + 1].thought
            => parts[i].signature # "" /\ parts[i + 1].signature # ""
LooksUnary(chunks) ==
    \A i \in DOMAIN Aggregate(chunks).candidates : Unary(Aggregate(chunks).candidates[i].parts)

\* When one candidate is asked for, the text of the answer is what the callback of main.cpp has
\* printed, chunk after chunk, and its calls are those of the chunks.
PrintedIsText(chunks) ==
    (\A i \in DOMAIN chunks : Len(chunks[i].candidates) <= 1)
    /\ (\A n, m \in Indexes(Sent(chunks)) : n = m) =>
        /\ text(Aggregate(chunks)) = FlattenSeq([i \in DOMAIN chunks |-> text(chunks[i])])
        /\ function_calls(Aggregate(chunks)) = FlattenSeq([i \in DOMAIN chunks |-> function_calls(chunks[i])])

\* This value is the last of these that says something.
IsLatest(value, values, none) ==
    \/ value = none /\ \A i \in DOMAIN values : values[i] = none
    \/ \E i \in DOMAIN values :
           value = values[i] /\ value # none /\ \A j \in DOMAIN values : j > i => values[j] = none

\* An empty field never overwrites what an earlier chunk has said, and no chunk makes up
\* what none has said. A usage without a prompt and a total counts as empty.
LatestWins(chunks) ==
    LET answer == Aggregate(chunks)
        sent == Sent(chunks)
        used(i) == IF chunks[i].usage.prompt = 0 /\ chunks[i].usage.total = 0 THEN NoUsage
                   ELSE chunks[i].usage
        reasons(n) == [i \in DOMAIN sent |-> IF sent[i].index = n THEN sent[i].finish_reason ELSE ""]
    IN  /\ IsLatest(answer.usage, [i \in DOMAIN chunks |-> used(i)], NoUsage)
        /\ IsLatest(answer.version, [i \in DOMAIN chunks |-> chunks[i].version], "")
        /\ \A i \in DOMAIN answer.candidates :
               IsLatest(answer.candidates[i].finish_reason, reasons(answer.candidates[i].index), "")

=============================================================================
