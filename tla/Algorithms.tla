------------------------------- MODULE Algorithms -------------------------------
(***************************************************************************)
(* Parts of the program that compute a result from their input alone: the  *)
(* input of one of them grows, one element after the other, and what is    *)
(* stated here holds of each of its prefixes.                              *)
(***************************************************************************)
EXTENDS Integers, Sequences

CONSTANTS
    Elements,  \* for each part, what its inputs are made of
    Bound,     \* bound: for each part, the length of its inputs
    Fraction, Second,      \* see Backoff
    flags, value_options,  \* see CliArgs
    kLimit, Unit, DigitValue, Digits  \* see Duration

VARIABLES subject, input
inputVars == <<subject, input>>

Delays == INSTANCE Backoff
Versions == INSTANCE Semver
Replies == INSTANCE CodeExtract
Options == INSTANCE CliArgs
Durations == INSTANCE Duration
JSON == INSTANCE Wire
Merging == INSTANCE Types

Subjects == DOMAIN Elements
ElementsOf(s) == IF s \in Subjects THEN Elements[s] ELSE {}

\* A delay is asked for with a policy, the number of retries so far, which is an int, and an error.
ASSUME ElementsAssumption ==
    /\ Bound \in [Subjects -> Nat] /\ Fraction \in Nat \ {0} /\ Second \in Nat \ {0}
    /\ ElementsOf("delay") \subseteq Delays!Policies \X Int \X Delays!Errors
    /\ ElementsOf("merge") \subseteq Merging!Responses
    /\ ElementsOf("version") \subseteq Versions!Versions
    /\ ElementsOf("reply") \subseteq Replies!Lines
    /\ ElementsOf("arguments") \subseteq Options!Arguments
    /\ \A value \in ElementsOf("json") \cup ElementsOf("turn") : JSON!Found(value)

ASSUME DurationAssumption == Durations!ConstantsOK

InputInit == subject \in Subjects /\ input = <<>>

Grow ==
    /\ Len(input) < Bound[subject]
    /\ \E x \in Elements[subject] : input' = Append(input, x)
    /\ UNCHANGED subject

InputSpec == InputInit /\ [][Grow]_inputVars

---------------------------------------------------------------------------
(* Properties. Their parts are stated, in words, where they are defined.   *)

\* RetryPolicy::delay_for() of an error of parse_api_error(): a delay is within the bounds of
\* its policy, and not shorter than the server has asked for.
DelayWithinBounds ==
    subject = "delay" =>
        \A i \in DOMAIN input :
            /\ Delays!DelayBounded(input[i][1], input[i][2], input[i][3])
            /\ Delays!HintObeyed(input[i][1], input[i][2], input[i][3])

\* The task semver-compare: a total order, in which pre-releases are where they belong.
VersionsOrdered ==
    subject = "version" /\ Len(input) = 3 =>
        /\ Versions!TotalOrder(input[1], input[2], input[3])
        /\ Versions!PreReleasesPrecede(input[1], input[2], input[3])

\* The task parse-duration: the exact number of nanoseconds if that is one of 64 bits, or nothing;
\* and how much less than the exact number it may be, where digits are not read.
DurationExactOrNothing == subject = "duration" => Durations!ExactOrNothing(input)

\* task.json:14 of it: "Fractions are truncated toward zero at nanosecond precision".
FractionsTruncated == subject = "duration" => Durations!Truncated(input)

\* find_code_blocks() and extract_cpp_source(): a fenced source is found whatever is in it, a
\* reply that is cut off loses nothing it has said, and the right block is compiled.
ReplyYieldsTheSource ==
    subject = "reply" =>
        /\ Replies!SourceSurvives(input)
        /\ Replies!CutLosesNothing(input)
        /\ Replies!ChoosesTheSource(input)

\* cli::Args::parse() and get(): every argument of an accepted command line has one part.
ArgumentsHaveOnePart == subject = "arguments" => Options!EachArgumentHasOnePart(input)

\* parse_content() and to_json(): of a model's turn, whatever JSON it is, exactly the parts that
\* parse_part() does not recognise are skipped, malformed ones of a known kind among them, and
\* what has been understood goes back as it came.
PartsSurvive ==
    subject \in {"json", "turn"} =>
        JSON!OnlyTheUnrecognisedIsSkipped(input) /\ JSON!SentBackVerbatim(input)

\* serialization.cpp:150-151 of it: "malformed known kinds are real errors".
MalformedPartsRefused == subject \in {"json", "turn"} => JSON!MalformedIsAnError(input)

\* GenerateResponse::merge() and append_part(): what the chunks of a stream add up to loses,
\* moves and makes up nothing, looks like a unary response, is what was printed on the way,
\* and takes the latest value of every field that has said anything.
StreamAddsUp ==
    subject = "merge" =>
        /\ Merging!NothingLostOrMoved(input)
        /\ Merging!LooksUnary(input)
        /\ Merging!PrintedIsText(input)
        /\ Merging!LatestWins(input)

=============================================================================
