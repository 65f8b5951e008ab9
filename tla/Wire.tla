---------------------------------- MODULE Wire ----------------------------------
(***************************************************************************)
(* gemini::wire: a part of a turn as JSON and back. The model's turns are  *)
(* parsed, kept in the history of a chat, and written again in its next    *)
(* request. A JSON value is its type and what it holds; an object maps the *)
(* keys it has to values. The string of a text is its sequence of words.   *)
(***************************************************************************)
EXTENDS Types, Listing

String(s) == <<"string", s>>
Bool(b) == <<"bool", b>>
Number == <<"number", 0>>
Object(fields) == <<"object", fields>>

\* What is found where a part should be: anything, but what says it is a Boolean is one.
Found(value) ==
    value[1] = "object" /\ "thought" \in DOMAIN value[2] /\ value[2]["thought"][1] = "bool"
        => value[2]["thought"][2] \in BOOLEAN

Is(doc, key, type) == key \in DOMAIN doc /\ doc[key][1] = type
string_or(doc, key) == IF Is(doc, key, "string") THEN doc[key][2] ELSE ""

\* The fields of an object, one after the other; some are written only when they say something.
Field(key, value) == [k \in {key} |-> value]
And(fields, more) ==
    [k \in DOMAIN fields \cup DOMAIN more |-> IF k \in DOMAIN fields THEN fields[k] ELSE more[k]]
If(condition, fields) == IF condition THEN fields ELSE <<>>

---------------------------------------------------------------------------
(* to_json() *)

\* Mutant of Sealed: the signature is written with calls only.
SealedCall(part) ==
    If(part.kind = "call" /\ part.signature # "", Field("thoughtSignature", String(part.signature)))
Sealed(part) == If(part.signature # "", Field("thoughtSignature", String(part.signature)))

\* The word of a call or a response has its name, its id and what it carries.
Named(word, key) ==
    Object(And(If(word.id # "", Field("id", String(word.id))),
               And(Field(key, word.payload), Field("name", String(word.name)))))

Written(part) ==
    CASE part.kind = "text" ->
           And(If(part.thought, Field("thought", Bool(TRUE))), Field("text", String(part.words)))
      [] part.kind = "call" -> Field("functionCall", Named(part.words[1], "args"))
      [] part.kind = "response" -> Field("functionResponse", Named(part.words[1], "response"))

to_json(part) == And(Sealed(part), Written(part))

---------------------------------------------------------------------------
(* parse_part() and parse_content() *)

Ok(parts) == [ok |-> TRUE, parts |-> parts, error |-> ""]
Error(what) == [ok |-> FALSE, parts |-> <<>>, error |-> what]

\* value("thought", false) throws when the field has another type.
TextPart(doc) ==
    IF "thought" \in DOMAIN doc /\ ~Is(doc, "thought", "bool") THEN Error("exception")
    ELSE Ok(<<Part("text", doc["text"][2], "thought" \in DOMAIN doc /\ doc["thought"][2],
                   string_or(doc, "thoughtSignature"))>>)

Word(fields, key) ==
    [name |-> string_or(fields, "name"), id |-> string_or(fields, "id"),
     payload |-> IF key \in DOMAIN fields THEN fields[key] ELSE Object(<<>>)]

CallPart(doc) ==
    LET call == Word(doc["functionCall"][2], "args")
    IN  IF call.name = "" THEN Error("functionCall without name")
        ELSE Ok(<<Part("call", <<call>>, FALSE, string_or(doc, "thoughtSignature"))>>)

ResponsePart(doc) ==
    Ok(<<Part("response", <<Word(doc["functionResponse"][2], "response")>>, FALSE,
              string_or(doc, "thoughtSignature"))>>)

parse_part(value) ==
    LET doc == value[2]
    IN  CASE value[1] # "object" -> Error("part is not an object")
          [] value[1] = "object" /\ Is(doc, "text", "string") -> TextPart(doc)
          [] value[1] = "object" /\ ~Is(doc, "text", "string") ->
               IF Is(doc, "functionCall", "object") THEN CallPart(doc)
               ELSE IF Is(doc, "functionResponse", "object") THEN ResponsePart(doc)
               ELSE Error("unsupported part kind")

\* Mutant of Skipped: whatever cannot be parsed is skipped.
SkippedAll(part) == ~part.ok
Skipped(part) == part.error = "unsupported part kind"

Parsed(content, value) ==
    LET part == parse_part(value)
    IN  CASE ~content.ok \/ Skipped(part) -> content
          [] content.ok /\ ~Skipped(part) -> IF part.ok THEN Ok(content.parts \o part.parts) ELSE part

\* The loop over the parts of a content whose JSON has these.
Contents(values) ==
    LET r[n \in 0..Len(values)] == IF n = 0 THEN Ok(<<>>) ELSE Parsed(r[n - 1], values[n]) IN r

parse_content(values) == Contents(values)[Len(values)]

---------------------------------------------------------------------------
(* Properties, of every sequence of JSON values found as parts.            *)

\* What has been understood of a model's turn is sent back as it was: its texts, calls and
\* responses with their ids, its thoughts and its signatures, in order.
SentBackVerbatim(values) ==
    LET turn == parse_content(values)
    IN  turn.ok => parse_content([i \in 1..Len(turn.parts) |-> Object(to_json(turn.parts[i]))]) = turn

Has(value, type, key) == value[1] = "object" /\ Is(value[2], key, type)

\* What parse_part() goes by: it has a field of a known name that holds what such a field
\* should, or it is no part at all.
Recognised(value) ==
    \/ value[1] # "object"
    \/ Has(value, "string", "text")
    \/ Has(value, "object", "functionCall")
    \/ Has(value, "object", "functionResponse")

\* A part that is not recognised never costs the parts around it, be its kind unknown here
\* or known and malformed. One that is recognised is never dropped in silence: it is there,
\* in its place, or the turn is refused, with the error of the first that cannot be parsed.
OnlyTheUnrecognisedIsSkipped(values) ==
    LET known == {i \in DOMAIN values : Recognised(values[i])}
        wrong == {i \in known : ~parse_part(values[i]).ok}
        turn == parse_content(values)
    IN  IF wrong = {}
        THEN turn.ok /\ Lists(turn.parts, [i \in DOMAIN values |-> parse_part(values[i]).parts[1]], known)
        ELSE \E i \in wrong : (\A j \in wrong : i <= j) /\ turn = parse_part(values[i])

\* A part of a kind the library knows, that does not hold what such a part should.
Malformed(value) ==
    /\ ~Recognised(value)
    /\ \E key \in {"text", "functionCall", "functionResponse"} : key \in DOMAIN value[2]

\* serialization.cpp:150-151: "malformed known kinds are real errors". Not so: one that is
\* not even recognised is skipped with the unknown kinds, and the turn is accepted.
MalformedIsAnError(values) ==
    (\E i \in DOMAIN values : Malformed(values[i])) => ~parse_content(values).ok

=============================================================================
