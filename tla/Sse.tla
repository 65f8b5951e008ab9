---------------------------------- MODULE Sse ----------------------------------
(***************************************************************************)
(* gemini::SseParser: lines, fields and events out of a text/event-stream  *)
(* that arrives in pieces cut anywhere.                                    *)
(***************************************************************************)
EXTENDS Naturals, Sequences

CONSTANTS
    Limits,    \* the handler returns false at its n-th event, n in Limits
    MaxInput,  \* bound: characters of a stream
    MaxPiece   \* bound: characters of one call of feed()

\* The characters lines are told apart by. The field name is one of them, and stands for
\* any other word as well, in values and in other fields.
Char == {"data", ":", " ", "\r", "\n"}

ASSUME SseAssumption == Limits \subseteq Nat \ {0} /\ MaxInput \in Nat /\ MaxPiece \in Nat

VARIABLES
    buffer,    \* buffer_
    data,      \* data_
    has_data,  \* has_data_
    events,    \* what the handler has been given
    going,     \* nobody has been told to stop: what feed() and finish() returned last
    limit,     \* the event at which this handler returns false
    received,  \* history: every character fed
    finished   \* finish() has been called

sseVars == <<buffer, data, has_data, events, going, limit, received, finished>>

\* What process_line() and dispatch() change, and what they return.
Parser == [data |-> data, has_data |-> has_data, events |-> events, going |-> going]

SseInit ==
    /\ buffer = <<>> /\ data = <<>> /\ has_data = FALSE
    /\ events = <<>> /\ going = TRUE /\ received = <<>> /\ finished = FALSE
    /\ limit \in Limits

---------------------------------------------------------------------------
(* One line. *)

\* find(): where x stands first in s after start, or past its end.
Find(s, x, start) ==
    LET places == {i \in (start + 1)..Len(s) : s[i] = x}
    IN  IF places = {} THEN Len(s) + 1 ELSE CHOOSE i \in places : \A j \in places : i <= j

Ends(line, c) == line # <<>> /\ line[Len(line)] = c
Starts(line, c) == line # <<>> /\ line[1] = c

\* Mutant of Chomp: the carriage return stays.
Verbatim(line) == line
Chomp(line) == IF Ends(line, "\r") THEN SubSeq(line, 1, Len(line) - 1) ELSE line

\* Mutant of NoData: data_ has been moved from and is not cleared.
KeepsData(p) == [data |-> p.data, has_data |-> FALSE]
NoData(p) == [data |-> <<>>, has_data |-> FALSE]

dispatch(p) ==
    IF ~p.has_data THEN p
    ELSE [data |-> NoData(p).data, has_data |-> NoData(p).has_data,
          events |-> Append(p.events, p.data), going |-> Len(p.events) + 1 < limit]

process_line(p, line) ==
    LET colon == Find(line, ":", 0)
        rest == SubSeq(line, colon + 1, Len(line))
        value == IF Starts(rest, " ") THEN Tail(rest) ELSE rest
        more == IF p.has_data THEN Append(p.data, "\n") ELSE p.data
    IN  IF line = <<>> THEN dispatch(p)
        ELSE IF SubSeq(line, 1, colon - 1) = <<"data">>
        THEN [p EXCEPT !.data = more \o value, !.has_data = TRUE]
        ELSE p  \* a comment, or a field of no interest

---------------------------------------------------------------------------
(* feed() and finish(). *)

\* The loop of feed() stops at the line after which the handler said so.
\* Mutant of Proceed: keep_going is only returned, the loop goes on.
ProceedAnyway(p) == TRUE
Proceed(p) == p.going

\* Mutant of Erased: the line that has been read is left in the buffer.
ErasedShort(start) == IF start > 0 THEN start - 1 ELSE 0
Erased(start) == start

\* One round of the loop; the lines read so far end at start.
ReadLine(all, r) ==
    LET newline == Find(all, "\n", r.start)
    IN  IF ~Proceed(r.p) \/ newline > Len(all) THEN r
        ELSE [p |-> process_line(r.p, Chomp(SubSeq(all, r.start + 1, newline - 1))), start |-> newline]

Rounds(all, p) ==
    LET r[n \in Nat] == IF n = 0 THEN [p |-> p, start |-> 0] ELSE ReadLine(all, r[n - 1]) IN r

\* Becomes(p): the parser is left in the state p.
Becomes(p) == data' = p.data /\ has_data' = p.has_data /\ events' = p.events /\ going' = p.going

\* There are no more rounds than characters.
feed(bytes) ==
    /\ going /\ ~finished
    /\ LET all == buffer \o bytes
           read == Rounds(all, Parser)[Len(all)]
       IN  /\ Becomes(read.p)
           /\ buffer' = SubSeq(all, Erased(read.start) + 1, Len(all))
    /\ received' = received \o bytes
    /\ UNCHANGED <<limit, finished>>

finish ==
    /\ going /\ ~finished
    /\ LET flushed == IF buffer = <<>> THEN Parser ELSE process_line(Parser, Chomp(buffer))
       IN  Becomes(IF flushed.going THEN dispatch(flushed) ELSE flushed)
    /\ buffer' = <<>>
    /\ finished' = TRUE
    /\ UNCHANGED <<limit, received>>

Feed == \E n \in 1..MaxPiece :
            Len(received) + n <= MaxInput /\ \E bytes \in [1..n -> Char] : feed(bytes)

SseNext == Feed \/ finish

SseSpec == SseInit /\ [][SseNext]_sseVars

---------------------------------------------------------------------------
(* What a stream says, read character by character: its lines end at the   *)
(* newlines, its events at the empty lines, and only data fields say       *)
(* anything. An event that has not said anything is <<>>.                  *)

IsData(line) == line = <<"data">> \/ (Len(line) >= 2 /\ line[1] = "data" /\ line[2] = ":")
Value(line) == SubSeq(line, IF Len(line) >= 3 /\ line[3] = " " THEN 4 ELSE 3, Len(line))

Unread == [line |-> <<>>, event |-> <<>>, events |-> <<>>]

\* The line ends.
Ended(r) ==
    LET line == IF Ends(r.line, "\r") THEN SubSeq(r.line, 1, Len(r.line) - 1) ELSE r.line
    IN  [line |-> <<>>,
         event |-> IF line = <<>> THEN <<>>
                   ELSE IF ~IsData(line) THEN r.event
                   ELSE IF r.event = <<>> THEN <<Value(line)>>
                   ELSE <<r.event[1] \o <<"\n">> \o Value(line)>>,
         events |-> IF line = <<>> THEN r.events \o r.event ELSE r.events]

\* What the first n characters of a text say.
Reading(text) ==
    LET r[n \in Nat] ==
            IF n = 0 THEN Unread
            ELSE IF n > Len(text) THEN r[n - 1]
            ELSE IF text[n] = "\n" THEN Ended(r[n - 1])
            ELSE [r[n - 1] EXCEPT !.line = Append(@, text[n])]
    IN  r

Meaning(text) == Reading(text)[Len(text)].events

\* finish() ends the last line and the last event.
Text == received \o (IF finished THEN <<"\n", "\n">> ELSE <<>>)

---------------------------------------------------------------------------
(* Properties. *)

\* The variables keep their types.
SseTypeOK ==
    /\ buffer \in Seq(Char) /\ data \in Seq(Char) /\ has_data \in BOOLEAN
    /\ events \in Seq(Seq(Char)) /\ going \in BOOLEAN /\ limit \in Limits
    /\ received \in Seq(Char) /\ finished \in BOOLEAN
    /\ ~has_data => data = <<>>

\* However the stream has been cut, the handler has been given the events of the text
\* received so far, up to the one at which it said stop and none after it, though there
\* may be more in the buffer; feed() has said so.
CutsDoNotMatter ==
    LET meaning == Meaning(Text)
    IN  /\ events = SubSeq(meaning, 1, IF Len(meaning) < limit THEN Len(meaning) ELSE limit)
        /\ going <=> Len(events) < limit

\* As long as the stream goes on, what is kept of it is the line that has not ended yet
\* and what the event that has not ended yet has said: no more, so that a long stream is
\* not accumulated, and no less.
OnlyTheUnfinishedIsKept ==
    going /\ ~finished =>
        LET r == Reading(received)[Len(received)]
        IN  /\ buffer = r.line
            /\ (IF has_data THEN <<data>> ELSE <<>>) = r.event

=============================================================================
