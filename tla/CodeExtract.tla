------------------------------ MODULE CodeExtract ------------------------------
(***************************************************************************)
(* gemini::eval: the fenced code blocks of a reply, and the one that is    *)
(* compiled. A line is text, or a run of backticks ("tick") or tildes with *)
(* the word after it; indentation and case are left out, "cpp" stands for  *)
(* the eight names of the language, "py" for any other word and "braced"   *)
(* for one that begins with a brace, and every line is as long as another. *)
(***************************************************************************)
EXTENDS Naturals, SequencesExt

\* A line that cannot be a fence has length 0, and info tells what it is.
Words == {"", "cpp", "py", "braced", "code", "blank", "#include", "prose"}
Lines == [ch : {"", "tick", "tilde"}, length : Nat, info : Words]
Text(kind) == [ch |-> "", length |-> 0, info |-> kind]
Run(ch, length, info) == [ch |-> ch, length |-> length, info |-> info]

parse_fence(line) == line.length >= 3

\* Mutant of is_closing: a run of the other character closes as well.
is_closing_any(line, open) == line.length >= open.length /\ line.info = ""
is_closing(line, open) == line.ch = open.ch /\ line.length >= open.length /\ line.info = ""

\* The first word after a fence; what follows a brace is not part of it.
Language(open) == IF open.info = "braced" THEN "" ELSE open.info

Block(language, code, terminated) == [language |-> language, code |-> code, terminated |-> terminated]

\* What a round of the loop knows: the blocks so far, and the fence that is open, if any, with its code.
NoFence == Text("")
Start == [blocks |-> <<>>, open |-> NoFence, code |-> <<>>]
Step(r, line) ==
    IF r.open = NoFence
    THEN IF parse_fence(line) THEN [r EXCEPT !.open = line, !.code = <<>>] ELSE r
    ELSE IF is_closing(line, r.open)
    THEN [r EXCEPT !.open = NoFence, !.blocks = Append(@, Block(Language(r.open), r.code, TRUE))]
    ELSE [r EXCEPT !.code = Append(@, line)]

\* A reply cut off inside a block keeps what there is of it.
\* Mutant of Truncated: it is forgotten.
TruncatedLost(r) == r.blocks
Truncated(r) ==
    IF r.open = NoFence THEN r.blocks ELSE Append(r.blocks, Block(Language(r.open), r.code, FALSE))

\* The loop over the lines.
Rounds(lines) ==
    LET r[n \in 0..Len(lines)] == IF n = 0 THEN Start ELSE Step(r[n - 1], lines[n]) IN r

find_code_blocks(lines) == Truncated(Rounds(lines)[Len(lines)])

Blank == Text("blank")
HasCode(block) == \E i \in DOMAIN block.code : block.code[i] # Blank

\* The first of the longest blocks of this language.
\* Mutant of Better: the last one wins.
BetterAny(block, best) == TRUE
Better(block, best) == Len(block.code) > Len(best)
Pick(best, block, language) ==
    IF HasCode(block) /\ block.language = language /\ (best = <<>> \/ Better(block, best))
    THEN block.code ELSE best
Best(blocks, language) ==
    LET best[n \in 0..Len(blocks)] ==
            IF n = 0 THEN <<>> ELSE Pick(best[n - 1], blocks[n], language)
    IN  best[Len(blocks)]

looks_like_code(lines) == \E i \in DOMAIN lines : lines[i] = Text("#include")

\* <<>> when there is no code. The whole reply is taken where nothing is fenced.
extract_cpp_source(lines) ==
    LET blocks == find_code_blocks(lines)
        cpp == Best(blocks, "cpp")
        untagged == Best(blocks, "")
    IN  IF cpp # <<>> THEN cpp
        ELSE IF untagged # <<>> THEN untagged
        ELSE IF blocks = <<>> /\ looks_like_code(lines) THEN lines
        ELSE <<>>

---------------------------------------------------------------------------
(* Properties, of every sequence of lines.                                 *)

\* The lines between two fences of n backticks.
Fenced(lines, n) == <<Run("tick", n, "cpp")>> \o lines \o <<Run("tick", n, "")>>

\* The lengths of a fence that is longer than every run of backticks in these lines.
Longer(lines) ==
    {n \in {3} \cup {lines[i].length + 1 : i \in DOMAIN lines} :
        n >= 3 /\ \A i \in DOMAIN lines : lines[i].ch = "tick" => lines[i].length < n}

\* A source that is fenced as Markdown asks, by a fence longer than any in it, is found as it
\* is, fences in its comments included; and so is the next one.
SourceSurvives(lines) ==
    LET block == Block("cpp", lines, TRUE)
    IN  \A n \in Longer(lines) :
            find_code_blocks(Fenced(lines, n) \o <<Text("prose")>> \o Fenced(lines, n)) = <<block, block>>

\* A reply that is cut off loses nothing it has said: with each line that arrives the blocks
\* stay, the last of them growing, ending, or being followed by one that begins.
CutLosesNothing(lines) ==
    lines # <<>> =>
        LET before == find_code_blocks(Front(lines))
            after == find_code_blocks(lines)
            outside == before = <<>> \/ Last(before).terminated
            Now(block) == Append(Front(before), block)
        IN  /\ outside /\ parse_fence(Last(lines)) =>
                   after = Append(before, Block(Language(Last(lines)), <<>>, FALSE))
            /\ outside /\ ~parse_fence(Last(lines)) => after = before
            /\ ~outside =>
                   \/ after = Now([Last(before) EXCEPT !.code = Append(@, Last(lines))])
                   \/ after = Now([Last(before) EXCEPT !.terminated = TRUE]) /\ parse_fence(Last(lines))

\* What is compiled is the first of the longest C++ blocks, or of the untagged ones where there
\* is no C++ one; never a block in another language, and prose only where nothing is fenced.
ChoosesTheSource(lines) ==
    LET blocks == find_code_blocks(lines)
        source == extract_cpp_source(lines)
        Of(language) == {b \in DOMAIN blocks : blocks[b].language = language /\ HasCode(blocks[b])}
        eligible == IF Of("cpp") # {} THEN Of("cpp") ELSE Of("")
    IN  IF eligible = {} THEN source # <<>> => blocks = <<>>
        ELSE \E b \in eligible :
                /\ source = blocks[b].code
                /\ \A c \in eligible : Len(blocks[c].code) < Len(source) + (IF c < b THEN 0 ELSE 1)

=============================================================================
