-------------------------------- MODULE CliArgs --------------------------------
(***************************************************************************)
(* cli::Args: the command line as flags, options with a value, and words.  *)
(***************************************************************************)
EXTENDS Listing

CONSTANTS flags, value_options  \* struct Spec

\* An argument is a word, --name, --name=value or --. The value of an option is an argument.
Word(name) == [kind |-> "word", name |-> name]
Option(name) == [kind |-> "option", name |-> name]
Inline(name, value) == [kind |-> "inline", name |-> name, value |-> value]
End == [kind |-> "end", name |-> ""]

Plain == [kind : {"word", "option"}, name : STRING] \cup {End}
Arguments == Plain \cup [kind : {"inline"}, name : STRING, value : Plain]

\* What has been parsed. values_ is a multimap: the values of a name stay in order.
\* pending is the option that takes the argument that comes next.
Nothing == [positional |-> <<>>, flags |-> {}, values |-> [name \in value_options |-> <<>>],
            options_done |-> FALSE, pending |-> {}, error |-> ""]

\* Mutant of Verbatim: an option is one after -- too.
VerbatimWord(r, arg) == arg.kind = "word"
Verbatim(r, arg) == r.options_done \/ arg.kind = "word"

Take(r, name, value) == [r EXCEPT !.values[name] = Append(@, value), !.pending = {}]

\* Mutant of Pending: an option does not take an argument that looks like one itself.
PendingWord(r, arg) == r.pending # {} /\ arg.kind = "word"
Pending(r, arg) == r.pending # {}

ParseArg(r, arg) ==
    IF r.error # "" THEN r
    ELSE IF Pending(r, arg) THEN Take(r, CHOOSE name \in r.pending : TRUE, arg)
    ELSE IF Verbatim(r, arg) THEN [r EXCEPT !.positional = Append(@, arg)]
    ELSE IF arg = End THEN [r EXCEPT !.options_done = TRUE]
    ELSE IF arg.name \in flags
         THEN IF arg.kind = "inline" THEN [r EXCEPT !.error = "does not take a value"]
              ELSE [r EXCEPT !.flags = @ \cup {arg.name}]
    ELSE IF arg.name \in value_options
         THEN IF arg.kind = "inline" THEN Take(r, arg.name, arg.value)
              ELSE [r EXCEPT !.pending = {arg.name}]
    ELSE [r EXCEPT !.error = "unknown option"]

\* The loop over the arguments.
Rounds(args) ==
    LET r[n \in 0..Len(args)] == IF n = 0 THEN Nothing ELSE ParseArg(r[n - 1], args[n]) IN r

parse(args) ==
    LET r == Rounds(args)[Len(args)]
    IN  IF r.error = "" /\ r.pending # {} THEN [r EXCEPT !.error = "requires a value"] ELSE r

\* Last occurrence wins; <<>> for an option that is not there.
get(r, name) == IF r.values[name] = <<>> THEN <<>> ELSE <<r.values[name][Len(r.values[name])]>>

---------------------------------------------------------------------------
(* Properties, of every command line.                                      *)

\* An accepted command line gives every argument one part, by where it stands alone: the value
\* of the option before it, whatever it looks like; a word after the first --, whatever it looks
\* like; and else what it looks like. The words and the values of each option keep their order.
EachArgumentHasOnePart(args) ==
    parse(args).error = "" =>
        \E values \in SUBSET DOMAIN args :
            LET After(i) == \E j \in (1..(i - 1)) \ values : args[j] = End
                Free == {i \in DOMAIN args \ values : ~After(i)}
                Takes(i) == i \in Free /\ args[i].kind = "option" /\ args[i].name \in value_options \ flags
                Given(name) == {i \in values : args[i - 1].name = name}
                               \cup {i \in Free : args[i].kind = "inline" /\ args[i].name = name}
                said == [i \in DOMAIN args |-> IF i \in values THEN args[i] ELSE args[i].value]
                r == parse(args)
            IN  /\ values = {i + 1 : i \in {j \in DOMAIN args : Takes(j)}}
                /\ Lists(r.positional, args,
                         {i \in DOMAIN args \ values : After(i) \/ args[i].kind = "word"})
                /\ r.flags = {args[i].name : i \in {j \in Free : args[j].kind = "option"}} \cap flags
                /\ \A name \in value_options :
                       /\ Lists(r.values[name], said, Given(name))
                       /\ IF Given(name) = {} THEN get(r, name) = <<>>
                          ELSE \E i \in Given(name) :
                                  (\A j \in Given(name) : j <= i) /\ get(r, name) = <<said[i]>>

=============================================================================
