------------------------------- MODULE Expression -------------------------------
(***************************************************************************)
(* The recursive-descent parser of the tool evaluate_expression. A text is *)
(* a sequence of tokens: "n" is a number or a constant, "f" the name of a  *)
(* function, "*" stands for "/" and "%" as well. In place of a value the   *)
(* parser yields the tree it computes it by; the errors of the arithmetic  *)
(* (a division by zero, a root of a negative number) are left out.         *)
(***************************************************************************)
EXTENDS Naturals, Sequences, FiniteSets

CONSTANT kMaxDepth  \* a natural number

---------------------------------------------------------------------------
(* ExpressionParser: what a function returns, with pos_ and depth_ as it   *)
(* leaves them.                                                            *)

Value(tree, pos, depth) == [ok |-> TRUE, tree |-> tree, pos |-> pos, depth |-> depth, error |-> ""]
Fail(error) == [ok |-> FALSE, tree |-> <<>>, pos |-> 0, depth |-> 0, error |-> error]

At(s, pos) == IF pos <= Len(s) THEN s[pos] ELSE "end"

RECURSIVE expr(_, _, _), more_terms(_, _), term(_, _, _), more_factors(_, _)
RECURSIVE unary(_, _, _), power(_, _, _), primary(_, _, _)

\* Mutant of Left: the depth is not given back.
LeftDeep(value) == value
Left(value) == IF value.ok THEN [value EXCEPT !.depth = @ - 1] ELSE value

expr(s, pos, depth) ==
    IF depth + 1 > kMaxDepth THEN Fail("nested too deeply")
    ELSE Left(more_terms(s, term(s, pos, depth + 1)))

Join(op, lhs, rhs) == Value(<<op, lhs.tree, rhs.tree>>, rhs.pos, rhs.depth)

more_terms(s, lhs) ==
    IF ~lhs.ok \/ At(s, lhs.pos) \notin {"+", "-"} THEN lhs
    ELSE LET rhs == term(s, lhs.pos + 1, lhs.depth)
         IN  IF rhs.ok THEN more_terms(s, Join(s[lhs.pos], lhs, rhs)) ELSE rhs

term(s, pos, depth) == more_factors(s, unary(s, pos, depth))

more_factors(s, lhs) ==
    IF ~lhs.ok \/ At(s, lhs.pos) # "*" THEN lhs
    ELSE LET rhs == unary(s, lhs.pos + 1, lhs.depth)
         IN  IF rhs.ok THEN more_factors(s, Join("*", lhs, rhs)) ELSE rhs

unary(s, pos, depth) ==
    IF depth + 1 > kMaxDepth THEN Fail("nested too deeply")
    ELSE IF At(s, pos) \in {"+", "-"}
    THEN LET out == unary(s, pos + 1, depth + 1)
         IN  IF out.ok THEN Left([out EXCEPT !.tree = <<s[pos], @>>]) ELSE out
    ELSE Left(power(s, pos, depth + 1))

\* Mutant of Exponent: without a sign, and associating to the left.
ExponentPrimary(s, pos, depth) == primary(s, pos, depth)
Exponent(s, pos, depth) == unary(s, pos, depth)

power(s, pos, depth) ==
    LET base == primary(s, pos, depth)
        exponent == Exponent(s, base.pos + 1, base.depth)
    IN  IF ~base.ok \/ At(s, base.pos) # "^" THEN base
        ELSE IF exponent.ok THEN Join("^", base, exponent) ELSE exponent

Closed(s, inner) ==
    IF ~inner.ok THEN inner
    ELSE IF At(s, inner.pos) = ")" THEN [inner EXCEPT !.pos = @ + 1] ELSE Fail("expected )")

primary(s, pos, depth) ==
    CASE At(s, pos) = "n" -> Value(<<"n">>, pos + 1, depth)
      [] At(s, pos) = "(" -> Closed(s, expr(s, pos + 1, depth))
      [] At(s, pos) = "f" ->
           IF At(s, pos + 1) # "(" THEN Fail("unknown identifier")
           ELSE LET call == Closed(s, expr(s, pos + 2, depth))
                IN  IF call.ok THEN [call EXCEPT !.tree = <<"f", @>>] ELSE call
      [] At(s, pos) \notin {"n", "(", "f"} -> Fail("unexpected")

parse(s) ==
    LET value == expr(s, 1, 0)
    IN  IF value.ok /\ value.pos <= Len(s) THEN Fail("unexpected character") ELSE value

---------------------------------------------------------------------------
(* The grammar of the comment above the parser: the trees of a text, for   *)
(* every way to split it.                                                  *)

RECURSIVE Exprs(_), Terms(_), Unaries(_), Powers(_), Primaries(_)

Before(s, i) == SubSeq(s, 1, i - 1)
After(s, i) == SubSeq(s, i + 1, Len(s))
Places(s, ops) == {i \in DOMAIN s : s[i] \in ops}
Inside(s) == SubSeq(s, 2, Len(s) - 1)
Bracketed(s) == Len(s) > 2 /\ Head(s) = "(" /\ s[Len(s)] = ")"

Exprs(s) == Terms(s) \cup
    UNION {{<<s[i], l, r>> : l \in Exprs(Before(s, i)), r \in Terms(After(s, i))} : i \in Places(s, {"+", "-"})}
Terms(s) == Unaries(s) \cup
    UNION {{<<s[i], l, r>> : l \in Terms(Before(s, i)), r \in Unaries(After(s, i))} : i \in Places(s, {"*"})}
Unaries(s) == Powers(s) \cup
    IF s # <<>> /\ Head(s) \in {"+", "-"} THEN {<<Head(s), u>> : u \in Unaries(Tail(s))} ELSE {}
Powers(s) == Primaries(s) \cup
    UNION {{<<s[i], l, r>> : l \in Primaries(Before(s, i)), r \in Unaries(After(s, i))} : i \in Places(s, {"^"})}
Primaries(s) ==
    IF s = <<"n">> THEN {s}
    ELSE IF Bracketed(s) THEN Exprs(Inside(s))
    ELSE IF s # <<>> /\ Head(s) = "f" /\ Bracketed(Tail(s)) THEN {<<"f", e>> : e \in Exprs(Inside(Tail(s)))}
    ELSE {}

---------------------------------------------------------------------------
(* Properties, of every sequence of tokens.                                *)

\* How deep the parser may have to go for s: two levels for a bracket, one for each sign of an
\* operand and each exponent. Sums and products may be as long as they like.
Nesting(s) ==
    2 + 2 * Cardinality(Places(s, {"("})) + Cardinality(Places(s, {"^"}))
      + Cardinality({i \in Places(s, {"+", "-"}) : i = 1 \/ s[i - 1] \notin {"n", ")"}})

\* The parser computes every text of the grammar by the one tree the grammar has for it, with
\* its precedences (-n^n is -(n^n)) and its associativity, and refuses every other text. It
\* gives up only when the text is nested, never because it is long.
ParsesTheGrammar(s) ==
    IF parse(s).ok THEN Exprs(s) = {parse(s).tree}
    ELSE Exprs(s) # {} => parse(s).error = "nested too deeply" /\ Nesting(s) > kMaxDepth

=============================================================================
