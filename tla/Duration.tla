-------------------------------- MODULE Duration --------------------------------
(***************************************************************************)
(* The reference solution of the task parse-duration: "-9us0.9ns" as a     *)
(* 64-bit number of nanoseconds, or not at all. A text is a sequence of    *)
(* characters, the name of a unit being one; the width of the result, the  *)
(* units and the digits are parameters.                                    *)
(***************************************************************************)
EXTENDS Integers, Sequences

CONSTANTS
    kLimit,      \* the magnitude of the least number, one more than that of the greatest
    Unit,        \* the nanoseconds of each unit
    DigitValue,  \* what each digit counts
    Digits       \* the digits of a fraction that are read

Digit == DOMAIN DigitValue
Ten(n) == LET power[k \in Nat] == IF k = 0 THEN 1 ELSE 10 * power[k - 1] IN power[n]

\* Further digits are below 1ns: no unit has more than 10^Digits of them.
ConstantsOK ==
    /\ kLimit \in Nat \ {0} /\ Digits \in Nat
    /\ Unit \in [DOMAIN Unit -> Nat \ {0}] /\ \A name \in DOMAIN Unit : Unit[name] <= Ten(Digits)
    /\ DigitValue \in [Digit -> 0..9]
    /\ "." \notin Digit \cup DOMAIN Unit /\ Digit \cap DOMAIN Unit = {}

None == <<>>

\* What the digits after place i spell, up to place j.
Number(s, i, j) ==
    LET value[n \in 0..(j - i)] == IF n = 0 THEN 0 ELSE value[n - 1] * 10 + DigitValue[s[i + n]]
    IN  value[j - i]

\* The last of the characters in C that follow place i.
Run(s, i, C) ==
    CHOOSE j \in i..Len(s) : (\A k \in (i + 1)..j : s[k] \in C) /\ (j < Len(s) => s[j + 1] \notin C)

\* Neither a point nor a digit.
Letters(s) == {s[k] : k \in DOMAIN s} \ (Digit \cup {"."})
Lesser(m, n) == IF m < n THEN m ELSE n

\* A round of the loop: whole.frac and a unit, after place r.at.
Component(s, r) ==
    LET whole == Run(s, r.at, Digit)
        point == IF whole < Len(s) /\ s[whole + 1] = "." THEN whole + 1 ELSE whole
        frac == Run(s, point, Digit)
        read == Lesser(frac - point, Digits)
        name == Run(s, frac, Letters(s))
        unit == Unit[s[name]]
        total == r.total + Number(s, r.at, whole) * unit
                         + (Number(s, point, point + read) * unit) \div Ten(read)
    IN  IF \/ whole = r.at /\ frac = point
           \/ Number(s, r.at, whole) > kLimit
           \/ name # frac + 1 \/ s[name] \notin DOMAIN Unit
           \/ total > kLimit
          THEN [r EXCEPT !.ok = FALSE]
          ELSE [ok |-> TRUE, at |-> name, total |-> total]

Rounds(s) ==
    LET after[n \in 0..Len(s)] ==
            IF n = 0 THEN [ok |-> TRUE, at |-> 0, total |-> 0]
            ELSE IF after[n - 1].ok /\ after[n - 1].at < Len(s) THEN Component(s, after[n - 1])
            ELSE after[n - 1]
    IN  after

\* Mutant of Exceeds: the least number is refused with the one that has no opposite.
ExceedsBoth(total, negative) == total >= kLimit
Exceeds(total, negative) == total > kLimit \/ (~negative /\ total = kLimit)

Negative(text) == text # <<>> /\ Head(text) = "-"
Unsigned(text) == IF text # <<>> /\ Head(text) \in {"+", "-"} THEN Tail(text) ELSE text

\* No more rounds than characters.
parse_duration(text) ==
    LET s == Unsigned(text)
        end == Rounds(s)[Len(s)]
    IN  IF s = <<"0">> THEN <<0>>
        ELSE IF s = <<>> \/ ~end.ok \/ Exceeds(end.total, Negative(text)) THEN None
        ELSE IF Negative(text) THEN <<-end.total>> ELSE <<end.total>>

---------------------------------------------------------------------------
(* What a text means, by its places: a component ends at each unit.        *)

Ends(s) == {e \in DOMAIN s : s[e] \in DOMAIN Unit}
Start(s, e) == CHOOSE i \in {0} \cup Ends(s) : i < e /\ \A j \in Ends(s) : j < e => j <= i
Spelt(s, e) == (Start(s, e) + 1)..(e - 1)
WellFormed(s, e) ==
    /\ \A k \in Spelt(s, e) : s[k] \in Digit \cup {"."}
    /\ \A j, k \in Spelt(s, e) : s[j] = "." /\ s[k] = "." => j = k
    /\ \E k \in Spelt(s, e) : s[k] \in Digit
Valid(s) == s # <<>> /\ Len(s) \in Ends(s) /\ \A e \in Ends(s) : WellFormed(s, e)

\* Where the fraction begins; without a point it is empty.
PointAt(s, e) == IF \E k \in Spelt(s, e) : s[k] = "." THEN CHOOSE k \in Spelt(s, e) : s[k] = "." ELSE e - 1
Whole(s, e) == IF \E k \in Spelt(s, e) : s[k] = "." THEN PointAt(s, e) - 1 ELSE e - 1
Places(s, e) == (e - 1) - PointAt(s, e)
Nanoseconds(s, e) ==
    ((Number(s, Start(s, e), Whole(s, e)) * Ten(Places(s, e)) + Number(s, PointAt(s, e), e - 1)) * Unit[s[e]])
        \div Ten(Places(s, e))

\* The components up to each place, without what is lost of each.
Sum(s, lost) ==
    LET sum[n \in 0..Len(s)] ==
            IF n = 0 THEN 0
            ELSE IF n \in Ends(s) THEN sum[n - 1] + (Nanoseconds(s, n) - lost[n])
            ELSE sum[n - 1]
    IN  sum

\* text is parsed as the signed sum of its components without what is lost of each, if that is
\* well formed and a number of that width, and not at all if it is not.
ParsedBut(text, lost) ==
    LET s == Unsigned(text)
        total == (IF Negative(text) THEN -1 ELSE 1) * Sum(s, lost)[Len(s)]
    IN  parse_duration(text) =
            IF s = <<"0">> THEN <<0>>
            ELSE IF Valid(s) /\ total \in (-kLimit)..(kLimit - 1) THEN <<total>> ELSE None

---------------------------------------------------------------------------
(* Properties, of every text.                                              *)

\* A duration is its sign and the sum of its components, each cut off to the nanosecond,
\* however large a number the text spells, the least one included. Only a fraction of more
\* digits than are read may lose a nanosecond, and only in a unit that does not divide 10^Digits.
ExactOrNothing(text) ==
    LET s == Unsigned(text)
    IN  \E lost \in [Ends(s) -> {0, 1}] :
           /\ \A e \in Ends(s) : lost[e] = 1 => Places(s, e) > Digits /\ Ten(Digits) % Unit[s[e]] # 0
           /\ ParsedBut(text, lost)

\* task.json:14: "Fractions are truncated toward zero at nanosecond precision". Not always: see
\* the README.
Truncated(text) == ParsedBut(text, [e \in Ends(Unsigned(text)) |-> 0])

=============================================================================
