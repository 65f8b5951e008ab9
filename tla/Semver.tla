--------------------------------- MODULE Semver ---------------------------------
(***************************************************************************)
(* The reference solution of the task semver-compare, once both versions   *)
(* are parsed. An identifier is a number, or a word by its place in the    *)
(* alphabetical order.                                                     *)
(***************************************************************************)
EXTENDS Integers, Sequences

Num(n) == [numeric |-> TRUE, rank |-> n]
Word(n) == [numeric |-> FALSE, rank |-> n]
Version(core, pre) == [core |-> core, pre |-> pre]

Identifiers == [numeric : BOOLEAN, rank : Nat]
Versions == [core : [1..3 -> Nat], pre : Seq(Identifiers)]

compare_numbers(a, b) == IF a < b THEN -1 ELSE IF a > b THEN 1 ELSE 0

\* Mutant of compare_ident: a number and a word are compared like two numbers.
compare_ranks(x, y) == compare_numbers(x.rank, y.rank)
compare_ident(x, y) ==
    CASE x.numeric = y.numeric -> compare_numbers(x.rank, y.rank)
      [] x.numeric /\ ~y.numeric -> -1
      [] ~x.numeric /\ y.numeric -> 1

\* The first comparison of two sequences that is not equal; Rest where there is none.
First(a, b, Compare(_, _), Rest) ==
    LET common == DOMAIN a \cap DOMAIN b
        differ == {i \in common : Compare(a[i], b[i]) # 0}
    IN  IF differ = {} THEN Rest
        ELSE LET i == CHOOSE i \in differ : \A j \in differ : i <= j IN Compare(a[i], b[i])

\* Mutant of Shorter: a version with more identifiers comes first.
ShorterLast(a, b) == compare_numbers(Len(b), Len(a))
Shorter(a, b) == compare_numbers(Len(a), Len(b))

compare_pre(a, b) ==
    CASE a = <<>> /\ b = <<>> -> 0
      [] a = <<>> /\ b # <<>> -> 1
      [] a # <<>> /\ b = <<>> -> -1
      [] a # <<>> /\ b # <<>> -> First(a, b, compare_ident, Shorter(a, b))

compare_semver(a, b) == First(a.core, b.core, compare_numbers, compare_pre(a.pre, b.pre))

---------------------------------------------------------------------------
(* Properties, of every three versions.                                    *)

\* The comparison is a total order of versions, so that they can be sorted: equal only to
\* itself, antisymmetric and transitive, across releases, numbers and words.
TotalOrder(a, b, c) ==
    /\ compare_semver(a, b) = 0 <=> a = b
    /\ compare_semver(a, b) = -compare_semver(b, a)
    /\ compare_semver(a, b) <= 0 /\ compare_semver(b, c) <= 0 => compare_semver(a, c) <= 0

\* A pre-release comes after every prefix of itself, and before the release; nothing comes
\* between a pre-release and its release but pre-releases of that release.
PreReleasesPrecede(a, b, c) ==
    /\ a.pre # <<>> => compare_semver(a, Version(a.core, <<>>)) = -1
    /\ \A n \in 1..(Len(a.pre) - 1) : compare_semver(Version(a.core, SubSeq(a.pre, 1, n)), a) = -1
    /\ /\ compare_semver(a, b) = -1 /\ compare_semver(b, c) = -1
       /\ a.core = c.core
       => b.core = a.core /\ b.pre # <<>>

=============================================================================
