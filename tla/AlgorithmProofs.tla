----------------------------- MODULE AlgorithmProofs -----------------------------
(***************************************************************************)
(* Proofs about the parts of the program that compute a result from their  *)
(* input alone, and about SseParser. First, induction: it is stated of     *)
(* sets of numbers, and gives the functions that are defined by recursion. *)
(***************************************************************************)
EXTENDS Algorithms, Sse, TLAPS, SequenceTheorems, WellFoundedInduction

LEMMA Least ==
  ASSUME NEW T \in SUBSET Nat, T # {}
  PROVE  \E x \in T : \A y \in T : x <= y
<1>1. IsWellFoundedOn(OpToRel(<, Nat), Nat)
  BY NatLessThanWellFounded, Zenon
<1>2. PICK x \in T : \A y \in T : ~(<<y, x>> \in OpToRel(<, Nat))
  BY <1>1, WFMin, Zenon
<1>3. \A y \in T : <<y, x>> \in OpToRel(<, Nat) <=> y < x
  BY DEF OpToRel
<1>4. ASSUME NEW y \in T PROVE x <= y
  <2>1. ~(y < x) /\ x \in Nat /\ y \in Nat
    BY <1>2, <1>3
  <2> QED BY <2>1
<1> QED BY <1>4

LEMMA Ind ==
  ASSUME NEW T \in SUBSET Nat, 0 \in T, \A n \in T : n + 1 \in T
  PROVE  T = Nat
<1> SUFFICES ASSUME Nat \ T # {} PROVE FALSE
  OBVIOUS
<1>1. PICK x \in Nat \ T : \A y \in Nat \ T : x <= y
  BY Least
<1>2. x # 0 /\ x - 1 \in Nat /\ x - 1 \in T
  BY <1>1
<1> QED BY <1>1, <1>2

\* A function defined by what it is of 0 and of n + 1 by what it is of n exists.
Unfolds(g, a, D) == g[0] = a /\ \A n \in Nat : g[n + 1] = D[<<g[n], n>>]
LEMMA RecursiveFunction ==
  ASSUME NEW S, NEW a \in S, NEW D \in [S \X Nat -> S]
  PROVE  \E g \in [Nat -> S] : Unfolds(g, a, D)
<1> DEFINE Upto(n) == {g \in [0..n -> S] : g[0] = a /\ \A i \in 0..(n - 1) : g[i + 1] = D[<<g[i], i>>]}
           T == {n \in Nat : Upto(n) # {}}
<1>1. T = Nat
  <2>1. 0 \in T
    <3> DEFINE g == [i \in 0..0 |-> a]
    <3>1. g \in Upto(0)
      OBVIOUS
    <3> QED BY <3>1
  <2>2. ASSUME NEW n \in T PROVE n + 1 \in T
    <3>1. PICK g \in Upto(n) : TRUE
      OBVIOUS
    <3> DEFINE h == [i \in 0..(n + 1) |-> IF i <= n THEN g[i] ELSE D[<<g[n], n>>]]
    <3>2. n \in Nat /\ g \in [0..n -> S] /\ g[0] = a /\ \A i \in 0..(n - 1) : g[i + 1] = D[<<g[i], i>>]
      BY <3>1
    <3>3. D[<<g[n], n>>] \in S
      BY <3>2
    <3>4. h \in [0..(n + 1) -> S] /\ h[0] = a
      BY <3>2, <3>3
    <3>5. \A i \in 0..((n + 1) - 1) : h[i + 1] = D[<<h[i], i>>]
      <4>0. (n + 1) - 1 = n
        BY <3>2
      <4> SUFFICES ASSUME NEW i \in 0..n PROVE h[i + 1] = D[<<h[i], i>>]
        BY <4>0, Zenon
      <4>1. CASE i = n
        BY <4>1, <3>2
      <4>2. CASE i # n
        <5>1. i \in 0..(n - 1) /\ i <= n /\ i + 1 <= n /\ i \in 0..(n + 1) /\ i + 1 \in 0..(n + 1)
          BY <4>2, <3>2
        <5> QED BY <5>1, <3>2
      <4> QED BY <4>1, <4>2
    <3>6. h \in Upto(n + 1)
      BY <3>4, <3>5
    <3> HIDE DEF h
    <3> QED BY <3>2, <3>6
  <2> HIDE DEF T
  <2>3. T \in SUBSET Nat
    BY DEF T
  <2> QED BY <2>1, <2>2, <2>3, Ind
<1> DEFINE F(n) == CHOOSE g \in Upto(n) : TRUE
           G == [n \in Nat |-> F(n)[n]]
<1>2. ASSUME NEW n \in Nat
      PROVE  /\ F(n) \in Upto(n) /\ G[n] = F(n)[n] /\ G[n] \in S
             /\ n = 0 => G[n] = a
  <2>1. F(n) \in Upto(n)
    <3> HIDE DEF Upto
    <3> QED BY <1>1
  <2> HIDE DEF F
  <2>2. G[n] = F(n)[n]
    OBVIOUS
  <2> HIDE DEF G
  <2>3. F(n) \in [0..n -> S] /\ F(n)[0] = a /\ n \in 0..n
    BY <2>1
  <2> QED BY <2>1, <2>2, <2>3
<1> HIDE DEF F, G
<1>3. ASSUME NEW n \in Nat, NEW g \in Upto(n), NEW h \in Upto(n + 1) PROVE g[n] = h[n]
  <2> DEFINE U == {i \in Nat : i <= n => g[i] = h[i]}
  <2>1. 0 \in U
    OBVIOUS
  <2>2. ASSUME NEW i \in U PROVE i + 1 \in U
    <3>1. CASE i + 1 <= n
      <4>1. i \in 0..(n - 1) /\ i \in 0..((n + 1) - 1) /\ g[i] = h[i]
        BY <3>1
      <4>2. g[i + 1] = D[<<g[i], i>>] /\ h[i + 1] = D[<<h[i], i>>]
        BY <4>1
      <4> QED BY <4>1, <4>2
    <3>2. CASE ~(i + 1 <= n)
      BY <3>2
    <3> QED BY <3>1, <3>2
  <2> HIDE DEF U
  <2>3. U \in SUBSET Nat
    BY DEF U
  <2>4. U = Nat
    BY <2>1, <2>2, <2>3, Ind
  <2>5. n \in U
    BY <2>4
  <2> QED BY <2>5 DEF U
<1>4. G[0] = a
  BY <1>2
<1>5. ASSUME NEW n \in Nat PROVE G[n + 1] = D[<<G[n], n>>]
  <2> DEFINE g == F(n)
             h == F(n + 1)
  <2>1. g \in Upto(n) /\ h \in Upto(n + 1) /\ G[n] = g[n] /\ G[n + 1] = h[n + 1]
    BY <1>2
  <2> HIDE DEF g, h
  <2>2. g[n] = h[n]
    BY <1>3, <2>1
  <2>3. h[n + 1] = D[<<h[n], n>>]
    BY <2>1
  <2> QED BY <2>1, <2>2, <2>3
<1>6. G \in [Nat -> S]
  BY <1>2 DEF G
<1>7. Unfolds(G, a, D)
  BY <1>4, <1>5 DEF Unfolds
<1> QED BY <1>6, <1>7

\* The same for a function of the numbers up to m.
Iterates(g, a, m, D) == g[0] = a /\ \A n \in 1..m : g[n] = D[<<g[n - 1], n>>]
LEMMA RecursiveUpTo ==
  ASSUME NEW S, NEW a \in S, NEW m \in Nat, NEW D \in [S \X (1..m) -> S]
  PROVE  \E g \in [0..m -> S] : Iterates(g, a, m, D)
<1> DEFINE E == [p \in S \X Nat |-> IF p[2] < m THEN D[<<p[1], p[2] + 1>>] ELSE p[1]]
<1>1. E \in [S \X Nat -> S]
  <2> SUFFICES ASSUME NEW x \in S, NEW n \in Nat
               PROVE  (IF n < m THEN D[<<x, n + 1>>] ELSE x) \in S
    OBVIOUS
  <2>1. n < m => n + 1 \in 1..m
    OBVIOUS
  <2> QED BY <2>1
<1>2. PICK h \in [Nat -> S] : Unfolds(h, a, E)
  <2> HIDE DEF E
  <2> QED BY <1>1, RecursiveFunction, Zenon
<1> DEFINE g == [n \in 0..m |-> h[n]]
<1>3. g \in [0..m -> S] /\ g[0] = a
  BY <1>2 DEF Unfolds
<1>4. ASSUME NEW n \in 1..m PROVE g[n] = D[<<g[n - 1], n>>]
  <2>1. n - 1 \in Nat /\ n - 1 \in 0..m /\ n \in 0..m /\ n - 1 < m /\ (n - 1) + 1 = n
    OBVIOUS
  <2>2. h[(n - 1) + 1] = E[<<h[n - 1], n - 1>>]
    <3> HIDE DEF E
    <3> QED BY <1>2, <2>1 DEF Unfolds
  <2>3. h[n - 1] \in S
    BY <2>1
  <2>4. E[<<h[n - 1], n - 1>>] = D[<<h[n - 1], n>>]
    BY <2>1, <2>3
  <2> QED BY <2>1, <2>2, <2>4
<1> HIDE DEF g
<1> QED BY <1>3, <1>4 DEF Iterates

\* What holds of 0, and of n when it holds of n - 1, holds up to m.
LEMMA IndUpTo ==
  ASSUME NEW m \in Nat, NEW T \in SUBSET (0..m), 0 \in T, \A n \in 1..m : n - 1 \in T => n \in T
  PROVE  T = 0..m
<1> DEFINE U == {n \in Nat : n <= m => n \in T}
<1>1. 0 \in U
  OBVIOUS
<1>2. ASSUME NEW n \in U PROVE n + 1 \in U
  <2>1. n + 1 <= m => n + 1 \in 1..m /\ (n + 1) - 1 = n /\ n \in T
    OBVIOUS
  <2> QED BY <2>1
<1>3. U \in SUBSET Nat
  OBVIOUS
<1> HIDE DEF U
<1>4. U = Nat
  BY <1>1, <1>2, <1>3, Ind
<1>5. ASSUME NEW n \in 0..m PROVE n \in T
  <2>1. n \in Nat /\ n <= m
    OBVIOUS
  <2>2. n \in U
    BY <1>4, <2>1, Zenon
  <2> QED BY <2>1, <2>2 DEF U
<1> QED BY <1>5

LEMMA PowerIsNatural ==
  ASSUME NEW b \in Nat
  PROVE  \A n \in Nat : Delays!Power(b)[n] \in Nat
<1> DEFINE D == [p \in Nat \X Nat |-> b * p[1]]
           Is(f) == f = [n \in Nat |-> IF n = 0 THEN 1 ELSE b * f[n - 1]]
           power == CHOOSE f : Is(f)
<1>1. D \in [Nat \X Nat -> Nat]
  OBVIOUS
<1>2. PICK g \in [Nat -> Nat] : Unfolds(g, 1, D)
  <2> HIDE DEF D
  <2>1. ASSUME NEW one \in Nat PROVE \E g \in [Nat -> Nat] : Unfolds(g, one, D)
    BY <1>1, RecursiveFunction, Zenon
  <2> QED BY <2>1
<1>3. Is(g)
  <2>1. ASSUME NEW n \in Nat, n # 0 PROVE g[n] = b * g[n - 1]
    <3>1. n - 1 \in Nat /\ (n - 1) + 1 = n
      BY <2>1
    <3>2. g[(n - 1) + 1] = D[<<g[n - 1], n - 1>>]
      BY <1>2, <3>1 DEF Unfolds
    <3> QED BY <3>1, <3>2
  <2> QED BY <1>2, <2>1 DEF Unfolds
<1> HIDE DEF Is
<1>4. Is(power)
  BY <1>3
<1> HIDE DEF power
<1> DEFINE T == {n \in Nat : power[n] \in Nat}
<1>5. 0 \in T
  BY <1>4 DEF Is
<1>6. ASSUME NEW n \in T PROVE n + 1 \in T
  <2>1. n + 1 \in Nat /\ n + 1 # 0 /\ (n + 1) - 1 = n
    OBVIOUS
  <2>2. power[n + 1] = b * power[n]
    BY <1>4, <2>1 DEF Is
  <2> QED BY <2>1, <2>2
<1> HIDE DEF T
<1>7. T = Nat
  <2>1. T \in SUBSET Nat
    BY DEF T
  <2> QED BY <1>5, <1>6, <2>1, Ind
<1>8. Delays!Power(b) = power
  BY DEF Delays!Power, power, Is
<1> QED BY <1>7, <1>8 DEF T

LEMMA DelaysAreBounded ==
  ASSUME NEW p \in Delays!Policies, NEW n \in Int, NEW e \in Delays!Errors
  PROVE  Delays!DelayBounded(p, n, e) /\ Delays!HintObeyed(p, n, e)
<1> DEFINE hint == Delays!retry_after(e)
           text == IF e.details = <<>> THEN Delays!None ELSE e.details[Len(e.details)]
           max == p.max_backoff
<1>1. /\ p.initial_backoff \in Nat /\ max \in Nat /\ p.multiplier \in Nat /\ p.jitter \in Nat
      /\ Fraction \in Nat \ {0} /\ Second \in Nat \ {0}
  BY ElementsAssumption DEF Delays!Policies
<1>2. text \in Nat \cup {-1} /\ e.header \in Nat \cup {-1}
  <2>1. e.details \in Seq(Nat \cup {-1}) /\ e.header \in Nat \cup {-1}
    BY DEF Delays!Errors, Delays!None
  <2>2. e.details # <<>> => Len(e.details) \in 1..Len(e.details)
    BY <2>1
  <2> QED BY <2>1, <2>2 DEF Delays!None
<1> HIDE DEF max, text
<1>3. /\ text # -1 => /\ hint \in Nat /\ hint # -1
                      /\ hint * Fraction \in text..(text + Fraction - 1)
      /\ text = -1 /\ e.header # -1 => hint = e.header * Second /\ hint \in Nat
      /\ text = -1 /\ e.header = -1 => hint = -1
  <2> DEFINE q == text \div Fraction
  <2>1. CASE text # -1
    <3>1. text \in Nat
      BY <1>2, <2>1
    <3>2. /\ q \in Int /\ text = Fraction * q + (text % Fraction)
          /\ text % Fraction \in 0..(Fraction - 1) /\ q >= 0
      <4>1. q \in Int /\ text = Fraction * q + (text % Fraction) /\ text % Fraction \in 0..(Fraction - 1)
        BY <1>1, <3>1
      <4> HIDE DEF q
      <4>2. q >= 0
        BY <1>1, <3>1, <4>1
      <4> QED BY <4>1, <4>2
    <3>3. hint = q + (IF text % Fraction = 0 THEN 0 ELSE 1)
      <4> DEFINE info == Delays!parse_proto_duration(text)
      <4>1. info = q + (IF text % Fraction = 0 THEN 0 ELSE 1)
        BY <2>1 DEF Delays!parse_proto_duration, Delays!None
      <4>2. info # -1
        BY <3>2, <4>1
      <4>3. e.details # <<>> /\ text = e.details[Len(e.details)]
        BY <2>1 DEF text, Delays!None
      <4> HIDE DEF info, q
      <4>4. hint = IF info = -1 /\ e.header # -1 THEN e.header * Second ELSE info
        BY <4>3 DEF Delays!retry_after, Delays!None, info
      <4> QED BY <4>1, <4>2, <4>4
    <3> HIDE DEF q, hint
    <3>4. CASE text % Fraction = 0
      BY <1>1, <2>1, <3>1, <3>2, <3>3, <3>4
    <3>5. CASE text % Fraction # 0
      <4>1. hint = q + 1 /\ hint * Fraction = Fraction * q + Fraction
        BY <1>1, <3>2, <3>3, <3>5
      <4> QED BY <1>1, <2>1, <3>1, <3>2, <3>5, <4>1
    <3> QED BY <3>4, <3>5
  <2>2. CASE text = -1
    <3>1. hint = IF e.header # -1 THEN e.header * Second ELSE -1
      BY <2>2 DEF text, Delays!retry_after, Delays!parse_proto_duration, Delays!None
    <3>2. e.header # -1 => e.header * Second \in Nat
      BY <1>1, <1>2
    <3> QED BY <2>2, <3>1, <3>2
  <2> QED BY <2>1, <2>2
<1>4. hint \in Nat \cup {-1}
  BY <1>2, <1>3
<1> HIDE DEF hint
<1> SUFFICES ASSUME NEW roll \in Delays!Rolls(p)
    PROVE LET delay == Delays!delay_for(p, n, e, roll)
          IN  /\ delay \in 0..((max * (100 + p.jitter)) \div 100)
              /\ hint # -1 => delay <= max
              /\ delay < max => /\ text # -1 => delay * Fraction \in text..(text + Fraction - 1)
                                /\ text = -1 /\ e.header # -1 => delay = e.header * Second
  BY DEF Delays!DelayBounded, Delays!HintObeyed, max, text, hint, Delays!None
<1> DEFINE delay == Delays!delay_for(p, n, e, roll)
           top == (max * (100 + p.jitter)) \div 100
<1>5. roll \in Int /\ roll <= 100 + p.jitter
  BY <1>1 DEF Delays!Rolls
<1>6. top \in Int /\ max <= top
  BY <1>1
<1>7. CASE hint # -1
  <2>1. delay = IF hint < max THEN hint ELSE max
    BY <1>7 DEF Delays!delay_for, Delays!AtMost, hint, max, Delays!None
  <2> HIDE DEF delay, top
  <2>2. delay \in 0..top /\ delay <= max /\ (delay < max => delay = hint)
    BY <1>1, <1>4, <1>6, <1>7, <2>1
  <2> QED BY <1>2, <1>3, <1>7, <2>2 DEF delay, top
<1>8. CASE hint = -1
  <2> DEFINE base == Delays!Base(p, n)
             worth == (base * roll) \div 100
  <2>1. base \in 0..max
    <3>1. Delays!Power(p.multiplier)[Delays!AtLeast(n, 0)] \in Nat
      BY <1>1, PowerIsNatural DEF Delays!AtLeast
    <3>2. Delays!Exponential(p, n) \in Nat
      BY <1>1, <3>1 DEF Delays!Exponential
    <3> QED BY <1>1, <3>2 DEF Delays!Base, Delays!AtMost, max
  <2>2. delay = IF worth > 0 THEN worth ELSE 0
    BY <1>8 DEF Delays!delay_for, Delays!AtLeast, hint, Delays!None
  <2> HIDE DEF base
  <2>3. base * roll <= max * (100 + p.jitter) /\ base * roll \in Int /\ max * (100 + p.jitter) \in Int
    <3>1. base * roll <= base * (100 + p.jitter)
      BY <1>1, <1>5, <2>1
    <3>2. base * (100 + p.jitter) <= max * (100 + p.jitter)
      BY <1>1, <2>1
    <3>3. base * roll \in Int /\ base * (100 + p.jitter) \in Int /\ max * (100 + p.jitter) \in Int
      BY <1>1, <1>5, <2>1
    <3> QED BY <3>1, <3>2, <3>3
  <2>4. worth \in Int /\ worth <= top
    BY <2>3
  <2> HIDE DEF delay, worth, top
  <2>5. delay \in 0..top
    BY <1>1, <1>6, <2>2, <2>4
  <2>6. text = -1 /\ e.header = -1
    BY <1>2, <1>3, <1>8
  <2> QED BY <1>8, <2>5, <2>6 DEF delay, top
<1> QED BY <1>7, <1>8

---------------------------------------------------------------------------
(* Comparisons, and the task semver-compare. *)

Sign == {-1, 0, 1}

\* c compares the elements of S.
Compares(c, S) ==
    /\ c \in [S \X S -> Sign]
    /\ \A x, y \in S : /\ c[<<x, y>>] = 0 <=> x = y
                       /\ c[<<x, y>>] = -1 <=> c[<<y, x>>] = 1
    /\ \A x, y, z \in S : c[<<x, y>>] # 1 /\ c[<<y, z>>] # 1 => c[<<x, z>>] # 1

\* r is the first comparison of a and b that is not equal, or rest.
FirstOf(c, a, b, rest, r) ==
    LET common == DOMAIN a \cap DOMAIN b
    IN  \/ r = rest /\ \A i \in common : a[i] = b[i]
        \/ \E k \in common : /\ \A i \in common : i < k => a[i] = b[i]
                             /\ a[k] # b[k] /\ r = c[<<a[k], b[k]>>]

LEMMA Numbers ==
  ASSUME NEW x \in Int, NEW y \in Int
  PROVE  Versions!compare_numbers(x, y) = IF x < y THEN -1 ELSE IF x = y THEN 0 ELSE 1
BY DEF Versions!compare_numbers

NumberOrder == [p \in Nat \X Nat |-> Versions!compare_numbers(p[1], p[2])]
IdentOrder == [p \in Versions!Identifiers \X Versions!Identifiers |-> Versions!compare_ident(p[1], p[2])]

LEMMA NumbersCompare == Compares(NumberOrder, Nat)
<1>1. \A x, y \in Nat : NumberOrder[<<x, y>>] = IF x < y THEN -1 ELSE IF x = y THEN 0 ELSE 1
  BY Numbers DEF NumberOrder
<1>2. NumberOrder \in [Nat \X Nat -> Sign]
  BY Numbers DEF NumberOrder, Sign
<1> QED BY <1>1, <1>2 DEF Compares

LEMMA IdentsCompare == Compares(IdentOrder, Versions!Identifiers)
<1> DEFINE I == Versions!Identifiers
<1>1. ASSUME NEW x \in I, NEW y \in I
      PROVE  IdentOrder[<<x, y>>] =
                 IF x.numeric = y.numeric
                 THEN IF x.rank < y.rank THEN -1 ELSE IF x.rank = y.rank THEN 0 ELSE 1
                 ELSE IF x.numeric THEN -1 ELSE 1
  <2>1. x.rank \in Nat /\ y.rank \in Nat /\ x.numeric \in BOOLEAN /\ y.numeric \in BOOLEAN
    BY DEF Versions!Identifiers
  <2>2. IdentOrder[<<x, y>>] = Versions!compare_ident(x, y)
    BY DEF IdentOrder
  <2>3. CASE x.numeric = y.numeric
    BY <2>1, <2>2, <2>3, Numbers DEF Versions!compare_ident
  <2>4. CASE x.numeric # y.numeric
    BY <2>1, <2>2, <2>4 DEF Versions!compare_ident
  <2> QED BY <2>3, <2>4
<1>2. \A x \in I : x.rank \in Nat /\ x.numeric \in BOOLEAN
  BY DEF Versions!Identifiers
<1>3. \A x, y \in I : x = y <=> x.numeric = y.numeric /\ x.rank = y.rank
  BY DEF Versions!Identifiers
<1> HIDE DEF I
<1>4. IdentOrder \in [I \X I -> Sign]
  <2>1. IdentOrder = [p \in I \X I |-> IdentOrder[p]]
    BY DEF IdentOrder, I
  <2>2. \A p \in I \X I : IdentOrder[p] \in Sign
    <3> SUFFICES ASSUME NEW x \in I, NEW y \in I PROVE IdentOrder[<<x, y>>] \in Sign
      OBVIOUS
    <3> QED BY <1>1, <1>2 DEF Sign
  <2> QED BY <2>1, <2>2
<1>5. \A x, y \in I : /\ IdentOrder[<<x, y>>] = 0 <=> x = y
                      /\ IdentOrder[<<x, y>>] = -1 <=> IdentOrder[<<y, x>>] = 1
  <2> SUFFICES ASSUME NEW x \in I, NEW y \in I
               PROVE  /\ IdentOrder[<<x, y>>] = 0 <=> x = y
                      /\ IdentOrder[<<x, y>>] = -1 <=> IdentOrder[<<y, x>>] = 1
    OBVIOUS
  <2>1. CASE x.numeric = y.numeric
    BY <1>1, <1>2, <1>3, <2>1
  <2>2. CASE x.numeric # y.numeric
    BY <1>1, <1>2, <1>3, <2>2
  <2> QED BY <2>1, <2>2
<1>6. ASSUME NEW x \in I, NEW y \in I, NEW z \in I,
             IdentOrder[<<x, y>>] # 1, IdentOrder[<<y, z>>] # 1
      PROVE  IdentOrder[<<x, z>>] # 1
  BY <1>1, <1>2, <1>6
<1> QED BY <1>4, <1>5, <1>6 DEF Compares, I

\* a comes before b because of what they have at k, or because a has nothing there.
Before(c, a, b, k) ==
    /\ k \in 1..Len(b) /\ k <= Len(a) + 1
    /\ \A i \in 1..(k - 1) : a[i] = b[i]
    /\ k <= Len(a) => c[<<a[k], b[k]>>] = -1

LEMMA FirstIsLexicographic ==
  ASSUME NEW S, NEW c, Compares(c, S), NEW a \in Seq(S), NEW b \in Seq(S), NEW r,
         FirstOf(c, a, b, Versions!Shorter(a, b), r)
  PROVE  /\ r \in Sign
         /\ r = -1 => \E k \in Nat : Before(c, a, b, k)
         /\ r = 0 => a = b
         /\ r = 1 => \E k \in Nat : Before(c, b, a, k)
<1> DEFINE common == DOMAIN a \cap DOMAIN b
<1>1. /\ Len(a) \in Nat /\ Len(b) \in Nat /\ DOMAIN a = 1..Len(a) /\ DOMAIN b = 1..Len(b)
      /\ \A i \in 1..Len(a) : a[i] \in S
      /\ \A i \in 1..Len(b) : b[i] \in S
  OBVIOUS
<1>2. \A i \in common : i \in 1..Len(a) /\ i \in 1..Len(b)
  BY <1>1
<1>2a. \A i \in 1..Len(a) : i <= Len(b) => i \in common
  BY <1>1
<1>3. \/ r = Versions!Shorter(a, b) /\ \A i \in common : a[i] = b[i]
      \/ \E k \in common : (\A i \in common : i < k => a[i] = b[i]) /\ a[k] # b[k] /\ r = c[<<a[k], b[k]>>]
  BY DEF FirstOf
<1> HIDE DEF common
<1>4. CASE r = Versions!Shorter(a, b) /\ \A i \in common : a[i] = b[i]
  <2>0. Len(a) \in Int /\ Len(b) \in Int
    BY <1>1
  <2>1. r = IF Len(a) < Len(b) THEN -1 ELSE IF Len(a) = Len(b) THEN 0 ELSE 1
    BY <2>0, <1>4, Numbers DEF Versions!Shorter
  <2>2. CASE Len(a) < Len(b)
    <3>1. Before(c, a, b, Len(a) + 1)
      BY <1>1, <1>2a, <1>4, <2>2, SMTT(30) DEF Before
    <3> QED BY <1>1, <2>1, <2>2, <3>1 DEF Sign
  <2>3. CASE Len(b) < Len(a)
    <3>1. \A i \in 1..Len(b) : i \in common
      BY <1>1, <1>2a, <2>3
    <3>2. Before(c, b, a, Len(b) + 1)
      BY <1>1, <1>4, <2>3, <3>1 DEF Before
    <3>3. r = 1
      BY <2>0, <2>1, <2>3
    <3> QED BY <1>1, <3>2, <3>3 DEF Sign
  <2>4. CASE Len(a) = Len(b)
    <3>1. \A i \in 1..Len(a) : a[i] = b[i]
      BY <1>1, <1>2a, <1>4, <2>4
    <3>2. a = b
      BY <2>4, <3>1, SeqEqual
    <3> QED BY <2>1, <2>4, <3>2, <1>1 DEF Sign
  <2> QED BY <2>0, <2>2, <2>3, <2>4
<1>5. ASSUME NEW k \in common, \A i \in common : i < k => a[i] = b[i], a[k] # b[k], r = c[<<a[k], b[k]>>]
      PROVE  /\ r \in Sign /\ r # 0
             /\ r = -1 => Before(c, a, b, k)
             /\ r = 1 => Before(c, b, a, k)
  <2>1. k \in 1..Len(a) /\ k \in 1..Len(b) /\ a[k] \in S /\ b[k] \in S
    BY <1>1, <1>2
  <2>2. \A i \in 1..(k - 1) : a[i] = b[i]
    BY <1>1, <1>2a, <1>5, <2>1
  <2>3. c[<<a[k], b[k]>>] \in Sign /\ c[<<a[k], b[k]>>] # 0 /\ (c[<<b[k], a[k]>>] = -1 <=> c[<<a[k], b[k]>>] = 1)
    BY <1>5, <2>1 DEF Compares
  <2> QED BY <1>1, <1>5, <2>1, <2>2, <2>3 DEF Before, Sign
<1>6. CASE \E k \in common : (\A i \in common : i < k => a[i] = b[i]) /\ a[k] # b[k] /\ r = c[<<a[k], b[k]>>]
  <2>1. PICK k \in common : (\A i \in common : i < k => a[i] = b[i]) /\ a[k] # b[k] /\ r = c[<<a[k], b[k]>>]
    BY <1>6
  <2>2. k \in Nat
    BY <1>1, <1>2
  <2> QED BY <1>5, <2>1, <2>2
<1> QED BY <1>3, <1>4, <1>6

LEMMA PairFunction ==
  ASSUME NEW T, NEW V, NEW R, R = [p \in T \X T |-> R[p]],
         \A x, y \in T : R[<<x, y>>] \in V
  PROVE  R \in [T \X T -> V]
<1>1. \A p \in T \X T : R[p] \in V
  OBVIOUS
<1> QED BY <1>1

LEMMA CompareFacts ==
  ASSUME NEW S, NEW c, Compares(c, S), NEW x \in S, NEW y \in S
  PROVE  /\ c[<<x, y>>] \in Sign
         /\ c[<<x, y>>] = 0 <=> x = y
         /\ c[<<x, y>>] = -1 <=> c[<<y, x>>] = 1
BY DEF Compares

LEMMA CompareChain ==
  ASSUME NEW S, NEW c, Compares(c, S), NEW x \in S, NEW y \in S, NEW z \in S,
         c[<<x, y>>] # 1, c[<<y, z>>] # 1
  PROVE  c[<<x, z>>] # 1
BY DEF Compares

LEMMA StrictChain ==
  ASSUME NEW S, NEW c, Compares(c, S), NEW x \in S, NEW y \in S, NEW z \in S,
         c[<<x, y>>] = -1, c[<<y, z>>] = -1
  PROVE  c[<<x, z>>] = -1
<1>1. /\ c[<<x, y>>] # 1 /\ c[<<y, z>>] # 1 /\ c[<<x, y>>] # 0
  OBVIOUS
<1>2. c[<<x, z>>] # 1
  BY <1>1, CompareChain
<1>z. c[<<x, z>>] = 0 <=> x = z
  BY DEF Compares
<1>3. c[<<x, z>>] # 0
  <2> SUFFICES ASSUME c[<<x, z>>] = 0 PROVE FALSE
    OBVIOUS
  <2>1. x = z
    BY <1>z
  <2>2. c[<<y, x>>] = 1
    <3>1. c[<<x, y>>] = -1 <=> c[<<y, x>>] = 1
      BY CompareFacts
    <3> QED BY <3>1
  <2>3. c[<<y, z>>] = 1
    BY <2>1, <2>2, Zenon
  <2> QED BY <1>1, <2>3
<1>4. c[<<x, z>>] \in Sign
  BY CompareFacts
<1> QED BY <1>2, <1>3, <1>4 DEF Sign

LEMMA BeforeIsTransitive ==
  ASSUME NEW S, NEW c, Compares(c, S), NEW x \in Seq(S), NEW y \in Seq(S), NEW z \in Seq(S),
         NEW j \in Nat, NEW k \in Nat, Before(c, x, y, j), Before(c, y, z, k)
  PROVE  \E i \in Nat : Before(c, x, z, i)
<1>1. /\ Len(x) \in Nat /\ Len(y) \in Nat /\ Len(z) \in Nat
      /\ \A i \in 1..Len(x) : x[i] \in S
      /\ \A i \in 1..Len(y) : y[i] \in S
      /\ \A i \in 1..Len(z) : z[i] \in S
  OBVIOUS
<1>2. CASE j < k
  <2>1. /\ j \in 1..Len(y) /\ j <= Len(x) + 1 /\ k \in 1..Len(z)
        /\ \A i \in 1..(j - 1) : x[i] = y[i]
        /\ \A i \in 1..(k - 1) : y[i] = z[i]
        /\ j <= Len(x) => c[<<x[j], y[j]>>] = -1
    BY DEF Before
  <2>2. j \in 1..Len(z) /\ j \in 1..(k - 1) /\ \A i \in 1..(j - 1) : i \in 1..(k - 1)
    BY <1>1, <1>2, <2>1
  <2>3. Before(c, x, z, j)
    BY <2>1, <2>2 DEF Before
  <2> QED BY <2>3
<1>3. CASE k < j
  <2>1. /\ j \in 1..Len(y) /\ j <= Len(x) + 1 /\ k \in 1..Len(z)
        /\ \A i \in 1..(j - 1) : x[i] = y[i]
        /\ \A i \in 1..(k - 1) : y[i] = z[i]
        /\ k <= Len(y) => c[<<y[k], z[k]>>] = -1
    BY DEF Before
  <2>2. /\ k <= Len(y) /\ k <= Len(x) + 1 /\ k \in 1..(j - 1)
        /\ \A i \in 1..(k - 1) : i \in 1..(j - 1)
    BY <1>1, <1>3, <2>1
  <2>3. Before(c, x, z, k)
    BY <2>1, <2>2 DEF Before
  <2> QED BY <2>3
<1>4. CASE j = k
  <2>1. ASSUME j <= Len(x) PROVE c[<<x[j], z[j]>>] = -1
    <3>1. x[j] \in S /\ y[j] \in S /\ z[j] \in S /\ c[<<x[j], y[j]>>] = -1 /\ c[<<y[j], z[j]>>] = -1
      BY <1>1, <1>4, <2>1 DEF Before
    <3> QED BY <3>1, StrictChain
  <2>2. Before(c, x, z, j)
    BY <1>1, <1>4, <2>1 DEF Before
  <2> QED BY <2>2
<1> QED BY <1>2, <1>3, <1>4

LEMMA BeforeIsStrict ==
  ASSUME NEW S, NEW c, Compares(c, S), NEW x \in Seq(S), NEW j \in Nat
  PROVE  ~Before(c, x, x, j)
<1>1. /\ Len(x) \in Nat /\ \A i \in 1..Len(x) : x[i] \in S
  OBVIOUS
<1> SUFFICES ASSUME Before(c, x, x, j) PROVE FALSE
  OBVIOUS
<1>2. j \in 1..Len(x) /\ x[j] \in S /\ c[<<x[j], x[j]>>] = -1
  BY <1>1 DEF Before
<1>3. c[<<x[j], x[j]>>] = 0
  BY <1>2 DEF Compares
<1> QED BY <1>2, <1>3

\* r compares a and b in the lexicographic order, where a prefix comes first.
Lexicographic(c, a, b, r) == FirstOf(c, a, b, Versions!Shorter(a, b), r)


\* R compares the elements of T when it says which comes first in a strict order L.
LEMMA ComparesStrictly ==
  ASSUME NEW T, NEW R, R = [p \in T \X T |-> R[p]], NEW L,
         \A x \in T : <<x, x>> \notin L,
         \A x, y, z \in T : <<x, y>> \in L /\ <<y, z>> \in L => <<x, z>> \in L,
         \A x, y \in T : \/ R[<<x, y>>] = -1 /\ <<x, y>> \in L
                         \/ R[<<x, y>>] = 0 /\ x = y
                         \/ R[<<x, y>>] = 1 /\ <<y, x>> \in L
  PROVE  Compares(R, T)
<1>1. R \in [T \X T -> Sign]
  <2>1. ASSUME NEW x \in T, NEW y \in T PROVE R[<<x, y>>] \in Sign
    BY DEF Sign
  <2> QED BY <2>1, PairFunction
<1>2. -1 # 0 /\ -1 # 1 /\ 0 # 1
  OBVIOUS
<1>3. ASSUME NEW x \in T, NEW y \in T
      PROVE  /\ R[<<x, y>>] = 0 <=> x = y
             /\ R[<<x, y>>] = -1 <=> <<x, y>> \in L
             /\ R[<<x, y>>] = 1 <=> <<y, x>> \in L
  <2>0. <<x, y>> \in L => x # y /\ <<y, x>> \notin L
    BY Zenon
  <2>00. <<y, x>> \in L => x # y /\ <<x, y>> \notin L
    BY Zenon
  <2>1. CASE R[<<x, y>>] = -1 /\ <<x, y>> \in L
    BY <1>2, <2>0, <2>1
  <2>2. CASE R[<<x, y>>] = 0 /\ x = y
    BY <1>2, <2>0, <2>00, <2>2
  <2>3. CASE R[<<x, y>>] = 1 /\ <<y, x>> \in L
    BY <1>2, <2>00, <2>3
  <2> QED BY <2>1, <2>2, <2>3
<1>4. ASSUME NEW x \in T, NEW y \in T
      PROVE  R[<<x, y>>] = -1 <=> R[<<y, x>>] = 1
  <2>1. R[<<x, y>>] = -1 <=> <<x, y>> \in L
    BY <1>3
  <2>2. R[<<y, x>>] = 1 <=> <<x, y>> \in L
    BY <1>3
  <2> QED BY <2>1, <2>2
<1>6. ASSUME NEW x \in T, NEW y \in T, NEW z \in T, R[<<x, y>>] # 1, R[<<y, z>>] # 1
      PROVE  R[<<x, z>>] # 1
  <2> SUFFICES ASSUME <<z, x>> \in L PROVE FALSE
    BY <1>3
  <2>1. <<x, y>> \in L \/ x = y
    BY <1>6, Zenon
  <2>2. <<y, z>> \in L \/ y = z
    BY <1>6, Zenon
  <2>3. CASE x = y
    BY <2>2, <2>3, Zenon
  <2>4. CASE <<x, y>> \in L
    <3>1. <<z, y>> \in L
      BY <2>4, Zenon
    <3> QED BY <2>2, <3>1, Zenon
  <2> QED BY <2>1, <2>3, <2>4
<1>7. \A x, y \in T : /\ R[<<x, y>>] = 0 <=> x = y
                      /\ R[<<x, y>>] = -1 <=> R[<<y, x>>] = 1
  BY <1>3, <1>4, Zenon
<1>8. \A x, y, z \in T : R[<<x, y>>] # 1 /\ R[<<y, z>>] # 1 => R[<<x, z>>] # 1
  BY <1>6, Zenon
<1> QED BY <1>1, <1>7, <1>8, Zenon DEF Compares

\* Sequences are compared in the lexicographic order when their elements are compared.
LEMMA LexicographicCompares ==
  ASSUME NEW S, NEW c, Compares(c, S), NEW R,
         R = [p \in Seq(S) \X Seq(S) |-> R[p]],
         \A x, y \in Seq(S) : Lexicographic(c, x, y, R[<<x, y>>])
  PROVE  Compares(R, Seq(S))
<1> DEFINE T == Seq(S)
           L == {p \in T \X T : \E k \in Nat : Before(c, p[1], p[2], k)}
<1>1. \A x, y \in T : <<x, y>> \in L <=> \E k \in Nat : Before(c, x, y, k)
  OBVIOUS
<1>2. ASSUME NEW x \in T PROVE <<x, x>> \notin L
  BY <1>1, BeforeIsStrict
<1>3. ASSUME NEW x \in T, NEW y \in T, NEW z \in T, <<x, y>> \in L, <<y, z>> \in L
      PROVE  <<x, z>> \in L
  <2>1. PICK j \in Nat : Before(c, x, y, j)
    BY <1>1, <1>3
  <2>2. PICK k \in Nat : Before(c, y, z, k)
    BY <1>1, <1>3
  <2>3. \E i \in Nat : Before(c, x, z, i)
    BY <2>1, <2>2, BeforeIsTransitive
  <2> QED BY <1>1, <2>3
<1>4. ASSUME NEW x \in T, NEW y \in T
      PROVE  \/ R[<<x, y>>] = -1 /\ <<x, y>> \in L
             \/ R[<<x, y>>] = 0 /\ x = y
             \/ R[<<x, y>>] = 1 /\ <<y, x>> \in L
  <2>1. FirstOf(c, x, y, Versions!Shorter(x, y), R[<<x, y>>])
    BY DEF Lexicographic
  <2>2. /\ R[<<x, y>>] \in Sign
        /\ R[<<x, y>>] = -1 => \E k \in Nat : Before(c, x, y, k)
        /\ R[<<x, y>>] = 0 => x = y
        /\ R[<<x, y>>] = 1 => \E k \in Nat : Before(c, y, x, k)
    BY <2>1, FirstIsLexicographic
  <2> HIDE DEF L
  <2> QED BY <1>1, <2>2 DEF Sign
<1> HIDE DEF L
<1> QED BY <1>2, <1>3, <1>4, ComparesStrictly

\* R compares the elements of T by their keys, and by their parts where these are the same.
ByKeyThenPart(R, T, key, part, c, d) ==
    /\ R = [p \in T \X T |-> R[p]]
    /\ \A x, y \in T :
           /\ key[x] = key[y] /\ part[x] = part[y] => x = y
           /\ R[<<x, y>>] = IF key[x] = key[y] THEN d[<<part[x], part[y]>>] ELSE c[<<key[x], key[y]>>]

LEMMA KeyThenPart ==
  ASSUME NEW T, NEW K, NEW S, NEW c, NEW d, Compares(c, K), Compares(d, S),
         NEW key \in [T -> K], NEW part \in [T -> S],
         NEW R, ByKeyThenPart(R, T, key, part, c, d)
  PROVE  Compares(R, T)
<1>e. R = [p \in T \X T |-> R[p]]
  BY DEF ByKeyThenPart
<1>f. \A x, y \in T : key[x] = key[y] /\ part[x] = part[y] => x = y
  BY Zenon DEF ByKeyThenPart
<1>g. \A x, y \in T :
         R[<<x, y>>] = IF key[x] = key[y] THEN d[<<part[x], part[y]>>] ELSE c[<<key[x], key[y]>>]
  BY Zenon DEF ByKeyThenPart
<1> DEFINE L == {p \in T \X T : R[p] = -1}
<1>0. -1 # 0 /\ -1 # 1 /\ 0 # 1
  OBVIOUS
<1>1. \A x, y \in T : <<x, y>> \in L <=> R[<<x, y>>] = -1
  OBVIOUS
<1> HIDE DEF L
<1>2. ASSUME NEW x \in T, NEW y \in T
      PROVE  /\ c[<<key[x], key[y]>>] \in Sign
             /\ c[<<key[x], key[y]>>] = 0 <=> key[x] = key[y]
             /\ c[<<key[x], key[y]>>] = -1 <=> c[<<key[y], key[x]>>] = 1
  <2>1. key[x] \in K /\ key[y] \in K
    OBVIOUS
  <2> QED BY <2>1, CompareFacts
<1>3. ASSUME NEW x \in T, NEW y \in T
      PROVE  /\ d[<<part[x], part[y]>>] \in Sign
             /\ d[<<part[x], part[y]>>] = 0 <=> part[x] = part[y]
             /\ d[<<part[x], part[y]>>] = -1 <=> d[<<part[y], part[x]>>] = 1
  <2>1. part[x] \in S /\ part[y] \in S
    OBVIOUS
  <2> QED BY <2>1, CompareFacts
<1>4. ASSUME NEW x \in T PROVE <<x, x>> \notin L
  <2>1. R[<<x, x>>] = d[<<part[x], part[x]>>]
    BY <1>g, Zenon
  <2>2. d[<<part[x], part[x]>>] = 0
    BY <1>3
  <2> QED BY <1>0, <1>1, <2>1, <2>2
<1>5. ASSUME NEW x \in T, NEW y \in T
      PROVE  \/ R[<<x, y>>] = -1 /\ <<x, y>> \in L
             \/ R[<<x, y>>] = 0 /\ x = y
             \/ R[<<x, y>>] = 1 /\ <<y, x>> \in L
  <2>1. CASE key[x] = key[y]
    <3>1. R[<<x, y>>] = d[<<part[x], part[y]>>]
      BY <1>g, <2>1, Zenon
    <3>2. R[<<y, x>>] = d[<<part[y], part[x]>>]
      BY <1>g, <2>1, Zenon
    <3>3. /\ d[<<part[x], part[y]>>] = -1 \/ d[<<part[x], part[y]>>] = 0 \/ d[<<part[x], part[y]>>] = 1
          /\ d[<<part[x], part[y]>>] = 0 => part[x] = part[y]
          /\ d[<<part[x], part[y]>>] = 1 => d[<<part[y], part[x]>>] = -1
      BY <1>3 DEF Sign
    <3> QED BY <1>1, <1>f, <2>1, <3>1, <3>2, <3>3, Zenon
  <2>2. CASE key[x] # key[y]
    <3>1. R[<<x, y>>] = c[<<key[x], key[y]>>]
      BY <1>g, <2>2, Zenon
    <3>2. R[<<y, x>>] = c[<<key[y], key[x]>>]
      BY <1>g, <2>2, Zenon
    <3>3. /\ c[<<key[x], key[y]>>] = -1 \/ c[<<key[x], key[y]>>] = 0 \/ c[<<key[x], key[y]>>] = 1
          /\ c[<<key[x], key[y]>>] = 0 => key[x] = key[y]
          /\ c[<<key[x], key[y]>>] = 1 => c[<<key[y], key[x]>>] = -1
      BY <1>2 DEF Sign
    <3> QED BY <1>1, <2>2, <3>1, <3>2, <3>3, Zenon
  <2> QED BY <2>1, <2>2
<1>6. ASSUME NEW x \in T, NEW y \in T, NEW z \in T, <<x, y>> \in L, <<y, z>> \in L
      PROVE  <<x, z>> \in L
  <2>1. R[<<x, y>>] = -1 /\ R[<<y, z>>] = -1
    BY <1>1, <1>6
  <2>2. CASE key[x] = key[y] /\ key[y] = key[z]
    <3>1. d[<<part[x], part[y]>>] = -1 /\ d[<<part[y], part[z]>>] = -1
      BY <1>g, <2>1, <2>2, Zenon
    <3>2. R[<<x, z>>] = d[<<part[x], part[z]>>]
      <4>1. key[x] = key[z]
        BY <2>2
      <4> QED BY <1>g, <4>1, Zenon
    <3>3. part[x] \in S /\ part[y] \in S /\ part[z] \in S
      OBVIOUS
    <3>4. d[<<part[x], part[z]>>] = -1
      BY <3>1, <3>3, StrictChain
    <3> QED BY <1>1, <3>2, <3>4
  <2>3. CASE key[x] = key[y] /\ key[y] # key[z]
    <3>1. R[<<x, z>>] = c[<<key[x], key[z]>>] /\ R[<<y, z>>] = c[<<key[y], key[z]>>]
      BY <1>g, <2>3, Zenon
    <3>2. R[<<x, z>>] = R[<<y, z>>]
      BY <2>3, <3>1, Zenon
    <3> QED BY <1>1, <2>1, <3>2
  <2>4. CASE key[x] # key[y] /\ key[y] = key[z]
    <3>1. R[<<x, z>>] = c[<<key[x], key[z]>>] /\ R[<<x, y>>] = c[<<key[x], key[y]>>]
      BY <1>g, <2>4, Zenon
    <3>2. R[<<x, z>>] = R[<<x, y>>]
      BY <2>4, <3>1, Zenon
    <3> QED BY <1>1, <2>1, <3>2
  <2>5. CASE key[x] # key[y] /\ key[y] # key[z]
    <3>1. c[<<key[x], key[y]>>] = -1 /\ c[<<key[y], key[z]>>] = -1
      BY <1>g, <2>1, <2>5, Zenon
    <3>2. key[x] \in K /\ key[y] \in K /\ key[z] \in K
      OBVIOUS
    <3>3. c[<<key[x], key[z]>>] = -1
      BY <3>1, <3>2, StrictChain
    <3>4. key[x] # key[z]
      BY <1>0, <1>2, <3>3
    <3>5. R[<<x, z>>] = c[<<key[x], key[z]>>]
      BY <1>g, <3>4, Zenon
    <3> QED BY <1>1, <3>3, <3>5
  <2> QED BY <2>2, <2>3, <2>4, <2>5
<1> QED BY <1>e, <1>4, <1>5, <1>6, ComparesStrictly

---------------------------------------------------------------------------
(* What First() computes. *)

LEMMA CoreFirst ==
  ASSUME NEW a \in Seq(Nat), NEW b \in Seq(Nat), NEW rest
  PROVE  FirstOf(NumberOrder, a, b, rest, Versions!First(a, b, Versions!compare_numbers, rest))
<1> DEFINE common == DOMAIN a \cap DOMAIN b
           differ == {i \in common : Versions!compare_numbers(a[i], b[i]) # 0}
           k == CHOOSE i \in differ : \A j \in differ : i <= j
           r == Versions!First(a, b, Versions!compare_numbers, rest)
<1>1. \A i \in common : i \in Nat /\ a[i] \in Nat /\ b[i] \in Nat
  OBVIOUS
<1>2. r = IF differ = {} THEN rest ELSE Versions!compare_numbers(a[k], b[k])
  BY DEF Versions!First
<1> HIDE DEF r, k, common
<1>3. \A i \in common : i \in differ <=> a[i] # b[i]
  BY <1>1, Numbers, SMTT(30)
<1>4. \A i \in common : Versions!compare_numbers(a[i], b[i]) = NumberOrder[<<a[i], b[i]>>]
  BY <1>1 DEF NumberOrder
<1>5. differ \subseteq common
  OBVIOUS
<1> HIDE DEF differ
<1>6. CASE differ = {}
  BY <1>2, <1>3, <1>6 DEF FirstOf, common, r
<1>7. CASE differ # {}
  <2>1. k \in differ /\ \A j \in differ : k <= j
    <3>1. \E i \in differ : \A j \in differ : i <= j
      BY <1>1, <1>5, <1>7, Least
    <3> QED BY <3>1 DEF k
  <2>2. \A i \in common : i < k => a[i] = b[i]
    BY <1>1, <1>3, <1>5, <2>1
  <2>3. k \in common /\ a[k] # b[k] /\ r = NumberOrder[<<a[k], b[k]>>]
    BY <1>2, <1>3, <1>4, <1>5, <1>7, <2>1
  <2> QED BY <2>2, <2>3 DEF FirstOf, common, r
<1> QED BY <1>6, <1>7 DEF r

LEMMA IdentFirst ==
  ASSUME NEW a \in Seq(Versions!Identifiers), NEW b \in Seq(Versions!Identifiers), NEW rest
  PROVE  FirstOf(IdentOrder, a, b, rest, Versions!First(a, b, Versions!compare_ident, rest))
<1> DEFINE common == DOMAIN a \cap DOMAIN b
           differ == {i \in common : Versions!compare_ident(a[i], b[i]) # 0}
           k == CHOOSE i \in differ : \A j \in differ : i <= j
           r == Versions!First(a, b, Versions!compare_ident, rest)
<1>1. \A i \in common : i \in Nat /\ a[i] \in Versions!Identifiers /\ b[i] \in Versions!Identifiers
  OBVIOUS
<1>2. r = IF differ = {} THEN rest ELSE Versions!compare_ident(a[k], b[k])
  BY DEF Versions!First
<1> HIDE DEF r, k, common
<1>4. \A i \in common : Versions!compare_ident(a[i], b[i]) = IdentOrder[<<a[i], b[i]>>]
  BY <1>1 DEF IdentOrder
<1>3. \A i \in common : i \in differ <=> a[i] # b[i]
  <2>1. \A x, y \in Versions!Identifiers : IdentOrder[<<x, y>>] = 0 <=> x = y
    <3> DEFINE S == Versions!Identifiers
               c == IdentOrder
    <3>1. Compares(c, S)
      BY IdentsCompare
    <3> HIDE DEF S, c
    <3>2. \A x, y \in S : c[<<x, y>>] = 0 <=> x = y
      BY <3>1, ZenonT(30) DEF Compares
    <3> QED BY <3>2, Zenon DEF S, c
  <2> SUFFICES ASSUME NEW i \in common PROVE i \in differ <=> a[i] # b[i]
    OBVIOUS
  <2>2. i \in differ <=> Versions!compare_ident(a[i], b[i]) # 0
    OBVIOUS
  <2>3. IdentOrder[<<a[i], b[i]>>] = 0 <=> a[i] = b[i]
    BY <1>1, <2>1
  <2> HIDE DEF differ
  <2> QED BY <1>4, <2>2, <2>3
<1>5. differ \subseteq common
  OBVIOUS
<1> HIDE DEF differ
<1>6. CASE differ = {}
  BY <1>2, <1>3, <1>6 DEF FirstOf, common, r
<1>7. CASE differ # {}
  <2>1. k \in differ /\ \A j \in differ : k <= j
    <3>1. \E i \in differ : \A j \in differ : i <= j
      BY <1>1, <1>5, <1>7, Least
    <3> QED BY <3>1 DEF k
  <2>2. \A i \in common : i < k => a[i] = b[i]
    BY <1>1, <1>3, <1>5, <2>1
  <2>3. k \in common /\ a[k] # b[k] /\ r = IdentOrder[<<a[k], b[k]>>]
    BY <1>2, <1>3, <1>4, <1>5, <1>7, <2>1
  <2> QED BY <2>2, <2>3 DEF FirstOf, common, r
<1> QED BY <1>6, <1>7 DEF r

---------------------------------------------------------------------------
(* Versions. *)

AnyVersion == Versions!Versions
VersionsCompared(a, b) == Versions!compare_semver(a, b)
PreCompared(a, b) == Versions!compare_pre(a, b)
PreSeq == Seq(Versions!Identifiers)
Cores == [1..3 -> Nat]

Lex(x, y) == Versions!First(x, y, Versions!compare_ident, Versions!Shorter(x, y))
LexOrder == [p \in PreSeq \X PreSeq |-> Lex(p[1], p[2])]
PreOrder == [p \in PreSeq \X PreSeq |-> PreCompared(p[1], p[2])]

LEMMA LexCompares == Compares(LexOrder, PreSeq)
<1>1. \A x, y \in PreSeq : Lexicographic(IdentOrder, x, y, LexOrder[<<x, y>>])
  <2> SUFFICES ASSUME NEW x \in PreSeq, NEW y \in PreSeq
               PROVE  Lexicographic(IdentOrder, x, y, LexOrder[<<x, y>>])
    OBVIOUS
  <2>1. LexOrder[<<x, y>>] = Lex(x, y)
    BY DEF LexOrder
  <2>2. Lexicographic(IdentOrder, x, y, Lex(x, y))
    BY IdentFirst DEF Lexicographic, PreSeq, Lex
  <2> QED BY <2>1, <2>2
<1>2. LexOrder = [p \in PreSeq \X PreSeq |-> LexOrder[p]]
  BY DEF LexOrder
<1> QED BY <1>1, <1>2, IdentsCompare, LexicographicCompares DEF PreSeq

\* A release comes after its PreCompared-releases.
Released == [x \in PreSeq |-> IF x = <<>> THEN 1 ELSE 0]

LEMMA PreCompares == Compares(PreOrder, PreSeq)
<1> DEFINE part == [x \in PreSeq |-> x]
<1>1. Released \in [PreSeq -> Nat] /\ part \in [PreSeq -> PreSeq]
  BY DEF Released
<1>2. ASSUME NEW x \in PreSeq, NEW y \in PreSeq
      PROVE  PreOrder[<<x, y>>] = IF Released[x] = Released[y] THEN LexOrder[<<part[x], part[y]>>]
                                  ELSE NumberOrder[<<Released[x], Released[y]>>]
  <2>1. PreOrder[<<x, y>>] = IF x = <<>> THEN IF y = <<>> THEN 0 ELSE 1
                             ELSE IF y = <<>> THEN -1 ELSE LexOrder[<<x, y>>]
    BY DEF PreOrder, LexOrder, Lex, PreCompared, Versions!compare_pre
  <2>2. NumberOrder[<<0, 1>>] = -1 /\ NumberOrder[<<1, 0>>] = 1
    BY Numbers DEF NumberOrder
  <2>3. /\ x = <<>> => Released[x] = 1
        /\ x # <<>> => Released[x] = 0
        /\ y = <<>> => Released[y] = 1
        /\ y # <<>> => Released[y] = 0
        /\ part[x] = x /\ part[y] = y
    BY DEF Released
  <2>4. x = y => LexOrder[<<x, y>>] = 0
    BY LexCompares, CompareFacts
  <2>5. 0 # 1
    OBVIOUS
  <2> HIDE DEF part
  <2>6. CASE x = <<>> /\ y = <<>>
    <3>1. PreOrder[<<x, y>>] = 0 /\ LexOrder[<<x, y>>] = 0 /\ Released[x] = Released[y]
      BY <2>1, <2>3, <2>4, <2>6
    <3> QED BY <2>3, <3>1
  <2>7. CASE x = <<>> /\ y # <<>>
    BY <2>1, <2>2, <2>3, <2>5, <2>7
  <2>8. CASE x # <<>> /\ y = <<>>
    BY <2>1, <2>2, <2>3, <2>5, <2>8
  <2>9. CASE x # <<>> /\ y # <<>>
    BY <2>1, <2>3, <2>9
  <2> QED BY <2>6, <2>7, <2>8, <2>9
<1>3. PreOrder = [p \in PreSeq \X PreSeq |-> PreOrder[p]]
  BY DEF PreOrder
<1>4. \A x, y \in PreSeq : part[x] = part[y] => x = y
  OBVIOUS
<1> HIDE DEF part
<1>5. \A x, y \in PreSeq : Released[x] = Released[y] /\ part[x] = part[y] => x = y
  BY <1>4, Zenon
<1>6. \A x, y \in PreSeq :
         PreOrder[<<x, y>>] = IF Released[x] = Released[y] THEN LexOrder[<<part[x], part[y]>>]
                              ELSE NumberOrder[<<Released[x], Released[y]>>]
  BY <1>2, Zenon
<1>7. ByKeyThenPart(PreOrder, PreSeq, Released, part, NumberOrder, LexOrder)
  BY <1>3, <1>5, <1>6, Zenon DEF ByKeyThenPart
<1> QED BY <1>1, <1>7, LexCompares, NumbersCompare, KeyThenPart, Zenon

LEMMA VersionParts ==
  ASSUME NEW a \in AnyVersion
  PROVE  a.core \in Cores /\ a.pre \in PreSeq
BY DEF AnyVersion, Versions!Versions, PreSeq, Cores

LEMMA VersionsEqual ==
  ASSUME NEW a \in AnyVersion, NEW b \in AnyVersion
  PROVE  a = b <=> a.core = b.core /\ a.pre = b.pre
BY DEF AnyVersion, Versions!Versions

CoreCompared(a, b) == Versions!First(a, b, Versions!compare_numbers, 0)
CoreSeqOrder == [p \in Seq(Nat) \X Seq(Nat) |->
                    Versions!First(p[1], p[2], Versions!compare_numbers, Versions!Shorter(p[1], p[2]))]

LEMMA CoreCompares == Compares(CoreSeqOrder, Seq(Nat))
<1>1. \A x, y \in Seq(Nat) : Lexicographic(NumberOrder, x, y, CoreSeqOrder[<<x, y>>])
  <2> SUFFICES ASSUME NEW x \in Seq(Nat), NEW y \in Seq(Nat)
               PROVE  Lexicographic(NumberOrder, x, y, CoreSeqOrder[<<x, y>>])
    OBVIOUS
  <2>1. CoreSeqOrder[<<x, y>>] = Versions!First(x, y, Versions!compare_numbers, Versions!Shorter(x, y))
    BY DEF CoreSeqOrder
  <2>2. FirstOf(NumberOrder, x, y, Versions!Shorter(x, y),
                Versions!First(x, y, Versions!compare_numbers, Versions!Shorter(x, y)))
    BY CoreFirst
  <2> QED BY <2>1, <2>2 DEF Lexicographic
<1>2. CoreSeqOrder = [p \in Seq(Nat) \X Seq(Nat) |-> CoreSeqOrder[p]]
  BY DEF CoreSeqOrder
<1> QED BY <1>1, <1>2, NumbersCompare, LexicographicCompares

CoreOrder == [p \in Cores \X Cores |-> CoreCompared(p[1], p[2])]

LEMMA ThreeNumbers ==
  ASSUME NEW f \in [1..3 -> Nat]
  PROVE  f \in Seq(Nat) /\ Len(f) = 3
<1>1. f \in Seq(Nat)
  BY SeqDef
<1>2. DOMAIN f = 1..3
  OBVIOUS
<1> QED BY <1>1, <1>2, LenProperties

LEMMA CoreIsOrder == Compares(CoreOrder, Cores)
<1>1. ASSUME NEW x \in Cores PROVE x \in Seq(Nat) /\ Len(x) = 3
  <2>1. x \in [1..3 -> Nat]
    BY DEF Cores
  <2> QED BY <2>1, ThreeNumbers
<1>2. ASSUME NEW x \in Cores, NEW y \in Cores
      PROVE  CoreOrder[<<x, y>>] = CoreSeqOrder[<<x, y>>]
  <2>1. Versions!Shorter(x, y) = 0
    BY <1>1, Numbers DEF Versions!Shorter
  <2>2. CoreSeqOrder[<<x, y>>] = Versions!First(x, y, Versions!compare_numbers, Versions!Shorter(x, y))
    BY <1>1 DEF CoreSeqOrder
  <2>3. CoreOrder[<<x, y>>] = Versions!First(x, y, Versions!compare_numbers, 0)
    BY DEF CoreCompared, CoreOrder
  <2> QED BY <2>1, <2>2, <2>3
<1>3. ASSUME NEW x \in Cores, NEW y \in Cores
      PROVE  /\ CoreOrder[<<x, y>>] \in Sign
             /\ CoreOrder[<<x, y>>] = 0 <=> x = y
             /\ CoreOrder[<<x, y>>] = -1 <=> CoreOrder[<<y, x>>] = 1
  <2>1. /\ CoreSeqOrder[<<x, y>>] \in Sign
        /\ CoreSeqOrder[<<x, y>>] = 0 <=> x = y
        /\ CoreSeqOrder[<<x, y>>] = -1 <=> CoreSeqOrder[<<y, x>>] = 1
    BY <1>1, CoreCompares, CompareFacts
  <2>2. CoreOrder[<<x, y>>] = CoreSeqOrder[<<x, y>>] /\ CoreOrder[<<y, x>>] = CoreSeqOrder[<<y, x>>]
    BY <1>2
  <2> QED BY <2>1, <2>2
<1>4. ASSUME NEW x \in Cores, NEW y \in Cores, NEW z \in Cores,
             CoreOrder[<<x, y>>] # 1, CoreOrder[<<y, z>>] # 1
      PROVE  CoreOrder[<<x, z>>] # 1
  <2>1. CoreSeqOrder[<<x, y>>] # 1 /\ CoreSeqOrder[<<y, z>>] # 1
    BY <1>2, <1>4
  <2>2. CoreSeqOrder[<<x, z>>] # 1
    BY <1>1, <2>1, CoreCompares, CompareChain
  <2> QED BY <1>2, <2>2
<1>5. CoreOrder \in [Cores \X Cores -> Sign]
  <2>1. CoreOrder = [p \in Cores \X Cores |-> CoreOrder[p]]
    BY DEF CoreOrder
  <2>2. \A p \in Cores \X Cores : CoreOrder[p] \in Sign
    <3> SUFFICES ASSUME NEW x \in Cores, NEW y \in Cores PROVE CoreOrder[<<x, y>>] \in Sign
      OBVIOUS
    <3> QED BY <1>3
  <2> QED BY <2>1, <2>2
<1>6. \A x, y \in Cores : /\ CoreOrder[<<x, y>>] = 0 <=> x = y
                          /\ CoreOrder[<<x, y>>] = -1 <=> CoreOrder[<<y, x>>] = 1
  BY <1>3, Zenon
<1>7. \A x, y, z \in Cores : CoreOrder[<<x, y>>] # 1 /\ CoreOrder[<<y, z>>] # 1 => CoreOrder[<<x, z>>] # 1
  BY <1>4, Zenon
<1> QED BY <1>5, <1>6, <1>7, Zenon DEF Compares

LEMMA CompareByParts ==
  ASSUME NEW a \in AnyVersion, NEW b \in AnyVersion
  PROVE  VersionsCompared(a, b) = IF a.core = b.core THEN PreOrder[<<a.pre, b.pre>>] ELSE CoreCompared(a.core, b.core)
<1> DEFINE differ == {i \in DOMAIN a.core \cap DOMAIN b.core : Versions!compare_numbers(a.core[i], b.core[i]) # 0}
           least == CHOOSE i \in differ : \A j \in differ : i <= j
           first == Versions!compare_numbers(a.core[least], b.core[least])
<1>0. a.core \in Cores /\ b.core \in Cores /\ a.pre \in PreSeq /\ b.pre \in PreSeq
  BY VersionParts
<1>1. VersionsCompared(a, b) = IF differ = {} THEN PreCompared(a.pre, b.pre) ELSE first
  BY DEF VersionsCompared, PreCompared, Versions!compare_semver, Versions!First
<1>2. CoreCompared(a.core, b.core) = IF differ = {} THEN 0 ELSE first
  BY DEF CoreCompared, Versions!First
<1>3. differ = {} <=> a.core = b.core
  <2>1. a.core \in [1..3 -> Nat] /\ b.core \in [1..3 -> Nat]
    BY <1>0 DEF Cores
  <2>2. \A i \in 1..3 : Versions!compare_numbers(a.core[i], b.core[i]) = 0 <=> a.core[i] = b.core[i]
    BY <2>1, Numbers
  <2>3. a.core = b.core <=> \A i \in 1..3 : a.core[i] = b.core[i]
    BY <2>1
  <2> QED BY <2>1, <2>2, <2>3
<1>4. PreCompared(a.pre, b.pre) = PreOrder[<<a.pre, b.pre>>]
  BY <1>0 DEF PreOrder
<1> HIDE DEF differ, first
<1> QED BY <1>1, <1>2, <1>3, <1>4

VersionOrder == [p \in AnyVersion \X AnyVersion |-> VersionsCompared(p[1], p[2])]

LEMMA VersionsCompare == Compares(VersionOrder, AnyVersion)
<1> DEFINE key == [v \in AnyVersion |-> v.core]
           part == [v \in AnyVersion |-> v.pre]
<1>1. key \in [AnyVersion -> Cores] /\ part \in [AnyVersion -> PreSeq]
  BY VersionParts
<1>2. ASSUME NEW x \in AnyVersion, NEW y \in AnyVersion
      PROVE  /\ VersionOrder[<<x, y>>] = IF key[x] = key[y] THEN PreOrder[<<part[x], part[y]>>]
                                         ELSE CoreOrder[<<key[x], key[y]>>]
             /\ key[x] = key[y] /\ part[x] = part[y] => x = y
  <2>1. key[x] = x.core /\ key[y] = y.core /\ part[x] = x.pre /\ part[y] = y.pre
    OBVIOUS
  <2>2. VersionOrder[<<x, y>>] = VersionsCompared(x, y)
    BY DEF VersionOrder
  <2>3. CoreOrder[<<x.core, y.core>>] = CoreCompared(x.core, y.core)
    BY VersionParts DEF CoreOrder
  <2> HIDE DEF key, part
  <2> QED BY <2>1, <2>2, <2>3, CompareByParts, VersionsEqual
<1>3. VersionOrder = [p \in AnyVersion \X AnyVersion |-> VersionOrder[p]]
  BY DEF VersionOrder
<1> HIDE DEF key, part
<1>4. \A x, y \in AnyVersion : key[x] = key[y] /\ part[x] = part[y] => x = y
  BY <1>2, Zenon
<1>5. \A x, y \in AnyVersion :
         VersionOrder[<<x, y>>] = IF key[x] = key[y] THEN PreOrder[<<part[x], part[y]>>]
                                  ELSE CoreOrder[<<key[x], key[y]>>]
  BY <1>2, Zenon
<1>6. ByKeyThenPart(VersionOrder, AnyVersion, key, part, CoreOrder, PreOrder)
  BY <1>3, <1>4, <1>5, Zenon DEF ByKeyThenPart
<1> QED BY <1>1, <1>6, PreCompares, CoreIsOrder, KeyThenPart, Zenon

LEMMA VersionsAreOrdered ==
  ASSUME NEW a \in AnyVersion, NEW b \in AnyVersion, NEW c \in AnyVersion
  PROVE  Versions!TotalOrder(a, b, c)
<1>1. ASSUME NEW x \in AnyVersion, NEW y \in AnyVersion
      PROVE  /\ VersionsCompared(x, y) \in Sign
             /\ VersionsCompared(x, y) = 0 <=> x = y
             /\ VersionsCompared(x, y) = -1 <=> VersionsCompared(y, x) = 1
  <2>1. VersionOrder[<<x, y>>] = VersionsCompared(x, y) /\ VersionOrder[<<y, x>>] = VersionsCompared(y, x)
    BY DEF VersionOrder
  <2>2. /\ VersionOrder[<<x, y>>] \in Sign
        /\ VersionOrder[<<x, y>>] = 0 <=> x = y
        /\ VersionOrder[<<x, y>>] = -1 <=> VersionOrder[<<y, x>>] = 1
    BY VersionsCompare, CompareFacts
  <2> QED BY <2>1, <2>2
<1>2. VersionsCompared(a, b) # 1 /\ VersionsCompared(b, c) # 1 => VersionsCompared(a, c) # 1
  <2>1. /\ VersionOrder[<<a, b>>] = VersionsCompared(a, b) /\ VersionOrder[<<b, c>>] = VersionsCompared(b, c)
        /\ VersionOrder[<<a, c>>] = VersionsCompared(a, c)
    BY DEF VersionOrder
  <2>2. VersionOrder[<<a, b>>] # 1 /\ VersionOrder[<<b, c>>] # 1 => VersionOrder[<<a, c>>] # 1
    BY VersionsCompare, CompareChain
  <2> QED BY <2>1, <2>2
<1>4. VersionsCompared(a, b) = -VersionsCompared(b, a)
  <2>1. VersionsCompared(a, b) \in Sign /\ VersionsCompared(b, a) \in Sign /\ (VersionsCompared(a, b) = 0 <=> VersionsCompared(b, a) = 0)
    <3>1. VersionsCompared(a, b) = 0 <=> a = b
      BY <1>1
    <3>2. VersionsCompared(b, a) = 0 <=> a = b
      BY <1>1
    <3> QED BY <1>1, <3>1, <3>2
  <2>2. (VersionsCompared(a, b) = -1 <=> VersionsCompared(b, a) = 1) /\ (VersionsCompared(b, a) = -1 <=> VersionsCompared(a, b) = 1)
    BY <1>1
  <2> QED BY <2>1, <2>2 DEF Sign
<1>5. VersionsCompared(a, b) <= 0 /\ VersionsCompared(b, c) <= 0 => VersionsCompared(a, c) <= 0
  <2>1. VersionsCompared(a, b) \in Sign /\ VersionsCompared(b, c) \in Sign /\ VersionsCompared(a, c) \in Sign
    BY <1>1
  <2> QED BY <1>2, <2>1 DEF Sign
<1>6. VersionsCompared(a, b) = 0 <=> a = b
  BY <1>1
<1> QED BY <1>6, <1>4, <1>5 DEF Versions!TotalOrder, VersionsCompared

LEMMA PreReleasesComeBefore ==
  ASSUME NEW a \in AnyVersion, NEW b \in AnyVersion, NEW c \in AnyVersion
  PROVE  Versions!PreReleasesPrecede(a, b, c)
<1>p. a.pre \in PreSeq /\ b.pre \in PreSeq /\ c.pre \in PreSeq /\ a.core \in [1..3 -> Nat]
  BY VersionParts DEF Cores
<1>1. a.pre # <<>> => VersionsCompared(a, Versions!Version(a.core, <<>>)) = -1
  <2>1. Versions!Version(a.core, <<>>) \in AnyVersion
    BY <1>p DEF AnyVersion, Versions!Versions, Versions!Version
  <2>2. /\ Versions!Version(a.core, <<>>).core = a.core
        /\ Versions!Version(a.core, <<>>).pre = <<>>
    BY DEF Versions!Version
  <2>3. PreOrder[<<a.pre, <<>>>>] = PreCompared(a.pre, <<>>)
    <3>1. <<>> \in PreSeq
      BY DEF PreSeq
    <3> QED BY <1>p, <3>1 DEF PreOrder
  <2>4. VersionsCompared(a, Versions!Version(a.core, <<>>)) = PreCompared(a.pre, <<>>)
    BY <2>1, <2>2, <2>3, CompareByParts
  <2> QED BY <2>4 DEF PreCompared, Versions!compare_pre
<1>2. ASSUME NEW n \in 1..(Len(a.pre) - 1)
      PROVE  VersionsCompared(Versions!Version(a.core, SubSeq(a.pre, 1, n)), a) = -1
  <2> DEFINE s == SubSeq(a.pre, 1, n)
             v == Versions!Version(a.core, s)
  <2>1. /\ s \in PreSeq /\ Len(s) = n /\ \A i \in 1..n : s[i] = a.pre[i]
        /\ Len(a.pre) \in Nat /\ n < Len(a.pre) /\ n \in Nat \ {0}
    BY <1>p DEF PreSeq
  <2> HIDE DEF s
  <2>2. v \in AnyVersion /\ v.core = a.core /\ v.pre = s
    BY <1>p, <2>1 DEF AnyVersion, Versions!Versions, Versions!Version, PreSeq
  <2> HIDE DEF v
  <2>3. VersionsCompared(v, a) = PreCompared(s, a.pre)
    BY <1>p, <2>1, <2>2, CompareByParts DEF PreOrder
  <2>4. s # <<>> /\ a.pre # <<>>
    BY <1>p, <2>1 DEF PreSeq
  <2>5. PreCompared(s, a.pre) = Versions!First(s, a.pre, Versions!compare_ident, Versions!Shorter(s, a.pre))
    BY <2>4 DEF PreCompared, Versions!compare_pre
  <2>6. FirstOf(IdentOrder, s, a.pre, Versions!Shorter(s, a.pre), PreCompared(s, a.pre))
    BY <1>p, <2>1, <2>5, IdentFirst DEF PreSeq
  <2>7. \A i \in DOMAIN s \cap DOMAIN a.pre : s[i] = a.pre[i]
    BY <1>p, <2>1 DEF PreSeq
  <2>8. Versions!Shorter(s, a.pre) = -1
    BY <2>1, Numbers DEF Versions!Shorter
  <2>9. PreCompared(s, a.pre) = -1
    BY <2>6, <2>7, <2>8 DEF FirstOf
  <2> QED BY <2>3, <2>9 DEF v, s
<1>3. ASSUME VersionsCompared(a, b) = -1, VersionsCompared(b, c) = -1, a.core = c.core
      PROVE  b.core = a.core /\ b.pre # <<>>
  <2>1. /\ VersionsCompared(a, b) = IF a.core = b.core THEN PreOrder[<<a.pre, b.pre>>] ELSE CoreCompared(a.core, b.core)
        /\ VersionsCompared(b, c) = IF b.core = c.core THEN PreOrder[<<b.pre, c.pre>>] ELSE CoreCompared(b.core, c.core)
    BY CompareByParts
  <2>2. /\ CoreCompared(b.core, c.core) = CoreCompared(b.core, a.core)
        /\ CoreCompared(a.core, b.core) = -1 <=> CoreCompared(b.core, a.core) = 1
    <3>1. a.core \in Cores /\ b.core \in Cores
      BY VersionParts
    <3>2. CoreOrder[<<a.core, b.core>>] = -1 <=> CoreOrder[<<b.core, a.core>>] = 1
      BY <3>1, CoreIsOrder, CompareFacts
    <3>3. /\ CoreOrder[<<a.core, b.core>>] = CoreCompared(a.core, b.core)
          /\ CoreOrder[<<b.core, a.core>>] = CoreCompared(b.core, a.core)
      BY <3>1 DEF CoreOrder
    <3> QED BY <1>3, <3>2, <3>3
  <2>3. b.core = a.core
    <3> SUFFICES ASSUME b.core # a.core PROVE FALSE
      OBVIOUS
    <3>1. CoreCompared(a.core, b.core) = -1 /\ CoreCompared(b.core, a.core) = -1
      BY <1>3, <2>1, <2>2
    <3> QED BY <2>2, <3>1
  <2>4. PreCompared(b.pre, c.pre) = -1
    BY <1>p, <1>3, <2>1, <2>3 DEF PreOrder
  <2>5. b.pre = <<>> => PreCompared(b.pre, c.pre) # -1
    BY DEF PreCompared, Versions!compare_pre
  <2> QED BY <2>3, <2>4, <2>5
<1> QED BY <1>1, <1>2, <1>3 DEF Versions!PreReleasesPrecede, VersionsCompared

---------------------------------------------------------------------------
(* The inputs of Algorithms. *)

Inputs == subject \in Subjects /\ input \in Seq(Elements[subject])

LEMMA InputsHold == InputSpec => []Inputs
<1>1. InputInit => Inputs
  BY DEF InputInit, Inputs
<1>2. Inputs /\ [Grow]_inputVars => Inputs'
  BY DEF Inputs, Grow, inputVars
<1> QED BY <1>1, <1>2, PTL DEF InputSpec

\* RetryPolicy::delay_for(), for every policy, every number of retries, negative ones too, and
\* every error that parse_api_error() can make: the delay is within the bounds of the policy,
\* and when it is shorter than max_backoff it is what the server has asked for.
THEOREM DelaysHold == InputSpec => []DelayWithinBounds
<1>1. Inputs => DelayWithinBounds
  <2> SUFFICES ASSUME Inputs, subject = "delay", NEW i \in DOMAIN input
               PROVE  /\ Delays!DelayBounded(input[i][1], input[i][2], input[i][3])
                      /\ Delays!HintObeyed(input[i][1], input[i][2], input[i][3])
    BY DEF DelayWithinBounds
  <2>1. input[i] \in Elements[subject] /\ Elements[subject] = ElementsOf("delay")
    BY DEF Inputs, ElementsOf
  <2>2. input[i] \in Delays!Policies \X Int \X Delays!Errors
    BY <2>1, ElementsAssumption
  <2>3. input[i][1] \in Delays!Policies /\ input[i][2] \in Int /\ input[i][3] \in Delays!Errors
    BY <2>2
  <2> QED BY <2>3, DelaysAreBounded
<1> QED BY <1>1, InputsHold, PTL

\* The task semver-compare, for all versions: compare_semver() is a total order, whatever the
\* lengths of the pre-releases, in which these are where they belong.
THEOREM VersionsHold == InputSpec => []VersionsOrdered
<1>1. Inputs => VersionsOrdered
  <2> SUFFICES ASSUME Inputs, subject = "version", Len(input) = 3
               PROVE  /\ Versions!TotalOrder(input[1], input[2], input[3])
                      /\ Versions!PreReleasesPrecede(input[1], input[2], input[3])
    BY DEF VersionsOrdered
  <2>1. Elements[subject] \subseteq AnyVersion
    BY ElementsAssumption DEF Inputs, ElementsOf, AnyVersion
  <2>2. input[1] \in AnyVersion /\ input[2] \in AnyVersion /\ input[3] \in AnyVersion
    <3>1. input \in Seq(Elements[subject]) /\ 1 \in 1..Len(input) /\ 2 \in 1..Len(input) /\ 3 \in 1..Len(input)
      BY DEF Inputs
    <3>2. /\ input[1] \in Elements[subject] /\ input[2] \in Elements[subject]
          /\ input[3] \in Elements[subject]
      BY <3>1, ElementOfSeq, Zenon
    <3> QED BY <2>1, <3>2
  <2> QED BY <2>2, VersionsAreOrdered, PreReleasesComeBefore
<1> QED BY <1>1, InputsHold, PTL

---------------------------------------------------------------------------
(* SseParser. *)

\* What the reference reading of a text knows at each of its characters.
Readings == [line : Seq(Char), event : Seq(Seq(Char)), events : Seq(Seq(Char))]

\* A part of a sequence, from the element after i to j.
LEMMA Part ==
  ASSUME NEW S, NEW s \in Seq(S), NEW i \in Nat, NEW j \in Nat, i <= j, j <= Len(s)
  PROVE  /\ SubSeq(s, i + 1, j) \in Seq(S)
         /\ Len(SubSeq(s, i + 1, j)) = j - i
         /\ \A k \in 1..(j - i) : SubSeq(s, i + 1, j)[k] = s[i + k]
OBVIOUS

\* Find() returns the first place, or the end.
LEMMA FindFinds ==
  ASSUME NEW S, NEW s \in Seq(S), NEW x, NEW start \in Nat
  PROVE  LET f == Find(s, x, start)
         IN  \/ /\ f \in (start + 1)..Len(s) /\ s[f] = x
                /\ \A i \in (start + 1)..(f - 1) : s[i] # x
             \/ /\ f = Len(s) + 1
                /\ \A i \in (start + 1)..Len(s) : s[i] # x
<1> DEFINE places == {i \in (start + 1)..Len(s) : s[i] = x}
           f == Find(s, x, start)
<1>0. Len(s) \in Nat
  OBVIOUS
<1>1. f = IF places = {} THEN Len(s) + 1 ELSE CHOOSE i \in places : \A j \in places : i <= j
  BY DEF Find
<1> HIDE DEF f
<1>2. CASE places = {}
  BY <1>1, <1>2, <1>0 DEF f
<1>3. CASE places # {}
  <2>1. f \in places /\ \A j \in places : f <= j
    <3>1. places \in SUBSET Nat
      BY <1>0
    <3> HIDE DEF places
    <3>2. \E i \in places : \A j \in places : i <= j
      BY <1>3, <3>1, Least
    <3> QED BY <1>1, <1>3, <3>2
  <2>2. f \in (start + 1)..Len(s) /\ s[f] = x
    BY <2>1
  <2>3. ASSUME NEW i \in (start + 1)..(f - 1) PROVE s[i] # x
    <3>1. i \in (start + 1)..Len(s) /\ i < f
      BY <1>0, <2>2
    <3> QED BY <2>1, <3>1
  <2> QED BY <2>2, <2>3 DEF f
<1> QED BY <1>2, <1>3

\* A line without the carriage return at its end.
\* A line without the carriage return before its newline.
Stripped(line) == IF Ends(line, "\r") THEN SubSeq(line, 1, Len(line) - 1) ELSE line

LEMMA StrippedType ==
  ASSUME NEW line \in Seq(Char)
  PROVE  Stripped(line) \in Seq(Char)
<1>1. CASE Ends(line, "\r")
  <2>1. line # <<>> /\ Len(line) \in Nat /\ Len(line) - 1 \in Nat /\ Len(line) - 1 <= Len(line)
    BY <1>1 DEF Ends
  <2>2. SubSeq(line, 0 + 1, Len(line) - 1) \in Seq(Char)
    BY <2>1, Part
  <2> QED BY <1>1, <2>2 DEF Stripped
<1>2. CASE ~Ends(line, "\r")
  BY <1>2 DEF Stripped
<1> QED BY <1>1, <1>2

LEMMA Joined ==
  ASSUME NEW a \in Seq(Char), NEW b \in Seq(Char)
  PROVE  a \o <<"\n">> \o b \in Seq(Char) /\ Append(a, "\n") \o b = a \o <<"\n">> \o b
<1> DEFINE nl == <<"\n">>
<1>0. /\ nl \in Seq(Char) /\ Len(nl) = 1 /\ nl[1] = "\n"
      /\ Append(a, "\n") \in Seq(Char) /\ Len(Append(a, "\n")) = Len(a) + 1 /\ Len(a) \in Nat
      /\ \A i \in 1..(Len(a) + 1) : Append(a, "\n")[i] = IF i <= Len(a) THEN a[i] ELSE "\n"
  <2>1. "\n" \in Char
    BY DEF Char
  <2> QED BY <2>1
<1> HIDE DEF nl
<1>2. /\ a \o nl \in Seq(Char) /\ Len(a \o nl) = Len(a) + Len(nl)
      /\ \A i \in 1..(Len(a) + Len(nl)) : (a \o nl)[i] = IF i <= Len(a) THEN a[i] ELSE nl[i - Len(a)]
  BY <1>0, ConcatProperties, Zenon
<1>1. nl \in Seq(Char) /\ Append(a, "\n") = a \o nl
  <2>1. Len(a \o nl) = Len(Append(a, "\n"))
    BY <1>0, <1>2
  <2>2. \A i \in 1..Len(a \o nl) : (a \o nl)[i] = Append(a, "\n")[i]
    <3> SUFFICES ASSUME NEW i \in 1..Len(a \o nl) PROVE (a \o nl)[i] = Append(a, "\n")[i]
      OBVIOUS
    <3>1. CASE i <= Len(a)
      BY <1>0, <1>2, <3>1
    <3>2. CASE i = Len(a) + 1
      <4>1. nl[i - Len(a)] = "\n"
        BY <1>0, <3>2
      <4> QED BY <1>0, <1>2, <3>2, <4>1
    <3> QED BY <1>0, <1>2, <3>1, <3>2
  <2> QED BY <1>0, <1>2, <2>1, <2>2, SeqEqual
<1>3. (a \o nl) \o b \in Seq(Char)
  BY <1>2, ConcatProperties, Zenon
<1> QED BY <1>1, <1>3 DEF nl

LEMMA ValueType ==
  ASSUME NEW line \in Seq(Char)
  PROVE  Value(line) \in Seq(Char)
<1>1. ASSUME NEW m \in 3..4 PROVE SubSeq(line, m, Len(line)) \in Seq(Char)
  <2>1. m \in Int /\ Len(line) \in Int /\ \A i \in m..Len(line) : line[i] \in Char
    OBVIOUS
  <2> QED BY <2>1, SubSeqProperties, Zenon
<1>2. 3 \in 3..4 /\ 4 \in 3..4
  OBVIOUS
<1> QED BY <1>1, <1>2, Zenon DEF Value

\* What ending a line makes of a reading.
LEMMA EndedType ==
  ASSUME NEW r \in Readings
  PROVE  Ended(r) \in Readings
<1> DEFINE line == Stripped(r.line)
           event == IF line = <<>> THEN <<>>
                    ELSE IF ~IsData(line) THEN r.event
                    ELSE IF r.event = <<>> THEN <<Value(line)>>
                    ELSE <<r.event[1] \o <<"\n">> \o Value(line)>>
           given == IF line = <<>> THEN r.events \o r.event ELSE r.events
<1>1. r.line \in Seq(Char) /\ r.event \in Seq(Seq(Char)) /\ r.events \in Seq(Seq(Char))
  BY DEF Readings
<1>2. line \in Seq(Char)
  BY <1>1, StrippedType
<1>3. Ended(r) = [line |-> <<>>, event |-> event, events |-> given]
  BY DEF Ended, Stripped
<1> HIDE DEF line
<1>4. Value(line) \in Seq(Char)
  BY <1>2, ValueType
<1>5. event \in Seq(Seq(Char))
  <2>1. CASE line = <<>>
    BY <2>1
  <2>2. CASE line # <<>> /\ ~IsData(line)
    BY <1>1, <2>2
  <2>3. CASE line # <<>> /\ IsData(line) /\ r.event = <<>>
    <3>1. <<Value(line)>> \in Seq(Seq(Char))
      BY <1>4, <2>3
    <3> QED BY <2>3, <3>1
  <2>4. CASE line # <<>> /\ IsData(line) /\ r.event # <<>>
    <3>1. r.event[1] \in Seq(Char)
      BY <1>1, <2>4
    <3> DEFINE joined == r.event[1] \o <<"\n">> \o Value(line)
    <3>2. joined \in Seq(Char)
      BY <1>4, <2>4, <3>1, Joined, Zenon
    <3> HIDE DEF joined
    <3>3. <<joined>> \in Seq(Seq(Char))
      BY <3>2
    <3> QED BY <2>4, <3>3 DEF joined
  <2> QED BY <2>1, <2>2, <2>3, <2>4
<1>6. given \in Seq(Seq(Char))
  <2>1. r.events \o r.event \in Seq(Seq(Char))
    BY <1>1, ConcatProperties, Zenon
  <2> QED BY <1>1, <2>1
<1> HIDE DEF event, given
<1>7. <<>> \in Seq(Char)
  OBVIOUS
<1> QED BY <1>3, <1>5, <1>6, <1>7 DEF Readings

LEMMA EndedFacts ==
  ASSUME NEW r
  PROVE  /\ Ended(r).line = <<>> /\ Ended(r) = [Ended(r) EXCEPT !.line = <<>>]
         /\ Ended(r).events = r.events \/ Ended(r).events = r.events \o r.event
<1> DEFINE line == Stripped(r.line)
           event == IF line = <<>> THEN <<>>
                    ELSE IF ~IsData(line) THEN r.event
                    ELSE IF r.event = <<>> THEN <<Value(line)>>
                    ELSE <<r.event[1] \o <<"\n">> \o Value(line)>>
           given == IF line = <<>> THEN r.events \o r.event ELSE r.events
<1>1. Ended(r) = [line |-> <<>>, event |-> event, events |-> given]
  BY DEF Ended, Stripped
<1>2. given = r.events \/ given = r.events \o r.event
  OBVIOUS
<1> HIDE DEF event, given
<1>3. ASSUME NEW e, e = [line |-> <<>>, event |-> event, events |-> given]
      PROVE  e.line = <<>> /\ e.events = given /\ e = [e EXCEPT !.line = <<>>]
  BY <1>3
<1> QED BY <1>1, <1>2, <1>3, Zenon

\* What reading character n + 1 makes of a reading.
\* What one more character makes of a reading.
ReadNext(t, r, n) ==
    IF n + 1 > Len(t) THEN r
    ELSE IF t[n + 1] = "\n" THEN Ended(r)
    ELSE [r EXCEPT !.line = Append(@, t[n + 1])]

LEMMA ReadingIs ==
  ASSUME NEW t \in Seq(Char)
  PROVE  /\ Reading(t)[0] = Unread
         /\ \A n \in Nat : Reading(t)[n] \in Readings
         /\ \A n \in Nat : Reading(t)[n + 1] = ReadNext(t, Reading(t)[n], n)
<1> DEFINE D == [p \in Readings \X Nat |-> ReadNext(t, p[1], p[2])]
           Is(f) == f = [n \in Nat |->
               IF n = 0 THEN Unread
               ELSE IF n > Len(t) THEN f[n - 1]
               ELSE IF t[n] = "\n" THEN Ended(f[n - 1])
               ELSE [f[n - 1] EXCEPT !.line = Append(@, t[n])]]
           reading == CHOOSE f : Is(f)
<1>0. Unread \in Readings
  BY DEF Unread, Readings
<1>1. D \in [Readings \X Nat -> Readings]
  <2> SUFFICES ASSUME NEW r \in Readings, NEW n \in Nat PROVE ReadNext(t, r, n) \in Readings
    OBVIOUS
  <2>1. CASE n + 1 <= Len(t) /\ t[n + 1] # "\n"
    <3>1. r.line \in Seq(Char) /\ t[n + 1] \in Char
      BY <2>1 DEF Readings
    <3>2. Append(r.line, t[n + 1]) \in Seq(Char)
      BY <3>1
    <3>3. ReadNext(t, r, n) = [r EXCEPT !.line = Append(r.line, t[n + 1])]
      BY <2>1 DEF ReadNext
    <3> QED BY <3>2, <3>3 DEF Readings
  <2>2. CASE ~(n + 1 <= Len(t) /\ t[n + 1] # "\n")
    BY <2>2, EndedType DEF ReadNext
  <2> QED BY <2>1, <2>2
<1>2. PICK g \in [Nat -> Readings] : Unfolds(g, Unread, D)
  <2> HIDE DEF D
  <2> QED BY <1>0, <1>1, RecursiveFunction, Zenon
<1>3. \A n \in Nat : g[n + 1] = ReadNext(t, g[n], n)
  BY <1>2 DEF Unfolds
<1>4. g[0] = Unread
  BY <1>2 DEF Unfolds
<1>5. Is(g)
  <2>1. ASSUME NEW n \in Nat, n # 0
        PROVE  g[n] = IF n > Len(t) THEN g[n - 1]
                      ELSE IF t[n] = "\n" THEN Ended(g[n - 1])
                      ELSE [g[n - 1] EXCEPT !.line = Append(@, t[n])]
    <3>1. n - 1 \in Nat /\ (n - 1) + 1 = n
      BY <2>1
    <3>2. g[(n - 1) + 1] = ReadNext(t, g[n - 1], n - 1)
      BY <1>3, <3>1
    <3> QED BY <3>1, <3>2, Zenon DEF ReadNext
  <2> QED BY <1>2, <1>4, <2>1
<1> HIDE DEF Is
<1>6. Is(reading)
  BY <1>5
<1> HIDE DEF reading
<1>7. Reading(t) = reading
  BY DEF Reading, reading, Is
<1>8. reading[0] = Unread
  BY <1>6 DEF Is
<1>9. ASSUME NEW n \in Nat PROVE reading[n + 1] = ReadNext(t, reading[n], n)
  <2>1. n + 1 \in Nat /\ n + 1 # 0 /\ (n + 1) - 1 = n
    OBVIOUS
  <2>2. reading[n + 1] = IF n + 1 > Len(t) THEN reading[(n + 1) - 1]
                         ELSE IF t[n + 1] = "\n" THEN Ended(reading[(n + 1) - 1])
                         ELSE [reading[(n + 1) - 1] EXCEPT !.line = Append(@, t[n + 1])]
    BY <1>6, <2>1 DEF Is
  <2> QED BY <2>1, <2>2, Zenon DEF ReadNext
<1>10. \A n \in Nat : reading[n] \in Readings
  <2> DEFINE T == {n \in Nat : reading[n] \in Readings}
  <2>1. 0 \in T
    BY <1>0, <1>8
  <2>2. ASSUME NEW n \in T PROVE n + 1 \in T
    <3>1. reading[n + 1] = D[<<reading[n], n>>] /\ D[<<reading[n], n>>] \in Readings
      BY <1>1, <1>9
    <3> QED BY <3>1
  <2> HIDE DEF T
  <2>3. T = Nat
    <3>1. T \in SUBSET Nat
      BY DEF T
    <3> QED BY <2>1, <2>2, <3>1, Ind
  <2> QED BY <2>3 DEF T
<1> QED BY <1>7, <1>8, <1>9, <1>10

\* Texts that agree up to m are read alike up to there.
LEMMA ReadAlike ==
  ASSUME NEW s \in Seq(Char), NEW t \in Seq(Char), NEW m \in Nat, m <= Len(s), m <= Len(t),
         \A i \in 1..m : s[i] = t[i]
  PROVE  \A n \in 0..m : Reading(s)[n] = Reading(t)[n]
<1> DEFINE T == {n \in Nat : n <= m => Reading(s)[n] = Reading(t)[n]}
<1>1. 0 \in T
  BY ReadingIs
<1>2. ASSUME NEW n \in T PROVE n + 1 \in T
  <2> SUFFICES ASSUME n + 1 <= m PROVE Reading(s)[n + 1] = Reading(t)[n + 1]
    OBVIOUS
  <2>1. n \in Nat /\ n <= m /\ Reading(s)[n] = Reading(t)[n] /\ n + 1 \in 1..m
    OBVIOUS
  <2>2. /\ Reading(s)[n + 1] = ReadNext(s, Reading(s)[n], n)
        /\ Reading(t)[n + 1] = ReadNext(t, Reading(t)[n], n)
    BY <2>1, ReadingIs
  <2>3. s[n + 1] = t[n + 1] /\ ~(n + 1 > Len(s)) /\ ~(n + 1 > Len(t))
    BY <2>1
  <2> QED BY <2>1, <2>2, <2>3, Zenon DEF ReadNext
<1> HIDE DEF T
<1>3. T = Nat
  <2>1. T \in SUBSET Nat
    BY DEF T
  <2> QED BY <1>1, <1>2, <2>1, Ind
<1> QED BY <1>3 DEF T

\* The line that is being read is what stands before, up to where the line began.
LEMMA LineIsTheRest ==
  ASSUME NEW t \in Seq(Char)
  PROVE  \A n \in 0..Len(t) :
             LET r == Reading(t)[n]
                 from == n - Len(r.line)
             IN  /\ from \in 0..n
                 /\ \A i \in 1..Len(r.line) : t[from + i] = r.line[i] /\ r.line[i] # "\n"
                 /\ Reading(t)[from] = [r EXCEPT !.line = <<>>]
<1> DEFINE R(n) == Reading(t)[n]
           L(n) == R(n).line
           Is(n) == /\ n - Len(L(n)) \in 0..n
                    /\ \A i \in 1..Len(L(n)) : t[n - Len(L(n)) + i] = L(n)[i] /\ L(n)[i] # "\n"
                    /\ R(n - Len(L(n))) = [R(n) EXCEPT !.line = <<>>]
           T == {n \in Nat : n <= Len(t) => Is(n)}
<1>0. \A n \in Nat : R(n) \in Readings /\ L(n) \in Seq(Char)
  BY ReadingIs DEF Readings
<1>1. 0 \in T
  <2>1. R(0) = Unread /\ L(0) = <<>> /\ Unread = [Unread EXCEPT !.line = <<>>]
    BY ReadingIs DEF Unread
  <2> HIDE DEF R
  <2>2. Is(0)
    BY <2>1
  <2> HIDE DEF Is
  <2> QED BY <2>2
<1>2. ASSUME NEW n \in T PROVE n + 1 \in T
  <2> SUFFICES ASSUME n + 1 <= Len(t) PROVE Is(n + 1)
    OBVIOUS
  <2>1. n \in Nat /\ Is(n) /\ n + 1 \in 1..Len(t) /\ t[n + 1] \in Char /\ ~(n + 1 > Len(t)) /\ n + 1 \in Nat
    OBVIOUS
  <2>2. R(n + 1) = ReadNext(t, R(n), n)
    BY <2>1, ReadingIs
  <2>3. CASE t[n + 1] = "\n"
    <3>1. R(n + 1) = Ended(R(n))
      BY <2>1, <2>2, <2>3, Zenon DEF ReadNext
    <3>2. L(n + 1) = <<>> /\ R(n + 1) = [R(n + 1) EXCEPT !.line = <<>>]
      <4> HIDE DEF R
      <4>1. /\ Ended(R(n)).line = <<>>
            /\ Ended(R(n)) = [Ended(R(n)) EXCEPT !.line = <<>>]
        BY EndedFacts, Zenon
      <4> QED BY <3>1, <4>1, Zenon
    <3> HIDE DEF R
    <3>3. Len(L(n + 1)) = 0 /\ n + 1 - 0 = n + 1 /\ n + 1 \in 0..(n + 1)
      BY <2>1, <3>2
    <3> QED BY <3>2, <3>3
  <2>4. CASE t[n + 1] # "\n"
    <3>1. R(n + 1) = [R(n) EXCEPT !.line = Append(@, t[n + 1])]
      BY <2>1, <2>2, <2>4, Zenon DEF ReadNext
    <3>2. R(n) \in Readings /\ L(n) \in Seq(Char)
      BY <1>0, <2>1
    <3> HIDE DEF R
    <3>3. /\ L(n + 1) = Append(L(n), t[n + 1])
          /\ [R(n + 1) EXCEPT !.line = <<>>] = [R(n) EXCEPT !.line = <<>>]
      BY <3>1, <3>2 DEF Readings
    <3> DEFINE len == Len(L(n))
    <3>4. len \in Nat /\ Len(L(n + 1)) = len + 1 /\ n + 1 - (len + 1) = n - len
      BY <2>1, <3>2, <3>3
    <3>5. n - len \in 0..n /\ \A i \in 1..len : t[n - len + i] = L(n)[i] /\ L(n)[i] # "\n"
      BY <2>1
    <3>6. \A i \in 1..(len + 1) : t[n - len + i] = L(n + 1)[i] /\ L(n + 1)[i] # "\n"
      <4> SUFFICES ASSUME NEW i \in 1..(len + 1)
                   PROVE  t[n - len + i] = L(n + 1)[i] /\ L(n + 1)[i] # "\n"
        OBVIOUS
      <4>1. CASE i <= len
        <5>1. L(n + 1)[i] = L(n)[i]
          BY <3>2, <3>3, <3>4, <4>1
        <5>2. i \in 1..len
          BY <3>4, <4>1
        <5> QED BY <3>5, <5>1, <5>2
      <4>2. CASE i = len + 1
        <5>1. L(n + 1)[i] = t[n + 1] /\ n - len + i = n + 1
          BY <2>1, <3>2, <3>3, <3>4, <4>2
        <5> QED BY <2>4, <5>1
      <4> QED BY <3>4, <4>1, <4>2
    <3>7. R(n - len) = [R(n) EXCEPT !.line = <<>>]
      BY <2>1
    <3>8. n - len \in 0..(n + 1)
      BY <2>1, <3>4, <3>5
    <3> HIDE DEF L, len
    <3> QED BY <3>3, <3>4, <3>6, <3>7, <3>8 DEF len
  <2> QED BY <2>3, <2>4
<1> HIDE DEF T
<1>3. T = Nat
  <2>1. T \in SUBSET Nat
    BY DEF T
  <2> QED BY <1>1, <1>2, <2>1, Ind
<1>4. \A n \in 0..Len(t) : Is(n)
  <2> HIDE DEF Is
  <2> QED BY <1>3 DEF T
<1> QED BY <1>4

\* What has been said stays said.
\* A text's events stay as they are when more is read: the next come after them.
LEMMA SaidStaysSaid ==
  ASSUME NEW t \in Seq(Char), NEW m \in Nat
  PROVE  \A n \in Nat : n >= m =>
             /\ Len(Reading(t)[m].events) <= Len(Reading(t)[n].events)
             /\ \A i \in 1..Len(Reading(t)[m].events) : Reading(t)[n].events[i] = Reading(t)[m].events[i]
<1> DEFINE E(n) == Reading(t)[n].events
           Is(n) == Len(E(m)) <= Len(E(n)) /\ \A i \in 1..Len(E(m)) : E(n)[i] = E(m)[i]
           T == {n \in Nat : n >= m => Is(n)}
<1>0. ASSUME NEW n \in Nat PROVE Reading(t)[n] \in Readings /\ E(n) \in Seq(Seq(Char)) /\ Len(E(n)) \in Nat
  <2>1. Reading(t)[n] \in Readings
    BY ReadingIs
  <2>2. E(n) \in Seq(Seq(Char))
    BY <2>1 DEF Readings
  <2> QED BY <2>1, <2>2
<1>1. 0 \in T
  <2>1. 0 >= m => m = 0
    OBVIOUS
  <2>2. m = 0 => Is(0)
    <3> HIDE DEF E
    <3> QED BY <1>0
  <2> HIDE DEF Is
  <2> QED BY <2>1, <2>2
<1>2. ASSUME NEW n \in T PROVE n + 1 \in T
  <2> SUFFICES ASSUME n + 1 >= m PROVE Is(n + 1)
    OBVIOUS
  <2>1. n \in Nat /\ n + 1 \in Nat
    OBVIOUS
  <2>2. CASE n + 1 = m
    <3>1. E(n + 1) = E(m)
      BY <2>2, Zenon
    <3>2. Len(E(m)) <= Len(E(m))
      BY <1>0
    <3> HIDE DEF E
    <3> QED BY <3>1, <3>2, Zenon
  <2>3. CASE n + 1 # m
    <3>1. Is(n)
      BY <2>1, <2>3
    <3>2. Reading(t)[n + 1] = ReadNext(t, Reading(t)[n], n)
      BY <2>1, ReadingIs
    <3>3. \/ E(n + 1) = E(n)
          \/ E(n + 1) = E(n) \o Reading(t)[n].event
      <4>1. CASE n + 1 > Len(t)
        BY <3>2, <4>1 DEF ReadNext
      <4>2. CASE n + 1 <= Len(t) /\ t[n + 1] = "\n"
        <5>1. Reading(t)[n + 1] = Ended(Reading(t)[n])
          BY <3>2, <4>2 DEF ReadNext
        <5> DEFINE r == Reading(t)[n]
        <5>2. Reading(t)[n + 1] = Ended(r)
          BY <5>1
        <5> HIDE DEF r
        <5>3. Ended(r).events = r.events \/ Ended(r).events = r.events \o r.event
          BY EndedFacts, Zenon
        <5> QED BY <5>2, <5>3, Zenon DEF r
      <4>3. CASE n + 1 <= Len(t) /\ t[n + 1] # "\n"
        <5>1. Reading(t)[n + 1] = [Reading(t)[n] EXCEPT !.line = Append(@, t[n + 1])]
          BY <3>2, <4>3 DEF ReadNext
        <5> QED BY <5>1, <1>0, <2>1 DEF Readings
      <4>4. n + 1 > Len(t) \/ (n + 1 <= Len(t) /\ (t[n + 1] = "\n" \/ t[n + 1] # "\n"))
        BY <2>1
      <4> HIDE DEF E
      <4> QED BY <4>1, <4>2, <4>3, <4>4, Zenon
    <3> DEFINE event == Reading(t)[n].event
    <3>4. E(n) \in Seq(Seq(Char)) /\ event \in Seq(Seq(Char))
      BY <1>0, <2>1 DEF Readings
    <3> HIDE DEF E, event
    <3>5. /\ Len(E(n) \o event) = Len(E(n)) + Len(event)
          /\ \A i \in 1..(Len(E(n)) + Len(event)) :
                 (E(n) \o event)[i] = IF i <= Len(E(n)) THEN E(n)[i] ELSE event[i - Len(E(n))]
      BY <3>4, ConcatProperties, Zenon
    <3>6. Len(event) \in Nat /\ Len(E(n)) \in Nat /\ Len(E(m)) \in Nat
      <4>1. Len(E(n)) \in Nat /\ Len(event) \in Nat
        BY <3>4
      <4>2. Len(E(m)) \in Nat
        BY <1>0 DEF E
      <4> QED BY <4>1, <4>2
    <3>7. CASE E(n + 1) = E(n)
      BY <3>1, <3>7
    <3>8. CASE E(n + 1) = E(n) \o event
      <4>1. Len(E(m)) <= Len(E(n + 1))
        BY <3>1, <3>5, <3>6, <3>8
      <4>2. ASSUME NEW i \in 1..Len(E(m)) PROVE E(n + 1)[i] = E(m)[i]
        <5>1. i \in 1..(Len(E(n)) + Len(event)) /\ i <= Len(E(n))
          BY <3>1, <3>6
        <5>2. E(n + 1)[i] = E(n)[i]
          BY <3>5, <3>8, <5>1
        <5> QED BY <3>1, <5>2
      <4> QED BY <4>1, <4>2
    <3> QED BY <3>3, <3>7, <3>8 DEF E, event
  <2> QED BY <2>2, <2>3
<1> HIDE DEF T
<1>3. T = Nat
  <2>1. T \in SUBSET Nat
    BY DEF T
  <2> QED BY <1>1, <1>2, <2>1, Ind
<1>4. \A n \in Nat : n >= m => Is(n)
  <2> HIDE DEF Is
  <2> QED BY <1>3 DEF T
<1> QED BY <1>4

LEMMA AppendPart ==
  ASSUME NEW S, NEW s \in Seq(S), NEW i \in Nat, NEW j \in Nat, i <= j, j + 1 <= Len(s)
  PROVE  Append(SubSeq(s, i + 1, j), s[j + 1]) = SubSeq(s, i + 1, j + 1)
<1> DEFINE x == SubSeq(s, i + 1, j)
           y == SubSeq(s, i + 1, j + 1)
           z == Append(x, s[j + 1])
<1>0. Len(s) \in Nat /\ s[j + 1] \in S
  OBVIOUS
<1>1. x \in Seq(S) /\ Len(x) = j - i /\ \A k \in 1..(j - i) : x[k] = s[i + k]
  <2>1. j <= Len(s)
    BY <1>0
  <2> QED BY <2>1, Part, ZenonT(60)
<1>2. y \in Seq(S) /\ Len(y) = (j + 1) - i /\ \A k \in 1..((j + 1) - i) : y[k] = s[i + k]
  <2>1. i <= j + 1 /\ j + 1 \in Nat
    OBVIOUS
  <2> QED BY <2>1, Part, ZenonT(60)
<1> HIDE DEF x, y
<1>3. z \in Seq(S) /\ Len(z) = (j + 1) - i /\ \A k \in 1..((j + 1) - i) : z[k] = IF k <= j - i THEN x[k] ELSE s[j + 1]
  BY <1>0, <1>1
<1> HIDE DEF z
<1>4. ASSUME NEW k \in 1..((j + 1) - i) PROVE z[k] = y[k]
  <2>1. CASE k <= j - i
    <3>1. k \in 1..(j - i)
      BY <2>1
    <3> QED BY <1>1, <1>2, <1>3, <2>1, <3>1
  <2>2. CASE k = (j + 1) - i
    <3>1. i + k = j + 1 /\ ~(k <= j - i)
      BY <2>2
    <3> QED BY <1>2, <1>3, <3>1
  <2> QED BY <2>1, <2>2
<1>5. z = y
  BY <1>2, <1>3, <1>4, SeqEqual
<1> QED BY <1>5 DEF x, y, z

LEMMA OneElement ==
  ASSUME NEW S, NEW s \in Seq(S), NEW x
  PROVE  s = <<x>> <=> Len(s) = 1 /\ s[1] = x
OBVIOUS

\* Where no line ends the characters are collected.
\* Characters that end no line are gathered in it.
LEMMA CharsCollect ==
  ASSUME NEW t \in Seq(Char), NEW a \in Nat, NEW b \in Nat, a <= b, b <= Len(t),
         Reading(t)[a].line = <<>>, \A i \in (a + 1)..b : t[i] # "\n"
  PROVE  Reading(t)[b] = [Reading(t)[a] EXCEPT !.line = SubSeq(t, a + 1, b)]
<1> DEFINE R(n) == Reading(t)[n]
           Is(n) == R(a + n) = [R(a) EXCEPT !.line = SubSeq(t, a + 1, a + n)]
           T == {n \in Nat : a + n <= b => Is(n)}
<1>0. /\ \A n \in Nat : R(n) \in Readings
      /\ \A n \in Nat : R(n + 1) = ReadNext(t, R(n), n)
  BY ReadingIs
<1>1. 0 \in T
  <2>1. a + 0 = a /\ SubSeq(t, a + 1, a + 0) = <<>>
    OBVIOUS
  <2>2. R(a) = [R(a) EXCEPT !.line = <<>>]
    <3>1. R(a) \in Readings /\ R(a).line = <<>>
      BY <1>0
    <3> HIDE DEF R
    <3> QED BY <3>1 DEF Readings
  <2>3. Is(0)
    BY <2>1, <2>2, Zenon
  <2> HIDE DEF Is
  <2> QED BY <2>3
<1>2. ASSUME NEW n \in T PROVE n + 1 \in T
  <2> SUFFICES ASSUME a + (n + 1) <= b PROVE Is(n + 1)
    OBVIOUS
  <2> DEFINE m == a + n
  <2>1. n \in Nat /\ m \in Nat /\ m + 1 = a + (n + 1) /\ a + n <= b /\ m + 1 \in (a + 1)..b /\ ~(m + 1 > Len(t))
        /\ m + 1 <= Len(t) /\ a <= m
    OBVIOUS
  <2>2. Is(n)
    BY <2>1
  <2>3. R(m + 1) = ReadNext(t, R(m), m)
    BY <1>0, <2>1
  <2>4. t[m + 1] # "\n"
    BY <2>1
  <2>5. R(m + 1) = [R(m) EXCEPT !.line = Append(@, t[m + 1])]
    BY <2>1, <2>3, <2>4, Zenon DEF ReadNext
  <2>6. R(m).line = SubSeq(t, a + 1, m) /\ R(m) = [R(a) EXCEPT !.line = SubSeq(t, a + 1, m)]
    <3>1. R(a) \in Readings /\ R(m) = [R(a) EXCEPT !.line = SubSeq(t, a + 1, m)]
      BY <1>0, <2>2
    <3> HIDE DEF R, m
    <3> QED BY <3>1 DEF Readings
  <2>7. Append(SubSeq(t, a + 1, m), t[m + 1]) = SubSeq(t, a + 1, m + 1)
    <3> HIDE DEF m
    <3>1. a <= m /\ m + 1 <= Len(t)
      BY <2>1
    <3> QED BY <2>1, <3>1, AppendPart
  <2>8. R(m + 1) = [R(a) EXCEPT !.line = SubSeq(t, a + 1, m + 1)]
    <3>1. R(a) \in Readings
      BY <1>0
    <3> DEFINE x == SubSeq(t, a + 1, m)
               y == SubSeq(t, a + 1, m + 1)
               c == t[m + 1]
    <3> HIDE DEF R, m, x, y, c
    <3>2. R(m + 1) = [R(m) EXCEPT !.line = Append(x, c)]
      BY <2>5, <2>6 DEF x, c
    <3>3. R(m) = [R(a) EXCEPT !.line = x] /\ Append(x, c) = y
      BY <2>6, <2>7 DEF x, y, c
    <3>4. [R(m) EXCEPT !.line = Append(x, c)] = [R(a) EXCEPT !.line = y]
      BY <3>1, <3>3 DEF Readings
    <3> QED BY <3>2, <3>4 DEF y
  <2> HIDE DEF R
  <2> QED BY <2>1, <2>8, Zenon DEF m
<1> HIDE DEF T
<1>3. T = Nat
  <2>1. T \in SUBSET Nat
    BY DEF T
  <2> QED BY <1>1, <1>2, <2>1, Ind
<1>4. b - a \in Nat /\ a + (b - a) = b
  OBVIOUS
<1>5. Is(b - a)
  <2> HIDE DEF Is
  <2>1. b - a \in T
    BY <1>3, <1>4
  <2> QED BY <2>1, <1>4 DEF T
<1> QED BY <1>4, <1>5, Zenon

\* Without the space at its beginning.
\* A value without the space it may begin with.
Trimmed(rest) == IF Starts(rest, " ") THEN Tail(rest) ELSE rest

LEMMA ValueIs ==
  ASSUME NEW line \in Seq(Char)
  PROVE  Trimmed(SubSeq(line, 3, Len(line))) = Value(line)
<1> DEFINE rest == SubSeq(line, 3, Len(line))
<1>0. Len(line) \in Nat
  OBVIOUS
<1>1. CASE Len(line) <= 2
  <2>1. rest = <<>>
    BY <1>0, <1>1
  <2>2. ~(Len(line) >= 3)
    BY <1>0, <1>1
  <2>3. Value(line) = rest
    BY <2>2, Zenon DEF Value
  <2> HIDE DEF rest
  <2>4. Trimmed(rest) = rest
    BY <2>1, Zenon DEF Trimmed, Starts
  <2> QED BY <2>3, <2>4 DEF rest
<1>2. CASE Len(line) >= 3
  <2>1. rest \in Seq(Char) /\ Len(rest) = Len(line) - 2 /\ \A k \in 1..(Len(line) - 2) : rest[k] = line[2 + k]
    <3>1. 2 \in Nat /\ 2 <= Len(line) /\ Len(line) <= Len(line) /\ 2 + 1 = 3
      BY <1>0, <1>2
    <3>2. /\ SubSeq(line, 2 + 1, Len(line)) \in Seq(Char) /\ Len(SubSeq(line, 2 + 1, Len(line))) = Len(line) - 2
          /\ \A k \in 1..(Len(line) - 2) : SubSeq(line, 2 + 1, Len(line))[k] = line[2 + k]
      BY <1>0, <3>1, Part, ZenonT(60)
    <3> QED BY <3>1, <3>2, Zenon
  <2>2. Starts(rest, " ") <=> line[3] = " "
    <3> HIDE DEF rest
    <3>1. Len(rest) >= 1 /\ 1 \in 1..(Len(line) - 2) /\ 2 + 1 = 3
      BY <1>0, <1>2, <2>1
    <3>2. rest # <<>> /\ rest[1] = line[3]
      BY <2>1, <3>1
    <3> QED BY <3>2, Zenon DEF Starts
  <2>3. CASE line[3] # " "
    <3>1. Value(line) = rest
      BY <2>3, Zenon DEF Value
    <3> HIDE DEF rest
    <3>2. Trimmed(rest) = rest
      BY <2>2, <2>3, Zenon DEF Trimmed
    <3> QED BY <3>1, <3>2, Zenon DEF rest
  <2>4. CASE line[3] = " "
    <3> DEFINE y == SubSeq(line, 4, Len(line))
    <3>1. Value(line) = y
      BY <1>2, <2>4, Zenon DEF Value
    <3>2. y \in Seq(Char) /\ Len(y) = Len(line) - 3 /\ \A k \in 1..(Len(line) - 3) : y[k] = line[3 + k]
      <4>1. 3 \in Nat /\ 3 <= Len(line) /\ Len(line) <= Len(line) /\ 3 + 1 = 4
        BY <1>0, <1>2
      <4>2. /\ SubSeq(line, 3 + 1, Len(line)) \in Seq(Char) /\ Len(SubSeq(line, 3 + 1, Len(line))) = Len(line) - 3
            /\ \A k \in 1..(Len(line) - 3) : SubSeq(line, 3 + 1, Len(line))[k] = line[3 + k]
        BY <1>0, <4>1, Part, ZenonT(60)
      <4> QED BY <4>1, <4>2, Zenon
    <3> HIDE DEF y, rest
    <3> DEFINE z == Tail(rest)
    <3>3. z \in Seq(Char) /\ Len(z) = Len(line) - 3 /\ \A k \in 1..(Len(line) - 3) : z[k] = rest[k + 1]
      BY <1>0, <1>2, <2>1
    <3> HIDE DEF z
    <3>4. ASSUME NEW k \in 1..(Len(line) - 3) PROVE z[k] = y[k]
      <4>1. k + 1 \in 1..(Len(line) - 2) /\ 2 + (k + 1) = 3 + k
        BY <1>0, <1>2
      <4> QED BY <2>1, <3>2, <3>3, <4>1
    <3>5. z = y
      BY <3>2, <3>3, <3>4, SeqEqual
    <3>6. Trimmed(rest) = z
      BY <2>2, <2>4, Zenon DEF Trimmed, z
    <3> QED BY <3>1, <3>5, <3>6, Zenon DEF rest
  <2> QED BY <2>3, <2>4, Zenon
<1>3. Len(line) <= 2 \/ Len(line) >= 3
  BY <1>0
<1> QED BY <1>1, <1>2, <1>3, Zenon

\* process_line() and the reference agree on which lines are data.
LEMMA LineIsData ==
  ASSUME NEW line \in Seq(Char), line # <<>>
  PROVE  LET colon == Find(line, ":", 0)
             rest == SubSeq(line, colon + 1, Len(line))
         IN  /\ SubSeq(line, 1, colon - 1) = <<"data">> <=> IsData(line)
             /\ IsData(line) => Trimmed(rest) = Value(line)
<1> DEFINE colon == Find(line, ":", 0)
           rest == SubSeq(line, colon + 1, Len(line))
           name == SubSeq(line, 1, colon - 1)
<1>1. \/ /\ colon \in (0 + 1)..Len(line) /\ line[colon] = ":"
         /\ \A i \in (0 + 1)..(colon - 1) : line[i] # ":"
      \/ /\ colon = Len(line) + 1
         /\ \A i \in (0 + 1)..Len(line) : line[i] # ":"
  BY FindFinds
<1> HIDE DEF colon
<1>2. /\ Len(line) \in Nat \ {0} /\ colon \in 1..(Len(line) + 1)
      /\ colon - 1 \in Nat /\ 0 <= colon - 1 /\ colon - 1 <= Len(line) /\ (colon - 1) - 0 = colon - 1
      /\ \A i \in 1..(colon - 1) : line[i] # ":"
      /\ colon <= Len(line) => line[colon] = ":"
  BY <1>1
<1>3. /\ name \in Seq(Char) /\ Len(name) = colon - 1
      /\ \A k \in 1..(colon - 1) : name[k] = line[k]
  <2>1. /\ SubSeq(line, 0 + 1, colon - 1) \in Seq(Char) /\ Len(SubSeq(line, 0 + 1, colon - 1)) = (colon - 1) - 0
        /\ \A k \in 1..((colon - 1) - 0) : SubSeq(line, 0 + 1, colon - 1)[k] = line[0 + k]
    BY <1>2, Part
  <2> QED BY <1>2, <2>1
<1>4. name = <<"data">> <=> colon = 2 /\ line[1] = "data"
  <2> HIDE DEF name
  <2>1. name = <<"data">> <=> Len(name) = 1 /\ name[1] = "data"
    BY <1>3, OneElement, Zenon
  <2>2. Len(name) = 1 <=> colon = 2
    BY <1>2, <1>3
  <2>3. colon = 2 => name[1] = line[1]
    BY <1>2, <1>3
  <2> QED BY <2>1, <2>2, <2>3, Zenon
<1>5. colon = 2 /\ line[1] = "data" <=> IsData(line)
  <2>1. line = <<"data">> <=> Len(line) = 1 /\ line[1] = "data"
    BY OneElement, Zenon
  <2>2. Len(line) = 1 \/ Len(line) >= 2
    <3>1. ASSUME NEW n \in Nat \ {0} PROVE n = 1 \/ n >= 2
      OBVIOUS
    <3> QED BY <1>2, <3>1, Zenon
  <2>3. CASE Len(line) = 1
    <3>1. line[1] = "data" => colon = 2
      BY <1>2, <2>3
    <3>2. ~(Len(line) >= 2)
      BY <2>3
    <3> QED BY <2>1, <2>3, <3>1, <3>2, Zenon DEF IsData
  <2>4. CASE Len(line) >= 2
    <3>0. ASSUME NEW n, n = 1 PROVE ~(n >= 2)
      BY <3>0
    <3>1. Len(line) # 1
      BY <2>4, <3>0, Zenon
    <3>2. colon = 2 => line[2] = ":"
      BY <1>2, <2>4
    <3>3. line[1] = "data" /\ line[2] = ":" => colon = 2
      <4>1. colon > 2 => line[2] # ":"
        BY <1>2
      <4>2. colon = 1 => line[1] = ":"
        BY <1>2
      <4>3. colon = 1 \/ colon = 2 \/ colon > 2
        BY <1>2
      <4>4. "data" # ":"
        OBVIOUS
      <4> QED BY <4>1, <4>2, <4>3, <4>4, Zenon
    <3> QED BY <2>1, <2>4, <3>1, <3>2, <3>3, Zenon DEF IsData
  <2> QED BY <2>2, <2>3, <2>4
<1>6. ASSUME colon = 2 PROVE Trimmed(rest) = Value(line)
  <2>1. colon + 1 = 3
    BY <1>6
  <2> QED BY <2>1, ValueIs, Zenon
<1> HIDE DEF rest, name
<1>7. (name = <<"data">> <=> IsData(line))
      /\ (IsData(line) => Trimmed(rest) = Value(line))
  BY <1>4, <1>5, <1>6, Zenon
<1> QED BY <1>7, Zenon DEF colon, rest, name

---------------------------------------------------------------------------
(* The parser follows a reading. *)

\* What process_line() and dispatch() are called with.
Parsers == [data : Seq(Char), has_data : BOOLEAN, events : Seq(Seq(Char)), going : BOOLEAN]

Kept(p) == IF p.has_data THEN <<p.data>> ELSE <<>>

\* What the parser keeps and has given is what the reading has said. 
\* The parser p has said, and keeps, what the reading r says and keeps.
Follows(p, r) ==
    /\ p \in Parsers /\ (~p.has_data => p.data = <<>>)
    /\ Kept(p) = r.event
    /\ p.events = r.events
    /\ (p.going <=> Len(p.events) < limit) /\ Len(p.events) <= limit

LEMMA EndedEmpty ==
  ASSUME NEW r, Stripped(r.line) = <<>>
  PROVE  Ended(r) = [line |-> <<>>, event |-> <<>>, events |-> r.events \o r.event]
<1>1. (IF Ends(r.line, "\r") THEN SubSeq(r.line, 1, Len(r.line) - 1) ELSE r.line) = <<>>
  BY Zenon DEF Stripped
<1> QED BY <1>1, Zenon DEF Ended

LEMMA EndedOther ==
  ASSUME NEW r, Stripped(r.line) # <<>>
  PROVE  Ended(r) = [line |-> <<>>,
                     event |-> IF ~IsData(Stripped(r.line)) THEN r.event
                               ELSE IF r.event = <<>> THEN <<Value(Stripped(r.line))>>
                               ELSE <<r.event[1] \o <<"\n">> \o Value(Stripped(r.line))>>,
                     events |-> r.events]
<1>1. (IF Ends(r.line, "\r") THEN SubSeq(r.line, 1, Len(r.line) - 1) ELSE r.line) # <<>>
  BY Zenon DEF Stripped
<1> QED BY <1>1, Zenon DEF Ended, Stripped

\* dispatch() ends an event as an empty line does.
LEMMA Dispatched ==
  ASSUME NEW r \in Readings, NEW p, Follows(p, r), p.going, limit \in Nat,
         NEW e, e = [line |-> <<>>, event |-> <<>>, events |-> r.events \o r.event]
  PROVE  Follows(dispatch(p), e)
<1>0. /\ p \in Parsers /\ (~p.has_data => p.data = <<>>) /\ Kept(p) = r.event
      /\ p.events = r.events /\ Len(p.events) < limit
      /\ r.events \in Seq(Seq(Char)) /\ r.event \in Seq(Seq(Char))
  BY DEF Follows, Readings
<1>1. CASE ~p.has_data
  <2>1. dispatch(p) = p
    BY <1>1, Zenon DEF dispatch
  <2>2. r.event = <<>>
    BY <1>0, <1>1, Zenon DEF Kept
  <2>3. r.events \o <<>> = r.events
    BY <1>0
  <2>4. e.event = Kept(p) /\ e.events = p.events
    BY <1>0, <2>2, <2>3
  <2> QED BY <2>1, <2>4, Zenon DEF Follows
<1>2. CASE p.has_data
  <2> DEFINE q == dispatch(p)
  <2>1. q = [data |-> <<>>, has_data |-> FALSE, events |-> Append(p.events, p.data),
             going |-> Len(p.events) + 1 < limit]
    <3>1. NoData(p).data = <<>> /\ NoData(p).has_data = FALSE
      BY DEF NoData
    <3> QED BY <1>2, <3>1, Zenon DEF dispatch
  <2> HIDE DEF q
  <2>2. r.event = <<p.data>> /\ p.data \in Seq(Char) /\ p.events \in Seq(Seq(Char))
    BY <1>0, <1>2 DEF Kept, Parsers
  <2>3. /\ Append(p.events, p.data) \in Seq(Seq(Char))
        /\ Len(Append(p.events, p.data)) = Len(p.events) + 1
        /\ Len(p.events) \in Nat
    <3>1. ASSUME NEW S, NEW b \in Seq(S), NEW x \in S
          PROVE  Append(b, x) \in Seq(S) /\ Len(Append(b, x)) = Len(b) + 1 /\ Len(b) \in Nat
      OBVIOUS
    <3> QED BY <2>2, <3>1, Zenon
  <2>4. Append(p.events, p.data) = p.events \o <<p.data>>
    BY <2>2, SMTT(30)
  <2> DEFINE longer == Append(p.events, p.data)
  <2>5. e.events = longer /\ e.event = <<>>
    BY <1>0, <2>2, <2>4, Zenon
  <2> HIDE DEF longer
  <2>6. longer \in Seq(Seq(Char)) /\ Len(longer) = Len(p.events) + 1 /\ Len(p.events) \in Nat
    BY <2>3 DEF longer
  <2>7. q = [data |-> <<>>, has_data |-> FALSE, events |-> longer, going |-> Len(longer) < limit]
    BY <2>1, <2>6, Zenon DEF longer
  <2>8. <<>> \in Seq(Char)
    OBVIOUS
  <2>9. q \in Parsers /\ q.data = <<>> /\ q.has_data = FALSE /\ q.events = longer /\ (q.going <=> Len(longer) < limit)
    <3> DEFINE g == Len(longer) < limit
    <3>1. g \in BOOLEAN
      OBVIOUS
    <3> HIDE DEF g
    <3>2. q \in Parsers /\ q.data = <<>> /\ q.has_data = FALSE /\ q.events = longer /\ q.going = g
      BY <2>6, <2>7, <2>8, <3>1 DEF Parsers, g
    <3> QED BY <3>2 DEF g
  <2>10. Len(longer) <= limit
    BY <1>0, <2>6
  <2>11. Kept(q) = <<>>
    BY <2>9, Zenon DEF Kept
  <2> QED BY <2>5, <2>9, <2>10, <2>11, Zenon DEF Follows, q
<1> QED BY <1>1, <1>2

\* process_line() makes of the parser what the end of that line makes of the reading.
LEMMA Processed ==
  ASSUME NEW r \in Readings, NEW p, Follows(p, r), p.going, limit \in Nat
  PROVE  Follows(process_line(p, Chomp(r.line)), Ended(r))
<1> DEFINE line == Stripped(r.line)
           q == process_line(p, line)
           rest == SubSeq(line, Find(line, ":", 0) + 1, Len(line))
           value == Trimmed(rest)
           name == SubSeq(line, 1, Find(line, ":", 0) - 1)
           more == IF p.has_data THEN Append(p.data, "\n") ELSE p.data
<1>0. Chomp(r.line) = line
  BY Zenon DEF Chomp, Stripped
<1>1. line \in Seq(Char)
  BY StrippedType DEF Readings
<1>2. q = IF line = <<>> THEN dispatch(p)
          ELSE IF name = <<"data">> THEN [p EXCEPT !.data = more \o value, !.has_data = TRUE]
          ELSE p
  BY Zenon DEF process_line, Trimmed
<1> HIDE DEF line, q, rest, name, value, more
<1>3. CASE line = <<>>
  <2>1. Ended(r) = [line |-> <<>>, event |-> <<>>, events |-> r.events \o r.event]
    BY <1>3, EndedEmpty, Zenon DEF line
  <2>2. q = dispatch(p)
    BY <1>2, <1>3, Zenon
  <2>3. Follows(q, Ended(r))
    BY <2>1, <2>2, Dispatched, Zenon
  <2> QED BY <1>0, <2>3, Zenon DEF q
<1>4. CASE line # <<>>
  <2> DEFINE said == IF ~IsData(line) THEN r.event
                     ELSE IF r.event = <<>> THEN <<Value(line)>>
                     ELSE <<r.event[1] \o <<"\n">> \o Value(line)>>
  <2>1. Ended(r) = [line |-> <<>>, event |-> said, events |-> r.events]
    BY <1>4, EndedOther, Zenon DEF line
  <2> HIDE DEF said
  <2>2. Ended(r).event = said /\ Ended(r).events = r.events
    BY <2>1
  <2>3. (name = <<"data">> <=> IsData(line)) /\ (IsData(line) => value = Value(line))
    BY <1>1, <1>4, LineIsData, Zenon DEF name, value, rest
  <2>4. CASE ~IsData(line)
    <3>1. q = p /\ said = r.event
      BY <1>2, <1>4, <2>3, <2>4, Zenon DEF said
    <3> QED BY <1>0, <2>2, <3>1, Zenon DEF Follows, q
  <2>5. CASE IsData(line)
    <3>1. q = [p EXCEPT !.data = more \o value, !.has_data = TRUE] /\ value = Value(line)
      BY <1>2, <1>4, <2>3, <2>5, Zenon
    <3>2. value \in Seq(Char)
      BY <1>1, <3>1, ValueType, Zenon
    <3>3. p.data \in Seq(Char) /\ p \in Parsers /\ (~p.has_data => p.data = <<>>) /\ Kept(p) = r.event
      BY DEF Follows, Parsers
    <3> DEFINE d == more \o value
    <3>4. d \in Seq(Char) /\ said = <<d>>
      <4>1. CASE p.has_data
        <5>1. more = Append(p.data, "\n") /\ r.event = <<p.data>>
          BY <3>3, <4>1, Zenon DEF more, Kept
        <5>2. more \o value = p.data \o <<"\n">> \o value /\ p.data \o <<"\n">> \o value \in Seq(Char)
          BY <3>2, <3>3, <5>1, Joined, Zenon
        <5>3. r.event # <<>> /\ r.event[1] = p.data
          BY <5>1
        <5> QED BY <2>5, <3>1, <5>2, <5>3, Zenon DEF said
      <4>2. CASE ~p.has_data
        <5>1. more = <<>> /\ r.event = <<>>
          BY <3>3, <4>2, Zenon DEF more, Kept
        <5>2. <<>> \o value = value
          BY <3>2
        <5> QED BY <2>5, <3>1, <3>2, <5>1, <5>2, Zenon DEF said
      <4> QED BY <4>1, <4>2
    <3> HIDE DEF d
    <3>5. q = [p EXCEPT !.data = d, !.has_data = TRUE]
      BY <3>1 DEF d
    <3>6. q \in Parsers /\ q.has_data = TRUE /\ q.data = d /\ q.events = p.events /\ q.going = p.going
      BY <3>3, <3>4, <3>5 DEF Parsers
    <3>7. Kept(q) = said
      BY <3>4, <3>6, Zenon DEF Kept
    <3>8. q.events = Ended(r).events /\ (q.going <=> Len(q.events) < limit) /\ Len(q.events) <= limit
      BY <2>2, <3>6, Zenon DEF Follows
    <3> QED BY <1>0, <2>2, <3>6, <3>7, <3>8, Zenon DEF Follows, q
  <2> QED BY <2>4, <2>5
<1> QED BY <1>3, <1>4

LEMMA ProcessLineType ==
  ASSUME NEW p \in Parsers, NEW line \in Seq(Char), limit \in Nat
  PROVE  process_line(p, line) \in Parsers
<1> DEFINE rest == SubSeq(line, Find(line, ":", 0) + 1, Len(line))
           value == Trimmed(rest)
           more == IF p.has_data THEN Append(p.data, "\n") ELSE p.data
           d == more \o value
<1>1. \/ process_line(p, line) = dispatch(p)
      \/ process_line(p, line) = [p EXCEPT !.data = d, !.has_data = TRUE]
      \/ process_line(p, line) = p
  BY Zenon DEF process_line, Trimmed
<1>2. p.data \in Seq(Char) /\ p.events \in Seq(Seq(Char)) /\ p.has_data \in BOOLEAN
  BY DEF Parsers
<1>3. dispatch(p) \in Parsers
  <2> DEFINE l == Append(p.events, p.data)
             g == Len(p.events) + 1 < limit
  <2>1. ~p.has_data => dispatch(p) = p
    BY Zenon DEF dispatch
  <2>2. NoData(p).data = <<>> /\ NoData(p).has_data = FALSE
    BY DEF NoData
  <2>3. p.has_data => dispatch(p) = [data |-> <<>>, has_data |-> FALSE, events |-> l, going |-> g]
    BY <2>2, Zenon DEF dispatch
  <2>4. l \in Seq(Seq(Char)) /\ g \in BOOLEAN /\ <<>> \in Seq(Char)
    BY <1>2
  <2> HIDE DEF l, g
  <2>5. [data |-> <<>>, has_data |-> FALSE, events |-> l, going |-> g] \in Parsers
    BY <2>4 DEF Parsers
  <2> QED BY <2>1, <2>3, <2>5, Zenon
<1>4. d \in Seq(Char)
  <2>1. Find(line, ":", 0) \in 1..(Len(line) + 1) /\ Len(line) \in Nat
    <3>1. \/ Find(line, ":", 0) \in (0 + 1)..Len(line)
          \/ Find(line, ":", 0) = Len(line) + 1
      BY FindFinds
    <3>2. Len(line) \in Nat
      OBVIOUS
    <3> QED BY <3>1, <3>2
  <2>2. rest \in Seq(Char)
    <3> DEFINE c == Find(line, ":", 0)
    <3> HIDE DEF c
    <3>1. c + 1 \in Int /\ Len(line) \in Int /\ \A i \in (c + 1)..Len(line) : line[i] \in Char
      BY <2>1 DEF c
    <3> QED BY <3>1, SubSeqProperties, Zenon DEF c
  <2> HIDE DEF rest
  <2>3. value \in Seq(Char)
    <3>1. CASE Starts(rest, " ")
      <4>1. rest # <<>>
        BY <3>1, Zenon DEF Starts
      <4>2. Tail(rest) \in Seq(Char)
        BY <2>2, <4>1
      <4> QED BY <3>1, <4>2, Zenon DEF Trimmed
    <3>2. CASE ~Starts(rest, " ")
      BY <2>2, <3>2, Zenon DEF Trimmed
    <3> QED BY <3>1, <3>2
  <2>4. more \in Seq(Char)
    <3>1. "\n" \in Char
      BY DEF Char
    <3> QED BY <1>2, <3>1
  <2> HIDE DEF more, value
  <2> QED BY <2>3, <2>4, ConcatProperties, Zenon
<1>5. [p EXCEPT !.data = d, !.has_data = TRUE] \in Parsers
  <2> HIDE DEF d
  <2> QED BY <1>4 DEF Parsers
<1> QED BY <1>1, <1>3, <1>5, Zenon

---------------------------------------------------------------------------
(* The loop of feed(). *)

Rounding(all) == [p : Parsers, start : 0..Len(all)]

LEMMA ReadLineType ==
  ASSUME NEW all \in Seq(Char), NEW r \in Rounding(all), limit \in Nat
  PROVE  ReadLine(all, r) \in Rounding(all)
<1> DEFINE newline == Find(all, "\n", r.start)
           line == Chomp(SubSeq(all, r.start + 1, newline - 1))
<1>0. r.p \in Parsers /\ r.start \in 0..Len(all) /\ r.start \in Nat /\ Len(all) \in Nat
  BY DEF Rounding
<1>1. CASE ~Proceed(r.p) \/ newline > Len(all)
  BY <1>1, Zenon DEF ReadLine
<1>2. CASE Proceed(r.p) /\ ~(newline > Len(all))
  <2>1. newline \in (r.start + 1)..Len(all)
    <3>1. \/ newline \in (r.start + 1)..Len(all)
          \/ newline = Len(all) + 1
      BY <1>0, FindFinds, Zenon
    <3> HIDE DEF newline
    <3> QED BY <1>0, <1>2, <3>1
  <2>2. ReadLine(all, r) = [p |-> process_line(r.p, line), start |-> newline]
    BY <1>2, Zenon DEF ReadLine
  <2>3. line \in Seq(Char)
    <3> HIDE DEF newline
    <3>1. r.start <= newline - 1 /\ newline - 1 <= Len(all) /\ newline - 1 \in Nat
      BY <1>0, <2>1
    <3>2. SubSeq(all, r.start + 1, newline - 1) \in Seq(Char)
      BY <1>0, <3>1, Part, ZenonT(60)
    <3>3. Stripped(SubSeq(all, r.start + 1, newline - 1)) \in Seq(Char)
      BY <3>2, StrippedType, Zenon
    <3> QED BY <3>3, Zenon DEF Stripped, Chomp
  <2> HIDE DEF line
  <2>4. process_line(r.p, line) \in Parsers
    BY <1>0, <2>3, ProcessLineType
  <2>5. newline \in 0..Len(all)
    <3> HIDE DEF newline
    <3> QED BY <1>0, <2>1
  <2> HIDE DEF newline
  <2> QED BY <2>2, <2>4, <2>5 DEF Rounding
<1> QED BY <1>1, <1>2

LEMMA RoundsAre ==
  ASSUME NEW all \in Seq(Char), NEW p \in Parsers, limit \in Nat
  PROVE  /\ Rounds(all, p)[0] = [p |-> p, start |-> 0]
         /\ \A n \in Nat : Rounds(all, p)[n] \in Rounding(all)
         /\ \A n \in Nat : Rounds(all, p)[n + 1] = ReadLine(all, Rounds(all, p)[n])
<1> DEFINE D == [x \in Rounding(all) \X Nat |-> ReadLine(all, x[1])]
           first == [p |-> p, start |-> 0]
           Is(f) == f = [n \in Nat |-> IF n = 0 THEN [p |-> p, start |-> 0] ELSE ReadLine(all, f[n - 1])]
           rounds == CHOOSE f : Is(f)
<1>0. first \in Rounding(all)
  <2>1. 0 \in 0..Len(all)
    OBVIOUS
  <2> QED BY <2>1 DEF Rounding
<1>1. D \in [Rounding(all) \X Nat -> Rounding(all)]
  <2> SUFFICES ASSUME NEW r \in Rounding(all), NEW n \in Nat PROVE ReadLine(all, r) \in Rounding(all)
    OBVIOUS
  <2> QED BY ReadLineType, Zenon
<1> HIDE DEF first
<1>2. PICK g \in [Nat -> Rounding(all)] : Unfolds(g, first, D)
  <2> HIDE DEF D
  <2> QED BY <1>0, <1>1, RecursiveFunction, Zenon
<1>3. g[0] = first /\ \A n \in Nat : g[n + 1] = ReadLine(all, g[n])
  BY <1>2 DEF Unfolds
<1>4. Is(g)
  <2>1. ASSUME NEW n \in Nat, n # 0 PROVE g[n] = ReadLine(all, g[n - 1])
    <3>1. n - 1 \in Nat /\ (n - 1) + 1 = n
      BY <2>1
    <3>2. g[(n - 1) + 1] = ReadLine(all, g[n - 1])
      BY <1>3, <3>1, Zenon
    <3> QED BY <3>1, <3>2, Zenon
  <2> QED BY <1>2, <1>3, <2>1 DEF first
<1> HIDE DEF Is
<1>5. Is(rounds)
  BY <1>4
<1> HIDE DEF rounds
<1>6. Rounds(all, p) = rounds
  BY DEF Rounds, rounds, Is
<1>7. rounds[0] = first
  BY <1>5 DEF Is, first
<1>8. ASSUME NEW n \in Nat PROVE rounds[n + 1] = ReadLine(all, rounds[n])
  <2>1. n + 1 \in Nat /\ n + 1 # 0 /\ (n + 1) - 1 = n
    OBVIOUS
  <2>2. rounds[n + 1] = ReadLine(all, rounds[(n + 1) - 1])
    BY <1>5, <2>1 DEF Is
  <2> QED BY <2>1, <2>2, Zenon
<1>9. \A n \in Nat : rounds[n] \in Rounding(all)
  <2> DEFINE T == {n \in Nat : rounds[n] \in Rounding(all)}
  <2>1. 0 \in T
    BY <1>0, <1>7
  <2>2. ASSUME NEW n \in T PROVE n + 1 \in T
    <3>1. n \in Nat /\ rounds[n] \in Rounding(all)
      OBVIOUS
    <3>2. rounds[n + 1] \in Rounding(all)
      BY <1>8, <3>1, ReadLineType, Zenon
    <3> QED BY <3>1, <3>2
  <2> HIDE DEF T
  <2>3. T = Nat
    <3>1. T \in SUBSET Nat
      BY DEF T
    <3> QED BY <2>1, <2>2, <3>1, Ind
  <2> QED BY <2>3 DEF T
<1> QED BY <1>6, <1>7, <1>8, <1>9, Zenon DEF first

\* x is the part of s from the element after i to j.
IsPart(x, S, s, i, j) ==
    x \in Seq(S) /\ Len(x) = j - i /\ \A k \in 1..(j - i) : x[k] = s[i + k]

LEMMA PartIs ==
  ASSUME NEW S, NEW s \in Seq(S), NEW i \in Nat, NEW j \in Nat, i <= j, j <= Len(s)
  PROVE  IsPart(SubSeq(s, i + 1, j), S, s, i, j)
BY Part DEF IsPart

\* There is no newline from after a to b; and these characters have been gathered.
Plain(s, a, b) == \A i \in (a + 1)..b : s[i] # "\n"
Collected(t, a, b) == Reading(t)[b] = [Reading(t)[a] EXCEPT !.line = SubSeq(t, a + 1, b)]
LEMMA PlainCollected ==
  ASSUME NEW t \in Seq(Char), NEW a \in Nat, NEW b \in Nat, a <= b, b <= Len(t),
         Reading(t)[a].line = <<>>, Plain(t, a, b)
  PROVE  Collected(t, a, b)
<1>1. Reading(t)[b] = [Reading(t)[a] EXCEPT !.line = SubSeq(t, a + 1, b)]
  <2>1. \A i \in (a + 1)..b : t[i] # "\n"
    BY Zenon DEF Plain
  <2> QED BY <2>1, CharsCollect, ZenonT(60)
<1> QED BY <1>1, Zenon DEF Collected

\* Two values, or n elements of two sequences, are the same.
Equal(x, y) == x = y
Same(s, a, t, c, n) == \A k \in 1..n : s[a + k] = t[c + k]

LEMMA SamePart ==
  ASSUME NEW S, NEW s \in Seq(S), NEW t \in Seq(S), NEW a \in Nat, NEW b \in Nat, NEW c \in Nat, NEW d \in Nat,
         a <= b, b <= Len(s), c <= d, d <= Len(t), b - a = d - c,
         Same(s, a, t, c, b - a)
  PROVE  Equal(SubSeq(s, a + 1, b), SubSeq(t, c + 1, d))
<1> DEFINE x == SubSeq(s, a + 1, b)
           y == SubSeq(t, c + 1, d)
<1>0. IsPart(x, S, s, a, b) /\ IsPart(y, S, t, c, d)
  BY PartIs
<1> HIDE DEF x, y
<1>1. x \in Seq(S) /\ Len(x) = b - a /\ \A k \in 1..(b - a) : x[k] = s[a + k]
  BY <1>0 DEF IsPart
<1>2. y \in Seq(S) /\ Len(y) = d - c /\ \A k \in 1..(d - c) : y[k] = t[c + k]
  BY <1>0 DEF IsPart
<1>3. \A k \in 1..Len(x) : x[k] = y[k]
  BY <1>1, <1>2 DEF Same
<1>4. x = y
  BY <1>1, <1>2, <1>3, SeqEqual, Zenon
<1> QED BY <1>4 DEF x, y, Equal

\* all stands in t after base.
Shifted(t, base, all) == \A i \in 1..Len(all) : t[base + i] = all[i]

LEMMA PartCollected ==
  ASSUME NEW t \in Seq(Char), NEW base \in Nat, NEW all \in Seq(Char),
         Len(t) = base + Len(all), Shifted(t, base, all),
         NEW s \in 0..Len(all), NEW e \in s..Len(all), Reading(t)[base + s].line = <<>>,
         Plain(all, s, e)
  PROVE  Equal(Reading(t)[base + e], [Reading(t)[base + s] EXCEPT !.line = SubSeq(all, s + 1, e)])
<1>0. Len(all) \in Nat
  OBVIOUS
<1> DEFINE a == base + s
           z == base + e
<1>1. /\ a \in Nat /\ z \in Nat /\ a <= z /\ z <= Len(t) /\ z - a = e - s
      /\ s \in Nat /\ e \in Nat /\ s <= e /\ e <= Len(all)
  BY <1>0
<1>2. \A i \in (a + 1)..z : t[i] # "\n"
  <2> SUFFICES ASSUME NEW i \in (a + 1)..z PROVE t[i] # "\n"
    OBVIOUS
  <2>1. i - base \in (s + 1)..e /\ i - base \in 1..Len(all) /\ base + (i - base) = i
    BY <1>0, <1>1
  <2>2. t[base + (i - base)] = all[i - base] /\ all[i - base] # "\n"
    BY <2>1 DEF Plain, Shifted
  <2> QED BY <2>1, <2>2
<1>3. Reading(t)[a].line = <<>>
  OBVIOUS
<1>4. \A k \in 1..(z - a) : t[a + k] = all[s + k]
  <2> SUFFICES ASSUME NEW k \in 1..(z - a) PROVE t[a + k] = all[s + k]
    OBVIOUS
  <2>1. s + k \in 1..Len(all) /\ base + (s + k) = a + k
    BY <1>1
  <2>2. t[base + (s + k)] = all[s + k]
    BY <2>1 DEF Shifted
  <2> QED BY <2>1, <2>2
<1> HIDE DEF a, z
<1>5. Reading(t)[z] = [Reading(t)[a] EXCEPT !.line = SubSeq(t, a + 1, z)]
  <2>1. Plain(t, a, z)
    BY <1>2 DEF Plain
  <2>2. Collected(t, a, z)
    BY <1>1, <1>3, <2>1, PlainCollected, Zenon
  <2> QED BY <2>2 DEF Collected
<1>6. SubSeq(t, a + 1, z) = SubSeq(all, s + 1, e)
  <2>1. Same(t, a, all, s, z - a)
    BY <1>4 DEF Same
  <2>2. Equal(SubSeq(t, a + 1, z), SubSeq(all, s + 1, e))
    BY <1>1, <2>1, SamePart, Zenon
  <2> QED BY <2>2 DEF Equal
<1> QED BY <1>5, <1>6, Zenon DEF a, z, Equal

\* The loop reads what the reading of a text says of the lines that all holds: all is what
\* the text has after base, where a line begins.
\* The loop of feed() over all, which stands in t after base, has read up to q.start: the parser
\* follows the reading of t there, and if nobody has said stop, no newline is left in the rest.
LoopRead(t, base, all, q) ==
    LET r == Reading(t)[base + q.start]
    IN  /\ q.start \in 0..Len(all) /\ Follows(q.p, r) /\ r.line = <<>>
        /\ q.p.going => Reading(t)[Len(t)] = [r EXCEPT !.line = SubSeq(all, q.start + 1, Len(all))]

LEMMA LoopReads ==
  ASSUME NEW t \in Seq(Char), NEW base \in Nat, NEW all \in Seq(Char),
         Len(t) = base + Len(all), Shifted(t, base, all),
         NEW p, Reading(t)[base].line = <<>>, Follows(p, Reading(t)[base]), limit \in Nat
  PROVE  LoopRead(t, base, all, Rounds(all, p)[Len(all)])
<1> DEFINE R(n) == Reading(t)[n]
           Q(n) == Rounds(all, p)[n]
           Is(n) == /\ Follows(Q(n).p, R(base + Q(n).start)) /\ R(base + Q(n).start).line = <<>>
                    /\ Q(n).p.going => \/ Q(n).start >= n
                                       \/ Find(all, "\n", Q(n).start) > Len(all)
           T == {n \in Nat : Is(n)}
<1>0. /\ p \in Parsers /\ Len(all) \in Nat
      /\ Q(0) = [p |-> p, start |-> 0]
      /\ \A n \in Nat : Q(n) \in Rounding(all)
      /\ \A n \in Nat : Q(n + 1) = ReadLine(all, Q(n))
  <2>1. p \in Parsers
    BY Zenon DEF Follows
  <2>2. Len(all) \in Nat
    OBVIOUS
  <2> QED BY <2>1, <2>2, RoundsAre, Zenon
<1>a. \A n \in Nat : R(n) \in Readings
  BY ReadingIs, Zenon
<1>c. Len(all) \in Nat /\ Len(t) = base + Len(all)
  OBVIOUS
<1>b. ASSUME NEW s \in 0..Len(all), NEW e \in s..Len(all), R(base + s).line = <<>>,
             \A i \in (s + 1)..e : all[i] # "\n"
      PROVE  R(base + e) = [R(base + s) EXCEPT !.line = SubSeq(all, s + 1, e)]
  <2>1. Plain(all, s, e) /\ Reading(t)[base + s].line = <<>>
    BY <1>b DEF Plain
  <2>2. Equal(R(base + e), [R(base + s) EXCEPT !.line = SubSeq(all, s + 1, e)])
    BY <2>1, PartCollected, Zenon
  <2> QED BY <2>2 DEF Equal
<1>d. \A x \in 0..Len(all) : \A y \in (x + 1)..Len(all) :
          /\ y - 1 \in x..Len(all) /\ base + (y - 1) \in Nat /\ base + (y - 1) + 1 = base + y /\ base + y <= Len(t)
          /\ y \in 1..Len(all) /\ base + x \in Nat
  BY <1>c
<1>1. 0 \in T
  <2>1. Q(0).p = p /\ Q(0).start = 0
    BY <1>0
  <2> HIDE DEF Q
  <2>2. base + 0 = base /\ 0 >= 0
    OBVIOUS
  <2>3. Is(0)
    BY <2>1, <2>2, Zenon
  <2> HIDE DEF Is
  <2> QED BY <2>3
<1>2. ASSUME NEW n \in T PROVE n + 1 \in T
  <2> DEFINE q == Q(n)
             s == q.start
             f == Find(all, "\n", s)
  <2>1. /\ n \in Nat /\ Is(n) /\ q \in Rounding(all) /\ s \in 0..Len(all) /\ s \in Nat /\ q.p \in Parsers
        /\ Q(n + 1) = ReadLine(all, q)
    <3>1. n \in Nat /\ Is(n)
      OBVIOUS
    <3>2. q \in Rounding(all) /\ Q(n + 1) = ReadLine(all, q)
      BY <1>0, <3>1, Zenon
    <3> HIDE DEF q, Is
    <3> QED BY <1>0, <3>1, <3>2 DEF Rounding
  <2>2. CASE ~q.p.going
    <3>1. Q(n + 1) = q
      BY <2>1, <2>2, Zenon DEF ReadLine, Proceed
    <3>2. Is(n + 1)
      BY <2>1, <2>2, <3>1, Zenon
    <3> HIDE DEF Is
    <3> QED BY <2>1, <3>2
  <2>3. CASE f > Len(all)
    <3>1. Q(n + 1) = q
      BY <2>1, <2>3, Zenon DEF ReadLine
    <3>2. Is(n + 1)
      BY <2>1, <2>3, <3>1, Zenon
    <3> HIDE DEF Is
    <3> QED BY <2>1, <3>2
  <2>4. CASE q.p.going /\ ~(f > Len(all))
    <3> DEFINE line == SubSeq(all, s + 1, f - 1)
    <3>1. f \in (s + 1)..Len(all) /\ all[f] = "\n" /\ \A i \in (s + 1)..(f - 1) : all[i] # "\n"
      <4>1. \/ /\ f \in (s + 1)..Len(all) /\ all[f] = "\n"
               /\ \A i \in (s + 1)..(f - 1) : all[i] # "\n"
            \/ f = Len(all) + 1
        BY <2>1, FindFinds, Zenon
      <4>2. f # Len(all) + 1
        BY <1>0, <2>4
      <4> QED BY <4>1, <4>2, Zenon
    <3>2. Q(n + 1) = [p |-> process_line(q.p, Chomp(line)), start |-> f]
      BY <2>1, <2>4, Zenon DEF ReadLine, Proceed
    <3> HIDE DEF f
    <3>3. /\ f - 1 \in s..Len(all) /\ base + (f - 1) \in Nat /\ base + (f - 1) + 1 = base + f /\ base + f <= Len(t)
          /\ f \in 1..Len(all) /\ base + s \in Nat
      BY <1>d, <2>1, <3>1, Zenon
    <3>4. R(base + (f - 1)) = [R(base + s) EXCEPT !.line = line]
      BY <1>b, <2>1, <3>1, <3>3, Zenon
    <3> DEFINE r == R(base + (f - 1))
    <3>5. R(base + f) = Ended(r)
      <4>1. R(base + (f - 1) + 1) = ReadNext(t, r, base + (f - 1))
        BY <3>3, ReadingIs, Zenon
      <4>2. t[base + f] = "\n"
        BY <3>1, <3>3 DEF Shifted
      <4>3. ~(base + f > Len(t))
        BY <3>3
      <4> QED BY <3>3, <4>1, <4>2, <4>3, Zenon DEF ReadNext
    <3>6. Follows(q.p, R(base + s)) /\ R(base + s) \in Readings /\ r \in Readings
      BY <1>a, <2>1, <3>3, Zenon
    <3>7. r.line = line /\ Follows(q.p, r)
      <4> DEFINE u == R(base + s)
      <4>1. r = [u EXCEPT !.line = line] /\ u \in Readings
        BY <3>4, <3>6, Zenon
      <4> HIDE DEF r, u, line
      <4>2. r.line = line /\ r.event = u.event /\ r.events = u.events
        BY <4>1 DEF Readings
      <4> QED BY <3>6, <4>2, Zenon DEF Follows, u
    <3>8. Follows(process_line(q.p, Chomp(line)), Ended(r))
      <4> HIDE DEF r, line
      <4> QED BY <2>4, <3>6, <3>7, Processed, Zenon
    <3>9. Q(n + 1).p = process_line(q.p, Chomp(line)) /\ Q(n + 1).start = f
      BY <3>2
    <3>10. Ended(r).line = <<>>
      BY EndedFacts, Zenon
    <3>11. Q(n + 1).p.going => \/ Q(n + 1).start >= n + 1
                               \/ Find(all, "\n", Q(n + 1).start) > Len(all)
      <4>1. s >= n
        <5>1. s >= n \/ Find(all, "\n", s) > Len(all)
          BY <2>1, <2>4, Zenon
        <5> QED BY <2>4, <5>1, Zenon DEF f
      <4>2. f >= n + 1
        BY <2>1, <3>1, <4>1
      <4> QED BY <3>9, <4>2, Zenon
    <3>12. Is(n + 1)
      <4> HIDE DEF R, Q, r, line
      <4> QED BY <3>5, <3>8, <3>9, <3>10, <3>11, Zenon
    <3> HIDE DEF Is
    <3> QED BY <2>1, <3>12
  <2> QED BY <2>2, <2>3, <2>4, Zenon
<1>3. Is(Len(all))
  <2> HIDE DEF T
  <2>1. T \in SUBSET Nat
    BY DEF T
  <2>2. T = Nat
    BY <1>1, <1>2, <2>1, Ind
  <2> HIDE DEF Is
  <2> QED BY <1>0, <2>2 DEF T
<1> DEFINE q == Q(Len(all))
           r == R(base + q.start)
<1>4. q.start \in 0..Len(all) /\ q.p \in Parsers
  <2>1. q \in Rounding(all)
    BY <1>0, Zenon
  <2> HIDE DEF q
  <2> QED BY <2>1 DEF Rounding
<1>5. Follows(q.p, r) /\ r.line = <<>>
  BY <1>3, Zenon
<1>6. ASSUME q.p.going PROVE R(Len(t)) = [r EXCEPT !.line = SubSeq(all, q.start + 1, Len(all))]
  <2>1. q.start >= Len(all) \/ Find(all, "\n", q.start) > Len(all)
    BY <1>3, <1>6, Zenon
  <2> DEFINE s == q.start
  <2>2. s \in 0..Len(all) /\ r = R(base + s)
    BY <1>4
  <2> HIDE DEF q
  <2>3. \A i \in (s + 1)..Len(all) : all[i] # "\n"
    <3>1. CASE s >= Len(all)
      BY <1>c, <2>2, <3>1
    <3>2. CASE Find(all, "\n", s) > Len(all)
      <4> DEFINE f == Find(all, "\n", s)
      <4>1. \/ f \in (s + 1)..Len(all)
            \/ \A i \in (s + 1)..Len(all) : all[i] # "\n"
        <5>1. s \in Nat
          BY <2>2
        <5> QED BY <5>1, FindFinds, Zenon
      <4> HIDE DEF f
      <4>2. ~(f \in (s + 1)..Len(all))
        BY <1>0, <3>2 DEF f
      <4> QED BY <4>1, <4>2, Zenon
    <3> QED BY <2>1, <3>1, <3>2, Zenon
  <2>4. Len(all) \in s..Len(all)
    BY <1>c, <2>2
  <2>5. R(base + Len(all)) = [R(base + s) EXCEPT !.line = SubSeq(all, s + 1, Len(all))]
    BY <1>5, <1>b, <2>2, <2>3, <2>4, Zenon
  <2> QED BY <2>2, <2>5, Zenon DEF s
<1> QED BY <1>4, <1>5, <1>6, Zenon DEF LoopRead

---------------------------------------------------------------------------
(* The invariant. *)

\* The invariant: as long as the stream goes on, the parser follows the reading of what has been
\* received; once it is finished it has said everything; once it is stopped it has said the
\* first events, up to the one at which the handler stopped it.
StreamReads == LET r == Reading(received)[Len(received)]
         IN  going /\ ~finished => Follows(Parser, r) /\ buffer = r.line
Complete == going /\ finished => events = Meaning(Text) /\ Len(events) < limit
Stopped == ~going => /\ Len(events) = limit
                     /\ limit <= Len(Meaning(Text))
                     /\ \A i \in 1..limit : Meaning(Text)[i] = events[i]

SseInv == SseTypeOK /\ StreamReads /\ Complete /\ Stopped

LEMMA LimitType == ASSUME limit \in Limits PROVE limit \in Nat /\ limit >= 1
BY SseAssumption

LEMMA InitSse == SseInit => SseInv
<1> SUFFICES ASSUME SseInit PROVE SseInv
  OBVIOUS
<1>1. /\ buffer = <<>> /\ data = <<>> /\ has_data = FALSE /\ events = <<>> /\ going = TRUE
      /\ received = <<>> /\ finished = FALSE /\ limit \in Limits /\ limit \in Nat /\ limit >= 1
  BY LimitType DEF SseInit
<1>2. SseTypeOK
  <2>1. <<>> \in Seq(Char) /\ <<>> \in Seq(Seq(Char)) /\ FALSE \in BOOLEAN /\ TRUE \in BOOLEAN
    OBVIOUS
  <2> QED BY <1>1, <2>1, Zenon DEF SseTypeOK
<1>3. Reading(received)[Len(received)] = Unread
  <2>1. received \in Seq(Char) /\ Len(received) = 0
    BY <1>1
  <2> QED BY <2>1, ReadingIs, Zenon
<1>4. Follows(Parser, Unread)
  <2>1. Parser = [data |-> <<>>, has_data |-> FALSE, events |-> <<>>, going |-> TRUE]
    BY <1>1 DEF Parser
  <2>2. Parser \in Parsers /\ Parser.data = <<>> /\ ~Parser.has_data /\ Parser.events = <<>> /\ Parser.going
    BY <2>1 DEF Parsers
  <2>3. Kept(Parser) = <<>>
    BY <2>2, Zenon DEF Kept
  <2>4. Unread.event = <<>> /\ Unread.events = <<>>
    BY DEF Unread
  <2>5. Len(<<>>) < limit /\ Len(<<>>) <= limit
    BY <1>1
  <2> QED BY <2>2, <2>3, <2>4, <2>5, Zenon DEF Follows
<1>5. Unread.line = <<>>
  BY DEF Unread
<1>6. StreamReads
  BY <1>1, <1>3, <1>4, <1>5, Zenon DEF StreamReads
<1> QED BY <1>1, <1>2, <1>6, Zenon DEF SseInv, Complete, Stopped

\* The reading of a longer text is the reading of the shorter one as far as that goes.
LEMMA ReadLonger ==
  ASSUME NEW s \in Seq(Char), NEW more \in Seq(Char)
  PROVE  /\ s \o more \in Seq(Char) /\ Len(s \o more) = Len(s) + Len(more)
         /\ \A i \in 1..(Len(s) + Len(more)) : (s \o more)[i] = IF i <= Len(s) THEN s[i] ELSE more[i - Len(s)]
         /\ \A n \in 0..Len(s) : Reading(s \o more)[n] = Reading(s)[n]
<1> DEFINE t == s \o more
<1>1. /\ t \in Seq(Char) /\ Len(t) = Len(s) + Len(more)
      /\ \A i \in 1..(Len(s) + Len(more)) : t[i] = IF i <= Len(s) THEN s[i] ELSE more[i - Len(s)]
  BY ConcatProperties, Zenon
<1> HIDE DEF t
<1>2. Len(s) \in Nat /\ Len(more) \in Nat /\ Len(s) <= Len(s) /\ Len(s) <= Len(t)
  BY <1>1
<1>3. \A i \in 1..Len(s) : s[i] = t[i]
  BY <1>1, <1>2
<1>4. \A n \in 0..Len(s) : Reading(s)[n] = Reading(t)[n]
  BY <1>1, <1>2, <1>3, ReadAlike
<1>5. \A n \in 0..Len(s) : Reading(t)[n] = Reading(s)[n]
  BY <1>4, Zenon
<1> QED BY <1>1, <1>5, Zenon DEF t

\* A parser that has stopped has given the beginning of what the text says.
LEMMA StoppedSays ==
  ASSUME NEW t \in Seq(Char), NEW m \in 0..Len(t), NEW p, Follows(p, Reading(t)[m]), ~p.going, limit \in Nat
  PROVE  /\ Len(p.events) = limit /\ limit <= Len(Meaning(t))
         /\ \A i \in 1..limit : Meaning(t)[i] = p.events[i]
<1>1. p.events = Reading(t)[m].events /\ ~(Len(p.events) < limit) /\ Len(p.events) <= limit /\ p \in Parsers
  BY Zenon DEF Follows
<1>2. Len(p.events) = limit
  <2>1. p.events \in Seq(Seq(Char))
    BY <1>1 DEF Parsers
  <2>2. Len(p.events) \in Nat
    BY <2>1
  <2> DEFINE n == Len(p.events)
  <2> HIDE DEF n
  <2>3. n = limit
    BY <1>1, <2>2 DEF n
  <2> QED BY <2>3 DEF n
<1>3. Len(t) \in Nat /\ m \in Nat /\ Len(t) >= m
  OBVIOUS
<1>4. /\ Len(Reading(t)[m].events) <= Len(Reading(t)[Len(t)].events)
      /\ \A i \in 1..Len(Reading(t)[m].events) : Reading(t)[Len(t)].events[i] = Reading(t)[m].events[i]
  BY <1>3, SaidStaysSaid, Zenon
<1> QED BY <1>1, <1>2, <1>4, Zenon DEF Meaning

LEMMA FeedKeeps ==
  ASSUME SseInv, NEW n \in Nat, NEW bytes \in [1..n -> Char], feed(bytes)
  PROVE  SseInv'
<1> DEFINE t == received \o bytes
           all == buffer \o bytes
           r == Reading(received)[Len(received)]
           base == Len(received) - Len(r.line)
           q == Rounds(all, Parser)[Len(all)]
<1>0. /\ SseTypeOK /\ going /\ ~finished /\ Follows(Parser, r) /\ buffer = r.line
      /\ limit \in Nat /\ received \in Seq(Char) /\ buffer \in Seq(Char)
  <2>1. SseTypeOK /\ going /\ ~finished
    BY Zenon DEF SseInv, feed
  <2>2. Follows(Parser, r) /\ buffer = r.line
    BY <2>1, Zenon DEF SseInv, StreamReads
  <2>3. limit \in Limits /\ received \in Seq(Char) /\ buffer \in Seq(Char)
    BY <2>1, Zenon DEF SseTypeOK
  <2> QED BY <2>1, <2>2, <2>3, LimitType
<1>1. bytes \in Seq(Char)
  OBVIOUS
<1>2. /\ t \in Seq(Char) /\ Len(t) = Len(received) + Len(bytes)
      /\ \A i \in 1..(Len(received) + Len(bytes)) : t[i] = IF i <= Len(received) THEN received[i] ELSE bytes[i - Len(received)]
      /\ \A i \in 0..Len(received) : Reading(t)[i] = Reading(received)[i]
  BY <1>0, <1>1, ReadLonger, Zenon
<1>3. /\ all \in Seq(Char) /\ Len(all) = Len(buffer) + Len(bytes)
      /\ \A i \in 1..(Len(buffer) + Len(bytes)) : all[i] = IF i <= Len(buffer) THEN buffer[i] ELSE bytes[i - Len(buffer)]
  BY <1>0, <1>1, ConcatProperties, Zenon
<1>4. /\ base \in 0..Len(received)
      /\ \A i \in 1..Len(buffer) : received[base + i] = buffer[i]
      /\ Reading(received)[base] = [r EXCEPT !.line = <<>>]
  <2>1. Len(received) \in 0..Len(received)
    BY <1>0
  <2>2. /\ base \in 0..Len(received)
        /\ \A i \in 1..Len(r.line) : received[base + i] = r.line[i] /\ r.line[i] # "\n"
        /\ Reading(received)[base] = [r EXCEPT !.line = <<>>]
    BY <1>0, <2>1, LineIsTheRest, Zenon
  <2> QED BY <1>0, <2>2, Zenon
<1>5. r \in Readings
  BY <1>0, ReadingIs, LenProperties
<1>6. Len(received) \in Nat /\ Len(buffer) \in Nat /\ Len(bytes) \in Nat /\ base = Len(received) - Len(buffer)
  BY <1>0, <1>1
<1> HIDE DEF t, all, base
<1>7. base \in Nat /\ Len(t) = base + Len(all) /\ Len(all) \in Nat
  BY <1>2, <1>3, <1>4, <1>6
<1>8. \A i \in 1..Len(all) : t[base + i] = all[i]
  <2> SUFFICES ASSUME NEW i \in 1..Len(all) PROVE t[base + i] = all[i]
    OBVIOUS
  <2>1. CASE i <= Len(buffer)
    <3>1. i \in 1..Len(buffer) /\ base + i <= Len(received) /\ base + i \in 1..(Len(received) + Len(bytes))
          /\ i \in 1..(Len(buffer) + Len(bytes))
      BY <1>3, <1>6, <1>7, <2>1
    <3>2. t[base + i] = received[base + i] /\ all[i] = buffer[i]
      BY <1>2, <1>3, <2>1, <3>1, Zenon
    <3> QED BY <1>4, <3>1, <3>2, Zenon
  <2>2. CASE ~(i <= Len(buffer))
    <3>1. ~(base + i <= Len(received)) /\ base + i \in 1..(Len(received) + Len(bytes))
          /\ i \in 1..(Len(buffer) + Len(bytes)) /\ (base + i) - Len(received) = i - Len(buffer)
      BY <1>3, <1>6, <1>7, <2>2
    <3> DEFINE k == base + i
    <3> HIDE DEF k
    <3>2. t[k] = bytes[k - Len(received)]
      BY <1>2, <3>1 DEF k
    <3>3. all[i] = bytes[i - Len(buffer)]
      BY <1>3, <2>2, <3>1
    <3>4. t[base + i] = bytes[(base + i) - Len(received)] /\ all[i] = bytes[i - Len(buffer)]
      BY <3>2, <3>3 DEF k
    <3> QED BY <3>1, <3>4, Zenon
  <2> QED BY <2>1, <2>2
<1>9. Reading(t)[base].line = <<>> /\ Follows(Parser, Reading(t)[base])
  <2>1. Reading(t)[base] = [r EXCEPT !.line = <<>>]
    BY <1>2, <1>4, Zenon
  <2> DEFINE u == Reading(t)[base]
  <2> HIDE DEF r, u
  <2>2. u.line = <<>> /\ u.event = r.event /\ u.events = r.events
    BY <1>5, <2>1 DEF Readings, u
  <2> QED BY <1>0, <2>2, Zenon DEF Follows, u
<1> DEFINE u == Reading(t)[base + q.start]
<1>10. /\ q.start \in 0..Len(all) /\ Follows(q.p, u) /\ u.line = <<>>
       /\ q.p.going => Reading(t)[Len(t)] = [u EXCEPT !.line = SubSeq(all, q.start + 1, Len(all))]
  <2>1. Shifted(t, base, all)
    BY <1>8 DEF Shifted
  <2>2. LoopRead(t, base, all, q)
    BY <1>0, <1>2, <1>3, <1>7, <1>9, <2>1, LoopReads, Zenon
  <2> QED BY <2>2, Zenon DEF LoopRead
<1>11. q.p \in Parsers /\ u \in Readings /\ base + q.start \in 0..Len(t) /\ q.start \in Nat /\ q.start <= Len(all)
  <2>1. q.p \in Parsers
    BY <1>10, Zenon DEF Follows
  <2> DEFINE s == q.start
  <2>2. s \in 0..Len(all)
    BY <1>10
  <2> HIDE DEF s, q
  <2>3. base + s \in 0..Len(t) /\ base + s \in Nat /\ s \in Nat /\ s <= Len(all)
    BY <1>7, <2>2
  <2>4. Reading(t)[base + s] \in Readings
    BY <1>2, <2>3, ReadingIs, Zenon
  <2> QED BY <2>1, <2>3, <2>4 DEF s
<1>12. /\ data' = q.p.data /\ has_data' = q.p.has_data /\ events' = q.p.events /\ going' = q.p.going
       /\ buffer' = SubSeq(all, q.start + 1, Len(all))
       /\ received' = t /\ limit' = limit /\ finished' = finished
  BY Zenon DEF feed, Becomes, Erased, t, all
<1> HIDE DEF q, r, u
<1>13. Parser' = q.p
  <2>1. Parser' = [data |-> q.p.data, has_data |-> q.p.has_data, events |-> q.p.events, going |-> q.p.going]
    BY <1>12 DEF Parser
  <2> QED BY <1>11, <2>1 DEF Parsers
<1>14. SubSeq(all, q.start + 1, Len(all)) \in Seq(Char)
  <2>1. Len(all) <= Len(all)
    BY <1>7
  <2> QED BY <1>3, <1>7, <1>11, <2>1, PartIs, Zenon DEF IsPart
<1>15. SseTypeOK'
  <2>1. q.p.data \in Seq(Char) /\ q.p.has_data \in BOOLEAN /\ q.p.events \in Seq(Seq(Char)) /\ q.p.going \in BOOLEAN
    BY <1>11 DEF Parsers
  <2>2. ~q.p.has_data => q.p.data = <<>>
    BY <1>10, Zenon DEF Follows
  <2> QED BY <1>0, <1>2, <1>12, <1>14, <2>1, <2>2 DEF SseTypeOK
<1>16. ~finished' /\ Text' = t
  <2>1. ~finished'
    BY <1>0, <1>12, Zenon
  <2>2. Text' = received' \o <<>>
    BY <2>1 DEF Text
  <2>3. t \o <<>> = t
    BY <1>2
  <2> QED BY <1>12, <2>1, <2>2, <2>3, Zenon
<1>17. StreamReads'
  <2> SUFFICES ASSUME going'
               PROVE  /\ Follows(Parser, Reading(received)[Len(received)])'
                      /\ buffer' = Reading(received')[Len(received')].line
    BY DEF StreamReads
  <2> DEFINE v == Reading(t)[Len(t)]
  <2>1. v = [u EXCEPT !.line = SubSeq(all, q.start + 1, Len(all))]
    BY <1>10, <1>12, Zenon
  <2> HIDE DEF v
  <2>2. v.line = SubSeq(all, q.start + 1, Len(all)) /\ v.event = u.event /\ v.events = u.events
    BY <1>11, <2>1 DEF Readings
  <2>3. Follows(q.p, v)
    BY <1>10, <2>2, Zenon DEF Follows
  <2>4. Follows(Parser, Reading(received)[Len(received)])'
    BY <1>12, <1>13, <2>3, Zenon DEF Follows, v
  <2> QED BY <1>12, <2>2, <2>4, Zenon DEF v
<1>18. Complete'
  BY <1>16, Zenon DEF Complete
<1>19. Stopped'
  <2> SUFFICES ASSUME ~going' PROVE /\ Len(events') = limit'
                                    /\ limit' <= Len(Meaning(Text'))
                                    /\ \A i \in 1..limit' : Meaning(Text')[i] = events'[i]
    BY DEF Stopped
  <2>1. /\ Len(q.p.events) = limit /\ limit <= Len(Meaning(t))
        /\ \A i \in 1..limit : Meaning(t)[i] = q.p.events[i]
    <3> DEFINE m == base + q.start
    <3>1. t \in Seq(Char) /\ m \in 0..Len(t) /\ Follows(q.p, Reading(t)[m]) /\ ~q.p.going /\ limit \in Nat
      BY <1>0, <1>2, <1>10, <1>11, <1>12, Zenon DEF u
    <3> HIDE DEF m
    <3> QED BY <3>1, StoppedSays, Zenon
  <2> QED BY <1>12, <1>16, <2>1, Zenon
<1> QED BY <1>15, <1>17, <1>18, <1>19, Zenon DEF SseInv

LEMMA FinishKeeps ==
  ASSUME SseInv, finish
  PROVE  SseInv'
<1> DEFINE two == <<"\n", "\n">>
           t == received \o two
           m == Len(received)
           r == Reading(received)[m]
           R(i) == Reading(t)[i]
           flushed == IF buffer = <<>> THEN Parser ELSE process_line(Parser, Chomp(buffer))
           p == IF flushed.going THEN dispatch(flushed) ELSE flushed
<1>0. /\ SseTypeOK /\ going /\ ~finished /\ Follows(Parser, r) /\ buffer = r.line
      /\ limit \in Nat /\ received \in Seq(Char) /\ m \in Nat
  <2>1. SseTypeOK /\ going /\ ~finished
    BY Zenon DEF SseInv, finish
  <2>2. Follows(Parser, r) /\ buffer = r.line
    BY <2>1, Zenon DEF SseInv, StreamReads
  <2>3. limit \in Limits /\ received \in Seq(Char) /\ buffer \in Seq(Char)
    BY <2>1, Zenon DEF SseTypeOK
  <2> QED BY <2>1, <2>2, <2>3, LimitType
<1>1. two \in Seq(Char) /\ Len(two) = 2 /\ two[1] = "\n" /\ two[2] = "\n"
  BY DEF Char
<1> HIDE DEF two
<1>2. /\ t \in Seq(Char) /\ Len(t) = m + Len(two)
      /\ \A i \in 1..(m + Len(two)) : t[i] = IF i <= m THEN received[i] ELSE two[i - m]
      /\ \A i \in 0..m : R(i) = Reading(received)[i]
  BY <1>0, <1>1, ReadLonger, Zenon
<1>3. r \in Readings
  BY <1>0, ReadingIs, Zenon
<1> HIDE DEF t, m
<1>4. /\ Len(t) = m + 2 /\ t[m + 1] = "\n" /\ t[m + 2] = "\n" /\ m \in 0..m /\ m \in Nat /\ m + 1 \in Nat /\ m + 1 + 1 = m + 2
      /\ ~(m + 1 > Len(t)) /\ ~(m + 2 > Len(t)) /\ m + 1 \in 0..Len(t) /\ m + 2 \in 0..Len(t)
  <2>1. Len(t) = m + 2
    BY <1>1, <1>2
  <2>2. /\ m + 1 \in 1..(m + Len(two)) /\ m + 2 \in 1..(m + Len(two)) /\ ~(m + 1 <= m) /\ ~(m + 2 <= m)
        /\ (m + 1) - m = 1 /\ (m + 2) - m = 2
    BY <1>0, <1>1
  <2>3. t[m + 1] = "\n" /\ t[m + 2] = "\n"
    BY <1>1, <1>2, <2>2, Zenon
  <2>4. /\ m \in 0..m /\ m \in Nat /\ m + 1 \in Nat /\ m + 1 + 1 = m + 2 /\ ~(m + 1 > m + 2) /\ ~(m + 2 > m + 2)
        /\ m + 1 \in 0..(m + 2) /\ m + 2 \in 0..(m + 2)
    BY <1>0
  <2> QED BY <2>1, <2>3, <2>4, Zenon
<1>5. R(m) = r /\ R(m + 1) = Ended(r) /\ R(m + 2) = Ended(Ended(r))
  <2>1. R(m) = r
    BY <1>2, <1>4, Zenon
  <2>2. R(m + 1) = ReadNext(t, R(m), m) /\ R(m + 1 + 1) = ReadNext(t, R(m + 1), m + 1)
    BY <1>2, <1>4, ReadingIs, Zenon
  <2>3. R(m + 1) = Ended(r)
    BY <1>4, <2>1, <2>2, Zenon DEF ReadNext
  <2>4. ReadNext(t, R(m + 1), m + 1) = Ended(R(m + 1))
    BY <1>4, Zenon DEF ReadNext
  <2> QED BY <1>4, <2>1, <2>2, <2>3, <2>4, Zenon
<1> DEFINE e == Ended(r)
           z == Ended(e)
<1> HIDE DEF r, R
<1>6. e \in Readings /\ e.line = <<>> /\ z = [line |-> <<>>, event |-> <<>>, events |-> e.events \o e.event]
  <2>1. e \in Readings /\ e.line = <<>>
    BY <1>3, EndedType, EndedFacts, Zenon
  <2> HIDE DEF e
  <2>2. Stripped(e.line) = <<>>
    BY <2>1, Zenon DEF Stripped, Ends
  <2>3. z = [line |-> <<>>, event |-> <<>>, events |-> e.events \o e.event]
    BY <2>2, EndedEmpty, Zenon
  <2> QED BY <2>1, <2>3
<1> HIDE DEF z
<1>7. Parser.going
  BY <1>0 DEF Parser
<1>8. Follows(p, z) \/ (Follows(p, e) /\ ~p.going)
  <2>1. CASE buffer = <<>>
    <3>1. p = dispatch(Parser)
      BY <1>7, <2>1, Zenon
    <3>2. Stripped(r.line) = <<>>
      BY <1>0, <2>1, Zenon DEF Stripped, Ends
    <3>3. e = [line |-> <<>>, event |-> <<>>, events |-> r.events \o r.event]
      BY <3>2, EndedEmpty, Zenon
    <3> HIDE DEF p, e
    <3>4. Follows(p, e)
      BY <1>0, <1>3, <1>7, <3>1, <3>3, Dispatched, Zenon
    <3>5. e.event = <<>> /\ e.events \in Seq(Seq(Char))
      BY <1>6, <3>3 DEF Readings
    <3>6. z.event = e.event /\ z.events = e.events
      <4>1. e.events \o <<>> = e.events
        BY <3>5
      <4> QED BY <1>6, <3>5, <4>1
    <3> QED BY <3>4, <3>6, Zenon DEF Follows
  <2>2. CASE buffer # <<>>
    <3>1. flushed = process_line(Parser, Chomp(r.line))
      BY <1>0, <2>2, Zenon
    <3>2. Follows(process_line(Parser, Chomp(r.line)), e)
      BY <1>0, <1>3, <1>7, Processed, Zenon
    <3>3. Follows(flushed, e)
      BY <3>1, <3>2, Zenon
    <3> HIDE DEF flushed, e
    <3>4. CASE flushed.going
      <4>1. Follows(dispatch(flushed), z)
        BY <1>0, <1>6, <3>3, <3>4, Dispatched, Zenon
      <4> QED BY <3>4, <4>1, Zenon
    <3>5. CASE ~flushed.going
      BY <3>3, <3>5, Zenon
    <3> QED BY <3>4, <3>5
  <2> QED BY <2>1, <2>2
<1>9. /\ data' = p.data /\ has_data' = p.has_data /\ events' = p.events /\ going' = p.going
      /\ buffer' = <<>> /\ received' = received /\ limit' = limit /\ finished' = TRUE
  BY Zenon DEF finish, Becomes
<1>10. p \in Parsers /\ (~p.has_data => p.data = <<>>)
  <2> HIDE DEF p
  <2> QED BY <1>8, Zenon DEF Follows
<1> HIDE DEF p, e
<1>11. SseTypeOK'
  <2>1. p.data \in Seq(Char) /\ p.has_data \in BOOLEAN /\ p.events \in Seq(Seq(Char)) /\ p.going \in BOOLEAN
    BY <1>10 DEF Parsers
  <2> QED BY <1>0, <1>9, <1>10, <2>1 DEF SseTypeOK
<1>12. Text' = t
  BY <1>9 DEF Text, t, two
<1>13. Meaning(t) = z.events
  <2>1. R(Len(t)) = z
    BY <1>4, <1>5, Zenon DEF z, e
  <2> QED BY <2>1, Zenon DEF Meaning, R
<1>14. StreamReads'
  BY <1>9, Zenon DEF StreamReads
<1>15. Complete'
  <2> SUFFICES ASSUME going' PROVE events' = Meaning(Text') /\ Len(events') < limit'
    BY DEF Complete
  <2>1. Follows(p, z)
    BY <1>8, <1>9, Zenon
  <2>2. p.events = z.events /\ Len(p.events) < limit
    BY <1>9, <2>1, Zenon DEF Follows
  <2> QED BY <1>9, <1>12, <1>13, <2>2, Zenon
<1>16. Stopped'
  <2> SUFFICES ASSUME ~going' PROVE /\ Len(events') = limit'
                                    /\ limit' <= Len(Meaning(Text'))
                                    /\ \A i \in 1..limit' : Meaning(Text')[i] = events'[i]
    BY DEF Stopped
  <2>1. R(m + 1) = e /\ R(m + 2) = z
    BY <1>5, Zenon DEF e, z
  <2>2. PICK k \in 0..Len(t) : Follows(p, Reading(t)[k])
    <3>1. CASE Follows(p, z)
      BY <1>4, <2>1, <3>1, Zenon DEF R
    <3>2. CASE Follows(p, e)
      BY <1>4, <2>1, <3>2, Zenon DEF R
    <3> QED BY <1>8, <3>1, <3>2, Zenon
  <2>3. /\ Len(p.events) = limit /\ limit <= Len(Meaning(t))
        /\ \A i \in 1..limit : Meaning(t)[i] = p.events[i]
    BY <1>0, <1>2, <1>9, <2>2, StoppedSays, Zenon
  <2> QED BY <1>9, <1>12, <2>3, Zenon
<1> QED BY <1>11, <1>14, <1>15, <1>16, Zenon DEF SseInv

LEMMA SseInvariant == SseSpec => []SseInv
<1>1. SseInit => SseInv
  BY InitSse
<1>2. SseInv /\ [SseNext]_sseVars => SseInv'
  <2> SUFFICES ASSUME SseInv, [SseNext]_sseVars PROVE SseInv'
    OBVIOUS
  <2>1. ASSUME Feed PROVE SseInv'
    <3>1. PICK n \in 1..MaxPiece : \E bytes \in [1..n -> Char] : feed(bytes)
      BY <2>1, Zenon DEF Feed
    <3>2. PICK bytes \in [1..n -> Char] : feed(bytes)
      BY <3>1
    <3>3. n \in Nat
      OBVIOUS
    <3> QED BY <3>2, <3>3, FeedKeeps, Zenon
  <2>2. ASSUME finish PROVE SseInv'
    BY <2>2, FinishKeeps
  <2>3. CASE UNCHANGED sseVars
    <3>1. /\ buffer' = buffer /\ data' = data /\ has_data' = has_data /\ events' = events /\ going' = going
          /\ limit' = limit /\ received' = received /\ finished' = finished
      BY <2>3 DEF sseVars
    <3>2. SseTypeOK'
      BY <3>1 DEF SseInv, SseTypeOK
    <3>3. Parser' = Parser /\ Text' = Text
      BY <3>1 DEF Parser, Text
    <3>4. StreamReads'
      BY <3>1, <3>3, Zenon DEF SseInv, StreamReads, Follows
    <3>5. Complete'
      BY <3>1, <3>3, Zenon DEF SseInv, Complete
    <3>6. Stopped'
      BY <3>1, <3>3, Zenon DEF SseInv, Stopped
    <3> QED BY <3>2, <3>4, <3>5, <3>6 DEF SseInv
  <2> QED BY <2>1, <2>2, <2>3 DEF SseNext
<1> QED BY <1>1, <1>2, PTL DEF SseSpec

LEMMA SseInvImplies == SseInv => CutsDoNotMatter /\ OnlyTheUnfinishedIsKept
<1> SUFFICES ASSUME SseInv PROVE CutsDoNotMatter /\ OnlyTheUnfinishedIsKept
  OBVIOUS
<1> DEFINE meaning == Meaning(Text)
<1>0. /\ limit \in Nat /\ limit >= 1 /\ received \in Seq(Char) /\ Text \in Seq(Char) /\ meaning \in Seq(Seq(Char))
      /\ events \in Seq(Seq(Char)) /\ (~finished => Text = received)
  <2>1. limit \in Limits /\ received \in Seq(Char) /\ events \in Seq(Seq(Char)) /\ finished \in BOOLEAN
    BY DEF SseInv, SseTypeOK
  <2>2. finished => Text = received \o <<"\n", "\n">>
    BY DEF Text
  <2>3. <<"\n", "\n">> \in Seq(Char)
    BY DEF Char
  <2>4. ~finished => Text = received
    <3>1. ~finished => Text = received \o <<>>
      BY DEF Text
    <3>2. received \o <<>> = received
      BY <2>1
    <3> QED BY <3>1, <3>2, Zenon
  <2> DEFINE two == <<"\n", "\n">>
  <2> HIDE DEF two
  <2>5. received \o two \in Seq(Char)
    <3>1. two \in Seq(Char)
      BY <2>3 DEF two
    <3> QED BY <2>1, <3>1, ConcatProperties, Zenon
  <2>6. Text \in Seq(Char)
    BY <2>1, <2>2, <2>4, <2>5, Zenon DEF two
  <2>7. Reading(Text)[Len(Text)] \in Readings
    BY <2>6, ReadingIs, LenProperties, Zenon
  <2>8. meaning \in Seq(Seq(Char))
    BY <2>7 DEF Meaning, Readings
  <2>9. limit \in Nat /\ limit >= 1
    BY <2>1, LimitType
  <2> QED BY <2>1, <2>4, <2>6, <2>8, <2>9, Zenon
<1>1. ASSUME going, ~finished
      PROVE  /\ events = meaning /\ Len(events) < limit
             /\ buffer = Reading(received)[Len(received)].line
             /\ (IF has_data THEN <<data>> ELSE <<>>) = Reading(received)[Len(received)].event
  <2> DEFINE r == Reading(received)[Len(received)]
  <2>1. Follows(Parser, r) /\ buffer = r.line
    BY <1>1, Zenon DEF SseInv, StreamReads
  <2>2. Kept(Parser) = r.event /\ Parser.events = r.events /\ (Parser.going <=> Len(Parser.events) < limit)
    BY <2>1, Zenon DEF Follows
  <2>3. Parser.events = events /\ Parser.going = going /\ Parser.data = data /\ Parser.has_data = has_data
    BY DEF Parser
  <2>4. events = meaning
    BY <1>0, <1>1, <2>2, <2>3, Zenon DEF Meaning
  <2>5. Len(events) < limit
    BY <1>1, <2>2, <2>3, Zenon
  <2>6. Kept(Parser) = (IF has_data THEN <<data>> ELSE <<>>)
    BY <2>3, Zenon DEF Kept
  <2> QED BY <2>1, <2>2, <2>4, <2>5, <2>6, Zenon
<1>2. OnlyTheUnfinishedIsKept
  BY <1>1, Zenon DEF OnlyTheUnfinishedIsKept
<1> HIDE DEF meaning
<1>3. Len(events) \in Nat /\ Len(meaning) \in Nat
  BY <1>0
<1>4. CASE going
  <2>1. events = meaning /\ Len(events) < limit
    <3>1. CASE finished
      BY <1>4, <3>1, Zenon DEF SseInv, Complete, meaning
    <3>2. CASE ~finished
      BY <1>1, <1>4, <3>2, Zenon
    <3> QED BY <3>1, <3>2
  <2>2. SubSeq(meaning, 1, Len(meaning)) = meaning
    BY <1>0
  <2>3. (IF Len(meaning) < limit THEN Len(meaning) ELSE limit) = Len(meaning)
    BY <2>1
  <2>4. events = SubSeq(meaning, 1, IF Len(meaning) < limit THEN Len(meaning) ELSE limit)
    BY <2>1, <2>2, <2>3
  <2>5. going <=> Len(events) < limit
    BY <1>4, <2>1, Zenon
  <2> QED BY <1>2, <2>4, <2>5, Zenon DEF CutsDoNotMatter, meaning
<1>5. CASE ~going
  <2>1. Len(events) = limit /\ limit <= Len(meaning) /\ \A i \in 1..limit : meaning[i] = events[i]
    BY <1>5, Zenon DEF SseInv, Stopped, meaning
  <2>2. /\ SubSeq(meaning, 0 + 1, limit) \in Seq(Seq(Char)) /\ Len(SubSeq(meaning, 0 + 1, limit)) = limit - 0
        /\ \A i \in 1..(limit - 0) : SubSeq(meaning, 0 + 1, limit)[i] = meaning[0 + i]
    BY <1>0, <2>1, Part
  <2> DEFINE x == SubSeq(meaning, 0 + 1, limit)
  <2> HIDE DEF x
  <2>3. x \in Seq(Seq(Char)) /\ Len(x) = limit /\ \A i \in 1..limit : x[i] = events[i]
    BY <1>0, <2>1, <2>2 DEF x
  <2>4. x = events
    BY <1>0, <2>1, <2>3, SeqEqual
  <2>5. SubSeq(meaning, 1, limit) = events
    <3>1. 0 + 1 = 1
      OBVIOUS
    <3> QED BY <2>4, <3>1 DEF x
  <2>6. ~(Len(meaning) < limit) /\ ~(Len(events) < limit)
    BY <1>0, <1>3, <2>1
  <2>7. (IF Len(meaning) < limit THEN Len(meaning) ELSE limit) = limit
    BY <2>6
  <2>8. events = SubSeq(meaning, 1, IF Len(meaning) < limit THEN Len(meaning) ELSE limit)
    BY <2>5, <2>7
  <2>9. going <=> Len(events) < limit
    BY <1>5, <2>6, Zenon
  <2> QED BY <1>2, <2>8, <2>9, Zenon DEF CutsDoNotMatter, meaning
<1> QED BY <1>2, <1>4, <1>5

\* SseParser, for every stream, however it is cut, and every handler: feed() and finish() have
\* given the handler exactly the events that the text received so far says, read as one whole,
\* and none after the one at which it said stop.
THEOREM StreamsAreRead == SseSpec => []CutsDoNotMatter
BY SseInvariant, SseInvImplies, PTL

\* SseParser, for every stream: between two calls of feed() the buffers hold the unfinished
\* line and the unfinished event, and nothing else of what has been received.
THEOREM StreamsAreNotKept == SseSpec => []OnlyTheUnfinishedIsKept
BY SseInvariant, SseInvImplies, PTL

---------------------------------------------------------------------------
(* find_code_blocks() and extract_cpp_source(). *)

Line == Replies!Lines
Blocks == [language : Replies!Words, code : Seq(Line), terminated : BOOLEAN]
\* What a round of find_code_blocks() knows: every block that is stored has been closed.
Closed == [language : Replies!Words, code : Seq(Line), terminated : {TRUE}]
Founds == {r \in [blocks : Seq(Closed), open : Line, code : Seq(Line)] :
              r.open = Replies!NoFence \/ Replies!parse_fence(r.open)}

LEMMA LanguageType ==
  ASSUME NEW x \in Line PROVE Replies!Language(x) \in Replies!Words
<1>1. x.info \in Replies!Words
  BY DEF Line, Replies!Lines
<1>2. "" \in Replies!Words
  BY Zenon DEF Replies!Words
<1> QED BY <1>1, <1>2, Zenon DEF Replies!Language

LEMMA StepType ==
  ASSUME NEW r \in Founds, NEW x \in Line PROVE Replies!Step(r, x) \in Founds
<1>1. Append(r.code, x) \in Seq(Line)
  BY DEF Founds
<1>2. Append(r.blocks, Replies!Block(Replies!Language(r.open), r.code, TRUE))
        \in Seq(Closed)
  <2>0. r.blocks \in Seq(Closed) /\ r.open \in Line /\ r.code \in Seq(Line)
    BY DEF Founds
  <2>1. r.blocks \in Seq(Closed) /\ Replies!Language(r.open) \in Replies!Words /\ r.code \in Seq(Line)
    BY <2>0, LanguageType, Zenon
  <2> DEFINE b == Replies!Block(Replies!Language(r.open), r.code, TRUE)
  <2>2. b \in Closed
    BY <2>1 DEF Closed, Replies!Block
  <2> HIDE DEF b
  <2>3. Append(r.blocks, b) \in Seq(Closed)
    BY <2>1, <2>2
  <2> QED BY <2>3 DEF b
<1>3. Replies!NoFence \in Line
  BY DEF Line, Replies!Lines, Replies!Words, Replies!NoFence, Replies!Text
<1>4. <<>> \in Seq(Line)
  OBVIOUS
<1> QED BY <1>1, <1>2, <1>3, <1>4 DEF Replies!Step, Founds

LEMMA StartType == Replies!Start \in Founds
<1>1. Replies!NoFence \in Line
  BY DEF Line, Replies!Lines, Replies!Words, Replies!NoFence, Replies!Text
<1> QED BY <1>1 DEF Replies!Start, Founds

LEMMA RoundsAreSteps ==
  ASSUME NEW s \in Seq(Line)
  PROVE  /\ Replies!Rounds(s) \in [0..Len(s) -> Founds]
         /\ Replies!Rounds(s)[0] = Replies!Start
         /\ \A n \in 1..Len(s) : Replies!Rounds(s)[n] = Replies!Step(Replies!Rounds(s)[n - 1], s[n])
<1> DEFINE D == [p \in Founds \X (1..Len(s)) |-> Replies!Step(p[1], s[p[2]])]
           Is(f) == f = [n \in 0..Len(s) |->
                            IF n = 0 THEN Replies!Start ELSE Replies!Step(f[n - 1], s[n])]
           rounds == CHOOSE f : Is(f)
<1>0. Len(s) \in Nat
  OBVIOUS
<1>1. D \in [Founds \X (1..Len(s)) -> Founds]
  <2> SUFFICES ASSUME NEW r \in Founds, NEW n \in 1..Len(s) PROVE Replies!Step(r, s[n]) \in Founds
    OBVIOUS
  <2>1. s[n] \in Line
    OBVIOUS
  <2> QED BY <2>1, StepType
<1>2. PICK g \in [0..Len(s) -> Founds] :
             Iterates(g, Replies!Start, Len(s), D)
  <2> HIDE DEF D
  <2> QED BY <1>0, <1>1, StartType, RecursiveUpTo, Zenon
<1>3. ASSUME NEW n \in 1..Len(s) PROVE g[n] = Replies!Step(g[n - 1], s[n])
  <2>1. n - 1 \in 0..Len(s)
    BY <1>0
  <2>2. g[n - 1] \in Founds
    BY <2>1
  <2> QED BY <1>2, <2>2 DEF Iterates
<1>4. Is(g)
  <2>1. \A n \in 0..Len(s) : n # 0 => n \in 1..Len(s)
    BY <1>0
  <2> QED BY <1>2, <1>3, <2>1 DEF Iterates
<1> HIDE DEF Is
<1>5. Is(rounds)
  BY <1>4
<1> HIDE DEF rounds
<1>6. Replies!Rounds(s) = rounds
  BY DEF Replies!Rounds, rounds, Is
<1>7. rounds[0] = Replies!Start
  BY <1>0, <1>5 DEF Is
<1>8. ASSUME NEW n \in 1..Len(s) PROVE rounds[n] = Replies!Step(rounds[n - 1], s[n])
  <2>1. n \in 0..Len(s) /\ n # 0
    BY <1>0
  <2> QED BY <1>5, <2>1 DEF Is
<1>9. \A n \in 0..Len(s) : rounds[n] \in Founds
  <2> DEFINE T == {n \in 0..Len(s) : rounds[n] \in Founds}
  <2>1. 0 \in T
    BY <1>0, <1>7, StartType
  <2>2. ASSUME NEW n \in 1..Len(s), n - 1 \in T PROVE n \in T
    <3>1. s[n] \in Line /\ rounds[n - 1] \in Founds /\ n \in 0..Len(s)
      BY <1>0, <2>2
    <3> QED BY <3>1, <1>8, StepType
  <2>3. T \in SUBSET (0..Len(s))
    OBVIOUS
  <2> HIDE DEF T
  <2>4. T = 0..Len(s)
    BY <1>0, <2>1, <2>2, <2>3, IndUpTo
  <2> QED BY <2>4 DEF T
<1>10. rounds \in [0..Len(s) -> Founds]
  <2>1. rounds = [n \in 0..Len(s) |->
                     IF n = 0 THEN Replies!Start ELSE Replies!Step(rounds[n - 1], s[n])]
    BY <1>5 DEF Is
  <2> QED BY <2>1, <1>9
<1> QED BY <1>6, <1>7, <1>8, <1>10

\* A reply is read line by line, so what comes later changes nothing.
LEMMA RoundsAlike ==
  ASSUME NEW s \in Seq(Line), NEW t \in Seq(Line), Len(s) <= Len(t), \A i \in 1..Len(s) : s[i] = t[i]
  PROVE  \A n \in 0..Len(s) : Replies!Rounds(s)[n] = Replies!Rounds(t)[n]
<1> DEFINE T == {n \in 0..Len(s) : Replies!Rounds(s)[n] = Replies!Rounds(t)[n]}
<1>0. Len(s) \in Nat /\ Len(t) \in Nat
  OBVIOUS
<1>1. 0 \in T
  BY <1>0, RoundsAreSteps
<1>2. ASSUME NEW n \in 1..Len(s), n - 1 \in T PROVE n \in T
  <2>1. n \in 1..Len(t) /\ n \in 0..Len(s) /\ s[n] = t[n]
    BY <1>0
  <2>2. Replies!Rounds(s)[n - 1] = Replies!Rounds(t)[n - 1]
    BY <1>2
  <2>3. /\ Replies!Rounds(s)[n] = Replies!Step(Replies!Rounds(s)[n - 1], s[n])
        /\ Replies!Rounds(t)[n] = Replies!Step(Replies!Rounds(t)[n - 1], t[n])
    BY <2>1, RoundsAreSteps
  <2> QED BY <2>1, <2>2, <2>3
<1>3. T \in SUBSET (0..Len(s))
  OBVIOUS
<1> HIDE DEF T
<1>4. T = 0..Len(s)
  BY <1>0, <1>1, <1>2, <1>3, IndUpTo
<1> QED BY <1>4 DEF T

LEMMA Appended ==
  ASSUME NEW S, NEW s \in Seq(S), NEW x \in S
  PROVE  /\ Append(s, x) \in Seq(S) /\ Append(s, x) # <<>>
         /\ Replies!Front(Append(s, x)) = s /\ Replies!Last(Append(s, x)) = x
<1> DEFINE y == Append(s, x)
           f == SubSeq(y, 1, Len(y) - 1)
<1>1. /\ y \in Seq(S) /\ Len(y) = Len(s) + 1 /\ Len(s) \in Nat
      /\ y[Len(y)] = x /\ \A i \in 1..Len(s) : y[i] = s[i]
  OBVIOUS
<1> HIDE DEF y
<1>2. f \in Seq(S) /\ Len(f) = Len(s) /\ \A i \in 1..Len(s) : f[i] = s[i]
  BY <1>1
<1> HIDE DEF f
<1>3. f = s
  BY <1>2, SeqEqual
<1> QED BY <1>1, <1>3 DEF Replies!Front, Replies!Last, f, y

LEMMA FenceIsNoNoFence == ASSUME NEW x \in Line, Replies!parse_fence(x) PROVE x # Replies!NoFence
<1>1. x \in [ch : {"", "tick", "tilde"}, length : Nat, info : Replies!Words]
  BY DEF Line, Replies!Lines
<1>2. x.length >= 3
  BY DEF Replies!parse_fence
<1>3. Replies!NoFence.length = 0
  BY DEF Replies!NoFence, Replies!Text
<1>4. ASSUME x = Replies!NoFence PROVE FALSE
  <2>1. x.length = 0
    BY <1>3, <1>4, Zenon
  <2>2. x.length \in Nat
    BY <1>1
  <2> QED BY <1>2, <2>1, <2>2
<1> QED BY <1>4

LEMMA ClosingIsFence ==
  ASSUME NEW x \in Line, NEW open \in Line, Replies!parse_fence(open), Replies!is_closing(x, open)
  PROVE  Replies!parse_fence(x)
<1>1. x.length \in Nat /\ open.length \in Nat
  BY DEF Line, Replies!Lines
<1>2. x.length >= open.length /\ open.length >= 3
  BY Zenon DEF Replies!is_closing, Replies!parse_fence
<1>3. x.length >= 3
  BY <1>1, <1>2
<1> QED BY <1>3, Zenon DEF Replies!parse_fence

\* What closing a block, and a line more, make of one that is cut off.
Closes(cut, block) == cut.terminated = FALSE /\ [cut EXCEPT !.terminated = TRUE] = block
Grows(cut, x, block) == [cut EXCEPT !.code = Append(@, x)] = block

LEMMA BlockChanges ==
  ASSUME NEW S, NEW info \in S, NEW T, NEW code \in Seq(T), NEW x \in T
  PROVE  /\ Closes(Replies!Block(info, code, FALSE), Replies!Block(info, code, TRUE))
         /\ Grows(Replies!Block(info, code, FALSE), x, Replies!Block(info, Append(code, x), FALSE))
<1> DEFINE longer == Append(code, x)
           C == Seq(T)
<1>1. longer \in C /\ code \in C
  OBVIOUS
<1> HIDE DEF longer, C
<1>2. ASSUME NEW b \in BOOLEAN, NEW d \in BOOLEAN
      PROVE  /\ Replies!Block(info, code, b).terminated = b
             /\ Replies!Block(info, code, b).code = code
             /\ [Replies!Block(info, code, b) EXCEPT !.terminated = d] = Replies!Block(info, code, d)
             /\ [Replies!Block(info, code, b) EXCEPT !.code = longer] = Replies!Block(info, longer, b)
  BY <1>1 DEF Replies!Block
<1>3. TRUE \in BOOLEAN /\ FALSE \in BOOLEAN
  OBVIOUS
<1>4. Closes(Replies!Block(info, code, FALSE), Replies!Block(info, code, TRUE))
  BY <1>2, <1>3, Zenon DEF Closes
<1>5. Grows(Replies!Block(info, code, FALSE), x, Replies!Block(info, Append(code, x), FALSE))
  BY <1>2, <1>3, Zenon DEF Grows, longer
<1> QED BY <1>4, <1>5

\* What a reply says with one more line.
OneMore(before, after, x) ==
    LET outside == before = <<>> \/ Replies!Last(before).terminated
        Now(block) == Append(Replies!Front(before), block)
    IN  /\ outside /\ Replies!parse_fence(x) =>
               after = Append(before, Replies!Block(Replies!Language(x), <<>>, FALSE))
        /\ outside /\ ~Replies!parse_fence(x) => after = before
        /\ ~outside =>
               \/ after = Now([Replies!Last(before) EXCEPT !.code = Append(@, x)])
               \/ /\ after = Now([Replies!Last(before) EXCEPT !.terminated = TRUE])
                  /\ Replies!parse_fence(x)

LEMMA OneMoreLine ==
  ASSUME NEW r \in Founds, NEW x \in Line,
         NEW before, before = Replies!Truncated(r),
         NEW after, after = Replies!Truncated(Replies!Step(r, x))
  PROVE  OneMore(before, after, x)
<1> DEFINE q == Replies!Step(r, x)
<1>0. /\ r.blocks \in Seq(Closed) /\ r.open \in Line /\ r.code \in Seq(Line)
      /\ r.open = Replies!NoFence \/ Replies!parse_fence(r.open)
  BY DEF Founds
<1>1. CASE r.open = Replies!NoFence
  <2>1. before = r.blocks
    BY <1>1, Zenon DEF Replies!Truncated
  <2>2. before = <<>> \/ Replies!Last(before).terminated
    <3>1. ASSUME r.blocks # <<>> PROVE r.blocks[Len(r.blocks)].terminated = TRUE
      <4>1. r.blocks[Len(r.blocks)] \in Closed
        BY <1>0, <3>1
      <4> QED BY <4>1 DEF Closed
    <3> QED BY <2>1, <3>1, Zenon DEF Replies!Last
  <2>3. CASE Replies!parse_fence(x)
    <3>1. q = [r EXCEPT !.open = x, !.code = <<>>]
      BY <1>1, <2>3, Zenon DEF Replies!Step
    <3>2. x # Replies!NoFence
      BY <2>3, FenceIsNoNoFence, Zenon
    <3>3. q.open = x /\ q.code = <<>> /\ q.blocks = r.blocks
      BY <3>1 DEF Founds
    <3> HIDE DEF q
    <3>4. Replies!Truncated(q) = Append(r.blocks, Replies!Block(Replies!Language(x), <<>>, FALSE))
      BY <3>2, <3>3, Zenon DEF Replies!Truncated
    <3> QED BY <2>1, <2>2, <2>3, <3>4, Zenon DEF q, OneMore
  <2>4. CASE ~Replies!parse_fence(x)
    <3>1. q = r
      BY <1>1, <2>4, Zenon DEF Replies!Step
    <3> QED BY <2>2, <2>4, <3>1, Zenon DEF OneMore
  <2> QED BY <2>3, <2>4, Zenon
<1>2. CASE r.open # Replies!NoFence
  <2> DEFINE b == [language |-> Replies!Language(r.open), code |-> r.code, terminated |-> FALSE]
  <2>0. b \in Blocks /\ r.blocks \in Seq(Blocks) /\ Replies!Language(r.open) \in Replies!Words
    <3>1. Replies!Language(r.open) \in Replies!Words
      BY <1>0, LanguageType, Zenon
    <3>2. b \in Blocks
      BY <1>0, <3>1 DEF Blocks
    <3>3. \A i \in 1..Len(r.blocks) : r.blocks[i] \in Blocks
      <4>1. Closed \subseteq Blocks
        BY DEF Closed, Blocks
      <4> QED BY <1>0, <4>1
    <3>4. r.blocks \in Seq(Blocks)
      <4> HIDE DEF b
      <4> QED BY <1>0, <3>3
    <3> QED BY <3>1, <3>2, <3>4
  <2>1. before = Append(r.blocks, b)
    BY <1>2, Zenon DEF Replies!Truncated, Replies!Block
  <2> DEFINE cut == b
  <2> HIDE DEF cut
  <2>2. before # <<>> /\ Replies!Front(before) = r.blocks /\ Replies!Last(before) = cut
    <3>1. cut \in Blocks /\ before = Append(r.blocks, cut)
      BY <2>0, <2>1 DEF cut
    <3>2. /\ Append(r.blocks, cut) # <<>> /\ Replies!Front(Append(r.blocks, cut)) = r.blocks
          /\ Replies!Last(Append(r.blocks, cut)) = cut
      BY <2>0, <3>1, Appended, Zenon
    <3> QED BY <3>1, <3>2, Zenon
  <2>3. /\ cut.terminated = FALSE
        /\ [cut EXCEPT !.terminated = TRUE] = Replies!Block(Replies!Language(r.open), r.code, TRUE)
        /\ [cut EXCEPT !.code = Append(@, x)] = Replies!Block(Replies!Language(r.open), Append(r.code, x), FALSE)
    <3>1. cut = Replies!Block(Replies!Language(r.open), r.code, FALSE)
      BY Zenon DEF cut, Replies!Block
    <3> HIDE DEF cut
    <3>2. Replies!Language(r.open) \in Replies!Words /\ r.code \in Seq(Line)
      BY <1>0, <2>0, Zenon
    <3>3. /\ Closes(Replies!Block(Replies!Language(r.open), r.code, FALSE),
                    Replies!Block(Replies!Language(r.open), r.code, TRUE))
          /\ Grows(Replies!Block(Replies!Language(r.open), r.code, FALSE), x,
                   Replies!Block(Replies!Language(r.open), Append(r.code, x), FALSE))
      BY <3>2, BlockChanges, Zenon
    <3> QED BY <3>1, <3>3, Zenon DEF Closes, Grows
  <2>4. ~(before = <<>> \/ Replies!Last(before).terminated)
    BY <2>2, <2>3, Zenon
  <2>5. CASE Replies!is_closing(x, r.open)
    <3>1. q = [r EXCEPT !.open = Replies!NoFence,
                        !.blocks = Append(r.blocks, Replies!Block(Replies!Language(r.open), r.code, TRUE))]
      BY <1>2, <2>5, Zenon DEF Replies!Step
    <3> DEFINE longer == Append(r.blocks, Replies!Block(Replies!Language(r.open), r.code, TRUE))
    <3> HIDE DEF longer
    <3>2. q.open = Replies!NoFence /\ q.blocks = longer
      <4>1. q = [r EXCEPT !.open = Replies!NoFence, !.blocks = longer]
        BY <3>1 DEF longer
      <4> QED BY <4>1 DEF Founds
    <3> HIDE DEF q
    <3>3. Replies!Truncated(q) = longer
      BY <3>2, Zenon DEF Replies!Truncated
    <3>4. Replies!parse_fence(x)
      BY <1>0, <1>2, <2>5, ClosingIsFence, Zenon
    <3>5. longer = Append(Replies!Front(before), [Replies!Last(before) EXCEPT !.terminated = TRUE])
      BY <2>2, <2>3, Zenon DEF longer
    <3> QED BY <2>4, <3>3, <3>4, <3>5, Zenon DEF q, OneMore
  <2>6. CASE ~Replies!is_closing(x, r.open)
    <3>1. q = [r EXCEPT !.code = Append(r.code, x)]
      BY <1>2, <2>6, Zenon DEF Replies!Step
    <3> DEFINE longer == Append(r.code, x)
    <3> HIDE DEF longer
    <3>2. q.open = r.open /\ q.blocks = r.blocks /\ q.code = longer
      <4>1. q = [r EXCEPT !.code = longer]
        BY <3>1 DEF longer
      <4> QED BY <4>1 DEF Founds
    <3> HIDE DEF q
    <3>3. Replies!Truncated(q) = Append(r.blocks, Replies!Block(Replies!Language(r.open), longer, FALSE))
      BY <1>2, <3>2, Zenon DEF Replies!Truncated
    <3>4. Replies!Truncated(q) = Append(Replies!Front(before), [Replies!Last(before) EXCEPT !.code = Append(@, x)])
      BY <2>2, <2>3, <3>3, Zenon DEF longer
    <3> QED BY <2>4, <3>4, Zenon DEF q, OneMore
  <2> QED BY <2>5, <2>6, Zenon
<1> QED BY <1>1, <1>2, Zenon

\* A reply that is cut off loses nothing it has said.
LEMMA CutsLoseNothing ==
  ASSUME NEW s \in Seq(Line) PROVE Replies!CutLosesNothing(s)
<1> SUFFICES ASSUME s # <<>> PROVE Replies!CutLosesNothing(s)
  BY Zenon DEF Replies!CutLosesNothing
<1> DEFINE f == Replies!Front(s)
           x == Replies!Last(s)
           r == Replies!Rounds(f)[Len(f)]
<1>1. /\ f \in Seq(Line) /\ x \in Line /\ Len(s) \in Nat /\ Len(f) = Len(s) - 1
      /\ x = s[Len(s)] /\ Len(s) \in 1..Len(s) /\ \A i \in 1..Len(f) : f[i] = s[i]
  <2>1. Len(s) \in Nat /\ Len(s) >= 1
    OBVIOUS
  <2> DEFINE y == SubSeq(s, 1, Len(s) - 1)
  <2>2. y \in Seq(Line) /\ Len(y) = Len(s) - 1 /\ \A i \in 1..(Len(s) - 1) : y[i] = s[i]
    <3> DEFINE n == Len(s) - 1
    <3>1. n \in Nat /\ 0 \in Nat /\ 0 <= n /\ n <= Len(s) /\ 0 + 1 = 1 /\ n - 0 = n /\ \A i \in 1..n : 0 + i = i
      BY <2>1
    <3> HIDE DEF n
    <3>2. /\ SubSeq(s, 0 + 1, n) \in Seq(Line) /\ Len(SubSeq(s, 0 + 1, n)) = n - 0
          /\ \A i \in 1..(n - 0) : SubSeq(s, 0 + 1, n)[i] = s[0 + i]
      BY <3>1, Part, ZenonT(60)
    <3>3. SubSeq(s, 1, n) \in Seq(Line) /\ Len(SubSeq(s, 1, n)) = n /\ \A i \in 1..n : SubSeq(s, 1, n)[i] = s[i]
      BY <3>1, <3>2, Zenon
    <3> QED BY <3>3 DEF n
  <2>3. f = y /\ x = s[Len(s)]
    BY Zenon DEF Replies!Front, Replies!Last
  <2> HIDE DEF f, y, x
  <2> QED BY <2>1, <2>2, <2>3
<1> HIDE DEF f, x
<1>2. r \in Founds /\ Replies!Rounds(s)[Len(s) - 1] = r
  <2>1. Len(f) \in 0..Len(f) /\ Len(f) <= Len(s)
    BY <1>1
  <2>2. Replies!Rounds(f) \in [0..Len(f) -> Founds]
    BY <1>1, RoundsAreSteps
  <2>3. Replies!Rounds(f)[Len(f)] = Replies!Rounds(s)[Len(f)]
    BY <1>1, <2>1, RoundsAlike
  <2> QED BY <1>1, <2>1, <2>2, <2>3
<1>3. Replies!Rounds(s)[Len(s)] = Replies!Step(r, x)
  BY <1>1, <1>2, RoundsAreSteps
<1>4. Replies!find_code_blocks(f) = Replies!Truncated(r)
  BY Zenon DEF Replies!find_code_blocks
<1>5. Replies!find_code_blocks(s) = Replies!Truncated(Replies!Step(r, x))
  BY <1>3, Zenon DEF Replies!find_code_blocks
<1> HIDE DEF r
<1>6. OneMore(Replies!find_code_blocks(f), Replies!find_code_blocks(s), x)
  BY <1>1, <1>2, <1>4, <1>5, OneMoreLine, Zenon
<1> QED BY <1>6, Zenon DEF OneMore, Replies!CutLosesNothing, f, x

\* c is the first of the longest blocks of this language among the first n, or <<>>.
Eligible(bs, language, n) ==
    {b \in 1..n : bs[b].language = language /\ Replies!HasCode(bs[b])}
BestOf(bs, language, n, c) ==
    /\ c \in Seq(Line)
    /\ Eligible(bs, language, n) = {} => c = <<>>
    /\ Eligible(bs, language, n) # {} =>
           \E b \in Eligible(bs, language, n) :
               /\ c = bs[b].code /\ c # <<>>
               /\ \A d \in Eligible(bs, language, n) : Len(bs[d].code) < Len(c) + (IF d < b THEN 0 ELSE 1)

LEMMA PickIsBest ==
  ASSUME NEW bs \in Seq(Blocks), NEW language \in Replies!Words, NEW n \in 1..Len(bs), NEW c,
         BestOf(bs, language, n - 1, c)
  PROVE  BestOf(bs, language, n, Replies!Pick(c, bs[n], language))
<1> DEFINE E(m) == Eligible(bs, language, m)
           x == bs[n]
           e == Replies!Pick(c, x, language)
<1>0. /\ x \in Blocks /\ x.code \in Seq(Line) /\ c \in Seq(Line)
      /\ n \in Nat /\ n - 1 \in Nat /\ \A b \in 1..n : bs[b].code \in Seq(Line)
  <2>1. n \in Nat /\ n - 1 \in Nat /\ \A b \in 1..n : b \in 1..Len(bs)
    OBVIOUS
  <2>2. \A b \in 1..Len(bs) : bs[b] \in Blocks
    OBVIOUS
  <2>3. \A y \in Blocks : y.code \in Seq(Line)
    BY DEF Blocks
  <2>4. c \in Seq(Line)
    BY DEF BestOf
  <2> QED BY <2>1, <2>2, <2>3, <2>4
<1>1. \A b : b \in E(n) <=> b \in E(n - 1) \/ (b = n /\ x.language = language /\ Replies!HasCode(x))
  <2>1. \A b : b \in 1..n <=> b \in 1..(n - 1) \/ b = n
    BY <1>0
  <2> HIDE DEF x
  <2>2. x = bs[n]
    BY DEF x
  <2>3. \A b : b \in E(n) <=> b \in 1..n /\ bs[b].language = language /\ Replies!HasCode(bs[b])
    BY Zenon DEF Eligible
  <2>4. \A b : b \in E(n - 1) <=> b \in 1..(n - 1) /\ bs[b].language = language /\ Replies!HasCode(bs[b])
    BY Zenon DEF Eligible
  <2> QED BY <2>1, <2>2, <2>3, <2>4, Zenon
<1>2. \A b \in E(n - 1) : b \in 1..n /\ b < n
  <2>1. \A b \in E(n - 1) : b \in 1..(n - 1)
    BY Zenon DEF Eligible
  <2> QED BY <1>0, <2>1
<1>3. Replies!HasCode(x) => x.code # <<>>
  <2>1. Replies!HasCode(x) => DOMAIN x.code # {}
    BY Zenon DEF Replies!HasCode
  <2>2. ASSUME NEW y \in Seq(Line), y = <<>> PROVE DOMAIN y = {}
    BY <2>2
  <2> QED BY <1>0, <2>1, <2>2, Zenon
<1> DEFINE eligible == x.language = language /\ Replies!HasCode(x)
           better == c = <<>> \/ Len(x.code) > Len(c)
<1>4. e = IF eligible /\ better THEN x.code ELSE c
  BY Zenon DEF Replies!Pick, Replies!Better
<1>5. /\ E(n - 1) = {} => c = <<>>
      /\ E(n - 1) # {} =>
             \E b \in E(n - 1) :
                 /\ c = bs[b].code /\ c # <<>>
                 /\ \A d \in E(n - 1) : Len(bs[d].code) < Len(c) + (IF d < b THEN 0 ELSE 1)
  BY Zenon DEF BestOf
<1>6. E(n) = {} \/ n \in E(n) \/ E(n - 1) # {}
  BY <1>1, Zenon
<1> HIDE DEF E, e, x
<1>7. CASE eligible /\ better
  <2>1. e = x.code /\ n \in E(n) /\ bs[n].code = x.code /\ x.code # <<>>
    BY <1>1, <1>3, <1>4, <1>7, Zenon DEF x
  <2>2. ASSUME NEW d \in E(n) PROVE Len(bs[d].code) < Len(e) + (IF d < n THEN 0 ELSE 1)
    <3>1. CASE d = n
      <4>1. Len(x.code) \in Nat
        BY <1>0
      <4>2. bs[d].code = x.code /\ e = x.code /\ ~(d < n)
        <5>1. ~(n < n)
          BY <1>0
        <5> QED BY <2>1, <3>1, <5>1, Zenon
      <4>3. Len(bs[d].code) = Len(e) /\ Len(e) \in Nat
        BY <4>1, <4>2
      <4> QED BY <4>2, <4>3
    <3>2. CASE d # n
      <4>1. d \in E(n - 1) /\ d < n /\ d \in 1..n /\ E(n - 1) # {}
        <5>1. d \in E(n - 1)
          BY <1>1, <3>2, Zenon
        <5>2. d \in 1..n /\ d < n
          BY <1>2, <5>1, Zenon
        <5> QED BY <5>1, <5>2
      <4>2. PICK b \in E(n - 1) : /\ c = bs[b].code /\ c # <<>>
                                  /\ Len(bs[d].code) < Len(c) + (IF d < b THEN 0 ELSE 1)
        BY <1>5, <4>1, Zenon
      <4>3. Len(x.code) > Len(c)
        BY <1>7, <4>2, Zenon
      <4>4. Len(bs[d].code) \in Nat /\ Len(c) \in Nat /\ Len(x.code) \in Nat
        BY <1>0, <4>1
      <4>5. Len(bs[d].code) < Len(c) + 1
        <5> DEFINE k == Len(bs[d].code)
                   m == Len(c)
        <5>1. k \in Nat /\ m \in Nat /\ k < m + (IF d < b THEN 0 ELSE 1)
          BY <4>2, <4>4, Zenon
        <5> HIDE DEF k, m
        <5>2. k < m + 1
          BY <5>1
        <5> QED BY <5>2 DEF k, m
      <4> QED BY <2>1, <4>1, <4>3, <4>4, <4>5
    <3> QED BY <3>1, <3>2
  <2>3. E(n) # {}
    BY <2>1
  <2>4. e \in Seq(Line)
    BY <1>0, <2>1
  <2> QED BY <2>1, <2>2, <2>3, <2>4, Zenon DEF BestOf, E, e, x
<1>8. CASE ~(eligible /\ better)
  <2>1. e = c
    BY <1>4, <1>8, Zenon
  <2>2. CASE E(n - 1) = {}
    <3>1. c = <<>> /\ ~eligible
      BY <1>5, <1>8, <2>2, Zenon
    <3>2. E(n) = {}
      BY <1>1, <2>2, <3>1, Zenon
    <3> QED BY <1>0, <2>1, <3>1, <3>2, Zenon DEF BestOf, E, e, x
  <2>3. CASE E(n - 1) # {}
    <3>1. PICK b \in E(n - 1) :
              /\ c = bs[b].code /\ c # <<>>
              /\ \A d \in E(n - 1) : Len(bs[d].code) < Len(c) + (IF d < b THEN 0 ELSE 1)
      BY <1>5, <2>3, Zenon
    <3>2. b \in E(n) /\ b < n /\ b \in Nat
      <4>1. b \in E(n) /\ b < n /\ b \in 1..n
        BY <1>1, <1>2, Zenon
      <4> QED BY <4>1, <1>0
    <3>3. ASSUME NEW d \in E(n) PROVE Len(bs[d].code) < Len(c) + (IF d < b THEN 0 ELSE 1)
      <4>1. CASE d \in E(n - 1)
        BY <3>1, <4>1, Zenon
      <4>2. CASE d \notin E(n - 1)
        <5>1. d = n /\ eligible
          BY <1>1, <4>2, Zenon
        <5>2. ~(Len(x.code) > Len(c)) /\ bs[d] = x
          BY <1>8, <3>1, <5>1, Zenon DEF x
        <5>3. Len(x.code) \in Nat /\ Len(c) \in Nat /\ ~(n < b)
          BY <1>0, <3>2
        <5>4. Len(bs[d].code) = Len(x.code) /\ ~(d < b)
          BY <5>1, <5>2, <5>3, Zenon
        <5> QED BY <5>2, <5>3, <5>4
      <4> QED BY <4>1, <4>2
    <3> QED BY <1>0, <2>1, <3>1, <3>2, <3>3, Zenon DEF BestOf, E, e, x
  <2> QED BY <2>2, <2>3
<1> QED BY <1>7, <1>8 DEF e, x

LEMMA BestIsBest ==
  ASSUME NEW bs \in Seq(Blocks), NEW language \in Replies!Words
  PROVE  BestOf(bs, language, Len(bs), Replies!Best(bs, language))
<1> DEFINE S == Seq(Line)
           D == [p \in S \X (1..Len(bs)) |-> Replies!Pick(p[1], bs[p[2]], language)]
           Is(f) == f = [n \in 0..Len(bs) |->
                            IF n = 0 THEN <<>> ELSE Replies!Pick(f[n - 1], bs[n], language)]
           best == CHOOSE f : Is(f)
<1>0. Len(bs) \in Nat /\ <<>> \in S
  OBVIOUS
<1>1. D \in [S \X (1..Len(bs)) -> S]
  <2> SUFFICES ASSUME NEW c \in S, NEW n \in 1..Len(bs) PROVE Replies!Pick(c, bs[n], language) \in S
    BY Zenon
  <2>1. bs[n].code \in S
    <3>1. bs[n] \in Blocks
      OBVIOUS
    <3> QED BY <3>1 DEF Blocks
  <2> HIDE DEF S
  <2> QED BY <2>1, Zenon DEF Replies!Pick
<1> HIDE DEF S
<1>2. PICK g \in [0..Len(bs) -> S] : Iterates(g, <<>>, Len(bs), D)
  <2> HIDE DEF D
  <2> QED BY <1>0, <1>1, RecursiveUpTo, Zenon
<1>3. ASSUME NEW n \in 1..Len(bs) PROVE g[n] = Replies!Pick(g[n - 1], bs[n], language)
  <2>1. n - 1 \in 0..Len(bs)
    BY <1>0
  <2>2. g[n - 1] \in S
    BY <2>1
  <2> QED BY <1>2, <2>2 DEF Iterates
<1>4. Is(g)
  <2>1. \A n \in 0..Len(bs) : n # 0 => n \in 1..Len(bs)
    BY <1>0
  <2> QED BY <1>2, <1>3, <2>1 DEF Iterates
<1> HIDE DEF Is
<1>5. Is(best)
  BY <1>4
<1> HIDE DEF best
<1>6. Replies!Best(bs, language) = best[Len(bs)]
  BY DEF Replies!Best, best, Is
<1>7. best[0] = <<>>
  BY <1>0, <1>5 DEF Is
<1>8. ASSUME NEW n \in 1..Len(bs) PROVE best[n] = Replies!Pick(best[n - 1], bs[n], language)
  <2>1. n \in 0..Len(bs) /\ n # 0
    BY <1>0
  <2> QED BY <1>5, <2>1 DEF Is
<1> DEFINE T == {n \in 0..Len(bs) : BestOf(bs, language, n, best[n])}
<1>9. 0 \in T
  <2>1. 0 \in 0..Len(bs) /\ 1..0 = {} /\ <<>> \in Seq(Line)
    BY <1>0 DEF S
  <2>2. Eligible(bs, language, 0) = {}
    BY <2>1, Zenon DEF Eligible
  <2> QED BY <1>7, <2>1, <2>2, Zenon DEF BestOf
<1>10. ASSUME NEW n \in 1..Len(bs), n - 1 \in T PROVE n \in T
  <2>1. n \in 0..Len(bs)
    BY <1>0
  <2>2. BestOf(bs, language, n, Replies!Pick(best[n - 1], bs[n], language))
    BY <1>10, PickIsBest, Zenon
  <2> QED BY <1>8, <2>1, <2>2, Zenon
<1>11. T \in SUBSET (0..Len(bs))
  BY Zenon
<1> HIDE DEF T
<1>12. T = 0..Len(bs)
  BY <1>0, <1>9, <1>10, <1>11, IndUpTo
<1>13. Len(bs) \in T
  BY <1>0, <1>12
<1> QED BY <1>6, <1>13 DEF T

LEMMA BlocksType ==
  ASSUME NEW s \in Seq(Line) PROVE Replies!find_code_blocks(s) \in Seq(Blocks)
<1> DEFINE r == Replies!Rounds(s)[Len(s)]
<1>1. r \in Founds
  <2>1. Len(s) \in 0..Len(s)
    OBVIOUS
  <2> QED BY <2>1, RoundsAreSteps
<1>2. Replies!find_code_blocks(s) = Replies!Truncated(r)
  BY Zenon DEF Replies!find_code_blocks
<1> HIDE DEF r
<1>3. r.blocks \in Seq(Blocks) /\ r.open \in Line /\ r.code \in Seq(Line)
  <2>1. r.blocks \in Seq(Closed) /\ r.open \in Line /\ r.code \in Seq(Line)
    BY <1>1 DEF Founds
  <2>2. Closed \subseteq Blocks
    BY DEF Closed, Blocks
  <2>3. \A i \in 1..Len(r.blocks) : r.blocks[i] \in Blocks
    BY <2>1, <2>2
  <2> QED BY <2>1, <2>3
<1> DEFINE b == Replies!Block(Replies!Language(r.open), r.code, FALSE)
<1>4. b \in Blocks
  <2>1. Replies!Language(r.open) \in Replies!Words
    BY <1>3, LanguageType, Zenon
  <2> QED BY <1>3, <2>1 DEF Blocks, Replies!Block
<1> HIDE DEF b
<1>5. Append(r.blocks, b) \in Seq(Blocks)
  BY <1>3, <1>4
<1>6. Replies!Truncated(r) = r.blocks \/ Replies!Truncated(r) = Append(r.blocks, b)
  BY Zenon DEF Replies!Truncated, b
<1> QED BY <1>2, <1>3, <1>5, <1>6, Zenon

\* extract_cpp_source() takes the first of the longest blocks that it may take.
LEMMA SourceIsChosen ==
  ASSUME NEW s \in Seq(Line) PROVE Replies!ChoosesTheSource(s)
<1> DEFINE bs == Replies!find_code_blocks(s)
           source == Replies!extract_cpp_source(s)
           cpp == Replies!Best(bs, "cpp")
           untagged == Replies!Best(bs, "")
           Of(language) == {b \in DOMAIN bs : bs[b].language = language /\ Replies!HasCode(bs[b])}
           eligible == IF Of("cpp") # {} THEN Of("cpp") ELSE Of("")
<1>1. bs \in Seq(Blocks)
  BY BlocksType
<1>2. source = IF cpp # <<>> THEN cpp
               ELSE IF untagged # <<>> THEN untagged
               ELSE IF bs = <<>> /\ Replies!looks_like_code(s) THEN s
               ELSE <<>>
  BY Zenon DEF Replies!extract_cpp_source
<1> HIDE DEF bs, source, cpp, untagged
<1>3. \A l : Of(l) = Eligible(bs, l, Len(bs))
  <2>1. DOMAIN bs = 1..Len(bs)
    BY <1>1
  <2> QED BY <2>1, Zenon DEF Eligible
<1>4. BestOf(bs, "cpp", Len(bs), cpp) /\ BestOf(bs, "", Len(bs), untagged)
  <2>1. "cpp" \in Replies!Words /\ "" \in Replies!Words
    BY DEF Replies!Words
  <2> QED BY <1>1, <2>1, BestIsBest, Zenon DEF cpp, untagged
<1> HIDE DEF Of
<1> DEFINE First(c, E) == \E b \in E : /\ c = bs[b].code /\ c # <<>>
                                       /\ \A d \in E : Len(bs[d].code) < Len(c) + (IF d < b THEN 0 ELSE 1)
<1>5. /\ Of("cpp") = {} => cpp = <<>>
      /\ Of("cpp") # {} => First(cpp, Of("cpp"))
      /\ Of("") = {} => untagged = <<>>
      /\ Of("") # {} => First(untagged, Of(""))
  BY <1>3, <1>4, Zenon DEF BestOf
<1>6. /\ Of("cpp") # {} => cpp # <<>>
      /\ Of("") # {} => untagged # <<>>
  BY <1>5, Zenon
<1> HIDE DEF First
<1>7. IF eligible = {} THEN source # <<>> => bs = <<>> ELSE First(source, eligible)
  <2>1. CASE Of("cpp") # {}
    <3>1. eligible = Of("cpp") /\ source = cpp /\ First(cpp, Of("cpp"))
      BY <1>2, <1>5, <1>6, <2>1, Zenon
    <3> QED BY <2>1, <3>1, Zenon
  <2>2. CASE Of("cpp") = {} /\ Of("") # {}
    <3>1. eligible = Of("") /\ source = untagged /\ First(untagged, Of(""))
      BY <1>2, <1>5, <1>6, <2>2, Zenon
    <3> QED BY <2>2, <3>1, Zenon
  <2>3. CASE Of("cpp") = {} /\ Of("") = {}
    <3>1. eligible = {} /\ (source # <<>> => bs = <<>>)
      BY <1>2, <1>5, <2>3, Zenon
    <3> QED BY <3>1, Zenon
  <2> QED BY <2>1, <2>2, <2>3, Zenon
<1>8. First(source, eligible) =>
        \E b \in eligible :
            /\ source = bs[b].code
            /\ \A c \in eligible : Len(bs[c].code) < Len(source) + (IF c < b THEN 0 ELSE 1)
  BY Zenon DEF First
<1> HIDE DEF eligible
<1>9. IF eligible = {} THEN source # <<>> => bs = <<>>
      ELSE \E b \in eligible :
              /\ source = bs[b].code
              /\ \A c \in eligible : Len(bs[c].code) < Len(source) + (IF c < b THEN 0 ELSE 1)
  BY <1>7, <1>8, Zenon
<1> QED BY <1>9, Zenon DEF Replies!ChoosesTheSource, eligible, Of, source, bs

LEMMA Single ==
  ASSUME NEW S, NEW x \in S
  PROVE  <<x>> \in Seq(S) /\ Len(<<x>>) = 1 /\ <<x>>[1] = x
OBVIOUS

LEMMA Two ==
  ASSUME NEW S, NEW x \in S PROVE Append(Append(<<>>, x), x) = <<x, x>>
<1> DEFINE a == Append(<<>>, x)
           b == Append(a, x)
           c == <<x, x>>
<1>1. a \in Seq(S) /\ Len(a) = 1 /\ a[1] = x
  OBVIOUS
<1> HIDE DEF a
<1>2. b \in Seq(S) /\ Len(b) = 2 /\ b[1] = x /\ b[2] = x
  <2>1. ASSUME NEW d \in Seq(S), Len(d) = 1
        PROVE  /\ Append(d, x) \in Seq(S) /\ Len(Append(d, x)) = 2
               /\ Append(d, x)[1] = d[1] /\ Append(d, x)[2] = x
    <3>1. /\ Append(d, x) \in Seq(S) /\ Len(Append(d, x)) = Len(d) + 1
          /\ \A i \in 1..Len(d) : Append(d, x)[i] = d[i]
          /\ Append(d, x)[Len(d) + 1] = x
      OBVIOUS
    <3>2. 1 \in 1..1 /\ 1 + 1 = 2
      OBVIOUS
    <3> QED BY <2>1, <3>1, <3>2, Zenon
  <2> QED BY <1>1, <2>1, Zenon
<1>3. c \in Seq(S) /\ Len(c) = 2 /\ c[1] = x /\ c[2] = x
  OBVIOUS
<1> HIDE DEF b, c
<1>4. \A i \in 1..Len(b) : b[i] = c[i]
  <2>1. \A i \in 1..2 : i = 1 \/ i = 2
    OBVIOUS
  <2> QED BY <1>2, <1>3, <2>1, Zenon
<1>5. b = c
  BY <1>2, <1>3, <1>4, SeqEqual
<1> QED BY <1>5 DEF a, b, c

Concatenates(S, x, y) ==
    /\ x \o y \in Seq(S) /\ Len(x \o y) = Len(x) + Len(y)
    /\ \A i \in 1..(Len(x) + Len(y)) : (x \o y)[i] = IF i <= Len(x) THEN x[i] ELSE y[i - Len(x)]
LEMMA Concatenated ==
  ASSUME NEW S, NEW x \in Seq(S), NEW y \in Seq(S) PROVE Concatenates(S, x, y)
BY ConcatProperties, Zenon DEF Concatenates

\* The lines of a text after base are these.
Stands(t, base, x) == \A i \in 1..Len(x) : t[base + i] = x[i]

\* A fenced source, read after base where no fence is open, is one more block.
LEMMA FencedIsRead ==
  ASSUME NEW s \in Seq(Line), NEW n \in Replies!Longer(s), NEW t \in Seq(Line), NEW base \in Nat,
         base + (Len(s) + 2) <= Len(t), Stands(t, base, Replies!Fenced(s, n)),
         Replies!Rounds(t)[base].open = Replies!NoFence
  PROVE  /\ Replies!Rounds(t)[base + (Len(s) + 2)].open = Replies!NoFence
         /\ Replies!Rounds(t)[base + (Len(s) + 2)].blocks
              = Append(Replies!Rounds(t)[base].blocks, Replies!Block("cpp", s, TRUE))
<1> DEFINE F == Replies!Run("tick", n, "cpp")
           G == Replies!Run("tick", n, "")
           bs == Replies!Rounds(t)[base].blocks
           R(k) == Replies!Rounds(t)[(base + 1) + k]
           Is(k) == /\ R(k).blocks = bs /\ R(k).open = F
                    /\ Len(R(k).code) = k /\ \A i \in 1..k : R(k).code[i] = s[i]
           T == {k \in 0..Len(s) : Is(k)}
<1>0. /\ Len(s) \in Nat /\ Len(t) \in Nat /\ n \in Nat /\ n >= 3
      /\ \A i \in 1..Len(s) : s[i] \in Line /\ (s[i].ch = "tick" => s[i].length < n)
  <2>1. Len(s) \in Nat /\ Len(t) \in Nat /\ DOMAIN s = 1..Len(s) /\ \A i \in 1..Len(s) : s[i] \in Line
    OBVIOUS
  <2>2. /\ n = 3 \/ \E i \in DOMAIN s : n = s[i].length + 1
        /\ n >= 3 /\ \A i \in DOMAIN s : s[i].ch = "tick" => s[i].length < n
    BY DEF Replies!Longer
  <2>3. n \in Nat
    <3>1. \A i \in 1..Len(s) : s[i].length \in Nat
      BY <2>1 DEF Line, Replies!Lines
    <3> QED BY <2>1, <2>2, <3>1
  <2> QED BY <2>1, <2>2, <2>3
<1>1. F \in Line /\ G \in Line /\ F.ch = "tick" /\ F.length = n /\ F.info = "cpp"
      /\ G.ch = "tick" /\ G.length = n /\ G.info = ""
  BY <1>0 DEF Line, Replies!Lines, Replies!Words, Replies!Run
<1>2. /\ t[base + 1] = F /\ t[base + (Len(s) + 2)] = G
      /\ \A i \in 1..Len(s) : t[(base + 1) + i] = s[i]
  <2> DEFINE x == Replies!Fenced(s, n)
  <2> HIDE DEF F, G
  <2>1. /\ Len(x) = Len(s) + 2 /\ x[1] = F /\ x[Len(s) + 2] = G
        /\ \A i \in 1..Len(s) : x[1 + i] = s[i]
    <3>1. x = <<F>> \o s \o <<G>>
      BY Zenon DEF Replies!Fenced, F, G
    <3> HIDE DEF x
    <3>2. <<F>> \in Seq(Line) /\ <<G>> \in Seq(Line) /\ Len(<<F>>) = 1 /\ Len(<<G>>) = 1 /\ <<F>>[1] = F /\ <<G>>[1] = G
      BY <1>1, Single, Zenon
    <3> DEFINE y == <<F>> \o s
    <3>3. /\ y \in Seq(Line) /\ Len(y) = 1 + Len(s)
          /\ \A i \in 1..(1 + Len(s)) : y[i] = IF i <= 1 THEN <<F>>[i] ELSE s[i - 1]
      BY <3>2, ConcatProperties, Zenon
    <3>4. y[1] = F /\ \A i \in 1..Len(s) : y[1 + i] = s[i]
      <4>1. 1 \in 1..(1 + Len(s)) /\ 1 <= 1
            /\ \A i \in 1..Len(s) : 1 + i \in 1..(1 + Len(s)) /\ ~(1 + i <= 1) /\ (1 + i) - 1 = i
        BY <1>0
      <4> HIDE DEF y
      <4>2. y[1] = F
        BY <3>2, <3>3, <4>1, Zenon
      <4>3. ASSUME NEW i \in 1..Len(s) PROVE y[1 + i] = s[i]
        BY <3>3, <4>1
      <4> QED BY <4>2, <4>3
    <3> HIDE DEF y
    <3>5. /\ y \o <<G>> \in Seq(Line) /\ Len(y \o <<G>>) = Len(y) + 1
          /\ \A i \in 1..(Len(y) + 1) : (y \o <<G>>)[i] = IF i <= Len(y) THEN y[i] ELSE <<G>>[i - Len(y)]
      <4> DEFINE g == <<G>>
      <4> HIDE DEF y, g
      <4>1. y \in Seq(Line) /\ g \in Seq(Line) /\ Len(g) = 1
        BY <3>2, <3>3, Zenon DEF g
      <4>2. /\ y \o g \in Seq(Line) /\ Len(y \o g) = Len(y) + Len(g)
            /\ \A i \in 1..(Len(y) + Len(g)) : (y \o g)[i] = IF i <= Len(y) THEN y[i] ELSE g[i - Len(y)]
        BY <4>1, Concatenated, Zenon DEF Concatenates
      <4> QED BY <4>1, <4>2, Zenon DEF g
    <3>6. x = y \o <<G>>
      BY <3>1 DEF y
    <3>7. /\ Len(x) = Len(s) + 2 /\ x[Len(s) + 2] = <<G>>[1]
          /\ \A i \in 1..(1 + Len(s)) : x[i] = y[i]
      <4>1. Len(x) = Len(s) + 2
        BY <1>0, <3>3, <3>5, <3>6
      <4>2. Len(s) + 2 \in 1..(Len(y) + 1) /\ ~(Len(s) + 2 <= Len(y)) /\ (Len(s) + 2) - Len(y) = 1
            /\ \A i \in 1..(1 + Len(s)) : i \in 1..(Len(y) + 1) /\ i <= Len(y)
        BY <1>0, <3>3
      <4>3. ASSUME NEW i \in 1..(1 + Len(s)) PROVE x[i] = y[i]
        BY <3>5, <3>6, <4>2, Zenon
      <4> DEFINE m == Len(s) + 2
      <4> HIDE DEF m
      <4>4. x[m] = <<G>>[m - Len(y)]
        BY <3>5, <3>6, <4>2, Zenon DEF m
      <4> QED BY <4>1, <4>2, <4>3, <4>4, Zenon DEF m
    <3>8. 1 \in 1..(1 + Len(s)) /\ \A i \in 1..Len(s) : 1 + i \in 1..(1 + Len(s))
      BY <1>0
    <3> QED BY <3>2, <3>4, <3>7, <3>8, Zenon
  <2> HIDE DEF x
  <2>2. \A i \in 1..Len(x) : t[base + i] = x[i]
    BY Zenon DEF Stands, x
  <2>3. 1 \in 1..Len(x) /\ Len(s) + 2 \in 1..Len(x)
    BY <1>0, <2>1
  <2>4. ASSUME NEW i \in 1..Len(s) PROVE t[(base + 1) + i] = s[i]
    <3>1. 1 + i \in 1..Len(x) /\ base + (1 + i) = (base + 1) + i
      BY <1>0, <2>1
    <3> QED BY <2>1, <2>2, <3>1, Zenon
  <2> QED BY <2>1, <2>2, <2>3, <2>4, Zenon
<1> HIDE DEF F, G
<1>3. \A k \in 1..Len(t) : /\ Replies!Rounds(t)[k - 1] \in Founds
                           /\ Replies!Rounds(t)[k] = Replies!Step(Replies!Rounds(t)[k - 1], t[k])
  <2>1. \A k \in 1..Len(t) : k - 1 \in 0..Len(t)
    BY <1>0
  <2> QED BY <2>1, RoundsAreSteps
<1>4. Replies!parse_fence(F) /\ F # Replies!NoFence /\ ~(F = Replies!NoFence)
  <2>1. Replies!parse_fence(F)
    BY <1>0, <1>1 DEF Replies!parse_fence
  <2> QED BY <1>1, <2>1, FenceIsNoNoFence, Zenon
<1>5. 0 \in T
  <2>1. base + 1 \in 1..Len(t) /\ (base + 1) - 1 = base /\ (base + 1) + 0 = base + 1 /\ 0 \in 0..Len(s)
    BY <1>0
  <2> DEFINE r == Replies!Rounds(t)[base]
             q == Replies!Rounds(t)[base + 1]
  <2>2. r \in Founds /\ q = Replies!Step(r, F)
    BY <1>2, <1>3, <2>1, Zenon
  <2>3. q = [r EXCEPT !.open = F, !.code = <<>>]
    BY <1>4, <2>2, Zenon DEF Replies!Step
  <2> HIDE DEF q, r
  <2>4. q.blocks = r.blocks /\ q.open = F /\ q.code = <<>>
    BY <2>2, <2>3 DEF Founds
  <2>5. Len(q.code) = 0 /\ \A i \in 1..0 : q.code[i] = s[i]
    BY <2>4
  <2>6. R(0) = q /\ bs = r.blocks
    BY <2>1, Zenon DEF q, r
  <2> QED BY <2>1, <2>4, <2>5, <2>6, Zenon
<1>6. ASSUME NEW k \in 1..Len(s), k - 1 \in T PROVE k \in T
  <2>1. /\ (base + 1) + k \in 1..Len(t) /\ ((base + 1) + k) - 1 = (base + 1) + (k - 1)
        /\ k \in 0..Len(s) /\ k \in Nat /\ k - 1 \in Nat
    BY <1>0
  <2> DEFINE r == R(k - 1)
             q == R(k)
             x == s[k]
  <2>2. r \in Founds /\ q = Replies!Step(r, x)
    <3>1. t[(base + 1) + k] = x
      BY <1>2, Zenon
    <3> QED BY <1>3, <2>1, <3>1, Zenon
  <2>3. r.blocks = bs /\ r.open = F /\ Len(r.code) = k - 1 /\ \A i \in 1..(k - 1) : r.code[i] = s[i]
    BY <1>6, Zenon
  <2>4. ~Replies!is_closing(x, F)
    <3>1. x.ch = F.ch => ~(x.length >= F.length)
      <4>1. x \in Line /\ (x.ch = "tick" => x.length < n)
        BY <1>0, Zenon
      <4>2. x.length \in Nat
        BY <4>1 DEF Line, Replies!Lines
      <4> HIDE DEF x
      <4>3. x.length < n => ~(x.length >= n)
        BY <1>0, <4>2
      <4> QED BY <1>1, <4>1, <4>3, Zenon
    <3> QED BY <3>1, Zenon DEF Replies!is_closing
  <2> HIDE DEF q, r
  <2>5. q = [r EXCEPT !.code = Append(r.code, x)]
    BY <1>4, <2>2, <2>3, <2>4, Zenon DEF Replies!Step
  <2> HIDE DEF x
  <2>6. x \in Line /\ r.code \in Seq(Line)
    <3>1. x \in Line
      BY <1>0 DEF x
    <3> QED BY <2>2, <3>1 DEF Founds
  <2> DEFINE longer == Append(r.code, x)
  <2>7. /\ longer \in Seq(Line) /\ Len(longer) = k /\ longer[k] = x
        /\ \A i \in 1..(k - 1) : longer[i] = r.code[i]
    BY <2>1, <2>3, <2>6
  <2> HIDE DEF longer
  <2>8. q.blocks = r.blocks /\ q.open = r.open /\ q.code = longer
    <3>1. q = [r EXCEPT !.code = longer]
      BY <2>5 DEF longer
    <3> QED BY <2>2, <2>7, <3>1 DEF Founds
  <2>9. \A i \in 1..k : longer[i] = s[i]
    <3>1. \A i \in 1..k : i = k \/ i \in 1..(k - 1)
      BY <2>1
    <3> QED BY <2>3, <2>7, <3>1, Zenon DEF x
  <2> QED BY <2>1, <2>3, <2>7, <2>8, <2>9, Zenon DEF q
<1>7. T \in SUBSET (0..Len(s))
  BY Zenon
<1> HIDE DEF T
<1>8. T = 0..Len(s)
  BY <1>0, <1>5, <1>6, <1>7, IndUpTo
<1>9. Is(Len(s))
  <2>1. Len(s) \in T
    BY <1>0, <1>8
  <2> QED BY <2>1, Zenon DEF T
<1> DEFINE r == R(Len(s))
           m == base + (Len(s) + 2)
           q == Replies!Rounds(t)[m]
<1>10. r \in Founds /\ q = Replies!Step(r, G)
  <2>1. m \in 1..Len(t) /\ m - 1 = (base + 1) + Len(s)
    BY <1>0
  <2>2. t[m] = G
    BY <1>2
  <2> QED BY <1>3, <2>1, <2>2, Zenon
<1>11. r.blocks = bs /\ r.open = F /\ Len(r.code) = Len(s) /\ \A i \in 1..Len(s) : r.code[i] = s[i]
  BY <1>9, Zenon
<1> HIDE DEF r
<1>12. r.code = s
  <2>1. r.code \in Seq(Line)
    BY <1>10 DEF Founds
  <2> QED BY <1>11, <2>1, SeqEqual
<1>13. Replies!is_closing(G, F)
  <2>1. n >= n
    BY <1>0
  <2>2. G.length >= F.length
    BY <1>1, <2>1, Zenon
  <2> QED BY <1>1, <2>2, Zenon DEF Replies!is_closing
<1> HIDE DEF q, bs
<1> DEFINE longer == Append(bs, Replies!Block("cpp", s, TRUE))
<1>l. Replies!Language(r.open) = "cpp"
  <2>1. F.info = "cpp"
    BY <1>1, Zenon
  <2>2. "cpp" # "braced"
    BY Zenon
  <2> QED BY <1>11, <2>1, <2>2, Zenon DEF Replies!Language
<1>14. q = [r EXCEPT !.open = Replies!NoFence, !.blocks = longer]
  BY <1>1, <1>4, <1>10, <1>11, <1>12, <1>13, <1>l, Zenon DEF Replies!Step
<1> HIDE DEF longer
<1>15. q.open = Replies!NoFence /\ q.blocks = longer
  BY <1>10, <1>14 DEF Founds
<1> QED BY <1>15, Zenon DEF q, longer, bs

\* Three texts stand in the whole one after the other.
InOrder(S, x, y, z) ==
    LET t == x \o y \o z
    IN  /\ t \in Seq(S) /\ Len(t) = (Len(x) + Len(y)) + Len(z)
        /\ Stands(t, 0, x) /\ Stands(t, Len(x), y) /\ Stands(t, Len(x) + Len(y), z)

LEMMA BetweenTexts ==
  ASSUME NEW S, NEW x \in Seq(S), NEW y \in Seq(S), NEW z \in Seq(S)
  PROVE  InOrder(S, x, y, z)
<1> DEFINE u == x \o y
           t == u \o z
<1>0. Len(x) \in Nat /\ Len(y) \in Nat /\ Len(z) \in Nat
  OBVIOUS
<1>1. /\ u \in Seq(S) /\ Len(u) = Len(x) + Len(y)
      /\ \A i \in 1..(Len(x) + Len(y)) : u[i] = IF i <= Len(x) THEN x[i] ELSE y[i - Len(x)]
  BY ConcatProperties, Zenon
<1> HIDE DEF u
<1>2. /\ t \in Seq(S) /\ Len(t) = Len(u) + Len(z)
      /\ \A i \in 1..(Len(u) + Len(z)) : t[i] = IF i <= Len(u) THEN u[i] ELSE z[i - Len(u)]
  <2>1. Concatenates(S, u, z)
    BY <1>1, Concatenated, Zenon
  <2> QED BY <2>1, Zenon DEF Concatenates
<1> HIDE DEF t
<1>3. \A i \in 1..Len(x) : t[0 + i] = x[i]
  <2> SUFFICES ASSUME NEW i \in 1..Len(x) PROVE t[0 + i] = x[i]
    OBVIOUS
  <2>1. 0 + i = i /\ i <= Len(x) /\ i <= Len(u) /\ i \in 1..(Len(x) + Len(y)) /\ i \in 1..(Len(u) + Len(z))
    BY <1>0, <1>1
  <2> QED BY <1>1, <1>2, <2>1, Zenon
<1>4. \A i \in 1..Len(y) : t[Len(x) + i] = y[i]
  <2> SUFFICES ASSUME NEW i \in 1..Len(y) PROVE t[Len(x) + i] = y[i]
    OBVIOUS
  <2> DEFINE k == Len(x) + i
  <2>1. /\ ~(k <= Len(x)) /\ k - Len(x) = i /\ k <= Len(u)
        /\ k \in 1..(Len(x) + Len(y)) /\ k \in 1..(Len(u) + Len(z))
    BY <1>0, <1>1
  <2> HIDE DEF k
  <2>2. t[k] = y[i]
    BY <1>1, <1>2, <2>1, Zenon
  <2> QED BY <2>2 DEF k
<1>5. \A i \in 1..Len(z) : t[(Len(x) + Len(y)) + i] = z[i]
  <2> SUFFICES ASSUME NEW i \in 1..Len(z) PROVE t[(Len(x) + Len(y)) + i] = z[i]
    OBVIOUS
  <2> DEFINE k == (Len(x) + Len(y)) + i
  <2>1. ~(k <= Len(u)) /\ k - Len(u) = i /\ k \in 1..(Len(u) + Len(z))
    BY <1>0, <1>1
  <2> HIDE DEF k
  <2>2. t[k] = z[i]
    BY <1>2, <2>1, Zenon
  <2> QED BY <2>2 DEF k
<1> QED BY <1>1, <1>2, <1>3, <1>4, <1>5, Zenon DEF InOrder, Stands, t, u

\* Two fenced sources with a line of prose between them are found as they are.
LEMMA SourcesSurvive ==
  ASSUME NEW s \in Seq(Line) PROVE Replies!SourceSurvives(s)
<1> SUFFICES ASSUME NEW n \in Replies!Longer(s)
             PROVE  LET block == Replies!Block("cpp", s, TRUE)
                        x == Replies!Fenced(s, n)
                    IN  Replies!find_code_blocks(x \o <<Replies!Text("prose")>> \o x) = <<block, block>>
  BY Zenon DEF Replies!SourceSurvives
<1> DEFINE block == Replies!Block("cpp", s, TRUE)
           x == Replies!Fenced(s, n)
           prose == Replies!Text("prose")
           t == x \o <<prose>> \o x
           m == Len(s) + 2
           B(k) == Replies!Rounds(t)[k].blocks
           O(k) == Replies!Rounds(t)[k].open
<1>0. Len(s) \in Nat /\ m \in Nat /\ m >= 2
  OBVIOUS
<1>1. prose \in Line /\ ~Replies!parse_fence(prose)
  <2>1. prose \in Line
    BY DEF Line, Replies!Lines, Replies!Words, Replies!Text
  <2>2. prose.length = 0
    BY DEF Replies!Text
  <2>3. ~(0 >= 3)
    OBVIOUS
  <2> QED BY <2>1, <2>2, <2>3, Zenon DEF Replies!parse_fence
<1>2. x \in Seq(Line) /\ Len(x) = m
  <2> DEFINE F == Replies!Run("tick", n, "cpp")
             G == Replies!Run("tick", n, "")
  <2>1. n \in Nat
    <3>1. n = 3 \/ \E i \in DOMAIN s : n = s[i].length + 1
      BY DEF Replies!Longer
    <3>2. \A i \in DOMAIN s : s[i].length \in Nat
      <4>1. \A i \in DOMAIN s : s[i] \in Line
        OBVIOUS
      <4> QED BY <4>1 DEF Line, Replies!Lines
    <3> QED BY <3>1, <3>2
  <2>2. F \in Line /\ G \in Line
    BY <2>1 DEF Line, Replies!Lines, Replies!Words, Replies!Run
  <2>3. x = <<F>> \o s \o <<G>>
    BY Zenon DEF Replies!Fenced
  <2> DEFINE f == <<F>>
             g == <<G>>
  <2> HIDE DEF F, G
  <2>4. f \in Seq(Line) /\ g \in Seq(Line) /\ Len(f) = 1 /\ Len(g) = 1
    BY <2>2, Single, Zenon
  <2> HIDE DEF f, g, x, m
  <2>5. f \o s \o g \in Seq(Line) /\ Len(f \o s \o g) = (Len(f) + Len(s)) + Len(g)
    <3>1. InOrder(Line, f, s, g)
      BY <2>4, BetweenTexts, Zenon
    <3> QED BY <3>1, Zenon DEF InOrder
  <2>6. x = f \o s \o g
    BY <2>3 DEF f, g
  <2>7. (1 + Len(s)) + 1 = m
    BY <1>0 DEF m
  <2> QED BY <2>4, <2>5, <2>6, <2>7, Zenon
<1> DEFINE p == <<prose>>
<1>3. p \in Seq(Line) /\ Len(p) = 1 /\ p[1] = prose
  BY <1>1, Single, Zenon
<1> HIDE DEF x, p, m, prose
<1>4. t \in Seq(Line) /\ Len(t) = (m + 1) + m /\ Stands(t, 0, x) /\ Stands(t, m, p) /\ Stands(t, m + 1, x)
  <2> DEFINE u == x \o p \o x
  <2>1. /\ u \in Seq(Line) /\ Len(u) = (Len(x) + Len(p)) + Len(x)
        /\ Stands(u, 0, x) /\ Stands(u, Len(x), p) /\ Stands(u, Len(x) + Len(p), x)
    BY <1>2, <1>3, BetweenTexts, Zenon DEF InOrder
  <2>2. t = u
    BY Zenon DEF p
  <2> HIDE DEF t, u
  <2> QED BY <1>2, <1>3, <2>1, <2>2, Zenon
<1> HIDE DEF t
<1>5. /\ Len(t) \in Nat /\ 0 + m <= Len(t) /\ (m + 1) + m <= Len(t) /\ 0 + m = m /\ m + 1 \in Nat
      /\ m + 1 \in 1..Len(t) /\ (m + 1) - 1 = m /\ 0 \in Nat
  BY <1>0, <1>4
<1>6. O(0) = Replies!NoFence /\ B(0) = <<>>
  <2>1. Replies!Rounds(t)[0] = Replies!Start
    BY <1>4, RoundsAreSteps, Zenon
  <2>2. Replies!Start.open = Replies!NoFence /\ Replies!Start.blocks = <<>>
    <3>1. Replies!Start \in Founds
      BY StartType
    <3> DEFINE r == [blocks |-> <<>>, open |-> Replies!NoFence, code |-> <<>>]
    <3>2. Replies!Start = r
      BY Zenon DEF Replies!Start
    <3>3. r.open = Replies!NoFence /\ r.blocks = <<>>
      BY Zenon
    <3> QED BY <3>2, <3>3, Zenon
  <2> QED BY <2>1, <2>2, Zenon
<1>7. O(m) = Replies!NoFence /\ B(m) = Append(<<>>, block)
  <2>1. O(0 + m) = Replies!NoFence /\ B(0 + m) = Append(B(0), block)
    BY <1>4, <1>5, <1>6, FencedIsRead, Zenon DEF x, m
  <2> QED BY <1>5, <1>6, <2>1, Zenon
<1>8. O(m + 1) = Replies!NoFence /\ B(m + 1) = B(m)
  <2>1. t[m + 1] = prose
    <3>1. 1 \in 1..Len(p)
      BY <1>3
    <3> QED BY <1>3, <1>4, <3>1, Zenon DEF Stands
  <2>2. Replies!Rounds(t)[m + 1] = Replies!Step(Replies!Rounds(t)[m], t[m + 1])
    BY <1>4, <1>5, RoundsAreSteps, Zenon
  <2>3. Replies!Rounds(t)[m + 1] = Replies!Rounds(t)[m]
    BY <1>1, <1>7, <2>1, <2>2, Zenon DEF Replies!Step
  <2> QED BY <1>7, <2>3, Zenon
<1>9. O((m + 1) + m) = Replies!NoFence /\ B((m + 1) + m) = Append(B(m + 1), block)
  BY <1>4, <1>5, <1>8, FencedIsRead, Zenon DEF x, m
<1>10. Replies!find_code_blocks(t) = Append(Append(<<>>, block), block)
  <2>1. O(Len(t)) = Replies!NoFence /\ B(Len(t)) = Append(Append(<<>>, block), block)
    BY <1>4, <1>7, <1>8, <1>9, Zenon
  <2> QED BY <2>1, Zenon DEF Replies!find_code_blocks, Replies!Truncated
<1>11. Append(Append(<<>>, block), block) = <<block, block>>
  <2>1. block \in {block}
    BY Zenon
  <2> HIDE DEF block
  <2> QED BY <2>1, Two, Zenon
<1>12. Replies!find_code_blocks(t) = <<block, block>>
  BY <1>10, <1>11, Zenon
<1> QED BY <1>12, Zenon DEF t, x, p, prose

\* find_code_blocks() and extract_cpp_source(), for every reply: a source that is fenced by a fence
\* longer than any in it is found as it is; a reply that is cut off at any line loses nothing it
\* has said; and what is compiled is the first of the longest blocks that may be.
THEOREM RepliesHold == InputSpec => []ReplyYieldsTheSource
<1>1. Inputs => ReplyYieldsTheSource
  <2> SUFFICES ASSUME Inputs, subject = "reply"
               PROVE  /\ Replies!SourceSurvives(input)
                      /\ Replies!CutLosesNothing(input)
                      /\ Replies!ChoosesTheSource(input)
    BY DEF ReplyYieldsTheSource
  <2>1. Elements[subject] \subseteq Line
    BY ElementsAssumption DEF Inputs, ElementsOf, Line
  <2>2. input \in Seq(Line)
    <3>1. input \in Seq(Elements[subject])
      BY DEF Inputs
    <3> QED BY <2>1, <3>1
  <2> QED BY <2>2, SourcesSurvive, CutsLoseNothing, SourceIsChosen
<1> QED BY <1>1, InputsHold, PTL

---------------------------------------------------------------------------
(* cli::Args::parse(). *)

\* A list of what was said at the places up to n is continued by what was said at n.
LEMMA ListsMore ==
  ASSUME NEW S, NEW s \in Seq(S), NEW said, NEW P \in SUBSET Nat, NEW n \in Nat \ {0}, n \in P,
         said[n] \in S, Options!Lists(s, said, P \cap (1..(n - 1)))
  PROVE  Options!Lists(Append(s, said[n]), said, P \cap (1..n))
<1> DEFINE A == P \cap (1..(n - 1))
           B == P \cap (1..n)
           t == Append(s, said[n])
<1>1. /\ B = A \cup {n} /\ n \notin A /\ n \in B
      /\ \A i \in A : i \in Nat /\ i < n
  OBVIOUS
<1>2. PICK at \in [1..Len(s) -> A] :
             /\ \A k, m \in DOMAIN s : k < m => at[k] < at[m]
             /\ \A i \in A : \E k \in DOMAIN s : at[k] = i
             /\ \A k \in DOMAIN s : s[k] = said[at[k]]
  BY Zenon DEF Options!Lists
<1>3. /\ Len(t) = Len(s) + 1 /\ Len(s) \in Nat
      /\ \A k \in 1..Len(s) : t[k] = s[k]
      /\ t[Len(s) + 1] = said[n]
      /\ DOMAIN t = 1..Len(t) /\ DOMAIN s = 1..Len(s)
  OBVIOUS
<1> HIDE DEF t, A, B
<1> DEFINE on == [k \in 1..Len(t) |-> IF k = Len(t) THEN n ELSE at[k]]
<1>4. /\ \A k \in 1..Len(s) : k \in 1..Len(t) /\ k # Len(t) /\ on[k] = at[k] /\ at[k] \in A
      /\ \A k \in 1..Len(t) : k # Len(t) => k \in 1..Len(s)
      /\ on[Len(t)] = n /\ Len(t) \in 1..Len(t)
  BY <1>2, <1>3
<1>5. on \in [1..Len(t) -> B]
  BY <1>1, <1>4
<1> HIDE DEF on
<1>6. ASSUME NEW k \in 1..Len(t), NEW m \in 1..Len(t), k < m PROVE on[k] < on[m]
  <2>1. k \in 1..Len(s) /\ k # Len(t)
    BY <1>3, <1>6
  <2>2. on[k] = at[k] /\ at[k] < n
    BY <1>1, <1>4, <2>1
  <2>3. CASE m = Len(t)
    BY <1>4, <2>2, <2>3
  <2>4. CASE m # Len(t)
    BY <1>2, <1>3, <1>4, <1>6, <2>1, <2>4
  <2> QED BY <2>3, <2>4
<1>7. ASSUME NEW i \in B PROVE \E k \in 1..Len(t) : on[k] = i
  <2>1. CASE i = n
    BY <1>4, <2>1
  <2>2. CASE i # n
    <3>1. PICK k \in DOMAIN s : at[k] = i
      BY <1>1, <1>2, <2>2
    <3> QED BY <1>3, <1>4, <3>1
  <2> QED BY <2>1, <2>2
<1>8. ASSUME NEW k \in 1..Len(t) PROVE t[k] = said[on[k]]
  <2>1. CASE k = Len(t)
    BY <1>3, <1>4, <2>1
  <2>2. CASE k # Len(t)
    <3>1. k \in 1..Len(s)
      BY <1>4, <2>2
    <3> QED BY <1>2, <1>3, <1>4, <3>1
  <2> QED BY <2>1, <2>2
<1>9. Options!Lists(t, said, B)
  <2>1. /\ \A k, m \in DOMAIN t : k < m => on[k] < on[m]
        /\ \A i \in B : \E k \in DOMAIN t : on[k] = i
        /\ \A k \in DOMAIN t : t[k] = said[on[k]]
    BY <1>3, <1>6, <1>7, <1>8
  <2> QED BY <1>5, <2>1, Zenon DEF Options!Lists
<1> QED BY <1>9 DEF t, B

LEMMA ListsSame ==
  ASSUME NEW s, NEW said, NEW P \in SUBSET Nat, NEW n \in Nat \ {0}, n \notin P,
         Options!Lists(s, said, P \cap (1..(n - 1)))
  PROVE  Options!Lists(s, said, P \cap (1..n))
<1>1. P \cap (1..n) = P \cap (1..(n - 1))
  OBVIOUS
<1> QED BY <1>1, Zenon

LEMMA ListsNothing == ASSUME NEW said, NEW P PROVE Options!Lists(<<>>, said, P \cap (1..0))
<1>1. P \cap (1..0) = {} /\ 1..Len(<<>>) = {} /\ DOMAIN <<>> = {}
  OBVIOUS
<1>2. [k \in {} |-> 0] \in [1..Len(<<>>) -> P \cap (1..0)]
  BY <1>1
<1> QED BY <1>1, <1>2, Zenon DEF Options!Lists

\* The last of a list is what was said at the last place.
LEMMA ListsLast ==
  ASSUME NEW S, NEW s \in Seq(S), NEW said, NEW P \in SUBSET Nat, Options!Lists(s, said, P)
  PROVE  /\ P = {} => s = <<>>
         /\ P # {} => s # <<>> /\ \E i \in P : (\A j \in P : j <= i) /\ s[Len(s)] = said[i]
<1>1. PICK at \in [1..Len(s) -> P] :
             /\ \A k, m \in DOMAIN s : k < m => at[k] < at[m]
             /\ \A i \in P : \E k \in DOMAIN s : at[k] = i
             /\ \A k \in DOMAIN s : s[k] = said[at[k]]
  BY Zenon DEF Options!Lists
<1>2. DOMAIN s = 1..Len(s) /\ Len(s) \in Nat
  OBVIOUS
<1>3. CASE P = {}
  <2>1. Len(s) = 0
    <3>1. ~(1 \in 1..Len(s))
      BY <1>1, <1>3
    <3> QED BY <1>2, <3>1
  <2> QED BY <1>3, <2>1
<1>4. CASE P # {}
  <2>1. Len(s) \in DOMAIN s
    <3>1. PICK k \in DOMAIN s : TRUE
      BY <1>1, <1>4
    <3> QED BY <1>2, <3>1
  <2>2. at[Len(s)] \in P /\ s[Len(s)] = said[at[Len(s)]] /\ s # <<>>
    BY <1>1, <1>2, <2>1
  <2>3. ASSUME NEW j \in P PROVE j <= at[Len(s)]
    <3>1. PICK k \in DOMAIN s : at[k] = j
      BY <1>1
    <3>2. k = Len(s) \/ k < Len(s)
      BY <1>2
    <3>3. at[k] = at[Len(s)] \/ at[k] < at[Len(s)]
      BY <1>1, <2>1, <3>2
    <3>4. at[k] \in Nat /\ at[Len(s)] \in Nat
      BY <2>2, <3>1
    <3> QED BY <3>1, <3>3, <3>4
  <2> QED BY <1>4, <2>2, <2>3
<1> QED BY <1>3, <1>4

\* The results of the rounds.
Argument == Options!Arguments
Said == {"", "does not take a value", "unknown option"}
Results ==
    [positional : Seq(Argument), flags : SUBSET flags, values : [value_options -> Seq(Argument)],
     options_done : BOOLEAN, pending : SUBSET value_options, error : Said]

LEMMA ValueIsArgument ==
  ASSUME NEW x \in Argument
  PROVE  /\ x.kind \in {"word", "option", "end", "inline"}
         /\ x.kind = "inline" => x.value \in Argument
         /\ x.kind = "end" <=> x = Options!End
<1> DEFINE k == x.kind
<1>0. Options!End.kind = "end"
  BY DEF Options!End
<1>1. CASE x \in [kind : {"word", "option"}, name : STRING]
  <2>1. k \in {"word", "option"}
    BY <1>1
  <2> HIDE DEF k
  <2>2. k # "end" /\ k # "inline"
    BY <2>1
  <2>3. x # Options!End
    BY <1>0, <2>2, Zenon DEF k
  <2> QED BY <2>1, <2>2, <2>3, Zenon DEF k
<1>2. CASE x = Options!End
  <2>1. k = "end"
    BY <1>0, <1>2, Zenon
  <2> HIDE DEF k
  <2>2. k \in {"word", "option", "end", "inline"} /\ k # "inline"
    BY <2>1
  <2> QED BY <1>2, <2>1, <2>2, Zenon DEF k
<1>3. CASE x \in [kind : {"inline"}, name : STRING, value : Options!Plain]
  <2>1. k = "inline" /\ x.value \in Options!Plain
    BY <1>3
  <2>2. x.value \in Argument
    BY <2>1, Zenon DEF Argument, Options!Arguments
  <2> HIDE DEF k
  <2>3. k \in {"word", "option", "end", "inline"} /\ k # "end"
    BY <2>1
  <2>4. x # Options!End
    BY <1>0, <2>3, Zenon DEF k
  <2> QED BY <2>2, <2>3, <2>4, Zenon DEF k
<1> QED BY <1>1, <1>2, <1>3, Zenon DEF Argument, Options!Arguments, Options!Plain

\* An option is given a value.
Takes(r, q, name, x) ==
    /\ q.positional = r.positional /\ q.flags = r.flags /\ q.options_done = r.options_done
    /\ q.pending = {} /\ q.values = [r.values EXCEPT ![name] = Append(r.values[name], x)]

LEMMA TakeType ==
  ASSUME NEW r \in Results, NEW name \in value_options, NEW x \in Argument
  PROVE  /\ Options!Take(r, name, x) \in Results
         /\ Takes(r, Options!Take(r, name, x), name, x)
<1> DEFINE v == [r.values EXCEPT ![name] = Append(r.values[name], x)]
<1>1. r.values \in [value_options -> Seq(Argument)]
  BY DEF Results
<1>2. Append(r.values[name], x) \in Seq(Argument)
  BY <1>1
<1>3. v \in [value_options -> Seq(Argument)]
  BY <1>1, <1>2
<1>4. Options!Take(r, name, x) = [[r EXCEPT !.values = v] EXCEPT !.pending = {}]
  <2>1. Options!Take(r, name, x) = [r EXCEPT !.values[name] = Append(@, x), !.pending = {}]
    BY Zenon DEF Options!Take
  <2>2. [r EXCEPT !.values[name] = Append(@, x), !.pending = {}] = [[r EXCEPT !.values = v] EXCEPT !.pending = {}]
    OBVIOUS
  <2> QED BY <2>1, <2>2, Zenon
<1> HIDE DEF v
<1>5. [[r EXCEPT !.values = v] EXCEPT !.pending = {}] \in Results
  BY <1>3 DEF Results
<1>6. ASSUME NEW q, q = [[r EXCEPT !.values = v] EXCEPT !.pending = {}]
      PROVE  /\ q.positional = r.positional /\ q.flags = r.flags /\ q.options_done = r.options_done
             /\ q.pending = {} /\ q.values = v
  BY <1>3, <1>6 DEF Results
<1> QED BY <1>4, <1>5, <1>6, Zenon DEF v, Takes

\* What a round does with an argument, as long as nothing is wrong.
ValueCase(r, x, q) ==
    \E name \in r.pending : Takes(r, q, name, x)
WordCase(r, x, q) ==
    /\ r.pending = {} /\ (r.options_done \/ x.kind = "word")
    /\ q.positional = Append(r.positional, x)
    /\ q.flags = r.flags /\ q.values = r.values /\ q.options_done = r.options_done /\ q.pending = {}
EndCase(r, x, q) ==
    /\ r.pending = {} /\ ~r.options_done /\ x = Options!End
    /\ q.positional = r.positional /\ q.flags = r.flags /\ q.values = r.values
    /\ q.options_done = TRUE /\ q.pending = {}
FlagCase(r, x, q) ==
    /\ r.pending = {} /\ ~r.options_done /\ x.kind = "option" /\ x.name \in flags
    /\ q.flags = r.flags \cup {x.name}
    /\ q.positional = r.positional /\ q.values = r.values /\ q.options_done = r.options_done /\ q.pending = {}
InlineCase(r, x, q) ==
    /\ r.pending = {} /\ ~r.options_done /\ x.kind = "inline" /\ x.name \in value_options \ flags
    /\ Takes(r, q, x.name, x.value)
OptionCase(r, x, q) ==
    /\ r.pending = {} /\ ~r.options_done /\ x.kind = "option" /\ x.name \in value_options \ flags
    /\ q.positional = r.positional /\ q.flags = r.flags /\ q.values = r.values
    /\ q.options_done = r.options_done /\ q.pending = {x.name}

LEMMA ParseArgType ==
  ASSUME NEW r \in Results, NEW x \in Argument PROVE Options!ParseArg(r, x) \in Results
<1> DEFINE p == CHOOSE name \in r.pending : TRUE
<1>1. r.pending # {} => p \in value_options
  BY DEF Results
<1>2. Append(r.positional, x) \in Seq(Argument)
  BY DEF Results
<1>3. r.pending # {} => Options!Take(r, p, x) \in Results
  BY <1>1, TakeType
<1>4. x.name \in value_options /\ x.kind = "inline" => Options!Take(r, x.name, x.value) \in Results
  BY ValueIsArgument, TakeType
<1>5. /\ [r EXCEPT !.positional = Append(@, x)] \in Results
      /\ [r EXCEPT !.options_done = TRUE] \in Results
      /\ [r EXCEPT !.error = "does not take a value"] \in Results
      /\ [r EXCEPT !.error = "unknown option"] \in Results
      /\ x.name \in flags => [r EXCEPT !.flags = @ \cup {x.name}] \in Results
      /\ x.name \in value_options => [r EXCEPT !.pending = {x.name}] \in Results
  BY <1>2 DEF Results, Said
<1> HIDE DEF p
<1> QED BY <1>1, <1>3, <1>4, <1>5, Zenon DEF Options!ParseArg, Options!Pending, Options!Verbatim, p

LEMMA ParseArgCases ==
  ASSUME NEW r \in Results, NEW x \in Argument, NEW q, q = Options!ParseArg(r, x), q.error = ""
  PROVE  /\ r.error = ""
         /\ \/ ValueCase(r, x, q)
            \/ WordCase(r, x, q)
            \/ EndCase(r, x, q)
            \/ FlagCase(r, x, q)
            \/ InlineCase(r, x, q)
            \/ OptionCase(r, x, q)
<1> DEFINE p == CHOOSE name \in r.pending : TRUE
<1>1. r.pending # {} => p \in value_options /\ p \in r.pending
  BY DEF Results
<1>2. r.error = ""
  BY DEF Options!ParseArg
<1>3. CASE r.pending # {}
  <2>1. q = Options!Take(r, p, x)
    BY <1>2, <1>3, Zenon DEF Options!ParseArg, Options!Pending, p
  <2> HIDE DEF p
  <2>2. Takes(r, q, p, x)
    BY <1>1, <1>3, <2>1, TakeType, Zenon
  <2> QED BY <1>1, <1>2, <1>3, <2>2, Zenon DEF ValueCase
<1>4. CASE r.pending = {} /\ (r.options_done \/ x.kind = "word")
  <2>1. q = [r EXCEPT !.positional = Append(@, x)]
    BY <1>2, <1>4, Zenon DEF Options!ParseArg, Options!Pending, Options!Verbatim
  <2>2. WordCase(r, x, q)
    BY <1>4, <2>1 DEF WordCase, Results
  <2> QED BY <1>2, <2>2
<1>5. CASE r.pending = {} /\ ~(r.options_done \/ x.kind = "word") /\ x = Options!End
  <2>1. q = [r EXCEPT !.options_done = TRUE]
    BY <1>2, <1>5, Zenon DEF Options!ParseArg, Options!Pending, Options!Verbatim
  <2>2. EndCase(r, x, q)
    BY <1>5, <2>1 DEF EndCase, Results
  <2> QED BY <1>2, <2>2
<1>6. CASE r.pending = {} /\ ~(r.options_done \/ x.kind = "word") /\ x # Options!End /\ x.name \in flags
  <2>0. "does not take a value" # ""
    OBVIOUS
  <2>1. x.kind # "inline" /\ q = [r EXCEPT !.flags = @ \cup {x.name}]
    <3>1. CASE x.kind = "inline"
      <4>1. q = [r EXCEPT !.error = "does not take a value"]
        BY <1>2, <1>6, <3>1, Zenon DEF Options!ParseArg, Options!Pending, Options!Verbatim
      <4> QED BY <4>1 DEF Results
    <3>2. CASE x.kind # "inline"
      BY <1>2, <1>6, <3>2, Zenon DEF Options!ParseArg, Options!Pending, Options!Verbatim
    <3> QED BY <3>1, <3>2
  <2>2. x.kind = "option"
    BY <1>6, <2>1, ValueIsArgument
  <2>3. FlagCase(r, x, q)
    BY <1>6, <2>1, <2>2 DEF FlagCase, Results
  <2> QED BY <1>2, <2>3
<1>7. CASE /\ r.pending = {} /\ ~(r.options_done \/ x.kind = "word") /\ x # Options!End
           /\ x.name \notin flags /\ x.name \in value_options
  <2>1. CASE x.kind = "inline"
    <3>1. q = Options!Take(r, x.name, x.value)
      BY <1>2, <1>7, <2>1, Zenon DEF Options!ParseArg, Options!Pending, Options!Verbatim
    <3>2. Takes(r, q, x.name, x.value)
      BY <1>7, <2>1, <3>1, TakeType, ValueIsArgument, Zenon
    <3> QED BY <1>2, <1>7, <2>1, <3>2 DEF InlineCase
  <2>2. CASE x.kind # "inline"
    <3>1. q = [r EXCEPT !.pending = {x.name}]
      BY <1>2, <1>7, <2>2, Zenon DEF Options!ParseArg, Options!Pending, Options!Verbatim
    <3>2. x.kind = "option"
      BY <1>7, <2>2, ValueIsArgument
    <3>3. OptionCase(r, x, q)
      BY <1>7, <3>1, <3>2 DEF OptionCase, Results
    <3> QED BY <1>2, <3>3
  <2> QED BY <2>1, <2>2
<1>8. CASE /\ r.pending = {} /\ ~(r.options_done \/ x.kind = "word") /\ x # Options!End
           /\ x.name \notin flags /\ x.name \notin value_options
  <2>1. q = [r EXCEPT !.error = "unknown option"]
    BY <1>2, <1>8, Zenon DEF Options!ParseArg, Options!Pending, Options!Verbatim
  <2> QED BY <2>1 DEF Results
<1> QED BY <1>3, <1>4, <1>5, <1>6, <1>7, <1>8

LEMMA ArgumentRounds ==
  ASSUME NEW args \in Seq(Argument)
  PROVE  /\ Options!Rounds(args) \in [0..Len(args) -> Results]
         /\ Options!Rounds(args)[0] = Options!Nothing
         /\ \A n \in 1..Len(args) :
                Options!Rounds(args)[n] = Options!ParseArg(Options!Rounds(args)[n - 1], args[n])
<1> DEFINE D == [p \in Results \X (1..Len(args)) |-> Options!ParseArg(p[1], args[p[2]])]
           Is(f) == f = [n \in 0..Len(args) |->
                            IF n = 0 THEN Options!Nothing ELSE Options!ParseArg(f[n - 1], args[n])]
           rounds == CHOOSE f : Is(f)
<1>0. Len(args) \in Nat
  OBVIOUS
<1>s. Options!Nothing \in Results
  <2>1. [name \in value_options |-> <<>>] \in [value_options -> Seq(Argument)]
    OBVIOUS
  <2>2. <<>> \in Seq(Argument)
    OBVIOUS
  <2>3. ASSUME NEW v \in [value_options -> Seq(Argument)], NEW w \in Seq(Argument), NEW b \in BOOLEAN
        PROVE  [positional |-> w, flags |-> {}, values |-> v, options_done |-> b, pending |-> {}, error |-> ""]
                 \in Results
    BY DEF Results, Said
  <2> QED BY <2>1, <2>2, <2>3, Zenon DEF Options!Nothing
<1>1. D \in [Results \X (1..Len(args)) -> Results]
  <2> SUFFICES ASSUME NEW r \in Results, NEW n \in 1..Len(args)
               PROVE  Options!ParseArg(r, args[n]) \in Results
    OBVIOUS
  <2>1. args[n] \in Argument
    OBVIOUS
  <2> QED BY <2>1, ParseArgType
<1>2. PICK g \in [0..Len(args) -> Results] : Iterates(g, Options!Nothing, Len(args), D)
  <2> HIDE DEF D
  <2> QED BY <1>0, <1>1, <1>s, RecursiveUpTo, Zenon
<1>3. ASSUME NEW n \in 1..Len(args) PROVE g[n] = Options!ParseArg(g[n - 1], args[n])
  <2>1. n - 1 \in 0..Len(args)
    BY <1>0
  <2>2. g[n - 1] \in Results
    BY <2>1
  <2> QED BY <1>2, <2>2 DEF Iterates
<1>4. Is(g)
  <2>1. \A n \in 0..Len(args) : n # 0 => n \in 1..Len(args)
    BY <1>0
  <2> QED BY <1>2, <1>3, <2>1 DEF Iterates
<1> HIDE DEF Is
<1>5. Is(rounds)
  BY <1>4
<1> HIDE DEF rounds
<1>6. Options!Rounds(args) = rounds
  BY DEF Options!Rounds, rounds, Is
<1>7. rounds[0] = Options!Nothing
  BY <1>0, <1>5 DEF Is
<1>8. ASSUME NEW n \in 1..Len(args) PROVE rounds[n] = Options!ParseArg(rounds[n - 1], args[n])
  <2>1. n \in 0..Len(args) /\ n # 0
    BY <1>0
  <2> QED BY <1>5, <2>1 DEF Is
<1> DEFINE T == {n \in 0..Len(args) : rounds[n] \in Results}
<1>9. 0 \in T
  BY <1>0, <1>7, <1>s
<1>10. ASSUME NEW n \in 1..Len(args), n - 1 \in T PROVE n \in T
  <2>1. args[n] \in Argument /\ rounds[n - 1] \in Results /\ n \in 0..Len(args)
    BY <1>0, <1>10
  <2> QED BY <2>1, <1>8, ParseArgType
<1>11. T \in SUBSET (0..Len(args))
  OBVIOUS
<1> HIDE DEF T
<1>12. T = 0..Len(args)
  BY <1>0, <1>9, <1>10, <1>11, IndUpTo
<1>13. rounds \in [0..Len(args) -> Results]
  <2>1. rounds = [n \in 0..Len(args) |->
                     IF n = 0 THEN Options!Nothing ELSE Options!ParseArg(rounds[n - 1], args[n])]
    BY <1>5 DEF Is
  <2>2. \A n \in 0..Len(args) : rounds[n] \in Results
    BY <1>12 DEF T
  <2> QED BY <2>1, <2>2
<1> QED BY <1>6, <1>7, <1>8, <1>13

\* The places of EachArgumentHasOnePart, where V are those of the values.
AfterEnd(args, V, i) == \E j \in (1..(i - 1)) \ V : args[j] = Options!End
Alone(args, V) == {i \in DOMAIN args \ V : ~AfterEnd(args, V, i)}
Asks(args, V, i) ==
    i \in Alone(args, V) /\ args[i].kind = "option" /\ args[i].name \in value_options \ flags
GivenTo(args, V, name) ==
    {i \in V : args[i - 1].name = name}
    \cup {i \in Alone(args, V) : args[i].kind = "inline" /\ args[i].name = name}
WordsOf(args, V) == {i \in DOMAIN args \ V : AfterEnd(args, V, i) \/ args[i].kind = "word"}
SaidIn(args, V) == [i \in DOMAIN args |-> IF i \in V THEN args[i] ELSE args[i].value]
Raised(args, V, n) ==
    {args[i].name : i \in {j \in Alone(args, V) \cap (1..n) : args[j].kind = "option"}} \cap flags

\* The rounds have made r of the first n arguments.
Parsed(args, V, n, r) ==
    /\ r.options_done <=> AfterEnd(args, V, n + 1)
    /\ r.pending = IF n # 0 /\ Asks(args, V, n) THEN {args[n].name} ELSE {}
    /\ Options!Lists(r.positional, args, WordsOf(args, V) \cap (1..n))
    /\ r.flags = Raised(args, V, n)
    /\ \A name \in value_options :
           Options!Lists(r.values[name], SaidIn(args, V), GivenTo(args, V, name) \cap (1..n))

LEMMA EndedAt ==
  ASSUME NEW args \in Seq(Argument), NEW V \in SUBSET (1..Len(args)), NEW n \in 1..Len(args)
  PROVE  AfterEnd(args, V, n + 1) <=> AfterEnd(args, V, n) \/ (n \notin V /\ args[n] = Options!End)
<1>1. (n + 1) - 1 = n /\ n \in 1..n
  OBVIOUS
<1>2. \A j : j \in 1..n <=> j \in 1..(n - 1) \/ j = n
  OBVIOUS
<1> QED BY <1>1, <1>2, Zenon DEF AfterEnd

LEMMA AloneAt ==
  ASSUME NEW args \in Seq(Argument), NEW V \in SUBSET (1..Len(args)), NEW n \in 1..Len(args)
  PROVE  /\ n \in Alone(args, V) <=> n \notin V /\ ~AfterEnd(args, V, n)
         /\ n \in WordsOf(args, V) <=> n \notin V /\ (AfterEnd(args, V, n) \/ args[n].kind = "word")
<1>1. n \in DOMAIN args
  OBVIOUS
<1>2. n \in Alone(args, V) <=> n \notin V /\ ~AfterEnd(args, V, n)
  BY <1>1, Zenon DEF Alone
<1>3. n \in WordsOf(args, V) <=> n \notin V /\ (AfterEnd(args, V, n) \/ args[n].kind = "word")
  BY <1>1, Zenon DEF WordsOf
<1> QED BY <1>2, <1>3

LEMMA GivenAt ==
  ASSUME NEW args \in Seq(Argument), NEW V \in SUBSET (1..Len(args)), NEW n \in 1..Len(args), NEW name
  PROVE  n \in GivenTo(args, V, name) <=>
             \/ n \in V /\ args[n - 1].name = name
             \/ n \in Alone(args, V) /\ args[n].kind = "inline" /\ args[n].name = name
  BY Zenon DEF GivenTo

LEMMA WordPlaces ==
  ASSUME NEW args \in Seq(Argument), NEW V \in SUBSET (1..Len(args))
  PROVE  WordsOf(args, V) \in SUBSET Nat
<1>1. DOMAIN args = 1..Len(args) /\ 1..Len(args) \subseteq Nat
  OBVIOUS
<1>2. WordsOf(args, V) \subseteq 1..Len(args)
  BY <1>1, Zenon DEF WordsOf
<1> QED BY <1>1, <1>2

LEMMA GivenPlaces ==
  ASSUME NEW args \in Seq(Argument), NEW V \in SUBSET (1..Len(args)), NEW name
  PROVE  GivenTo(args, V, name) \in SUBSET Nat
<1>1. DOMAIN args = 1..Len(args) /\ 1..Len(args) \subseteq Nat
  OBVIOUS
<1>2. Alone(args, V) \subseteq 1..Len(args)
  BY <1>1, Zenon DEF Alone
<1>3. GivenTo(args, V, name) \subseteq 1..Len(args)
  BY <1>2, Zenon DEF GivenTo
<1> QED BY <1>1, <1>3

LEMMA RaisedAt ==
  ASSUME NEW args \in Seq(Argument), NEW V \in SUBSET (1..Len(args)), NEW n \in 1..Len(args)
  PROVE  /\ n \in Alone(args, V) /\ args[n].kind = "option" /\ args[n].name \in flags =>
                Raised(args, V, n) = Raised(args, V, n - 1) \cup {args[n].name}
         /\ ~(n \in Alone(args, V) /\ args[n].kind = "option" /\ args[n].name \in flags) =>
                Raised(args, V, n) = Raised(args, V, n - 1)
<1>1. \A j : j \in 1..n <=> j \in 1..(n - 1) \/ j = n
  OBVIOUS
<1> DEFINE Flag(j, f) == j \in Alone(args, V) /\ args[j].kind = "option" /\ args[j].name = f
<1>2. ASSUME NEW m, NEW f PROVE f \in Raised(args, V, m) <=> f \in flags /\ \E j \in 1..m : Flag(j, f)
  BY Zenon DEF Raised
<1>3. ASSUME NEW f
      PROVE  f \in Raised(args, V, n) <=> f \in Raised(args, V, n - 1) \/ (f \in flags /\ Flag(n, f))
  <2>1. (\E j \in 1..n : Flag(j, f)) <=> (\E j \in 1..(n - 1) : Flag(j, f)) \/ Flag(n, f)
    BY <1>1, Zenon
  <2> QED BY <1>2, <2>1, Zenon
<1>4. CASE n \in Alone(args, V) /\ args[n].kind = "option" /\ args[n].name \in flags
  <2>1. \A f : f \in Raised(args, V, n) <=> f \in Raised(args, V, n - 1) \cup {args[n].name}
    BY <1>3, <1>4, Zenon
  <2> QED BY <1>4, <2>1
<1>5. CASE ~(n \in Alone(args, V) /\ args[n].kind = "option" /\ args[n].name \in flags)
  <2>1. \A f : f \in Raised(args, V, n) <=> f \in Raised(args, V, n - 1)
    BY <1>3, <1>5, Zenon
  <2> QED BY <1>5, <2>1
<1> QED BY <1>4, <1>5

\* The lists after argument n.
LEMMA PositionalsAt ==
  ASSUME NEW args \in Seq(Argument), NEW V \in SUBSET (1..Len(args)), NEW n \in 1..Len(args),
         NEW s \in Seq(Argument), Options!Lists(s, args, WordsOf(args, V) \cap (1..(n - 1)))
  PROVE  /\ n \in WordsOf(args, V) =>
                Options!Lists(Append(s, args[n]), args, WordsOf(args, V) \cap (1..n))
         /\ n \notin WordsOf(args, V) => Options!Lists(s, args, WordsOf(args, V) \cap (1..n))
<1>1. args[n] \in Argument
  OBVIOUS
<1> DEFINE P == WordsOf(args, V)
<1>2. n \in Nat \ {0} /\ P \in SUBSET Nat
  <2>1. n \in Nat \ {0}
    OBVIOUS
  <2>2. P \in SUBSET Nat
    BY WordPlaces, Zenon
  <2> QED BY <2>1, <2>2
<1>3. Options!Lists(s, args, P \cap (1..(n - 1)))
  OBVIOUS
<1> HIDE DEF P
<1>4. n \in P => Options!Lists(Append(s, args[n]), args, P \cap (1..n))
  BY <1>1, <1>2, <1>3, ListsMore, Zenon
<1>5. n \notin P => Options!Lists(s, args, P \cap (1..n))
  BY <1>2, <1>3, ListsSame, Zenon
<1> QED BY <1>4, <1>5, Zenon DEF P

LEMMA ValuesAt ==
  ASSUME NEW args \in Seq(Argument), NEW V \in SUBSET (1..Len(args)), NEW n \in 1..Len(args), NEW name,
         NEW s \in Seq(Argument),
         Options!Lists(s, SaidIn(args, V), GivenTo(args, V, name) \cap (1..(n - 1)))
  PROVE  /\ n \in GivenTo(args, V, name) /\ SaidIn(args, V)[n] \in Argument =>
                Options!Lists(Append(s, SaidIn(args, V)[n]), SaidIn(args, V), GivenTo(args, V, name) \cap (1..n))
         /\ n \notin GivenTo(args, V, name) =>
                Options!Lists(s, SaidIn(args, V), GivenTo(args, V, name) \cap (1..n))
<1> DEFINE P == GivenTo(args, V, name)
           said == SaidIn(args, V)
<1>2. n \in Nat \ {0} /\ P \in SUBSET Nat
  <2>1. n \in Nat \ {0}
    OBVIOUS
  <2>2. P \in SUBSET Nat
    BY GivenPlaces, Zenon
  <2> QED BY <2>1, <2>2
<1>3. Options!Lists(s, said, P \cap (1..(n - 1)))
  OBVIOUS
<1> HIDE DEF P, said
<1>4. n \in P /\ said[n] \in Argument => Options!Lists(Append(s, said[n]), said, P \cap (1..n))
  BY <1>2, <1>3, ListsMore, Zenon
<1>5. n \notin P => Options!Lists(s, said, P \cap (1..n))
  BY <1>2, <1>3, ListsSame, Zenon
<1> QED BY <1>4, <1>5, Zenon DEF P, said

\* A value is given to one option.
LEMMA ValuesTaken ==
  ASSUME NEW args \in Seq(Argument), NEW V \in SUBSET (1..Len(args)), NEW n \in 1..Len(args),
         NEW r \in Results, NEW q \in Results, NEW name \in value_options, NEW x \in Argument,
         \A other : n \in GivenTo(args, V, other) <=> other = name, SaidIn(args, V)[n] = x, Takes(r, q, name, x),
         \A other \in value_options :
             Options!Lists(r.values[other], SaidIn(args, V), GivenTo(args, V, other) \cap (1..(n - 1)))
  PROVE  \A other \in value_options :
             Options!Lists(q.values[other], SaidIn(args, V), GivenTo(args, V, other) \cap (1..n))
<1> SUFFICES ASSUME NEW other \in value_options
             PROVE  Options!Lists(q.values[other], SaidIn(args, V), GivenTo(args, V, other) \cap (1..n))
  OBVIOUS
<1>1. r.values \in [value_options -> Seq(Argument)] /\ r.values[other] \in Seq(Argument)
  BY DEF Results
<1>2. q.values = [r.values EXCEPT ![name] = Append(r.values[name], x)]
  BY Zenon DEF Takes
<1>3. q.values[other] = IF other = name THEN Append(r.values[other], x) ELSE r.values[other]
  BY <1>1, <1>2
<1> QED BY <1>1, <1>3, ValuesAt, Zenon

LEMMA ValuesLeft ==
  ASSUME NEW args \in Seq(Argument), NEW V \in SUBSET (1..Len(args)), NEW n \in 1..Len(args),
         NEW r \in Results, NEW q \in Results, \A other : n \notin GivenTo(args, V, other), q.values = r.values,
         \A other \in value_options :
             Options!Lists(r.values[other], SaidIn(args, V), GivenTo(args, V, other) \cap (1..(n - 1)))
  PROVE  \A other \in value_options :
             Options!Lists(q.values[other], SaidIn(args, V), GivenTo(args, V, other) \cap (1..n))
<1> SUFFICES ASSUME NEW other \in value_options
             PROVE  Options!Lists(q.values[other], SaidIn(args, V), GivenTo(args, V, other) \cap (1..n))
  OBVIOUS
<1>1. r.values[other] \in Seq(Argument)
  BY DEF Results
<1> QED BY <1>1, ValuesAt, Zenon

\* A round with an argument that is a value, and one with an argument that is not.
LEMMA ValueRead ==
  ASSUME NEW args \in Seq(Argument), NEW V \in SUBSET (1..Len(args)), NEW n \in 1..Len(args),
         NEW r \in Results, NEW q \in Results, Parsed(args, V, n - 1, r), n \in V <=> r.pending # {},
         ValueCase(r, args[n], q)
  PROVE  Parsed(args, V, n, q)
<1> DEFINE x == args[n]
<1>p. /\ n \in Nat \ {0} /\ n - 1 \in Nat /\ DOMAIN args = 1..Len(args) /\ (n - 1) + 1 = n /\ x \in Argument
      /\ n - 1 # 0 => n - 1 \in 1..Len(args)
  OBVIOUS
<1>1. PICK name \in r.pending : Takes(r, q, name, x)
  BY Zenon DEF ValueCase
<1>2. n - 1 # 0 /\ Asks(args, V, n - 1) /\ name = args[n - 1].name /\ n \in V
  BY <1>1, Zenon DEF Parsed
<1>3. name \in value_options
  BY <1>2 DEF Asks
<1>4. n - 1 \in Alone(args, V) /\ args[n - 1].kind = "option" /\ args[n - 1] \in Argument
  <2>1. n - 1 \in 1..Len(args)
    BY <1>2, <1>p
  <2>2. args[n - 1] \in Argument
    BY <2>1
  <2> QED BY <1>2, <2>2, Zenon DEF Asks
<1>5. ~AfterEnd(args, V, n)
  <2>1. ~AfterEnd(args, V, n - 1)
    BY <1>4, Zenon DEF Alone
  <2>2. args[n - 1] # Options!End
    <3>1. args[n - 1].kind # "end"
      BY <1>4
    <3> QED BY <1>4, <3>1, ValueIsArgument
  <2>3. n - 1 \in 1..Len(args) /\ (n - 1) + 1 = n
    BY <1>2, <1>p
  <2>4. AfterEnd(args, V, (n - 1) + 1) <=> AfterEnd(args, V, n - 1) \/ (n - 1 \notin V /\ args[n - 1] = Options!End)
    BY <2>3, EndedAt, Zenon
  <2> QED BY <2>1, <2>2, <2>3, <2>4, Zenon
<1>6. n \notin Alone(args, V) /\ n \notin WordsOf(args, V) /\ ~AfterEnd(args, V, n + 1)
  <2>1. /\ n \in Alone(args, V) <=> n \notin V /\ ~AfterEnd(args, V, n)
        /\ n \in WordsOf(args, V) <=> n \notin V /\ (AfterEnd(args, V, n) \/ args[n].kind = "word")
    BY AloneAt, Zenon
  <2>2. AfterEnd(args, V, n + 1) <=> AfterEnd(args, V, n) \/ (n \notin V /\ args[n] = Options!End)
    BY EndedAt, Zenon
  <2> QED BY <1>2, <1>5, <2>1, <2>2, Zenon
<1>7. \A other : n \in GivenTo(args, V, other) <=> other = name
  <2>1. ASSUME NEW other PROVE n \in GivenTo(args, V, other) <=> other = name
    <3>1. n \in GivenTo(args, V, other) <=>
             \/ n \in V /\ args[n - 1].name = other
             \/ n \in Alone(args, V) /\ args[n].kind = "inline" /\ args[n].name = other
      BY Zenon DEF GivenTo
    <3> QED BY <1>2, <1>6, <3>1, Zenon
  <2> QED BY <2>1
<1>8. SaidIn(args, V)[n] = x
  BY <1>2, <1>p, Zenon DEF SaidIn
<1>9. /\ q.positional = r.positional /\ q.flags = r.flags /\ q.options_done = r.options_done /\ q.pending = {}
  BY <1>1, Zenon DEF Takes
<1>10. Options!Lists(q.positional, args, WordsOf(args, V) \cap (1..n))
  <2>1. r.positional \in Seq(Argument)
    BY DEF Results
  <2>2. Options!Lists(r.positional, args, WordsOf(args, V) \cap (1..(n - 1)))
    BY Zenon DEF Parsed
  <2> QED BY <1>6, <1>9, <2>1, <2>2, PositionalsAt, Zenon
<1>11. q.flags = Raised(args, V, n)
  <2>1. r.flags = Raised(args, V, n - 1)
    BY Zenon DEF Parsed
  <2> QED BY <1>6, <1>9, <2>1, RaisedAt, Zenon
<1>12. \A other \in value_options :
             Options!Lists(q.values[other], SaidIn(args, V), GivenTo(args, V, other) \cap (1..n))
  <2>1. \A other \in value_options :
             Options!Lists(r.values[other], SaidIn(args, V), GivenTo(args, V, other) \cap (1..(n - 1)))
    BY Zenon DEF Parsed
  <2> QED BY <1>1, <1>3, <1>7, <1>8, <1>p, <2>1, ValuesTaken, Zenon
<1>13. q.options_done <=> AfterEnd(args, V, n + 1)
  <2>1. r.options_done <=> AfterEnd(args, V, n)
    BY <1>p, Zenon DEF Parsed
  <2> QED BY <1>5, <1>6, <1>9, <2>1, Zenon
<1>14. q.pending = IF n # 0 /\ Asks(args, V, n) THEN {args[n].name} ELSE {}
  BY <1>6, <1>9, Zenon DEF Asks
<1> QED BY <1>10, <1>11, <1>12, <1>13, <1>14, Zenon DEF Parsed

LEMMA OtherRead ==
  ASSUME NEW args \in Seq(Argument), NEW V \in SUBSET (1..Len(args)), NEW n \in 1..Len(args),
         NEW r \in Results, NEW q \in Results, Parsed(args, V, n - 1, r), n \in V <=> r.pending # {},
         \/ WordCase(r, args[n], q)
         \/ EndCase(r, args[n], q)
         \/ FlagCase(r, args[n], q)
         \/ InlineCase(r, args[n], q)
         \/ OptionCase(r, args[n], q)
  PROVE  Parsed(args, V, n, q)
<1> DEFINE x == args[n]
<1>p. /\ n \in Nat \ {0} /\ n - 1 \in Nat /\ DOMAIN args = 1..Len(args) /\ (n - 1) + 1 = n /\ x \in Argument
  OBVIOUS
<1>v. n \notin V
  BY Zenon DEF WordCase, EndCase, FlagCase, InlineCase, OptionCase
<1>k. /\ x.kind = "inline" => x.value \in Argument
      /\ x.kind = "end" <=> x = Options!End
  BY <1>p, ValueIsArgument
<1>1. /\ r.options_done <=> AfterEnd(args, V, n)
      /\ Options!Lists(r.positional, args, WordsOf(args, V) \cap (1..(n - 1)))
      /\ r.flags = Raised(args, V, n - 1)
      /\ \A other \in value_options :
             Options!Lists(r.values[other], SaidIn(args, V), GivenTo(args, V, other) \cap (1..(n - 1)))
  BY <1>p, Zenon DEF Parsed
<1>2. /\ AfterEnd(args, V, n + 1) <=> AfterEnd(args, V, n) \/ x = Options!End
      /\ n \in Alone(args, V) <=> ~AfterEnd(args, V, n)
      /\ n \in WordsOf(args, V) <=> AfterEnd(args, V, n) \/ x.kind = "word"
      /\ \A name : n \in GivenTo(args, V, name) <=>
                       ~AfterEnd(args, V, n) /\ x.kind = "inline" /\ x.name = name
  <2>1. /\ n \in Alone(args, V) <=> n \notin V /\ ~AfterEnd(args, V, n)
        /\ n \in WordsOf(args, V) <=> n \notin V /\ (AfterEnd(args, V, n) \/ args[n].kind = "word")
    BY AloneAt, Zenon
  <2>2. AfterEnd(args, V, n + 1) <=> AfterEnd(args, V, n) \/ (n \notin V /\ args[n] = Options!End)
    BY EndedAt, Zenon
  <2>3. ASSUME NEW name
        PROVE  n \in GivenTo(args, V, name) <=> ~AfterEnd(args, V, n) /\ x.kind = "inline" /\ x.name = name
    <3>1. n \in GivenTo(args, V, name) <=>
             \/ n \in V /\ args[n - 1].name = name
             \/ n \in Alone(args, V) /\ args[n].kind = "inline" /\ args[n].name = name
      BY Zenon DEF GivenTo
    <3> QED BY <1>v, <2>1, <3>1, Zenon
  <2> QED BY <1>v, <2>1, <2>2, <2>3, Zenon
<1>3. Asks(args, V, n) <=> ~AfterEnd(args, V, n) /\ x.kind = "option" /\ x.name \in value_options \ flags
  BY <1>2, Zenon DEF Asks
<1>4. r.positional \in Seq(Argument)
  BY DEF Results
<1>5. n \notin WordsOf(args, V) => Options!Lists(r.positional, args, WordsOf(args, V) \cap (1..n))
  BY <1>1, <1>4, PositionalsAt, Zenon
<1>6. n \in WordsOf(args, V) => Options!Lists(Append(r.positional, x), args, WordsOf(args, V) \cap (1..n))
  BY <1>1, <1>4, PositionalsAt, Zenon
<1>7. ~(~AfterEnd(args, V, n) /\ x.kind = "option" /\ x.name \in flags) => r.flags = Raised(args, V, n)
  <2>1. ~(n \in Alone(args, V) /\ x.kind = "option" /\ x.name \in flags) =>
            Raised(args, V, n) = Raised(args, V, n - 1)
    BY RaisedAt, Zenon
  <2> QED BY <1>1, <1>2, <2>1, Zenon
<1>8. ASSUME q.values = r.values, AfterEnd(args, V, n) \/ x.kind # "inline"
      PROVE  \A other \in value_options :
                 Options!Lists(q.values[other], SaidIn(args, V), GivenTo(args, V, other) \cap (1..n))
  BY <1>1, <1>2, <1>8, ValuesLeft, Zenon
<1>d. /\ "word" # "inline" /\ "word" # "option" /\ "word" # "end" /\ "option" # "inline" /\ "option" # "end"
      /\ "end" # "inline"
  OBVIOUS
<1> HIDE DEF x
<1>9. CASE WordCase(r, x, q)
  <2>1. /\ AfterEnd(args, V, n) \/ x.kind = "word"
        /\ q.positional = Append(r.positional, x)
        /\ q.flags = r.flags /\ q.values = r.values /\ q.options_done = r.options_done /\ q.pending = {}
    BY <1>1, <1>9, Zenon DEF WordCase
  <2>2. n \in WordsOf(args, V) /\ ~Asks(args, V, n) /\ (AfterEnd(args, V, n + 1) <=> AfterEnd(args, V, n))
    BY <1>2, <1>3, <1>d, <1>k, <2>1, Zenon
  <2>3. q.flags = Raised(args, V, n)
    BY <1>7, <1>d, <2>1, Zenon
  <2>4. AfterEnd(args, V, n) \/ x.kind # "inline"
    BY <1>d, <2>1, Zenon
  <2> QED BY <1>1, <1>6, <1>8, <2>1, <2>2, <2>3, <2>4, Zenon DEF Parsed
<1>10. CASE EndCase(r, x, q)
  <2>1. /\ ~AfterEnd(args, V, n) /\ x = Options!End
        /\ q.positional = r.positional /\ q.flags = r.flags /\ q.values = r.values
        /\ q.options_done = TRUE /\ q.pending = {}
    BY <1>1, <1>10, Zenon DEF EndCase
  <2>2. n \notin WordsOf(args, V) /\ ~Asks(args, V, n) /\ AfterEnd(args, V, n + 1)
    BY <1>2, <1>3, <1>d, <1>k, <2>1, Zenon
  <2>3. q.flags = Raised(args, V, n)
    BY <1>7, <1>d, <1>k, <2>1, Zenon
  <2>4. AfterEnd(args, V, n) \/ x.kind # "inline"
    BY <1>d, <1>k, <2>1, Zenon
  <2> QED BY <1>5, <1>8, <2>1, <2>2, <2>3, <2>4, Zenon DEF Parsed
<1>11. CASE FlagCase(r, x, q)
  <2>1. /\ ~AfterEnd(args, V, n) /\ x.kind = "option" /\ x.name \in flags
        /\ q.flags = r.flags \cup {x.name}
        /\ q.positional = r.positional /\ q.values = r.values /\ q.options_done = r.options_done /\ q.pending = {}
    BY <1>1, <1>11, Zenon DEF FlagCase
  <2>2. n \notin WordsOf(args, V) /\ ~Asks(args, V, n) /\ ~AfterEnd(args, V, n + 1)
    BY <1>2, <1>3, <1>d, <1>k, <2>1, Zenon
  <2>3. q.flags = Raised(args, V, n)
    <3>1. n \in Alone(args, V) /\ x.kind = "option" /\ x.name \in flags =>
              Raised(args, V, n) = Raised(args, V, n - 1) \cup {x.name}
      BY RaisedAt, Zenon DEF x
    <3> QED BY <1>1, <1>2, <2>1, <3>1, Zenon
  <2>4. AfterEnd(args, V, n) \/ x.kind # "inline"
    BY <1>d, <2>1, Zenon
  <2> QED BY <1>1, <1>5, <1>8, <2>1, <2>2, <2>3, <2>4, Zenon DEF Parsed
<1>12. CASE InlineCase(r, x, q)
  <2>1. /\ ~AfterEnd(args, V, n) /\ x.kind = "inline" /\ x.name \in value_options /\ Takes(r, q, x.name, x.value)
        /\ q.positional = r.positional /\ q.flags = r.flags /\ q.options_done = r.options_done /\ q.pending = {}
    BY <1>1, <1>12, Zenon DEF InlineCase, Takes
  <2>2. n \notin WordsOf(args, V) /\ ~Asks(args, V, n) /\ ~AfterEnd(args, V, n + 1)
    BY <1>2, <1>3, <1>d, <1>k, <2>1, Zenon
  <2>3. q.flags = Raised(args, V, n)
    BY <1>7, <1>d, <2>1, Zenon
  <2>4. \A other : n \in GivenTo(args, V, other) <=> other = x.name
    BY <1>2, <2>1, Zenon
  <2>5. SaidIn(args, V)[n] = x.value
    BY <1>p, <1>v, Zenon DEF SaidIn, x
  <2>6. x.value \in Argument
    BY <1>k, <2>1
  <2>7. \A other \in value_options :
             Options!Lists(q.values[other], SaidIn(args, V), GivenTo(args, V, other) \cap (1..n))
    BY <1>1, <2>1, <2>4, <2>5, <2>6, ValuesTaken, Zenon
  <2> QED BY <1>1, <1>5, <2>1, <2>2, <2>3, <2>7, Zenon DEF Parsed
<1>13. CASE OptionCase(r, x, q)
  <2>1. /\ ~AfterEnd(args, V, n) /\ x.kind = "option" /\ x.name \in value_options \ flags
        /\ q.positional = r.positional /\ q.flags = r.flags /\ q.values = r.values
        /\ q.options_done = r.options_done /\ q.pending = {x.name}
    BY <1>1, <1>13, Zenon DEF OptionCase
  <2>2. n \notin WordsOf(args, V) /\ Asks(args, V, n) /\ ~AfterEnd(args, V, n + 1)
    BY <1>2, <1>3, <1>d, <1>k, <2>1, Zenon
  <2>3. q.flags = Raised(args, V, n)
    BY <1>7, <2>1, Zenon
  <2>4. AfterEnd(args, V, n) \/ x.kind # "inline"
    BY <1>d, <2>1, Zenon
  <2>5. n # 0 /\ x = args[n]
    BY <1>p DEF x
  <2> QED BY <1>1, <1>5, <1>8, <2>1, <2>2, <2>3, <2>4, <2>5, Zenon DEF Parsed
<1> QED BY <1>9, <1>10, <1>11, <1>12, <1>13, Zenon DEF x

Fine(r) == r.error = ""
Waits(r) == r.pending # {}

LEMMA NothingIs ==
  /\ Options!Nothing.positional = <<>> /\ Options!Nothing.flags = {} /\ ~Options!Nothing.options_done
  /\ Options!Nothing.pending = {} /\ \A name \in value_options : Options!Nothing.values[name] = <<>>
<1>1. [name \in value_options |-> <<>>] \in [value_options -> Seq(Argument)] /\ <<>> \in Seq(Argument)
  OBVIOUS
<1>2. ASSUME NEW v \in [value_options -> Seq(Argument)], NEW w \in Seq(Argument), NEW b \in BOOLEAN, NEW r,
             r = [positional |-> w, flags |-> {}, values |-> v, options_done |-> b, pending |-> {}, error |-> ""]
      PROVE  r.positional = w /\ r.flags = {} /\ r.options_done = b /\ r.pending = {} /\ r.values = v
  BY <1>2
<1>3. \A name \in value_options : [other \in value_options |-> <<>>][name] = <<>>
  OBVIOUS
<1>4. FALSE \in BOOLEAN /\ ~FALSE
  OBVIOUS
<1>5. /\ Options!Nothing.positional = <<>> /\ Options!Nothing.flags = {} /\ Options!Nothing.options_done = FALSE
      /\ Options!Nothing.pending = {} /\ Options!Nothing.values = [name \in value_options |-> <<>>]
  BY <1>1, <1>2, <1>4, Zenon DEF Options!Nothing
<1> QED BY <1>3, <1>5, Zenon

LEMMA AllParsed ==
  ASSUME NEW args \in Seq(Argument), NEW V,
         V = {i \in 1..Len(args) : Waits(Options!Rounds(args)[i - 1])},
         Fine(Options!Rounds(args)[Len(args)])
  PROVE  \A n \in 0..Len(args) : Parsed(args, V, n, Options!Rounds(args)[n])
<1> DEFINE R(n) == Options!Rounds(args)[n]
           N == Len(args)
           Q == {m \in 0..N : Fine(R(N - m))}
           T == {n \in 0..N : Parsed(args, V, n, R(n))}
<1>0. N \in Nat
  OBVIOUS
<1>1. /\ \A n \in 0..N : R(n) \in Results
      /\ R(0) = Options!Nothing
      /\ \A n \in 1..N : R(n) = Options!ParseArg(R(n - 1), args[n])
  <2>1. Options!Rounds(args) \in [0..N -> Results]
    BY ArgumentRounds, Zenon
  <2>2. \A n \in 0..N : R(n) \in Results
    BY <2>1
  <2> QED BY <2>2, ArgumentRounds, Zenon
<1> HIDE DEF R
<1>2. ASSUME NEW n \in 1..N
      PROVE  /\ args[n] \in Argument /\ n - 1 \in 0..N /\ n \in 0..N /\ R(n - 1) \in Results /\ R(n) \in Results
  BY <1>0, <1>1
<1>3. \A n \in 0..N : Fine(R(n))
  <2>1. 0 \in Q
    <3>1. N - 0 = N
      BY <1>0
    <3> QED BY <1>0, <3>1 DEF R
  <2>2. ASSUME NEW m \in 1..N, m - 1 \in Q PROVE m \in Q
    <3> DEFINE n == N - (m - 1)
    <3>1. n \in 1..N /\ n - 1 = N - m /\ m \in 0..N
      BY <1>0
    <3>2. Fine(R(n))
      BY <2>2
    <3> HIDE DEF n
    <3>3. Fine(R(n - 1))
      BY <1>1, <1>2, <3>1, <3>2, ParseArgCases, Zenon DEF Fine
    <3> QED BY <3>1, <3>3
  <2>3. Q \in SUBSET (0..N)
    OBVIOUS
  <2> HIDE DEF Q
  <2>4. Q = 0..N
    BY <1>0, <2>1, <2>2, <2>3, IndUpTo
  <2> SUFFICES ASSUME NEW n \in 0..N PROVE Fine(R(n))
    OBVIOUS
  <2>5. N - n \in 0..N /\ N - (N - n) = n
    BY <1>0
  <2> QED BY <2>4, <2>5 DEF Q
<1>4. V \in SUBSET (1..Len(args))
  OBVIOUS
<1>5. 0 \in T
  <2>1. ~AfterEnd(args, V, 0 + 1)
    <3>1. (0 + 1) - 1 = 0 /\ 1..0 = {}
      OBVIOUS
    <3> QED BY <3>1, Zenon DEF AfterEnd
  <2>2. Raised(args, V, 0) = {}
    <3>1. 1..0 = {}
      OBVIOUS
    <3> QED BY <3>1, Zenon DEF Raised
  <2>3. ASSUME NEW name \in value_options
        PROVE  R(0).values[name] = <<>>
    BY <1>1, NothingIs, Zenon
  <2>4. R(0).positional = <<>> /\ R(0).flags = {} /\ ~R(0).options_done /\ R(0).pending = {}
    BY <1>1, NothingIs, Zenon
  <2>5. Parsed(args, V, 0, R(0))
    BY <2>1, <2>2, <2>3, <2>4, ListsNothing, Zenon DEF Parsed
  <2> QED BY <1>0, <2>5
<1>6. ASSUME NEW n \in 1..N, n - 1 \in T PROVE n \in T
  <2> DEFINE r == R(n - 1)
             q == R(n)
             x == args[n]
  <2>1. r \in Results /\ q \in Results /\ x \in Argument /\ q = Options!ParseArg(r, x) /\ Fine(q)
    BY <1>1, <1>2, <1>3
  <2>2. Parsed(args, V, n - 1, r)
    BY <1>6
  <2>3. n \in V <=> Waits(r)
    BY DEF R
  <2> HIDE DEF r, q
  <2>4. \/ ValueCase(r, x, q)
        \/ WordCase(r, x, q)
        \/ EndCase(r, x, q)
        \/ FlagCase(r, x, q)
        \/ InlineCase(r, x, q)
        \/ OptionCase(r, x, q)
    BY <2>1, ParseArgCases, Zenon DEF Fine
  <2>5. Parsed(args, V, n, q)
    BY <1>4, <2>1, <2>2, <2>3, <2>4, ValueRead, OtherRead, Zenon DEF Waits
  <2> QED BY <1>2, <2>5 DEF q
<1>7. T \in SUBSET (0..N)
  OBVIOUS
<1> HIDE DEF T
<1>8. T = 0..N
  BY <1>0, <1>5, <1>6, <1>7, IndUpTo
<1>9. \A n \in 0..N : Parsed(args, V, n, R(n))
  BY <1>8 DEF T
<1> QED BY <1>9 DEF R

LEMMA HasOnePart ==
  ASSUME NEW args, NEW V \in SUBSET DOMAIN args, 
         Options!Lists(Options!parse(args).positional, args, WordsOf(args, V)),
         Options!parse(args).flags = {args[i].name : i \in {j \in Alone(args, V) : args[j].kind = "option"}} \cap flags,
         V = {i + 1 : i \in {j \in DOMAIN args : Asks(args, V, j)}},
         \A name \in value_options :
          /\ Options!Lists(Options!parse(args).values[name], SaidIn(args, V), GivenTo(args, V, name))
          /\ IF GivenTo(args, V, name) = {} THEN Options!get(Options!parse(args), name) = <<>>
             ELSE \E i \in GivenTo(args, V, name) :
                     /\ \A j \in GivenTo(args, V, name) : j <= i
                     /\ Options!get(Options!parse(args), name) = <<SaidIn(args, V)[i]>>
  PROVE  Options!EachArgumentHasOnePart(args)
  BY Zenon DEF Options!EachArgumentHasOnePart, Asks, Alone, WordsOf, GivenTo, SaidIn, AfterEnd

LEMMA ArgumentsAreParsed ==
  ASSUME NEW args \in Seq(Argument) PROVE Options!EachArgumentHasOnePart(args)
<1> SUFFICES ASSUME Fine(Options!parse(args))
             PROVE  Options!EachArgumentHasOnePart(args)
  BY Zenon DEF Options!EachArgumentHasOnePart, Fine
<1> DEFINE R(n) == Options!Rounds(args)[n]
           N == Len(args)
           V == {i \in 1..N : Waits(R(i - 1))}
           r == R(N)
<1>0. N \in Nat /\ DOMAIN args = 1..N
  OBVIOUS
<1>1. \A n \in 0..N : R(n) \in Results
  <2>1. Options!Rounds(args) \in [0..N -> Results]
    BY ArgumentRounds, Zenon
  <2> QED BY <2>1
<1>2. Fine(r) /\ ~Waits(r) /\ Options!parse(args) = r /\ r \in Results
  <2>1. r \in Results
    BY <1>0, <1>1
  <2>2. Options!parse(args) = IF r.error = "" /\ r.pending # {} THEN [r EXCEPT !.error = "requires a value"] ELSE r
    BY Zenon DEF Options!parse
  <2>f. Options!parse(args).error = ""
    BY Zenon DEF Fine
  <2> HIDE DEF r
  <2>3. ~(r.error = "" /\ r.pending # {})
    <3> SUFFICES ASSUME r.error = "" /\ r.pending # {} PROVE FALSE
      OBVIOUS
    <3>1. Options!parse(args) = [r EXCEPT !.error = "requires a value"]
      BY <2>2, Zenon
    <3>2. [r EXCEPT !.error = "requires a value"].error = "requires a value"
      BY <2>1 DEF Results
    <3>3. "requires a value" # ""
      OBVIOUS
    <3> QED BY <2>f, <3>1, <3>2, <3>3, Zenon
  <2> QED BY <2>f, <2>1, <2>2, <2>3, Zenon DEF Fine, Waits
<1>3. \A n \in 0..N : Parsed(args, V, n, R(n))
  BY <1>2, AllParsed, Zenon
<1>4. V \in SUBSET (1..N) /\ \A i \in 1..N : i \in V <=> Waits(R(i - 1))
  OBVIOUS
<1>5. ~Waits(R(0))
  <2>1. Options!Nothing.pending = {}
    BY NothingIs, Zenon
  <2> QED BY <2>1, ArgumentRounds, Zenon DEF Waits
<1> HIDE DEF R, V, r
<1>6. Parsed(args, V, N, r)
  BY <1>0, <1>3 DEF r
<1> DEFINE Takers == {i + 1 : i \in {j \in DOMAIN args : Asks(args, V, j)}}
<1>7. ASSUME NEW i \in 1..N PROVE Asks(args, V, i) <=> Waits(R(i))
  <2>1. Parsed(args, V, i, R(i)) /\ i # 0
    BY <1>0, <1>3
  <2> QED BY <2>1, Zenon DEF Parsed, Waits
<1>8. V = Takers
  <2>1. ASSUME NEW i \in V PROVE i \in Takers
    <3>1. i \in 1..N /\ Waits(R(i - 1))
      BY <1>4
    <3>2. i # 1
      BY <1>5, <3>1
    <3>3. i - 1 \in 1..N /\ (i - 1) + 1 = i
      BY <1>0, <3>1, <3>2
    <3>4. Asks(args, V, i - 1)
      BY <1>7, <3>1, <3>3, Zenon
    <3> QED BY <1>0, <3>3, <3>4, Zenon
  <2>2. ASSUME NEW j \in 1..N, Asks(args, V, j) PROVE j + 1 \in V
    <3>1. Waits(R(j))
      BY <1>7, <2>2
    <3>2. j # N
      BY <1>2, <3>1 DEF r
    <3>3. j + 1 \in 1..N /\ (j + 1) - 1 = j
      <4> DEFINE k == N
      <4>1. k \in Nat /\ j \in 1..k /\ j # k
        BY <1>0, <3>2
      <4> HIDE DEF k
      <4>2. j + 1 \in 1..k /\ (j + 1) - 1 = j
        BY <4>1
      <4> QED BY <4>2 DEF k
    <3> QED BY <1>4, <3>1, <3>3
  <2>3. \A i \in Takers : i \in V
    BY <1>0, <2>2, Zenon
  <2> QED BY <2>1, <2>3, Zenon
<1>9. Options!Lists(r.positional, args, WordsOf(args, V))
  <2>1. WordsOf(args, V) \cap (1..N) = WordsOf(args, V)
    BY <1>0, Zenon DEF WordsOf
  <2>2. Options!Lists(r.positional, args, WordsOf(args, V) \cap (1..N))
    BY <1>6, Zenon DEF Parsed
  <2> QED BY <2>1, <2>2, Zenon
<1>10. r.flags = {args[i].name : i \in {j \in Alone(args, V) : args[j].kind = "option"}} \cap flags
  <2>1. Alone(args, V) \cap (1..N) = Alone(args, V)
    BY <1>0, Zenon DEF Alone
  <2>2. r.flags = Raised(args, V, N)
    BY <1>6, Zenon DEF Parsed
  <2> QED BY <2>1, <2>2, Zenon DEF Raised
<1>11. ASSUME NEW name \in value_options
       PROVE  /\ Options!Lists(r.values[name], SaidIn(args, V), GivenTo(args, V, name))
              /\ IF GivenTo(args, V, name) = {} THEN Options!get(r, name) = <<>>
                 ELSE \E i \in GivenTo(args, V, name) :
                         /\ \A j \in GivenTo(args, V, name) : j <= i
                         /\ Options!get(r, name) = <<SaidIn(args, V)[i]>>
  <2> DEFINE P == GivenTo(args, V, name)
             s == r.values[name]
  <2>1. P \in SUBSET (1..N)
    <3>1. Alone(args, V) \in SUBSET (1..N)
      BY <1>0, Zenon DEF Alone
    <3> QED BY <1>4, <3>1, Zenon DEF GivenTo
  <2>2. P \cap (1..N) = P /\ P \in SUBSET Nat
    BY <1>0, <2>1
  <2>3. Options!Lists(s, SaidIn(args, V), P \cap (1..N))
    BY <1>6, Zenon DEF Parsed
  <2>4. s \in Seq(Argument)
    BY <1>2 DEF Results
  <2>g. Options!get(r, name) = IF s = <<>> THEN <<>> ELSE <<s[Len(s)]>>
    BY Zenon DEF Options!get
  <2> HIDE DEF P, s
  <2>5. Options!Lists(s, SaidIn(args, V), P)
    BY <2>2, <2>3, Zenon
  <2>6. /\ P = {} => s = <<>>
        /\ P # {} => s # <<>> /\ \E i \in P : (\A j \in P : j <= i) /\ s[Len(s)] = SaidIn(args, V)[i]
    BY <2>2, <2>4, <2>5, ListsLast, Zenon
  <2>7. /\ Options!Lists(s, SaidIn(args, V), P)
        /\ IF P = {} THEN Options!get(r, name) = <<>>
           ELSE \E i \in P : (\A j \in P : j <= i) /\ Options!get(r, name) = <<SaidIn(args, V)[i]>>
    BY <2>g, <2>5, <2>6, Zenon
  <2> QED BY <2>7, Zenon DEF P, s
<1> HIDE DEF Takers
<1> DEFINE p == Options!parse(args)
<1>12. p = r
  BY <1>2
<1> HIDE DEF p
<1>13. V \in SUBSET DOMAIN args
  BY <1>0, <1>4
<1>14. /\ Options!Lists(p.positional, args, WordsOf(args, V))
       /\ p.flags = {args[i].name : i \in {j \in Alone(args, V) : args[j].kind = "option"}} \cap flags
  BY <1>9, <1>10, <1>12, Zenon
<1>15. \A name \in value_options :
          /\ Options!Lists(p.values[name], SaidIn(args, V), GivenTo(args, V, name))
          /\ IF GivenTo(args, V, name) = {} THEN Options!get(p, name) = <<>>
             ELSE \E i \in GivenTo(args, V, name) :
                     /\ \A j \in GivenTo(args, V, name) : j <= i
                     /\ Options!get(p, name) = <<SaidIn(args, V)[i]>>
  BY <1>11, <1>12, Zenon
<1> USE DEF Takers
<1>16. V = {i + 1 : i \in {j \in DOMAIN args : Asks(args, V, j)}}
  BY <1>8
<1> QED BY <1>13, <1>14, <1>15, <1>16, HasOnePart DEF p

\* cli::Args::parse() and get(), for every command line and every set of options: each argument of
\* a command line that is accepted has one part, by where it stands.
THEOREM ArgumentsHold == InputSpec => []ArgumentsHaveOnePart
<1>1. Inputs => ArgumentsHaveOnePart
  <2> SUFFICES ASSUME Inputs, subject = "arguments" PROVE Options!EachArgumentHasOnePart(input)
    BY DEF ArgumentsHaveOnePart
  <2>1. Elements[subject] \subseteq Argument
    BY ElementsAssumption DEF Inputs, ElementsOf, Argument
  <2>2. input \in Seq(Argument)
    <3>1. input \in Seq(Elements[subject])
      BY DEF Inputs
    <3> QED BY <2>1, <3>1
  <2> QED BY <2>2, ArgumentsAreParsed
<1> QED BY <1>1, InputsHold, PTL

---------------------------------------------------------------------------
(* wire::parse_content() and to_json(). *)

\* Objects, and what their fields hold.
LEMMA Values ==
  ASSUME NEW x
  PROVE  /\ JSON!Object(x)[1] = "object" /\ JSON!Object(x)[2] = x
         /\ JSON!String(x)[1] = "string" /\ JSON!String(x)[2] = x
         /\ JSON!Bool(x)[1] = "bool" /\ JSON!Bool(x)[2] = x
  BY DEF JSON!Object, JSON!String, JSON!Bool

LEMMA Fields ==
  ASSUME NEW key, NEW value
  PROVE  /\ DOMAIN JSON!Field(key, value) = {key}
         /\ JSON!Field(key, value)[key] = value
  BY DEF JSON!Field

LEMMA Ands ==
  ASSUME NEW f, NEW g
  PROVE  /\ DOMAIN JSON!And(f, g) = DOMAIN f \cup DOMAIN g
         /\ \A k \in DOMAIN f : JSON!And(f, g)[k] = f[k]
         /\ \A k \in DOMAIN g : k \notin DOMAIN f => JSON!And(f, g)[k] = g[k]
  BY DEF JSON!And

LEMMA Ifs ==
  ASSUME NEW c \in BOOLEAN, NEW f
  PROVE  /\ c => JSON!If(c, f) = f
         /\ ~c => DOMAIN JSON!If(c, f) = {}
<1>1. DOMAIN <<>> = {}
  OBVIOUS
<1> QED BY <1>1, Zenon DEF JSON!If

LEMMA OkIs == ASSUME NEW s PROVE JSON!Ok(s).ok = TRUE /\ JSON!Ok(s).parts = s /\ JSON!Ok(s).error = ""
  BY Zenon DEF JSON!Ok

LEMMA ErrorIs == ASSUME NEW e PROVE JSON!Error(e).ok = FALSE /\ JSON!Error(e).parts = <<>> /\ JSON!Error(e).error = e
  BY Zenon DEF JSON!Error

LEMMA PartIsOf ==
  ASSUME NEW k, NEW w, NEW t, NEW s
  PROVE  /\ JSON!Part(k, w, t, s).kind = k /\ JSON!Part(k, w, t, s).words = w
         /\ JSON!Part(k, w, t, s).thought = t /\ JSON!Part(k, w, t, s).signature = s
  BY Zenon DEF JSON!Part

LEMMA Keys7 ==
  /\ "text" # "thoughtSignature" /\ "thought" # "thoughtSignature" /\ "functionCall" # "thoughtSignature"
  /\ "functionResponse" # "thoughtSignature" /\ "thought" # "text" /\ "functionCall" # "text"
  /\ "functionResponse" # "text" /\ "functionResponse" # "functionCall"
  /\ "id" # "args" /\ "id" # "name" /\ "args" # "name" /\ "id" # "response" /\ "response" # "name"
  /\ "object" # "string"
  OBVIOUS

LEMMA SealedIs ==
  ASSUME NEW p
  PROVE  /\ p.signature # "" => /\ DOMAIN JSON!Sealed(p) = {"thoughtSignature"}
                                /\ JSON!Sealed(p)["thoughtSignature"] = JSON!String(p.signature)
         /\ p.signature = "" => DOMAIN JSON!Sealed(p) = {}
<1> DEFINE c == p.signature # ""
           f == JSON!Field("thoughtSignature", JSON!String(p.signature))
<1>1. c \in BOOLEAN /\ JSON!Sealed(p) = JSON!If(c, f)
  BY Zenon DEF JSON!Sealed
<1>2. DOMAIN f = {"thoughtSignature"} /\ f["thoughtSignature"] = JSON!String(p.signature)
  BY Fields, Zenon
<1>3. (c => JSON!If(c, f) = f) /\ (~c => DOMAIN JSON!If(c, f) = {})
  BY <1>1, Ifs, Zenon
<1> QED BY <1>1, <1>2, <1>3, Zenon

\* The signature comes back, and takes nothing away from the other fields.
LEMMA SignatureBack ==
  ASSUME NEW p, NEW f, "thoughtSignature" \notin DOMAIN f
  PROVE  /\ JSON!string_or(JSON!And(JSON!Sealed(p), f), "thoughtSignature") = p.signature
         /\ \A key : key # "thoughtSignature" =>
                /\ key \in DOMAIN JSON!And(JSON!Sealed(p), f) <=> key \in DOMAIN f
                /\ key \in DOMAIN f => JSON!And(JSON!Sealed(p), f)[key] = f[key]
<1> DEFINE g == JSON!Sealed(p)
           d == JSON!And(g, f)
<1>1. /\ p.signature # "" => DOMAIN g = {"thoughtSignature"} /\ g["thoughtSignature"] = JSON!String(p.signature)
      /\ p.signature = "" => DOMAIN g = {}
  BY SealedIs, Zenon
<1>2. /\ DOMAIN d = DOMAIN g \cup DOMAIN f
      /\ \A k \in DOMAIN g : d[k] = g[k]
      /\ \A k \in DOMAIN f : k \notin DOMAIN g => d[k] = f[k]
  BY Ands, Zenon
<1> HIDE DEF g, d
<1>3. \A key : key # "thoughtSignature" => key \notin DOMAIN g
  BY <1>1, Zenon
<1>4. JSON!string_or(d, "thoughtSignature") = p.signature
  <2>1. CASE p.signature = ""
    <3>1. "thoughtSignature" \notin DOMAIN d
      BY <1>1, <1>2, <2>1, Zenon
    <3> QED BY <2>1, <3>1, Zenon DEF JSON!string_or, JSON!Is
  <2>2. CASE p.signature # ""
    <3>1. "thoughtSignature" \in DOMAIN d /\ d["thoughtSignature"] = JSON!String(p.signature)
      BY <1>1, <1>2, <2>2, Zenon
    <3>2. JSON!String(p.signature)[1] = "string" /\ JSON!String(p.signature)[2] = p.signature
      BY Values, Zenon
    <3> QED BY <3>1, <3>2, Zenon DEF JSON!string_or, JSON!Is
  <2> QED BY <2>1, <2>2
<1>5. \A key : key # "thoughtSignature" =>
          (key \in DOMAIN d <=> key \in DOMAIN f) /\ (key \in DOMAIN f => d[key] = f[key])
  BY <1>2, <1>3, Zenon
<1> QED BY <1>4, <1>5, Zenon DEF g, d

\* A part whose only other field is key.
SignedField(d, p, key, value) ==
    /\ JSON!string_or(d, "thoughtSignature") = p.signature
    /\ key \in DOMAIN d /\ d[key] = value
    /\ \A other : other # "thoughtSignature" /\ other # key => other \notin DOMAIN d

LEMMA OneField ==
  ASSUME NEW p, NEW key, key # "thoughtSignature", NEW value
  PROVE  SignedField(JSON!And(JSON!Sealed(p), JSON!Field(key, value)), p, key, value)
<1> DEFINE f == JSON!Field(key, value)
<1>1. DOMAIN f = {key} /\ f[key] = value
  BY Fields, Zenon
<1> HIDE DEF f
<1>2. "thoughtSignature" \notin DOMAIN f
  BY <1>1, Zenon
<1>3. /\ JSON!string_or(JSON!And(JSON!Sealed(p), f), "thoughtSignature") = p.signature
      /\ \A other : other # "thoughtSignature" =>
                /\ other \in DOMAIN JSON!And(JSON!Sealed(p), f) <=> other \in DOMAIN f
                /\ other \in DOMAIN f => JSON!And(JSON!Sealed(p), f)[other] = f[other]
  BY <1>2, SignatureBack, Zenon
<1>4. SignedField(JSON!And(JSON!Sealed(p), f), p, key, value)
  BY <1>1, <1>3, Zenon DEF SignedField
<1> QED BY <1>4, Zenon DEF f

LEMMA TextBack ==
  ASSUME NEW w, NEW t \in BOOLEAN, NEW s, NEW p, p = JSON!Part("text", w, t, s)
  PROVE  JSON!parse_part(JSON!Object(JSON!to_json(p))) = JSON!Ok(<<p>>)
<1> DEFINE a == JSON!If(p.thought, JSON!Field("thought", JSON!Bool(TRUE)))
           b == JSON!Field("text", JSON!String(p.words))
           f == JSON!And(a, b)
           d == JSON!to_json(p)
<1>1. p.kind = "text" /\ p.words = w /\ p.thought = t /\ p.signature = s
  BY Zenon DEF JSON!Part
<1>2. d = JSON!And(JSON!Sealed(p), f)
  <2>1. JSON!Written(p) = f
    BY <1>1 DEF JSON!Written
  <2> QED BY <2>1, Zenon DEF JSON!to_json
<1>3. /\ t => DOMAIN a = {"thought"} /\ a["thought"] = JSON!Bool(TRUE)
      /\ ~t => DOMAIN a = {}
      /\ DOMAIN b = {"text"} /\ b["text"] = JSON!String(w)
  <2>1. DOMAIN JSON!Field("thought", JSON!Bool(TRUE)) = {"thought"}
        /\ JSON!Field("thought", JSON!Bool(TRUE))["thought"] = JSON!Bool(TRUE)
    BY Fields
  <2>2. DOMAIN b = {"text"} /\ b["text"] = JSON!String(p.words)
    BY Fields
  <2>3. (t => a = JSON!Field("thought", JSON!Bool(TRUE))) /\ (~t => DOMAIN a = {})
    BY <1>1, Ifs, Zenon
  <2> QED BY <1>1, <2>1, <2>2, <2>3, Zenon
<1> HIDE DEF a, b
<1>4. /\ DOMAIN f = DOMAIN a \cup DOMAIN b
      /\ \A k \in DOMAIN a : f[k] = a[k]
      /\ \A k \in DOMAIN b : k \notin DOMAIN a => f[k] = b[k]
  BY Ands, Zenon
<1> HIDE DEF f
<1>5. /\ "text" \in DOMAIN f /\ f["text"] = JSON!String(w)
      /\ "thoughtSignature" \notin DOMAIN f
      /\ "thought" \in DOMAIN f <=> t
      /\ t => f["thought"] = JSON!Bool(TRUE)
  BY <1>3, <1>4, Keys7, Zenon
<1>6. /\ JSON!string_or(d, "thoughtSignature") = s
      /\ "text" \in DOMAIN d /\ d["text"] = JSON!String(w)
      /\ "thought" \in DOMAIN d <=> t
      /\ t => d["thought"] = JSON!Bool(TRUE)
  <2>1. /\ JSON!string_or(d, "thoughtSignature") = p.signature
        /\ \A key : key # "thoughtSignature" =>
                (key \in DOMAIN d <=> key \in DOMAIN f) /\ (key \in DOMAIN f => d[key] = f[key])
    <3> HIDE DEF d
    <3>1. /\ JSON!string_or(JSON!And(JSON!Sealed(p), f), "thoughtSignature") = p.signature
          /\ \A key : key # "thoughtSignature" =>
                /\ key \in DOMAIN JSON!And(JSON!Sealed(p), f) <=> key \in DOMAIN f
                /\ key \in DOMAIN f => JSON!And(JSON!Sealed(p), f)[key] = f[key]
      <4>1. "thoughtSignature" \notin DOMAIN f
        BY <1>5
      <4> QED BY <4>1, SignatureBack, Zenon
    <3> QED BY <1>2, <3>1, Zenon
  <2> HIDE DEF d
  <2> QED BY <1>1, <1>5, <2>1, Keys7, Zenon
<1> HIDE DEF d
<1>7. JSON!Is(d, "text", "string") /\ d["text"][2] = w
  <2>1. JSON!String(w)[1] = "string" /\ JSON!String(w)[2] = w
    BY Values
  <2> QED BY <1>6, <2>1, Zenon DEF JSON!Is
<1>8. t => JSON!Is(d, "thought", "bool") /\ d["thought"][2] = TRUE
  <2>1. JSON!Bool(TRUE)[1] = "bool" /\ JSON!Bool(TRUE)[2] = TRUE
    BY Values
  <2> QED BY <1>6, <2>1, Zenon DEF JSON!Is
<1>9. ("thought" \in DOMAIN d /\ d["thought"][2]) = t
  BY <1>6, <1>8
<1>10. JSON!TextPart(d) = JSON!Ok(<<JSON!Part("text", w, t, s)>>)
  BY <1>6, <1>7, <1>8, <1>9, Zenon DEF JSON!TextPart
<1>11. JSON!parse_part(JSON!Object(d)) = JSON!TextPart(d)
  <2>1. JSON!Object(d)[1] = "object" /\ JSON!Object(d)[2] = d
    BY Values, Zenon
  <2> QED BY <1>7, <2>1, Zenon DEF JSON!parse_part
<1> QED BY <1>10, <1>11, Zenon DEF d

\* The word of a call or a response.
WordComesBack(word, key) ==
    JSON!Named(word, key)[1] = "object" /\ JSON!Word(JSON!Named(word, key)[2], key) = word

LEMMA WordBack ==
  ASSUME NEW key, key # "id", key # "name", NEW n, NEW i, NEW x
  PROVE  WordComesBack([name |-> n, id |-> i, payload |-> x], key)
<1> DEFINE word == [name |-> n, id |-> i, payload |-> x]
           c == word.id # ""
           a == JSON!If(c, JSON!Field("id", JSON!String(word.id)))
           b == JSON!Field(key, word.payload)
           e == JSON!Field("name", JSON!String(word.name))
           g == JSON!And(b, e)
           f == JSON!And(a, g)
<1>1. word.name = n /\ word.id = i /\ word.payload = x
  BY Zenon
<1>2. /\ i # "" => DOMAIN a = {"id"} /\ a["id"] = JSON!String(i)
      /\ i = "" => DOMAIN a = {}
      /\ DOMAIN b = {key} /\ b[key] = x
      /\ DOMAIN e = {"name"} /\ e["name"] = JSON!String(n)
  <2>1. c \in BOOLEAN
    OBVIOUS
  <2>2. DOMAIN JSON!Field("id", JSON!String(word.id)) = {"id"}
        /\ JSON!Field("id", JSON!String(word.id))["id"] = JSON!String(word.id)
    <3> HIDE DEF a
    <3> QED BY Fields, Zenon
  <2>3. DOMAIN b = {key} /\ b[key] = word.payload
    BY Fields, Zenon
  <2>4. DOMAIN e = {"name"} /\ e["name"] = JSON!String(word.name)
    BY Fields, Zenon
  <2>5. (c => a = JSON!Field("id", JSON!String(word.id))) /\ (~c => DOMAIN a = {})
    BY <2>1, Ifs, Zenon
  <2> QED BY <1>1, <2>2, <2>3, <2>4, <2>5, Zenon
<1>n. JSON!Named(word, key) = JSON!Object(f)
  BY Zenon DEF JSON!Named
<1> HIDE DEF a, b, e
<1>3. /\ DOMAIN g = DOMAIN b \cup DOMAIN e
      /\ \A k \in DOMAIN b : g[k] = b[k]
      /\ \A k \in DOMAIN e : k \notin DOMAIN b => g[k] = e[k]
  BY Ands, Zenon
<1> HIDE DEF g
<1>4. /\ DOMAIN f = DOMAIN a \cup DOMAIN g
      /\ \A k \in DOMAIN a : f[k] = a[k]
      /\ \A k \in DOMAIN g : k \notin DOMAIN a => f[k] = g[k]
  BY Ands, Zenon
<1> HIDE DEF f
<1>5. /\ key \in DOMAIN g /\ g[key] = x /\ "name" \in DOMAIN g /\ g["name"] = JSON!String(n) /\ "id" \notin DOMAIN g
  BY <1>2, <1>3, Keys7, Zenon
<1>6. /\ key \in DOMAIN f /\ f[key] = x
      /\ "name" \in DOMAIN f /\ f["name"] = JSON!String(n)
      /\ i # "" => "id" \in DOMAIN f /\ f["id"] = JSON!String(i)
      /\ i = "" => "id" \notin DOMAIN f
  BY <1>2, <1>4, <1>5, Keys7, Zenon
<1>s. JSON!String(n)[1] = "string" /\ JSON!String(n)[2] = n
      /\ JSON!String(i)[1] = "string" /\ JSON!String(i)[2] = i
  <2>1. JSON!String(n)[1] = "string" /\ JSON!String(n)[2] = n
    BY Values, Zenon
  <2>2. JSON!String(i)[1] = "string" /\ JSON!String(i)[2] = i
    BY Values, Zenon
  <2> QED BY <2>1, <2>2
<1>7. JSON!string_or(f, "name") = n
  BY <1>6, <1>s, Zenon DEF JSON!string_or, JSON!Is
<1>8. JSON!string_or(f, "id") = i
  BY <1>6, <1>s, Zenon DEF JSON!string_or, JSON!Is
<1>9. JSON!Word(f, key) = [name |-> n, id |-> i, payload |-> x]
  BY <1>6, <1>7, <1>8, Zenon DEF JSON!Word
<1>10. JSON!Object(f)[1] = "object" /\ JSON!Object(f)[2] = f
  BY Values, Zenon
<1> QED BY <1>n, <1>9, <1>10, Zenon DEF WordComesBack

LEMMA CallBack ==
  ASSUME NEW n, n # "", NEW i, NEW x, NEW s, NEW p,
         p = JSON!Part("call", <<[name |-> n, id |-> i, payload |-> x]>>, FALSE, s)
  PROVE  JSON!parse_part(JSON!Object(JSON!to_json(p))) = JSON!Ok(<<p>>)
<1> DEFINE word == [name |-> n, id |-> i, payload |-> x]
           d == JSON!to_json(p)
           v == JSON!Named(word, "args")
<1>1. p.kind = "call" /\ p.words = <<word>> /\ p.signature = s
  BY Zenon DEF JSON!Part
<1>w. word.name = n
  BY Zenon
<1>2. p.words[1] = word
  <2> HIDE DEF word
  <2>1. <<word>>[1] = word
    OBVIOUS
  <2> QED BY <1>1, <2>1, Zenon
<1>3. v[1] = "object" /\ JSON!Word(v[2], "args") = word
  <2>1. "args" # "id" /\ "args" # "name"
    BY Keys7
  <2>2. WordComesBack([name |-> n, id |-> i, payload |-> x], "args")
    BY <2>1, WordBack, Zenon
  <2> QED BY <2>2, Zenon DEF WordComesBack
<1>4. d = JSON!And(JSON!Sealed(p), JSON!Field("functionCall", v))
  <2>1. JSON!Written(p) = JSON!Field("functionCall", JSON!Named(p.words[1], "args"))
    BY <1>1 DEF JSON!Written
  <2> QED BY <1>2, <2>1, Zenon DEF JSON!to_json
<1> HIDE DEF d, v, word
<1>5. /\ JSON!string_or(d, "thoughtSignature") = s
      /\ "functionCall" \in DOMAIN d /\ d["functionCall"] = v
      /\ "text" \notin DOMAIN d
  <2>1. /\ JSON!string_or(d, "thoughtSignature") = p.signature
        /\ "functionCall" \in DOMAIN d /\ d["functionCall"] = v
        /\ \A other : other # "thoughtSignature" /\ other # "functionCall" => other \notin DOMAIN d
    <3>1. "functionCall" # "thoughtSignature"
      BY Keys7
    <3>2. SignedField(JSON!And(JSON!Sealed(p), JSON!Field("functionCall", v)), p, "functionCall", v)
      BY <3>1, OneField, Zenon
    <3> QED BY <1>4, <3>2, Zenon DEF SignedField
  <2> QED BY <1>1, <2>1, Keys7, Zenon
<1>6. JSON!Is(d, "functionCall", "object") /\ ~JSON!Is(d, "text", "string")
  BY <1>3, <1>5, Zenon DEF JSON!Is
<1>7. JSON!CallPart(d) = JSON!Ok(<<JSON!Part("call", <<word>>, FALSE, s)>>)
  BY <1>3, <1>5, <1>w, Zenon DEF JSON!CallPart
<1>8. JSON!parse_part(JSON!Object(d)) = JSON!CallPart(d)
  <2>1. JSON!Object(d)[1] = "object" /\ JSON!Object(d)[2] = d
    BY Values, Zenon
  <2> QED BY <1>6, <2>1, Zenon DEF JSON!parse_part
<1> QED BY <1>7, <1>8, Zenon DEF d, word

LEMMA ResponseBack ==
  ASSUME NEW n, NEW i, NEW x, NEW s, NEW p,
         p = JSON!Part("response", <<[name |-> n, id |-> i, payload |-> x]>>, FALSE, s)
  PROVE  JSON!parse_part(JSON!Object(JSON!to_json(p))) = JSON!Ok(<<p>>)
<1> DEFINE word == [name |-> n, id |-> i, payload |-> x]
           d == JSON!to_json(p)
           v == JSON!Named(word, "response")
<1>1. p.kind = "response" /\ p.words = <<word>> /\ p.signature = s
  BY Zenon DEF JSON!Part
<1>2. p.words[1] = word
  <2> HIDE DEF word
  <2>1. <<word>>[1] = word
    OBVIOUS
  <2> QED BY <1>1, <2>1, Zenon
<1>3. v[1] = "object" /\ JSON!Word(v[2], "response") = word
  <2>1. "response" # "id" /\ "response" # "name"
    BY Keys7
  <2>2. WordComesBack([name |-> n, id |-> i, payload |-> x], "response")
    BY <2>1, WordBack, Zenon
  <2> QED BY <2>2, Zenon DEF WordComesBack
<1>4. d = JSON!And(JSON!Sealed(p), JSON!Field("functionResponse", v))
  <2>1. JSON!Written(p) = JSON!Field("functionResponse", JSON!Named(p.words[1], "response"))
    BY <1>1 DEF JSON!Written
  <2> QED BY <1>2, <2>1, Zenon DEF JSON!to_json
<1> HIDE DEF d, v, word
<1>5. /\ JSON!string_or(d, "thoughtSignature") = s
      /\ "functionResponse" \in DOMAIN d /\ d["functionResponse"] = v
      /\ "text" \notin DOMAIN d /\ "functionCall" \notin DOMAIN d
  <2>1. /\ JSON!string_or(d, "thoughtSignature") = p.signature
        /\ "functionResponse" \in DOMAIN d /\ d["functionResponse"] = v
        /\ \A other : other # "thoughtSignature" /\ other # "functionResponse" => other \notin DOMAIN d
    <3>1. "functionResponse" # "thoughtSignature"
      BY Keys7
    <3>2. SignedField(JSON!And(JSON!Sealed(p), JSON!Field("functionResponse", v)), p, "functionResponse", v)
      BY <3>1, OneField, Zenon
    <3> QED BY <1>4, <3>2, Zenon DEF SignedField
  <2> QED BY <1>1, <2>1, Keys7, Zenon
<1>6. /\ JSON!Is(d, "functionResponse", "object") /\ ~JSON!Is(d, "text", "string")
      /\ ~JSON!Is(d, "functionCall", "object")
  BY <1>3, <1>5, Zenon DEF JSON!Is
<1>7. JSON!ResponsePart(d) = JSON!Ok(<<JSON!Part("response", <<word>>, FALSE, s)>>)
  BY <1>3, <1>5, Zenon DEF JSON!ResponsePart
<1>8. JSON!parse_part(JSON!Object(d)) = JSON!ResponsePart(d)
  <2>1. JSON!Object(d)[1] = "object" /\ JSON!Object(d)[2] = d
    BY Values, Zenon
  <2> QED BY <1>6, <2>1, Zenon DEF JSON!parse_part
<1> QED BY <1>7, <1>8, Zenon DEF d, word

\* What parse_part() can make of what is found.
Understood(p) ==
    \/ \E w, s : \E t \in BOOLEAN : p = JSON!Part("text", w, t, s)
    \/ \E n, i, x, s : n # "" /\ p = JSON!Part("call", <<[name |-> n, id |-> i, payload |-> x]>>, FALSE, s)
    \/ \E n, i, x, s : p = JSON!Part("response", <<[name |-> n, id |-> i, payload |-> x]>>, FALSE, s)

Unsupported == JSON!Error("unsupported part kind")
Refused(r) == \E e : e # "unsupported part kind" /\ r = JSON!Error(e)
OnePart(r) == \E p : Understood(p) /\ r = JSON!Ok(<<p>>)

LEMMA ComesBack ==
  ASSUME NEW p, Understood(p)
  PROVE  JSON!parse_part(JSON!Object(JSON!to_json(p))) = JSON!Ok(<<p>>)
<1>1. CASE \E w, s : \E t \in BOOLEAN : p = JSON!Part("text", w, t, s)
  BY <1>1, TextBack, Zenon
<1>2. CASE \E n, i, x, s : n # "" /\ p = JSON!Part("call", <<[name |-> n, id |-> i, payload |-> x]>>, FALSE, s)
  BY <1>2, CallBack, Zenon
<1>3. CASE \E n, i, x, s : p = JSON!Part("response", <<[name |-> n, id |-> i, payload |-> x]>>, FALSE, s)
  BY <1>3, ResponseBack, Zenon
<1> QED BY <1>1, <1>2, <1>3, Zenon DEF Understood

LEMMA Wordings ==
  /\ "part is not an object" # "unsupported part kind" /\ "exception" # "unsupported part kind"
  /\ "functionCall without name" # "unsupported part kind" /\ "unsupported part kind" # ""
  OBVIOUS

LEMMA TextShape ==
  ASSUME NEW v, JSON!Found(v), v[1] = "object"
  PROVE  OnePart(JSON!TextPart(v[2])) \/ Refused(JSON!TextPart(v[2]))
<1> DEFINE doc == v[2]
           r == JSON!TextPart(doc)
           b == "thought" \in DOMAIN doc /\ doc["thought"][2]
           p == JSON!Part("text", doc["text"][2], b, JSON!string_or(doc, "thoughtSignature"))
<1>1. CASE "thought" \in DOMAIN doc /\ ~JSON!Is(doc, "thought", "bool")
  <2>1. r = JSON!Error("exception")
    BY <1>1, Zenon DEF JSON!TextPart
  <2> HIDE DEF r
  <2>2. "exception" # "unsupported part kind"
    OBVIOUS
  <2>3. Refused(r)
    BY <2>1, <2>2, Zenon DEF Refused
  <2> QED BY <2>3, Zenon DEF r
<1>2. CASE ~("thought" \in DOMAIN doc /\ ~JSON!Is(doc, "thought", "bool"))
  <2>1. r = JSON!Ok(<<p>>)
    BY <1>2, Zenon DEF JSON!TextPart
  <2>2. "thought" \in DOMAIN doc => doc["thought"][2] \in BOOLEAN
    BY <1>2, Zenon DEF JSON!Is, JSON!Found
  <2>3. b \in BOOLEAN
    BY <2>2
  <2>4. Understood(p)
    <3> HIDE DEF b
    <3> QED BY <2>3, Zenon DEF Understood
  <2> HIDE DEF p, r
  <2>5. OnePart(r)
    BY <2>1, <2>4, Zenon DEF OnePart
  <2> QED BY <2>5, Zenon DEF r
<1> QED BY <1>1, <1>2

LEMMA CallShape ==
  ASSUME NEW doc
  PROVE  OnePart(JSON!CallPart(doc)) \/ Refused(JSON!CallPart(doc))
<1> DEFINE word == JSON!Word(doc["functionCall"][2], "args")
           r == JSON!CallPart(doc)
           p == JSON!Part("call", <<word>>, FALSE, JSON!string_or(doc, "thoughtSignature"))
<1>1. CASE word.name = ""
  <2>1. r = JSON!Error("functionCall without name")
    BY <1>1, Zenon DEF JSON!CallPart
  <2> HIDE DEF r
  <2>2. "functionCall without name" # "unsupported part kind"
    OBVIOUS
  <2>3. Refused(r)
    BY <2>1, <2>2, Zenon DEF Refused
  <2> QED BY <2>3, Zenon DEF r
<1>2. CASE word.name # ""
  <2>1. r = JSON!Ok(<<p>>)
    BY <1>2, Zenon DEF JSON!CallPart
  <2>2. PICK n, i, x : word = [name |-> n, id |-> i, payload |-> x]
    BY Zenon DEF JSON!Word
  <2>3. n # ""
    <3>1. [name |-> n, id |-> i, payload |-> x].name = n
      BY Zenon
    <3> HIDE DEF word
    <3> QED BY <1>2, <2>2, <3>1, Zenon
  <2>4. p = JSON!Part("call", <<[name |-> n, id |-> i, payload |-> x]>>, FALSE, JSON!string_or(doc, "thoughtSignature"))
    <3> HIDE DEF word
    <3> QED BY <2>2, Zenon
  <2> HIDE DEF word, p, r
  <2>5. Understood(p)
    BY <2>3, <2>4, Zenon DEF Understood
  <2>6. OnePart(r)
    BY <2>1, <2>5, Zenon DEF OnePart
  <2> QED BY <2>6, Zenon DEF r
<1> QED BY <1>1, <1>2

LEMMA ResponseShape ==
  ASSUME NEW doc
  PROVE  OnePart(JSON!ResponsePart(doc))
<1> DEFINE word == JSON!Word(doc["functionResponse"][2], "response")
           r == JSON!ResponsePart(doc)
           p == JSON!Part("response", <<word>>, FALSE, JSON!string_or(doc, "thoughtSignature"))
<1>1. r = JSON!Ok(<<p>>)
  BY Zenon DEF JSON!ResponsePart
<1>2. PICK n, i, x : word = [name |-> n, id |-> i, payload |-> x]
  BY Zenon DEF JSON!Word
<1>3. p = JSON!Part("response", <<[name |-> n, id |-> i, payload |-> x]>>, FALSE, JSON!string_or(doc, "thoughtSignature"))
  <2> HIDE DEF word
  <2> QED BY <1>2, Zenon
<1> HIDE DEF word, p, r
<1>4. Understood(p)
  BY <1>3, Zenon DEF Understood
<1>5. OnePart(r)
  BY <1>1, <1>4, Zenon DEF OnePart
<1> QED BY <1>5, Zenon DEF r

\* A value is of a known kind and understood or refused, or not supported.
LEMMA PartShape ==
  ASSUME NEW v, JSON!Found(v)
  PROVE  /\ JSON!Recognised(v) => OnePart(JSON!parse_part(v)) \/ Refused(JSON!parse_part(v))
         /\ ~JSON!Recognised(v) => JSON!parse_part(v) = Unsupported
<1> DEFINE r == JSON!parse_part(v)
<1>1. CASE v[1] # "object"
  <2>1. r = JSON!Error("part is not an object")
    BY <1>1, Zenon DEF JSON!parse_part
  <2>2. "part is not an object" # "unsupported part kind"
    OBVIOUS
  <2> HIDE DEF r
  <2>3. Refused(r)
    BY <2>1, <2>2, Zenon DEF Refused
  <2>4. JSON!Recognised(v)
    BY <1>1, Zenon DEF JSON!Recognised
  <2> QED BY <2>3, <2>4, Zenon DEF r
<1>2. CASE v[1] = "object" /\ JSON!Is(v[2], "text", "string")
  <2>1. r = JSON!TextPart(v[2])
    BY <1>2, Zenon DEF JSON!parse_part
  <2>2. JSON!Recognised(v)
    BY <1>2, Zenon DEF JSON!Recognised, JSON!Has
  <2>3. OnePart(JSON!TextPart(v[2])) \/ Refused(JSON!TextPart(v[2]))
    BY <1>2, TextShape, Zenon
  <2> QED BY <2>1, <2>2, <2>3, Zenon
<1>3. CASE v[1] = "object" /\ ~JSON!Is(v[2], "text", "string") /\ JSON!Is(v[2], "functionCall", "object")
  <2>1. r = JSON!CallPart(v[2])
    BY <1>3, Zenon DEF JSON!parse_part
  <2>2. JSON!Recognised(v)
    BY <1>3, Zenon DEF JSON!Recognised, JSON!Has
  <2>3. OnePart(JSON!CallPart(v[2])) \/ Refused(JSON!CallPart(v[2]))
    BY CallShape, Zenon
  <2> QED BY <2>1, <2>2, <2>3, Zenon
<1>4. CASE v[1] = "object" /\ ~JSON!Is(v[2], "text", "string") /\ ~JSON!Is(v[2], "functionCall", "object")
           /\ JSON!Is(v[2], "functionResponse", "object")
  <2>1. r = JSON!ResponsePart(v[2])
    BY <1>4, Zenon DEF JSON!parse_part
  <2>2. JSON!Recognised(v)
    BY <1>4, Zenon DEF JSON!Recognised, JSON!Has
  <2>3. OnePart(JSON!ResponsePart(v[2]))
    BY ResponseShape, Zenon
  <2> QED BY <2>1, <2>2, <2>3, Zenon
<1>5. CASE v[1] = "object" /\ ~JSON!Is(v[2], "text", "string") /\ ~JSON!Is(v[2], "functionCall", "object")
           /\ ~JSON!Is(v[2], "functionResponse", "object")
  <2>1. r = Unsupported
    BY <1>5, Zenon DEF JSON!parse_part, Unsupported
  <2>2. ~JSON!Recognised(v)
    BY <1>5, Zenon DEF JSON!Recognised, JSON!Has
  <2> QED BY <2>1, <2>2, Zenon
<1> QED BY <1>1, <1>2, <1>3, <1>4, <1>5, Zenon

Readable(v) ==
    OnePart(JSON!parse_part(v)) \/ Refused(JSON!parse_part(v)) \/ JSON!parse_part(v) = Unsupported

LEMMA OnePartIs ==
  ASSUME NEW r, OnePart(r)
  PROVE  r.ok /\ r.error = "" /\ r.parts = <<r.parts[1]>> /\ Understood(r.parts[1]) /\ r = JSON!Ok(<<r.parts[1]>>)
<1>1. PICK p : Understood(p) /\ r = JSON!Ok(<<p>>)
  BY Zenon DEF OnePart
<1>2. JSON!Ok(<<p>>).ok = TRUE /\ JSON!Ok(<<p>>).parts = <<p>> /\ JSON!Ok(<<p>>).error = ""
  BY OkIs, Zenon
<1>3. <<p>>[1] = p
  OBVIOUS
<1>4. r.parts[1] = p
  BY <1>1, <1>2, <1>3, Zenon
<1> QED BY <1>1, <1>2, <1>4, Zenon

LEMMA RefusedIs ==
  ASSUME NEW r, Refused(r)
  PROVE  ~r.ok /\ r.error # "unsupported part kind"
<1>1. PICK e : e # "unsupported part kind" /\ r = JSON!Error(e)
  BY Zenon DEF Refused
<1>2. JSON!Error(e).ok = FALSE /\ JSON!Error(e).error = e
  BY ErrorIs, Zenon
<1> QED BY <1>1, <1>2, Zenon

LEMMA UnsupportedIs == ~Unsupported.ok /\ Unsupported.error = "unsupported part kind"
<1>1. JSON!Error("unsupported part kind").ok = FALSE
      /\ JSON!Error("unsupported part kind").error = "unsupported part kind"
  BY ErrorIs, Zenon
<1> QED BY <1>1, Zenon DEF Unsupported

\* What a round of parse_content() does.
LEMMA RoundKept == ASSUME NEW c, NEW v, ~c.ok PROVE JSON!Parsed(c, v) = c
  BY Zenon DEF JSON!Parsed

LEMMA RoundSkips ==
  ASSUME NEW c, NEW v, JSON!parse_part(v) = Unsupported PROVE JSON!Parsed(c, v) = c
<1>1. JSON!Skipped(JSON!parse_part(v))
  BY UnsupportedIs, Zenon DEF JSON!Skipped
<1> QED BY <1>1, Zenon DEF JSON!Parsed

LEMMA RoundAdds ==
  ASSUME NEW c, NEW v, c.ok, OnePart(JSON!parse_part(v))
  PROVE  JSON!Parsed(c, v) = JSON!Ok(c.parts \o <<JSON!parse_part(v).parts[1]>>)
<1> DEFINE r == JSON!parse_part(v)
<1>1. r.ok /\ r.error = "" /\ r.parts = <<r.parts[1]>>
  <2> HIDE DEF r
  <2>1. OnePart(r)
    BY Zenon DEF r
  <2> QED BY <2>1, OnePartIs, Zenon
<1>2. ~JSON!Skipped(r)
  <2> HIDE DEF r
  <2>1. "" # "unsupported part kind"
    OBVIOUS
  <2> QED BY <1>1, <2>1, Zenon DEF JSON!Skipped
<1>3. JSON!Parsed(c, v) = JSON!Ok(c.parts \o r.parts)
  BY <1>1, <1>2, Zenon DEF JSON!Parsed
<1> HIDE DEF r
<1>4. JSON!Parsed(c, v) = JSON!Ok(c.parts \o <<r.parts[1]>>)
  BY <1>1, <1>3, Zenon
<1> QED BY <1>4, Zenon DEF r

LEMMA RoundRefuses ==
  ASSUME NEW c, NEW v, c.ok, Refused(JSON!parse_part(v))
  PROVE  JSON!Parsed(c, v) = JSON!parse_part(v)
<1> DEFINE r == JSON!parse_part(v)
<1>1. ~r.ok /\ r.error # "unsupported part kind"
  <2> HIDE DEF r
  <2>1. Refused(r)
    BY Zenon DEF r
  <2> QED BY <2>1, RefusedIs, Zenon
<1>2. ~JSON!Skipped(r)
  <2> HIDE DEF r
  <2> QED BY <1>1, Zenon DEF JSON!Skipped
<1> QED BY <1>1, <1>2, Zenon DEF JSON!Parsed

\* The rounds of parse_content(), over values of which each can be read or not.
LEMMA ContentRounds ==
  ASSUME NEW V, NEW values \in Seq(V), \A i \in 1..Len(values) : Readable(values[i])
  PROVE  /\ JSON!Contents(values)[0] = JSON!Ok(<<>>)
         /\ \A n \in 1..Len(values) :
                JSON!Contents(values)[n] = JSON!Parsed(JSON!Contents(values)[n - 1], values[n])
<1> DEFINE N == Len(values)
           X == {JSON!parse_part(values[i]).parts[1] : i \in 1..N}
           bad == {i \in 1..N : Refused(JSON!parse_part(values[i]))}
           S == {JSON!Ok(s) : s \in Seq(X)} \cup {JSON!parse_part(values[i]) : i \in bad}
           D == [p \in S \X (1..N) |-> JSON!Parsed(p[1], values[p[2]])]
           Is(f) == f = [n \in 0..N |-> IF n = 0 THEN JSON!Ok(<<>>) ELSE JSON!Parsed(f[n - 1], values[n])]
           rounds == CHOOSE f : Is(f)
<1>0. N \in Nat
  OBVIOUS
<1>s. JSON!Ok(<<>>) \in S
  <2>1. <<>> \in Seq(X)
    OBVIOUS
  <2> HIDE DEF X
  <2> QED BY <2>1, Zenon
<1>c. ASSUME NEW c \in S, NEW n \in 1..N PROVE JSON!Parsed(c, values[n]) \in S
  <2>1. CASE ~c.ok
    <3>1. JSON!Parsed(c, values[n]) = c
      BY <2>1, RoundKept, Zenon
    <3> HIDE DEF S
    <3> QED BY <3>1, Zenon
  <2>2. CASE c.ok
    <3>1. PICK s \in Seq(X) : c = JSON!Ok(s)
      <4>1. ASSUME NEW i \in bad, c = JSON!parse_part(values[i]) PROVE FALSE
        BY <2>2, <4>1, RefusedIs, Zenon
      <4> HIDE DEF X, bad
      <4> QED BY <4>1, Zenon
    <3>2. c.parts = s
      <4>1. JSON!Ok(s).parts = s
        BY OkIs, Zenon
      <4> QED BY <3>1, <4>1, Zenon
    <3>3. CASE OnePart(JSON!parse_part(values[n]))
      <4> DEFINE x == JSON!parse_part(values[n]).parts[1]
      <4>1. x \in X
        BY Zenon
      <4>2. JSON!Parsed(c, values[n]) = JSON!Ok(c.parts \o <<x>>)
        BY <2>2, <3>3, RoundAdds, Zenon
      <4> HIDE DEF X, x
      <4>3. s \o <<x>> \in Seq(X)
        BY <4>1
      <4>4. JSON!Parsed(c, values[n]) = JSON!Ok(s \o <<x>>)
        BY <3>2, <4>2, Zenon
      <4> HIDE DEF bad
      <4> QED BY <4>3, <4>4, Zenon
    <3>4. CASE Refused(JSON!parse_part(values[n]))
      <4>1. JSON!Parsed(c, values[n]) = JSON!parse_part(values[n])
        BY <2>2, <3>4, RoundRefuses, Zenon
      <4>2. n \in bad
        BY <3>4, Zenon
      <4> HIDE DEF X, bad
      <4> QED BY <4>1, <4>2, Zenon
    <3>5. CASE JSON!parse_part(values[n]) = Unsupported
      <4>1. JSON!Parsed(c, values[n]) = c
        BY <3>5, RoundSkips, Zenon
      <4> HIDE DEF S
      <4> QED BY <4>1, Zenon
    <3> QED BY <3>3, <3>4, <3>5, Zenon DEF Readable
  <2> QED BY <2>1, <2>2
<1> HIDE DEF S
<1>1. D \in [S \X (1..N) -> S]
  BY <1>c
<1>2. PICK g \in [0..N -> S] : Iterates(g, JSON!Ok(<<>>), N, D)
  <2> HIDE DEF D
  <2> QED BY <1>0, <1>1, <1>s, RecursiveUpTo, Zenon
<1>3. ASSUME NEW n \in 1..N PROVE g[n] = JSON!Parsed(g[n - 1], values[n])
  <2>1. n - 1 \in 0..N
    BY <1>0
  <2>2. g[n - 1] \in S
    BY <2>1
  <2> QED BY <1>2, <2>2 DEF Iterates
<1>4. Is(g)
  <2>1. \A n \in 0..N : n # 0 => n \in 1..N
    BY <1>0
  <2> QED BY <1>2, <1>3, <2>1 DEF Iterates
<1> HIDE DEF Is
<1>5. Is(rounds)
  BY <1>4
<1> HIDE DEF rounds
<1>6. JSON!Contents(values) = rounds
  BY DEF JSON!Contents, rounds, Is
<1>7. rounds[0] = JSON!Ok(<<>>)
  BY <1>0, <1>5 DEF Is
<1>8. ASSUME NEW n \in 1..N PROVE rounds[n] = JSON!Parsed(rounds[n - 1], values[n])
  <2>1. n \in 0..N /\ n # 0
    BY <1>0
  <2> QED BY <1>5, <2>1 DEF Is
<1> QED BY <1>6, <1>7, <1>8

\* What has become of the values up to n: they are listed, or the first that is wrong has ended it.
KnownOf(values) == {i \in DOMAIN values : JSON!Recognised(values[i])}
WrongOf(values) == {i \in KnownOf(values) : ~JSON!parse_part(values[i]).ok}
SaidBy(values) == [i \in DOMAIN values |-> JSON!parse_part(values[i]).parts[1]]
AllListed(values, n, c) ==
    \E s \in Seq({JSON!parse_part(values[i]).parts[1] : i \in KnownOf(values) \ WrongOf(values)}) :
        c = JSON!Ok(s) /\ Options!Lists(s, SaidBy(values), KnownOf(values) \cap (1..n))
EndedBy(values, c) ==
    \E i \in WrongOf(values) : (\A j \in WrongOf(values) : i <= j) /\ c = JSON!parse_part(values[i])
ContentIs(values, n, c) ==
    /\ WrongOf(values) \cap (1..n) = {} => AllListed(values, n, c)
    /\ WrongOf(values) \cap (1..n) # {} => EndedBy(values, c)

LEMMA SortOf ==
  ASSUME NEW V, NEW values \in Seq(V), \A v \in V : JSON!Found(v), NEW i \in DOMAIN values
  PROVE  /\ i \in KnownOf(values) \ WrongOf(values) => OnePart(JSON!parse_part(values[i]))
         /\ i \in WrongOf(values) => Refused(JSON!parse_part(values[i]))
         /\ i \notin KnownOf(values) => JSON!parse_part(values[i]) = Unsupported
<1> DEFINE v == values[i]
<1>1. v \in V
  OBVIOUS
<1> HIDE DEF v
<1>2. JSON!Found(v)
  BY <1>1
<1>3. /\ JSON!Recognised(v) => OnePart(JSON!parse_part(v)) \/ Refused(JSON!parse_part(v))
      /\ ~JSON!Recognised(v) => JSON!parse_part(v) = Unsupported
  BY <1>2, PartShape, Zenon
<1>4. OnePart(JSON!parse_part(v)) => JSON!parse_part(v).ok
  BY OnePartIs, Zenon
<1>5. Refused(JSON!parse_part(v)) => ~JSON!parse_part(v).ok
  BY RefusedIs, Zenon
<1> QED BY <1>3, <1>4, <1>5, Zenon DEF v, KnownOf, WrongOf

LEMMA AllReadable ==
  ASSUME NEW V, NEW values \in Seq(V), \A v \in V : JSON!Found(v), NEW i \in DOMAIN values
  PROVE  Readable(values[i])
<1>1. /\ i \in KnownOf(values) \ WrongOf(values) => OnePart(JSON!parse_part(values[i]))
      /\ i \in WrongOf(values) => Refused(JSON!parse_part(values[i]))
      /\ i \notin KnownOf(values) => JSON!parse_part(values[i]) = Unsupported
  BY SortOf, Zenon
<1> QED BY <1>1, Zenon DEF Readable

LEMMA PlacesAre ==
  ASSUME NEW V, NEW values \in Seq(V)
  PROVE  /\ DOMAIN values = 1..Len(values) /\ Len(values) \in Nat
         /\ KnownOf(values) \in SUBSET Nat /\ WrongOf(values) \in SUBSET Nat
         /\ WrongOf(values) \subseteq KnownOf(values) /\ KnownOf(values) \subseteq 1..Len(values)
<1>1. DOMAIN values = 1..Len(values) /\ Len(values) \in Nat
  OBVIOUS
<1>2. WrongOf(values) \subseteq KnownOf(values) /\ KnownOf(values) \subseteq DOMAIN values
  BY Zenon DEF WrongOf, KnownOf
<1> QED BY <1>1, <1>2

\* A round of values up to n.
LEMMA RoundIs ==
  ASSUME NEW V, NEW values \in Seq(V), \A v \in V : JSON!Found(v), NEW n \in 1..Len(values), NEW c,
         ContentIs(values, n - 1, c)
  PROVE  ContentIs(values, n, JSON!Parsed(c, values[n]))
<1> DEFINE K == KnownOf(values)
           W == WrongOf(values)
           P == {JSON!parse_part(values[i]).parts[1] : i \in K \ W}
           v == values[n]
           q == JSON!Parsed(c, v)
           said == SaidBy(values)
<1>0. /\ DOMAIN values = 1..Len(values) /\ Len(values) \in Nat /\ K \in SUBSET Nat /\ W \in SUBSET Nat
      /\ W \subseteq K /\ K \subseteq 1..Len(values) /\ n \in DOMAIN values /\ n \in Nat \ {0}
  BY PlacesAre
<1>1. /\ n \in K \ W => OnePart(JSON!parse_part(v))
      /\ n \in W => Refused(JSON!parse_part(v))
      /\ n \notin K => JSON!parse_part(v) = Unsupported
  BY <1>0, SortOf, Zenon
<1>k. said[n] = JSON!parse_part(v).parts[1]
  BY <1>0, Zenon DEF SaidBy
<1>2. CASE W \cap (1..(n - 1)) # {}
  <2>1. PICK i \in W : (\A j \in W : i <= j) /\ c = JSON!parse_part(values[i])
    BY <1>2, Zenon DEF ContentIs, EndedBy
  <2>2. ~c.ok
    BY <2>1, Zenon DEF WrongOf
  <2>3. q = c
    BY <2>2, RoundKept, Zenon
  <2>4. W \cap (1..n) # {}
    <3> HIDE DEF W
    <3> QED BY <1>0, <1>2
  <2>5. EndedBy(values, q)
    <3> HIDE DEF q
    <3> QED BY <2>1, <2>3, Zenon DEF EndedBy
  <2> QED BY <2>4, <2>5, Zenon DEF ContentIs
<1>3. CASE W \cap (1..(n - 1)) = {}
  <2>1. PICK s \in Seq(P) : c = JSON!Ok(s) /\ Options!Lists(s, said, K \cap (1..(n - 1)))
    BY <1>3, Zenon DEF ContentIs, AllListed
  <2>2. c.ok /\ c.parts = s
    <3>1. JSON!Ok(s).ok = TRUE /\ JSON!Ok(s).parts = s
      BY OkIs, Zenon
    <3> QED BY <2>1, <3>1, Zenon
  <2>3. CASE n \in K \ W
    <3> DEFINE x == JSON!parse_part(v).parts[1]
               t == s \o <<x>>
    <3>1. q = JSON!Ok(t)
      BY <1>1, <2>2, <2>3, RoundAdds, Zenon
    <3>2. x \in P
      BY <2>3, Zenon
    <3> HIDE DEF P, x
    <3>3. t \in Seq(P) /\ t = Append(s, x)
      BY <3>2
    <3>4. said[n] = x /\ said[n] \in P
      BY <1>k, <3>2, Zenon DEF x
    <3> HIDE DEF t, K, W, said, q
    <3>5. Options!Lists(Append(s, said[n]), said, K \cap (1..n))
      BY <1>0, <2>1, <2>3, <3>4, ListsMore, Zenon
    <3>6. Options!Lists(t, said, K \cap (1..n))
      BY <3>3, <3>4, <3>5, Zenon
    <3>7. AllListed(values, n, q)
      <4>1. \E u \in Seq(P) : q = JSON!Ok(u) /\ Options!Lists(u, said, K \cap (1..n))
        BY <3>1, <3>3, <3>6, Zenon
      <4> HIDE DEF v
      <4> QED BY <4>1, Zenon DEF AllListed, P, K, W, said
    <3>8. W \cap (1..n) = {}
      BY <1>0, <1>3, <2>3
    <3> QED BY <3>7, <3>8, Zenon DEF ContentIs, W, q
  <2>4. CASE n \in W
    <3>1. q = JSON!parse_part(v)
      BY <1>1, <2>2, <2>4, RoundRefuses, Zenon
    <3>2. \A j \in W : n <= j
      <4> HIDE DEF W
      <4> QED BY <1>0, <1>3
    <3>3. EndedBy(values, q)
      <4> HIDE DEF q
      <4> QED BY <2>4, <3>1, <3>2, Zenon DEF EndedBy
    <3>4. W \cap (1..n) # {}
      <4> HIDE DEF W
      <4> QED BY <1>0, <2>4
    <3> QED BY <3>3, <3>4, Zenon DEF ContentIs
  <2>5. CASE n \notin K
    <3>1. q = c
      BY <1>1, <2>5, RoundSkips, Zenon
    <3> HIDE DEF K, W, q, P, said
    <3>2. Options!Lists(s, said, K \cap (1..n))
      BY <1>0, <2>1, <2>5, ListsSame, Zenon
    <3>3. \E u \in Seq(P) : q = JSON!Ok(u) /\ Options!Lists(u, said, K \cap (1..n))
      BY <2>1, <3>1, <3>2, Zenon
    <3>4. AllListed(values, n, q)
      <4> HIDE DEF v
      <4> QED BY <3>3, Zenon DEF AllListed, P, K, W, said
    <3>5. W \cap (1..n) = {}
      BY <1>0, <1>3, <2>5
    <3> QED BY <3>4, <3>5, Zenon DEF ContentIs, W, q
  <2> QED BY <1>0, <2>3, <2>4, <2>5
<1> QED BY <1>2, <1>3

LEMMA ContentEnds ==
  ASSUME NEW V, NEW values \in Seq(V), \A v \in V : JSON!Found(v)
  PROVE  ContentIs(values, Len(values), JSON!parse_content(values))
<1> DEFINE N == Len(values)
           c(n) == JSON!Contents(values)[n]
           T == {n \in 0..N : ContentIs(values, n, c(n))}
<1>0. N \in Nat /\ DOMAIN values = 1..N
  OBVIOUS
<1>1. \A i \in 1..Len(values) : Readable(values[i])
  BY <1>0, AllReadable
<1>2. /\ JSON!Contents(values)[0] = JSON!Ok(<<>>)
      /\ \A n \in 1..Len(values) :
            JSON!Contents(values)[n] = JSON!Parsed(JSON!Contents(values)[n - 1], values[n])
  BY <1>1, ContentRounds, Zenon
<1>3. 0 \in T
  <2> DEFINE P == {JSON!parse_part(values[i]).parts[1] : i \in KnownOf(values) \ WrongOf(values)}
             said == SaidBy(values)
             K == KnownOf(values)
  <2>1. WrongOf(values) \cap (1..0) = {}
    OBVIOUS
  <2>2. \E u \in Seq(P) : c(0) = JSON!Ok(u) /\ Options!Lists(u, said, K \cap (1..0))
    <3> HIDE DEF P, K, said
    <3>1. <<>> \in Seq(P)
      OBVIOUS
    <3>2. Options!Lists(<<>>, said, K \cap (1..0))
      BY ListsNothing, Zenon
    <3> QED BY <1>2, <3>1, <3>2, Zenon
  <2>3. AllListed(values, 0, c(0))
    BY <2>2, Zenon DEF AllListed
  <2>4. ContentIs(values, 0, c(0))
    <3> HIDE DEF c
    <3> QED BY <2>1, <2>3, Zenon DEF ContentIs
  <2>5. 0 \in 0..N
    BY <1>0
  <2> QED BY <2>4, <2>5
<1>4. ASSUME NEW n \in 1..N, n - 1 \in T PROVE n \in T
  <2>1. ContentIs(values, n - 1, c(n - 1)) /\ n \in 0..N
    BY <1>0, <1>4
  <2>2. c(n) = JSON!Parsed(c(n - 1), values[n])
    BY <1>2, Zenon
  <2>3. ContentIs(values, n, JSON!Parsed(c(n - 1), values[n]))
    <3> HIDE DEF c
    <3> QED BY <2>1, RoundIs, Zenon
  <2> HIDE DEF c
  <2>4. ContentIs(values, n, c(n))
    BY <2>2, <2>3, Zenon
  <2> QED BY <2>1, <2>4
<1>5. T \in SUBSET (0..N)
  OBVIOUS
<1> HIDE DEF T
<1>6. T = 0..N
  BY <1>0, <1>3, <1>4, <1>5, IndUpTo
<1>7. N \in T
  BY <1>0, <1>6
<1> QED BY <1>7, Zenon DEF T, JSON!parse_content

LEMMA SameLists == ASSUME NEW s, NEW said, NEW P, Options!Lists(s, said, P) PROVE JSON!Lists(s, said, P)
  BY Zenon DEF Options!Lists, JSON!Lists

LEMMA SkippedAsStated ==
  ASSUME NEW V, NEW values \in Seq(V), \A v \in V : JSON!Found(v)
  PROVE  JSON!OnlyTheUnrecognisedIsSkipped(values)
<1> DEFINE turn == JSON!parse_content(values)
           N == Len(values)
           known == {i \in DOMAIN values : JSON!Recognised(values[i])}
           wrong == {i \in known : ~JSON!parse_part(values[i]).ok}
           listed == JSON!Lists(turn.parts, [i \in DOMAIN values |-> JSON!parse_part(values[i]).parts[1]], known)
           ended == \E i \in wrong : (\A j \in wrong : i <= j) /\ turn = JSON!parse_part(values[i])
<1>1. ContentIs(values, N, turn)
  BY ContentEnds, Zenon
<1>2. KnownOf(values) = known /\ WrongOf(values) = wrong
  BY Zenon DEF KnownOf, WrongOf
<1>3. known \cap (1..N) = known /\ wrong \cap (1..N) = wrong
  <2>1. KnownOf(values) \subseteq 1..N /\ WrongOf(values) \subseteq KnownOf(values)
    BY PlacesAre
  <2> HIDE DEF known, wrong, N
  <2> QED BY <1>2, <2>1
<1>4. wrong = {} => turn.ok /\ listed
  <2> SUFFICES ASSUME wrong = {} PROVE turn.ok /\ listed
    OBVIOUS
  <2>1. WrongOf(values) \cap (1..N) = {}
    <3> HIDE DEF wrong, known, N
    <3> QED BY <1>2
  <2>2. AllListed(values, N, turn)
    <3> HIDE DEF turn, N
    <3> QED BY <1>1, <2>1, Zenon DEF ContentIs
  <2>3. PICK s : turn = JSON!Ok(s) /\ Options!Lists(s, SaidBy(values), KnownOf(values) \cap (1..N))
    BY <2>2, Zenon DEF AllListed
  <2>4. turn.ok /\ turn.parts = s
    <3>1. JSON!Ok(s).ok = TRUE /\ JSON!Ok(s).parts = s
      BY OkIs, Zenon
    <3> HIDE DEF turn
    <3> QED BY <2>3, <3>1, Zenon
  <2>5. JSON!Lists(s, SaidBy(values), KnownOf(values) \cap (1..N))
    BY <2>3, SameLists, Zenon
  <2>6. JSON!Lists(turn.parts, SaidBy(values), known)
    <3> HIDE DEF turn, known, wrong, N
    <3> QED BY <1>2, <1>3, <2>4, <2>5, Zenon
  <2> QED BY <2>4, <2>6, Zenon DEF SaidBy
<1>5. wrong # {} => ended
  <2> SUFFICES ASSUME wrong # {} PROVE ended
    OBVIOUS
  <2>1. WrongOf(values) \cap (1..N) # {}
    <3> HIDE DEF wrong, known, N
    <3> QED BY <1>2, <1>3
  <2>2. EndedBy(values, turn)
    <3> HIDE DEF turn, N
    <3> QED BY <1>1, <2>1, Zenon DEF ContentIs
  <2>3. \E i \in WrongOf(values) : (\A j \in WrongOf(values) : i <= j) /\ turn = JSON!parse_part(values[i])
    BY <2>2, Zenon DEF EndedBy
  <2> HIDE DEF wrong, known, turn
  <2> QED BY <1>2, <2>3, Zenon
<1> HIDE DEF wrong, listed, ended, turn
<1>6. IF wrong = {} THEN turn.ok /\ listed ELSE ended
  BY <1>4, <1>5, Zenon
<1> QED BY <1>6, Zenon DEF JSON!OnlyTheUnrecognisedIsSkipped, turn, known, wrong, listed, ended

\* What is written of understood parts is read as these parts.
LEMMA ReadBack ==
  ASSUME NEW P, NEW s \in Seq(P), \A p \in P : Understood(p)
  PROVE  JSON!parse_content([i \in 1..Len(s) |-> JSON!Object(JSON!to_json(s[i]))]) = JSON!Ok(s)
<1> DEFINE back == [i \in 1..Len(s) |-> JSON!Object(JSON!to_json(s[i]))]
           V == {back[i] : i \in 1..Len(s)}
           N == Len(s)
           c(n) == JSON!Contents(back)[n]
           T == {n \in 0..N : c(n) = JSON!Ok(SubSeq(s, 1, n))}
<1>0. N \in Nat /\ \A i \in 1..N : s[i] \in P
  OBVIOUS
<1>1. back \in Seq(V) /\ Len(back) = N /\ \A i \in 1..N : back[i] = JSON!Object(JSON!to_json(s[i]))
  OBVIOUS
<1> HIDE DEF back
<1>2. ASSUME NEW i \in 1..N PROVE JSON!parse_part(back[i]) = JSON!Ok(<<s[i]>>) /\ OnePart(JSON!parse_part(back[i]))
  <2> DEFINE p == s[i]
  <2>1. p \in P
    BY <1>0
  <2> HIDE DEF p
  <2>2. Understood(p)
    BY <2>1
  <2>3. JSON!parse_part(JSON!Object(JSON!to_json(p))) = JSON!Ok(<<p>>)
    BY <2>2, ComesBack, Zenon
  <2>4. JSON!parse_part(back[i]) = JSON!Ok(<<p>>)
    BY <1>1, <2>3, Zenon DEF p
  <2>5. OnePart(JSON!parse_part(back[i]))
    BY <2>2, <2>4, Zenon DEF OnePart
  <2> QED BY <2>4, <2>5, Zenon DEF p
<1>3. \A i \in 1..Len(back) : Readable(back[i])
  BY <1>1, <1>2, Zenon DEF Readable
<1>4. /\ JSON!Contents(back)[0] = JSON!Ok(<<>>)
      /\ \A n \in 1..Len(back) :
            JSON!Contents(back)[n] = JSON!Parsed(JSON!Contents(back)[n - 1], back[n])
  <2> HIDE DEF V
  <2> QED BY <1>1, <1>3, ContentRounds, Zenon
<1>5. 0 \in T
  <2>1. SubSeq(s, 1, 0) = <<>> /\ 0 \in 0..N
    BY <1>0
  <2> QED BY <1>4, <2>1
<1>6. ASSUME NEW n \in 1..N, n - 1 \in T PROVE n \in T
  <2>1. c(n - 1) = JSON!Ok(SubSeq(s, 1, n - 1)) /\ n \in 0..N
    BY <1>0, <1>6
  <2>2. c(n) = JSON!Parsed(c(n - 1), back[n])
    BY <1>1, <1>4, Zenon
  <2> HIDE DEF c
  <2>3. c(n - 1).ok /\ c(n - 1).parts = SubSeq(s, 1, n - 1)
    <3>1. JSON!Ok(SubSeq(s, 1, n - 1)).ok = TRUE /\ JSON!Ok(SubSeq(s, 1, n - 1)).parts = SubSeq(s, 1, n - 1)
      BY OkIs, Zenon
    <3> QED BY <2>1, <3>1, Zenon
  <2>4. JSON!Parsed(c(n - 1), back[n]) = JSON!Ok(c(n - 1).parts \o <<JSON!parse_part(back[n]).parts[1]>>)
    BY <1>2, <2>3, RoundAdds, Zenon
  <2>5. JSON!parse_part(back[n]).parts[1] = s[n]
    <3>1. JSON!Ok(<<s[n]>>).parts = <<s[n]>>
      BY OkIs, Zenon
    <3>2. <<s[n]>>[1] = s[n]
      OBVIOUS
    <3>3. JSON!parse_part(back[n]) = JSON!Ok(<<s[n]>>)
      BY <1>2, Zenon
    <3> QED BY <3>1, <3>2, <3>3, Zenon
  <2>6. SubSeq(s, 1, n) = SubSeq(s, 1, n - 1) \o <<s[n]>>
    <3>1. 1 \in 1..Len(s) /\ n \in 1..Len(s)
      BY <1>0
    <3> QED BY <3>1, SubSeqRecursiveSecond, Zenon
  <2>7. c(n) = JSON!Ok(SubSeq(s, 1, n))
    BY <2>2, <2>3, <2>4, <2>5, <2>6, Zenon
  <2> QED BY <2>1, <2>7
<1>7. T \in SUBSET (0..N)
  OBVIOUS
<1> HIDE DEF T
<1>8. T = 0..N
  BY <1>0, <1>5, <1>6, <1>7, IndUpTo
<1>9. c(N) = JSON!Ok(SubSeq(s, 1, N))
  <2>1. N \in T
    BY <1>0, <1>8
  <2> QED BY <2>1 DEF T
<1>10. SubSeq(s, 1, N) = s
  BY SubSeqFull, Zenon
<1>11. JSON!parse_content(back) = JSON!Ok(s)
  BY <1>1, <1>9, <1>10, Zenon DEF JSON!parse_content
<1> QED BY <1>11, Zenon DEF back

LEMMA BackAsStated ==
  ASSUME NEW V, NEW values \in Seq(V), \A v \in V : JSON!Found(v)
  PROVE  JSON!SentBackVerbatim(values)
<1> DEFINE turn == JSON!parse_content(values)
           N == Len(values)
           P == {JSON!parse_part(values[i]).parts[1] : i \in KnownOf(values) \ WrongOf(values)}
           back(t) == [i \in 1..Len(t.parts) |-> JSON!Object(JSON!to_json(t.parts[i]))]
<1>1. ContentIs(values, N, turn)
  BY ContentEnds, Zenon
<1>2. turn.ok => JSON!parse_content(back(turn)) = turn
  <2> SUFFICES ASSUME turn.ok PROVE JSON!parse_content(back(turn)) = turn
    OBVIOUS
  <2> HIDE DEF turn
  <2>1. CASE WrongOf(values) \cap (1..N) # {}
    <3>1. EndedBy(values, turn)
      BY <1>1, <2>1, Zenon DEF ContentIs
    <3> QED BY <3>1, Zenon DEF EndedBy, WrongOf
  <2>2. CASE WrongOf(values) \cap (1..N) = {}
    <3>1. AllListed(values, N, turn)
      BY <1>1, <2>2, Zenon DEF ContentIs
    <3>2. PICK s \in Seq(P) : turn = JSON!Ok(s)
      BY <3>1, Zenon DEF AllListed
    <3>3. \A p \in P : Understood(p)
      <4> SUFFICES ASSUME NEW i \in KnownOf(values) \ WrongOf(values)
                   PROVE  Understood(JSON!parse_part(values[i]).parts[1])
        BY Zenon
      <4>1. i \in DOMAIN values
        BY Zenon DEF KnownOf
      <4>2. OnePart(JSON!parse_part(values[i]))
        BY <4>1, SortOf, Zenon
      <4> QED BY <4>2, OnePartIs, Zenon
    <3> HIDE DEF P
    <3>4. JSON!parse_content([i \in 1..Len(s) |-> JSON!Object(JSON!to_json(s[i]))]) = JSON!Ok(s)
      BY <3>3, ReadBack, Zenon
    <3>5. turn.parts = s
      <4>1. JSON!Ok(s).parts = s
        BY OkIs, Zenon
      <4> QED BY <3>2, <4>1, Zenon
    <3> QED BY <3>2, <3>4, <3>5, Zenon
  <2> QED BY <2>1, <2>2
<1> QED BY <1>2, Zenon DEF JSON!SentBackVerbatim

\* wire::parse_content() and to_json(), for every sequence of JSON values found as parts: a part is
\* left out of the turn exactly when no kind is recognised by its name and the type of its field
\* together, in a turn that is accepted, and what has been understood goes back as it came. A known
\* kind with a value of the wrong type is thus left out too: see MalformedPartsRefused.
THEOREM PartsHold == InputSpec => []PartsSurvive
<1>1. Inputs => PartsSurvive
  <2> SUFFICES ASSUME Inputs, subject \in {"json", "turn"}
               PROVE  JSON!OnlyTheUnrecognisedIsSkipped(input) /\ JSON!SentBackVerbatim(input)
    BY DEF PartsSurvive
  <2>1. input \in Seq(Elements[subject]) /\ subject \in Subjects
    BY DEF Inputs
  <2>2. \A v \in Elements[subject] : JSON!Found(v)
    <3>1. Elements[subject] \subseteq ElementsOf("json") \cup ElementsOf("turn")
      BY <2>1, Zenon DEF ElementsOf
    <3> QED BY <3>1, ElementsAssumption
  <2>3. JSON!OnlyTheUnrecognisedIsSkipped(input)
    BY <2>1, <2>2, SkippedAsStated, Zenon
  <2>4. JSON!SentBackVerbatim(input)
    BY <2>1, <2>2, BackAsStated, Zenon
  <2> QED BY <2>3, <2>4
<1> QED BY <1>1, InputsHold, PTL

---------------------------------------------------------------------------
(* GenerateResponse::merge(). *)

\* FlattenSeq, as what each number of sequences comes to.
LEMMA FlattenIs ==
  ASSUME NEW T, NEW ss \in Seq(Seq(T)), NEW g \in [0..Len(ss) -> Seq(T)],
         g[0] = <<>>, \A n \in 1..Len(ss) : g[n] = g[n - 1] \o ss[n]
  PROVE  Merging!FlattenSeq(ss) = g[Len(ss)]
<1> DEFINE N == Len(ss)
           Is(f) == f = [i \in 1..N |-> IF i = 1 THEN ss[i] ELSE f[i - 1] \o ss[i]]
           flat == CHOOSE f : Is(f)
<1>0. N \in Nat
  OBVIOUS
<1>1. CASE N = 0
  <2>1. ss = <<>>
    BY <1>1
  <2>2. Merging!FlattenSeq(ss) = ss
    BY <1>1, Zenon DEF Merging!FlattenSeq
  <2> QED BY <1>1, <2>1, <2>2
<1>2. CASE N # 0
  <2> DEFINE h == [i \in 1..N |-> g[i]]
  <2>1. g[1] = ss[1]
    <3>1. ss[1] \in Seq(T) /\ g[1] = g[0] \o ss[1]
      <4>1. 1 \in 1..N /\ 1 - 1 = 0
        BY <1>0, <1>2
      <4>2. ss[1] \in Seq(T)
        BY <4>1
      <4>3. g[1] = g[1 - 1] \o ss[1]
        BY <4>1, Zenon
      <4> QED BY <4>1, <4>2, <4>3
    <3> QED BY <3>1, ConcatEmptySeq
  <2>2. ASSUME NEW i \in 1..N PROVE h[i] = IF i = 1 THEN ss[i] ELSE h[i - 1] \o ss[i]
    <3>1. CASE i = 1
      BY <2>1, <3>1
    <3>2. CASE i # 1
      <4>1. i - 1 \in 1..N
        BY <1>0, <3>2
      <4> QED BY <3>2, <4>1
    <3> QED BY <3>1, <3>2
  <2>3. Is(h)
    BY <2>2
  <2> HIDE DEF Is
  <2>4. Is(flat)
    BY <2>3
  <2> HIDE DEF flat
  <2>5. Merging!FlattenSeq(ss) = flat[N]
    BY <1>2 DEF Merging!FlattenSeq, flat, Is
  <2> DEFINE A == {n \in 0..N : n = 0 \/ flat[n] = g[n]}
  <2>6. 0 \in A
    BY <1>0
  <2>7. ASSUME NEW n \in 1..N, n - 1 \in A PROVE n \in A
    <3>1. flat[n] = IF n = 1 THEN ss[n] ELSE flat[n - 1] \o ss[n]
      BY <2>4 DEF Is
    <3>2. n \in 0..N
      BY <1>0
    <3>3. CASE n = 1
      BY <2>1, <3>1, <3>2, <3>3
    <3>4. CASE n # 1
      <4>1. flat[n - 1] = g[n - 1]
        BY <2>7, <3>4
      <4> QED BY <3>1, <3>2, <3>4, <4>1
    <3> QED BY <3>3, <3>4
  <2>8. A \in SUBSET (0..N)
    OBVIOUS
  <2> HIDE DEF A
  <2>9. A = 0..N
    BY <1>0, <2>6, <2>7, <2>8, IndUpTo
  <2>10. N \in A
    BY <1>0, <2>9
  <2> QED BY <1>2, <2>5, <2>10 DEF A
<1> QED BY <1>1, <1>2

LEMMA FlattenSteps ==
  ASSUME NEW T, NEW ss \in Seq(Seq(T))
  PROVE  \E g \in [0..Len(ss) -> Seq(T)] : g[0] = <<>> /\ \A n \in 1..Len(ss) : g[n] = g[n - 1] \o ss[n]
<1> DEFINE N == Len(ss)
           D == [p \in Seq(T) \X (1..N) |-> p[1] \o ss[p[2]]]
<1>0. N \in Nat /\ <<>> \in Seq(T)
  OBVIOUS
<1>1. D \in [Seq(T) \X (1..N) -> Seq(T)]
  <2> SUFFICES ASSUME NEW r \in Seq(T), NEW n \in 1..N PROVE r \o ss[n] \in Seq(T)
    OBVIOUS
  <2>1. ss[n] \in Seq(T)
    OBVIOUS
  <2> QED BY <2>1, ConcatProperties
<1>2. PICK g \in [0..N -> Seq(T)] : Iterates(g, <<>>, N, D)
  <2> HIDE DEF D
  <2> QED BY <1>0, <1>1, RecursiveUpTo, Zenon
<1>3. ASSUME NEW n \in 1..N PROVE g[n] = g[n - 1] \o ss[n]
  <2>1. n - 1 \in 0..N
    BY <1>0
  <2>2. g[n - 1] \in Seq(T)
    BY <2>1
  <2> QED BY <1>2, <2>2 DEF Iterates
<1> QED BY <1>2, <1>3 DEF Iterates

LEMMA FlattenNothing == Merging!FlattenSeq(<<>>) = <<>>
  BY DEF Merging!FlattenSeq

LEMMA FlattenMore ==
  ASSUME NEW T, NEW ss \in Seq(Seq(T)), NEW s \in Seq(T)
  PROVE  /\ Merging!FlattenSeq(ss) \in Seq(T)
         /\ Merging!FlattenSeq(Append(ss, s)) = Merging!FlattenSeq(ss) \o s
<1> DEFINE N == Len(ss)
           tt == Append(ss, s)
<1>0. N \in Nat /\ tt \in Seq(Seq(T)) /\ Len(tt) = N + 1 /\ tt[N + 1] = s /\ \A i \in 1..N : tt[i] = ss[i]
  OBVIOUS
<1>1. PICK g \in [0..N -> Seq(T)] : g[0] = <<>> /\ \A n \in 1..N : g[n] = g[n - 1] \o ss[n]
  BY FlattenSteps
<1>2. Merging!FlattenSeq(ss) = g[N] /\ g[N] \in Seq(T)
  <2>1. g[N] \in Seq(T)
    BY <1>0
  <2> QED BY <1>1, <2>1, FlattenIs
<1> HIDE DEF tt
<1> DEFINE h == [n \in 0..Len(tt) |-> IF n = N + 1 THEN g[N] \o s ELSE g[n]]
<1>3. h \in [0..Len(tt) -> Seq(T)]
  <2>1. g[N] \o s \in Seq(T)
    BY <1>2, ConcatProperties
  <2>2. \A n \in 0..Len(tt) : n # N + 1 => n \in 0..N
    BY <1>0
  <2> QED BY <2>1, <2>2
<1>4. h[0] = <<>>
  BY <1>0, <1>1
<1>5. ASSUME NEW n \in 1..Len(tt) PROVE h[n] = h[n - 1] \o tt[n]
  <2>1. CASE n = N + 1
    <3>1. h[n] = g[N] \o s /\ h[n - 1] = g[N] /\ tt[n] = s
      BY <1>0, <2>1
    <3> QED BY <3>1, Zenon
  <2>2. CASE n # N + 1
    <3>1. n \in 1..N /\ n \in 0..Len(tt) /\ n - 1 \in 0..Len(tt) /\ n - 1 # N + 1
      BY <1>0, <2>2
    <3>2. h[n] = g[n] /\ h[n - 1] = g[n - 1] /\ tt[n] = ss[n]
      BY <1>0, <2>2, <3>1
    <3> QED BY <1>1, <3>1, <3>2, Zenon
  <2> QED BY <2>1, <2>2
<1>6. h[Len(tt)] = g[N] \o s
  BY <1>0
<1> HIDE DEF h
<1>7. Merging!FlattenSeq(tt) = h[Len(tt)]
  BY <1>0, <1>3, <1>4, <1>5, FlattenIs
<1> QED BY <1>2, <1>6, <1>7 DEF tt

\* What the elements of a sequence come to, one after the other.
Maps(h, S, T) == h \in [S -> Seq(T)]
FlatMap(h, s) == Merging!FlattenSeq([i \in DOMAIN s |-> h[s[i]]])

LEMMA FlatMapNothing == ASSUME NEW h PROVE FlatMap(h, <<>>) = <<>>
<1>1. [i \in DOMAIN <<>> |-> h[<<>>[i]]] = <<>>
  OBVIOUS
<1> QED BY <1>1, FlattenNothing, Zenon DEF FlatMap

FlatGrows(h, s, x) == FlatMap(h, Append(s, x)) = FlatMap(h, s) \o h[x]

LEMMA FlatMapMore ==
  ASSUME NEW S, NEW T, NEW h, Maps(h, S, T), NEW s \in Seq(S), NEW x \in S
  PROVE  FlatMap(h, s) \in Seq(T) /\ FlatGrows(h, s, x)
<1>0. h \in [S -> Seq(T)]
  BY Zenon DEF Maps
<1> DEFINE t == Append(s, x)
           ss == [i \in DOMAIN s |-> h[s[i]]]
           tt == [i \in DOMAIN t |-> h[t[i]]]
<1>1. /\ DOMAIN s = 1..Len(s) /\ Len(s) \in Nat /\ DOMAIN t = 1..(Len(s) + 1)
      /\ \A i \in 1..Len(s) : t[i] = s[i] /\ s[i] \in S
      /\ t[Len(s) + 1] = x
  OBVIOUS
<1>2. ss \in Seq(Seq(T)) /\ Len(ss) = Len(s) /\ h[x] \in Seq(T)
  <2>1. ss \in [1..Len(s) -> Seq(T)]
    BY <1>0, <1>1
  <2> QED BY <1>0, <1>1, <2>1
<1>3. tt = Append(ss, h[x])
  <2> HIDE DEF t
  <2>1. /\ tt \in Seq(Seq(T)) /\ Len(tt) = Len(s) + 1
        /\ \A i \in 1..Len(s) : tt[i] = h[s[i]]
        /\ tt[Len(s) + 1] = h[x]
    <3>1. \A i \in 1..(Len(s) + 1) : t[i] \in S
      BY <1>1
    <3>2. tt \in [1..(Len(s) + 1) -> Seq(T)]
      BY <1>0, <1>1, <3>1
    <3> QED BY <1>1, <3>2
  <2>2. /\ Append(ss, h[x]) \in Seq(Seq(T)) /\ Len(Append(ss, h[x])) = Len(s) + 1
        /\ \A i \in 1..Len(s) : Append(ss, h[x])[i] = h[s[i]]
        /\ Append(ss, h[x])[Len(s) + 1] = h[x]
    <3>1. \A i \in 1..Len(s) : ss[i] = h[s[i]]
      BY <1>1
    <3> HIDE DEF ss
    <3> QED BY <1>2, <3>1, AppendProperties
  <2> HIDE DEF tt, ss
  <2>3. \A i \in 1..(Len(s) + 1) : tt[i] = Append(ss, h[x])[i]
    BY <1>1, <2>1, <2>2
  <2> QED BY <2>1, <2>2, <2>3, SeqEqual
<1> HIDE DEF ss, tt, t
<1>4. Merging!FlattenSeq(ss) \in Seq(T) /\ Merging!FlattenSeq(Append(ss, h[x])) = Merging!FlattenSeq(ss) \o h[x]
  BY <1>2, FlattenMore
<1>5. FlatMap(h, s) = Merging!FlattenSeq(ss) /\ FlatMap(h, t) = Merging!FlattenSeq(tt)
  BY Zenon DEF FlatMap, ss, tt
<1> QED BY <1>3, <1>4, <1>5, Zenon DEF t, FlatGrows

Regroups(p, q, r) == (p \o q) \o r = p \o (q \o r)
LEMMA Associative ==
  ASSUME NEW T, NEW p \in Seq(T), NEW q \in Seq(T), NEW r \in Seq(T)
  PROVE  Regroups(p, q, r)
<1>1. (p \o q) \o r = p \o (q \o r)
  BY ConcatAssociative
<1> QED BY <1>1, Zenon DEF Regroups

LEMMA FlatMapType ==
  ASSUME NEW S, NEW T, NEW h, Maps(h, S, T), NEW s \in Seq(S)
  PROVE  FlatMap(h, s) \in Seq(T)
<1>1. CASE s = <<>>
  <2>1. <<>> \in Seq(T)
    OBVIOUS
  <2> QED BY <1>1, <2>1, FlatMapNothing, Zenon
<1>2. CASE s # <<>>
  <2>1. s[1] \in S
    BY <1>2
  <2> QED BY <2>1, FlatMapMore, Zenon
<1> QED BY <1>1, <1>2

Splits(h, s, t) == FlatMap(h, s \o t) = FlatMap(h, s) \o FlatMap(h, t)
LEMMA FlatMapBoth ==
  ASSUME NEW S, NEW T, NEW h, Maps(h, S, T), NEW s \in Seq(S), NEW t \in Seq(S)
  PROVE  Splits(h, s, t)
<1> DEFINE N == Len(t)
           B(n) == SubSeq(t, 1, n)
           A == {n \in 0..N : FlatMap(h, s \o B(n)) = FlatMap(h, s) \o FlatMap(h, B(n))}
<1>0. N \in Nat
  OBVIOUS
<1>1. \A n \in 0..N : B(n) \in Seq(S)
  BY <1>0, SubSeqProperties
<1>2. ASSUME NEW u \in Seq(S) PROVE FlatMap(h, u) \in Seq(T)
  BY FlatMapType, Zenon
<1>3. 0 \in A
  <2>1. B(0) = <<>>
    BY SubSeqEmpty
  <2>2. s \o <<>> = s /\ FlatMap(h, s) \o <<>> = FlatMap(h, s)
    BY <1>2, ConcatEmptySeq
  <2>3. 0 \in 0..N
    BY <1>0
  <2> HIDE DEF B
  <2> QED BY <2>1, <2>2, <2>3, FlatMapNothing, Zenon
<1>4. ASSUME NEW n \in 1..N, n - 1 \in A PROVE n \in A
  <2> DEFINE b == B(n - 1)
             x == t[n]
  <2>1. n \in 0..N /\ n - 1 \in 0..N /\ x \in S /\ 1 \in 1..Len(t) /\ n \in 1..Len(t)
    BY <1>0
  <2>2. b \in Seq(S)
    BY <1>1, <2>1
  <2>3. B(n) = Append(b, x)
    <3>1. B(n) = B(n - 1) \o <<x>>
      BY <2>1, SubSeqRecursiveSecond, Zenon
    <3> HIDE DEF B, x
    <3> QED BY <2>1, <2>2, <3>1
  <2>4. FlatMap(h, s \o b) = FlatMap(h, s) \o FlatMap(h, b)
    BY <1>4, Zenon
  <2> HIDE DEF b, x
  <2>5. s \o Append(b, x) = Append(s \o b, x) /\ s \o b \in Seq(S)
    BY <2>1, <2>2
  <2>6. FlatMap(h, Append(s \o b, x)) = FlatMap(h, s \o b) \o h[x]
    <3> DEFINE v == s \o b
    <3>1. v \in Seq(S)
      BY <2>5
    <3> HIDE DEF v
    <3>2. FlatGrows(h, v, x)
      BY <2>1, <3>1, FlatMapMore, Zenon
    <3> QED BY <3>2, Zenon DEF v, FlatGrows
  <2>7. FlatMap(h, Append(b, x)) = FlatMap(h, b) \o h[x]
    <3>1. FlatGrows(h, b, x)
      BY <2>1, <2>2, FlatMapMore, Zenon
    <3> QED BY <3>1, Zenon DEF FlatGrows
  <2>8. (FlatMap(h, s) \o FlatMap(h, b)) \o h[x] = FlatMap(h, s) \o (FlatMap(h, b) \o h[x])
    <3> DEFINE p == FlatMap(h, s)
               q == FlatMap(h, b)
               r == h[x]
    <3>1. p \in Seq(T) /\ q \in Seq(T) /\ r \in Seq(T)
      BY <1>2, <2>1, <2>2 DEF Maps
    <3> HIDE DEF p, q, r
    <3>2. Regroups(p, q, r)
      BY <3>1, Associative, Zenon
    <3> QED BY <3>2, Zenon DEF p, q, r, Regroups
  <2>9. FlatMap(h, s \o B(n)) = FlatMap(h, s) \o FlatMap(h, B(n))
    BY <2>3, <2>4, <2>5, <2>6, <2>7, <2>8, Zenon
  <2> HIDE DEF B
  <2> QED BY <2>1, <2>9
<1>5. A \in SUBSET (0..N)
  OBVIOUS
<1> HIDE DEF A
<1>6. A = 0..N
  BY <1>0, <1>3, <1>4, <1>5, IndUpTo
<1>7. FlatMap(h, s \o B(N)) = FlatMap(h, s) \o FlatMap(h, B(N))
  <2>1. N \in A
    BY <1>0, <1>6
  <2> QED BY <2>1, Zenon DEF A
<1>8. B(N) = t
  BY SubSeqFull, Zenon
<1> QED BY <1>7, <1>8, Zenon DEF Splits

\* What is said of a part by itself.
Parts_ == Merging!Parts
Word_ == Merging!Kind \X BOOLEAN \X STRING
spoken == [p \in Parts_ |-> [w \in DOMAIN p.words |-> <<p.kind, p.thought, p.words[w]>>]]
signed == [p \in Parts_ |-> IF p.signature = "" THEN <<>> ELSE <<p.signature>>]
shown == [p \in Parts_ |-> IF Merging!Visible(p) THEN p.words ELSE <<>>]
called == [p \in Parts_ |-> IF p.kind = "call" THEN p.words ELSE <<>>]

LEMMA OneOrNone == ASSUME NEW S, NEW x \in S PROVE <<>> \in Seq(S) /\ <<x>> \in Seq(S)
  OBVIOUS

\* Two parts that are glued say what they say one after the other.
Faithful(h) == \A p, x \in Parts_ : Merging!Continues(p, x) => h[Merging!Glued(p, x)] = h[p] \o h[x]

LEMMA PartFields ==
  ASSUME NEW p \in Parts_
  PROVE  /\ p.kind \in Merging!Kind /\ p.words \in Seq(STRING) /\ p.thought \in BOOLEAN /\ p.signature \in STRING
  BY DEF Parts_, Merging!Parts

LEMMA ReadersMap ==
  Maps(spoken, Parts_, Word_) /\ Maps(signed, Parts_, STRING) /\ Maps(shown, Parts_, STRING) /\ Maps(called, Parts_, STRING)
<1>1. Maps(spoken, Parts_, Word_)
  <2> SUFFICES ASSUME NEW p \in Parts_
               PROVE  [w \in DOMAIN p.words |-> <<p.kind, p.thought, p.words[w]>>] \in Seq(Word_)
    BY DEF Maps, spoken
  <2> DEFINE k == p.kind
             t == p.thought
             v == p.words
  <2>1. k \in Merging!Kind /\ v \in Seq(STRING) /\ t \in BOOLEAN
    BY PartFields
  <2> HIDE DEF k, t, v
  <2>2. [w \in DOMAIN v |-> <<k, t, v[w]>>] \in Seq(Word_)
    <3>1. DOMAIN v = 1..Len(v) /\ Len(v) \in Nat /\ \A w \in 1..Len(v) : v[w] \in STRING
      BY <2>1
    <3>2. \A w \in 1..Len(v) : <<k, t, v[w]>> \in Word_
      BY <2>1, <3>1 DEF Word_
    <3>3. [w \in 1..Len(v) |-> <<k, t, v[w]>>] \in [1..Len(v) -> Word_]
      BY <3>2
    <3>4. ASSUME NEW n \in Nat, NEW f \in [1..n -> Word_] PROVE f \in Seq(Word_)
      OBVIOUS
    <3>5. [w \in 1..Len(v) |-> <<k, t, v[w]>>] \in Seq(Word_)
      BY <3>1, <3>3, <3>4, Zenon
    <3> QED BY <3>1, <3>5, Zenon
  <2> QED BY <2>2 DEF k, t, v
<1>2. Maps(signed, Parts_, STRING)
  <2> SUFFICES ASSUME NEW p \in Parts_
               PROVE  (IF p.signature = "" THEN <<>> ELSE <<p.signature>>) \in Seq(STRING)
    BY DEF Maps, signed
  <2>1. p.signature \in STRING
    BY PartFields
  <2>2. <<>> \in Seq(STRING) /\ <<p.signature>> \in Seq(STRING)
    BY <2>1
  <2> QED BY <2>2
<1>3. Maps(shown, Parts_, STRING) /\ Maps(called, Parts_, STRING)
  <2>1. \A p \in Parts_ : p.words \in Seq(STRING)
    BY PartFields
  <2>2. <<>> \in Seq(STRING)
    OBVIOUS
  <2> QED BY <2>1, <2>2 DEF Maps, shown, called
<1> QED BY <1>1, <1>2, <1>3

LEMMA GluedIs ==
  ASSUME NEW p \in Parts_, NEW x \in Parts_, NEW q, q = Merging!Glued(p, x)
  PROVE  /\ q \in Parts_ /\ q.kind = p.kind /\ q.thought = p.thought /\ q.words = p.words \o x.words
         /\ q.signature = Merging!Signed(p, x)
<1>1. p.words \o x.words \in Seq(STRING)
  BY PartFields, ConcatProperties
<1>2. Merging!Signed(p, x) \in STRING
  BY PartFields DEF Merging!Signed
<1>3. q = [p EXCEPT !.words = p.words \o x.words, !.signature = Merging!Signed(p, x)]
  BY DEF Merging!Glued
<1> QED BY <1>1, <1>2, <1>3 DEF Parts_, Merging!Parts

\* A text and one that continues it.
LEMMA ContinuesIs ==
  ASSUME NEW p \in Parts_, NEW x \in Parts_, Merging!Continues(p, x)
  PROVE  /\ p.kind = "text" /\ x.kind = "text" /\ p.thought = x.thought
         /\ p.signature = "" \/ x.signature = ""
  BY DEF Merging!Continues

LEMMA SpokenFaithful == Faithful(spoken)
<1> SUFFICES ASSUME NEW p \in Parts_, NEW x \in Parts_, Merging!Continues(p, x)
             PROVE  spoken[Merging!Glued(p, x)] = spoken[p] \o spoken[x]
  BY Zenon DEF Faithful
<1> DEFINE q == Merging!Glued(p, x)
           k == p.kind
           t == p.thought
           v == p.words
           u == x.words
           all == v \o u
           Of(ws) == [w \in DOMAIN ws |-> <<k, t, ws[w]>>]
<1>1. q \in Parts_ /\ q.kind = k /\ q.thought = t /\ q.words = all
  BY GluedIs, Zenon
<1>2. x.kind = k /\ x.thought = t
  BY ContinuesIs
<1>3. v \in Seq(STRING) /\ u \in Seq(STRING) /\ k \in Merging!Kind /\ t \in BOOLEAN
  BY PartFields
<1>4. spoken[q] = Of(all) /\ spoken[p] = Of(v) /\ spoken[x] = Of(u)
  <2>1. spoken[q] = [w \in DOMAIN q.words |-> <<q.kind, q.thought, q.words[w]>>]
    BY <1>1 DEF spoken
  <2>2. spoken[p] = Of(v) /\ spoken[x] = [w \in DOMAIN x.words |-> <<x.kind, x.thought, x.words[w]>>]
    BY DEF spoken
  <2> QED BY <1>1, <1>2, <2>1, <2>2, Zenon
<1> HIDE DEF q, k, t, v, u
<1>5. Of(all) = Of(v) \o Of(u)
  <2>1. all \in Seq(STRING) /\ Len(all) = Len(v) + Len(u) /\ Len(v) \in Nat /\ Len(u) \in Nat
        /\ \A i \in 1..(Len(v) + Len(u)) : all[i] = IF i <= Len(v) THEN v[i] ELSE u[i - Len(v)]
    BY <1>3, ConcatProperties
  <2> HIDE DEF all
  <2>2. ASSUME NEW s \in Seq(STRING)
        PROVE  Of(s) \in Seq(Word_) /\ Len(Of(s)) = Len(s) /\ \A i \in 1..Len(s) : Of(s)[i] = <<k, t, s[i]>>
    <3>1. DOMAIN s = 1..Len(s) /\ Len(s) \in Nat /\ \A i \in 1..Len(s) : s[i] \in STRING
      OBVIOUS
    <3>2. \A i \in 1..Len(s) : <<k, t, s[i]>> \in Word_
      BY <1>3, <3>1 DEF Word_
    <3>3. Of(s) \in [1..Len(s) -> Word_]
      BY <3>1, <3>2
    <3> QED BY <3>1, <3>3
  <2> HIDE DEF Of
  <2>3. Of(v) \o Of(u) \in Seq(Word_) /\ Len(Of(v) \o Of(u)) = Len(v) + Len(u)
        /\ \A i \in 1..(Len(v) + Len(u)) :
              (Of(v) \o Of(u))[i] = IF i <= Len(v) THEN Of(v)[i] ELSE Of(u)[i - Len(v)]
    <3>1. ASSUME NEW a \in Seq(Word_), NEW b \in Seq(Word_)
          PROVE  a \o b \in Seq(Word_) /\ Len(a \o b) = Len(a) + Len(b)
                 /\ \A i \in 1..(Len(a) + Len(b)) : (a \o b)[i] = IF i <= Len(a) THEN a[i] ELSE b[i - Len(a)]
      BY ConcatProperties
    <3>2. Of(v) \in Seq(Word_) /\ Of(u) \in Seq(Word_) /\ Len(Of(v)) = Len(v) /\ Len(Of(u)) = Len(u)
      BY <1>3, <2>2
    <3>3. Of(v) \o Of(u) \in Seq(Word_) /\ Len(Of(v) \o Of(u)) = Len(Of(v)) + Len(Of(u))
          /\ \A i \in 1..(Len(Of(v)) + Len(Of(u))) :
                (Of(v) \o Of(u))[i] = IF i <= Len(Of(v)) THEN Of(v)[i] ELSE Of(u)[i - Len(Of(v))]
      BY <3>1, <3>2, Zenon
    <3> QED BY <3>2, <3>3, Zenon
  <2>4. ASSUME NEW i \in 1..(Len(v) + Len(u)) PROVE Of(all)[i] = (Of(v) \o Of(u))[i]
    <3>1. Of(all)[i] = <<k, t, all[i]>>
      BY <2>1, <2>2
    <3>2. CASE i <= Len(v)
      <4>1. i \in 1..Len(v)
        BY <2>1, <3>2
      <4> QED BY <2>1, <2>2, <2>3, <3>1, <3>2, <4>1, <1>3
    <3>3. CASE ~(i <= Len(v))
      <4>1. i - Len(v) \in 1..Len(u)
        BY <2>1, <3>3
      <4> QED BY <2>1, <2>2, <2>3, <3>1, <3>3, <4>1, <1>3
    <3> QED BY <3>2, <3>3
  <2>5. Of(all) \in Seq(Word_) /\ Len(Of(all)) = Len(v) + Len(u)
    BY <2>1, <2>2
  <2> QED BY <2>1, <2>3, <2>4, <2>5, SeqEqual
<1> QED BY <1>4, <1>5, Zenon DEF q

LEMMA SignedFaithful == Faithful(signed)
<1> SUFFICES ASSUME NEW p \in Parts_, NEW x \in Parts_, Merging!Continues(p, x)
             PROVE  signed[Merging!Glued(p, x)] = signed[p] \o signed[x]
  BY Zenon DEF Faithful
<1> DEFINE q == Merging!Glued(p, x)
           Of(g) == IF g = "" THEN <<>> ELSE <<g>>
<1>1. q \in Parts_ /\ q.signature = Merging!Signed(p, x)
  BY GluedIs, Zenon
<1>2. p.signature = "" \/ x.signature = ""
  BY ContinuesIs
<1>3. p.signature \in STRING /\ x.signature \in STRING
  BY PartFields
<1>4. signed[q] = Of(q.signature) /\ signed[p] = Of(p.signature) /\ signed[x] = Of(x.signature)
  BY <1>1 DEF signed
<1> HIDE DEF q
<1>5. ASSUME NEW s \in Seq(STRING) PROVE s \o <<>> = s /\ <<>> \o s = s
  BY ConcatEmptySeq
<1>6. Of(p.signature) \in Seq(STRING) /\ Of(x.signature) \in Seq(STRING)
  <2>1. ASSUME NEW g \in STRING PROVE Of(g) \in Seq(STRING)
    <3>1. <<>> \in Seq(STRING) /\ <<g>> \in Seq(STRING)
      BY OneOrNone, Zenon
    <3> QED BY <3>1, Zenon
  <2> HIDE DEF Of
  <2> QED BY <1>3, <2>1
<1>7. Of(q.signature) = Of(p.signature) \o Of(x.signature)
  <2>1. CASE p.signature = ""
    <3>1. q.signature = x.signature /\ Of(p.signature) = <<>>
      BY <1>1, <2>1, Zenon DEF Merging!Signed
    <3> HIDE DEF Of
    <3> QED BY <1>5, <1>6, <3>1
  <2>2. CASE p.signature # ""
    <3>1. q.signature = p.signature /\ Of(x.signature) = <<>>
      BY <1>1, <1>2, <2>2, Zenon DEF Merging!Signed
    <3> HIDE DEF Of
    <3> QED BY <1>5, <1>6, <3>1
  <2> QED BY <2>1, <2>2
<1> QED BY <1>4, <1>7, Zenon DEF q

LEMMA ShownFaithful == Faithful(shown) /\ Faithful(called)
<1> SUFFICES ASSUME NEW p \in Parts_, NEW x \in Parts_, Merging!Continues(p, x)
             PROVE  /\ shown[Merging!Glued(p, x)] = shown[p] \o shown[x]
                    /\ called[Merging!Glued(p, x)] = called[p] \o called[x]
  BY Zenon DEF Faithful
<1> DEFINE q == Merging!Glued(p, x)
           v == p.words
           u == x.words
<1>1. q \in Parts_ /\ q.kind = p.kind /\ q.thought = p.thought /\ q.words = v \o u
  BY GluedIs, Zenon
<1>2. p.kind = "text" /\ x.kind = "text" /\ p.thought = x.thought
  BY ContinuesIs
<1>3. v \in Seq(STRING) /\ u \in Seq(STRING) /\ p.thought \in BOOLEAN
  BY PartFields
<1>4. <<>> \o <<>> = <<>>
  OBVIOUS
<1>5. called[q] = <<>> /\ called[p] = <<>> /\ called[x] = <<>>
  <2>1. "text" # "call"
    OBVIOUS
  <2> QED BY <1>1, <1>2, <2>1 DEF called
<1>6. shown[q] = shown[p] \o shown[x]
  <2>1. /\ shown[q] = IF ~q.thought THEN q.words ELSE <<>>
        /\ shown[p] = IF ~p.thought THEN v ELSE <<>>
        /\ shown[x] = IF ~x.thought THEN u ELSE <<>>
    BY <1>1, <1>2 DEF shown, Merging!Visible
  <2> HIDE DEF q, v, u
  <2>2. CASE p.thought
    <3>1. shown[q] = <<>> /\ shown[p] = <<>> /\ shown[x] = <<>>
      BY <1>1, <1>2, <2>1, <2>2, Zenon
    <3> QED BY <1>4, <3>1, Zenon
  <2>3. CASE ~p.thought
    <3>1. shown[q] = v \o u /\ shown[p] = v /\ shown[x] = u
      BY <1>1, <1>2, <2>1, <2>3, Zenon
    <3> QED BY <3>1, Zenon
  <2> QED BY <2>2, <2>3
<1> QED BY <1>4, <1>5, <1>6, Zenon DEF q

\* A sequence that is not empty, and its end.
LEMMA FrontLast ==
  ASSUME NEW S, NEW s \in Seq(S), s # <<>>
  PROVE  /\ Merging!Front(s) \in Seq(S) /\ Merging!Last(s) \in S
         /\ s = Append(Merging!Front(s), Merging!Last(s))
         /\ Len(Merging!Front(s)) = Len(s) - 1
<1> DEFINE f == SubSeq(s, 1, Len(s) - 1)
           x == s[Len(s)]
<1>1. Len(s) \in Nat /\ Len(s) # 0 /\ x \in S
  OBVIOUS
<1>2. f \in Seq(S) /\ Len(f) = Len(s) - 1 /\ \A i \in 1..(Len(s) - 1) : f[i] = s[i]
  BY <1>1, SubSeqProperties
<1> HIDE DEF f, x
<1>3. /\ Append(f, x) \in Seq(S) /\ Len(Append(f, x)) = Len(s)
      /\ \A i \in 1..(Len(s) - 1) : Append(f, x)[i] = s[i]
      /\ Append(f, x)[Len(s)] = x
  BY <1>1, <1>2
<1>4. \A i \in 1..Len(s) : s[i] = Append(f, x)[i]
  BY <1>1, <1>3 DEF x
<1>5. s = Append(f, x)
  BY <1>3, <1>4, SeqEqual
<1> QED BY <1>1, <1>2, <1>5 DEF Merging!Front, Merging!Last, f, x

\* What append_part() makes of parts.
AppendCase(parts, x, q) ==
    \/ /\ q = Append(parts, x)
       /\ \A f \in Seq(Parts_), l \in Parts_ : parts = Append(f, l) => ~Merging!Continues(l, x)
    \/ \E f \in Seq(Parts_), l \in Parts_ :
          parts = Append(f, l) /\ Merging!Continues(l, x) /\ q = Append(f, Merging!Glued(l, x))

LEMMA AppendParts ==
  ASSUME NEW parts \in Seq(Parts_), NEW x \in Parts_
  PROVE  /\ Merging!append_part(parts, x) \in Seq(Parts_)
         /\ AppendCase(parts, x, Merging!append_part(parts, x))
<1> DEFINE f == Merging!Front(parts)
           l == Merging!Last(parts)
           q == Merging!append_part(parts, x)
           glued == Merging!Glued(l, x)
<1>1. CASE parts # <<>> /\ Merging!Continues(l, x)
  <2>1. f \in Seq(Parts_) /\ l \in Parts_ /\ parts = Append(f, l)
    BY <1>1, FrontLast
  <2>2. q = Append(f, glued)
    BY <1>1, Zenon DEF Merging!append_part
  <2>3. glued \in Parts_
    <3> HIDE DEF l
    <3> QED BY <2>1, GluedIs, Zenon
  <2>4. q \in Seq(Parts_)
    <3> HIDE DEF q, f, glued
    <3> QED BY <2>1, <2>2, <2>3
  <2>5. AppendCase(parts, x, q)
    <3> HIDE DEF q, f, l
    <3> QED BY <1>1, <2>1, <2>2, Zenon DEF AppendCase
  <2> QED BY <2>4, <2>5
<1>2. CASE ~(parts # <<>> /\ Merging!Continues(l, x))
  <2>1. q = Append(parts, x)
    BY <1>2, Zenon DEF Merging!append_part
  <2>2. ASSUME NEW g \in Seq(Parts_), NEW k \in Parts_, parts = Append(g, k), Merging!Continues(k, x) PROVE FALSE
    <3>1. parts # <<>> /\ Merging!Last(parts) = k
      BY <2>2 DEF Merging!Last
    <3> QED BY <1>2, <2>2, <3>1, Zenon
  <2>3. q \in Seq(Parts_)
    <3> HIDE DEF q
    <3> QED BY <2>1
  <2>4. AppendCase(parts, x, q)
    <3> HIDE DEF q
    <3> QED BY <2>1, <2>2, Zenon DEF AppendCase
  <2> QED BY <2>3, <2>4
<1> QED BY <1>1, <1>2

Adds(h, parts, x, q) == FlatMap(h, q) = FlatMap(h, parts) \o h[x]
LEMMA AppendSays ==
  ASSUME NEW T, NEW h, Maps(h, Parts_, T), Faithful(h), NEW parts \in Seq(Parts_), NEW x \in Parts_
  PROVE  Adds(h, parts, x, Merging!append_part(parts, x))
<1> DEFINE q == Merging!append_part(parts, x)
<1>1. AppendCase(parts, x, q)
  BY AppendParts, Zenon
<1> HIDE DEF q
<1>2. CASE q = Append(parts, x)
  <2>1. FlatGrows(h, parts, x)
    BY FlatMapMore, Zenon
  <2> QED BY <1>2, <2>1, Zenon DEF FlatGrows, Adds, q
<1>3. ASSUME NEW f \in Seq(Parts_), NEW l \in Parts_, parts = Append(f, l), Merging!Continues(l, x),
             q = Append(f, Merging!Glued(l, x))
      PROVE  Adds(h, parts, x, q)
  <2> DEFINE y == Merging!Glued(l, x)
             a == FlatMap(h, f)
             b == h[l]
             c == h[x]
  <2>1. y \in Parts_
    BY GluedIs, Zenon
  <2>2. h[y] = b \o c
    BY <1>3, Zenon DEF Faithful
  <2>3. a \in Seq(T) /\ b \in Seq(T) /\ c \in Seq(T)
    <3>1. a \in Seq(T)
      BY FlatMapType, Zenon
    <3> QED BY <3>1 DEF Maps
  <2> HIDE DEF y
  <2>4. FlatMap(h, q) = a \o h[y]
    <3>1. FlatGrows(h, f, y)
      BY <2>1, FlatMapMore, Zenon
    <3> QED BY <1>3, <3>1, Zenon DEF FlatGrows, y
  <2>5. FlatMap(h, parts) = a \o b
    <3>1. FlatGrows(h, f, l)
      BY FlatMapMore, Zenon
    <3> QED BY <1>3, <3>1, Zenon DEF FlatGrows
  <2> HIDE DEF a, b, c
  <2>6. Regroups(a, b, c)
    BY <2>3, Associative, Zenon
  <2> QED BY <2>2, <2>4, <2>5, <2>6, Zenon DEF Adds, Regroups, c
<1> QED BY <1>1, <1>2, <1>3, Zenon DEF AppendCase, q

\* The parts stay as compact as a unary response has them.
LEMMA AppendUnary ==
  ASSUME NEW parts \in Seq(Parts_), NEW x \in Parts_, Merging!Unary(parts)
  PROVE  Merging!Unary(Merging!append_part(parts, x))
<1> DEFINE q == Merging!append_part(parts, x)
           Beside(p, r) == p.kind = "text" /\ r.kind = "text" /\ p.thought = r.thought
                              => p.signature # "" /\ r.signature # ""
           All(s) == \A i \in 1..(Len(s) - 1) : Beside(s[i], s[i + 1])
<1>1. AppendCase(parts, x, q)
  BY AppendParts, Zenon
<1>2. All(parts)
  BY Zenon DEF Merging!Unary
<1> HIDE DEF q
<1>3. CASE /\ q = Append(parts, x)
           /\ \A f \in Seq(Parts_), l \in Parts_ : parts = Append(f, l) => ~Merging!Continues(l, x)
  <2>1. ASSUME NEW i \in 1..(Len(q) - 1) PROVE Beside(q[i], q[i + 1])
    <3>1. Len(q) = Len(parts) + 1 /\ Len(parts) \in Nat /\ \A j \in 1..Len(parts) : q[j] = parts[j]
          /\ q[Len(parts) + 1] = x
      BY <1>3
    <3>2. CASE i = Len(parts)
      <4>1. parts # <<>>
        BY <3>1, <3>2
      <4>2. ~Merging!Continues(Merging!Last(parts), x)
        BY <1>3, <4>1, FrontLast
      <4>3. q[i] = Merging!Last(parts) /\ q[i + 1] = x
        BY <3>1, <3>2 DEF Merging!Last
      <4>4. Beside(Merging!Last(parts), x)
        BY <4>2, Zenon DEF Merging!Continues
      <4> HIDE DEF Beside
      <4> QED BY <4>3, <4>4, Zenon
    <3>3. CASE i # Len(parts)
      <4>1. i \in 1..(Len(parts) - 1) /\ i \in 1..Len(parts) /\ i + 1 \in 1..Len(parts)
        BY <3>1, <3>3
      <4>2. q[i] = parts[i] /\ q[i + 1] = parts[i + 1]
        BY <3>1, <4>1
      <4> HIDE DEF Beside
      <4> QED BY <1>2, <4>1, <4>2, Zenon
    <3> QED BY <3>2, <3>3
  <2>2. All(q)
    BY <2>1
  <2> QED BY <2>2, Zenon DEF Merging!Unary, q
<1>4. ASSUME NEW f \in Seq(Parts_), NEW l \in Parts_, parts = Append(f, l), Merging!Continues(l, x),
             q = Append(f, Merging!Glued(l, x))
      PROVE  Merging!Unary(q)
  <2> DEFINE y == Merging!Glued(l, x)
  <2>1. y \in Parts_ /\ y.kind = l.kind /\ y.thought = l.thought /\ y.signature = Merging!Signed(l, x)
    BY GluedIs, Zenon
  <2> HIDE DEF y
  <2>2. l.signature # "" => y.signature # ""
    BY <2>1, Zenon DEF Merging!Signed
  <2>3. /\ Len(f) \in Nat /\ Len(parts) = Len(f) + 1 /\ parts[Len(f) + 1] = l
        /\ Len(q) = Len(f) + 1 /\ q[Len(f) + 1] = y
        /\ \A i \in 1..Len(f) : parts[i] = f[i] /\ q[i] = f[i]
    BY <1>4, <2>1 DEF y
  <2>4. ASSUME NEW i \in 1..(Len(q) - 1) PROVE Beside(q[i], q[i + 1])
    <3>1. i \in 1..(Len(parts) - 1) /\ i \in 1..Len(f) /\ q[i] = parts[i]
      BY <2>3
    <3>2. Beside(parts[i], parts[i + 1])
      <4> HIDE DEF Beside
      <4> QED BY <1>2, <3>1, Zenon
    <3>3. CASE i = Len(f)
      <4>1. parts[i + 1] = l /\ q[i + 1] = y
        BY <2>3, <3>3
      <4> QED BY <2>1, <2>2, <3>1, <3>2, <4>1, Zenon
    <3>4. CASE i # Len(f)
      <4>1. i + 1 \in 1..Len(f)
        BY <2>3, <3>1, <3>4
      <4>2. q[i + 1] = parts[i + 1]
        BY <2>3, <4>1
      <4> HIDE DEF Beside
      <4> QED BY <3>1, <3>2, <4>2, Zenon
    <3> QED BY <3>3, <3>4
  <2>5. All(q)
    BY <2>4
  <2> QED BY <2>5, Zenon DEF Merging!Unary
<1> QED BY <1>1, <1>3, <1>4, Zenon DEF AppendCase, q

\* The prefixes of a sequence.
LEMMA PrefixesOf ==
  ASSUME NEW S, NEW s \in Seq(S)
  PROVE  \E p \in [0..Len(s) -> Seq(S)] :
             p[0] = <<>> /\ p[Len(s)] = s /\ \A n \in 1..Len(s) : p[n] = Append(p[n - 1], s[n])
<1> DEFINE p == [n \in 0..Len(s) |-> SubSeq(s, 1, n)]
<1>0. Len(s) \in Nat /\ \A i \in 1..Len(s) : s[i] \in S
  OBVIOUS
<1>1. p \in [0..Len(s) -> Seq(S)]
  BY <1>0, SubSeqProperties
<1>2. p[0] = <<>>
  <2>1. SubSeq(s, 1, 0) = <<>>
    BY SubSeqEmpty
  <2> QED BY <1>0, <2>1
<1>3. p[Len(s)] = s
  <2>1. SubSeq(s, 1, Len(s)) = s
    BY SubSeqFull, Zenon
  <2>2. Len(s) \in 0..Len(s)
    BY <1>0
  <2> QED BY <2>1, <2>2, Zenon
<1>4. ASSUME NEW n \in 1..Len(s) PROVE p[n] = Append(p[n - 1], s[n])
  <2>1. n \in 0..Len(s) /\ n - 1 \in 0..Len(s) /\ 1 \in 1..Len(s)
    BY <1>0
  <2>2. SubSeq(s, 1, n) = SubSeq(s, 1, n - 1) \o <<s[n]>>
    BY <2>1, SubSeqRecursiveSecond, Zenon
  <2>3. p[n] = p[n - 1] \o <<s[n]>>
    BY <2>1, <2>2, Zenon
  <2>4. p[n - 1] \in Seq(S) /\ s[n] \in S
    BY <1>0, <1>1, <2>1
  <2> HIDE DEF p
  <2> QED BY <2>3, <2>4
<1> QED BY <1>1, <1>2, <1>3, <1>4

\* The rounds of the loop over the parts of a candidate.
LEMMA JoinedRounds ==
  ASSUME NEW parts \in Seq(Parts_), NEW incoming \in Seq(Parts_)
  PROVE  \E g \in [0..Len(incoming) -> Seq(Parts_)] :
             /\ g[0] = parts /\ g[Len(incoming)] = Merging!Joined(parts, incoming)
             /\ \A n \in 1..Len(incoming) : g[n] = Merging!append_part(g[n - 1], incoming[n])
<1> DEFINE N == Len(incoming)
           D == [p \in Seq(Parts_) \X (1..N) |-> Merging!append_part(p[1], incoming[p[2]])]
           Is(f) == f = [k \in 0..N |-> IF k = 0 THEN parts ELSE Merging!append_part(f[k - 1], incoming[k])]
           rounds == CHOOSE f : Is(f)
<1>0. N \in Nat /\ \A n \in 1..N : incoming[n] \in Parts_
  OBVIOUS
<1>1. D \in [Seq(Parts_) \X (1..N) -> Seq(Parts_)]
  <2> SUFFICES ASSUME NEW r \in Seq(Parts_), NEW n \in 1..N
               PROVE  Merging!append_part(r, incoming[n]) \in Seq(Parts_)
    OBVIOUS
  <2> QED BY <1>0, AppendParts
<1>2. PICK g \in [0..N -> Seq(Parts_)] : Iterates(g, parts, N, D)
  <2> HIDE DEF D
  <2> QED BY <1>0, <1>1, RecursiveUpTo, Zenon
<1>3. ASSUME NEW n \in 1..N PROVE g[n] = Merging!append_part(g[n - 1], incoming[n])
  <2>1. n - 1 \in 0..N
    BY <1>0
  <2>2. g[n - 1] \in Seq(Parts_)
    BY <2>1
  <2> QED BY <1>2, <2>2 DEF Iterates
<1>4. Is(g)
  <2>1. \A n \in 0..N : n # 0 => n \in 1..N
    BY <1>0
  <2> QED BY <1>2, <1>3, <2>1 DEF Iterates
<1> HIDE DEF Is
<1>5. Is(rounds)
  BY <1>4
<1> HIDE DEF rounds
<1>6. Merging!Joined(parts, incoming) = rounds[N]
  BY DEF Merging!Joined, rounds, Is
<1>7. rounds[0] = parts
  BY <1>0, <1>5 DEF Is
<1>8. ASSUME NEW n \in 1..N PROVE rounds[n] = Merging!append_part(rounds[n - 1], incoming[n])
  <2>1. n \in 0..N /\ n # 0
    BY <1>0
  <2> QED BY <1>5, <2>1 DEF Is
<1>9. \A n \in 0..N : rounds[n] = g[n]
  <2> DEFINE A == {n \in 0..N : rounds[n] = g[n]}
  <2>1. 0 \in A
    BY <1>0, <1>2, <1>7 DEF Iterates
  <2>2. ASSUME NEW n \in 1..N, n - 1 \in A PROVE n \in A
    <3>1. n \in 0..N /\ rounds[n - 1] = g[n - 1]
      BY <1>0, <2>2
    <3> QED BY <1>3, <1>8, <3>1, Zenon
  <2>3. A \in SUBSET (0..N)
    OBVIOUS
  <2> HIDE DEF A
  <2>4. A = 0..N
    BY <1>0, <2>1, <2>2, <2>3, IndUpTo
  <2> QED BY <2>4 DEF A
<1>10. g[0] = parts /\ g[N] = Merging!Joined(parts, incoming)
  <2>1. 0 \in 0..N /\ N \in 0..N
    BY <1>0
  <2> QED BY <1>6, <1>7, <1>9, <2>1, Zenon
<1> QED BY <1>3, <1>10

LEMMA JoinedType ==
  ASSUME NEW parts \in Seq(Parts_), NEW incoming \in Seq(Parts_)
  PROVE  Merging!Joined(parts, incoming) \in Seq(Parts_)
<1>1. Len(incoming) \in 0..Len(incoming)
  OBVIOUS
<1>2. PICK g \in [0..Len(incoming) -> Seq(Parts_)] : g[Len(incoming)] = Merging!Joined(parts, incoming)
  BY JoinedRounds, Zenon
<1>3. g[Len(incoming)] \in Seq(Parts_)
  BY <1>1
<1> QED BY <1>2, <1>3, Zenon

\* The parts joined say what the parts and those that come say.
JoinSays(h, parts, incoming) ==
    FlatMap(h, Merging!Joined(parts, incoming)) = FlatMap(h, parts) \o FlatMap(h, incoming)
LEMMA JoinedSays ==
  ASSUME NEW T, NEW h, Maps(h, Parts_, T), Faithful(h),
         NEW parts \in Seq(Parts_), NEW incoming \in Seq(Parts_)
  PROVE  JoinSays(h, parts, incoming)
<1> DEFINE N == Len(incoming)
<1>0. N \in Nat /\ \A n \in 1..N : incoming[n] \in Parts_
  OBVIOUS
<1>1. PICK g \in [0..N -> Seq(Parts_)] :
          /\ g[0] = parts /\ g[N] = Merging!Joined(parts, incoming)
          /\ \A n \in 1..N : g[n] = Merging!append_part(g[n - 1], incoming[n])
  BY JoinedRounds
<1>2. PICK p \in [0..N -> Seq(Parts_)] :
          p[0] = <<>> /\ p[N] = incoming /\ \A n \in 1..N : p[n] = Append(p[n - 1], incoming[n])
  BY PrefixesOf
<1> DEFINE A == {n \in 0..N : FlatMap(h, g[n]) = FlatMap(h, parts) \o FlatMap(h, p[n])}
<1>3. ASSUME NEW u \in Seq(Parts_) PROVE FlatMap(h, u) \in Seq(T)
  BY FlatMapType, Zenon
<1>4. 0 \in A
  <2>1. FlatMap(h, parts) \o <<>> = FlatMap(h, parts)
    BY <1>3, ConcatEmptySeq
  <2>2. 0 \in 0..N
    BY <1>0
  <2> QED BY <1>1, <1>2, <2>1, <2>2, FlatMapNothing, Zenon
<1>5. ASSUME NEW n \in 1..N, n - 1 \in A PROVE n \in A
  <2> DEFINE x == incoming[n]
             r == g[n - 1]
             v == p[n - 1]
             a == FlatMap(h, parts)
             b == FlatMap(h, v)
             c == h[x]
  <2>1. n \in 0..N /\ n - 1 \in 0..N /\ x \in Parts_
    BY <1>0
  <2>2. r \in Seq(Parts_) /\ v \in Seq(Parts_)
    BY <1>1, <1>2, <2>1
  <2>3. FlatMap(h, r) = a \o b
    BY <1>5, Zenon
  <2>4. g[n] = Merging!append_part(r, x) /\ p[n] = Append(v, x)
    BY <1>1, <1>2, Zenon
  <2>5. a \in Seq(T) /\ b \in Seq(T) /\ c \in Seq(T)
    <3>1. a \in Seq(T) /\ b \in Seq(T)
      BY <1>3, <2>2
    <3> QED BY <2>1, <3>1 DEF Maps
  <2> HIDE DEF x, r, v
  <2>6. FlatMap(h, g[n]) = FlatMap(h, r) \o c
    <3>1. Adds(h, r, x, Merging!append_part(r, x))
      BY <2>1, <2>2, AppendSays, Zenon
    <3> QED BY <2>4, <3>1, Zenon DEF Adds
  <2>7. FlatMap(h, p[n]) = b \o c
    <3>1. FlatGrows(h, v, x)
      BY <2>1, <2>2, FlatMapMore, Zenon
    <3> QED BY <2>4, <3>1, Zenon DEF FlatGrows
  <2> HIDE DEF a, b, c
  <2>8. Regroups(a, b, c)
    BY <2>5, Associative, Zenon
  <2>9. FlatMap(h, g[n]) = FlatMap(h, parts) \o FlatMap(h, p[n])
    BY <2>3, <2>6, <2>7, <2>8, Zenon DEF Regroups, a
  <2> QED BY <2>1, <2>9
<1>6. A \in SUBSET (0..N)
  OBVIOUS
<1> HIDE DEF A
<1>7. A = 0..N
  BY <1>0, <1>4, <1>5, <1>6, IndUpTo
<1>8. N \in A
  BY <1>0, <1>7
<1>9. FlatMap(h, g[N]) = FlatMap(h, parts) \o FlatMap(h, p[N])
  BY <1>8, Zenon DEF A
<1> QED BY <1>1, <1>2, <1>9, Zenon DEF JoinSays

LEMMA JoinedUnary ==
  ASSUME NEW parts \in Seq(Parts_), NEW incoming \in Seq(Parts_), Merging!Unary(parts)
  PROVE  Merging!Unary(Merging!Joined(parts, incoming))
<1> DEFINE N == Len(incoming)
<1>0. N \in Nat /\ \A n \in 1..N : incoming[n] \in Parts_
  OBVIOUS
<1>1. PICK g \in [0..N -> Seq(Parts_)] :
          /\ g[0] = parts /\ g[N] = Merging!Joined(parts, incoming)
          /\ \A n \in 1..N : g[n] = Merging!append_part(g[n - 1], incoming[n])
  BY JoinedRounds
<1> DEFINE A == {n \in 0..N : Merging!Unary(g[n])}
<1>2. 0 \in A
  <2>1. 0 \in 0..N
    BY <1>0
  <2> QED BY <1>1, <2>1, Zenon
<1>3. ASSUME NEW n \in 1..N, n - 1 \in A PROVE n \in A
  <2>1. n \in 0..N /\ n - 1 \in 0..N /\ incoming[n] \in Parts_
    BY <1>0
  <2>2. g[n - 1] \in Seq(Parts_)
    BY <2>1
  <2>3. Merging!Unary(g[n - 1])
    BY <1>3, Zenon
  <2>4. Merging!Unary(Merging!append_part(g[n - 1], incoming[n]))
    BY <2>1, <2>2, <2>3, AppendUnary, Zenon
  <2>5. Merging!Unary(g[n])
    BY <1>1, <2>4, Zenon
  <2> QED BY <2>1, <2>5, Zenon
<1>4. A \in SUBSET (0..N)
  OBVIOUS
<1> HIDE DEF A
<1>5. A = 0..N
  BY <1>0, <1>2, <1>3, <1>4, IndUpTo
<1>6. N \in A
  BY <1>0, <1>5
<1> QED BY <1>1, <1>6, Zenon DEF A

Candidates_ == Merging!Candidates
Text_ == STRING

LEMMA CandidateFields ==
  ASSUME NEW c \in Candidates_
  PROVE  c.index \in Int /\ c.parts \in Seq(Parts_) /\ c.finish_reason \in Text_
  BY DEF Candidates_, Merging!Candidates, Parts_, Text_

\* A candidate nothing has been said of yet, and what becomes of a candidate.
New(c) == Merging!Candidate(c.index, <<>>, "")
LEMMA NewIs ==
  ASSUME NEW c
  PROVE  New(c).index = c.index /\ New(c).parts = <<>> /\ New(c).finish_reason = ""
  BY Zenon DEF New, Merging!Candidate

LEMMA ToldIs ==
  ASSUME NEW d, NEW c
  PROVE  /\ Merging!Told(d, c).index = d.index
         /\ Merging!Told(d, c).parts = Merging!Joined(d.parts, c.parts)
         /\ Merging!Told(d, c).finish_reason = Merging!Latest(d.finish_reason, c.finish_reason, "")
  BY Zenon DEF Merging!Told, Merging!Candidate

LEMMA EmptyParts == <<>> \in Seq(Parts_)
  OBVIOUS

LEMMA ToldOld ==
  ASSUME NEW d \in Candidates_, NEW c \in Candidates_
  PROVE  Merging!Told(d, c) \in Candidates_
<1> DEFINE q == Merging!Joined(d.parts, c.parts)
           f == Merging!Latest(d.finish_reason, c.finish_reason, "")
<1>1. q \in Seq(Parts_)
  BY CandidateFields, JoinedType
<1>2. f \in Text_
  BY CandidateFields DEF Merging!Latest
<1>3. Merging!Told(d, c) = [index |-> d.index, parts |-> q, finish_reason |-> f]
  BY Zenon DEF Merging!Told, Merging!Candidate
<1>4. d.index \in Int
  BY CandidateFields
<1> HIDE DEF q, f
<1> QED BY <1>1, <1>2, <1>3, <1>4 DEF Candidates_, Merging!Candidates, Parts_, Text_

LEMMA ToldNew ==
  ASSUME NEW c \in Candidates_
  PROVE  Merging!Told(New(c), c) \in Candidates_
<1> DEFINE q == Merging!Joined(<<>>, c.parts)
<1>1. q \in Seq(Parts_)
  BY CandidateFields, EmptyParts, JoinedType
<1>2. Merging!Latest("", c.finish_reason, "") = c.finish_reason
  BY Zenon DEF Merging!Latest
<1>3. Merging!Told(New(c), c) = [index |-> c.index, parts |-> q, finish_reason |-> c.finish_reason]
  BY <1>2, NewIs, Zenon DEF Merging!Told, Merging!Candidate
<1>4. c.index \in Int /\ c.finish_reason \in Text_
  BY CandidateFields
<1> HIDE DEF q
<1> QED BY <1>1, <1>3, <1>4 DEF Candidates_, Merging!Candidates, Parts_, Text_

LEMMA ReplaceLast ==
  ASSUME NEW S, NEW s \in Seq(S), NEW x, NEW y
  PROVE  [Append(s, x) EXCEPT ![Len(s) + 1] = y] = Append(s, y)
<1> DEFINE R == S \cup {x, y}
           t == Append(s, x)
           u == Append(s, y)
           q == [t EXCEPT ![Len(s) + 1] = y]
<1>1. s \in Seq(R) /\ x \in R /\ y \in R /\ Len(s) \in Nat
  OBVIOUS
<1> HIDE DEF R
<1>2. /\ t \in Seq(R) /\ Len(t) = Len(s) + 1 /\ \A i \in 1..Len(s) : t[i] = s[i]
      /\ u \in Seq(R) /\ Len(u) = Len(s) + 1 /\ \A i \in 1..Len(s) : u[i] = s[i]
      /\ u[Len(s) + 1] = y
  BY <1>1
<1> HIDE DEF t, u
<1>3. q \in Seq(R) /\ Len(q) = Len(s) + 1 /\ q[Len(s) + 1] = y /\ \A i \in 1..Len(s) : q[i] = t[i]
  BY <1>1, <1>2
<1> HIDE DEF q
<1>4. \A i \in 1..(Len(s) + 1) : q[i] = u[i]
  <2>1. \A i \in 1..(Len(s) + 1) : i = Len(s) + 1 \/ i \in 1..Len(s)
    BY <1>1
  <2> QED BY <1>2, <1>3, <2>1
<1>5. q = u
  BY <1>1, <1>2, <1>3, <1>4, SeqEqual
<1> QED BY <1>5, Zenon DEF q, u, t

\* What merge_candidate() makes of candidates of which no two have the same index.
Distinct(cs) == \A i, j \in DOMAIN cs : cs[i].index = cs[j].index => i = j
StepOld(cs, c, q) ==
    \E i \in DOMAIN cs : cs[i].index = c.index /\ q = [cs EXCEPT ![i] = Merging!Told(cs[i], c)]
StepNew(cs, c, q) ==
    (\A i \in DOMAIN cs : cs[i].index # c.index) /\ q = Append(cs, Merging!Told(New(c), c))

LEMMA MergeCandidate ==
  ASSUME NEW cs \in Seq(Candidates_), Distinct(cs), NEW c \in Candidates_
  PROVE  LET q == Merging!merge_candidate(cs, c)
         IN  q \in Seq(Candidates_) /\ (StepOld(cs, c, q) \/ StepNew(cs, c, q))
<1> DEFINE q == Merging!merge_candidate(cs, c)
           Is(a, i) == Merging!Same(a[i], c) /\ \A j \in 1..(i - 1) : ~Merging!Same(a[j], c)
           it(a) == CHOOSE i \in DOMAIN a : Is(a, i)
           P == \E i \in DOMAIN cs : Merging!Same(cs[i], c)
           all == IF P THEN cs ELSE Append(cs, New(c))
<1>1. q = [all EXCEPT ![it(all)] = Merging!Told(@, c)]
  BY Zenon DEF Merging!merge_candidate, New
<1>2. DOMAIN cs = 1..Len(cs) /\ Len(cs) \in Nat /\ \A i \in 1..Len(cs) : cs[i] \in Candidates_
  OBVIOUS
<1>3. CASE P
  <2>1. PICK i \in DOMAIN cs : cs[i].index = c.index
    BY <1>3, Zenon DEF Merging!Same
  <2>2. \A j \in DOMAIN cs : Merging!Same(cs[j], c) => j = i
    BY <2>1, Zenon DEF Merging!Same, Distinct
  <2>3. Is(cs, i)
    <3>1. \A j \in 1..(i - 1) : j \in DOMAIN cs /\ j # i
      BY <1>2
    <3>2. Merging!Same(cs[i], c)
      BY <2>1, Zenon DEF Merging!Same
    <3> QED BY <2>2, <3>1, <3>2, Zenon
  <2>4. it(cs) \in DOMAIN cs /\ Merging!Same(cs[it(cs)], c)
    BY <2>3, Zenon
  <2>5. it(cs) = i
    <3> HIDE DEF it
    <3> QED BY <2>2, <2>4, Zenon
  <2>6. q = [cs EXCEPT ![i] = Merging!Told(@, c)]
    <3>1. all = cs
      BY <1>3, Zenon
    <3> HIDE DEF q, it, all
    <3> QED BY <1>1, <2>5, <3>1
  <2>7. q = [cs EXCEPT ![i] = Merging!Told(cs[i], c)]
    BY <2>6, Zenon
  <2>8. q \in Seq(Candidates_)
    <3> DEFINE y == Merging!Told(cs[i], c)
    <3>1. y \in Candidates_
      BY <1>2, <2>1, ToldOld
    <3>2. q = [cs EXCEPT ![i] = y]
      BY <2>7, Zenon
    <3> HIDE DEF q, y
    <3> QED BY <3>1, <3>2
  <2>9. StepOld(cs, c, q)
    <3> HIDE DEF q
    <3> QED BY <2>1, <2>7, Zenon DEF StepOld
  <2> QED BY <2>8, <2>9, Zenon
<1>4. CASE ~P
  <2> DEFINE a == Append(cs, New(c))
             n == Len(cs) + 1
  <2>1. DOMAIN a = 1..n /\ a[n] = New(c) /\ n \in 1..n /\ \A j \in 1..Len(cs) : a[j] = cs[j]
    BY <1>2
  <2> HIDE DEF a
  <2>2. \A j \in 1..Len(cs) : ~Merging!Same(a[j], c)
    BY <1>2, <1>4, <2>1, Zenon
  <2>3. Merging!Same(a[n], c)
    BY <2>1, NewIs, Zenon DEF Merging!Same
  <2>4. n \in DOMAIN a /\ Is(a, n)
    <3>1. n - 1 = Len(cs)
      BY <1>2
    <3> QED BY <2>1, <2>2, <2>3, <3>1, Zenon
  <2>5. it(a) \in DOMAIN a /\ Merging!Same(a[it(a)], c)
    BY <2>4, Zenon
  <2>6. it(a) = n
    <3>1. \A j \in 1..n : j = n \/ j \in 1..Len(cs)
      BY <1>2
    <3> HIDE DEF it, n
    <3> QED BY <2>1, <2>2, <2>5, <3>1, Zenon
  <2>7. q = [a EXCEPT ![n] = Merging!Told(@, c)]
    <3>1. all = a
      BY <1>4, Zenon DEF a
    <3> HIDE DEF q, it, all
    <3> QED BY <1>1, <2>6, <3>1
  <2>8. q = [a EXCEPT ![n] = Merging!Told(New(c), c)]
    BY <2>1, <2>7, Zenon
  <2>9. q = Append(cs, Merging!Told(New(c), c))
    <3> DEFINE x == New(c)
               y == Merging!Told(New(c), c)
    <3>1. q = [Append(cs, x) EXCEPT ![Len(cs) + 1] = y]
      BY <2>8, Zenon DEF a
    <3> HIDE DEF x, y, q
    <3> QED BY <3>1, ReplaceLast DEF y
  <2>10. q \in Seq(Candidates_)
    <3> DEFINE y == Merging!Told(New(c), c)
    <3>1. y \in Candidates_
      BY ToldNew
    <3>2. q = Append(cs, y)
      BY <2>9, Zenon
    <3> HIDE DEF q, y
    <3> QED BY <3>1, <3>2
  <2>11. StepNew(cs, c, q)
    <3>1. \A i \in DOMAIN cs : cs[i].index # c.index
      BY <1>4, Zenon DEF Merging!Same
    <3> HIDE DEF q
    <3> QED BY <2>9, <3>1, Zenon DEF StepNew
  <2> QED BY <2>10, <2>11, Zenon
<1> QED BY <1>3, <1>4, Zenon

\* The parts a candidate brings to those with index n.
Addressed(n) == [c \in Candidates_ |-> IF c.index = n THEN c.parts ELSE <<>>]

LEMMA AddressedMaps == ASSUME NEW n PROVE Maps(Addressed(n), Candidates_, Parts_)
<1>1. ASSUME NEW c \in Candidates_ PROVE (IF c.index = n THEN c.parts ELSE <<>>) \in Seq(Parts_)
  BY CandidateFields, EmptyParts
<1> QED BY <1>1 DEF Maps, Addressed

LEMMA PartsOfIs ==
  ASSUME NEW L \in Seq(Candidates_), NEW n
  PROVE  Merging!PartsOf(L, n) = FlatMap(Addressed(n), L)
<1> DEFINE f == [i \in DOMAIN L |-> IF L[i].index = n THEN L[i].parts ELSE <<>>]
           g == [i \in DOMAIN L |-> Addressed(n)[L[i]]]
<1>1. \A i \in DOMAIN L : L[i] \in Candidates_
  OBVIOUS
<1>2. ASSUME NEW c \in Candidates_ PROVE Addressed(n)[c] = IF c.index = n THEN c.parts ELSE <<>>
  BY DEF Addressed
<1>3. f = g
  <2>1. \A i \in DOMAIN L : Addressed(n)[L[i]] = IF L[i].index = n THEN L[i].parts ELSE <<>>
    BY <1>1, <1>2, Zenon
  <2> QED BY <2>1, Zenon
<1> HIDE DEF f, g
<1> QED BY <1>3, Zenon DEF Merging!PartsOf, FlatMap, f, g

LEMMA PartsOfType ==
  ASSUME NEW L \in Seq(Candidates_), NEW n
  PROVE  Merging!PartsOf(L, n) \in Seq(Parts_)
<1>1. FlatMap(Addressed(n), L) \in Seq(Parts_)
  BY AddressedMaps, FlatMapType, Zenon
<1> QED BY <1>1, PartsOfIs, Zenon

\* One more candidate.
MoreParts(L, c, n) ==
    Merging!PartsOf(Append(L, c), n) = Merging!PartsOf(L, n) \o (IF c.index = n THEN c.parts ELSE <<>>)
LEMMA PartsOfMore ==
  ASSUME NEW L \in Seq(Candidates_), NEW c \in Candidates_, NEW n
  PROVE  MoreParts(L, c, n)
<1>1. FlatGrows(Addressed(n), L, c)
  BY AddressedMaps, FlatMapMore, Zenon
<1>2. Addressed(n)[c] = IF c.index = n THEN c.parts ELSE <<>>
  BY DEF Addressed
<1>3. Append(L, c) \in Seq(Candidates_)
  OBVIOUS
<1>4. Merging!PartsOf(Append(L, c), n) = FlatMap(Addressed(n), Append(L, c))
  BY <1>3, PartsOfIs, Zenon
<1>5. Merging!PartsOf(L, n) = FlatMap(Addressed(n), L)
  BY PartsOfIs, Zenon
<1> QED BY <1>1, <1>2, <1>4, <1>5, Zenon DEF FlatGrows, MoreParts

LEMMA IndexesMore ==
  ASSUME NEW L \in Seq(Candidates_), NEW c \in Candidates_
  PROVE  Merging!Indexes(Append(L, c)) = Merging!Indexes(L) \cup {c.index}
<1> DEFINE M == Append(L, c)
<1>1. /\ DOMAIN L = 1..Len(L) /\ DOMAIN M = 1..(Len(L) + 1) /\ Len(L) \in Nat
      /\ M[Len(L) + 1] = c /\ \A i \in 1..Len(L) : M[i] = L[i]
  OBVIOUS
<1> HIDE DEF M
<1>2. {M[i].index : i \in DOMAIN M} = {L[i].index : i \in DOMAIN L} \cup {c.index}
  <2>1. ASSUME NEW i \in DOMAIN M PROVE M[i].index \in {L[j].index : j \in DOMAIN L} \cup {c.index}
    <3>1. i = Len(L) + 1 \/ i \in 1..Len(L)
      BY <1>1
    <3> QED BY <1>1, <3>1, Zenon
  <2>2. ASSUME NEW i \in DOMAIN L PROVE L[i].index \in {M[j].index : j \in DOMAIN M}
    <3>1. i \in DOMAIN M /\ M[i] = L[i]
      BY <1>1
    <3> QED BY <3>1, Zenon
  <2>3. c.index \in {M[j].index : j \in DOMAIN M}
    <3>1. Len(L) + 1 \in DOMAIN M
      BY <1>1
    <3> QED BY <1>1, <3>1, Zenon
  <2> QED BY <2>1, <2>2, <2>3, Zenon
<1> QED BY <1>2, Zenon DEF Merging!Indexes, M

\* What the candidates have said of why they have ended.
Reasons(L, n) == [i \in DOMAIN L |-> IF L[i].index = n THEN L[i].finish_reason ELSE ""]

Reasoned(value, L, n) == Merging!IsLatest(value, Reasons(L, n), "")

LEMMA LatestMore ==
  ASSUME NEW N \in Nat, NEW values, DOMAIN values = 1..N, NEW more, DOMAIN more = 1..(N + 1),
         \A i \in 1..N : more[i] = values[i],
         NEW old, NEW none, Merging!IsLatest(old, values, none)
  PROVE  Merging!IsLatest(Merging!Latest(old, more[N + 1], none), more, none)
<1> DEFINE new == more[N + 1]
           value == Merging!Latest(old, new, none)
<1>0. /\ \A i \in DOMAIN more : i = N + 1 \/ i \in DOMAIN values
      /\ N + 1 \in DOMAIN more /\ \A i \in DOMAIN values : i \in DOMAIN more
      /\ \A i \in DOMAIN values : more[i] = values[i]
  OBVIOUS
<1>1. CASE new # none
  <2>1. value = new
    BY <1>1, Zenon DEF Merging!Latest
  <2>2. \A j \in DOMAIN more : ~(j > N + 1)
    OBVIOUS
  <2> HIDE DEF value
  <2>3. Merging!IsLatest(value, more, none)
    BY <1>0, <1>1, <2>1, <2>2, Zenon DEF Merging!IsLatest
  <2> QED BY <2>3, Zenon DEF value
<1>2. CASE new = none
  <2>1. value = old
    BY <1>2, Zenon DEF Merging!Latest
  <2> HIDE DEF value
  <2>2. CASE old = none /\ \A i \in DOMAIN values : values[i] = none
    <3>1. ASSUME NEW i \in DOMAIN more PROVE more[i] = none
      <4>1. CASE i = N + 1
        BY <1>2, <4>1
      <4>2. CASE i \in DOMAIN values
        BY <1>0, <2>2, <4>2, Zenon
      <4> QED BY <1>0, <4>1, <4>2, Zenon
    <3>2. Merging!IsLatest(value, more, none)
      BY <2>1, <2>2, <3>1, Zenon DEF Merging!IsLatest
    <3> QED BY <3>2, Zenon DEF value
  <2>3. ASSUME NEW i \in DOMAIN values, old = values[i], old # none,
               \A j \in DOMAIN values : j > i => values[j] = none
        PROVE  Merging!IsLatest(value, more, none)
    <3>1. ASSUME NEW j \in DOMAIN more, j > i PROVE more[j] = none
      <4>1. CASE j = N + 1
        BY <1>2, <4>1
      <4>2. CASE j \in DOMAIN values
        BY <1>0, <2>3, <3>1, <4>2, Zenon
      <4> QED BY <1>0, <4>1, <4>2, Zenon
    <3> QED BY <1>0, <2>1, <2>3, <3>1, Zenon DEF Merging!IsLatest
  <2>4. Merging!IsLatest(value, more, none)
    BY <2>2, <2>3, Zenon DEF Merging!IsLatest, value
  <2> QED BY <2>4, Zenon DEF value
<1> QED BY <1>1, <1>2

MoreReasons(L, c, n, old) ==
    Reasoned(Merging!Latest(old, IF c.index = n THEN c.finish_reason ELSE "", ""), Append(L, c), n)
LEMMA ReasonsMore ==
  ASSUME NEW L \in Seq(Candidates_), NEW c \in Candidates_, NEW n, NEW old,
         Reasoned(old, L, n)
  PROVE  MoreReasons(L, c, n, old)
<1> DEFINE M == Append(L, c)
           N == Len(L)
           values == Reasons(L, n)
           more == Reasons(M, n)
<1>1. /\ DOMAIN L = 1..N /\ DOMAIN M = 1..(N + 1) /\ N \in Nat
      /\ M[N + 1] = c /\ \A i \in 1..N : M[i] = L[i]
  OBVIOUS
<1> HIDE DEF M, N
<1>2. DOMAIN values = 1..N /\ DOMAIN more = 1..(N + 1)
  BY <1>1, Zenon DEF Reasons
<1>3. \A i \in 1..N : more[i] = values[i]
  <2>1. \A i \in 1..N : i \in DOMAIN M
    BY <1>1
  <2> QED BY <1>1, <2>1, Zenon DEF Reasons
<1>4. more[N + 1] = IF c.index = n THEN c.finish_reason ELSE ""
  <2>1. N + 1 \in DOMAIN M
    BY <1>1
  <2> QED BY <1>1, <2>1, Zenon DEF Reasons
<1> HIDE DEF values, more
<1>5. Merging!IsLatest(old, values, "")
  BY Zenon DEF values, Reasoned
<1>6. Merging!IsLatest(Merging!Latest(old, more[N + 1], ""), more, "")
  BY <1>1, <1>2, <1>3, <1>5, LatestMore, Zenon
<1> QED BY <1>4, <1>6, Zenon DEF MoreReasons, Reasoned, more, M

\* What a merged candidate has of those that were sent: h is a reader of parts.
EntryOf(h, d, L) ==
    /\ d.parts \in Seq(Parts_)
    /\ Merging!Unary(d.parts)
    /\ FlatMap(h, d.parts) = FlatMap(h, Merging!PartsOf(L, d.index))
    /\ Reasoned(d.finish_reason, L, d.index)
Mirrors(h, cs, L) ==
    /\ Distinct(cs)
    /\ Merging!Indexes(cs) = Merging!Indexes(L)
    /\ \A i \in DOMAIN cs : EntryOf(h, cs[i], L)

LEMMA EntryTold ==
  ASSUME NEW T, NEW h, Maps(h, Parts_, T), Faithful(h),
         NEW L \in Seq(Candidates_), NEW c \in Candidates_, NEW d, d.index = c.index, EntryOf(h, d, L)
  PROVE  EntryOf(h, Merging!Told(d, c), Append(L, c))
<1> DEFINE n == c.index
           q == Merging!Told(d, c)
           M == Append(L, c)
           p == d.parts
           x == c.parts
           sent == Merging!PartsOf(L, n)
<1>1. /\ q.index = n /\ q.parts = Merging!Joined(p, x)
      /\ q.finish_reason = Merging!Latest(d.finish_reason, c.finish_reason, "")
  BY ToldIs, Zenon
<1>2. /\ p \in Seq(Parts_) /\ Merging!Unary(p) /\ FlatMap(h, p) = FlatMap(h, sent)
      /\ Reasoned(d.finish_reason, L, n)
  BY Zenon DEF EntryOf
<1>3. x \in Seq(Parts_) /\ sent \in Seq(Parts_)
  BY CandidateFields, PartsOfType
<1>4. Merging!PartsOf(M, n) = sent \o x
  <2>1. MoreParts(L, c, n)
    BY PartsOfMore, Zenon
  <2> QED BY <2>1, Zenon DEF MoreParts
<1>5. Reasoned(q.finish_reason, M, n)
  <2>1. MoreReasons(L, c, n, d.finish_reason)
    BY <1>2, ReasonsMore, Zenon
  <2>2. (IF c.index = n THEN c.finish_reason ELSE "") = c.finish_reason
    BY Zenon
  <2> QED BY <1>1, <2>1, <2>2, Zenon DEF MoreReasons
<1> HIDE DEF n, q, M, p, x, sent
<1>6. Merging!Joined(p, x) \in Seq(Parts_) /\ Merging!Unary(Merging!Joined(p, x))
  BY <1>2, <1>3, JoinedType, JoinedUnary, Zenon
<1>7. FlatMap(h, Merging!Joined(p, x)) = FlatMap(h, sent \o x)
  <2>1. JoinSays(h, p, x)
    BY <1>2, <1>3, JoinedSays, Zenon
  <2>2. Splits(h, sent, x)
    BY <1>3, FlatMapBoth, Zenon
  <2> QED BY <1>2, <2>1, <2>2, Zenon DEF JoinSays, Splits
<1>8. EntryOf(h, q, M)
  BY <1>1, <1>4, <1>5, <1>6, <1>7, Zenon DEF EntryOf
<1> QED BY <1>8, Zenon DEF q, M

LEMMA EntryOther ==
  ASSUME NEW h, NEW L \in Seq(Candidates_), NEW c \in Candidates_,
         NEW d \in Candidates_, d.index # c.index, EntryOf(h, d, L)
  PROVE  EntryOf(h, d, Append(L, c))
<1> DEFINE n == d.index
           sent == Merging!PartsOf(L, n)
<1>1. Merging!PartsOf(Append(L, c), n) = sent
  <2>1. MoreParts(L, c, n)
    BY PartsOfMore, Zenon
  <2>2. (IF c.index = n THEN c.parts ELSE <<>>) = <<>>
    BY Zenon
  <2>3. sent \in Seq(Parts_)
    BY PartsOfType, Zenon
  <2>4. sent \o <<>> = sent
    <3> HIDE DEF sent
    <3> QED BY <2>3, ConcatEmptySeq
  <2> QED BY <2>1, <2>2, <2>4, Zenon DEF MoreParts
<1>2. Reasoned(d.finish_reason, Append(L, c), n)
  <2>1. Reasoned(d.finish_reason, L, n)
    BY Zenon DEF EntryOf
  <2>2. MoreReasons(L, c, n, d.finish_reason)
    BY <2>1, ReasonsMore, Zenon
  <2>3. Merging!Latest(d.finish_reason, IF c.index = n THEN c.finish_reason ELSE "", "") = d.finish_reason
    BY Zenon DEF Merging!Latest
  <2> QED BY <2>2, <2>3, Zenon DEF MoreReasons
<1> QED BY <1>1, <1>2, Zenon DEF EntryOf

LEMMA UnaryNothing == Merging!Unary(<<>>)
<1>1. \A i \in 1..(Len(<<>>) - 1) : FALSE
  OBVIOUS
<1> QED BY <1>1, Zenon DEF Merging!Unary

LEMMA EntryNew ==
  ASSUME NEW h, NEW L \in Seq(Candidates_), NEW c \in Candidates_, c.index \notin Merging!Indexes(L)
  PROVE  EntryOf(h, New(c), L)
<1> DEFINE n == c.index
           d == New(c)
<1>1. d.index = n /\ d.parts = <<>> /\ d.finish_reason = ""
  BY NewIs, Zenon
<1>2. Merging!Unary(<<>>)
  BY UnaryNothing, Zenon
<1>3. \A i \in DOMAIN L : L[i].index # n
  BY Zenon DEF Merging!Indexes
<1>4. Merging!PartsOf(L, n) = <<>>
  <2>1. PICK p \in [0..Len(L) -> Seq(Candidates_)] :
            p[0] = <<>> /\ p[Len(L)] = L /\ \A k \in 1..Len(L) : p[k] = Append(p[k - 1], L[k])
    BY PrefixesOf
  <2> DEFINE A == {k \in 0..Len(L) : Merging!PartsOf(p[k], n) = <<>>}
  <2>2. Len(L) \in Nat /\ DOMAIN L = 1..Len(L) /\ \A k \in 1..Len(L) : L[k] \in Candidates_
    OBVIOUS
  <2>3. 0 \in A
    <3>1. <<>> \in Seq(Candidates_) /\ 0 \in 0..Len(L)
      BY <2>2
    <3>2. Merging!PartsOf(<<>>, n) = <<>>
      BY <3>1, PartsOfIs, FlatMapNothing, Zenon
    <3> QED BY <2>1, <3>1, <3>2, Zenon
  <2>4. ASSUME NEW k \in 1..Len(L), k - 1 \in A PROVE k \in A
    <3>1. k \in 0..Len(L) /\ k - 1 \in 0..Len(L) /\ L[k] \in Candidates_ /\ k \in DOMAIN L
      BY <2>2
    <3>2. p[k - 1] \in Seq(Candidates_)
      BY <3>1
    <3>3. MoreParts(p[k - 1], L[k], n)
      BY <3>1, <3>2, PartsOfMore, Zenon
    <3>4. (IF L[k].index = n THEN L[k].parts ELSE <<>>) = <<>>
      BY <1>3, <3>1, Zenon
    <3>5. <<>> \o <<>> = <<>>
      OBVIOUS
    <3>6. Merging!PartsOf(p[k - 1], n) = <<>>
      BY <2>4, Zenon
    <3>7. Merging!PartsOf(p[k], n) = <<>>
      BY <2>1, <3>3, <3>4, <3>5, <3>6, Zenon DEF MoreParts
    <3> QED BY <3>1, <3>7, Zenon
  <2>5. A \in SUBSET (0..Len(L))
    OBVIOUS
  <2> HIDE DEF A
  <2>6. A = 0..Len(L)
    BY <2>2, <2>3, <2>4, <2>5, IndUpTo
  <2>7. Len(L) \in A
    BY <2>2, <2>6
  <2> QED BY <2>1, <2>7, Zenon DEF A
<1>5. Reasoned("", L, n)
  <2>1. \A i \in DOMAIN Reasons(L, n) : Reasons(L, n)[i] = ""
    BY <1>3, Zenon DEF Reasons
  <2> QED BY <2>1, Zenon DEF Merging!IsLatest, Reasoned
<1> HIDE DEF d
<1>6. d.parts \in Seq(Parts_)
  BY <1>1, EmptyParts, Zenon
<1>7. EntryOf(h, d, L)
  BY <1>1, <1>2, <1>4, <1>5, <1>6, Zenon DEF EntryOf
<1> QED BY <1>7, Zenon DEF d

LEMMA DistinctMore ==
  ASSUME NEW cs \in Seq(Candidates_), Distinct(cs), NEW c \in Candidates_
  PROVE  Distinct(Merging!merge_candidate(cs, c))
<1> DEFINE q == Merging!merge_candidate(cs, c)
           n == c.index
<1>0. DOMAIN cs = 1..Len(cs) /\ Len(cs) \in Nat
  OBVIOUS
<1>1. StepOld(cs, c, q) \/ StepNew(cs, c, q)
  BY MergeCandidate, Zenon
<1> HIDE DEF q
<1>2. ASSUME NEW i \in DOMAIN cs, cs[i].index = n, q = [cs EXCEPT ![i] = Merging!Told(cs[i], c)]
      PROVE  Distinct(q)
  <2> DEFINE y == Merging!Told(cs[i], c)
  <2>1. y.index = n
    BY <1>2, ToldIs, Zenon
  <2>2. DOMAIN q = DOMAIN cs /\ q[i] = y /\ \A j \in DOMAIN cs : j # i => q[j] = cs[j]
    BY <1>0, <1>2
  <2> HIDE DEF y
  <2>3. \A j \in DOMAIN cs : q[j].index = cs[j].index
    BY <1>2, <2>1, <2>2, Zenon
  <2> QED BY <2>2, <2>3, Zenon DEF Distinct
<1>3. ASSUME \A i \in DOMAIN cs : cs[i].index # n, q = Append(cs, Merging!Told(New(c), c))
      PROVE  Distinct(q)
  <2> DEFINE y == Merging!Told(New(c), c)
             N == Len(cs) + 1
  <2>1. y.index = n
    BY ToldIs, NewIs, Zenon
  <2>2. y \in Candidates_
    BY ToldNew
  <2>3. q = Append(cs, y)
    BY <1>3, Zenon
  <2> HIDE DEF y
  <2>4. /\ DOMAIN q = 1..N /\ q[N] = y /\ \A j \in 1..Len(cs) : q[j] = cs[j]
        /\ \A j \in 1..N : j = N \/ j \in DOMAIN cs
    BY <1>0, <2>2, <2>3
  <2> HIDE DEF N
  <2>5. \A j \in DOMAIN q : j = N \/ (j \in DOMAIN cs /\ q[j] = cs[j] /\ cs[j].index # n)
    BY <1>0, <1>3, <2>4, Zenon
  <2>6. q[N].index = n
    BY <2>1, <2>4, Zenon
  <2>7. ASSUME NEW i \in DOMAIN q, NEW j \in DOMAIN q, q[i].index = q[j].index PROVE i = j
    <3>1. CASE i = N /\ j # N
      BY <2>5, <2>6, <2>7, <3>1, Zenon
    <3>2. CASE i # N /\ j = N
      BY <2>5, <2>6, <2>7, <3>2, Zenon
    <3>3. CASE i # N /\ j # N
      BY <2>5, <2>7, <3>3, Zenon DEF Distinct
    <3> QED BY <3>1, <3>2, <3>3, Zenon
  <2> QED BY <2>7, Zenon DEF Distinct
<1>4. Distinct(q)
  BY <1>1, <1>2, <1>3, Zenon DEF StepOld, StepNew
<1> QED BY <1>4, Zenon DEF q

LEMMA MirrorsMore ==
  ASSUME NEW T, NEW h, Maps(h, Parts_, T), Faithful(h),
         NEW cs \in Seq(Candidates_), NEW L \in Seq(Candidates_), NEW c \in Candidates_, Mirrors(h, cs, L)
  PROVE  Mirrors(h, Merging!merge_candidate(cs, c), Append(L, c))
<1> DEFINE q == Merging!merge_candidate(cs, c)
           M == Append(L, c)
           n == c.index
<1>0. /\ Distinct(cs) /\ Merging!Indexes(cs) = Merging!Indexes(L)
      /\ \A i \in DOMAIN cs : EntryOf(h, cs[i], L)
      /\ DOMAIN cs = 1..Len(cs) /\ Len(cs) \in Nat
      /\ \A i \in DOMAIN cs : cs[i] \in Candidates_
  <2>1. DOMAIN cs = 1..Len(cs) /\ Len(cs) \in Nat /\ \A i \in DOMAIN cs : cs[i] \in Candidates_
    OBVIOUS
  <2> QED BY <2>1, Zenon DEF Mirrors
<1>1. q \in Seq(Candidates_) /\ (StepOld(cs, c, q) \/ StepNew(cs, c, q))
  BY <1>0, MergeCandidate, Zenon
<1>2. Merging!Indexes(M) = Merging!Indexes(L) \cup {n}
  BY IndexesMore, Zenon
<1> HIDE DEF q, M
<1>3. ASSUME NEW i \in DOMAIN cs, cs[i].index = n, q = [cs EXCEPT ![i] = Merging!Told(cs[i], c)]
      PROVE  Mirrors(h, q, M)
  <2> DEFINE y == Merging!Told(cs[i], c)
  <2>1. y.index = n
    BY <1>3, ToldIs, Zenon
  <2>2. DOMAIN q = DOMAIN cs /\ q[i] = y /\ \A j \in DOMAIN cs : j # i => q[j] = cs[j]
    BY <1>0, <1>3
  <2>3. EntryOf(h, y, M)
    BY <1>0, <1>3, EntryTold, Zenon DEF M
  <2> HIDE DEF y
  <2>4. \A j \in DOMAIN cs : q[j].index = cs[j].index
    BY <1>3, <2>1, <2>2, Zenon
  <2>5. Distinct(q)
    BY <1>0, DistinctMore, Zenon DEF q
  <2>6. Merging!Indexes(q) = Merging!Indexes(cs)
    BY <2>2, <2>4, Zenon DEF Merging!Indexes
  <2>7. n \in Merging!Indexes(cs)
    BY <1>3, Zenon DEF Merging!Indexes
  <2>8. Merging!Indexes(q) = Merging!Indexes(M)
    BY <1>0, <1>2, <2>6, <2>7, Zenon
  <2>9. ASSUME NEW j \in DOMAIN q PROVE EntryOf(h, q[j], M)
    <3>1. CASE j = i
      BY <2>2, <2>3, <3>1, Zenon
    <3>2. CASE j # i
      <4>1. q[j] = cs[j] /\ cs[j].index # n /\ cs[j] \in Candidates_ /\ EntryOf(h, cs[j], L)
        BY <1>0, <1>3, <2>2, <3>2, Zenon DEF Distinct
      <4>2. EntryOf(h, cs[j], M)
        BY <4>1, EntryOther, Zenon DEF M
      <4> QED BY <4>1, <4>2, Zenon
    <3> QED BY <3>1, <3>2
  <2> QED BY <2>5, <2>8, <2>9, Zenon DEF Mirrors
<1>4. ASSUME \A i \in DOMAIN cs : cs[i].index # n, q = Append(cs, Merging!Told(New(c), c))
      PROVE  Mirrors(h, q, M)
  <2> DEFINE y == Merging!Told(New(c), c)
             N == Len(cs) + 1
  <2>1. y.index = n /\ y \in Candidates_
    <3>1. y.index = n
      BY ToldIs, NewIs, Zenon
    <3>2. y \in Candidates_
      BY ToldNew
    <3> QED BY <3>1, <3>2, Zenon
  <2>2. q = Append(cs, y)
    BY <1>4, Zenon
  <2>3. n \notin Merging!Indexes(L)
    <3>1. n \notin Merging!Indexes(cs)
      BY <1>4, Zenon DEF Merging!Indexes
    <3> QED BY <1>0, <3>1, Zenon
  <2>4. EntryOf(h, y, M)
    <3>1. EntryOf(h, New(c), L)
      BY <2>3, EntryNew, Zenon
    <3>2. New(c).index = c.index
      BY NewIs, Zenon
    <3> QED BY <3>1, <3>2, EntryTold, Zenon DEF M
  <2> HIDE DEF y
  <2>5. /\ DOMAIN q = 1..N /\ q[N] = y /\ \A j \in 1..Len(cs) : q[j] = cs[j]
        /\ \A j \in 1..N : j = N \/ j \in DOMAIN cs
    BY <1>0, <2>1, <2>2
  <2> HIDE DEF N
  <2>6. Distinct(q)
    BY <1>0, DistinctMore, Zenon DEF q
  <2>7. Merging!Indexes(q) = Merging!Indexes(cs) \cup {n}
    BY <2>1, <2>2, IndexesMore
  <2>8. Merging!Indexes(q) = Merging!Indexes(M)
    BY <1>0, <1>2, <2>7, Zenon
  <2>9. ASSUME NEW j \in DOMAIN q PROVE EntryOf(h, q[j], M)
    <3>1. CASE j = N
      BY <2>4, <2>5, <3>1, Zenon
    <3>2. CASE j # N
      <4>1. q[j] = cs[j] /\ cs[j].index # n /\ cs[j] \in Candidates_ /\ EntryOf(h, cs[j], L)
        BY <1>0, <1>4, <2>5, <3>2, Zenon
      <4>2. EntryOf(h, cs[j], M)
        BY <4>1, EntryOther, Zenon DEF M
      <4> QED BY <4>1, <4>2, Zenon
    <3> QED BY <3>1, <3>2
  <2> QED BY <2>6, <2>8, <2>9, Zenon DEF Mirrors
<1>5. Mirrors(h, q, M)
  BY <1>1, <1>3, <1>4, Zenon DEF StepOld, StepNew
<1> QED BY <1>5, Zenon DEF q, M

\* Lists of candidates of which no two have the same index.
Answers == {cs \in Seq(Candidates_) : Distinct(cs)}

LEMMA AnswersMore ==
  ASSUME NEW cs \in Answers, NEW c \in Candidates_
  PROVE  Merging!merge_candidate(cs, c) \in Answers
<1>1. cs \in Seq(Candidates_) /\ Distinct(cs)
  BY Zenon DEF Answers
<1>2. Merging!merge_candidate(cs, c) \in Seq(Candidates_)
  BY <1>1, MergeCandidate, Zenon
<1>3. Distinct(Merging!merge_candidate(cs, c))
  BY <1>1, DistinctMore, Zenon
<1> QED BY <1>2, <1>3, Zenon DEF Answers

\* The rounds of the loop over the candidates of a chunk.
LEMMA MergedRounds ==
  ASSUME NEW cs \in Answers, NEW incoming \in Seq(Candidates_)
  PROVE  \E g \in [0..Len(incoming) -> Answers] :
             /\ g[0] = cs /\ g[Len(incoming)] = Merging!Merged(cs, incoming)
             /\ \A n \in 1..Len(incoming) : g[n] = Merging!merge_candidate(g[n - 1], incoming[n])
<1> DEFINE N == Len(incoming)
           D == [p \in Answers \X (1..N) |-> Merging!merge_candidate(p[1], incoming[p[2]])]
           Is(f) == f = [k \in 0..N |-> IF k = 0 THEN cs ELSE Merging!merge_candidate(f[k - 1], incoming[k])]
           rounds == CHOOSE f : Is(f)
<1>0. N \in Nat /\ \A n \in 1..N : incoming[n] \in Candidates_
  OBVIOUS
<1>1. D \in [Answers \X (1..N) -> Answers]
  <2> SUFFICES ASSUME NEW r \in Answers, NEW n \in 1..N
               PROVE  Merging!merge_candidate(r, incoming[n]) \in Answers
    OBVIOUS
  <2> QED BY <1>0, AnswersMore
<1>2. PICK g \in [0..N -> Answers] : Iterates(g, cs, N, D)
  <2> HIDE DEF D
  <2> QED BY <1>0, <1>1, RecursiveUpTo, Zenon
<1>3. ASSUME NEW n \in 1..N PROVE g[n] = Merging!merge_candidate(g[n - 1], incoming[n])
  <2>1. n - 1 \in 0..N
    BY <1>0
  <2>2. g[n - 1] \in Answers
    BY <2>1
  <2> QED BY <1>2, <2>2 DEF Iterates
<1>4. Is(g)
  <2>1. \A n \in 0..N : n # 0 => n \in 1..N
    BY <1>0
  <2> QED BY <1>2, <1>3, <2>1 DEF Iterates
<1> HIDE DEF Is
<1>5. Is(rounds)
  BY <1>4
<1> HIDE DEF rounds
<1>6. Merging!Merged(cs, incoming) = rounds[N]
  BY DEF Merging!Merged, rounds, Is
<1>7. rounds[0] = cs
  BY <1>0, <1>5 DEF Is
<1>8. ASSUME NEW n \in 1..N PROVE rounds[n] = Merging!merge_candidate(rounds[n - 1], incoming[n])
  <2>1. n \in 0..N /\ n # 0
    BY <1>0
  <2> QED BY <1>5, <2>1 DEF Is
<1>9. \A n \in 0..N : rounds[n] = g[n]
  <2> DEFINE A == {n \in 0..N : rounds[n] = g[n]}
  <2>1. 0 \in A
    BY <1>0, <1>2, <1>7 DEF Iterates
  <2>2. ASSUME NEW n \in 1..N, n - 1 \in A PROVE n \in A
    <3>1. n \in 0..N /\ rounds[n - 1] = g[n - 1]
      BY <1>0, <2>2
    <3> QED BY <1>3, <1>8, <3>1, Zenon
  <2>3. A \in SUBSET (0..N)
    OBVIOUS
  <2> HIDE DEF A
  <2>4. A = 0..N
    BY <1>0, <2>1, <2>2, <2>3, IndUpTo
  <2> QED BY <2>4 DEF A
<1>10. g[0] = cs /\ g[N] = Merging!Merged(cs, incoming)
  <2>1. 0 \in 0..N /\ N \in 0..N
    BY <1>0
  <2> QED BY <1>6, <1>7, <1>9, <2>1, Zenon
<1> QED BY <1>3, <1>10

LEMMA MergedType ==
  ASSUME NEW cs \in Answers, NEW incoming \in Seq(Candidates_)
  PROVE  Merging!Merged(cs, incoming) \in Answers
<1>1. Len(incoming) \in 0..Len(incoming)
  OBVIOUS
<1>2. PICK g \in [0..Len(incoming) -> Answers] : g[Len(incoming)] = Merging!Merged(cs, incoming)
  BY MergedRounds, Zenon
<1>3. g[Len(incoming)] \in Answers
  BY <1>1
<1> QED BY <1>2, <1>3, Zenon

LEMMA AppendConcat ==
  ASSUME NEW S, NEW s \in Seq(S), NEW t \in Seq(S), NEW x \in S
  PROVE  s \o t \in Seq(S) /\ s \o Append(t, x) = Append(s \o t, x)
  OBVIOUS

LEMMA MergedMirrors ==
  ASSUME NEW T, NEW h, Maps(h, Parts_, T), Faithful(h),
         NEW cs \in Answers, NEW L \in Seq(Candidates_), NEW incoming \in Seq(Candidates_), Mirrors(h, cs, L)
  PROVE  Mirrors(h, Merging!Merged(cs, incoming), L \o incoming)
<1> DEFINE N == Len(incoming)
<1>0. N \in Nat /\ \A n \in 1..N : incoming[n] \in Candidates_
  OBVIOUS
<1>1. PICK g \in [0..N -> Answers] :
          /\ g[0] = cs /\ g[N] = Merging!Merged(cs, incoming)
          /\ \A n \in 1..N : g[n] = Merging!merge_candidate(g[n - 1], incoming[n])
  BY MergedRounds
<1>2. PICK p \in [0..N -> Seq(Candidates_)] :
          p[0] = <<>> /\ p[N] = incoming /\ \A n \in 1..N : p[n] = Append(p[n - 1], incoming[n])
  BY PrefixesOf
<1> DEFINE A == {n \in 0..N : Mirrors(h, g[n], L \o p[n])}
<1>3. 0 \in A
  <2>1. L \o <<>> = L
    BY ConcatEmptySeq
  <2>2. 0 \in 0..N
    BY <1>0
  <2> QED BY <1>1, <1>2, <2>1, <2>2, Zenon
<1>4. ASSUME NEW n \in 1..N, n - 1 \in A PROVE n \in A
  <2> DEFINE x == incoming[n]
             r == g[n - 1]
             v == p[n - 1]
             M == L \o v
  <2>1. n \in 0..N /\ n - 1 \in 0..N /\ x \in Candidates_
    BY <1>0
  <2>2. r \in Answers /\ v \in Seq(Candidates_)
    BY <1>1, <1>2, <2>1
  <2>3. Mirrors(h, r, M)
    BY <1>4, Zenon
  <2>4. g[n] = Merging!merge_candidate(r, x) /\ p[n] = Append(v, x)
    BY <1>1, <1>2, Zenon
  <2> HIDE DEF x, r, v
  <2>5. M \in Seq(Candidates_) /\ L \o Append(v, x) = Append(M, x)
    BY <2>1, <2>2, AppendConcat
  <2>6. r \in Seq(Candidates_)
    BY <2>2, Zenon DEF Answers
  <2> HIDE DEF M
  <2>7. Mirrors(h, Merging!merge_candidate(r, x), Append(M, x))
    BY <2>1, <2>3, <2>5, <2>6, MirrorsMore, Zenon
  <2>8. Mirrors(h, g[n], L \o p[n])
    BY <2>4, <2>5, <2>7, Zenon
  <2> QED BY <2>1, <2>8, Zenon
<1>5. A \in SUBSET (0..N)
  OBVIOUS
<1> HIDE DEF A
<1>6. A = 0..N
  BY <1>0, <1>3, <1>4, <1>5, IndUpTo
<1>7. N \in A
  BY <1>0, <1>6
<1> QED BY <1>1, <1>2, <1>7, Zenon DEF A

\* What the chunks add up to: any usage and version, and none.
Responses_ == Merging!Responses
Usages_ == Merging!Usages \cup {Merging!NoUsage}
Versions_ == Text_ \cup {""}
Sums == {Merging!Response(p[1], p[2], p[3]) : p \in Answers \X Usages_ \X Versions_}

LEMMA ResponseFields ==
  ASSUME NEW r \in Responses_
  PROVE  r.candidates \in Seq(Candidates_) /\ r.usage \in Usages_ /\ r.version \in Versions_
<1>1. r.candidates \in Seq(Candidates_) /\ r.usage \in Merging!Usages /\ r.version \in Text_
  BY DEF Responses_, Merging!Responses, Candidates_, Text_
<1> QED BY <1>1, Zenon DEF Usages_, Versions_

LEMMA SumsAre ==
  ASSUME NEW a \in Answers, NEW u \in Usages_, NEW v \in Versions_
  PROVE  Merging!Response(a, u, v) \in Sums
<1> DEFINE p == <<a, u, v>>
<1>1. p \in Answers \X Usages_ \X Versions_ /\ p[1] = a /\ p[2] = u /\ p[3] = v
  BY Zenon
<1> HIDE DEF p
<1> QED BY <1>1, Zenon DEF Sums

LEMMA SumFields ==
  ASSUME NEW r \in Sums
  PROVE  r.candidates \in Answers /\ r.usage \in Usages_ /\ r.version \in Versions_
<1>1. PICK p \in Answers \X Usages_ \X Versions_ : r = Merging!Response(p[1], p[2], p[3])
  BY Zenon DEF Sums
<1> DEFINE a == p[1]
           u == p[2]
           v == p[3]
<1>2. a \in Answers /\ u \in Usages_ /\ v \in Versions_
  BY <1>1
<1>3. r = Merging!Response(a, u, v)
  BY <1>1, Zenon
<1> HIDE DEF a, u, v
<1>4. r.candidates = a /\ r.usage = u /\ r.version = v
  BY <1>3, Zenon DEF Merging!Response
<1> QED BY <1>2, <1>4, Zenon

LEMMA LatestOneOf ==
  ASSUME NEW S, NEW old \in S, NEW new \in S, NEW none
  PROVE  Merging!Latest(old, new, none) \in S
  BY Zenon DEF Merging!Latest

LEMMA SumsMore ==
  ASSUME NEW r \in Sums, NEW chunk \in Responses_
  PROVE  Merging!merge(r, chunk) \in Sums
<1>1. Merging!Merged(r.candidates, chunk.candidates) \in Answers
  BY SumFields, ResponseFields, MergedType, Zenon
<1>2. Merging!Latest(r.usage, Merging!Reported(chunk.usage), Merging!NoUsage) \in Usages_
  <2>1. Merging!Reported(chunk.usage) \in Usages_
    BY ResponseFields, Zenon DEF Merging!Reported, Usages_
  <2> QED BY <2>1, SumFields, LatestOneOf, Zenon
<1>3. Merging!Latest(r.version, chunk.version, "") \in Versions_
  BY SumFields, ResponseFields, LatestOneOf, Zenon
<1> QED BY <1>1, <1>2, <1>3, SumsAre, Zenon DEF Merging!merge

LEMMA EmptySum == Merging!Empty \in Sums
<1>1. <<>> \in Answers
  <2>1. <<>> \in Seq(Candidates_) /\ \A i \in DOMAIN <<>> : FALSE
    OBVIOUS
  <2> QED BY <2>1, Zenon DEF Answers, Distinct
<1>2. Merging!NoUsage \in Usages_ /\ "" \in Versions_
  BY Zenon DEF Usages_, Versions_
<1> QED BY <1>1, <1>2, SumsAre, Zenon DEF Merging!Empty

\* The rounds of the loop over the chunks.
LEMMA AggregateRounds ==
  ASSUME NEW chunks \in Seq(Responses_)
  PROVE  \E g \in [0..Len(chunks) -> Sums] :
             /\ g[0] = Merging!Empty /\ g[Len(chunks)] = Merging!Aggregate(chunks)
             /\ \A n \in 1..Len(chunks) : g[n] = Merging!merge(g[n - 1], chunks[n])
<1> DEFINE N == Len(chunks)
           E == Merging!Empty
           D == [p \in Sums \X (1..N) |-> Merging!merge(p[1], chunks[p[2]])]
           Is(f) == f = [k \in 0..N |-> IF k = 0 THEN E ELSE Merging!merge(f[k - 1], chunks[k])]
           rounds == CHOOSE f : Is(f)
<1>0. N \in Nat /\ \A n \in 1..N : chunks[n] \in Responses_
  OBVIOUS
<1>e. E \in Sums
  BY EmptySum, Zenon
<1>1. D \in [Sums \X (1..N) -> Sums]
  <2> SUFFICES ASSUME NEW r \in Sums, NEW n \in 1..N
               PROVE  Merging!merge(r, chunks[n]) \in Sums
    OBVIOUS
  <2> QED BY <1>0, SumsMore
<1>6. Merging!Aggregate(chunks) = rounds[N]
  BY DEF Merging!Aggregate
<1> HIDE DEF E
<1>2. PICK g \in [0..N -> Sums] : Iterates(g, E, N, D)
  <2> HIDE DEF D
  <2> QED BY <1>0, <1>1, <1>e, RecursiveUpTo, Zenon
<1>3. ASSUME NEW n \in 1..N PROVE g[n] = Merging!merge(g[n - 1], chunks[n])
  <2>1. n - 1 \in 0..N
    BY <1>0
  <2>2. g[n - 1] \in Sums
    BY <2>1
  <2> QED BY <1>2, <2>2 DEF Iterates
<1>4. Is(g)
  <2>1. \A n \in 0..N : n # 0 => n \in 1..N
    BY <1>0
  <2> QED BY <1>2, <1>3, <2>1 DEF Iterates
<1> HIDE DEF Is
<1>5. Is(rounds)
  BY <1>4
<1> HIDE DEF rounds
<1>7. rounds[0] = E
  BY <1>0, <1>5 DEF Is
<1>8. ASSUME NEW n \in 1..N PROVE rounds[n] = Merging!merge(rounds[n - 1], chunks[n])
  <2>1. n \in 0..N /\ n # 0
    BY <1>0
  <2> QED BY <1>5, <2>1 DEF Is
<1>9. \A n \in 0..N : rounds[n] = g[n]
  <2> DEFINE A == {n \in 0..N : rounds[n] = g[n]}
  <2>1. 0 \in A
    BY <1>0, <1>2, <1>7 DEF Iterates
  <2>2. ASSUME NEW n \in 1..N, n - 1 \in A PROVE n \in A
    <3>1. n \in 0..N /\ rounds[n - 1] = g[n - 1]
      BY <1>0, <2>2
    <3> QED BY <1>3, <1>8, <3>1, Zenon
  <2>3. A \in SUBSET (0..N)
    OBVIOUS
  <2> HIDE DEF A
  <2>4. A = 0..N
    BY <1>0, <2>1, <2>2, <2>3, IndUpTo
  <2> QED BY <2>4 DEF A
<1>10. g[0] = E /\ g[N] = Merging!Aggregate(chunks)
  <2>1. 0 \in 0..N /\ N \in 0..N
    BY <1>0
  <2> QED BY <1>6, <1>7, <1>9, <2>1, Zenon
<1> QED BY <1>3, <1>10 DEF E

\* The candidates a chunk carries.
Carried == [r \in Responses_ |-> r.candidates]

LEMMA CarriedMaps == Maps(Carried, Responses_, Candidates_)
<1>1. \A r \in Responses_ : r.candidates \in Seq(Candidates_)
  BY ResponseFields
<1> QED BY <1>1 DEF Maps, Carried

LEMMA SentIs ==
  ASSUME NEW chunks \in Seq(Responses_)
  PROVE  Merging!Sent(chunks) = FlatMap(Carried, chunks)
<1>1. \A i \in DOMAIN chunks : chunks[i] \in Responses_
  OBVIOUS
<1>2. \A i \in DOMAIN chunks : Carried[chunks[i]] = chunks[i].candidates
  BY <1>1, Zenon DEF Carried
<1>3. [i \in DOMAIN chunks |-> chunks[i].candidates] = [i \in DOMAIN chunks |-> Carried[chunks[i]]]
  BY <1>2, Zenon
<1> QED BY <1>3, Zenon DEF Merging!Sent, FlatMap

LEMMA SentType ==
  ASSUME NEW chunks \in Seq(Responses_)
  PROVE  Merging!Sent(chunks) \in Seq(Candidates_)
<1>1. FlatMap(Carried, chunks) \in Seq(Candidates_)
  BY CarriedMaps, FlatMapType, Zenon
<1> QED BY <1>1, SentIs, Zenon

MoreSent(chunks, x) == Merging!Sent(Append(chunks, x)) = Merging!Sent(chunks) \o x.candidates
LEMMA SentMore ==
  ASSUME NEW chunks \in Seq(Responses_), NEW x \in Responses_
  PROVE  MoreSent(chunks, x)
<1>1. FlatGrows(Carried, chunks, x)
  BY CarriedMaps, FlatMapMore, Zenon
<1>2. Carried[x] = x.candidates
  BY Zenon DEF Carried
<1>3. Append(chunks, x) \in Seq(Responses_)
  OBVIOUS
<1>4. Merging!Sent(Append(chunks, x)) = FlatMap(Carried, Append(chunks, x))
  BY <1>3, SentIs, Zenon
<1>5. Merging!Sent(chunks) = FlatMap(Carried, chunks)
  BY SentIs, Zenon
<1> QED BY <1>1, <1>2, <1>4, <1>5, Zenon DEF FlatGrows, MoreSent

LEMMA MirrorsNothing == ASSUME NEW h PROVE Mirrors(h, <<>>, <<>>)
<1>1. \A i \in DOMAIN <<>> : FALSE
  OBVIOUS
<1> QED BY <1>1, Zenon DEF Mirrors, Distinct

\* The answer has what the chunks have carried.
LEMMA AggregateMirrors ==
  ASSUME NEW T, NEW h, Maps(h, Parts_, T), Faithful(h), NEW chunks \in Seq(Responses_)
  PROVE  Mirrors(h, Merging!Aggregate(chunks).candidates, Merging!Sent(chunks))
<1> DEFINE N == Len(chunks)
<1>0. N \in Nat /\ \A n \in 1..N : chunks[n] \in Responses_
  OBVIOUS
<1>1. PICK g \in [0..N -> Sums] :
          /\ g[0] = Merging!Empty /\ g[N] = Merging!Aggregate(chunks)
          /\ \A n \in 1..N : g[n] = Merging!merge(g[n - 1], chunks[n])
  BY AggregateRounds, Zenon
<1>2. PICK p \in [0..N -> Seq(Responses_)] :
          p[0] = <<>> /\ p[N] = chunks /\ \A n \in 1..N : p[n] = Append(p[n - 1], chunks[n])
  BY PrefixesOf
<1> DEFINE A == {n \in 0..N : Mirrors(h, g[n].candidates, Merging!Sent(p[n]))}
<1>3. 0 \in A
  <2>1. Merging!Empty.candidates = <<>>
    BY Zenon DEF Merging!Response, Merging!Empty
  <2>2. Merging!Sent(<<>>) = <<>>
    <3>1. <<>> \in Seq(Responses_)
      OBVIOUS
    <3> QED BY <3>1, SentIs, FlatMapNothing, Zenon
  <2>3. 0 \in 0..N
    BY <1>0
  <2> QED BY <1>1, <1>2, <2>1, <2>2, <2>3, MirrorsNothing, Zenon
<1>4. ASSUME NEW n \in 1..N, n - 1 \in A PROVE n \in A
  <2> DEFINE x == chunks[n]
             r == g[n - 1]
             v == p[n - 1]
             cs == r.candidates
             sent == Merging!Sent(v)
             inc == x.candidates
  <2>1. n \in 0..N /\ n - 1 \in 0..N /\ x \in Responses_
    BY <1>0
  <2>2. r \in Sums /\ v \in Seq(Responses_)
    <3>1. r \in Sums
      BY <2>1, Zenon
    <3>2. v \in Seq(Responses_)
      BY <1>2, <2>1
    <3> QED BY <3>1, <3>2, Zenon
  <2>3. Mirrors(h, cs, sent)
    BY <1>4, Zenon
  <2>4. g[n].candidates = Merging!Merged(cs, inc) /\ p[n] = Append(v, x)
    <3>1. Merging!merge(r, x).candidates = Merging!Merged(cs, inc)
      BY Zenon DEF Merging!Response, Merging!merge
    <3>2. g[n] = Merging!merge(r, x) /\ p[n] = Append(v, x)
      BY <1>1, <1>2, Zenon
    <3> QED BY <3>1, <3>2, Zenon
  <2>5. Merging!Sent(p[n]) = sent \o inc
    <3>1. MoreSent(v, x)
      BY <2>1, <2>2, SentMore, Zenon
    <3> QED BY <2>4, <3>1, Zenon DEF MoreSent
  <2>6. cs \in Answers /\ sent \in Seq(Candidates_) /\ inc \in Seq(Candidates_)
    BY <2>1, <2>2, SumFields, SentType, ResponseFields, Zenon
  <2> HIDE DEF x, r, v, cs, sent, inc
  <2>7. Mirrors(h, Merging!Merged(cs, inc), sent \o inc)
    BY <2>3, <2>6, MergedMirrors, Zenon
  <2> QED BY <2>1, <2>4, <2>5, <2>7, Zenon
<1>5. A \in SUBSET (0..N)
  OBVIOUS
<1> HIDE DEF A
<1>6. A = 0..N
  BY <1>0, <1>3, <1>4, <1>5, IndUpTo
<1>7. N \in A
  BY <1>0, <1>6
<1> QED BY <1>1, <1>2, <1>7, Zenon DEF A

LEMMA AggregateType ==
  ASSUME NEW chunks \in Seq(Responses_)
  PROVE  Merging!Aggregate(chunks) \in Sums /\ Merging!Aggregate(chunks).candidates \in Answers
<1>1. Len(chunks) \in 0..Len(chunks)
  OBVIOUS
<1>2. PICK g \in [0..Len(chunks) -> Sums] : g[Len(chunks)] = Merging!Aggregate(chunks)
  BY AggregateRounds, Zenon
<1>3. g[Len(chunks)] \in Sums
  BY <1>1, <1>2, Zenon
<1> QED BY <1>2, <1>3, SumFields, Zenon

\* The last usage and the last version that say anything.
UsagesOf(chunks) == [i \in DOMAIN chunks |-> Merging!Reported(chunks[i].usage)]
VersionsOf(chunks) == [i \in DOMAIN chunks |-> chunks[i].version]
LatestSoFar(r, chunks) ==
    /\ Merging!IsLatest(r.usage, UsagesOf(chunks), Merging!NoUsage)
    /\ Merging!IsLatest(r.version, VersionsOf(chunks), "")

LEMMA LatestSoFarMore ==
  ASSUME NEW r, NEW chunks \in Seq(Responses_), NEW x \in Responses_, LatestSoFar(r, chunks)
  PROVE  LatestSoFar(Merging!merge(r, x), Append(chunks, x))
<1> DEFINE M == Append(chunks, x)
           N == Len(chunks)
<1>1. /\ DOMAIN chunks = 1..N /\ DOMAIN M = 1..(N + 1) /\ N \in Nat
      /\ M[N + 1] = x /\ \A i \in 1..N : M[i] = chunks[i]
      /\ N + 1 \in 1..(N + 1) /\ \A i \in 1..N : i \in 1..(N + 1)
  OBVIOUS
<1> HIDE DEF M, N
<1>2. Merging!IsLatest(Merging!Latest(r.usage, Merging!Reported(x.usage), Merging!NoUsage), UsagesOf(M),
                       Merging!NoUsage)
  <2> DEFINE values == UsagesOf(chunks)
             more == UsagesOf(M)
             none == Merging!NoUsage
             old == r.usage
  <2>1. /\ DOMAIN values = 1..N /\ DOMAIN more = 1..(N + 1)
        /\ (\A i \in 1..N : more[i] = values[i]) /\ more[N + 1] = Merging!Reported(x.usage)
    BY <1>1, Zenon DEF UsagesOf
  <2>2. Merging!IsLatest(old, values, none)
    BY Zenon DEF LatestSoFar
  <2> HIDE DEF values, more, none, old
  <2>3. Merging!IsLatest(Merging!Latest(old, more[N + 1], none), more, none)
    BY <1>1, <2>1, <2>2, LatestMore, Zenon
  <2> QED BY <2>1, <2>3, Zenon DEF more, none, old
<1>3. Merging!IsLatest(Merging!Latest(r.version, x.version, ""), VersionsOf(M), "")
  <2> DEFINE values == VersionsOf(chunks)
             more == VersionsOf(M)
             none == ""
             old == r.version
  <2>1. /\ DOMAIN values = 1..N /\ DOMAIN more = 1..(N + 1)
        /\ (\A i \in 1..N : more[i] = values[i]) /\ more[N + 1] = x.version
    BY <1>1, Zenon DEF VersionsOf
  <2>2. Merging!IsLatest(old, values, none)
    BY Zenon DEF LatestSoFar
  <2> HIDE DEF values, more, none, old
  <2>3. Merging!IsLatest(Merging!Latest(old, more[N + 1], none), more, none)
    BY <1>1, <2>1, <2>2, LatestMore, Zenon
  <2> QED BY <2>1, <2>3, Zenon DEF more, none, old
<1>4. /\ Merging!merge(r, x).usage = Merging!Latest(r.usage, Merging!Reported(x.usage), Merging!NoUsage)
      /\ Merging!merge(r, x).version = Merging!Latest(r.version, x.version, "")
  BY Zenon DEF Merging!Response, Merging!merge
<1> QED BY <1>2, <1>3, <1>4, Zenon DEF LatestSoFar, M

LEMMA AggregateLatest ==
  ASSUME NEW chunks \in Seq(Responses_)
  PROVE  LatestSoFar(Merging!Aggregate(chunks), chunks)
<1> DEFINE N == Len(chunks)
<1>0. N \in Nat /\ \A n \in 1..N : chunks[n] \in Responses_
  OBVIOUS
<1>1. PICK g \in [0..N -> Sums] :
          /\ g[0] = Merging!Empty /\ g[N] = Merging!Aggregate(chunks)
          /\ \A n \in 1..N : g[n] = Merging!merge(g[n - 1], chunks[n])
  BY AggregateRounds, Zenon
<1>2. PICK p \in [0..N -> Seq(Responses_)] :
          p[0] = <<>> /\ p[N] = chunks /\ \A n \in 1..N : p[n] = Append(p[n - 1], chunks[n])
  BY PrefixesOf
<1> DEFINE A == {n \in 0..N : LatestSoFar(g[n], p[n])}
<1>3. 0 \in A
  <2>1. LatestSoFar(Merging!Empty, <<>>)
    <3>1. \A i \in DOMAIN <<>> : FALSE
      OBVIOUS
    <3>2. Merging!Empty.usage = Merging!NoUsage /\ Merging!Empty.version = ""
      BY Zenon DEF Merging!Response, Merging!Empty
    <3>3. (\A i \in DOMAIN UsagesOf(<<>>) : FALSE) /\ (\A i \in DOMAIN VersionsOf(<<>>) : FALSE)
      BY <3>1, Zenon DEF UsagesOf, VersionsOf
    <3> QED BY <3>2, <3>3, Zenon DEF LatestSoFar, Merging!IsLatest
  <2>2. 0 \in 0..N
    BY <1>0
  <2> QED BY <1>1, <1>2, <2>1, <2>2, Zenon
<1>4. ASSUME NEW n \in 1..N, n - 1 \in A PROVE n \in A
  <2>1. n \in 0..N /\ n - 1 \in 0..N /\ chunks[n] \in Responses_
    BY <1>0
  <2>2. p[n - 1] \in Seq(Responses_)
    BY <1>2, <2>1
  <2>3. LatestSoFar(g[n - 1], p[n - 1])
    BY <1>4, Zenon
  <2>4. LatestSoFar(Merging!merge(g[n - 1], chunks[n]), Append(p[n - 1], chunks[n]))
    BY <2>1, <2>2, <2>3, LatestSoFarMore, Zenon
  <2>5. LatestSoFar(g[n], p[n])
    BY <1>1, <1>2, <2>4, Zenon
  <2> QED BY <2>1, <2>5, Zenon
<1>5. A \in SUBSET (0..N)
  OBVIOUS
<1> HIDE DEF A
<1>6. A = 0..N
  BY <1>0, <1>3, <1>4, <1>5, IndUpTo
<1>7. N \in A
  BY <1>0, <1>6
<1> QED BY <1>1, <1>2, <1>7, Zenon DEF A

\* Of candidates with different indexes, those with index n are one.
LEMMA PartsOfOne ==
  ASSUME NEW cs \in Answers, NEW i \in DOMAIN cs
  PROVE  Merging!PartsOf(cs, cs[i].index) = cs[i].parts
<1> DEFINE N == Len(cs)
           n == cs[i].index
           parts == cs[i].parts
<1>0. cs \in Seq(Candidates_) /\ Distinct(cs)
  BY Zenon DEF Answers
<1>1. /\ N \in Nat /\ DOMAIN cs = 1..N /\ i \in 1..N
      /\ \A k \in 1..N : cs[k] \in Candidates_
  BY <1>0
<1>2. PICK p \in [0..N -> Seq(Candidates_)] :
          p[0] = <<>> /\ p[N] = cs /\ \A k \in 1..N : p[k] = Append(p[k - 1], cs[k])
  BY <1>0, PrefixesOf
<1>3. parts \in Seq(Parts_)
  BY <1>1, CandidateFields, Zenon
<1>4. \A k \in 1..N : cs[k].index = n => k = i
  BY <1>0, <1>1, Zenon DEF Distinct
<1> DEFINE Had(k) == IF k < i THEN <<>> ELSE parts
           A == {k \in 0..N : Merging!PartsOf(p[k], n) = Had(k)}
<1> HIDE DEF n, parts
<1>5. 0 \in A
  <2>1. <<>> \in Seq(Candidates_) /\ 0 \in 0..N /\ 0 < i
    BY <1>1
  <2>2. Merging!PartsOf(<<>>, n) = <<>>
    BY <2>1, PartsOfIs, FlatMapNothing, Zenon
  <2> QED BY <1>2, <2>1, <2>2, Zenon
<1>6. ASSUME NEW k \in 1..N, k - 1 \in A PROVE k \in A
  <2>1. k \in 0..N /\ k - 1 \in 0..N /\ cs[k] \in Candidates_
    BY <1>1
  <2>2. p[k - 1] \in Seq(Candidates_)
    BY <1>2, <2>1
  <2>3. MoreParts(p[k - 1], cs[k], n)
    BY <2>1, <2>2, PartsOfMore, Zenon
  <2>4. Merging!PartsOf(p[k - 1], n) = Had(k - 1)
    BY <1>6, Zenon
  <2>5. Merging!PartsOf(p[k], n) = Had(k - 1) \o (IF cs[k].index = n THEN cs[k].parts ELSE <<>>)
    BY <1>2, <2>3, <2>4, Zenon DEF MoreParts
  <2>6. CASE k = i
    <3>1. Had(k - 1) = <<>> /\ Had(k) = parts
      BY <1>1, <2>6
    <3>2. (IF cs[k].index = n THEN cs[k].parts ELSE <<>>) = parts
      BY <2>6, Zenon DEF n, parts
    <3>3. <<>> \o parts = parts
      BY <1>3, ConcatEmptySeq
    <3> QED BY <2>1, <2>5, <3>1, <3>2, <3>3, Zenon
  <2>7. CASE k # i
    <3>1. Had(k - 1) = Had(k) /\ Had(k) \in Seq(Parts_)
      BY <1>1, <1>3, <2>7, EmptyParts
    <3>2. (IF cs[k].index = n THEN cs[k].parts ELSE <<>>) = <<>>
      BY <1>4, <2>7, Zenon
    <3> HIDE DEF Had
    <3>3. Had(k) \o <<>> = Had(k)
      BY <3>1, ConcatEmptySeq
    <3> QED BY <2>1, <2>5, <3>1, <3>2, <3>3, Zenon
  <2> QED BY <2>6, <2>7
<1>7. A \in SUBSET (0..N)
  OBVIOUS
<1> HIDE DEF A
<1>8. A = 0..N
  BY <1>1, <1>5, <1>6, <1>7, IndUpTo
<1>9. N \in A /\ ~(N < i)
  BY <1>1, <1>8
<1> QED BY <1>2, <1>9, Zenon DEF A, n, parts

\* The readers of parts, as the properties put them.
LEMMA SpokenIs ==
  ASSUME NEW s \in Seq(Parts_)
  PROVE  Merging!Spoken(s) = FlatMap(spoken, s) /\ Merging!Signatures(s) = FlatMap(signed, s)
<1>1. \A i \in DOMAIN s : s[i] \in Parts_
  OBVIOUS
<1>2. Merging!Spoken(s) = FlatMap(spoken, s)
  <2>1. \A i \in DOMAIN s :
            spoken[s[i]] = [w \in DOMAIN s[i].words |-> <<s[i].kind, s[i].thought, s[i].words[w]>>]
    BY <1>1, Zenon DEF spoken
  <2>2. [i \in DOMAIN s |-> spoken[s[i]]]
            = [i \in DOMAIN s |-> [w \in DOMAIN s[i].words |-> <<s[i].kind, s[i].thought, s[i].words[w]>>]]
    BY <2>1, Zenon
  <2> QED BY <2>2, Zenon DEF Merging!Spoken, FlatMap
<1>3. Merging!Signatures(s) = FlatMap(signed, s)
  <2>1. \A i \in DOMAIN s : signed[s[i]] = IF s[i].signature = "" THEN <<>> ELSE <<s[i].signature>>
    BY <1>1, Zenon DEF signed
  <2>2. [i \in DOMAIN s |-> signed[s[i]]]
            = [i \in DOMAIN s |-> IF s[i].signature = "" THEN <<>> ELSE <<s[i].signature>>]
    BY <2>1, Zenon
  <2> QED BY <2>2, Zenon DEF Merging!Signatures, FlatMap
<1> QED BY <1>2, <1>3

\* A reader finds in the candidate with index n what it finds in all that was sent to n.
FoundAlike(h, answer, sent, n) == FlatMap(h, Merging!PartsOf(answer, n)) = FlatMap(h, Merging!PartsOf(sent, n))
LEMMA AnswerHas ==
  ASSUME NEW T, NEW h, Maps(h, Parts_, T), Faithful(h), NEW chunks \in Seq(Responses_),
         NEW n \in Merging!Indexes(Merging!Sent(chunks))
  PROVE  FoundAlike(h, Merging!Aggregate(chunks).candidates, Merging!Sent(chunks), n)
<1> DEFINE cs == Merging!Aggregate(chunks).candidates
           sent == Merging!Sent(chunks)
<1>1. cs \in Answers
  BY AggregateType, Zenon
<1>2. Mirrors(h, cs, sent)
  BY AggregateMirrors, Zenon
<1> HIDE DEF cs
<1>3. PICK i \in DOMAIN cs : n = cs[i].index
  BY <1>2, Zenon DEF Mirrors, Merging!Indexes
<1>4. Merging!PartsOf(cs, cs[i].index) = cs[i].parts
  BY <1>1, PartsOfOne
<1>5. FlatMap(h, cs[i].parts) = FlatMap(h, Merging!PartsOf(sent, cs[i].index))
  BY <1>2, Zenon DEF Mirrors, EntryOf
<1> QED BY <1>3, <1>4, <1>5, Zenon DEF FoundAlike, cs

LEMMA NothingLost ==
  ASSUME NEW chunks \in Seq(Responses_)
  PROVE  Merging!NothingLostOrMoved(chunks)
<1> DEFINE cs == Merging!Aggregate(chunks).candidates
           sent == Merging!Sent(chunks)
<1>1. cs \in Answers
  BY AggregateType, Zenon
<1>2. cs \in Seq(Candidates_) /\ Distinct(cs)
  BY <1>1, Zenon DEF Answers
<1>3. Merging!Indexes(cs) = Merging!Indexes(sent)
  <2>1. Mirrors(spoken, cs, sent)
    BY AggregateMirrors, ReadersMap, SpokenFaithful, Zenon
  <2> QED BY <2>1, Zenon DEF Mirrors
<1>4. ASSUME NEW n \in Merging!Indexes(sent)
      PROVE  /\ Merging!Spoken(Merging!PartsOf(cs, n)) = Merging!Spoken(Merging!PartsOf(sent, n))
             /\ Merging!Signatures(Merging!PartsOf(cs, n)) = Merging!Signatures(Merging!PartsOf(sent, n))
  <2>1. FoundAlike(spoken, cs, sent, n)
    BY AnswerHas, ReadersMap, SpokenFaithful, Zenon
  <2>2. FoundAlike(signed, cs, sent, n)
    BY AnswerHas, ReadersMap, SignedFaithful, Zenon
  <2>3. sent \in Seq(Candidates_)
    BY SentType, Zenon
  <2> HIDE DEF cs, sent
  <2>4. Merging!PartsOf(cs, n) \in Seq(Parts_) /\ Merging!PartsOf(sent, n) \in Seq(Parts_)
    BY <1>2, <2>3, PartsOfType, Zenon
  <2> QED BY <2>1, <2>2, <2>4, SpokenIs, Zenon DEF FoundAlike
<1> QED BY <1>2, <1>3, <1>4, Zenon DEF Merging!NothingLostOrMoved, Distinct

LEMMA AllUnary ==
  ASSUME NEW chunks \in Seq(Responses_)
  PROVE  Merging!LooksUnary(chunks)
<1>1. Mirrors(spoken, Merging!Aggregate(chunks).candidates, Merging!Sent(chunks))
  BY AggregateMirrors, ReadersMap, SpokenFaithful, Zenon
<1> QED BY <1>1, Zenon DEF Merging!LooksUnary, Mirrors, EntryOf

LEMMA LatestHasWon ==
  ASSUME NEW chunks \in Seq(Responses_)
  PROVE  Merging!LatestWins(chunks)
<1>1. Mirrors(spoken, Merging!Aggregate(chunks).candidates, Merging!Sent(chunks))
  BY AggregateMirrors, ReadersMap, SpokenFaithful, Zenon
<1>2. \A i \in DOMAIN Merging!Aggregate(chunks).candidates :
          Reasoned(Merging!Aggregate(chunks).candidates[i].finish_reason, Merging!Sent(chunks),
                   Merging!Aggregate(chunks).candidates[i].index)
  BY <1>1, Zenon DEF Mirrors, EntryOf
<1>3. LatestSoFar(Merging!Aggregate(chunks), chunks)
  BY AggregateLatest, Zenon
<1>4. UsagesOf(chunks) = [i \in DOMAIN chunks |->
                             IF chunks[i].usage.prompt = 0 /\ chunks[i].usage.total = 0
                             THEN Merging!NoUsage ELSE chunks[i].usage]
  <2>1. ASSUME NEW u
        PROVE  Merging!Reported(u) = IF u.prompt = 0 /\ u.total = 0 THEN Merging!NoUsage ELSE u
    BY Zenon DEF Merging!Reported
  <2> QED BY <2>1, Zenon DEF UsagesOf
<1> QED BY <1>2, <1>3, <1>4, Zenon DEF Merging!LatestWins, LatestSoFar, Reasoned, Reasons, VersionsOf

\* The readers of the first candidate.
ReadFirst(h, r) == IF r.candidates = <<>> THEN <<>> ELSE FlatMap(h, Head(r.candidates).parts)

LEMMA ReadersRead ==
  ASSUME NEW r, r.candidates \in Seq(Candidates_)
  PROVE  Merging!text(r) = ReadFirst(shown, r) /\ Merging!function_calls(r) = ReadFirst(called, r)
<1> DEFINE parts == Head(r.candidates).parts
<1>1. CASE r.candidates = <<>>
  BY <1>1, Zenon DEF Merging!text, Merging!function_calls, ReadFirst
<1>2. CASE r.candidates # <<>>
  <2>1. parts \in Seq(Parts_)
    <3> DEFINE c == Head(r.candidates)
    <3>1. c \in Candidates_
      BY <1>2
    <3> HIDE DEF c
    <3> QED BY <3>1, CandidateFields DEF c
  <2> HIDE DEF parts
  <2>2. \A i \in DOMAIN parts : parts[i] \in Parts_
    BY <2>1
  <2>3. \A i \in DOMAIN parts :
            /\ shown[parts[i]] = IF Merging!Visible(parts[i]) THEN parts[i].words ELSE <<>>
            /\ called[parts[i]] = IF parts[i].kind = "call" THEN parts[i].words ELSE <<>>
    BY <2>2, Zenon DEF shown, called
  <2>4. [i \in DOMAIN parts |-> shown[parts[i]]]
            = [i \in DOMAIN parts |-> IF Merging!Visible(parts[i]) THEN parts[i].words ELSE <<>>]
    BY <2>3, Zenon
  <2>5. [i \in DOMAIN parts |-> called[parts[i]]]
            = [i \in DOMAIN parts |-> IF parts[i].kind = "call" THEN parts[i].words ELSE <<>>]
    BY <2>3, Zenon
  <2>6. Merging!text(r) = FlatMap(shown, parts)
    BY <1>2, <2>4, Zenon DEF Merging!text, FlatMap, parts
  <2>7. Merging!function_calls(r) = FlatMap(called, parts)
    BY <1>2, <2>5, Zenon DEF Merging!function_calls, FlatMap, parts
  <2> QED BY <1>2, <2>6, <2>7, Zenon DEF ReadFirst, parts
<1> QED BY <1>1, <1>2

\* Of one candidate or none, a reader reads the parts of those with its index.
LEMMA ReadsOne ==
  ASSUME NEW h, NEW n, NEW r, NEW cs \in Seq(Candidates_), r.candidates = cs, Len(cs) <= 1,
         \A i \in DOMAIN cs : cs[i].index = n
  PROVE  ReadFirst(h, r) = FlatMap(h, Merging!PartsOf(cs, n))
<1>1. CASE cs = <<>>
  <2>1. Merging!PartsOf(cs, n) = <<>>
    BY <1>1, PartsOfIs, FlatMapNothing, Zenon
  <2> QED BY <1>1, <2>1, FlatMapNothing, Zenon DEF ReadFirst
<1>2. CASE cs # <<>>
  <2>1. 1 \in DOMAIN cs /\ Head(cs) = cs[1] /\ DOMAIN cs = {1}
    BY <1>2
  <2>2. cs \in Answers
    BY <2>1, Zenon DEF Answers, Distinct
  <2>3. Merging!PartsOf(cs, cs[1].index) = cs[1].parts
    BY <2>1, <2>2, PartsOfOne
  <2>4. cs[1].index = n
    BY <2>1, Zenon
  <2> QED BY <1>2, <2>1, <2>3, <2>4, Zenon DEF ReadFirst
<1> QED BY <1>1, <1>2

LEMMA IndexesBoth ==
  ASSUME NEW s \in Seq(Candidates_), NEW t \in Seq(Candidates_)
  PROVE  Merging!Indexes(s) \cup Merging!Indexes(t) \subseteq Merging!Indexes(s \o t)
<1> DEFINE u == s \o t
<1>1. /\ DOMAIN s = 1..Len(s) /\ DOMAIN t = 1..Len(t) /\ DOMAIN u = 1..(Len(s) + Len(t))
      /\ Len(s) \in Nat /\ Len(t) \in Nat
      /\ \A i \in 1..Len(s) : u[i] = s[i]
      /\ \A i \in 1..Len(t) : u[Len(s) + i] = t[i]
  OBVIOUS
<1> HIDE DEF u
<1>2. ASSUME NEW i \in DOMAIN s PROVE s[i].index \in Merging!Indexes(u)
  <2>1. i \in DOMAIN u /\ u[i] = s[i]
    BY <1>1
  <2> QED BY <2>1, Zenon DEF Merging!Indexes
<1>3. ASSUME NEW i \in DOMAIN t PROVE t[i].index \in Merging!Indexes(u)
  <2>1. Len(s) + i \in DOMAIN u /\ u[Len(s) + i] = t[i]
    BY <1>1
  <2> QED BY <2>1, Zenon DEF Merging!Indexes
<1>4. \A n \in Merging!Indexes(s) : n \in Merging!Indexes(u)
  BY <1>2, Zenon DEF Merging!Indexes
<1>5. \A n \in Merging!Indexes(t) : n \in Merging!Indexes(u)
  BY <1>3, Zenon DEF Merging!Indexes
<1> QED BY <1>4, <1>5, Zenon DEF u

\* The candidates of every chunk are among those sent.
LEMMA SentIndexes ==
  ASSUME NEW chunks \in Seq(Responses_)
  PROVE  \A i \in DOMAIN chunks : \A c \in DOMAIN chunks[i].candidates :
             chunks[i].candidates[c].index \in Merging!Indexes(Merging!Sent(chunks))
<1> DEFINE N == Len(chunks)
           In(i, s) == Merging!Indexes(chunks[i].candidates) \subseteq Merging!Indexes(Merging!Sent(s))
<1>0. N \in Nat /\ DOMAIN chunks = 1..N /\ \A n \in 1..N : chunks[n] \in Responses_
  OBVIOUS
<1>1. PICK p \in [0..N -> Seq(Responses_)] :
          p[0] = <<>> /\ p[N] = chunks /\ \A n \in 1..N : p[n] = Append(p[n - 1], chunks[n])
  BY PrefixesOf
<1> DEFINE A == {n \in 0..N : \A i \in 1..n : In(i, p[n])}
<1>2. 0 \in A
  <2>1. 0 \in 0..N /\ \A i \in 1..0 : FALSE
    BY <1>0
  <2> HIDE DEF In
  <2> QED BY <2>1, Zenon
<1>3. ASSUME NEW n \in 1..N, n - 1 \in A PROVE n \in A
  <2> DEFINE x == chunks[n]
             v == p[n - 1]
             s == Merging!Sent(v)
             t == x.candidates
  <2>1. n \in 0..N /\ n - 1 \in 0..N /\ x \in Responses_
    BY <1>0
  <2>2. v \in Seq(Responses_)
    BY <1>1, <2>1
  <2>3. Merging!Sent(p[n]) = s \o t
    <3>1. MoreSent(v, x)
      BY <2>1, <2>2, SentMore, Zenon
    <3> QED BY <1>1, <3>1, Zenon DEF MoreSent
  <2>4. s \in Seq(Candidates_) /\ t \in Seq(Candidates_)
    BY <2>1, <2>2, SentType, ResponseFields, Zenon
  <2>5. Merging!Indexes(s) \subseteq Merging!Indexes(s \o t) /\ Merging!Indexes(t) \subseteq Merging!Indexes(s \o t)
    <3> HIDE DEF s, t
    <3> QED BY <2>4, IndexesBoth
  <2>6. ASSUME NEW i \in 1..n PROVE In(i, p[n])
    <3>1. CASE i = n
      BY <2>3, <2>5, <3>1, Zenon
    <3>2. CASE i # n
      <4>1. i \in 1..(n - 1)
        BY <3>2
      <4>2. In(i, v)
        <5> HIDE DEF In
        <5> QED BY <1>3, <4>1, Zenon
      <4>3. Merging!Indexes(chunks[i].candidates) \subseteq Merging!Indexes(s)
        BY <4>2, Zenon
      <4> HIDE DEF s, t
      <4> QED BY <2>3, <2>5, <4>3, Zenon
    <3> QED BY <3>1, <3>2
  <2> HIDE DEF In
  <2> QED BY <2>1, <2>6, Zenon
<1>4. A \in SUBSET (0..N)
  OBVIOUS
<1> HIDE DEF A
<1>5. A = 0..N
  BY <1>0, <1>2, <1>3, <1>4, IndUpTo
<1>6. N \in A
  BY <1>0, <1>5
<1>7. \A i \in 1..N : In(i, chunks)
  <2> HIDE DEF In
  <2> QED BY <1>1, <1>6, Zenon DEF A
<1> QED BY <1>0, <1>7, Zenon DEF Merging!Indexes

\* What a reader finds in the candidates with index n of a chunk.
Brought(h, n) == [r \in Responses_ |-> FlatMap(h, Merging!PartsOf(r.candidates, n))]

LEMMA BroughtMaps ==
  ASSUME NEW T, NEW h, Maps(h, Parts_, T), NEW n
  PROVE  Maps(Brought(h, n), Responses_, T)
<1>1. ASSUME NEW r \in Responses_ PROVE FlatMap(h, Merging!PartsOf(r.candidates, n)) \in Seq(T)
  <2>1. Merging!PartsOf(r.candidates, n) \in Seq(Parts_)
    BY ResponseFields, PartsOfType, Zenon
  <2> QED BY <2>1, FlatMapType, Zenon
<1> QED BY <1>1 DEF Maps, Brought

ReadOn(h, n, chunks) == FlatMap(h, Merging!PartsOf(Merging!Sent(chunks), n)) = FlatMap(Brought(h, n), chunks)

LEMMA ReadOnMore ==
  ASSUME NEW T, NEW h, Maps(h, Parts_, T), NEW n, NEW chunks \in Seq(Responses_), NEW x \in Responses_,
         ReadOn(h, n, chunks)
  PROVE  ReadOn(h, n, Append(chunks, x))
<1> DEFINE s == Merging!Sent(chunks)
           t == x.candidates
           a == Merging!PartsOf(s, n)
           b == Merging!PartsOf(t, n)
<1>1. s \in Seq(Candidates_) /\ t \in Seq(Candidates_)
  BY SentType, ResponseFields, Zenon
<1>2. Merging!Sent(Append(chunks, x)) = s \o t
  <2>1. MoreSent(chunks, x)
    BY SentMore, Zenon
  <2> QED BY <2>1, Zenon DEF MoreSent
<1>3. FlatMap(Brought(h, n), Append(chunks, x)) = FlatMap(Brought(h, n), chunks) \o FlatMap(h, b)
  <2>1. FlatGrows(Brought(h, n), chunks, x)
    BY BroughtMaps, FlatMapMore, Zenon
  <2>2. Brought(h, n)[x] = FlatMap(h, b)
    BY Zenon DEF Brought
  <2> QED BY <2>1, <2>2, Zenon DEF FlatGrows
<1>4. FlatMap(h, a) = FlatMap(Brought(h, n), chunks)
  BY Zenon DEF ReadOn
<1> HIDE DEF s, t
<1>5. a \in Seq(Parts_) /\ b \in Seq(Parts_)
  BY <1>1, PartsOfType, Zenon
<1>6. Merging!PartsOf(s \o t, n) = a \o b
  <2>1. Splits(Addressed(n), s, t)
    BY <1>1, AddressedMaps, FlatMapBoth, Zenon
  <2>2. s \o t \in Seq(Candidates_)
    BY <1>1
  <2>3. Merging!PartsOf(s \o t, n) = FlatMap(Addressed(n), s \o t)
    BY <2>2, PartsOfIs, Zenon
  <2>4. a = FlatMap(Addressed(n), s) /\ b = FlatMap(Addressed(n), t)
    BY <1>1, PartsOfIs, Zenon
  <2> HIDE DEF a, b
  <2> QED BY <2>1, <2>3, <2>4, Zenon DEF Splits
<1> HIDE DEF a, b
<1>7. Splits(h, a, b)
  BY <1>5, FlatMapBoth, Zenon
<1> QED BY <1>2, <1>3, <1>4, <1>6, <1>7, Zenon DEF ReadOn, Splits

LEMMA ReadOnAll ==
  ASSUME NEW T, NEW h, Maps(h, Parts_, T), NEW n, NEW chunks \in Seq(Responses_)
  PROVE  ReadOn(h, n, chunks)
<1> DEFINE N == Len(chunks)
<1>0. N \in Nat /\ \A k \in 1..N : chunks[k] \in Responses_
  OBVIOUS
<1>1. PICK p \in [0..N -> Seq(Responses_)] :
          p[0] = <<>> /\ p[N] = chunks /\ \A k \in 1..N : p[k] = Append(p[k - 1], chunks[k])
  BY PrefixesOf
<1> DEFINE A == {k \in 0..N : ReadOn(h, n, p[k])}
<1>2. 0 \in A
  <2>1. <<>> \in Seq(Responses_) /\ <<>> \in Seq(Candidates_) /\ 0 \in 0..N
    BY <1>0
  <2>2. Merging!Sent(<<>>) = <<>>
    BY <2>1, SentIs, FlatMapNothing, Zenon
  <2>3. Merging!PartsOf(<<>>, n) = <<>>
    BY <2>1, PartsOfIs, FlatMapNothing, Zenon
  <2>4. ReadOn(h, n, <<>>)
    BY <2>2, <2>3, FlatMapNothing, Zenon DEF ReadOn
  <2> QED BY <1>1, <2>1, <2>4, Zenon
<1>3. ASSUME NEW k \in 1..N, k - 1 \in A PROVE k \in A
  <2>1. k \in 0..N /\ k - 1 \in 0..N /\ chunks[k] \in Responses_
    BY <1>0
  <2>2. p[k - 1] \in Seq(Responses_)
    BY <1>1, <2>1
  <2>3. ReadOn(h, n, p[k - 1])
    BY <1>3, Zenon
  <2>4. ReadOn(h, n, Append(p[k - 1], chunks[k]))
    BY <2>1, <2>2, <2>3, ReadOnMore, Zenon
  <2>5. ReadOn(h, n, p[k])
    BY <1>1, <2>4, Zenon
  <2> QED BY <2>1, <2>5, Zenon
<1>4. A \in SUBSET (0..N)
  OBVIOUS
<1> HIDE DEF A
<1>5. A = 0..N
  BY <1>0, <1>2, <1>3, <1>4, IndUpTo
<1>6. N \in A
  BY <1>0, <1>5
<1> QED BY <1>1, <1>6, Zenon DEF A

\* Where there is one index, a reader of the answer reads what it reads of the chunks.
OneAtMost(chunks) ==
    /\ \A i \in DOMAIN chunks : Len(chunks[i].candidates) <= 1
    /\ \A n, m \in Merging!Indexes(Merging!Sent(chunks)) : n = m
ReadAsPrinted(h, chunks) ==
    ReadFirst(h, Merging!Aggregate(chunks)) = Merging!FlattenSeq([i \in DOMAIN chunks |-> ReadFirst(h, chunks[i])])

LEMMA NoElements ==
  ASSUME NEW S, NEW s \in Seq(S), \A i \in DOMAIN s : FALSE
  PROVE  s = <<>>
<1>1. CASE Len(s) = 0
  BY <1>1
<1>2. CASE Len(s) # 0
  <2>1. 1 \in DOMAIN s
    BY <1>2
  <2> QED BY <2>1, Zenon
<1> QED BY <1>1, <1>2

LEMMA ReadsAnswer ==
  ASSUME NEW T, NEW h, Maps(h, Parts_, T), Faithful(h), NEW chunks \in Seq(Responses_), OneAtMost(chunks)
  PROVE  ReadAsPrinted(h, chunks)
<1> DEFINE r == Merging!Aggregate(chunks)
           cs == r.candidates
           sent == Merging!Sent(chunks)
<1>1. PICK n : \A m \in Merging!Indexes(sent) : m = n
  <2>1. \A k, m \in Merging!Indexes(sent) : k = m
    BY Zenon DEF OneAtMost
  <2> HIDE DEF sent
  <2>2. CASE \E k \in Merging!Indexes(sent) : TRUE
    BY <2>1, <2>2, Zenon
  <2>3. CASE \A k \in Merging!Indexes(sent) : FALSE
    BY <2>3, Zenon
  <2> QED BY <2>2, <2>3, Zenon
<1>2. cs \in Answers /\ Mirrors(h, cs, sent)
  BY AggregateType, AggregateMirrors, Zenon
<1>3. sent \in Seq(Candidates_)
  BY SentType, Zenon
<1>4. cs \in Seq(Candidates_) /\ Distinct(cs) /\ Merging!Indexes(cs) = Merging!Indexes(sent)
  BY <1>2, Zenon DEF Answers, Mirrors
<1>5. ReadFirst(h, r) = FlatMap(h, Merging!PartsOf(cs, n))
  <2>1. \A i \in DOMAIN cs : cs[i].index = n
    BY <1>1, <1>4, Zenon DEF Merging!Indexes
  <2>2. \A i, j \in DOMAIN cs : i = j
    BY <1>4, <2>1, Zenon DEF Distinct
  <2>3. Len(cs) <= 1
    <3> HIDE DEF cs
    <3>1. DOMAIN cs = 1..Len(cs) /\ Len(cs) \in Nat
      BY <1>4
    <3>2. CASE Len(cs) > 1
      <4>1. 1 \in DOMAIN cs /\ 2 \in DOMAIN cs
        BY <3>1, <3>2
      <4>2. 1 = 2
        BY <2>2, <4>1, Zenon
      <4> QED BY <4>2
    <3> QED BY <3>1, <3>2
  <2> HIDE DEF r
  <2> QED BY <1>4, <2>1, <2>3, ReadsOne
<1>6. FoundAlike(h, cs, sent, n)
  <2>1. CASE n \in Merging!Indexes(sent)
    BY <2>1, AnswerHas, Zenon
  <2>2. CASE n \notin Merging!Indexes(sent)
    <3>1. \A m \in Merging!Indexes(sent) : FALSE
      BY <1>1, <2>2, Zenon
    <3>2. (\A i \in DOMAIN sent : FALSE) /\ (\A i \in DOMAIN cs : FALSE)
      BY <1>4, <3>1, Zenon DEF Merging!Indexes
    <3> HIDE DEF cs, sent
    <3>4. sent = <<>> /\ cs = <<>>
      BY <1>3, <1>4, <3>2, NoElements
    <3> QED BY <3>4, Zenon DEF FoundAlike
  <2> QED BY <2>1, <2>2
<1>7. ReadOn(h, n, chunks)
  BY ReadOnAll, Zenon
<1>8. ASSUME NEW i \in DOMAIN chunks PROVE ReadFirst(h, chunks[i]) = Brought(h, n)[chunks[i]]
  <2> DEFINE x == chunks[i]
             inc == x.candidates
  <2>1. x \in Responses_
    OBVIOUS
  <2>2. inc \in Seq(Candidates_)
    BY <2>1, ResponseFields, Zenon
  <2>3. Len(inc) <= 1
    BY Zenon DEF OneAtMost
  <2>4. \A c \in DOMAIN inc : inc[c].index = n
    BY <1>1, SentIndexes, Zenon
  <2> HIDE DEF x
  <2>5. ReadFirst(h, x) = FlatMap(h, Merging!PartsOf(inc, n))
    BY <2>2, <2>3, <2>4, ReadsOne
  <2> QED BY <2>1, <2>5, Zenon DEF Brought, x
<1>9. [i \in DOMAIN chunks |-> ReadFirst(h, chunks[i])] = [i \in DOMAIN chunks |-> Brought(h, n)[chunks[i]]]
  BY <1>8, Zenon
<1> HIDE DEF r, cs, sent
<1>10. FlatMap(Brought(h, n), chunks) = Merging!FlattenSeq([i \in DOMAIN chunks |-> ReadFirst(h, chunks[i])])
  BY <1>9, Zenon DEF FlatMap
<1> QED BY <1>5, <1>6, <1>7, <1>10, Zenon DEF ReadAsPrinted, FoundAlike, ReadOn, r, cs, sent

LEMMA PrintedHolds ==
  ASSUME NEW chunks \in Seq(Responses_)
  PROVE  Merging!PrintedIsText(chunks)
<1> SUFFICES ASSUME OneAtMost(chunks)
             PROVE  /\ Merging!text(Merging!Aggregate(chunks))
                           = Merging!FlattenSeq([i \in DOMAIN chunks |-> Merging!text(chunks[i])])
                    /\ Merging!function_calls(Merging!Aggregate(chunks))
                           = Merging!FlattenSeq([i \in DOMAIN chunks |-> Merging!function_calls(chunks[i])])
  BY Zenon DEF Merging!PrintedIsText, OneAtMost
<1>1. ReadAsPrinted(shown, chunks) /\ ReadAsPrinted(called, chunks)
  BY ReadersMap, ShownFaithful, ReadsAnswer, Zenon
<1>2. Merging!Aggregate(chunks).candidates \in Seq(Candidates_)
  BY AggregateType, Zenon DEF Answers
<1>3. \A i \in DOMAIN chunks : chunks[i] \in Responses_
  OBVIOUS
<1>4. \A i \in DOMAIN chunks : chunks[i].candidates \in Seq(Candidates_)
  BY <1>3, ResponseFields, Zenon
<1>5. /\ [i \in DOMAIN chunks |-> Merging!text(chunks[i])] = [i \in DOMAIN chunks |-> ReadFirst(shown, chunks[i])]
      /\ [i \in DOMAIN chunks |-> Merging!function_calls(chunks[i])] = [i \in DOMAIN chunks |-> ReadFirst(called, chunks[i])]
  BY <1>4, ReadersRead, Zenon
<1>6. /\ Merging!text(Merging!Aggregate(chunks)) = ReadFirst(shown, Merging!Aggregate(chunks))
      /\ Merging!function_calls(Merging!Aggregate(chunks)) = ReadFirst(called, Merging!Aggregate(chunks))
  BY <1>2, ReadersRead, Zenon
<1> QED BY <1>1, <1>5, <1>6, Zenon DEF ReadAsPrinted


\* GenerateResponse::merge(), for every sequence of chunks: every candidate of what they add up to has
\* the words and the signatures that were sent to it, once and in order, it looks like a unary
\* response, its text is what was printed on the way, and the latest value of each field has won.
THEOREM StreamsAddUp == InputSpec => []StreamAddsUp
<1>1. Inputs => StreamAddsUp
  <2> SUFFICES ASSUME Inputs, subject = "merge"
               PROVE  /\ Merging!NothingLostOrMoved(input) /\ Merging!LooksUnary(input)
                      /\ Merging!PrintedIsText(input) /\ Merging!LatestWins(input)
    BY DEF StreamAddsUp
  <2>1. input \in Seq(Elements[subject]) /\ subject \in Subjects
    BY DEF Inputs
  <2>2. Elements[subject] \subseteq Responses_
    <3>1. Elements[subject] = ElementsOf("merge")
      BY <2>1, Zenon DEF ElementsOf
    <3> QED BY <3>1, ElementsAssumption DEF Responses_
  <2>3. input \in Seq(Responses_)
    BY <2>1, <2>2
  <2> QED BY <2>3, NothingLost, AllUnary, PrintedHolds, LatestHasWon, Zenon
<1> QED BY <1>1, InputsHold, PTL

=============================================================================
