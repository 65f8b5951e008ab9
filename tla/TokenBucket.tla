------------------------------- MODULE TokenBucket -------------------------------
(***************************************************************************)
(* The reference solution of the task token-bucket. Time is in ticks and   *)
(* rate in tokens a tick. Every call reads the clock, which may have gone  *)
(* backwards, and holds the mutex to its end.                              *)
(***************************************************************************)
EXTENDS Integers

CONSTANTS
    rate, burst,  \* rate_ and burst_
    Steps,        \* how far the clock may move between two calls
    Amounts,      \* what is asked for
    MaxCalls      \* bound: calls

ASSUME BucketAssumption ==
    /\ rate \in Nat /\ burst \in Nat /\ MaxCalls \in Nat
    /\ Steps \subseteq Int /\ Amounts \subseteq Nat

VARIABLES
    clock,    \* what clock_() has returned last
    tokens,   \* tokens_
    last,     \* last_
    calls,    \* history: the number of calls so far
    given,    \* history: the tokens acquired so far
    highest,  \* history: the highest the clock has read
    marks     \* history: what given and highest were when each call began

bucketVars == <<clock, tokens, last, calls, given, highest, marks>>

AtMost(x, bound) == IF x < bound THEN x ELSE bound
Mark(g, h) == [given |-> g, highest |-> h]

BucketInit ==
    /\ clock = 0 /\ last = 0 /\ tokens = burst
    /\ calls = 0 /\ given = 0 /\ highest = 0 /\ marks = {Mark(0, 0)}

\* refill(): what it makes of last_ and tokens_ when the clock reads now.
\* Mutant of Newest: a clock that went backwards is believed.
NewestReading(now) == now
Newest(now) == IF now <= last THEN last ELSE now
\* Mutant of Refilled: the burst is not a limit.
RefilledOver(now) == IF now <= last THEN tokens ELSE tokens + (now - last) * rate
Refilled(now) == IF now <= last THEN tokens ELSE AtMost(burst, tokens + (now - last) * rate)

Reads(now) ==
    /\ calls < MaxCalls /\ calls' = calls + 1
    /\ clock' = now
    /\ last' = Newest(now)
    /\ highest' = IF now > highest THEN now ELSE highest
    /\ marks' = marks \cup {Mark(given, highest')}

try_acquire(now, n) ==
    /\ Reads(now)
    /\ \/ n > Refilled(now) /\ tokens' = Refilled(now) /\ UNCHANGED given
       \/ n <= Refilled(now) /\ tokens' = Refilled(now) - n /\ given' = given + n

\* available() and time_until_available() refill as well.
Look(now) == Reads(now) /\ tokens' = Refilled(now) /\ UNCHANGED given

Forever == -1

\* Mutant of Ticks: rounded down.
TicksDown(n) == n \div rate
Ticks(n) == (n + rate - 1) \div rate

time_until_available(now, n) ==
    IF n <= Refilled(now) THEN 0
    ELSE IF n > burst \/ rate = 0 THEN Forever
    ELSE Ticks(n - Refilled(now))

BucketNext ==
    \E step \in Steps : Look(clock + step) \/ \E n \in Amounts : try_acquire(clock + step, n)

BucketSpec == BucketInit /\ [][BucketNext]_bucketVars

---------------------------------------------------------------------------
(* Properties. *)

\* The variables keep their types; the bucket is never overdrawn and never overflows.
BucketTypeOK ==
    /\ clock \in Int /\ last \in Int /\ tokens \in 0..burst
    /\ calls \in Nat /\ given \in Nat /\ highest \in Int
    /\ marks \subseteq [given : Nat, highest : Int]

\* What the bucket is for: in every window, from one call to a later one, it has given no more
\* than a burst and what the time between them is worth, where time is the highest the clock
\* has read: turning the clock back and forth earns nothing.
RateIsKept ==
    \A mark \in marks : given - mark.given <= burst + rate * (highest - mark.highest)

\* time_until_available() is right: after the wait it names, and no earlier, the tokens are
\* there, unless the clock is behind what it has read before.
WaitIsExact ==
    clock = last =>
        \A n \in Amounts :
            LET wait == time_until_available(clock, n)
            IN  IF wait = Forever THEN \A step \in Steps : n > Refilled(clock + step)
                ELSE /\ n <= Refilled(clock + wait)
                     /\ wait > 0 => n > Refilled(clock + wait - 1)

BucketKeepsTheRate == RateIsKept /\ WaitIsExact

=============================================================================
