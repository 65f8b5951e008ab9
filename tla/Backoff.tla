-------------------------------- MODULE Backoff --------------------------------
(***************************************************************************)
(* gemini::RetryPolicy::delay_for() and the hints it obeys: the RetryInfo  *)
(* of an error's body and the Retry-After header. Delays are in            *)
(* milliseconds; a RetryInfo counts in fractions, a header in seconds. The *)
(* jitter of a policy is in percent.                                       *)
(***************************************************************************)
EXTENDS Integers, Sequences

CONSTANTS
    Fraction,  \* the fractions of a RetryInfo that make a millisecond, at least one
    Second     \* the milliseconds of a second, at least one

None == -1
AtMost(x, bound) == IF x < bound THEN x ELSE bound
AtLeast(x, bound) == IF x > bound THEN x ELSE bound

---------------------------------------------------------------------------
(* The hint of an error. A text that is no duration is None.               *)

\* Mutant of parse_proto_duration: cut off to the millisecond.
proto_duration_floor(text) == IF text = None THEN None ELSE text \div Fraction
parse_proto_duration(text) ==
    IF text = None THEN None ELSE text \div Fraction + (IF text % Fraction = 0 THEN 0 ELSE 1)

\* An error has the RetryInfos of its details, in order, and perhaps a header.
\* Mutant of retry_after: the header wins.
retry_after_header(error) ==
    IF error.header # None THEN error.header * Second
    ELSE IF error.details = <<>> THEN None ELSE parse_proto_duration(error.details[Len(error.details)])
retry_after(error) ==
    LET info == IF error.details = <<>> THEN None ELSE parse_proto_duration(error.details[Len(error.details)])
    IN  IF info = None /\ error.header # None THEN error.header * Second ELSE info

---------------------------------------------------------------------------
(* delay_for(), for what the random distribution gives, in percent.        *)

Policies == [initial_backoff : Nat, max_backoff : Nat, multiplier : Nat, jitter : Nat]
Errors == [details : Seq(Nat \cup {None}), header : Nat \cup {None}]

Rolls(policy) == (100 - policy.jitter)..(100 + policy.jitter)

Power(base) == LET power[n \in Nat] == IF n = 0 THEN 1 ELSE base * power[n - 1] IN power
Exponential(policy, retry_index) ==
    policy.initial_backoff * Power(policy.multiplier)[AtLeast(retry_index, 0)]

\* Mutant of Base: the cap is left to the hints.
BaseUncapped(policy, retry_index) == Exponential(policy, retry_index)
Base(policy, retry_index) == AtMost(Exponential(policy, retry_index), policy.max_backoff)

delay_for(policy, retry_index, error, roll) ==
    IF retry_after(error) # None THEN AtMost(retry_after(error), policy.max_backoff)
    ELSE AtLeast((Base(policy, retry_index) * roll) \div 100, 0)

---------------------------------------------------------------------------
(* Properties, of every failed attempt.                                    *)

\* A thread never sleeps longer than max_backoff, whatever a server asks for, and without a
\* hint never longer than the jitter adds to it; a jitter of more than all never yields a
\* negative delay.
DelayBounded(policy, retry_index, error) ==
    \A roll \in Rolls(policy) :
        /\ delay_for(policy, retry_index, error, roll) \in 0..((policy.max_backoff * (100 + policy.jitter)) \div 100)
        /\ retry_after(error) # None => delay_for(policy, retry_index, error, roll) <= policy.max_backoff

\* A server is not asked again before the time it has named, in its body or else in its
\* header, unless that is beyond max_backoff. The last RetryInfo counts: one that is no
\* duration takes back the one before it.
HintObeyed(policy, retry_index, error) ==
    \A roll \in Rolls(policy) :
        LET delay == delay_for(policy, retry_index, error, roll)
            named == IF error.details = <<>> THEN None ELSE error.details[Len(error.details)]
        IN  delay < policy.max_backoff =>
                /\ named # None => delay * Fraction \in named..(named + Fraction - 1)
                /\ named = None /\ error.header # None => delay = error.header * Second

=============================================================================
