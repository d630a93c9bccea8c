---------------------------- MODULE RateLimiter ----------------------------
(***************************************************************************)
(* The token bucket of ingestion/base.py, TokenBucketRateLimiter.          *)
(*                                                                         *)
(* Time is counted in ticks and tokens in the ticks they take to accrue: a *)
(* whole token is Interval, which is period / rate in the code, so that    *)
(* all of its arithmetic is in whole numbers.  The lock is held across one *)
(* await only, the sleep; everything else acquire does is one step.  A     *)
(* sleep may last longer than asked for, never shorter.                    *)
(*                                                                         *)
(* The meter is an observer, a bucket of the plainest kind: it fills by    *)
(* two per tick, twice the rate, up to MeterCapacity, and what the limiter *)
(* lets through is taken from it.  Below zero, it stays there: more was    *)
(* let through than such a meter allows.                                   *)
(***************************************************************************)
EXTENDS Integers

CONSTANTS
    Callers,   \* the coroutines that share the limiter
    Nobody,
    Rate,      \* _rate
    Interval   \* ticks per token

ASSUME CallersAssumption == Nobody \notin Callers
ASSUME RateAssumption == Rate \in Nat \ {0} /\ Interval \in Nat \ {0}

VARIABLES
    tokens,  \* _tokens
    since,   \* the time since _last_refill, as far as it matters
    waiter,  \* the caller that sleeps, holding the lock
    meter

limiterVars == <<tokens, since, waiter, meter>>

Least(a, b) == IF a <= b THEN a ELSE b

Capacity == Rate * Interval
MeterCapacity == Capacity + Interval

LimiterInit ==
    /\ tokens = Interval
    /\ since = 0
    /\ waiter = Nobody
    /\ meter = Interval

\* What acquire finds in the bucket once it has the lock.
Refilled == Least(Capacity, tokens + since)

\* One request is let through.
Count == meter' = IF meter >= Interval THEN meter - Interval ELSE -1

\* acquire, when there is a token.
TakeToken ==
    /\ waiter = Nobody
    /\ Refilled >= Interval
    /\ tokens' = Refilled - Interval
    /\ since' = 0
    /\ Count
    /\ UNCHANGED waiter

\* A mistake of StartWait: the time of the refill is not noted.
StartWaitStale(c) ==
    /\ waiter = Nobody
    /\ Refilled < Interval
    /\ tokens' = Refilled
    /\ waiter' = c
    /\ UNCHANGED <<since, meter>>

\* acquire, when there is none, up to its await.
StartWait(c) ==
    /\ waiter = Nobody
    /\ Refilled < Interval
    /\ tokens' = Refilled
    /\ since' = 0
    /\ waiter' = c
    /\ UNCHANGED meter

\* After the sleep: the time of the refill remains that of its beginning.
FinishWait(c) ==
    /\ waiter = c
    /\ since >= Interval - tokens
    /\ tokens' = 0
    /\ waiter' = Nobody
    /\ Count
    /\ UNCHANGED since

Elapse ==
    /\ since' = Least(Capacity, since + 1)
    /\ meter' = IF meter < 0 THEN meter ELSE Least(MeterCapacity, meter + 2)
    /\ UNCHANGED <<tokens, waiter>>

LimiterNext ==
    \/ TakeToken
    \/ \E c \in Callers : StartWait(c) \/ FinishWait(c)
    \/ Elapse

LimiterSpec == LimiterInit /\ [][LimiterNext]_limiterVars

LimiterTypeOK ==
    /\ tokens \in 0 .. Capacity
    /\ since \in 0 .. Capacity
    /\ waiter \in Callers \cup {Nobody}
    /\ meter \in -1 .. MeterCapacity

\* Whatever the callers do, the limiter lets no more through than a bucket that fills
\* at twice the rate and holds one request more.  It is twice because the time of a
\* sleep is credited to the sleeper and again to those after it (base.py:96-112).
RateKept == meter >= 0
=============================================================================
