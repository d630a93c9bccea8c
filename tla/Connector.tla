----------------------------- MODULE Connector ------------------------------
(***************************************************************************)
(* BaseConnector._request of ingestion/base.py with its circuit breaker    *)
(* and its rate limiter, used by several coroutines.                       *)
(*                                                                         *)
(* A step is what a coroutine does from one await to the next.  Time is    *)
(* that of RateLimiter; what sleeps has a timer, and may sleep longer than *)
(* asked for.  The answer of the server is an input.                       *)
(*                                                                         *)
(* Left out: what a request returns or raises, the method, path and body,  *)
(* and the client, which the users of a connector open and close.          *)
(***************************************************************************)
EXTENDS RateLimiter

CONSTANTS
    MaxRetries,   \* _max_retries
    BaseDelay,    \* _base_delay
    MaxDelay,     \* _max_delay
    RetryAfters,  \* what an answer 429 may ask for
    Threshold,    \* of the circuit breaker
    Recovery      \* of the circuit breaker

ASSUME ConnectorAssumption ==
    /\ MaxRetries \in Nat \ {0} /\ Threshold \in Nat \ {0}
    /\ BaseDelay \in Nat /\ MaxDelay \in Nat /\ Recovery \in Nat
    /\ RetryAfters \subseteq Nat

Closed == -1  \* _opened_at is None

VARIABLES
    failures,  \* _failures, as far as it matters
    opened,    \* the time since _opened_at, as far as it matters
    pc,        \* where each caller is
    attempt,   \* of each caller
    timer,     \* what remains of each caller's sleep
    late       \* requests each caller has sent while the breaker was open (history)

breakerVars == <<failures, opened>>
callVars == <<pc, attempt, timer, late>>
vars == <<limiterVars, breakerVars, callVars>>

Init ==
    /\ LimiterInit
    /\ failures = 0
    /\ opened = Closed
    /\ pc = [c \in Callers |-> "idle"]
    /\ attempt = [c \in Callers |-> 0]
    /\ timer = [c \in Callers |-> 0]
    /\ late = [c \in Callers |-> 0]

-----------------------------------------------------------------------------
\* is_open
IsOpen == opened # Closed /\ opened < Recovery

Go(c, label) == pc' = [pc EXCEPT ![c] = label]

Sleep(c, delay) == Go(c, "backoff") /\ timer' = [timer EXCEPT ![c] = delay]

\* The pause after a failed attempt: _base_delay, doubled with every attempt.
Backoff(n) == Least(BaseDelay * 2 ^ (n - 1), MaxDelay)

\* The history variable starts anew whenever the breaker opens.
CountLate(c) == late' = [late EXCEPT ![c] = @ + IF IsOpen THEN 1 ELSE 0]
StartLate == late' = IF ~ IsOpen /\ IsOpen' THEN [c \in Callers |-> 0] ELSE late

RecordSuccess == failures' = 0 /\ opened' = Closed

RecordFailure ==
    /\ failures' = Least(failures + 1, Threshold)
    /\ opened' = IF failures + 1 >= Threshold THEN 0 ELSE opened

-----------------------------------------------------------------------------
\* A mistake of Reject: that a request is turned away counts as a failure.
RejectCounting(c) ==
    /\ pc[c] = "idle" /\ IsOpen
    /\ RecordFailure
    /\ UNCHANGED <<limiterVars, callVars>>

\* CircuitBreakerOpenError
Reject(c) ==
    /\ pc[c] = "idle" /\ IsOpen
    /\ UNCHANGED vars

\* A mistake of Begin: the breaker is not looked at.
BeginAlways(c) ==
    /\ pc[c] = "idle"
    /\ attempt' = [attempt EXCEPT ![c] = 1]
    /\ Go(c, "acquire")
    /\ UNCHANGED <<limiterVars, breakerVars, timer, late>>

\* The request is let in; this is the only time the breaker is asked.
Begin(c) ==
    /\ pc[c] = "idle" /\ ~ IsOpen
    /\ attempt' = [attempt EXCEPT ![c] = 1]
    /\ Go(c, "acquire")
    /\ UNCHANGED <<limiterVars, breakerVars, timer, late>>

\* The rate limiter lets the attempt through at once, or after a sleep.
Pass(c) ==
    /\ pc[c] = "acquire" /\ TakeToken
    /\ Go(c, "sent")
    /\ CountLate(c)
    /\ UNCHANGED <<breakerVars, attempt, timer>>

Wait(c) ==
    /\ pc[c] = "acquire" /\ StartWait(c)
    /\ Go(c, "waiting")
    /\ UNCHANGED <<breakerVars, attempt, timer, late>>

PassLate(c) ==
    /\ pc[c] = "waiting" /\ FinishWait(c)
    /\ Go(c, "sent")
    /\ CountLate(c)
    /\ UNCHANGED <<breakerVars, attempt, timer>>

\* A good answer, with a body that is JSON or not.
Succeed(c) ==
    /\ pc[c] = "sent"
    /\ RecordSuccess
    /\ Go(c, "idle")
    /\ UNCHANGED <<limiterVars, attempt, timer, late>>

\* An answer 429; its header may ask for a pause, or not be a number.
Throttled(c) ==
    /\ pc[c] = "sent"
    /\ \/ \E pause \in RetryAfters : Sleep(c, Least(pause, MaxDelay))
       \/ Go(c, "idle") /\ UNCHANGED timer
    /\ UNCHANGED <<limiterVars, breakerVars, attempt, late>>

\* Any other error answer, or none.
Fail(c) ==
    /\ pc[c] = "sent"
    /\ RecordFailure
    /\ IF attempt[c] < MaxRetries THEN Sleep(c, Backoff(attempt[c]))
                                  ELSE Go(c, "idle") /\ UNCHANGED timer
    /\ StartLate
    /\ UNCHANGED <<limiterVars, attempt>>

\* A mistake of Retry: the attempts are not counted.
RetryForever(c) ==
    /\ pc[c] = "backoff" /\ timer[c] = 0
    /\ Go(c, "acquire")
    /\ UNCHANGED <<limiterVars, breakerVars, attempt, timer, late>>

\* The loop goes on, or ends after an answer 429 to the last attempt.
Retry(c) ==
    /\ pc[c] = "backoff" /\ timer[c] = 0
    /\ IF attempt[c] < MaxRetries
       THEN Go(c, "acquire") /\ attempt' = [attempt EXCEPT ![c] = @ + 1]
       ELSE Go(c, "idle") /\ UNCHANGED attempt
    /\ UNCHANGED <<limiterVars, breakerVars, timer, late>>

Tick ==
    /\ Elapse
    /\ opened' = IF opened = Closed THEN Closed ELSE Least(Recovery, opened + 1)
    /\ timer' = [c \in Callers |-> IF timer[c] > 0 THEN timer[c] - 1 ELSE 0]
    /\ UNCHANGED <<failures, pc, attempt, late>>

-----------------------------------------------------------------------------
Answer(c) == Succeed(c) \/ Throttled(c) \/ Fail(c)

Next ==
    \/ \E c \in Callers : Reject(c) \/ Begin(c)
    \/ \E c \in Callers : Pass(c) \/ Wait(c) \/ PassLate(c) \/ Answer(c) \/ Retry(c)
    \/ Tick

Spec == Init /\ [][Next]_vars

\* Time passes, requests are answered or time out, what slept goes on; and the lock of
\* the limiter is given to the callers in the order in which they asked for it.
FairSpec ==
    /\ Spec
    /\ WF_vars(Tick)
    /\ \A c \in Callers : /\ WF_vars(Answer(c)) /\ WF_vars(Retry(c)) /\ WF_vars(PassLate(c))
                          /\ SF_vars(Pass(c) \/ Wait(c))

-----------------------------------------------------------------------------
TypeOK ==
    /\ LimiterTypeOK
    /\ failures \in 0 .. Threshold
    /\ opened \in {Closed} \cup 0 .. Recovery
    /\ pc \in [Callers -> {"idle", "acquire", "waiting", "sent", "backoff"}]
    /\ attempt \in [Callers -> 0 .. MaxRetries]
    /\ timer \in [Callers -> 0 .. MaxDelay]
    /\ late \in [Callers -> Nat]

\* The retries do not ask the breaker, so requests do leave while it is open; but
\* from one opening to the next closing no caller sends more than the attempts of
\* the one request it was already making, however often it is called (base.py:279-289).
LoadIsShed == \A c \in Callers : late[c] <= MaxRetries

\* Every request comes to an end: all waits are bounded and attempts run out, though
\* all callers share one lock and an answer 429 costs an attempt (base.py:288-338);
\* on the way there it makes no more attempts than it may.
EveryRequestEnds == []TypeOK /\ \A c \in Callers : pc[c] # "idle" ~> pc[c] = "idle"

\* base.py:13: the breaker "opens after N consecutive failures, auto-recovers".  Late
\* failures of requests under way renew the recovery time, but not for ever.
BreakerRecovers == []<>~ IsOpen
=============================================================================
