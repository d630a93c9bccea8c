-------------------------- MODULE ConnectorProofs --------------------------
(***************************************************************************)
(* What the connector lets through, for any number of callers, any rate    *)
(* and any setting of the retries and the breaker.                         *)
(***************************************************************************)
EXTENDS Connector, TLAPS

LEMMA CapacityHoldsOne == Capacity \in Nat /\ Capacity >= Interval /\ Interval \in Nat \ {0}
<1>1. Rate \in Nat /\ Interval \in Nat /\ Rate >= 1 /\ Interval >= 1
  BY RateAssumption
<1>2. Rate * Interval \in Nat /\ Rate * Interval >= Interval
  <2>1. PICK r \in Nat : Rate = r + 1
    BY <1>1, Rate - 1 \in Nat
  <2>2. r * Interval \in Nat
    BY <1>1, <2>1
  <2>3. (r + 1) * Interval = r * Interval + Interval
    BY <1>1, <2>1
  <2> QED BY <1>1, <2>1, <2>2, <2>3
<1> QED BY <1>1, <1>2 DEF Capacity

-----------------------------------------------------------------------------
(* RateKept is not inductive.  Between sleeps the meter holds at least     *)
(* what the bucket would give out; during a sleep it has gained twice the  *)
(* time slept, once for the sleeper and once for those who come after.     *)

Afloat ==
    /\ LimiterTypeOK
    /\ RateKept
    /\ waiter = Nobody => meter >= Refilled
    /\ waiter # Nobody => meter >= Least(MeterCapacity, tokens + 2 * since)

LEMMA InitAfloat == LimiterInit => Afloat
  BY CapacityHoldsOne, RateAssumption
  DEF LimiterInit, Afloat, LimiterTypeOK, RateKept, Refilled, Least, MeterCapacity

LEMMA TakeTokenAfloat == Afloat /\ TakeToken => Afloat'
  BY CapacityHoldsOne, RateAssumption
  DEF Afloat, LimiterTypeOK, RateKept, TakeToken, Count, Refilled, Least, MeterCapacity

LEMMA StartWaitAfloat == ASSUME Afloat, NEW c \in Callers, StartWait(c) PROVE Afloat'
  BY CapacityHoldsOne, RateAssumption, CallersAssumption
  DEF Afloat, LimiterTypeOK, RateKept, StartWait, Refilled, Least, MeterCapacity

LEMMA FinishWaitAfloat == ASSUME Afloat, NEW c \in Callers, FinishWait(c) PROVE Afloat'
  BY CapacityHoldsOne, RateAssumption, CallersAssumption
  DEF Afloat, LimiterTypeOK, RateKept, FinishWait, Count, Refilled, Least, MeterCapacity

LEMMA ElapseAfloat == Afloat /\ Elapse => Afloat'
  BY CapacityHoldsOne, RateAssumption
  DEF Afloat, LimiterTypeOK, RateKept, Elapse, Refilled, Least, MeterCapacity

LEMMA LimiterStepAfloat == Afloat /\ [LimiterNext]_limiterVars => Afloat'
<1> SUFFICES ASSUME Afloat, [LimiterNext]_limiterVars PROVE Afloat'
  OBVIOUS
<1>1. CASE TakeToken
  BY <1>1, TakeTokenAfloat
<1>2. ASSUME NEW c \in Callers, StartWait(c) \/ FinishWait(c) PROVE Afloat'
  BY <1>2, StartWaitAfloat, FinishWaitAfloat
<1>3. CASE Elapse
  BY <1>3, ElapseAfloat
<1>4. CASE UNCHANGED limiterVars
  BY <1>4 DEF limiterVars, Afloat, LimiterTypeOK, RateKept, Refilled
<1> QED BY <1>1, <1>2, <1>3, <1>4 DEF LimiterNext

-----------------------------------------------------------------------------
(* Every step of a connector is one of its limiter, or leaves it alone.    *)

LEMMA StepOfLimiter == [Next]_vars => [LimiterNext]_limiterVars
<1> SUFFICES ASSUME [Next]_vars PROVE [LimiterNext]_limiterVars
  OBVIOUS
<1>1. ASSUME NEW c \in Callers, Reject(c) \/ Begin(c) PROVE UNCHANGED limiterVars
  BY <1>1 DEF Reject, Begin, vars
<1>2. ASSUME NEW c \in Callers, Answer(c) \/ Retry(c) PROVE UNCHANGED limiterVars
  BY <1>2 DEF Answer, Succeed, Throttled, Fail, Retry
<1>3. ASSUME NEW c \in Callers, Pass(c) \/ Wait(c) \/ PassLate(c) PROVE LimiterNext
  BY <1>3 DEF Pass, Wait, PassLate, LimiterNext
<1>4. CASE Tick
  BY <1>4 DEF Tick, LimiterNext
<1>5. CASE UNCHANGED vars
  BY <1>5 DEF vars
<1> QED BY <1>1, <1>2, <1>3, <1>4, <1>5 DEF Next

\* A connector uses its limiter as the limiter is meant to be used.
THEOREM UsesLimiter == Spec => LimiterSpec
<1>1. Init => LimiterInit
  BY DEF Init
<1> QED BY <1>1, StepOfLimiter, PTL DEF Spec, LimiterSpec

\* No more requests leave a connector than a bucket of twice its rate would let through
\* (base.py:96-112), whoever calls it and whatever the server answers.
THEOREM RateIsKept == Spec => []RateKept
<1>1. LimiterSpec => []Afloat
  BY InitAfloat, LimiterStepAfloat, PTL DEF LimiterSpec
<1>2. Afloat => RateKept
  BY DEF Afloat
<1> QED BY <1>1, <1>2, UsesLimiter, PTL

-----------------------------------------------------------------------------
(* The breaker.                                                            *)

(* LoadIsShed is not inductive: while the breaker is open no call begins,  *)
(* so what a caller has sent since is bounded by the attempts it has made; *)
(* when it is closed the counts are out of date and start anew.            *)

Sent(c) == CASE pc[c] = "idle" -> MaxRetries
             [] pc[c] \in {"acquire", "waiting"} -> attempt[c] - 1
             [] OTHER -> attempt[c]

Shed ==
    /\ late \in [Callers -> Nat]
    /\ attempt \in [Callers -> 0 .. MaxRetries]
    /\ pc \in [Callers -> {"idle", "acquire", "waiting", "sent", "backoff"}]
    /\ opened \in {Closed} \cup 0 .. Recovery
    /\ \A c \in Callers : pc[c] # "idle" => attempt[c] >= 1
    /\ LoadIsShed
    /\ IsOpen => \A c \in Callers : late[c] <= Sent(c)

LEMMA InitShed == Init => Shed
  BY ConnectorAssumption DEF Init, Shed, LoadIsShed, IsOpen, Closed

\* A step of one caller that opens nothing and resets no count keeps Shed if what it
\* counts is covered by what the caller has sent.
LEMMA CallerStepShed ==
  ASSUME Shed, NEW c \in Callers,
         NEW label \in {"idle", "acquire", "waiting", "sent", "backoff"},
         NEW n \in 0 .. MaxRetries, NEW l \in Nat,
         pc' = [pc EXCEPT ![c] = label], attempt' = [attempt EXCEPT ![c] = n],
         late' = [late EXCEPT ![c] = l], opened' \in {Closed} \cup 0 .. Recovery,
         IsOpen' => IsOpen,
         label # "idle" => n >= 1,
         l <= MaxRetries,
         IsOpen' => l <= (CASE label = "idle" -> MaxRetries
                            [] label \in {"acquire", "waiting"} -> n - 1
                            [] OTHER -> n)
  PROVE  Shed'
<1>1. /\ pc' \in [Callers -> {"idle", "acquire", "waiting", "sent", "backoff"}]
      /\ attempt' \in [Callers -> 0 .. MaxRetries] /\ late' \in [Callers -> Nat]
  BY DEF Shed
<1>2. /\ pc'[c] = label /\ attempt'[c] = n /\ late'[c] = l
      /\ \A d \in Callers \ {c} : pc'[d] = pc[d] /\ attempt'[d] = attempt[d] /\ late'[d] = late[d]
  BY DEF Shed
<1>3. \A d \in Callers : pc'[d] # "idle" => attempt'[d] >= 1
  BY <1>2 DEF Shed
<1>4. LoadIsShed'
  BY <1>2 DEF Shed, LoadIsShed
<1>5. ASSUME IsOpen', NEW d \in Callers PROVE late'[d] <= Sent(d)'
  <2>1. CASE d = c
    BY <1>2, <1>5, <2>1 DEF Sent
  <2>2. CASE d # c
    <3>1. late[d] <= Sent(d)
      BY <1>5 DEF Shed
    <3> QED BY <1>2, <2>2, <3>1 DEF Sent
  <2> QED BY <2>1, <2>2
<1> QED BY <1>1, <1>3, <1>4, <1>5 DEF Shed

LEMMA NextShed == Shed /\ [Next]_vars => Shed'
<1> SUFFICES ASSUME Shed, [Next]_vars PROVE Shed'
  OBVIOUS
<1> USE ConnectorAssumption
<1>a. \A c \in Callers : late[c] \in Nat /\ attempt[c] \in 0 .. MaxRetries /\ late[c] <= MaxRetries
  BY DEF Shed, LoadIsShed
<1>b. \A c \in Callers : IsOpen => late[c] <= Sent(c)
  BY DEF Shed
<1>c. \A c \in Callers : late = [late EXCEPT ![c] = late[c]] /\ attempt = [attempt EXCEPT ![c] = attempt[c]]
  BY DEF Shed
<1>d. UNCHANGED breakerVars => opened' \in {Closed} \cup 0 .. Recovery /\ (IsOpen' => IsOpen)
  BY DEF Shed, breakerVars, IsOpen
<1>1. ASSUME NEW c \in Callers, Reject(c) PROVE Shed'
  BY <1>1 DEF Reject, vars, callVars, breakerVars, Shed, LoadIsShed, IsOpen, Sent
<1>2. ASSUME NEW c \in Callers, Begin(c) PROVE Shed'
  <2>1. ~ IsOpen'
    BY <1>2 DEF Begin, breakerVars, IsOpen
  <2>2. 1 \in 0 .. MaxRetries
    OBVIOUS
  <2>3. /\ Go(c, "acquire") /\ attempt' = [attempt EXCEPT ![c] = 1]
        /\ UNCHANGED <<breakerVars, late>>
    BY <1>2 DEF Begin
  <2>4. /\ opened' \in {Closed} \cup 0 .. Recovery /\ (IsOpen' => IsOpen)
        /\ late' = [late EXCEPT ![c] = late[c]] /\ late[c] \in Nat /\ late[c] <= MaxRetries
    BY <1>a, <1>c, <1>d, <2>3
  <2>5. pc' = [pc EXCEPT ![c] = "acquire"]
    BY <2>3 DEF Go
  <2> DEFINE n == 1
  <2>6. n \in 0 .. MaxRetries /\ n >= 1 /\ attempt' = [attempt EXCEPT ![c] = n]
    BY <2>2, <2>3
  <2>7. IsOpen' => late[c] <= n - 1
    BY <2>1
  <2> HIDE DEF n
  <2> QED BY <2>4, <2>5, <2>6, <2>7, CallerStepShed, Zenon
<1>3. ASSUME NEW c \in Callers, Pass(c) \/ PassLate(c) PROVE Shed'
  <2> DEFINE l == late[c] + IF IsOpen THEN 1 ELSE 0
  <2>1. /\ pc[c] \in {"acquire", "waiting"} /\ UNCHANGED <<breakerVars, attempt>>
        /\ Go(c, "sent") /\ late' = [late EXCEPT ![c] = l]
    BY <1>3, <1>a DEF Pass, PassLate, CountLate, Shed
  <2>2. attempt[c] >= 1
    BY <2>1 DEF Shed
  <2>3. l \in Nat /\ l <= MaxRetries /\ (IsOpen => l <= attempt[c])
    BY <1>a, <1>b, <2>1, <2>2 DEF Sent
  <2> QED BY <1>a, <1>c, <1>d, <2>1, <2>2, <2>3, CallerStepShed DEF Go
<1>4. ASSUME NEW c \in Callers, Wait(c) PROVE Shed'
  <2>1. /\ pc[c] = "acquire" /\ UNCHANGED <<breakerVars, attempt, late>>
        /\ Go(c, "waiting") /\ attempt[c] >= 1
    BY <1>4 DEF Wait, Shed
  <2>2. IsOpen => late[c] <= attempt[c] - 1
    BY <1>b, <2>1 DEF Sent
  <2> QED BY <1>a, <1>c, <1>d, <2>1, <2>2, CallerStepShed DEF Go
<1>5. ASSUME NEW c \in Callers, Succeed(c) PROVE Shed'
  <2>1. ~ IsOpen' /\ opened' = Closed
    BY <1>5 DEF Succeed, RecordSuccess, IsOpen
  <2>2. Go(c, "idle") /\ UNCHANGED <<attempt, late>>
    BY <1>5 DEF Succeed
  <2> QED BY <1>a, <1>c, <2>1, <2>2, CallerStepShed DEF Go
<1>6. ASSUME NEW c \in Callers, Throttled(c) PROVE Shed'
  <2>1. PICK label \in {"idle", "backoff"} : Go(c, label)
    BY <1>6 DEF Throttled, Sleep
  <2>2. pc[c] = "sent" /\ UNCHANGED <<breakerVars, attempt, late>> /\ attempt[c] >= 1
    BY <1>6 DEF Throttled, Shed
  <2>3. IsOpen => late[c] <= attempt[c]
    BY <1>b, <2>2 DEF Sent
  <2> QED BY <1>a, <1>c, <1>d, <2>1, <2>2, <2>3, CallerStepShed DEF Go
<1>7. ASSUME NEW c \in Callers, Fail(c) PROVE Shed'
  <2>1. PICK label \in {"idle", "backoff"} : Go(c, label)
    BY <1>7 DEF Fail, Sleep
  <2>2. /\ pc[c] = "sent" /\ UNCHANGED attempt /\ attempt[c] >= 1
        /\ StartLate /\ RecordFailure
    BY <1>7 DEF Fail, Shed
  <2>3. opened' \in {Closed} \cup 0 .. Recovery
    BY <2>2 DEF RecordFailure, Shed
  <2>4. CASE IsOpen \/ ~ IsOpen'
    <3>1. UNCHANGED late
      BY <2>2, <2>4 DEF StartLate
    <3>2. IsOpen => late[c] <= attempt[c]
      BY <1>b, <2>2 DEF Sent
    <3> QED BY <1>a, <1>c, <2>1, <2>2, <2>3, <2>4, <3>1, <3>2, CallerStepShed DEF Go
  <2>5. CASE ~ IsOpen /\ IsOpen'
    <3>1. late' = [d \in Callers |-> 0]
      BY <2>2, <2>5 DEF StartLate
    <3>2. pc' \in [Callers -> {"idle", "acquire", "waiting", "sent", "backoff"}]
      BY <2>1 DEF Go, Shed
    <3>3. \A d \in Callers : pc'[d] # "idle" => attempt'[d] >= 1
      BY <2>1, <2>2 DEF Go, Shed
    <3>4. \A d \in Callers : late'[d] = 0 /\ 0 <= Sent(d)'
      BY <2>2, <1>a, <3>1, <3>2, <3>3 DEF Sent
    <3> QED BY <2>2, <2>3, <3>1, <3>2, <3>3, <3>4 DEF Shed, LoadIsShed
  <2> QED BY <2>4, <2>5
<1>8. ASSUME NEW c \in Callers, Retry(c) PROVE Shed'
  <2>1. /\ pc[c] = "backoff" /\ UNCHANGED <<breakerVars, late>> /\ attempt[c] >= 1
    BY <1>8 DEF Retry, Shed
  <2>2. IsOpen => late[c] <= attempt[c]
    BY <1>b, <2>1 DEF Sent
  <2>3. CASE attempt[c] < MaxRetries
    <3>1. Go(c, "acquire") /\ attempt' = [attempt EXCEPT ![c] = attempt[c] + 1]
      BY <1>8, <2>3 DEF Retry
    <3> DEFINE n == attempt[c] + 1
    <3>2. n \in 0 .. MaxRetries /\ n >= 1 /\ n - 1 = attempt[c]
      BY <1>a, <2>1, <2>3
    <3>3. attempt' = [attempt EXCEPT ![c] = n]
      BY <3>1
    <3>4. /\ opened' \in {Closed} \cup 0 .. Recovery /\ (IsOpen' => IsOpen)
          /\ late' = [late EXCEPT ![c] = late[c]] /\ late[c] \in Nat /\ late[c] <= MaxRetries
      BY <1>a, <1>c, <1>d, <2>1
    <3>5. pc' = [pc EXCEPT ![c] = "acquire"]
      BY <3>1 DEF Go
    <3>6. IsOpen' => late[c] <= n - 1
      BY <2>2, <3>2, <3>4
    <3> HIDE DEF n
    <3> QED BY <3>2, <3>3, <3>4, <3>5, <3>6, CallerStepShed, Zenon
  <2>4. CASE ~ (attempt[c] < MaxRetries)
    <3>1. Go(c, "idle") /\ UNCHANGED attempt
      BY <1>8, <2>4 DEF Retry
    <3> QED BY <1>a, <1>c, <1>d, <2>1, <3>1, CallerStepShed DEF Go
  <2> QED BY <2>3, <2>4
<1>9. CASE Tick
  <2>1. UNCHANGED <<pc, attempt, late>> /\ opened' \in {Closed} \cup 0 .. Recovery
    BY <1>9 DEF Tick, Least, Closed, Shed
  <2>2. IsOpen' => IsOpen
    BY <1>9 DEF Tick, Least, Closed, IsOpen, Shed
  <2> QED BY <2>1, <2>2 DEF Shed, LoadIsShed, Sent
<1>10. CASE UNCHANGED vars
  BY <1>10 DEF vars, callVars, breakerVars, Shed, LoadIsShed, IsOpen, Sent
<1> QED BY <1>1, <1>2, <1>3, <1>4, <1>5, <1>6, <1>7, <1>8, <1>9, <1>10 DEF Next, Answer

\* For any number of callers: from one opening of the breaker to the next closing none
\* of them sends more than the attempts of a single request (base.py:279-289).
THEOREM OpenBreakerShedsLoad == Spec => []LoadIsShed
<1>1. Shed => LoadIsShed
  BY DEF Shed
<1> QED BY <1>1, InitShed, NextShed, PTL DEF Spec
=============================================================================
