--------------------------- MODULE JobQueueProofs ---------------------------
(***************************************************************************)
(* Theorems about JobQueue for any number of jobs, workers, reapers and    *)
(* attempts: type correctness, the attempt limit, the conservation of      *)
(* jobs, and the bound on how many messages of a job there are.            *)
(***************************************************************************)
EXTENDS JobQueue, FiniteSetTheorems, WellFoundedInduction, TLAPS

LEMMA TailOfSeq == ASSUME NEW S, NEW s \in Seq(S), s # << >>
                   PROVE  Head(s) \in S /\ Tail(s) \in Seq(S)
  OBVIOUS

LEMMA AppendOfSeq == ASSUME NEW S, NEW s \in Seq(S), NEW e \in S
                     PROVE  Append(s, e) \in Seq(S)
  OBVIOUS

LEMMA NextAttemptOfLive ==
  ASSUME NEW m \in Live
  PROVE  /\ NextAttempt(m) \in Message
         /\ NextAttempt(m).attempt < MaxAttempts => NextAttempt(m) \in Live
         /\ NextAttempt(m).job = m.job
  BY MaxAttemptsAssumption DEF Live, Message, NextAttempt

LEMMA OlderAge == ASSUME NEW a \in Age \cup {None}
                  PROVE  Older(a) \in Age \cup {None} /\ (a = None <=> Older(a) = None)
  BY MaxAgeAssumption DEF Older, Age, None

-----------------------------------------------------------------------------
(* Type correctness.  TypeOK alone is not inductive: that raising the      *)
(* attempt counter yields a message needs OnlyLiveHandled.                 *)

\* Where a client is between two commands of a method and has a message.
Holding == {"stamp", "working", "completed", "failed", "rejected", "requeue",
            "bury", "reaped", "repush"}

\* Whoever is about to raise an attempt counter holds a message with an attempt
\* left, and no list hands out an exhausted one.
OnlyLiveHandled ==
    /\ \A c \in Clients : pc[c] \in Holding => holds[c] \in Live
    /\ \A m \in Message \ Live :
         /\ processing[m] = 0
         /\ \A r \in Reapers : seen[r][m] = 0 /\ todo[r][m] = 0

Typed == TypeOK /\ OnlyLiveHandled

LEMMA InitTyped == Init => Typed
  BY MaxAttemptsAssumption, MaxAgeAssumption, NoMsgAssumption
  DEF Init, Typed, TypeOK, OnlyLiveHandled, Holding, Live, Age, None

LEMMA PushTyped ==
  ASSUME Typed, NEW c \in Clients, NEW requeue \in BOOLEAN,
         pc[c] \in Holding, Push(c, requeue)
  PROVE  pending' \in Seq(Live) /\ dead' \subseteq Message
<1> DEFINE m == NextAttempt(holds[c])
<1>1. holds[c] \in Live
  BY DEF Typed, OnlyLiveHandled
<1>2. m \in Message /\ (m.attempt < MaxAttempts => m \in Live)
  BY <1>1, NextAttemptOfLive
<1>3. pending \in Seq(Live) /\ dead \subseteq Message
  BY DEF Typed, TypeOK
<1>4. CASE requeue /\ m.attempt < MaxAttempts
  BY <1>2, <1>3, <1>4, AppendOfSeq DEF Push
<1>5. CASE ~ (requeue /\ m.attempt < MaxAttempts)
  BY <1>2, <1>3, <1>5 DEF Push
<1> QED BY <1>4, <1>5

LEMMA LRemTyped ==
  ASSUME Typed, NEW m \in Message, LRem(m)
  PROVE  /\ processing' \in [Message -> Nat]
         /\ \A n \in Message \ Live : processing'[n] = 0
<1>1. processing \in [Message -> Nat] /\ \A n \in Message \ Live : processing[n] = 0
  BY DEF Typed, TypeOK, OnlyLiveHandled
<1>2. processing' = [processing EXCEPT ![m] = IF @ > 0 THEN @ - 1 ELSE 0]
  BY DEF LRem
<1> QED BY <1>1, <1>2

LEMMA HoldsLive ==
  ASSUME Typed, NEW c \in Clients, pc[c] \in Holding
  PROVE  holds[c] \in Live /\ holds[c] \in Message /\ holds[c].job \in Jobs
  BY DEF Typed, OnlyLiveHandled, Live, Message

LEMMA StepTyped == Typed /\ [Next]_vars => Typed'
<1> SUFFICES ASSUME Typed, [Next]_vars PROVE Typed'
  OBVIOUS
<1> USE DEF Typed
<1>1. CASE UNCHANGED vars
  BY <1>1 DEF TypeOK, OnlyLiveHandled, vars
<1>2. ASSUME NEW j \in Jobs, Enqueue(j) PROVE Typed'
  BY <1>2, MaxAttemptsAssumption, MaxAgeAssumption
  DEF TypeOK, OnlyLiveHandled, Enqueue, historyVars, Live, Message, Age
<1>3. ASSUME NEW w \in Workers, Move(w) PROVE Typed'
  BY <1>3, MaxAgeAssumption
  DEF TypeOK, OnlyLiveHandled, Holding, Move, Take, Go, Live, Clients, Age
<1>4. ASSUME NEW w \in Workers, Stamp(w) PROVE Typed'
  <2>1. holds[w].job \in Jobs /\ 0 \in Age
    BY <1>4, HoldsLive, MaxAgeAssumption DEF Stamp, Holding, Clients, Age
  <2>2. times' \in [Jobs -> Age \cup {None}]
    BY <1>4, <2>1 DEF Stamp, TypeOK
  <2> QED
    BY <1>4, <2>2 DEF TypeOK, OnlyLiveHandled, Holding, Stamp, Go, Clients, historyVars
<1>5. ASSUME NEW w \in Workers, Complete(w) PROVE Typed'
  <2>1. holds[w] \in Message /\ holds[w].job \in Jobs
    BY <1>5, HoldsLive DEF Complete, Holding, Clients
  <2>2. /\ processing' \in [Message -> Nat]
        /\ \A n \in Message \ Live : processing'[n] = 0
    BY <1>5, <2>1, LRemTyped DEF Complete
  <2> QED
    BY <1>5, <2>1, <2>2 DEF TypeOK, OnlyLiveHandled, Holding, Complete, Go, Clients
<1>6. ASSUME NEW w \in Workers, Forget(w) PROVE Typed'
  BY <1>6 DEF TypeOK, OnlyLiveHandled, Holding, Forget, historyVars, HDel, Release, Take, Go, Clients
<1>7. ASSUME NEW w \in Workers, NEW requeue \in BOOLEAN, Fail(w, requeue) PROVE Typed'
  <2>1. holds[w] \in Message
    BY <1>7, HoldsLive DEF Fail, Holding, Clients
  <2>2. /\ processing' \in [Message -> Nat]
        /\ \A n \in Message \ Live : processing'[n] = 0
    BY <1>7, <2>1, LRemTyped DEF Fail
  <2> QED
    BY <1>7, <2>1, <2>2 DEF TypeOK, OnlyLiveHandled, Holding, Fail, Go, Clients, historyVars
<1>8. ASSUME NEW w \in Workers, FailForget(w) PROVE Typed'
  BY <1>8 DEF TypeOK, OnlyLiveHandled, Holding, FailForget, HDel, Go, Clients, historyVars
<1>9. ASSUME NEW w \in Workers, FailPush(w) PROVE Typed'
  <2>1. pending' \in Seq(Live) /\ dead' \subseteq Message
    BY <1>9, PushTyped DEF FailPush, Holding, Clients
  <2> QED
    BY <1>9, <2>1 DEF TypeOK, OnlyLiveHandled, Holding, FailPush, historyVars, Release, Take, Go, Clients
<1>10. ASSUME NEW r \in Reapers, Snapshot(r) PROVE Typed'
  BY <1>10 DEF TypeOK, OnlyLiveHandled, Holding, Snapshot, Go, Clients, historyVars, queueVars
<1>11. ASSUME NEW r \in Reapers, Judge(r) PROVE Typed'
  BY <1>11 DEF TypeOK, OnlyLiveHandled, Holding, Judge, Go, Clients, historyVars, queueVars
<1>12. ASSUME NEW r \in Reapers, NEW m \in Message, Reap(r, m) PROVE Typed'
  BY <1>12 DEF TypeOK, OnlyLiveHandled, Holding, Reap, LRem, Take, Go, Clients, historyVars
<1>13. ASSUME NEW r \in Reapers, ReapForget(r) PROVE Typed'
  BY <1>13 DEF TypeOK, OnlyLiveHandled, Holding, ReapForget, HDel, Go, Clients, historyVars
<1>14. ASSUME NEW r \in Reapers, ReapPush(r) PROVE Typed'
  <2>1. pending' \in Seq(Live) /\ dead' \subseteq Message
    BY <1>14, PushTyped DEF ReapPush, Holding, Clients
  <2> QED
    BY <1>14, <2>1 DEF TypeOK, OnlyLiveHandled, Holding, ReapPush, Take, Go, Clients, historyVars
<1>15. ASSUME NEW r \in Reapers, ReapEnd(r) PROVE Typed'
  BY <1>15 DEF TypeOK, OnlyLiveHandled, Holding, ReapEnd, Go, Clients, historyVars, queueVars
<1>16. ASSUME NEW w \in Workers, CrashWorker(w) PROVE Typed'
  BY <1>16 DEF TypeOK, OnlyLiveHandled, Holding, CrashWorker, Drop, InHand, Release, Take, Go, Clients,
             queueVars
<1>17. ASSUME NEW r \in Reapers, CrashReaper(r) PROVE Typed'
  BY <1>17 DEF TypeOK, OnlyLiveHandled, Holding, CrashReaper, Drop, InHand, Take, Go, Clients, queueVars
<1>18. ASSUME NEW r \in Reapers, ReapError(r) PROVE Typed'
  BY <1>18 DEF TypeOK, OnlyLiveHandled, Holding, ReapError, Drop, InHand, Take, Go, Clients, queueVars
<1>19. CASE Tick
  BY <1>19, OlderAge DEF TypeOK, OnlyLiveHandled, Tick, historyVars
<1> QED
  BY <1>1, <1>2, <1>3, <1>4, <1>5, <1>6, <1>7, <1>8, <1>9, <1>10, <1>11, <1>12, <1>13,
     <1>14, <1>15, <1>16, <1>17, <1>18, <1>19
  DEF Next, WorkerStep, ReaperStep

\* Every state of every behaviour is type correct.
THEOREM TypeCorrect == Spec => []TypeOK
<1>1. Init => Typed
  BY InitTyped
<1>2. Typed /\ [Next]_vars => Typed'
  BY StepTyped
<1> QED BY <1>1, <1>2, PTL DEF Spec, Typed

-----------------------------------------------------------------------------
(* The attempt limit.  A message carries the history of its job: wherever  *)
(* it is, the attempts below its own were given to workers; and where only *)
(* BLMOVE can have brought it, in the processing list, in the snapshot of  *)
(* a reaper or in a client's hands, it was given to one itself.            *)

Before(m) == {[job |-> m.job, attempt |-> i] : i \in 0 .. m.attempt - 1}
Given(m) == Before(m) \subseteq delivered /\ m \in delivered

Reached(m) == \/ processing[m] > 0
              \/ \E r \in Reapers : seen[r][m] > 0 \/ todo[r][m] > 0

Counted ==
    /\ delivered \subseteq Live
    /\ \A i \in DOMAIN pending : Before(pending[i]) \subseteq delivered
    /\ \A m \in Message : Reached(m) => Given(m)
    /\ \A c \in Clients : pc[c] \in Holding => Given(holds[c])
    /\ \A m \in dead : Before(m) \subseteq delivered

LEMMA NextAttemptIsCounted ==
  ASSUME NEW m \in Live, Given(m)
  PROVE  Before(NextAttempt(m)) \subseteq delivered
<1>1. SUFFICES ASSUME NEW i \in 0 .. m.attempt
               PROVE  [job |-> m.job, attempt |-> i] \in delivered
  <2>1. NextAttempt(m).job = m.job /\ NextAttempt(m).attempt = m.attempt + 1
    BY DEF NextAttempt
  <2>2. m.attempt \in Nat /\ 0 .. m.attempt + 1 - 1 = 0 .. m.attempt
    BY DEF Live, Message
  <2> QED BY <2>1, <2>2 DEF Before
<1>2. m = [job |-> m.job, attempt |-> m.attempt] /\ m.attempt \in Nat
  BY DEF Live, Message
<1>3. CASE i = m.attempt
  BY <1>2, <1>3 DEF Given
<1>4. CASE i # m.attempt
  <2>1. i \in 0 .. m.attempt - 1
    BY <1>2, <1>4
  <2> QED BY <2>1 DEF Given, Before
<1> QED BY <1>3, <1>4

LEMMA InitCounted == Init => Counted
  BY DEF Init, Counted, Reached, Holding

\* The LPUSH that ends fail() and a round of reap_stale().
LEMMA PushCounted ==
  ASSUME Typed, Counted, NEW c \in Clients, NEW requeue \in BOOLEAN,
         pc[c] \in Holding, Push(c, requeue)
  PROVE  /\ \A i \in DOMAIN pending' : Before(pending'[i]) \subseteq delivered
         /\ \A m \in dead' : Before(m) \subseteq delivered
<1> DEFINE n == NextAttempt(holds[c])
<1>1. holds[c] \in Live /\ Before(n) \subseteq delivered
  BY HoldsLive, NextAttemptIsCounted DEF Counted
<1>2. /\ \A i \in DOMAIN pending : Before(pending[i]) \subseteq delivered
      /\ \A m \in dead : Before(m) \subseteq delivered
      /\ pending \in Seq(Live)
  BY DEF Counted, Typed, TypeOK
<1> HIDE DEF n
<1>3. CASE pending' = Append(pending, n) /\ dead' = dead
  <2>1. /\ DOMAIN pending' = 1 .. Len(pending) + 1 /\ DOMAIN pending = 1 .. Len(pending)
        /\ Len(pending) \in Nat
        /\ \A i \in 1 .. Len(pending) : pending'[i] = pending[i]
        /\ pending'[Len(pending) + 1] = n
    BY <1>2, <1>3
  <2> QED BY <1>1, <1>2, <1>3, <2>1
<1>4. CASE pending' = pending /\ dead' = dead \cup {n}
  BY <1>1, <1>2, <1>4
<1> QED BY <1>3, <1>4 DEF Push, n

\* LREM, LRANGE and the choice of what is stale bring no message where it was not.
LEMMA LRemReaches ==
  ASSUME Typed, NEW m \in Message, LRem(m), NEW n \in Message
  PROVE  processing'[n] > 0 => processing[n] > 0
<1>1. processing[n] \in Nat /\ processing[m] \in Nat
  BY DEF Typed, TypeOK
<1>2. processing'[n] = IF n = m THEN (IF processing[m] > 0 THEN processing[m] - 1 ELSE 0)
                                ELSE processing[n]
  BY DEF LRem, Typed, TypeOK
<1> QED BY <1>1, <1>2

LEMMA MoveCounted ==
  ASSUME Typed, Counted, NEW w \in Workers, Move(w)
  PROVE  Counted'
<1>1. PICK m \in Live : m = Head(pending) /\ m = pending[1] /\ m \in Message
  BY TailOfSeq DEF Move, Typed, TypeOK, Live
<1>2. /\ delivered' = delivered \cup {m} /\ dead' = dead
      /\ processing' = [processing EXCEPT ![m] = @ + 1]
      /\ pending' = Tail(pending) /\ pending # << >> /\ pending \in Seq(Live)
      /\ UNCHANGED <<seen, todo>>
      /\ holds' = [holds EXCEPT ![w] = m] /\ pc' = [pc EXCEPT ![w] = "stamp"]
  BY <1>1 DEF Move, Take, Go, Typed, TypeOK
<1>3. 1 \in DOMAIN pending /\ Before(m) \subseteq delivered
  BY <1>1, <1>2 DEF Counted
<1>4. \A n : Given(n) => Given(n)'
  BY <1>2 DEF Given, Before
<1>5. Given(m)'
  BY <1>2, <1>3 DEF Given, Before
<1>6. delivered' \subseteq Live
  BY <1>2 DEF Counted
<1>7. ASSUME NEW i \in DOMAIN pending' PROVE Before(pending'[i]) \subseteq delivered'
  <2>1. i + 1 \in DOMAIN pending /\ pending'[i] = pending[i + 1]
    BY <1>2
  <2> QED BY <1>2, <2>1 DEF Counted
<1>8. ASSUME NEW n \in Message, Reached(n)' PROVE Given(n)'
  <2>1. CASE n = m
    BY <1>5, <2>1
  <2>2. CASE n # m
    <3>1. processing'[n] = processing[n]
      BY <1>1, <1>2, <2>2 DEF Typed, TypeOK
    <3>2. Reached(n)
      BY <1>2, <1>8, <3>1 DEF Reached
    <3> QED BY <1>4, <3>2 DEF Counted
  <2> QED BY <2>1, <2>2
<1>9. ASSUME NEW c \in Clients, pc'[c] \in Holding PROVE Given(holds[c])'
  <2>1. CASE c = w
    <3>1. holds'[c] = m
      BY <1>2, <2>1 DEF Typed, TypeOK
    <3> QED BY <1>5, <3>1 DEF Given, Before
  <2>2. CASE c # w
    <3>1. pc'[c] = pc[c] /\ holds'[c] = holds[c]
      BY <1>2, <2>2 DEF Typed, TypeOK
    <3>2. Given(holds[c])
      BY <1>9, <3>1 DEF Counted
    <3> QED BY <1>2, <3>1, <3>2 DEF Given, Before
  <2> QED BY <2>1, <2>2
<1>10. \A n \in dead' : Before(n) \subseteq delivered'
  BY <1>2 DEF Counted
<1> QED BY <1>6, <1>7, <1>8, <1>9, <1>10 DEF Counted, Before

\* A step that gives no worker a message and pushes none keeps Counted, if the messages it
\* leaves in the processing list, in snapshots and in hands are among those that were there.
LEMMA OthersCounted ==
  ASSUME Counted, UNCHANGED <<delivered, pending, dead>>,
         \A n \in Message : Reached(n)' => Reached(n),
         \A c \in Clients : pc'[c] \in Holding => Given(holds'[c])
  PROVE  Counted'
<1>1. \A n : Given(n)' <=> Given(n)
  BY DEF Given, Before
<1>2. \A c \in Clients : pc'[c] \in Holding => Given(holds[c])'
  BY DEF Given, Before
<1> QED BY <1>1, <1>2 DEF Counted, Before

LEMMA StepCounted ==
  ASSUME Typed, Counted, [Next]_vars
  PROVE  Counted'
<1>1. \A c \in Clients : pc[c] \in Holding => Given(holds[c])
  BY DEF Counted
<1>2. CASE UNCHANGED vars
  BY <1>1, <1>2, OthersCounted DEF vars, Reached
<1>3. ASSUME NEW j \in Jobs, Enqueue(j) PROVE Counted'
  <2> DEFINE first == [job |-> j, attempt |-> 0]
  <2>1. Before(first) = {} /\ first \in Live
    BY MaxAttemptsAssumption DEF Before, Live, Message
  <2> HIDE DEF first
  <2>2. pending' = Append(pending, first) /\ pending \in Seq(Live)
    BY <1>3 DEF Enqueue, Typed, TypeOK, first
  <2>3. \A i \in DOMAIN pending' : \/ i \in DOMAIN pending /\ pending'[i] = pending[i]
                                  \/ pending'[i] = first
    BY <2>1, <2>2
  <2>4. \A i \in DOMAIN pending' : Before(pending'[i]) \subseteq delivered
    BY <2>1, <2>3 DEF Counted
  <2>5. UNCHANGED <<processing, dead, pc, holds, seen, todo, delivered>>
    BY <1>3 DEF Enqueue, historyVars
  <2>6. \A n \in Message : Reached(n)' <=> Reached(n)
    BY <2>5 DEF Reached
  <2>7. \A n : Given(n)' <=> Given(n)
    BY <2>5 DEF Given, Before
  <2> QED BY <2>4, <2>5, <2>6, <2>7 DEF Counted, Given, Before
<1>4. ASSUME NEW w \in Workers, Move(w) PROVE Counted'
  BY <1>4, MoveCounted
<1>5. ASSUME NEW w \in Workers, Stamp(w) PROVE Counted'
  BY <1>1, <1>5, OthersCounted DEF Stamp, Go, historyVars, Reached, Holding, Typed, TypeOK, Clients
<1>6. ASSUME NEW w \in Workers, Complete(w) PROVE Counted'
  <2>1. \A n \in Message : processing'[n] > 0 => processing[n] > 0
    BY <1>6, HoldsLive, LRemReaches DEF Complete, Holding, Clients
  <2> QED
    BY <1>1, <1>6, <2>1, OthersCounted DEF Complete, Go, Reached, Holding, Typed, TypeOK, Clients
<1>7. ASSUME NEW w \in Workers, Forget(w) PROVE Counted'
  BY <1>1, <1>7, OthersCounted
  DEF Forget, Release, Go, Take, historyVars, Reached, Holding, Typed, TypeOK, Clients
<1>8. ASSUME NEW w \in Workers, NEW requeue \in BOOLEAN, Fail(w, requeue) PROVE Counted'
  <2>1. \A n \in Message : processing'[n] > 0 => processing[n] > 0
    BY <1>8, HoldsLive, LRemReaches DEF Fail, Holding, Clients
  <2> QED
    BY <1>1, <1>8, <2>1, OthersCounted DEF Fail, Go, historyVars, Reached, Holding, Typed, TypeOK, Clients
<1>9. ASSUME NEW w \in Workers, FailForget(w) PROVE Counted'
  BY <1>1, <1>9, OthersCounted
  DEF FailForget, Go, historyVars, Reached, Holding, Typed, TypeOK, Clients
<1>10. ASSUME NEW c \in Clients, NEW requeue \in BOOLEAN, pc[c] \in Holding, Push(c, requeue),
              \A d \in Clients : pc'[d] \in Holding => d # c,
              pc' = [pc EXCEPT ![c] = pc'[c]], holds' = [holds EXCEPT ![c] = holds'[c]],
              UNCHANGED <<processing, seen, todo, delivered>>
       PROVE  Counted'
  <2>1. /\ \A i \in DOMAIN pending' : Before(pending'[i]) \subseteq delivered
        /\ \A m \in dead' : Before(m) \subseteq delivered
    BY <1>10, PushCounted
  <2>2. \A d \in Clients : pc'[d] \in Holding => pc[d] \in Holding /\ holds'[d] = holds[d]
    BY <1>10 DEF Typed, TypeOK
  <2>3. \A n \in Message : Reached(n)' <=> Reached(n)
    BY <1>10 DEF Reached
  <2>4. \A n : Given(n)' <=> Given(n)
    BY <1>10 DEF Given, Before
  <2>5. \A d \in Clients : pc'[d] \in Holding => Given(holds'[d])
    BY <1>1, <2>2
  <2> QED BY <1>10, <2>1, <2>3, <2>4, <2>5 DEF Counted, Given, Before
<1>11. ASSUME NEW w \in Workers, FailPush(w) PROVE Counted'
  <2>1. w \in Clients /\ pc[w] \in Holding /\ (pc[w] = "requeue") \in BOOLEAN /\ Push(w, pc[w] = "requeue")
    BY <1>11 DEF FailPush, Holding, Clients
  <2>2. pc' = [pc EXCEPT ![w] = "idle"] /\ holds' = [holds EXCEPT ![w] = NoMsg]
    BY <1>11 DEF FailPush, Release, Go, Take
  <2>3. /\ pc' = [pc EXCEPT ![w] = pc'[w]] /\ holds' = [holds EXCEPT ![w] = holds'[w]]
        /\ pc'[w] \notin Holding
    BY <2>1, <2>2 DEF Holding, Typed, TypeOK
  <2>4. UNCHANGED <<processing, seen, todo, delivered>>
    BY <1>11 DEF FailPush, historyVars
  <2> QED BY <1>10, <2>1, <2>3, <2>4
<1>12. ASSUME NEW r \in Reapers, Snapshot(r) PROVE Counted'
  <2>1. \A n \in Message : Reached(n)' => Reached(n)
    BY <1>12 DEF Snapshot, queueVars, Reached, Typed, TypeOK
  <2> QED
    BY <1>1, <1>12, <2>1, OthersCounted
    DEF Snapshot, Go, queueVars, historyVars, Holding, Typed, TypeOK, Clients
<1>13. ASSUME NEW r \in Reapers, Judge(r) PROVE Counted'
  <2>1. \A n \in Message : Reached(n)' => Reached(n)
    BY <1>13 DEF Judge, queueVars, Reached, Typed, TypeOK
  <2> QED
    BY <1>1, <1>13, <2>1, OthersCounted
    DEF Judge, Go, queueVars, historyVars, Holding, Typed, TypeOK, Clients
<1>14. ASSUME NEW r \in Reapers, NEW m \in Message, Reap(r, m) PROVE Counted'
  <2>1. \A n \in Message : processing'[n] > 0 => processing[n] > 0
    BY <1>14, LRemReaches DEF Reap
  <2>2. \A n \in Message : Reached(n)' => Reached(n)
    <3>1. /\ seen' = seen /\ todo \in [Reapers -> [Message -> Nat]]
          /\ todo' = [todo EXCEPT ![r][m] = @ - 1]
      BY <1>14 DEF Reap, Typed, TypeOK
    <3>2. \A q \in Reapers, n \in Message : todo'[q][n] > 0 => todo[q][n] > 0
      BY <3>1
    <3> QED BY <2>1, <3>1, <3>2 DEF Reached
  <2>3. Given(m)
    BY <1>14 DEF Counted, Reached, Reap
  <2>4. \A c \in Clients : pc'[c] \in Holding => Given(holds'[c])
    BY <1>1, <1>14, <2>3 DEF Reap, Go, Take, Typed, TypeOK, Clients
  <2> QED BY <1>14, <2>2, <2>4, OthersCounted DEF Reap, historyVars
<1>15. ASSUME NEW r \in Reapers, ReapForget(r) PROVE Counted'
  BY <1>1, <1>15, OthersCounted
  DEF ReapForget, Go, historyVars, Reached, Holding, Typed, TypeOK, Clients
<1>16. ASSUME NEW r \in Reapers, ReapPush(r) PROVE Counted'
  <2>1. r \in Clients /\ pc[r] \in Holding /\ TRUE \in BOOLEAN /\ Push(r, TRUE)
    BY <1>16 DEF ReapPush, Holding, Clients
  <2>2. pc' = [pc EXCEPT ![r] = "scan"] /\ holds' = [holds EXCEPT ![r] = NoMsg]
    BY <1>16 DEF ReapPush, Go, Take
  <2>3. /\ pc' = [pc EXCEPT ![r] = pc'[r]] /\ holds' = [holds EXCEPT ![r] = holds'[r]]
        /\ pc'[r] \notin Holding
    BY <2>1, <2>2 DEF Holding, Typed, TypeOK
  <2>4. UNCHANGED <<processing, seen, todo, delivered>>
    BY <1>16 DEF ReapPush, historyVars
  <2> QED BY <1>10, <2>1, <2>3, <2>4
<1>17. ASSUME NEW r \in Reapers, ReapEnd(r) PROVE Counted'
  BY <1>1, <1>17, OthersCounted
  DEF ReapEnd, Go, queueVars, historyVars, Reached, Holding, Typed, TypeOK, Clients
<1>18. ASSUME NEW w \in Workers, CrashWorker(w) PROVE Counted'
  BY <1>1, <1>18, OthersCounted
  DEF CrashWorker, Release, Go, Take, queueVars, Reached, Holding, Typed, TypeOK, Clients
<1>19. ASSUME NEW r \in Reapers, CrashReaper(r) PROVE Counted'
  <2>1. \A n \in Message : Reached(n)' => Reached(n)
    BY <1>19 DEF CrashReaper, queueVars, Reached, Typed, TypeOK
  <2> QED
    BY <1>1, <1>19, <2>1, OthersCounted
    DEF CrashReaper, Go, Take, queueVars, Holding, Typed, TypeOK, Clients
<1>20. ASSUME NEW r \in Reapers, ReapError(r) PROVE Counted'
  BY <1>1, <1>20, OthersCounted
  DEF ReapError, Go, Take, queueVars, Reached, Holding, Typed, TypeOK, Clients
<1>21. CASE Tick
  BY <1>1, <1>21, OthersCounted DEF Tick, historyVars, Reached
<1> QED
  BY <1>2, <1>3, <1>4, <1>5, <1>6, <1>7, <1>8, <1>9, <1>11, <1>12, <1>13, <1>14, <1>15, <1>16,
     <1>17, <1>18, <1>19, <1>20, <1>21
  DEF Next, WorkerStep, ReaperStep

\* Whatever the number of jobs, workers, reapers and attempts, and wherever any of them dies: no
\* worker is given a job beyond its attempts, and a job is given up only after every attempt that
\* fail() and reap_stale() counted was given to a worker.
THEOREM AttemptsAreCounted == Spec => []AttemptsAreMade
<1>1. Init => Typed /\ Counted
  BY InitTyped, InitCounted
<1>2. Typed /\ Counted /\ [Next]_vars => Typed' /\ Counted'
  BY StepTyped, StepCounted
<1>3. Counted => AttemptsAreMade
  BY DEF Counted, AttemptsAreMade, Before
<1> QED BY <1>1, <1>2, <1>3, PTL DEF Spec

-----------------------------------------------------------------------------
(* Conservation of jobs.  Every command that takes a message out of a list *)
(* either acknowledges its job or leaves the message in the hands of the   *)
(* client that ran it, and a client lets go of a message only by pushing   *)
(* it or by failing.                                                       *)

Found(j) ==
    \/ j \in acked
    \/ Queued(j) \/ InProcessing(j) \/ Buried(j) \/ Carried(j)
    \/ Dropped(j)

LEMMA AppendKeepsQueued ==
  ASSUME NEW m \in Live, pending \in Seq(Live), pending' = Append(pending, m), NEW j
  PROVE  (Queued(j) \/ j = m.job) => Queued(j)'
<1>1. /\ Len(pending) \in Nat
      /\ DOMAIN pending = 1 .. Len(pending)
      /\ DOMAIN pending' = 1 .. Len(pending) + 1
  OBVIOUS
<1>2. \A i \in 1 .. Len(pending) : pending'[i] = pending[i]
  OBVIOUS
<1>3. pending'[Len(pending) + 1] = m
  OBVIOUS
<1> QED BY <1>1, <1>2, <1>3 DEF Queued

LEMMA TailKeepsQueued ==
  ASSUME pending \in Seq(Live), pending # << >>, pending' = Tail(pending),
         NEW j, Queued(j)
  PROVE  Queued(j)' \/ j = Head(pending).job
<1>1. PICK i \in DOMAIN pending : pending[i].job = j
  BY DEF Queued
<1>2. /\ Len(pending) \in Nat \ {0}
      /\ DOMAIN pending = 1 .. Len(pending)
      /\ DOMAIN pending' = 1 .. Len(pending) - 1
      /\ \A k \in 1 .. Len(pending) - 1 : pending'[k] = pending[k + 1]
  OBVIOUS
<1>3. CASE i = 1
  BY <1>1, <1>3
<1>4. CASE i # 1
  <2>1. i - 1 \in DOMAIN pending' /\ pending'[i - 1] = pending[i]
    BY <1>1, <1>2, <1>4
  <2> QED BY <1>1, <2>1 DEF Queued
<1> QED BY <1>3, <1>4

\* LREM can only take the job of its own message out of the processing list.
LEMMA LRemKeepsOthers ==
  ASSUME Typed, NEW m \in Message, LRem(m), NEW j, j # m.job, InProcessing(j)
  PROVE  InProcessing(j)'
<1>1. PICK n \in Message : n.job = j /\ processing[n] > 0
  BY DEF InProcessing
<1>2. processing'[n] = processing[n]
  BY <1>1 DEF LRem, Typed, TypeOK
<1> QED BY <1>1, <1>2 DEF InProcessing

\* The LPUSH that ends fail() and a round of reap_stale() settles the message.
LEMMA PushKeeps ==
  ASSUME Typed, NEW c \in Clients, NEW requeue \in BOOLEAN,
         pc[c] \in Holding, Push(c, requeue), NEW j
  PROVE  /\ Queued(j) => Queued(j)'
         /\ Buried(j) => Buried(j)'
         /\ j = holds[c].job => Queued(j)' \/ Buried(j)'
<1> DEFINE m == NextAttempt(holds[c])
<1>1. holds[c] \in Live /\ pending \in Seq(Live)
  BY HoldsLive DEF Typed, TypeOK
<1>2. m.job = holds[c].job /\ (m.attempt < MaxAttempts => m \in Live)
  BY <1>1, NextAttemptOfLive
<1>3. CASE requeue /\ m.attempt < MaxAttempts
  <2>1. pending' = Append(pending, m) /\ dead' = dead
    BY <1>3 DEF Push
  <2>2. (Queued(j) \/ j = m.job) => Queued(j)'
    BY <1>1, <1>2, <1>3, <2>1, AppendKeepsQueued
  <2> QED BY <1>2, <2>1, <2>2 DEF Buried
<1>4. CASE ~ (requeue /\ m.attempt < MaxAttempts)
  <2>1. pending' = pending /\ dead' = dead \cup {m}
    BY <1>4 DEF Push
  <2> QED BY <1>2, <2>1 DEF Buried, Queued
<1> QED BY <1>3, <1>4

LEMMA StepConserves ==
  ASSUME Typed, [Next]_vars, NEW j \in Jobs, Found(j)
  PROVE  Found(j)'
<1> USE DEF Found
<1>1. CASE UNCHANGED vars
  BY <1>1 DEF vars, Queued, InProcessing, Buried, Carried, Dropped, InHand
<1>2. ASSUME NEW k \in Jobs, Enqueue(k) PROVE Found(j)'
  <2>1. [job |-> k, attempt |-> 0] \in Live
    BY MaxAttemptsAssumption DEF Live, Message
  <2>2. Queued(j) => Queued(j)'
    BY <1>2, <2>1, AppendKeepsQueued DEF Enqueue, Typed, TypeOK
  <2>3. /\ InProcessing(j) => InProcessing(j)'
        /\ Buried(j) => Buried(j)'
        /\ Dropped(j) => Dropped(j)'
        /\ j \in acked => j \in acked'
    BY <1>2 DEF Enqueue, historyVars, InProcessing, Buried, Dropped
  <2>4. Carried(j) => Carried(j)'
    BY <1>2 DEF Enqueue, Carried, InHand
  <2> QED
    BY <2>2, <2>3, <2>4
<1>3. ASSUME NEW w \in Workers, Move(w) PROVE Found(j)'
  <2>0. PICK m \in Message : m = Head(pending)
    BY <1>3, TailOfSeq DEF Move, Typed, TypeOK, Live
  <2>1. processing \in [Message -> Nat]
    BY DEF Typed, TypeOK
  <2>2. /\ processing'[m] = processing[m] + 1
        /\ \A n \in Message : n # m => processing'[n] = processing[n]
    BY <1>3, <2>0, <2>1 DEF Move
  <2>3. InProcessing(m.job)'
    <3>1. processing[m] \in Nat /\ processing'[m] > 0
      BY <2>1, <2>2
    <3> QED BY <2>1, <3>1 DEF InProcessing
  <2>6. InProcessing(j) => InProcessing(j)'
    <3>1. \A n \in Message : processing[n] \in Nat
      BY <2>1
    <3>2. \A n \in Message : processing[n] > 0 => processing'[n] > 0
      BY <2>2, <3>1
    <3> QED BY <3>2 DEF InProcessing
  <2>4. Queued(j) => Queued(j)' \/ j = m.job
    BY <1>3, <2>0, TailKeepsQueued DEF Move, Typed, TypeOK
  <2>5. Carried(j) => Carried(j)'
    BY <1>3 DEF Move, Carried, InHand, Go, Take, Typed, TypeOK, Clients
  <2> QED
    BY <1>3, <2>3, <2>4, <2>5, <2>6 DEF Move, Buried, Dropped
<1>4. ASSUME NEW w \in Workers, Stamp(w) PROVE Found(j)'
  BY <1>4 DEF Stamp, historyVars, Go, Typed, TypeOK, Clients,
              Queued, InProcessing, Buried, Carried, Dropped, InHand
<1>5. ASSUME NEW w \in Workers, Complete(w) PROVE Found(j)'
  <2>1. holds[w] \in Message
    BY <1>5, HoldsLive DEF Complete, Holding, Clients
  <2>2. InProcessing(j) => InProcessing(j)' \/ j = holds[w].job
    BY <1>5, <2>1, LRemKeepsOthers DEF Complete
  <2>3. Carried(j) => Carried(j)'
    BY <1>5 DEF Complete, Carried, InHand, Go, Typed, TypeOK, Clients
  <2> QED
    BY <1>5, <2>2, <2>3 DEF Complete, Queued, Buried, Dropped
<1>6. ASSUME NEW w \in Workers, Forget(w) PROVE Found(j)'
  BY <1>6 DEF Forget, historyVars, Release, Take, Go, Typed, TypeOK, Clients,
              Queued, InProcessing, Buried, Carried, Dropped, InHand
<1>7. ASSUME NEW w \in Workers, NEW requeue \in BOOLEAN, Fail(w, requeue) PROVE Found(j)'
  <2>1. holds[w] \in Message
    BY <1>7, HoldsLive DEF Fail, Holding, Clients
  <2>2. InProcessing(j) => InProcessing(j)' \/ j = holds[w].job
    BY <1>7, <2>1, LRemKeepsOthers DEF Fail
  <2>3. (Carried(j) \/ j = holds[w].job) => Carried(j)'
    BY <1>7 DEF Fail, Carried, InHand, Go, Typed, TypeOK, Clients
  <2> QED
    BY <1>7, <2>2, <2>3 DEF Fail, historyVars, Queued, Buried, Dropped
<1>8. ASSUME NEW w \in Workers, FailForget(w) PROVE Found(j)'
  <2>1. Carried(j) => Carried(j)'
    BY <1>8 DEF FailForget, Carried, InHand, Go, Typed, TypeOK, Clients
  <2> QED
    BY <1>8, <2>1 DEF FailForget, historyVars, Queued, InProcessing, Buried, Dropped
<1>9. ASSUME NEW w \in Workers, FailPush(w) PROVE Found(j)'
  <2>1. /\ Queued(j) => Queued(j)'
        /\ Buried(j) => Buried(j)'
        /\ j = holds[w].job => Queued(j)' \/ Buried(j)'
    BY <1>9, PushKeeps DEF FailPush, Holding, Clients
  <2>2. Carried(j) => Carried(j)' \/ j = holds[w].job
    BY <1>9 DEF FailPush, Release, Take, Go, Carried, InHand, Typed, TypeOK, Clients
  <2> QED
    BY <1>9, <2>1, <2>2 DEF FailPush, historyVars, InProcessing, Dropped
<1>10. ASSUME NEW r \in Reapers, Snapshot(r) PROVE Found(j)'
  BY <1>10 DEF Snapshot, historyVars, queueVars, Go, Typed, TypeOK, Clients,
               Queued, InProcessing, Buried, Carried, Dropped, InHand
<1>11. ASSUME NEW r \in Reapers, Judge(r) PROVE Found(j)'
  BY <1>11 DEF Judge, historyVars, queueVars, Go, Typed, TypeOK, Clients,
               Queued, InProcessing, Buried, Carried, Dropped, InHand
<1>12. ASSUME NEW r \in Reapers, NEW m \in Message, Reap(r, m) PROVE Found(j)'
  <2>1. InProcessing(j) => InProcessing(j)' \/ j = m.job
    BY <1>12, LRemKeepsOthers DEF Reap
  <2>2. (Carried(j) \/ j = m.job) => Carried(j)'
    BY <1>12 DEF Reap, Take, Go, Carried, InHand, Typed, TypeOK, Clients
  <2> QED
    BY <1>12, <2>1, <2>2 DEF Reap, historyVars, Queued, Buried, Dropped
<1>13. ASSUME NEW r \in Reapers, ReapForget(r) PROVE Found(j)'
  <2>1. Carried(j) => Carried(j)'
    BY <1>13 DEF ReapForget, Carried, InHand, Go, Typed, TypeOK, Clients
  <2> QED
    BY <1>13, <2>1 DEF ReapForget, historyVars, Queued, InProcessing, Buried, Dropped
<1>14. ASSUME NEW r \in Reapers, ReapPush(r) PROVE Found(j)'
  <2>1. /\ Queued(j) => Queued(j)'
        /\ Buried(j) => Buried(j)'
        /\ j = holds[r].job => Queued(j)' \/ Buried(j)'
    BY <1>14, PushKeeps DEF ReapPush, Holding, Clients
  <2>2. Carried(j) => Carried(j)' \/ j = holds[r].job
    BY <1>14 DEF ReapPush, Take, Go, Carried, InHand, Typed, TypeOK, Clients
  <2> QED
    BY <1>14, <2>1, <2>2 DEF ReapPush, historyVars, InProcessing, Dropped
<1>15. ASSUME NEW r \in Reapers, ReapEnd(r) PROVE Found(j)'
  BY <1>15 DEF ReapEnd, historyVars, queueVars, Go, Typed, TypeOK, Clients,
               Queued, InProcessing, Buried, Carried, Dropped, InHand
<1>16. ASSUME NEW c \in Clients,
              CrashWorker(c) \/ CrashReaper(c) \/ ReapError(c)
       PROVE Found(j)'
  <2>1. /\ UNCHANGED <<queueVars, acked>>
        /\ Drop(c)
        /\ holds' = [holds EXCEPT ![c] = NoMsg]
        /\ \E label \in {"idle", "scan"} : pc' = [pc EXCEPT ![c] = label]
    BY <1>16 DEF CrashWorker, CrashReaper, ReapError, Release, Take, Go
  <2>2. Carried(j) => Carried(j)' \/ Dropped(j)'
    BY <2>1 DEF Drop, Carried, Dropped, InHand, Typed, TypeOK
  <2>3. Dropped(j) => Dropped(j)'
    BY <2>1 DEF Drop, Dropped
  <2> QED
    BY <2>1, <2>2, <2>3 DEF queueVars, Queued, InProcessing, Buried
<1>17. CASE Tick
  BY <1>17 DEF Tick, historyVars, Queued, InProcessing, Buried, Carried, Dropped, InHand
<1> QED
  BY <1>1, <1>2, <1>3, <1>4, <1>5, <1>6, <1>7, <1>8, <1>9, <1>10, <1>11, <1>12, <1>13,
     <1>14, <1>15, <1>16, <1>17
  DEF Next, WorkerStep, ReaperStep, Clients

LEMMA StepCreated ==
  ASSUME Typed, [Next]_vars, NEW j \in Jobs, created[j] = None, created'[j] # None
  PROVE  Queued(j)'
<1>1. Enqueue(j)
  <2>1. ASSUME NEW k \in Jobs, Enqueue(k) PROVE Enqueue(j)
    <3>1. created' = [created EXCEPT ![k] = 0]
      BY <2>1 DEF Enqueue
    <3>2. k = j
      BY <3>1 DEF Typed, TypeOK
    <3> QED BY <2>1, <3>2
  <2>2. CASE Tick
    <3>1. created'[j] = Older(created[j])
      BY <2>2 DEF Tick
    <3>2. Older(None) = None
      BY MaxAgeAssumption DEF Older, None
    <3> QED BY <3>1, <3>2
  <2>3. ASSUME NEW w \in Workers, Move(w) \/ WorkerStep(w) \/ CrashWorker(w)
        PROVE  created' = created
    BY <2>3 DEF Move, WorkerStep, CrashWorker, Stamp, Complete, Forget, Fail, FailForget,
                FailPush, queueVars
  <2>4. ASSUME NEW r \in Reapers, ReaperStep(r) \/ CrashReaper(r) \/ ReapError(r)
        PROVE  created' = created
    BY <2>4 DEF ReaperStep, CrashReaper, ReapError, Snapshot, Judge, Reap, ReapForget,
                ReapPush, ReapEnd, queueVars
  <2>5. CASE UNCHANGED vars
    BY <2>5 DEF vars
  <2> QED BY <2>1, <2>2, <2>3, <2>4, <2>5 DEF Next
<1>2. [job |-> j, attempt |-> 0] \in Live
  BY MaxAttemptsAssumption DEF Live, Message
<1> QED
  BY <1>1, <1>2, AppendKeepsQueued DEF Enqueue, Typed, TypeOK

\* For any number of jobs, workers and reapers: an enqueued job is completed, in
\* a list, in the hands of a client that will push it, or was cut off by a
\* failure between two commands of fail() or reap_stale().
THEOREM ConservationOfJobs == Spec => []JobConservation
<1>1. Init => Typed /\ JobConservation
  BY InitTyped DEF Init, JobConservation
<1>2. Typed /\ JobConservation /\ [Next]_vars => Typed' /\ JobConservation'
  <2> SUFFICES ASSUME Typed, JobConservation, [Next]_vars
               PROVE  Typed' /\ JobConservation'
    OBVIOUS
  <2>1. ASSUME NEW j \in Jobs, created'[j] # None PROVE Found(j)'
    <3>1. CASE created[j] = None
      BY <2>1, <3>1, StepCreated DEF Found
    <3>2. CASE created[j] # None
      BY <3>2, StepConserves DEF JobConservation, Found
    <3> QED BY <3>1, <3>2
  <2> QED BY <2>1, StepTyped DEF JobConservation, Found
<1> QED BY <1>1, <1>2, PTL DEF Spec

-----------------------------------------------------------------------------
(* How many messages of an attempt a job can have.  What has been pushed   *)
(* on so far is not in the state, but there are counts that agree with it: *)
(* the workers together have pushed w[k] messages of attempt k on, and the *)
(* reaper r a[r, k].  A message that waits can still be pushed on by a     *)
(* worker and by each reaper; one that a worker has taken by that worker;  *)
(* and a reaper pushes on what it holds and no more than are processing,   *)
(* or than it has seen there and not yet reaped.                           *)

Handlers(m) == {c \in Workers : pc[c] \in Holding /\ holds[c] = m}
InHands(r, m) == IF pc[r] \in {"reaped", "repush"} /\ holds[r] = m THEN 1 ELSE 0

\* How many messages r may go on to reap.
Claims(r, m) == {processing[m], todo[r][m]} \cup (IF pc[r] = "times" THEN {seen[r][m]} ELSE {})

\* The pushes of reapers, numbered for each.
ByReapers(a, k) == {p \in Reapers \X Nat : p[2] \in 1 .. a[<<p[1], k>>]}
Pushed(w, a, k) == w[k] + Cardinality(ByReapers(a, k))
Arrived(j, w, a, k) ==
    IF k = 0 THEN IF created[j] = None THEN 0 ELSE 1 ELSE Pushed(w, a, k - 1)

Within(m, w, a) ==
    LET k == m.attempt
        room == Arrived(m.job, w, a, k) - Waiting(m)
    IN /\ processing[m] <= room
       /\ IsFiniteSet(Handlers(m)) /\ w[k] + Cardinality(Handlers(m)) <= room
       /\ \A r \in Reapers : \A x \in Claims(r, m) : a[<<r, k>>] + InHands(r, m) + x <= room

Counts(w, a) ==
    /\ w \in [Nat -> Nat] /\ a \in [Reapers \X Nat -> Nat]
    /\ \A k \in Nat : IsFiniteSet(ByReapers(a, k))

Accounts(j, w, a) == Counts(w, a) /\ \A m \in Message : m.job = j => Within(m, w, a)
Accounted(j) == \E w, a : Accounts(j, w, a)

-----------------------------------------------------------------------------
(* Lemmas about numbers and about the pending list. *)

\* A set of numbers that is not empty has a least one.
LEMMA LeastNumber ==
  ASSUME NEW S \in SUBSET Nat, S # {}
  PROVE  \E n \in S : \A m \in S : n <= m
<1> DEFINE R == OpToRel(<, Nat)
<1>1. IsWellFoundedOn(R, Nat)
  BY NatLessThanWellFounded
<1>2. \A x, y \in Nat : <<x, y>> \in R <=> x < y
  BY DEF OpToRel
<1> HIDE DEF R
<1>3. PICK x \in S : \A y \in S : ~ (<<y, x>> \in R)
  BY <1>1, WFMin
<1>4. ASSUME NEW y \in S PROVE x <= y
  <2>1. x \in Nat /\ y \in Nat /\ ~ (y < x)
    BY <1>2, <1>3
  <2> QED BY <2>1
<1> QED BY <1>4

At(s, m) == {i \in DOMAIN s : s[i] = m}

LEMMA AtIsFinite ==
  ASSUME NEW S, NEW s \in Seq(S), NEW m
  PROVE  IsFiniteSet(At(s, m)) /\ Cardinality(At(s, m)) \in Nat
<1>1. IsFiniteSet(1 .. Len(s)) /\ DOMAIN s = 1 .. Len(s)
  BY FS_Interval
<1>2. At(s, m) \in SUBSET (1 .. Len(s))
  BY <1>1 DEF At
<1> QED BY <1>1, <1>2, FS_Subset, FS_CardinalityType

LEMMA AtAppend ==
  ASSUME NEW S, NEW s \in Seq(S), NEW e \in S, NEW m
  PROVE  Cardinality(At(Append(s, e), m)) = Cardinality(At(s, m)) + (IF m = e THEN 1 ELSE 0)
<1> DEFINE t == Append(s, e)
<1>1. /\ Len(s) \in Nat /\ DOMAIN s = 1 .. Len(s) /\ DOMAIN t = 1 .. Len(s) + 1
      /\ t[Len(s) + 1] = e /\ \A i \in 1 .. Len(s) : t[i] = s[i]
  OBVIOUS
<1> HIDE DEF t
<1>2. Len(s) + 1 \notin At(s, m)
  BY <1>1 DEF At
<1>3. CASE m = e
  <2>1. At(t, m) = At(s, m) \cup {Len(s) + 1}
    BY <1>1, <1>3 DEF At
  <2> QED BY <1>2, <1>3, <2>1, AtIsFinite, FS_AddElement DEF t
<1>4. CASE m # e
  <2>1. At(t, m) = At(s, m)
    BY <1>1, <1>4 DEF At
  <2> QED BY <1>4, <2>1, AtIsFinite DEF t
<1> QED BY <1>3, <1>4

LEMMA AtTail ==
  ASSUME NEW S, NEW s \in Seq(S), s # << >>, NEW m
  PROVE  Cardinality(At(Tail(s), m)) = Cardinality(At(s, m)) - (IF m = Head(s) THEN 1 ELSE 0)
<1> DEFINE t == Tail(s)
           next == [i \in At(t, m) |-> i + 1]
<1>1. /\ Len(s) \in Nat \ {0} /\ DOMAIN s = 1 .. Len(s) /\ DOMAIN t = 1 .. Len(s) - 1
      /\ Head(s) = s[1] /\ \A i \in 1 .. Len(s) - 1 : t[i] = s[i + 1]
  OBVIOUS
<1> HIDE DEF t
<1>2. next \in Bijection(At(t, m), At(s, m) \ {1})
  <2>1. \A i \in At(t, m) : i \in Nat /\ next[i] = i + 1 /\ i + 1 \in At(s, m) \ {1}
    BY <1>1 DEF At
  <2>2. \A i \in At(s, m) \ {1} : i - 1 \in At(t, m) /\ i = (i - 1) + 1
    BY <1>1 DEF At
  <2>3. \A i \in At(s, m) \ {1} : \E h \in At(t, m) : next[h] = i
    BY <2>1, <2>2
  <2>4. \A h, i \in At(t, m) : next[h] = next[i] => h = i
    BY <2>1
  <2>5. next \in [At(t, m) -> At(s, m) \ {1}]
    BY <2>1
  <2> HIDE DEF next
  <2> QED BY <2>3, <2>4, <2>5 DEF Bijection, Injection, Surjection, IsInjective
<1>3. IsFiniteSet(At(t, m)) /\ IsFiniteSet(At(s, m)) /\ Cardinality(At(s, m)) \in Nat
  <2>1. t \in Seq(S)
    BY DEF t
  <2> QED BY <2>1, AtIsFinite
<1>4. Cardinality(At(t, m)) = Cardinality(At(s, m) \ {1})
  BY <1>2, <1>3, FS_Bijection DEF ExistsBijection
<1>5. 1 \in At(s, m) <=> m = Head(s)
  BY <1>1 DEF At
<1>6. Cardinality(At(s, m) \ {1}) = IF 1 \in At(s, m) THEN Cardinality(At(s, m)) - 1
                                    ELSE Cardinality(At(s, m))
  BY <1>3, FS_RemoveElement
<1> QED BY <1>3, <1>4, <1>5, <1>6 DEF t

LEMMA WaitingIsNumber == ASSUME Typed, NEW m PROVE Waiting(m) \in Nat
<1>1. Waiting(m) = Cardinality(At(pending, m)) /\ pending \in Seq(Live)
  BY DEF Waiting, At, Typed, TypeOK
<1> QED BY <1>1, AtIsFinite

LEMMA ArrivedIsNumber ==
  ASSUME NEW w, NEW a, Counts(w, a), NEW k \in Nat, NEW j
  PROVE  Pushed(w, a, k) \in Nat /\ Arrived(j, w, a, k) \in Nat
<1>1. \A i \in Nat : w[i] \in Nat /\ Cardinality(ByReapers(a, i)) \in Nat
  BY FS_CardinalityType DEF Counts
<1>2. \A i \in Nat : Pushed(w, a, i) \in Nat
  BY <1>1 DEF Pushed
<1>3. k # 0 => k - 1 \in Nat
  OBVIOUS
<1> QED BY <1>2, <1>3 DEF Arrived

\* What reapers may claim of a message is a number of times.
LEMMA ClaimsAreNumbers ==
  ASSUME Typed, NEW r \in Reapers, NEW m \in Message
  PROVE  Claims(r, m) \subseteq Nat /\ InHands(r, m) \in {0, 1}
  BY DEF Typed, TypeOK, Claims, InHands

-----------------------------------------------------------------------------
(* A step that neither pushes nor takes from the pending list leaves no    *)
(* client with more to push on than it had.                                *)

Quiet(m) ==
    /\ processing'[m] <= processing[m]
    /\ Handlers(m)' \subseteq Handlers(m)
    /\ \A r \in Reapers : \A x \in Claims(r, m)' : \E y \in Claims(r, m) :
          InHands(r, m)' + x <= InHands(r, m) + y

\* What a message leaves room for, and who claims it, after a step that leaves room for more.
LEMMA KeepsWithin ==
  ASSUME Typed, Typed', NEW m \in Message, NEW w, NEW a, Counts(w, a), Within(m, w, a),
         NEW v, NEW b, Counts(v, b), NEW more \in Int,
         Arrived(m.job, v, b, m.attempt)' - Waiting(m)'
            = Arrived(m.job, w, a, m.attempt) - Waiting(m) + more,
         processing'[m] <= processing[m] + more,
         IsFiniteSet(Handlers(m)'),
         v[m.attempt] + Cardinality(Handlers(m)') <= w[m.attempt] + Cardinality(Handlers(m)) + more,
         \A r \in Reapers : \A x \in Claims(r, m)' : \E y \in Claims(r, m) :
            b[<<r, m.attempt>>] + InHands(r, m)' + x <= a[<<r, m.attempt>>] + InHands(r, m) + y + more
  PROVE  Within(m, v, b)'
<1> DEFINE k == m.attempt
           room == Arrived(m.job, w, a, k) - Waiting(m)
<1>1. k \in Nat
  BY DEF Message
<1>2. /\ room \in Int /\ w[k] \in Nat /\ v[k] \in Nat
      /\ \A r \in Reapers : a[<<r, k>>] \in Nat /\ b[<<r, k>>] \in Nat
  <2>1. Arrived(m.job, w, a, k) \in Nat /\ Waiting(m) \in Nat
    BY <1>1, ArrivedIsNumber, WaitingIsNumber
  <2> QED BY <1>1, <2>1 DEF Counts
<1>3. Arrived(m.job, v, b, k)' - Waiting(m)' = room + more
  OBVIOUS
<1>4. processing[m] \in Nat /\ processing'[m] \in Nat
  BY DEF Typed, TypeOK
<1>5. processing[m] <= room /\ w[k] + Cardinality(Handlers(m)) <= room /\ IsFiniteSet(Handlers(m))
  BY DEF Within
<1> HIDE DEF room
<1>6. processing'[m] <= room + more
  BY <1>2, <1>4, <1>5
<1>7. v[k] + Cardinality(Handlers(m)') <= room + more
  <2>1. Cardinality(Handlers(m)) \in Nat /\ Cardinality(Handlers(m)') \in Nat
    BY <1>5, FS_CardinalityType
  <2> QED BY <1>2, <1>5, <2>1
<1>8. ASSUME NEW r \in Reapers, NEW x \in Claims(r, m)'
      PROVE  b[<<r, k>>] + InHands(r, m)' + x <= room + more
  <2>1. PICK y \in Claims(r, m) :
           b[<<r, k>>] + InHands(r, m)' + x <= a[<<r, k>>] + InHands(r, m) + y + more
    OBVIOUS
  <2>2. a[<<r, k>>] + InHands(r, m) + y <= room
    BY DEF Within, room
  <2>3. x \in Nat /\ y \in Nat /\ InHands(r, m) \in Nat /\ InHands(r, m)' \in Nat
    <3>1. Claims(r, m) \subseteq Nat /\ InHands(r, m) \in {0, 1}
      BY ClaimsAreNumbers
    <3>2. Claims(r, m)' \subseteq Nat /\ InHands(r, m)' \in {0, 1}
      BY DEF Typed, TypeOK, Claims, InHands
    <3> QED BY <3>1, <3>2
  <2> QED BY <1>2, <2>1, <2>2, <2>3
<1> QED BY <1>3, <1>6, <1>7, <1>8 DEF Within

LEMMA QuietWithin ==
  ASSUME Typed, Typed', NEW m \in Message, Quiet(m),
         NEW w, NEW a, Counts(w, a), Within(m, w, a), NEW v, NEW b, Counts(v, b),
         v[m.attempt] = w[m.attempt], \A r \in Reapers : b[<<r, m.attempt>>] = a[<<r, m.attempt>>],
         Waiting(m)' = Waiting(m),
         Arrived(m.job, v, b, m.attempt)' = Arrived(m.job, w, a, m.attempt)
  PROVE  Within(m, v, b)'
<1> DEFINE k == m.attempt
<1>1. k \in Nat
  BY DEF Message
<1>2. /\ Arrived(m.job, w, a, k) \in Nat /\ Waiting(m) \in Nat /\ w[k] \in Nat
      /\ \A r \in Reapers : a[<<r, k>>] \in Nat
  BY <1>1, ArrivedIsNumber, WaitingIsNumber DEF Counts
<1>3. Arrived(m.job, v, b, k)' - Waiting(m)' = Arrived(m.job, w, a, k) - Waiting(m) + 0
  BY <1>2
<1>4. processing'[m] <= processing[m] + 0
  BY DEF Typed, TypeOK, Quiet
<1>5. IsFiniteSet(Handlers(m)') /\ v[k] + Cardinality(Handlers(m)') <= w[k] + Cardinality(Handlers(m)) + 0
  <2>1. IsFiniteSet(Handlers(m)) /\ Handlers(m)' \subseteq Handlers(m)
    BY DEF Quiet, Within
  <2>2. IsFiniteSet(Handlers(m)') /\ Cardinality(Handlers(m)') <= Cardinality(Handlers(m))
    BY <2>1, FS_Subset
  <2>3. Cardinality(Handlers(m)) \in Nat /\ Cardinality(Handlers(m)') \in Nat
    BY <2>1, <2>2, FS_CardinalityType
  <2> QED BY <1>2, <2>2, <2>3
<1>6. ASSUME NEW r \in Reapers, NEW x \in Claims(r, m)'
      PROVE  \E y \in Claims(r, m) :
                b[<<r, k>>] + InHands(r, m)' + x <= a[<<r, k>>] + InHands(r, m) + y + 0
  <2>1. PICK y \in Claims(r, m) : InHands(r, m)' + x <= InHands(r, m) + y
    BY DEF Quiet
  <2>2. x \in Nat /\ y \in Nat /\ InHands(r, m) \in Nat /\ InHands(r, m)' \in Nat
    <3>1. Claims(r, m) \subseteq Nat /\ InHands(r, m) \in {0, 1}
      BY ClaimsAreNumbers
    <3>2. Claims(r, m)' \subseteq Nat /\ InHands(r, m)' \in {0, 1}
      BY DEF Typed, TypeOK, Claims, InHands
    <3> QED BY <3>1, <3>2
  <2> QED BY <1>2, <2>1, <2>2
<1>7. IsFiniteSet(Handlers(m)') /\ 0 \in Int
  BY <1>5
<1> QED BY <1>3, <1>4, <1>5, <1>6, <1>7, KeepsWithin, SMTT(60)

LEMMA QuietAccounts ==
  ASSUME Typed, Typed', NEW j, \A m \in Message : m.job = j => Quiet(m) /\ Waiting(m)' = Waiting(m),
         created'[j] = None <=> created[j] = None, Accounted(j)
  PROVE  Accounted(j)'
<1>1. PICK w, a : Accounts(j, w, a)
  BY DEF Accounted
<1>2. Counts(w, a) /\ Counts(w, a)'
  BY <1>1 DEF Accounts, Counts, ByReapers
<1>3. ASSUME NEW m \in Message, m.job = j PROVE Within(m, w, a)'
  <2>1. Arrived(m.job, w, a, m.attempt)' = Arrived(m.job, w, a, m.attempt)
    BY <1>3 DEF Arrived, Pushed, ByReapers
  <2> QED BY <1>1, <1>2, <1>3, <2>1, QuietWithin DEF Accounts
<1> QED BY <1>2, <1>3 DEF Accounted, Accounts

-----------------------------------------------------------------------------
(* Which steps are quiet. *)

\* A worker that goes on with what it holds, or lets go of it.
LEMMA WorkerQuiet ==
  ASSUME Typed, Typed', NEW c \in Workers, NEW label, pc' = [pc EXCEPT ![c] = label],
         \/ holds' = holds /\ pc[c] \in Holding
         \/ holds' = [holds EXCEPT ![c] = NoMsg] /\ label \notin Holding,
         UNCHANGED <<seen, todo>>, NEW m \in Message, processing'[m] <= processing[m]
  PROVE  Quiet(m)
<1>1. \A r \in Reapers : r # c /\ pc'[r] = pc[r] /\ holds'[r] = holds[r]
  BY ClientsAssumption DEF Typed, TypeOK, Clients
<1>2. Handlers(m)' \subseteq Handlers(m)
  BY DEF Handlers, Typed, TypeOK, Clients
<1>3. ASSUME NEW r \in Reapers, NEW x \in Claims(r, m)'
      PROVE  \E y \in Claims(r, m) : InHands(r, m)' + x <= InHands(r, m) + y
  <2>1. InHands(r, m)' = InHands(r, m) /\ InHands(r, m) \in Nat /\ Claims(r, m) \subseteq Nat
    BY <1>1, ClaimsAreNumbers DEF InHands
  <2>2. processing[m] \in Nat /\ processing'[m] \in Nat
    BY DEF Typed, TypeOK
  <2>3. CASE x = processing'[m]
    BY <2>1, <2>2, <2>3 DEF Claims
  <2>4. CASE x # processing'[m]
    <3>1. x \in Claims(r, m)
      BY <1>1, <2>4 DEF Claims
    <3> QED BY <2>1, <3>1
  <2> QED BY <2>3, <2>4
<1> QED BY <1>2, <1>3 DEF Quiet

LEMMA LRemTakes ==
  ASSUME Typed, NEW n \in Message, LRem(n), NEW m \in Message
  PROVE  /\ processing'[m] <= processing[m]
         /\ m = n /\ processing[m] > 0 => processing'[m] = processing[m] - 1
<1>1. processing \in [Message -> Nat]
  BY DEF Typed, TypeOK
<1>2. processing'[m] = IF m = n THEN IF processing[m] > 0 THEN processing[m] - 1 ELSE 0 ELSE processing[m]
  BY <1>1 DEF LRem
<1>3. processing[m] \in Nat
  BY <1>1
<1> QED BY <1>2, <1>3

LEMMA WorkersQuiet ==
  ASSUME Typed, Typed', NEW c \in Workers,
         \/ Stamp(c) \/ Complete(c) \/ Forget(c) \/ (\E requeue \in BOOLEAN : Fail(c, requeue))
         \/ FailForget(c) \/ CrashWorker(c),
         NEW m \in Message
  PROVE  Quiet(m)
<1>1. /\ pc[c] \in Holding => holds[c] \in Message
      /\ processing' = processing => processing'[m] <= processing[m]
  BY HoldsLive DEF Typed, TypeOK, Clients
<1>2. CASE Stamp(c)
  <2>1. /\ pc' = [pc EXCEPT ![c] = "working"] /\ holds' = holds /\ pc[c] \in Holding
        /\ UNCHANGED <<seen, todo>> /\ processing'[m] <= processing[m]
    BY <1>1, <1>2 DEF Stamp, Go, Holding
  <2> QED BY <2>1, WorkerQuiet
<1>3. CASE Complete(c)
  <2>1. pc' = [pc EXCEPT ![c] = "completed"] /\ processing'[m] <= processing[m]
    BY <1>1, <1>3, LRemTakes DEF Complete, Go, Holding
  <2> QED BY <1>3, <2>1, WorkerQuiet DEF Complete, Holding
<1>4. CASE Forget(c)
  <2>1. /\ pc' = [pc EXCEPT ![c] = "idle"] /\ holds' = [holds EXCEPT ![c] = NoMsg]
        /\ UNCHANGED <<seen, todo>> /\ processing'[m] <= processing[m]
    BY <1>1, <1>4 DEF Forget, Release, Go, Take
  <2> QED BY <2>1, WorkerQuiet DEF Holding
<1>5. ASSUME NEW requeue \in BOOLEAN, Fail(c, requeue) PROVE Quiet(m)
  <2>1. /\ pc' = [pc EXCEPT ![c] = IF requeue THEN "failed" ELSE "rejected"]
        /\ processing'[m] <= processing[m]
    BY <1>1, <1>5, LRemTakes DEF Fail, Go, Holding
  <2> QED BY <1>5, <2>1, WorkerQuiet DEF Fail, Holding, historyVars
<1>6. CASE FailForget(c)
  <2>1. /\ pc' = [pc EXCEPT ![c] = IF pc[c] = "failed" THEN "requeue" ELSE "bury"]
        /\ holds' = holds /\ pc[c] \in Holding
        /\ UNCHANGED <<seen, todo>> /\ processing'[m] <= processing[m]
    BY <1>1, <1>6 DEF FailForget, Go, Holding
  <2> QED BY <2>1, WorkerQuiet
<1>7. CASE CrashWorker(c)
  <2>1. /\ pc' = [pc EXCEPT ![c] = "idle"] /\ holds' = [holds EXCEPT ![c] = NoMsg]
        /\ UNCHANGED <<seen, todo>> /\ processing'[m] <= processing[m]
    BY <1>1, <1>7 DEF CrashWorker, Release, Go, Take, queueVars
  <2> QED BY <2>1, WorkerQuiet DEF Holding
<1> QED BY <1>2, <1>3, <1>4, <1>5, <1>6, <1>7

\* A reaper that has no more to push on by itself, and takes nothing from the others but what
\* it removes.
LEMMA ReaperQuiet ==
  ASSUME Typed, Typed', NEW r \in Reapers, NEW label, pc' = [pc EXCEPT ![r] = label],
         holds' = [holds EXCEPT ![r] = holds'[r]],
         seen' = [seen EXCEPT ![r] = seen'[r]], todo' = [todo EXCEPT ![r] = todo'[r]],
         NEW m \in Message, processing'[m] <= processing[m],
         \A x \in Claims(r, m)' : \E y \in Claims(r, m) : InHands(r, m)' + x <= InHands(r, m) + y
  PROVE  Quiet(m)
<1>1. Handlers(m)' = Handlers(m)
  BY ClientsAssumption DEF Handlers, Typed, TypeOK, Clients
<1>2. ASSUME NEW q \in Reapers, q # r, NEW x \in Claims(q, m)'
      PROVE  \E y \in Claims(q, m) : InHands(q, m)' + x <= InHands(q, m) + y
  <2>1. pc'[q] = pc[q] /\ holds'[q] = holds[q] /\ seen'[q] = seen[q] /\ todo'[q] = todo[q]
    BY <1>2 DEF Typed, TypeOK, Clients
  <2>2. InHands(q, m)' = InHands(q, m) /\ InHands(q, m) \in Nat /\ Claims(q, m) \subseteq Nat
    BY <2>1, ClaimsAreNumbers DEF InHands
  <2>3. processing[m] \in Nat /\ processing'[m] \in Nat
    BY DEF Typed, TypeOK
  <2>4. CASE x = processing'[m]
    BY <2>2, <2>3, <2>4 DEF Claims
  <2>5. CASE x # processing'[m]
    <3>1. x \in Claims(q, m)
      BY <1>2, <2>1, <2>5 DEF Claims
    <3> QED BY <2>2, <3>1
  <2> QED BY <2>4, <2>5
<1> QED BY <1>1, <1>2 DEF Quiet

LEMMA ReapersQuiet ==
  ASSUME Typed, Typed', NEW r \in Reapers,
         \/ Snapshot(r) \/ Judge(r) \/ (\E n \in Message : Reap(r, n)) \/ ReapForget(r) \/ ReapEnd(r)
         \/ CrashReaper(r) \/ ReapError(r),
         NEW m \in Message
  PROVE  Quiet(m)
<1> DEFINE RoomFor(x) == \E y \in Claims(r, m) : InHands(r, m)' + x <= InHands(r, m) + y
<1>1. /\ processing' = processing => processing'[m] <= processing[m]
      /\ {processing[m], processing'[m], todo[r][m], todo'[r][m], seen[r][m], seen'[r][m]} \subseteq Nat
      /\ {processing[m], todo[r][m]} \subseteq Claims(r, m)
      /\ InHands(r, m) \in {0, 1} /\ InHands(r, m)' \in {0, 1}
  BY DEF Typed, TypeOK, Claims, InHands
<1>2. pc = [c \in Clients |-> pc[c]] /\ r \in Clients
  BY DEF Typed, TypeOK, Clients
<1>3. CASE Snapshot(r)
  <2>1. /\ pc' = [pc EXCEPT ![r] = "times"] /\ pc[r] = "idle" /\ processing' = processing
        /\ UNCHANGED <<holds, todo>> /\ seen' = [seen EXCEPT ![r] = processing]
    BY <1>3 DEF Snapshot, Go, queueVars
  <2>2. pc'[r] = "times" /\ seen'[r] = processing
    BY <1>2, <2>1 DEF Typed, TypeOK
  <2>3. InHands(r, m)' = 0 /\ InHands(r, m) = 0
    BY <2>1, <2>2 DEF InHands
  <2>4. Claims(r, m)' \subseteq {processing[m], todo[r][m]}
    BY <2>1, <2>2 DEF Claims
  <2>5. \A x \in Claims(r, m)' : RoomFor(x)
    BY <1>1, <2>3, <2>4
  <2>6. /\ holds' = [holds EXCEPT ![r] = holds'[r]] /\ todo' = [todo EXCEPT ![r] = todo'[r]]
        /\ seen' = [seen EXCEPT ![r] = seen'[r]] /\ processing'[m] <= processing[m]
    BY <1>1, <2>1 DEF Typed, TypeOK
  <2> QED BY <2>1, <2>5, <2>6, ReaperQuiet
<1>4. CASE Judge(r)
  <2>1. /\ pc' = [pc EXCEPT ![r] = "scan"] /\ pc[r] = "times" /\ processing' = processing
        /\ holds' = holds
        /\ todo' = [todo EXCEPT ![r] = [n \in Message |->
                       IF Stale(JudgedAge(n.job)) THEN seen[r][n] ELSE 0]]
        /\ seen' = [seen EXCEPT ![r] = [n \in Message |-> 0]]
    BY <1>4 DEF Judge, Go, queueVars
  <2>2. pc'[r] = "scan" /\ todo'[r][m] \in {0, seen[r][m]}
    BY <1>2, <2>1 DEF Typed, TypeOK
  <2>3. InHands(r, m)' = 0 /\ InHands(r, m) = 0 /\ seen[r][m] \in Claims(r, m)
    BY <2>1, <2>2 DEF InHands, Claims
  <2>4. Claims(r, m)' = {processing[m], todo'[r][m]}
    BY <2>1, <2>2 DEF Claims
  <2>5. RoomFor(processing[m]) /\ RoomFor(seen[r][m]) /\ RoomFor(0)
    BY <1>1, <2>3
  <2>6. \A x \in Claims(r, m)' : RoomFor(x)
    BY <2>2, <2>4, <2>5
  <2>7. seen' = [seen EXCEPT ![r] = seen'[r]] /\ todo' = [todo EXCEPT ![r] = todo'[r]]
    BY <2>1 DEF Typed, TypeOK
  <2>8. holds' = [holds EXCEPT ![r] = holds'[r]] /\ processing'[m] <= processing[m]
    BY <1>1, <2>1 DEF Typed, TypeOK
  <2> QED BY <2>1, <2>6, <2>7, <2>8, ReaperQuiet
<1>5. ASSUME NEW n \in Message, Reap(r, n) PROVE Quiet(m)
  <2>1. /\ pc' = [pc EXCEPT ![r] = "reaped"] /\ pc[r] = "scan"
        /\ holds' = [holds EXCEPT ![r] = n] /\ seen' = seen
        /\ todo[r][n] > 0 /\ todo' = [todo EXCEPT ![r][n] = @ - 1]
        /\ LRem(n)
    BY <1>5 DEF Reap, Go, Take
  <2>2. /\ pc'[r] = "reaped" /\ holds'[r] = n
        /\ todo'[r][m] = IF m = n THEN todo[r][m] - 1 ELSE todo[r][m]
    BY <1>2, <2>1 DEF Typed, TypeOK
  <2>3. /\ InHands(r, m) = 0 /\ InHands(r, m)' = IF m = n THEN 1 ELSE 0
        /\ Claims(r, m)' = {processing'[m], todo'[r][m]}
    BY <2>1, <2>2 DEF InHands, Claims
  <2>4. /\ processing'[m] <= processing[m]
        /\ m = n /\ processing[m] > 0 => processing'[m] = processing[m] - 1
    BY <2>1, LRemTakes
  <2>5. RoomFor(todo'[r][m])
    BY <1>1, <2>1, <2>2, <2>3
  <2>6. RoomFor(processing'[m])
    <3>1. CASE m = n /\ processing[m] = 0
      BY <1>1, <2>1, <2>3, <2>4, <3>1
    <3>2. CASE ~ (m = n /\ processing[m] = 0)
      BY <1>1, <2>3, <2>4, <3>2
    <3> QED BY <3>1, <3>2
  <2>7. \A x \in Claims(r, m)' : RoomFor(x)
    BY <2>3, <2>5, <2>6
  <2>8. todo' = [todo EXCEPT ![r] = todo'[r]] /\ holds' = [holds EXCEPT ![r] = holds'[r]]
        /\ seen' = [seen EXCEPT ![r] = seen'[r]]
    BY <2>1 DEF Typed, TypeOK
  <2> QED BY <2>1, <2>4, <2>7, <2>8, ReaperQuiet
<1>6. CASE ReapForget(r) \/ ReapEnd(r) \/ ReapError(r)
  <2>1. PICK label \in {"repush", "idle", "scan"} :
           /\ pc' = [pc EXCEPT ![r] = label] /\ processing' = processing
           /\ label = "repush" => pc[r] = "reaped" /\ holds' = holds
           /\ holds' = holds \/ holds' = [holds EXCEPT ![r] = NoMsg]
           /\ UNCHANGED <<seen, todo>>
    BY <1>6 DEF ReapForget, ReapEnd, ReapError, Go, Take, queueVars
  <2>2. pc'[r] = label /\ InHands(r, m)' <= InHands(r, m)
    BY <1>1, <1>2, <2>1 DEF InHands
  <2>3. Claims(r, m)' \subseteq {processing[m], todo[r][m]}
    BY <2>1, <2>2 DEF Claims
  <2>4. \A x \in Claims(r, m)' : RoomFor(x)
    BY <1>1, <2>2, <2>3
  <2>5. /\ holds' = [holds EXCEPT ![r] = holds'[r]]
        /\ seen' = [seen EXCEPT ![r] = seen'[r]] /\ todo' = [todo EXCEPT ![r] = todo'[r]]
    BY <2>1 DEF Typed, TypeOK
  <2> QED BY <1>1, <2>1, <2>4, <2>5, ReaperQuiet
<1>7. CASE CrashReaper(r)
  <2>1. /\ pc' = [pc EXCEPT ![r] = "idle"] /\ processing' = processing
        /\ holds' = [holds EXCEPT ![r] = NoMsg]
        /\ seen' = [seen EXCEPT ![r] = [n \in Message |-> 0]]
        /\ todo' = [todo EXCEPT ![r] = [n \in Message |-> 0]]
    BY <1>7 DEF CrashReaper, Go, Take, queueVars
  <2>2. pc'[r] = "idle" /\ todo'[r][m] = 0 /\ InHands(r, m)' = 0
    BY <1>2, <2>1 DEF InHands, Typed, TypeOK
  <2>3. Claims(r, m)' = {processing[m], 0}
    BY <2>1, <2>2 DEF Claims
  <2>4. \A x \in Claims(r, m)' : RoomFor(x)
    BY <1>1, <2>2, <2>3
  <2>5. /\ holds' = [holds EXCEPT ![r] = holds'[r]]
        /\ seen' = [seen EXCEPT ![r] = seen'[r]] /\ todo' = [todo EXCEPT ![r] = todo'[r]]
    BY <2>1 DEF Typed, TypeOK
  <2> QED BY <1>1, <2>1, <2>4, <2>5, ReaperQuiet
<1> QED BY <1>3, <1>4, <1>5, <1>6, <1>7

-----------------------------------------------------------------------------
(* The steps that are not quiet: one job comes in, or a message moves.     *)

\* What a new message at the left end, or the loss of the one at the right end, makes of the
\* numbers of those that wait.
LEMMA WaitingAppend ==
  ASSUME Typed, NEW n \in Live, pending' = Append(pending, n), NEW m
  PROVE  Waiting(m)' = Waiting(m) + (IF m = n THEN 1 ELSE 0)
<1>1. Waiting(m) = Cardinality(At(pending, m)) /\ Waiting(m)' = Cardinality(At(Append(pending, n), m))
  BY DEF Waiting, At
<1>2. pending \in Seq(Live)
  BY DEF Typed, TypeOK
<1> QED BY <1>1, <1>2, AtAppend

LEMMA WaitingTail ==
  ASSUME Typed, pending # << >>, pending' = Tail(pending), NEW m
  PROVE  Waiting(m)' = Waiting(m) - (IF m = Head(pending) THEN 1 ELSE 0)
<1>1. Waiting(m) = Cardinality(At(pending, m)) /\ Waiting(m)' = Cardinality(At(Tail(pending), m))
  BY DEF Waiting, At
<1>2. pending \in Seq(Live)
  BY DEF Typed, TypeOK
<1> QED BY <1>1, <1>2, AtTail

\* A worker takes a message: it is one less that waits, one more that is processing.
LEMMA MoveAccounts ==
  ASSUME Typed, Typed', NEW c \in Workers, Move(c), NEW j, Accounted(j)
  PROVE  Accounted(j)'
<1> DEFINE n == Head(pending)
<1>1. PICK w, a : Counts(w, a) /\ Counts(w, a)' /\ \A m \in Message : m.job = j => Within(m, w, a)
  BY DEF Accounted, Accounts, Counts, ByReapers
<1>2. /\ pc[c] = "idle" /\ pending # << >> /\ pending' = Tail(pending)
      /\ pc' = [pc EXCEPT ![c] = "stamp"] /\ holds' = [holds EXCEPT ![c] = n]
      /\ processing' = [processing EXCEPT ![n] = @ + 1] /\ UNCHANGED <<created, seen, todo>>
  BY DEF Move, Go, Take
<1>3. n \in Message
  BY <1>2, TailOfSeq DEF Typed, TypeOK, Live
<1> HIDE DEF n
<1>4. \A r \in Reapers : r # c /\ pc'[r] = pc[r] /\ holds'[r] = holds[r]
  BY <1>2, ClientsAssumption DEF Typed, TypeOK, Clients
<1>5. ASSUME NEW m \in Message, m.job = j PROVE Within(m, w, a)'
  <2>1. Waiting(m)' = Waiting(m) - (IF m = n THEN 1 ELSE 0) /\ Waiting(m) \in Nat
    BY <1>2, WaitingTail, WaitingIsNumber DEF n
  <2>2. Arrived(m.job, w, a, m.attempt)' = Arrived(m.job, w, a, m.attempt)
    BY <1>2 DEF Arrived, Pushed, ByReapers
  <2>3. processing[m] \in Nat /\ processing'[m] = processing[m] + (IF m = n THEN 1 ELSE 0)
    BY <1>2 DEF Typed, TypeOK
  <2>4. /\ c \notin Handlers(m) /\ pc'[c] = "stamp" /\ holds'[c] = n
        /\ \A d \in Workers : d # c => pc'[d] = pc[d] /\ holds'[d] = holds[d]
    BY <1>2 DEF Handlers, Holding, Typed, TypeOK, Clients
  <2>5. Handlers(m)' = IF m = n THEN Handlers(m) \cup {c} ELSE Handlers(m)
    BY <2>4 DEF Handlers, Holding
  <2>6. /\ \A r \in Reapers : InHands(r, m)' = InHands(r, m) /\ InHands(r, m) \in Nat
        /\ \A r \in Reapers : Claims(r, m) \subseteq Nat
    BY <1>4, ClaimsAreNumbers DEF InHands
  <2>7. \A r \in Reapers : \A x \in Claims(r, m)' : x = processing'[m] \/ x \in Claims(r, m)
    BY <1>2, <1>4 DEF Claims
  <2>8. \A r \in Reapers : processing[m] \in Claims(r, m)
    BY DEF Claims
  <2>9. Within(m, w, a)
    BY <1>1, <1>5
  <2>10. CASE m = n
    <3>1. /\ Arrived(m.job, w, a, m.attempt) \in Nat /\ w[m.attempt] \in Nat
          /\ \A r \in Reapers : a[<<r, m.attempt>>] \in Nat
      <4>1. m.attempt \in Nat
        BY DEF Message
      <4> QED BY <1>1, <4>1, ArrivedIsNumber DEF Counts
    <3>2. /\ IsFiniteSet(Handlers(m)')
          /\ Cardinality(Handlers(m)') = Cardinality(Handlers(m)) + 1
          /\ Cardinality(Handlers(m)) \in Nat
      BY <2>4, <2>5, <2>9, <2>10, FS_AddElement, FS_CardinalityType DEF Within
    <3>3. ASSUME NEW r \in Reapers, NEW x \in Claims(r, m)'
          PROVE  \E y \in Claims(r, m) : a[<<r, m.attempt>>] + InHands(r, m)' + x
                                            <= a[<<r, m.attempt>>] + InHands(r, m) + y + 1
      <4>1. \E y \in Claims(r, m) : y \in Nat /\ x \in Nat /\ x <= y + 1
        BY <2>3, <2>6, <2>7, <2>8, <2>10
      <4> QED BY <2>6, <3>1, <4>1
    <3>4. /\ Arrived(m.job, w, a, m.attempt)' - Waiting(m)'
                = Arrived(m.job, w, a, m.attempt) - Waiting(m) + 1
          /\ processing'[m] <= processing[m] + 1
          /\ w[m.attempt] + Cardinality(Handlers(m)')
                <= w[m.attempt] + Cardinality(Handlers(m)) + 1
      BY <2>1, <2>2, <2>3, <2>10, <3>1, <3>2
    <3> QED BY <1>1, <2>9, <3>2, <3>3, <3>4, KeepsWithin
  <2>11. CASE m # n
    <3>1. Quiet(m)
      <4>1. /\ processing'[m] <= processing[m] /\ Handlers(m)' \subseteq Handlers(m)
            /\ \A r \in Reapers : Claims(r, m)' \subseteq Claims(r, m)
        BY <2>3, <2>5, <2>7, <2>8, <2>11
      <4>2. \A r \in Reapers : \A x \in Claims(r, m) : InHands(r, m)' + x <= InHands(r, m) + x
        BY <2>6
      <4> QED BY <4>1, <4>2 DEF Quiet
    <3>2. Waiting(m)' = Waiting(m)
      BY <2>1, <2>11
    <3> QED BY <1>1, <2>2, <2>9, <3>1, <3>2, QuietWithin
  <2> QED BY <2>10, <2>11
<1> QED BY <1>1, <1>5 DEF Accounted, Accounts

\* The first message of a job: it has come in, and waits.
LEMMA EnqueueAccounts ==
  ASSUME Typed, Typed', NEW i \in Jobs, Enqueue(i), NEW j, Accounted(j)
  PROVE  Accounted(j)'
<1> DEFINE n == [job |-> i, attempt |-> 0]
<1>1. PICK w, a : Counts(w, a) /\ Counts(w, a)' /\ \A m \in Message : m.job = j => Within(m, w, a)
  BY DEF Accounted, Accounts, Counts, ByReapers
<1>2. /\ created[i] = None /\ created' = [created EXCEPT ![i] = 0]
      /\ pending' = Append(pending, n) /\ UNCHANGED <<processing, pc, holds, seen, todo>>
  BY DEF Enqueue
<1>3. n \in Live
  BY MaxAttemptsAssumption DEF Live, Message
<1>4. ASSUME NEW m \in Message, m.job = j PROVE Within(m, w, a)'
  <2>1. Within(m, w, a) /\ m.attempt \in Nat /\ m.job \in Jobs
    BY <1>1, <1>4 DEF Message
  <2>2. Waiting(m)' = Waiting(m) + (IF m = n THEN 1 ELSE 0) /\ Waiting(m) \in Nat
    BY <1>2, <1>3, WaitingAppend, WaitingIsNumber
  <2>3. m = n <=> m.attempt = 0 /\ m.job = i
    BY DEF Message
  <2>4. Arrived(m.job, w, a, m.attempt)' = Arrived(m.job, w, a, m.attempt) + (IF m = n THEN 1 ELSE 0)
    <3>1. created'[m.job] = IF m.job = i THEN 0 ELSE created[m.job]
      BY <1>2, <2>1 DEF Typed, TypeOK
    <3>2. Arrived(m.job, w, a, m.attempt) \in Nat
      BY <1>1, <2>1, ArrivedIsNumber
    <3>3. CASE m.attempt = 0
      BY <1>2, <2>3, <3>1, <3>3 DEF Arrived, None
    <3>4. CASE m.attempt # 0
      BY <2>3, <3>2, <3>4 DEF Arrived, Pushed, ByReapers
    <3> QED BY <3>3, <3>4
  <2>5. processing[m] \in Nat /\ processing'[m] = processing[m] /\ Handlers(m)' = Handlers(m)
    BY <1>2 DEF Typed, TypeOK, Handlers
  <2>6. \A r \in Reapers : /\ InHands(r, m)' = InHands(r, m) /\ InHands(r, m) \in Nat
                           /\ Claims(r, m)' = Claims(r, m) /\ Claims(r, m) \subseteq Nat
    BY <1>2, ClaimsAreNumbers DEF InHands, Claims
  <2>7. /\ Arrived(m.job, w, a, m.attempt) \in Nat /\ w[m.attempt] \in Nat
        /\ \A r \in Reapers : a[<<r, m.attempt>>] \in Nat
    BY <1>1, <2>1, ArrivedIsNumber DEF Counts
  <2>8. IsFiniteSet(Handlers(m)) /\ Cardinality(Handlers(m)) \in Nat
    BY <2>1, FS_CardinalityType DEF Within
  <2>9. ASSUME NEW r \in Reapers, NEW x \in Claims(r, m)'
        PROVE  \E y \in Claims(r, m) : a[<<r, m.attempt>>] + InHands(r, m)' + x
                                          <= a[<<r, m.attempt>>] + InHands(r, m) + y + 0
    <3>1. x \in Claims(r, m) /\ x \in Nat
      BY <2>6
    <3> QED BY <2>6, <2>7, <3>1
  <2>10. /\ Arrived(m.job, w, a, m.attempt)' - Waiting(m)'
              = Arrived(m.job, w, a, m.attempt) - Waiting(m) + 0
         /\ processing'[m] <= processing[m] + 0
         /\ IsFiniteSet(Handlers(m)')
         /\ w[m.attempt] + Cardinality(Handlers(m)') <= w[m.attempt] + Cardinality(Handlers(m)) + 0
    BY <2>2, <2>4, <2>5, <2>7, <2>8
  <2> QED BY <1>1, <2>1, <2>9, <2>10, KeepsWithin
<1> QED BY <1>1, <1>4 DEF Accounted, Accounts

\* What the LPUSH of a client changes: one more of the next attempt has come in, at most one
\* more of it waits, and the client has pushed one more and holds one less.
LEMMA PushedAccounts ==
  ASSUME Typed, Typed', NEW n \in Live, NEW w, NEW a, Accounts(n.job, w, a),
         NEW v, NEW b, Counts(v, b), NEW requeue \in BOOLEAN,
         UNCHANGED <<created, processing, seen, todo>>,
         IF requeue THEN pending' = Append(pending, NextAttempt(n)) /\ NextAttempt(n) \in Live
                    ELSE pending' = pending,
         \A k \in Nat : Pushed(v, b, k) = Pushed(w, a, k) + (IF k = n.attempt THEN 1 ELSE 0),
         \A m \in Message : m.job = n.job =>
            /\ IsFiniteSet(Handlers(m)')
            /\ v[m.attempt] + Cardinality(Handlers(m)') <= w[m.attempt] + Cardinality(Handlers(m))
            /\ \A r \in Reapers :
                  /\ b[<<r, m.attempt>>] + InHands(r, m)' <= a[<<r, m.attempt>>] + InHands(r, m)
                  /\ pc'[r] = "times" => pc[r] = "times"
  PROVE  Accounts(n.job, v, b)'
<1> DEFINE next == NextAttempt(n)
<1>1. Counts(w, a) /\ Counts(v, b)' /\ \A m \in Message : m.job = n.job => Within(m, w, a)
  BY DEF Accounts, Counts, ByReapers
<1>2. n \in Message /\ next.job = n.job /\ next.attempt = n.attempt + 1 /\ n.attempt \in Nat
      /\ next = [job |-> n.job, attempt |-> n.attempt + 1]
  BY DEF Live, Message, NextAttempt
<1>3. ASSUME NEW m \in Message, m.job = n.job PROVE Within(m, v, b)'
  <2>1. Within(m, w, a) /\ m.attempt \in Nat
    BY <1>1, <1>3 DEF Message
  <2>2. m = next <=> m.attempt = n.attempt + 1
    BY <1>2, <1>3 DEF Message
  <2>3. /\ Waiting(m) \in Nat
        /\ Waiting(m)' = Waiting(m) + (IF requeue /\ m = next THEN 1 ELSE 0)
    <3>1. CASE requeue
      BY <3>1, WaitingAppend, WaitingIsNumber
    <3>2. CASE ~ requeue
      BY <3>2, WaitingIsNumber DEF Waiting
    <3> QED BY <3>1, <3>2
  <2>4. /\ Arrived(m.job, w, a, m.attempt) \in Nat
        /\ Arrived(m.job, v, b, m.attempt)' = Arrived(m.job, w, a, m.attempt) + (IF m = next THEN 1 ELSE 0)
    <3>1. Arrived(m.job, v, b, m.attempt)' = Arrived(m.job, v, b, m.attempt)
      BY DEF Arrived, Pushed, ByReapers
    <3>2. Arrived(m.job, w, a, m.attempt) \in Nat
      BY <1>1, <2>1, ArrivedIsNumber
    <3>3. CASE m.attempt = 0
      BY <1>2, <2>2, <3>1, <3>2, <3>3 DEF Arrived
    <3>4. CASE m.attempt # 0
      <4>1. m.attempt - 1 \in Nat /\ (m.attempt - 1 = n.attempt <=> m.attempt = n.attempt + 1)
        BY <1>2, <2>1, <3>4
      <4> QED BY <2>2, <3>1, <3>2, <3>4, <4>1 DEF Arrived
    <3> QED BY <3>3, <3>4
  <2>5. PICK more \in {0, 1} : Arrived(m.job, v, b, m.attempt)' - Waiting(m)'
                                  = Arrived(m.job, w, a, m.attempt) - Waiting(m) + more
    BY <2>3, <2>4
  <2>6. /\ w[m.attempt] \in Nat /\ v[m.attempt] \in Nat
        /\ \A r \in Reapers : a[<<r, m.attempt>>] \in Nat /\ b[<<r, m.attempt>>] \in Nat
    BY <1>1, <2>1 DEF Counts
  <2>7. processing'[m] <= processing[m] + more
    <3>1. processing[m] \in Nat /\ processing'[m] = processing[m]
      BY DEF Typed, TypeOK
    <3> QED BY <3>1
  <2>8. IsFiniteSet(Handlers(m)')
        /\ v[m.attempt] + Cardinality(Handlers(m)') <= w[m.attempt] + Cardinality(Handlers(m)) + more
    <3>1. /\ IsFiniteSet(Handlers(m)') /\ IsFiniteSet(Handlers(m))
          /\ v[m.attempt] + Cardinality(Handlers(m)') <= w[m.attempt] + Cardinality(Handlers(m))
      BY <1>3, <2>1 DEF Within
    <3>2. Cardinality(Handlers(m)') \in Nat /\ Cardinality(Handlers(m)) \in Nat
      BY <3>1, FS_CardinalityType
    <3> QED BY <2>6, <3>1, <3>2
  <2>9. ASSUME NEW r \in Reapers, NEW x \in Claims(r, m)'
        PROVE  \E y \in Claims(r, m) : b[<<r, m.attempt>>] + InHands(r, m)' + x
                                          <= a[<<r, m.attempt>>] + InHands(r, m) + y + more
    <3>1. b[<<r, m.attempt>>] + InHands(r, m)' <= a[<<r, m.attempt>>] + InHands(r, m)
          /\ (pc'[r] = "times" => pc[r] = "times")
      BY <1>3
    <3>2. x \in Claims(r, m)
      BY <3>1 DEF Claims
    <3>3. x \in Nat /\ InHands(r, m) \in Nat /\ InHands(r, m)' \in Nat
      <4>1. Claims(r, m) \subseteq Nat /\ InHands(r, m) \in {0, 1}
        BY ClaimsAreNumbers
      <4>2. InHands(r, m)' \in {0, 1}
        BY DEF InHands
      <4> QED BY <3>2, <4>1, <4>2
    <3> QED BY <2>6, <3>1, <3>2, <3>3
  <2>10. Counts(w, a) /\ Counts(v, b) /\ Within(m, w, a) /\ more \in Int
    BY <1>1, <2>1
  <2>11. \A r \in Reapers : \A x \in Claims(r, m)' : \E y \in Claims(r, m) :
            b[<<r, m.attempt>>] + InHands(r, m)' + x <= a[<<r, m.attempt>>] + InHands(r, m) + y + more
    BY <2>9
  <2> QED BY ONLY Typed, Typed', m \in Message, <2>5, <2>7, <2>8, <2>10, <2>11, KeepsWithin
<1> QED BY <1>1, <1>3 DEF Accounts

\* fail(): the worker's own count goes up, and it holds the message no more.
LEMMA WorkerPushAccounts ==
  ASSUME Typed, Typed', NEW c \in Workers, FailPush(c), NEW n, n = holds[c], Accounted(n.job)
  PROVE  Accounted(n.job)'
<1> DEFINE k == n.attempt
<1>1. PICK w, a : Accounts(n.job, w, a)
  BY DEF Accounted
<1>0. PICK requeue \in BOOLEAN : requeue = (pc[c] = "requeue" /\ NextAttempt(n).attempt < MaxAttempts)
  OBVIOUS
<1> DEFINE v == [w EXCEPT ![k] = @ + 1]
<1>2. /\ pc[c] \in {"requeue", "bury"} /\ pc' = [pc EXCEPT ![c] = "idle"]
      /\ holds' = [holds EXCEPT ![c] = NoMsg] /\ UNCHANGED <<created, processing, seen, todo>>
      /\ IF requeue THEN pending' = Append(pending, NextAttempt(n)) ELSE pending' = pending
  BY <1>0 DEF FailPush, Push, Release, Go, Take
<1>3. n \in Live /\ n \in Message /\ k \in Nat /\ (requeue => NextAttempt(n) \in Live)
  <2>1. n \in Live /\ n \in Message
    BY <1>2, HoldsLive DEF Holding, Clients
  <2>2. requeue => NextAttempt(n).attempt < MaxAttempts
    BY <1>0
  <2>3. requeue => NextAttempt(n) \in Live
    BY <2>1, <2>2, NextAttemptOfLive
  <2>4. k \in Nat
    BY <2>1 DEF Message
  <2> QED BY <2>1, <2>3, <2>4
<1>4. /\ Counts(w, a) /\ \A i \in Nat : v[i] = w[i] + (IF i = k THEN 1 ELSE 0) /\ w[i] \in Nat
      /\ Counts(v, a)
  <2>1. Counts(w, a)
    BY <1>1 DEF Accounts
  <2>2. \A i \in Nat : v[i] = w[i] + (IF i = k THEN 1 ELSE 0) /\ w[i] \in Nat
    BY <2>1, <1>3 DEF Counts
  <2> QED BY <2>1, <2>2, <1>3 DEF Counts
<1>5. \A i \in Nat : Pushed(v, a, i) = Pushed(w, a, i) + (IF i = k THEN 1 ELSE 0)
  <2>1. \A i \in Nat : Cardinality(ByReapers(a, i)) \in Nat
    BY <1>4, FS_CardinalityType DEF Counts
  <2> QED BY <1>4, <2>1 DEF Pushed
<1>6. \A r \in Reapers : r # c /\ pc'[r] = pc[r] /\ holds'[r] = holds[r]
  BY <1>2, ClientsAssumption DEF Typed, TypeOK, Clients
<1>7. ASSUME NEW m \in Message, m.job = n.job
      PROVE  /\ IsFiniteSet(Handlers(m)')
             /\ v[m.attempt] + Cardinality(Handlers(m)') <= w[m.attempt] + Cardinality(Handlers(m))
             /\ \A r \in Reapers :
                   /\ a[<<r, m.attempt>>] + InHands(r, m)' <= a[<<r, m.attempt>>] + InHands(r, m)
                   /\ pc'[r] = "times" => pc[r] = "times"
  <2>1. IsFiniteSet(Handlers(m)) /\ Cardinality(Handlers(m)) \in Nat
    BY <1>1, <1>7, FS_CardinalityType DEF Accounts, Within
  <2>2. /\ pc'[c] = "idle"
        /\ \A d \in Workers : d # c => pc'[d] = pc[d] /\ holds'[d] = holds[d]
    BY <1>2 DEF Typed, TypeOK, Clients
  <2>3. Handlers(m)' = Handlers(m) \ {c} /\ (c \in Handlers(m) <=> m = n)
    BY <1>2, <2>2 DEF Handlers, Holding
  <2>4. m = n <=> m.attempt = k
    BY <1>3, <1>7 DEF Message
  <2>5. /\ IsFiniteSet(Handlers(m)')
        /\ Cardinality(Handlers(m)') = Cardinality(Handlers(m)) - (IF m = n THEN 1 ELSE 0)
    <3>1. /\ IsFiniteSet(Handlers(m) \ {c})
          /\ Cardinality(Handlers(m) \ {c}) = IF c \in Handlers(m) THEN Cardinality(Handlers(m)) - 1
                                              ELSE Cardinality(Handlers(m))
      BY <2>1, FS_RemoveElement
    <3> QED BY <2>1, <2>3, <3>1
  <2>6. /\ m.attempt \in Nat /\ v[m.attempt] = w[m.attempt] + (IF m = n THEN 1 ELSE 0)
        /\ w[m.attempt] \in Nat
    BY <1>4, <2>4 DEF Message
  <2>7. ASSUME NEW r \in Reapers
        PROVE  /\ a[<<r, m.attempt>>] + InHands(r, m)' <= a[<<r, m.attempt>>] + InHands(r, m)
               /\ pc'[r] = "times" => pc[r] = "times"
    <3>1. InHands(r, m)' = InHands(r, m) /\ InHands(r, m) \in Nat /\ a[<<r, m.attempt>>] \in Nat
      BY <1>4, <1>6, <2>6, ClaimsAreNumbers DEF InHands, Counts
    <3> QED BY <1>6, <3>1
  <2> HIDE DEF v
  <2> QED BY <2>1, <2>5, <2>6, <2>7
<1> HIDE DEF v
<1>8. /\ n \in Live /\ Accounts(n.job, w, a) /\ Counts(v, a)
      /\ UNCHANGED <<created, processing, seen, todo>>
      /\ IF requeue THEN pending' = Append(pending, NextAttempt(n)) /\ NextAttempt(n) \in Live
                    ELSE pending' = pending
  BY <1>1, <1>2, <1>3, <1>4
<1>9. \A m \in Message : m.job = n.job =>
         /\ IsFiniteSet(Handlers(m)')
         /\ v[m.attempt] + Cardinality(Handlers(m)') <= w[m.attempt] + Cardinality(Handlers(m))
         /\ \A r \in Reapers :
               /\ a[<<r, m.attempt>>] + InHands(r, m)' <= a[<<r, m.attempt>>] + InHands(r, m)
               /\ pc'[r] = "times" => pc[r] = "times"
  BY <1>7
<1>10. Accounts(n.job, v, a)'
  BY ONLY Typed, Typed', requeue \in BOOLEAN, <1>5, <1>8, <1>9, PushedAccounts
<1> QED BY <1>10 DEF Accounted

\* reap_stale(): the reaper's count goes up, and it holds the message no more.
LEMMA ReaperPushAccounts ==
  ASSUME Typed, Typed', NEW r \in Reapers, ReapPush(r), NEW n, n = holds[r], Accounted(n.job)
  PROVE  Accounted(n.job)'
<1> DEFINE k == n.attempt
<1>1. PICK w, a : Accounts(n.job, w, a)
  BY DEF Accounted
<1>2. PICK requeue \in BOOLEAN : requeue <=> NextAttempt(n).attempt < MaxAttempts
  <2>1. CASE NextAttempt(n).attempt < MaxAttempts
    BY <2>1
  <2>2. CASE ~ (NextAttempt(n).attempt < MaxAttempts)
    BY <2>2
  <2> QED BY <2>1, <2>2
<1> DEFINE b == [a EXCEPT ![<<r, k>>] = @ + 1]
<1>3. /\ pc[r] = "repush" /\ pc' = [pc EXCEPT ![r] = "scan"]
      /\ holds' = [holds EXCEPT ![r] = NoMsg] /\ UNCHANGED <<created, processing, seen, todo>>
      /\ IF requeue THEN pending' = Append(pending, NextAttempt(n)) ELSE pending' = pending
  BY <1>2 DEF ReapPush, Push, Go, Take
<1>4. n \in Live /\ n \in Message /\ k \in Nat /\ (requeue => NextAttempt(n) \in Live)
  <2>1. n \in Live /\ n \in Message
    BY <1>3, HoldsLive DEF Holding, Clients
  <2>2. requeue => NextAttempt(n) \in Live
    BY <1>2, <2>1, NextAttemptOfLive
  <2>3. k \in Nat
    BY <2>1 DEF Message
  <2> QED BY <2>1, <2>2, <2>3
<1>5. Counts(w, a) /\ a \in [Reapers \X Nat -> Nat] /\ b \in [Reapers \X Nat -> Nat]
  <2>1. Counts(w, a) /\ a \in [Reapers \X Nat -> Nat]
    BY <1>1 DEF Accounts, Counts
  <2>2. <<r, k>> \in Reapers \X Nat /\ a[<<r, k>>] + 1 \in Nat
    BY <2>1, <1>4
  <2> QED BY <2>1, <2>2
<1>6. \A q \in Reapers, i \in Nat :
         /\ a[<<q, i>>] \in Nat
         /\ b[<<q, i>>] = a[<<q, i>>] + (IF q = r /\ i = k THEN 1 ELSE 0)
  <2>1. ASSUME NEW q \in Reapers, NEW i \in Nat
        PROVE  /\ a[<<q, i>>] \in Nat
               /\ b[<<q, i>>] = a[<<q, i>>] + (IF q = r /\ i = k THEN 1 ELSE 0)
    <3>1. <<q, i>> \in Reapers \X Nat /\ a[<<q, i>>] \in Nat
      BY <1>5
    <3>2. <<q, i>> = <<r, k>> <=> q = r /\ i = k
      OBVIOUS
    <3> QED BY <1>5, <3>1, <3>2
  <2> QED BY <2>1
<1> HIDE DEF b
<1>7. /\ \A i \in Nat : i # k => ByReapers(b, i) = ByReapers(a, i)
      /\ ByReapers(b, k) = ByReapers(a, k) \cup {<<r, a[<<r, k>>] + 1>>}
      /\ <<r, a[<<r, k>>] + 1>> \notin ByReapers(a, k)
  <2>1. \A i \in Nat, p \in Reapers \X Nat : i # k =>
           (p[2] \in 1 .. b[<<p[1], i>>] <=> p[2] \in 1 .. a[<<p[1], i>>])
    BY <1>6
  <2>2. <<r, a[<<r, k>>] + 1>> \in Reapers \X Nat
    BY <1>4, <1>6
  <2>3. ASSUME NEW q \in Reapers, NEW i \in Nat
        PROVE  i \in 1 .. b[<<q, k>>] <=> i \in 1 .. a[<<q, k>>] \/ (q = r /\ i = a[<<r, k>>] + 1)
    BY <1>4, <1>6
  <2>4. ~ (a[<<r, k>>] + 1 \in 1 .. a[<<r, k>>])
    BY <1>4, <1>6
  <2>5. <<r, a[<<r, k>>] + 1>> \notin ByReapers(a, k)
    BY <2>4 DEF ByReapers
  <2>6. \A i \in Nat : i # k => ByReapers(b, i) = ByReapers(a, i)
    BY <2>1 DEF ByReapers
  <2>7. ByReapers(b, k) = ByReapers(a, k) \cup {<<r, a[<<r, k>>] + 1>>}
    <3>1. ASSUME NEW p PROVE p \in ByReapers(b, k) <=> p \in ByReapers(a, k) \/ p = <<r, a[<<r, k>>] + 1>>
      <4>1. CASE p \notin Reapers \X Nat
        BY <2>2, <4>1 DEF ByReapers
      <4>2. CASE p \in Reapers \X Nat
        <5>1. PICK q \in Reapers, i \in Nat : p = <<q, i>>
          BY <4>2
        <5>2. p = <<r, a[<<r, k>>] + 1>> <=> q = r /\ i = a[<<r, k>>] + 1
          BY <5>1
        <5>3. /\ p \in ByReapers(b, k) <=> i \in 1 .. b[<<q, k>>]
              /\ p \in ByReapers(a, k) <=> i \in 1 .. a[<<q, k>>]
          BY <5>1 DEF ByReapers
        <5> QED BY <2>3, <5>2, <5>3
      <4> QED BY <4>1, <4>2
    <3> QED BY <3>1
  <2> QED BY <2>5, <2>6, <2>7
<1>8. \A i \in Nat : /\ IsFiniteSet(ByReapers(b, i))
                     /\ Cardinality(ByReapers(b, i))
                           = Cardinality(ByReapers(a, i)) + (IF i = k THEN 1 ELSE 0)
                     /\ Cardinality(ByReapers(a, i)) \in Nat
  <2>1. \A i \in Nat : IsFiniteSet(ByReapers(a, i)) /\ Cardinality(ByReapers(a, i)) \in Nat
    BY <1>5, FS_CardinalityType DEF Counts
  <2>2. /\ IsFiniteSet(ByReapers(b, k))
        /\ Cardinality(ByReapers(b, k)) = Cardinality(ByReapers(a, k)) + 1
    <3>1. /\ IsFiniteSet(ByReapers(a, k)) /\ <<r, a[<<r, k>>] + 1>> \notin ByReapers(a, k)
          /\ ByReapers(b, k) = ByReapers(a, k) \cup {<<r, a[<<r, k>>] + 1>>}
      BY <1>4, <1>7, <2>1
    <3> DEFINE more == <<r, a[<<r, k>>] + 1>>
    <3> HIDE DEF more
    <3>2. /\ IsFiniteSet(ByReapers(a, k)) /\ more \notin ByReapers(a, k)
          /\ ByReapers(b, k) = ByReapers(a, k) \cup {more}
      BY <3>1 DEF more
    <3> HIDE DEF k
    <3> QED BY ONLY <3>2, FS_AddElement
  <2>3. \A i \in Nat : i # k => /\ IsFiniteSet(ByReapers(b, i))
                                /\ Cardinality(ByReapers(b, i)) = Cardinality(ByReapers(a, i)) + 0
    BY <1>7, <2>1
  <2> QED BY <2>1, <2>2, <2>3
<1>9. Counts(w, b)
  BY <1>5, <1>8 DEF Counts
<1>10. \A i \in Nat : Pushed(w, b, i) = Pushed(w, a, i) + (IF i = k THEN 1 ELSE 0)
  <2>1. \A i \in Nat : w[i] \in Nat
    BY <1>5 DEF Counts
  <2> QED BY <1>8, <2>1 DEF Pushed
<1>11. /\ pc'[r] = "scan"
       /\ \A d \in Clients : d # r => pc'[d] = pc[d] /\ holds'[d] = holds[d]
       /\ r \notin Workers
  BY <1>3, ClientsAssumption DEF Typed, TypeOK, Clients
<1>12. ASSUME NEW m \in Message, m.job = n.job
       PROVE  /\ IsFiniteSet(Handlers(m)')
              /\ w[m.attempt] + Cardinality(Handlers(m)') <= w[m.attempt] + Cardinality(Handlers(m))
              /\ \A q \in Reapers :
                    /\ b[<<q, m.attempt>>] + InHands(q, m)' <= a[<<q, m.attempt>>] + InHands(q, m)
                    /\ pc'[q] = "times" => pc[q] = "times"
  <2>1. IsFiniteSet(Handlers(m)) /\ Cardinality(Handlers(m)) \in Nat
    BY <1>1, <1>12, FS_CardinalityType DEF Accounts, Within
  <2>2. Handlers(m)' = Handlers(m)
    BY <1>11 DEF Handlers, Clients
  <2>3. (m = n <=> m.attempt = k) /\ m.attempt \in Nat
    BY <1>4, <1>12 DEF Message
  <2>4. w[m.attempt] \in Nat
    BY <1>5, <2>3 DEF Counts
  <2>5. ASSUME NEW q \in Reapers
        PROVE  /\ b[<<q, m.attempt>>] + InHands(q, m)' <= a[<<q, m.attempt>>] + InHands(q, m)
               /\ pc'[q] = "times" => pc[q] = "times"
    <3>1. CASE q = r
      <4>1. InHands(q, m)' = 0 /\ InHands(q, m) = IF m = n THEN 1 ELSE 0
        BY <1>3, <1>11, <3>1 DEF InHands
      <4> QED BY <1>6, <1>11, <2>3, <3>1, <4>1
    <3>2. CASE q # r
      <4>1. InHands(q, m)' = InHands(q, m) /\ InHands(q, m) \in Nat
        BY <1>11, <3>2, ClaimsAreNumbers DEF InHands, Clients
      <4> QED BY <1>6, <1>11, <2>3, <3>2, <4>1 DEF Clients
    <3> QED BY <3>1, <3>2
  <2> QED BY <2>1, <2>2, <2>4, <2>5
<1>13. /\ n \in Live /\ Accounts(n.job, w, a) /\ Counts(w, b)
       /\ UNCHANGED <<created, processing, seen, todo>>
       /\ IF requeue THEN pending' = Append(pending, NextAttempt(n)) /\ NextAttempt(n) \in Live
                     ELSE pending' = pending
  BY <1>1, <1>3, <1>4, <1>9
<1>14. \A m \in Message : m.job = n.job =>
          /\ IsFiniteSet(Handlers(m)')
          /\ w[m.attempt] + Cardinality(Handlers(m)') <= w[m.attempt] + Cardinality(Handlers(m))
          /\ \A q \in Reapers :
                /\ b[<<q, m.attempt>>] + InHands(q, m)' <= a[<<q, m.attempt>>] + InHands(q, m)
                /\ pc'[q] = "times" => pc[q] = "times"
  BY <1>12
<1>15. Accounts(n.job, w, b)'
  BY ONLY Typed, Typed', requeue \in BOOLEAN, <1>10, <1>13, <1>14, PushedAccounts
<1> QED BY <1>15 DEF Accounted

\* The messages of other jobs are not concerned.
LEMMA PushQuietForOthers ==
  ASSUME Typed, Typed', NEW c \in Clients,
         (c \in Workers /\ FailPush(c)) \/ (c \in Reapers /\ ReapPush(c)),
         NEW m \in Message, m.job # holds[c].job
  PROVE  Quiet(m) /\ Waiting(m)' = Waiting(m)
<1>1. PICK label \in {"idle", "scan"} :
         /\ pc[c] \in {"requeue", "bury", "repush"} /\ pc' = [pc EXCEPT ![c] = label]
         /\ holds' = [holds EXCEPT ![c] = NoMsg] /\ UNCHANGED <<processing, seen, todo>>
         /\ c \in Reapers => label = "scan"
         /\ \/ NextAttempt(holds[c]).attempt < MaxAttempts
               /\ pending' = Append(pending, NextAttempt(holds[c]))
            \/ pending' = pending
  <2>1. CASE c \in Workers /\ FailPush(c)
    BY <2>1, ClientsAssumption DEF FailPush, Push, Release, Go, Take
  <2>2. CASE c \in Reapers /\ ReapPush(c)
    BY <2>2 DEF ReapPush, Push, Go, Take
  <2> QED BY <2>1, <2>2
<1>2. holds[c] \in Live /\ pc[c] \in Holding
  BY <1>1, HoldsLive DEF Holding
<1>3. /\ processing[m] \in Nat /\ processing'[m] = processing[m]
      /\ pc'[c] = label /\ holds'[c] = NoMsg
  BY <1>1 DEF Typed, TypeOK
<1>4. Quiet(m)
  <2>1. CASE c \in Workers
    <3>1. processing'[m] <= processing[m] /\ label \notin Holding
      BY <1>1, <1>3 DEF Holding
    <3>2. UNCHANGED <<seen, todo>>
      BY <1>1
    <3> QED BY <1>1, <2>1, <3>1, <3>2, WorkerQuiet
  <2>2. CASE c \in Reapers
    <3>1. /\ InHands(c, m)' = 0 /\ InHands(c, m) \in Nat
          /\ Claims(c, m)' \subseteq Claims(c, m) /\ Claims(c, m) \subseteq Nat
      BY <1>1, <1>3, <2>2, ClaimsAreNumbers DEF InHands, Claims
    <3>2. \A x \in Claims(c, m)' : \E y \in Claims(c, m) : InHands(c, m)' + x <= InHands(c, m) + y
      BY <3>1
    <3>3. /\ holds' = [holds EXCEPT ![c] = holds'[c]]
          /\ seen' = [seen EXCEPT ![c] = seen'[c]] /\ todo' = [todo EXCEPT ![c] = todo'[c]]
          /\ processing'[m] <= processing[m]
      BY <1>1, <1>3 DEF Typed, TypeOK
    <3> QED BY <1>1, <2>2, <3>2, <3>3, ReaperQuiet
  <2> QED BY <2>1, <2>2 DEF Clients
<1>5. Waiting(m)' = Waiting(m)
  <2>1. CASE pending' = pending
    BY <2>1 DEF Waiting
  <2>2. CASE /\ NextAttempt(holds[c]).attempt < MaxAttempts
             /\ pending' = Append(pending, NextAttempt(holds[c]))
    <3>1. PICK next \in Live : next = NextAttempt(holds[c]) /\ m # next
      BY <1>2, <2>2, NextAttemptOfLive
    <3>2. Waiting(m)' = Waiting(m) + 0
      BY <2>2, <3>1, WaitingAppend
    <3> QED BY <3>2, WaitingIsNumber
  <2> QED BY <1>1, <2>1, <2>2
<1> QED BY <1>4, <1>5

LEMMA UnchangedQuiet ==
  ASSUME Typed, UNCHANGED <<pending, processing, pc, holds, seen, todo>>, NEW m \in Message
  PROVE  Quiet(m) /\ Waiting(m)' = Waiting(m)
<1>1. processing[m] \in Nat /\ processing'[m] = processing[m] /\ Handlers(m)' = Handlers(m)
  BY DEF Typed, TypeOK, Handlers
<1>2. \A r \in Reapers : /\ InHands(r, m)' = InHands(r, m) /\ InHands(r, m) \in Nat
                         /\ Claims(r, m)' = Claims(r, m) /\ Claims(r, m) \subseteq Nat
  BY ClaimsAreNumbers DEF InHands, Claims
<1> QED BY <1>1, <1>2 DEF Quiet, Waiting

LEMMA StepAccounts ==
  ASSUME Typed, Typed', [Next]_vars, NEW j \in Jobs, Accounted(j)
  PROVE  Accounted(j)'
<1>1. ASSUME NEW i \in Jobs, Enqueue(i) PROVE Accounted(j)'
  BY <1>1, EnqueueAccounts
<1>2. ASSUME NEW w \in Workers, Move(w) PROVE Accounted(j)'
  BY <1>2, MoveAccounts
<1>3. ASSUME NEW c \in Clients, (c \in Workers /\ FailPush(c)) \/ (c \in Reapers /\ ReapPush(c))
      PROVE  Accounted(j)'
  <2>1. CASE holds[c].job = j
    <3>1. PICK n : n = holds[c]
      OBVIOUS
    <3>2. Accounted(n.job)
      BY <2>1, <3>1
    <3>3. Accounted(n.job)'
      <4>1. CASE c \in Workers /\ FailPush(c)
        BY <3>1, <3>2, <4>1, WorkerPushAccounts
      <4>2. CASE c \in Reapers /\ ReapPush(c)
        BY <3>1, <3>2, <4>2, ReaperPushAccounts
      <4> QED BY <1>3, <4>1, <4>2
    <3>4. n.job = j
      BY <2>1, <3>1
    <3> QED BY <3>3, <3>4
  <2>2. CASE holds[c].job # j
    <3>1. \A m \in Message : m.job = j => Quiet(m) /\ Waiting(m)' = Waiting(m)
      BY <1>3, <2>2, PushQuietForOthers
    <3>2. created' = created
      BY <1>3 DEF FailPush, ReapPush
    <3>3. created'[j] = None <=> created[j] = None
      BY <3>2
    <3> QED BY <3>1, <3>3, QuietAccounts
  <2> QED BY <2>1, <2>2
<1>4. ASSUME NEW w \in Workers,
             \/ Stamp(w) \/ Complete(w) \/ Forget(w) \/ (\E requeue \in BOOLEAN : Fail(w, requeue))
             \/ FailForget(w) \/ CrashWorker(w)
      PROVE  Accounted(j)'
  <2>1. pending' = pending /\ created' = created
    BY <1>4 DEF Stamp, Complete, Forget, Fail, FailForget, CrashWorker, queueVars
  <2>2. \A m \in Message : Quiet(m) /\ Waiting(m)' = Waiting(m)
    BY <1>4, <2>1, WorkersQuiet DEF Waiting
  <2>3. created'[j] = None <=> created[j] = None
    BY <2>1
  <2> QED BY <2>2, <2>3, QuietAccounts
<1>5. ASSUME NEW r \in Reapers,
             \/ Snapshot(r) \/ Judge(r) \/ (\E m \in Message : Reap(r, m)) \/ ReapForget(r) \/ ReapEnd(r)
             \/ CrashReaper(r) \/ ReapError(r)
      PROVE  Accounted(j)'
  <2>1. pending' = pending /\ created' = created
    BY <1>5 DEF Snapshot, Judge, Reap, ReapForget, ReapEnd, CrashReaper, ReapError, queueVars
  <2>2. \A m \in Message : Quiet(m) /\ Waiting(m)' = Waiting(m)
    BY <1>5, <2>1, ReapersQuiet DEF Waiting
  <2>3. created'[j] = None <=> created[j] = None
    BY <2>1
  <2> QED BY <2>2, <2>3, QuietAccounts
<1>6. CASE Tick \/ UNCHANGED vars
  <2>1. UNCHANGED <<pending, processing, pc, holds, seen, todo>>
    BY <1>6 DEF Tick, vars
  <2>2. created'[j] = None <=> created[j] = None
    <3>1. CASE UNCHANGED vars
      BY <3>1 DEF vars
    <3>2. CASE Tick
      <4>1. created[j] \in Age \cup {None} /\ created'[j] = Older(created[j])
        BY <3>2 DEF Tick, Typed, TypeOK
      <4> QED BY <4>1, OlderAge
    <3> QED BY <1>6, <3>1, <3>2
  <2> QED BY <2>1, <2>2, UnchangedQuiet, QuietAccounts
<1> QED BY <1>1, <1>2, <1>3, <1>4, <1>5, <1>6 DEF Next, WorkerStep, ReaperStep, Clients

LEMMA InitAccounts == ASSUME Init, NEW j \in Jobs PROVE Accounted(j)
<1> DEFINE w == [k \in Nat |-> 0]
           a == [p \in Reapers \X Nat |-> 0]
<1>1. /\ w \in [Nat -> Nat] /\ \A k \in Nat : w[k] = 0
      /\ a \in [Reapers \X Nat -> Nat] /\ \A r \in Reapers, k \in Nat : a[<<r, k>>] = 0
  OBVIOUS
<1> HIDE DEF w, a
<1>2. \A k \in Nat : /\ ByReapers(a, k) = {} /\ IsFiniteSet(ByReapers(a, k))
                     /\ Cardinality(ByReapers(a, k)) = 0
  <2>1. ASSUME NEW k \in Nat, NEW p \in ByReapers(a, k) PROVE FALSE
    <3>1. p[1] \in Reapers /\ p[2] \in 1 .. a[<<p[1], k>>]
      BY DEF ByReapers
    <3>2. a[<<p[1], k>>] = 0
      BY <1>1, <3>1
    <3> QED BY <3>1, <3>2
  <2> QED BY <2>1, FS_EmptySet
<1>3. Counts(w, a)
  BY <1>1, <1>2 DEF Counts
<1>4. ASSUME NEW m \in Message, m.job = j PROVE Within(m, w, a)
  <2>1. Waiting(m) = 0
    <3>1. {i \in DOMAIN pending : pending[i] = m} = {}
      BY DEF Init
    <3> QED BY <3>1, FS_EmptySet DEF Waiting
  <2>2. m.attempt \in Nat /\ m.job \in Jobs
    BY DEF Message
  <2>3. Arrived(m.job, w, a, m.attempt) = 0
    <3>1. CASE m.attempt = 0
      BY <2>2, <3>1 DEF Arrived, Init
    <3>2. CASE m.attempt # 0
      <4>1. m.attempt - 1 \in Nat
        BY <2>2, <3>2
      <4> QED BY <1>1, <1>2, <3>2, <4>1 DEF Arrived, Pushed
    <3> QED BY <3>1, <3>2
  <2>4. processing[m] = 0 /\ w[m.attempt] = 0
    BY <1>1, <2>2 DEF Init
  <2>5. IsFiniteSet(Handlers(m)) /\ Cardinality(Handlers(m)) = 0
    <3>1. Handlers(m) = {}
      BY DEF Handlers, Init, Holding, Clients
    <3> QED BY <3>1, FS_EmptySet
  <2>6. \A r \in Reapers : /\ a[<<r, m.attempt>>] = 0 /\ InHands(r, m) = 0
                           /\ \A x \in Claims(r, m) : x = 0
    BY <1>1, <2>2 DEF InHands, Claims, Init, Clients
  <2> QED BY <2>1, <2>3, <2>4, <2>5, <2>6 DEF Within
<1> QED BY <1>3, <1>4 DEF Accounted, Accounts

-----------------------------------------------------------------------------
(* The bound. *)

LEMMA DeliveriesAre ==
  /\ Deliveries[0] = 1
  /\ \A k \in 1 .. MaxAttempts : Deliveries[k] = (1 + Cardinality(Reapers)) * Deliveries[k - 1]
  /\ \A k \in 0 .. MaxAttempts : Deliveries[k] \in Nat
<1> DEFINE R == Cardinality(Reapers)
           Of(s, n) == IF n = 0 THEN 1 ELSE (1 + R) * s[n - 1]
           Solves(s, k) == s = [n \in 0 .. k |-> Of(s, n)]
           unsolved == {k \in Nat : ~ \E s : Solves(s, k)}
<1>1. R \in Nat
  BY ClientsAssumption, FS_CardinalityType
<1> HIDE DEF R
<1>2. unsolved = {}
  <2> SUFFICES ASSUME unsolved # {} PROVE FALSE
    OBVIOUS
  <2>1. PICK k \in unsolved : \A m \in unsolved : k <= m
    BY LeastNumber
  <2>2. CASE k = 0
    <3>1. Solves([n \in 0 .. 0 |-> 1], 0)
      OBVIOUS
    <3> QED BY <2>2, <3>1
  <2>3. CASE k # 0
    <3>1. k - 1 \in Nat /\ k - 1 \notin unsolved
      <4>1. k \in Nat
        OBVIOUS
      <4> HIDE DEF unsolved
      <4>2. k - 1 \in Nat /\ ~ (k <= k - 1)
        BY <2>3, <4>1
      <4> QED BY <2>1, <4>2
    <3>2. PICK s : Solves(s, k - 1)
      BY <3>1
    <3> DEFINE t == [n \in 0 .. k |-> IF n = k THEN Of(s, k) ELSE s[n]]
    <3>3. \A n \in 0 .. (k - 1) : t[n] = s[n]
      BY <2>1
    <3>4. ASSUME NEW n \in 0 .. k PROVE t[n] = Of(t, n)
      <4>1. CASE n = k
        <5>1. t[k - 1] = s[k - 1]
          BY <2>1, <2>3, <3>3
        <5> QED BY <2>3, <4>1, <5>1
      <4>2. CASE n # k
        <5>1. n \in 0 .. (k - 1) /\ (n # 0 => n - 1 \in 0 .. (k - 1))
          BY <2>1, <4>2
        <5>2. s[n] = Of(s, n)
          BY <3>2, <5>1
        <5> QED BY <3>3, <5>1, <5>2
      <4> QED BY <4>1, <4>2
    <3>5. Solves(t, k)
      <4>1. t = [n \in 0 .. k |-> t[n]]
        OBVIOUS
      <4> HIDE DEF t, Of
      <4>2. [n \in 0 .. k |-> t[n]] = [n \in 0 .. k |-> Of(t, n)]
        BY <3>4
      <4> QED BY <4>1, <4>2
    <3> QED BY <3>5
  <2> QED BY <2>2, <2>3
<1>3. Solves(Deliveries, MaxAttempts)
  <2>1. MaxAttempts \in Nat
    BY MaxAttemptsAssumption
  <2>2. \E s : Solves(s, MaxAttempts)
    BY <1>2, <2>1
  <2> QED BY <2>2 DEF Deliveries, R
<1>4. /\ Deliveries[0] = 1
      /\ \A k \in 1 .. MaxAttempts : Deliveries[k] = (1 + R) * Deliveries[k - 1]
  <2>1. \A k \in 0 .. MaxAttempts : Deliveries[k] = Of(Deliveries, k)
    BY <1>3
  <2> QED BY <2>1, MaxAttemptsAssumption
<1>5. \A k \in 0 .. MaxAttempts : Deliveries[k] \in Nat
  <2> DEFINE odd == {k \in 0 .. MaxAttempts : Deliveries[k] \notin Nat}
  <2> SUFFICES ASSUME odd # {} PROVE FALSE
    OBVIOUS
  <2>1. PICK k \in odd : \A m \in odd : k <= m
    <3>1. odd \in SUBSET Nat
      OBVIOUS
    <3> HIDE DEF odd
    <3> QED BY <3>1, LeastNumber
  <2>2. k # 0
    BY <1>4
  <2>3. k \in 1 .. MaxAttempts /\ k - 1 \in 0 .. MaxAttempts /\ ~ (k <= k - 1)
    BY <2>2, MaxAttemptsAssumption
  <2>4. k - 1 \notin odd
    BY <2>1, <2>3
  <2>5. Deliveries[k - 1] \in Nat /\ Deliveries[k] = (1 + R) * Deliveries[k - 1]
    BY <1>4, <2>3, <2>4
  <2>6. \A x \in Nat : (1 + R) * x \in Nat
    BY <1>1
  <2> QED BY <2>5, <2>6
<1> QED BY <1>4, <1>5 DEF R

\* If no client pushes on more than has come in of an attempt, then the next is bounded too.
LEMMA ArrivedIsBounded ==
  ASSUME Typed, NEW j \in Jobs, NEW w, NEW a, Accounts(j, w, a), NEW k \in 0 .. MaxAttempts
  PROVE  Arrived(j, w, a, k) <= Deliveries[k]
<1> DEFINE R == Cardinality(Reapers)
           beyond == {i \in 0 .. MaxAttempts : ~ (Arrived(j, w, a, i) <= Deliveries[i])}
<1>1. R \in Nat /\ IsFiniteSet(Reapers)
  BY ClientsAssumption, FS_CardinalityType
<1>2. Counts(w, a)
  BY DEF Accounts
<1> SUFFICES ASSUME beyond # {} PROVE FALSE
  OBVIOUS
<1>3. PICK i \in beyond : \A h \in beyond : i <= h
  <2>1. beyond \in SUBSET Nat
    OBVIOUS
  <2> HIDE DEF beyond
  <2> QED BY <2>1, LeastNumber
<1>4. i # 0
  <2>1. Arrived(j, w, a, 0) <= 1
    BY DEF Arrived
  <2> QED BY <2>1, DeliveriesAre
<1> DEFINE h == i - 1
<1>5. i \in 1 .. MaxAttempts /\ h \in 0 .. MaxAttempts /\ h \in Nat /\ ~ (i <= h)
  BY <1>4, MaxAttemptsAssumption
<1>6. Arrived(j, w, a, h) <= Deliveries[h] /\ ~ (Arrived(j, w, a, i) <= Deliveries[i])
  BY <1>3, <1>5
<1>7. Arrived(j, w, a, i) = w[h] + Cardinality(ByReapers(a, h))
  BY <1>4 DEF Arrived, Pushed
<1>8. Deliveries[i] = (1 + R) * Deliveries[h] /\ Deliveries[h] \in Nat
  BY <1>5, DeliveriesAre
<1>9. Arrived(j, w, a, h) \in Nat /\ w[h] \in Nat
  BY <1>2, <1>5, ArrivedIsNumber DEF Counts
<1> HIDE DEF h, R
<1>10. PICK m \in Message : m.job = j /\ m.attempt = h
  <2>1. [job |-> j, attempt |-> h] \in Message
    BY <1>5 DEF Message
  <2> QED BY <2>1
<1>11. Within(m, w, a) /\ Waiting(m) \in Nat
  BY <1>10, WaitingIsNumber DEF Accounts
<1>12. w[h] <= Deliveries[h]
  <2>1. /\ IsFiniteSet(Handlers(m))
        /\ w[h] + Cardinality(Handlers(m)) <= Arrived(j, w, a, h) - Waiting(m)
    BY <1>10, <1>11 DEF Within
  <2>2. Cardinality(Handlers(m)) \in Nat
    BY <2>1, FS_CardinalityType
  <2> QED BY <1>6, <1>8, <1>9, <1>11, <2>1, <2>2
<1>13. \A r \in Reapers : a[<<r, h>>] \in Nat /\ a[<<r, h>>] <= Deliveries[h]
  <2>1. ASSUME NEW r \in Reapers PROVE a[<<r, h>>] \in Nat /\ a[<<r, h>>] <= Deliveries[h]
    <3>1. a[<<r, h>>] \in Nat
      BY <1>2, <1>5 DEF Counts
    <3>2. a[<<r, h>>] + InHands(r, m) + processing[m] <= Arrived(j, w, a, h) - Waiting(m)
      BY <1>10, <1>11 DEF Within, Claims
    <3>3. InHands(r, m) \in Nat /\ processing[m] \in Nat
      BY DEF InHands, Typed, TypeOK
    <3> QED BY <1>6, <1>8, <1>9, <1>11, <3>1, <3>2, <3>3
  <2> QED BY <2>1
<1>14. Cardinality(ByReapers(a, h)) <= R * Deliveries[h] /\ Cardinality(ByReapers(a, h)) \in Nat
  <2> DEFINE D == Deliveries[h]
  <2>1. ByReapers(a, h) \in SUBSET (Reapers \X (1 .. D))
    <3>1. ASSUME NEW p \in ByReapers(a, h) PROVE p \in Reapers \X (1 .. D)
      <4>1. p \in Reapers \X Nat /\ p[1] \in Reapers /\ p[2] \in 1 .. a[<<p[1], h>>]
        BY DEF ByReapers
      <4>2. p[2] \in 1 .. D
        BY <1>8, <1>13, <4>1
      <4> QED BY <4>1, <4>2
    <3> QED BY <3>1
  <2>2. IsFiniteSet(1 .. D) /\ Cardinality(1 .. D) = D
    <3>1. D \in Nat
      BY <1>8
    <3> HIDE DEF D
    <3>2. IsFiniteSet(1 .. D) /\ Cardinality(1 .. D) = IF 1 > D THEN 0 ELSE D - 1 + 1
      <4>1. 1 \in Int /\ D \in Int
        BY <3>1
      <4> QED BY <4>1, FS_Interval
    <3> QED BY <3>1, <3>2
  <2> HIDE DEF D
  <2>3. IsFiniteSet(Reapers \X (1 .. D)) /\ Cardinality(Reapers \X (1 .. D)) = R * D
    BY <1>1, <2>2, FS_Product DEF R
  <2>4. /\ IsFiniteSet(ByReapers(a, h))
        /\ Cardinality(ByReapers(a, h)) <= Cardinality(Reapers \X (1 .. D))
    BY <2>1, <2>3, FS_Subset
  <2> QED BY <2>3, <2>4, FS_CardinalityType DEF D
<1>15. (1 + R) * Deliveries[h] = Deliveries[h] + R * Deliveries[h] /\ R * Deliveries[h] \in Nat
  <2>1. \A x, y \in Nat : (1 + x) * y = y + x * y /\ x * y \in Nat
    OBVIOUS
  <2>2. R \in Nat
    BY <1>1 DEF R
  <2> QED BY <1>8, <2>1, <2>2
<1> QED BY <1>6, <1>7, <1>8, <1>9, <1>12, <1>14, <1>15

\* For any number of workers, reapers and attempts: of every attempt of a job there are never
\* more messages in the pending and processing lists than its workers and all the reapers can
\* have pushed on, however fail(), reap_stale() and crashes interleave.
THEOREM DuplicationIsBounded == Spec => []BoundedDuplication
<1> DEFINE Sound == Typed /\ \A j \in Jobs : Accounted(j)
<1>1. Init => Sound
  BY InitTyped, InitAccounts
<1>2. Sound /\ [Next]_vars => Sound'
  <2> SUFFICES ASSUME Sound, [Next]_vars PROVE Sound'
    OBVIOUS
  <2>1. Typed'
    BY StepTyped
  <2> QED BY <2>1, StepAccounts
<1>3. Sound => BoundedDuplication
  <2> SUFFICES ASSUME Sound, NEW m \in Message PROVE Copies(m) <= Deliveries[m.attempt]
    BY DEF BoundedDuplication
  <2>1. m.job \in Jobs /\ m.attempt \in 0 .. MaxAttempts /\ m.attempt \in Nat
    BY DEF Message
  <2>2. PICK w, a : Accounts(m.job, w, a)
    BY <2>1 DEF Accounted
  <2>3. Arrived(m.job, w, a, m.attempt) <= Deliveries[m.attempt]
    BY <2>1, <2>2, ArrivedIsBounded
  <2>4. processing[m] <= Arrived(m.job, w, a, m.attempt) - Waiting(m)
    BY <2>2 DEF Accounts, Within
  <2>5. /\ processing[m] \in Nat /\ Waiting(m) \in Nat /\ Deliveries[m.attempt] \in Nat
        /\ Arrived(m.job, w, a, m.attempt) \in Nat
    <3>1. Counts(w, a)
      BY <2>2 DEF Accounts
    <3> QED BY <2>1, <3>1, WaitingIsNumber, DeliveriesAre, ArrivedIsNumber DEF Typed, TypeOK
  <2> QED BY <2>3, <2>4, <2>5 DEF Copies
<1> HIDE DEF Sound
<1> QED BY <1>1, <1>2, <1>3, PTL DEF Spec
=============================================================================
