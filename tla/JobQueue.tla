------------------------------ MODULE JobQueue ------------------------------
(***************************************************************************)
(* The Redis job queue of mediacat/ingestion/queue.py: producers push jobs *)
(* on a pending list, workers move them one by one to a processing list,   *)
(* work on them and complete or fail them, and a periodic reaper requeues  *)
(* what has sat in the processing list for longer than STALE_JOB_TIMEOUT.  *)
(*                                                                         *)
(* Every Redis command is one step; between the commands of one method     *)
(* any other client may run, and the client itself may stop for good.      *)
(*                                                                         *)
(* Data: the bytes of a message are determined by the job and its attempt  *)
(* number, so a message is that pair.  The pending list is a sequence with *)
(* its next element (the RIGHT end) first.  The processing list is only    *)
(* read as a whole (LRANGE) and removed from by value (LREM), so it is a   *)
(* bag: the number of copies of every message.  The dead list is written   *)
(* and counted only, so it is the set of messages it holds.                *)
(*                                                                         *)
(* Time: an age counts ticks, saturates one tick after MaxAge, and is      *)
(* stale above MaxAge.                                                     *)
(***************************************************************************)
EXTENDS Integers, Sequences, FiniteSets

CONSTANTS
    Jobs,         \* job ids
    Workers,      \* worker processes, each running one job at a time
    Reapers,      \* processes that call reap_stale periodically
    MaxAttempts,  \* Job.max_attempts
    MaxAge,       \* max_age_seconds of reap_stale, in ticks
    NoMsg         \* what a client that holds no message has

ASSUME MaxAttemptsAssumption == MaxAttempts \in Nat \ {0}
ASSUME MaxAgeAssumption == MaxAge \in Nat
ASSUME ClientsAssumption == Workers \cap Reapers = {} /\ IsFiniteSet(Reapers)

Message == [job : Jobs, attempt : 0 .. MaxAttempts]
ASSUME NoMsgAssumption == NoMsg \notin Message

Clients == Workers \cup Reapers
Age == 0 .. MaxAge + 1
None == -1        \* no entry in HASH_PROCESSING_TIMES
Stale(age) == age > MaxAge
Older(age) == IF age \in 0 .. MaxAge THEN age + 1 ELSE age

VARIABLES
    created,     \* age of created_at of every enqueued job, None before enqueue
    pending,     \* QUEUE_PENDING, next message first
    processing,  \* QUEUE_PROCESSING: copies of every message
    dead,        \* QUEUE_DEAD
    times,       \* HASH_PROCESSING_TIMES: age of the stamp of every job, or None
    pc,          \* where each client is
    holds,       \* the message each client is handling
    seen,        \* reaper: the messages LRANGE returned and it has yet to look at
    todo,        \* reaper: of those, the ones HGETALL and the clock say are stale
    delivered,   \* messages BLMOVE has given to a worker (history)
    acked,       \* jobs some worker called complete() for (history)
    dropped      \* messages whose requeueing a failure cut short (history)

queueVars == <<created, pending, processing, dead, times>>
historyVars == <<delivered, acked, dropped>>
vars == <<created, pending, processing, dead, times, pc, holds, seen, todo,
          delivered, acked, dropped>>

Init ==
    /\ created = [j \in Jobs |-> None]
    /\ pending = << >>
    /\ processing = [m \in Message |-> 0]
    /\ dead = {}
    /\ times = [j \in Jobs |-> None]
    /\ pc = [c \in Clients |-> "idle"]
    /\ holds = [c \in Clients |-> NoMsg]
    /\ seen = [r \in Reapers |-> [m \in Message |-> 0]]
    /\ todo = [r \in Reapers |-> [m \in Message |-> 0]]
    /\ delivered = {}
    /\ acked = {}
    /\ dropped = {}

-----------------------------------------------------------------------------
(* Redis commands on the processing list and the hash. *)

\* LREM key 1 value: removes one copy, or none when there is none.
LRem(m) == processing' = [processing EXCEPT ![m] = IF @ > 0 THEN @ - 1 ELSE 0]

HDel(j) == times' = [times EXCEPT ![j] = None]

Go(c, label) == pc' = [pc EXCEPT ![c] = label]

Take(c, m) == holds' = [holds EXCEPT ![c] = m]

\* The message with its attempt counter raised, as fail() and reap_stale() do.
NextAttempt(m) == [job |-> m.job, attempt |-> m.attempt + 1]

\* A worker is done with its message and will call dequeue() again.
Release(w) ==
    /\ Take(w, NoMsg)
    /\ Go(w, "idle")

-----------------------------------------------------------------------------
(* Producer *)

\* enqueue(): LPUSH of a new job.
Enqueue(j) ==
    /\ created[j] = None
    /\ created' = [created EXCEPT ![j] = 0]
    /\ pending' = Append(pending, [job |-> j, attempt |-> 0])
    /\ UNCHANGED <<processing, dead, times, pc, holds, seen, todo, historyVars>>

-----------------------------------------------------------------------------
(* Workers *)

\* dequeue(), BLMOVE: pending to processing in one command.
Move(w) ==
    /\ pc[w] = "idle"
    /\ pending # << >>
    /\ LET m == Head(pending) IN
         /\ processing' = [processing EXCEPT ![m] = @ + 1]
         /\ Take(w, m)
         /\ delivered' = delivered \cup {m}
    /\ pending' = Tail(pending)
    /\ Go(w, "stamp")
    /\ UNCHANGED <<created, dead, times, seen, todo, acked, dropped>>

\* dequeue(), HSET: the time the job entered the processing list.
Stamp(w) ==
    /\ pc[w] = "stamp"
    /\ times' = [times EXCEPT ![holds[w].job] = 0]
    /\ Go(w, "working")
    /\ UNCHANGED <<created, pending, processing, dead, holds, seen, todo,
                   historyVars>>

\* complete(), LREM.
Complete(w) ==
    /\ pc[w] = "working"
    /\ LRem(holds[w])
    /\ acked' = acked \cup {holds[w].job}
    /\ Go(w, "completed")
    /\ UNCHANGED <<created, pending, dead, times, holds, seen, todo,
                   delivered, dropped>>

\* complete(), HDEL.
Forget(w) ==
    /\ pc[w] = "completed"
    /\ HDel(holds[w].job)
    /\ Release(w)
    /\ UNCHANGED <<created, pending, processing, dead, seen, todo, historyVars>>

\* fail(), LREM; fail() is called with requeue or without.
Fail(w, requeue) ==
    /\ pc[w] = "working"
    /\ LRem(holds[w])
    /\ Go(w, IF requeue THEN "failed" ELSE "rejected")
    /\ UNCHANGED <<created, pending, dead, times, holds, seen, todo, historyVars>>

\* fail(), HDEL.
FailForget(w) ==
    /\ pc[w] \in {"failed", "rejected"}
    /\ HDel(holds[w].job)
    /\ Go(w, IF pc[w] = "failed" THEN "requeue" ELSE "bury")
    /\ UNCHANGED <<created, pending, processing, dead, holds, seen, todo,
                   historyVars>>

\* A mistake of Push: an exhausted message is thrown away.
PushLossy(c, requeue) ==
    LET m == NextAttempt(holds[c]) IN
    IF requeue /\ m.attempt < MaxAttempts
    THEN pending' = Append(pending, m) /\ UNCHANGED dead
    ELSE UNCHANGED <<pending, dead>>

\* A mistake of Push: one attempt more than there are.
PushOneMore(c, requeue) ==
    LET m == NextAttempt(holds[c]) IN
    IF requeue /\ m.attempt <= MaxAttempts
    THEN pending' = Append(pending, m) /\ UNCHANGED dead
    ELSE dead' = dead \cup {m} /\ UNCHANGED pending

\* The LPUSH that ends fail() and one round of reap_stale().
Push(c, requeue) ==
    LET m == NextAttempt(holds[c]) IN
    IF requeue /\ m.attempt < MaxAttempts
    THEN /\ pending' = Append(pending, m)
         /\ UNCHANGED dead
    ELSE /\ dead' = dead \cup {m}
         /\ UNCHANGED pending

\* fail(), LPUSH to the pending list or to the dead-letter list.
FailPush(w) ==
    /\ pc[w] \in {"requeue", "bury"}
    /\ Push(w, pc[w] = "requeue")
    /\ Release(w)
    /\ UNCHANGED <<created, processing, times, seen, todo, historyVars>>

-----------------------------------------------------------------------------
(* Reapers *)

\* reap_stale(), LRANGE 0 -1.
Snapshot(r) ==
    /\ pc[r] = "idle"
    /\ seen' = [seen EXCEPT ![r] = processing]
    /\ Go(r, "times")
    /\ UNCHANGED <<queueVars, holds, todo, historyVars>>

\* A mistake of JudgedAge: jobs without a stamp have no age.
StampedAge(j) == times[j]

\* The age reap_stale() goes by: the stamp, else created_at.
JudgedAge(j) == IF times[j] # None THEN times[j] ELSE created[j]

\* reap_stale(), HGETALL and the reading of the clock; the loop then acts on
\* the items of the snapshot that are stale by what was read here.
Judge(r) ==
    /\ pc[r] = "times"
    /\ todo' = [todo EXCEPT ![r] = [m \in Message |->
                  IF Stale(JudgedAge(m.job)) THEN seen[r][m] ELSE 0]]
    /\ seen' = [seen EXCEPT ![r] = [m \in Message |-> 0]]
    /\ Go(r, "scan")
    /\ UNCHANGED <<queueVars, holds, historyVars>>

\* A mistake of Reap: the stale message is requeued and stays where it was.
ReapKeeping(r, m) ==
    /\ pc[r] = "scan"
    /\ todo[r][m] > 0
    /\ todo' = [todo EXCEPT ![r][m] = @ - 1]
    /\ Take(r, m)
    /\ Go(r, "reaped")
    /\ UNCHANGED <<queueVars, seen, historyVars>>

\* reap_stale(), the LREM of one stale item; what it removed is not looked at.
Reap(r, m) ==
    /\ pc[r] = "scan"
    /\ todo[r][m] > 0
    /\ todo' = [todo EXCEPT ![r][m] = @ - 1]
    /\ LRem(m)
    /\ Take(r, m)
    /\ Go(r, "reaped")
    /\ UNCHANGED <<created, pending, dead, times, seen, historyVars>>

\* reap_stale(), HDEL.
ReapForget(r) ==
    /\ pc[r] = "reaped"
    /\ HDel(holds[r].job)
    /\ Go(r, "repush")
    /\ UNCHANGED <<created, pending, processing, dead, holds, seen, todo,
                   historyVars>>

\* reap_stale(), LPUSH; then the next item.
ReapPush(r) ==
    /\ pc[r] = "repush"
    /\ Push(r, TRUE)
    /\ Take(r, NoMsg)
    /\ Go(r, "scan")
    /\ UNCHANGED <<created, processing, times, seen, todo, historyVars>>

\* The loop has seen every item; the reaper sleeps until its next round.
ReapEnd(r) ==
    /\ pc[r] = "scan"
    /\ \A m \in Message : todo[r][m] = 0
    /\ Go(r, "idle")
    /\ UNCHANGED <<queueVars, holds, seen, todo, historyVars>>

-----------------------------------------------------------------------------
(* Failures and time *)

\* A failure between the LREM and the LPUSH leaves the message in no list.
InHand(c) == pc[c] \in {"failed", "rejected", "requeue", "bury", "reaped", "repush"}

Drop(c) == dropped' = IF InHand(c) THEN dropped \cup {holds[c]} ELSE dropped

\* A worker dies, or loses its connection to Redis, and starts afresh.
CrashWorker(w) ==
    /\ pc[w] # "idle"
    /\ Drop(w)
    /\ Release(w)
    /\ UNCHANGED <<queueVars, seen, todo, delivered, acked>>

\* A reaper dies in the middle of a round.
CrashReaper(r) ==
    /\ pc[r] # "idle"
    /\ Drop(r)
    /\ Take(r, NoMsg)
    /\ Go(r, "idle")
    /\ seen' = [seen EXCEPT ![r] = [m \in Message |-> 0]]
    /\ todo' = [todo EXCEPT ![r] = [m \in Message |-> 0]]
    /\ UNCHANGED <<queueVars, delivered, acked>>

\* A Redis error in one round of the loop is logged and the loop goes on.
ReapError(r) ==
    /\ pc[r] \in {"reaped", "repush"}
    /\ Drop(r)
    /\ Take(r, NoMsg)
    /\ Go(r, "scan")
    /\ UNCHANGED <<queueVars, seen, todo, delivered, acked>>

Tick ==
    /\ created' = [j \in Jobs |-> Older(created[j])]
    /\ times' = [j \in Jobs |-> Older(times[j])]
    /\ UNCHANGED <<pending, processing, dead, pc, holds, seen, todo,
                   historyVars>>

-----------------------------------------------------------------------------
WorkerStep(w) ==
    \/ Stamp(w)
    \/ Complete(w) \/ Forget(w)
    \/ \E requeue \in BOOLEAN : Fail(w, requeue)
    \/ FailForget(w) \/ FailPush(w)

ReaperStep(r) ==
    \/ Snapshot(r) \/ Judge(r)
    \/ \E m \in Message : Reap(r, m)
    \/ ReapForget(r) \/ ReapPush(r) \/ ReapEnd(r)

Next ==
    \/ \E j \in Jobs : Enqueue(j)
    \/ \E w \in Workers : Move(w) \/ WorkerStep(w) \/ CrashWorker(w)
    \/ \E r \in Reapers : ReaperStep(r) \/ CrashReaper(r) \/ ReapError(r)
    \/ Tick

Spec == Init /\ [][Next]_vars

(***************************************************************************)
(* Fairness: a worker that has started a step takes the next one or dies;  *)
(* some idle worker takes a pending message; a reaper keeps making rounds  *)
(* and does not die at the same point of every round; time passes.         *)
(***************************************************************************)
Fairness ==
    /\ \A w \in Workers : WF_vars(WorkerStep(w))
    /\ WF_vars(\E w \in Workers : Move(w))
    /\ \A r \in Reapers :
         /\ WF_vars(Snapshot(r))
         /\ SF_vars(Judge(r))
         /\ SF_vars(\E m \in Message : Reap(r, m))
         /\ SF_vars(ReapForget(r))
         /\ SF_vars(ReapPush(r))
         /\ SF_vars(ReapEnd(r))
    /\ WF_vars(Tick)

FairSpec == Spec /\ Fairness

-----------------------------------------------------------------------------
(* Properties *)

\* Messages that may be delivered again have an attempt left.
Live == {m \in Message : m.attempt < MaxAttempts}

TypeOK ==
    /\ created \in [Jobs -> Age \cup {None}]
    /\ pending \in Seq(Live)
    /\ processing \in [Message -> Nat]
    /\ dead \subseteq Message
    /\ times \in [Jobs -> Age \cup {None}]
    /\ pc \in [Clients -> {"idle", "stamp", "working", "completed", "failed",
                           "rejected", "requeue", "bury", "times", "scan",
                           "reaped", "repush"}]
    /\ holds \in [Clients -> Live \cup {NoMsg}]
    /\ seen \in [Reapers -> [Message -> Nat]]
    /\ todo \in [Reapers -> [Message -> Nat]]
    /\ delivered \subseteq Message
    /\ acked \subseteq Jobs
    /\ dropped \subseteq Live

\* The attempt limit of queue.py:131 and :172.  However workers and reapers race on copies of a
\* message that is judged by an old snapshot, and whoever of them dies, the counter counts
\* deliveries: no worker is given a job once its attempts are used up, and a job is on the
\* dead-letter list with a count only after every attempt counted was given to a worker.
\* (Given, not begun: a message may be reaped before its worker has stamped it.)
AttemptsAreMade ==
    /\ delivered \subseteq Live
    /\ \A m \in dead : \A i \in 0 .. m.attempt - 1 :
           [job |-> m.job, attempt |-> i] \in delivered

\* Where a job can be found: its message is in a list, or in the hands of a
\* client that has removed it from one list and will push it on another.
Queued(j) == \E i \in DOMAIN pending : pending[i].job = j
InProcessing(j) == \E m \in Message : m.job = j /\ processing[m] > 0
Buried(j) == \E m \in dead : m.job = j
Carried(j) == \E c \in Clients : InHand(c) /\ holds[c].job = j
Dropped(j) == \E m \in dropped : m.job = j

\* The at-least-once promise of worker.py:7, as far as it goes: whatever the
\* interleaving of workers, reapers and crashes, a job that was enqueued and
\* that no worker has completed is in a list or on its way to one, unless a
\* failure hit between the LREM and the LPUSH of fail() or reap_stale().
JobConservation ==
    \A j \in Jobs : created[j] # None =>
        \/ j \in acked
        \/ Queued(j) \/ InProcessing(j) \/ Buried(j) \/ Carried(j)
        \/ Dropped(j)

\* How many messages of an attempt there can be of one job: each of the attempt before is pushed
\* on by its worker and by every reaper.
Deliveries[attempt \in 0 .. MaxAttempts] ==
    IF attempt = 0 THEN 1 ELSE (1 + Cardinality(Reapers)) * Deliveries[attempt - 1]

\* Nobody looks at what LREM removed, so a worker's fail() and a reaper may
\* both requeue one message.  The duplication is bounded all the same: each
\* delivery of an attempt gives at most one message of the next attempt by its
\* worker and one by each reaper.
Waiting(m) == Cardinality({i \in DOMAIN pending : pending[i] = m})
Copies(m) == processing[m] + Waiting(m)
BoundedDuplication == \A m \in Message : Copies(m) <= Deliveries[m.attempt]

\* Every job comes to an end even if workers die on it again and again: the
\* reaper brings it back until its attempts are used up (queue.py:12, 171-176).
EventuallySettled ==
    \A j \in Jobs : created[j] # None ~> (j \in acked \/ Buried(j) \/ Dropped(j))

\* A job that a reaper brings back after its completion is worked off too: the
\* lists run empty again and again.
EventuallyDrained ==
    []<>(pending = << >> /\ \A m \in Message : processing[m] = 0)
=============================================================================
