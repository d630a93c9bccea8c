------------------------------- MODULE CtlJobs ------------------------------
(***************************************************************************)
(* The jobs of the control panel (tools/ctl_portal/jobs.py): one action of *)
(* the control script at a time, in a process of its own.  Requests are    *)
(* served by threads, and every process has a thread that reads its        *)
(* output; a step is what a thread does between two points where another   *)
(* may see or change a job.                                                *)
(***************************************************************************)
EXTENDS Integers, FiniteSets

CONSTANTS Jobs,     \* in the order in which they are begun: 1..n
          Clicks    \* the requests to cancel

VARIABLES
    job,     \* status of each job: "none" before it is begun
    proc,    \* its process: "none", "alive", "gone" or "killed", which is gone by the signal
    pump,    \* its thread: "none", "reading", "waited", "settling", "over"
    click,   \* [at, job] of each request to cancel
    owed     \* the job whose request has yet to start its process, or 0

ctlVars == <<job, proc, pump, click, owed>>

Init ==
    /\ job = [j \in Jobs |-> "none"]
    /\ proc = [j \in Jobs |-> "none"]
    /\ pump = [j \in Jobs |-> "none"]
    /\ click = [c \in Clicks |-> [at |-> "new", job |-> 0]]
    /\ owed = {}

-----------------------------------------------------------------------------
active == {j \in Jobs : job[j] = "running"}

\* A mistake of Begin: whether a job runs is asked of the processes.
BeginIdle(j) ==
    /\ job[j] = "none" /\ \A i \in Jobs : i < j => job[i] # "none"
    /\ \A i \in Jobs : proc[i] # "alive"
    /\ job' = [job EXCEPT ![j] = "running"]
    /\ owed' = owed \cup {j}
    /\ UNCHANGED <<proc, pump, click>>

\* start, under the lock: while a job runs a request is given that one.
Begin(j) ==
    /\ job[j] = "none" /\ \A i \in Jobs : i < j => job[i] # "none"
    /\ active = {}
    /\ job' = [job EXCEPT ![j] = "running"]
    /\ owed' = owed \cup {j}
    /\ UNCHANGED <<proc, pump, click>>

\* start, after the lock: the process and the thread of the job, or an exception.
Launch(j) ==
    /\ j \in owed
    /\ \/ proc' = [proc EXCEPT ![j] = "alive"] /\ pump' = [pump EXCEPT ![j] = "reading"]
       \/ UNCHANGED <<proc, pump>>
    /\ owed' = owed \ {j}
    /\ UNCHANGED <<job, click>>

\* The script comes to its end.
Exit(j) ==
    /\ proc[j] = "alive"
    /\ proc' = [proc EXCEPT ![j] = "gone"]
    /\ UNCHANGED <<job, pump, click, owed>>

\* _pump has read all output, then waits for the process; or the log cannot be written.
Wait(j) ==
    /\ pump[j] = "reading"
    /\ \/ proc[j] # "alive" /\ pump' = [pump EXCEPT ![j] = "waited"]
       \/ pump' = [pump EXCEPT ![j] = "over"]
    /\ UNCHANGED <<job, proc, click, owed>>

Look(j) ==
    /\ pump[j] = "waited"
    /\ pump' = [pump EXCEPT ![j] = IF job[j] = "cancelled" THEN "over" ELSE "settling"]
    /\ UNCHANGED <<job, proc, click, owed>>

Settle(j) ==
    /\ pump[j] = "settling"
    /\ pump' = [pump EXCEPT ![j] = "over"]
    /\ \E status \in {"done", "failed"} : job' = [job EXCEPT ![j] = status]
    /\ UNCHANGED <<proc, click, owed>>

\* cancel of a job that runs, or of one that does not.
AskCancel(c, j) ==
    /\ click[c].at = "new" /\ job[j] # "none"
    /\ click' = [click EXCEPT ![c] =
          [at |-> IF job[j] = "running" /\ proc[j] # "none" THEN "mark" ELSE "over", job |-> j]]
    /\ UNCHANGED <<job, proc, pump, owed>>

Mark(c) ==
    /\ click[c].at = "mark"
    /\ click' = [click EXCEPT ![c].at = "kill"]
    /\ job' = [job EXCEPT ![click[c].job] = "cancelled"]
    /\ UNCHANGED <<proc, pump, owed>>

\* A process may take its time over the signal, or ignore it.
Kill(c) ==
    /\ click[c].at = "kill"
    /\ click' = [click EXCEPT ![c].at = "over"]
    /\ \/ proc' = [proc EXCEPT ![click[c].job] = IF @ = "alive" THEN "killed" ELSE @]
       \/ UNCHANGED proc
    /\ UNCHANGED <<job, pump, owed>>

Next ==
    \/ \E j \in Jobs : Begin(j) \/ Launch(j) \/ Exit(j) \/ Wait(j) \/ Look(j) \/ Settle(j)
    \/ \E c \in Clicks :
          \/ \E j \in Jobs : AskCancel(c, j)
          \/ Mark(c) \/ Kill(c)

Spec == Init /\ [][Next]_ctlVars

-----------------------------------------------------------------------------
TypeOK ==
    /\ job \in [Jobs -> {"none", "running", "done", "failed", "cancelled"}]
    /\ proc \in [Jobs -> {"none", "alive", "gone", "killed"}]
    /\ pump \in [Jobs -> {"none", "reading", "waited", "settling", "over"}]
    /\ owed \subseteq Jobs

\* Of all jobs one is running at most, and only a cancelled one may have a process beside it:
\* a job is begun under the lock but its process is started, read and signalled outside of it
\* (jobs.py:70), and a cancelled process may live on.  What the panel reports of a job is
\* true: a job that was ended by the cancel is reported as cancelled, never as done or failed,
\* although the cancel and the thread that reports it do not take the lock (jobs.py:111).
OneJobRuns ==
    /\ Cardinality(active) <= 1
    /\ \A j \in Jobs :
          /\ proc[j] = "alive" => \/ job[j] \in {"running", "cancelled"}
          /\ proc[j] = "killed" => job[j] = "cancelled"
=============================================================================
