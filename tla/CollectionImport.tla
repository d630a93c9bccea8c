-------------------------- MODULE CollectionImport --------------------------
(***************************************************************************)
(* The collection import of web/admin.py: a row per import job, a          *)
(* background asyncio task per start or resume, and the in-process         *)
(* dictionary _stop_flags by which the pause handler reaches the task and  *)
(* the import page tells a running job from a zombie.                      *)
(*                                                                         *)
(* Every await is a point where the other handlers and tasks may run: a    *)
(* step is what one coroutine does from one await that matters to the next.*)
(* The server process may die at any time; it takes the tasks and the      *)
(* dictionary with it, and the rows stay.                                  *)
(*                                                                         *)
(* Data: a run is a start or resume request together with the task it      *)
(* launches, so a stop event is named by its run.  The collection is a set *)
(* of releases on pages; the order within a page is left open.  Of the     *)
(* three counters only imported_count is kept: the other two are counted,  *)
(* stored and loaded the same way, and no decision depends on any of them. *)
(***************************************************************************)
EXTENDS Integers, FiniteSets

CONSTANTS
    Jobs,         \* rows of collection_import_jobs
    Runs,         \* start and resume requests, each with its task
    Releases,     \* the releases of the collection
    Page,         \* the page each release is on
    MaxFailures,  \* consecutive failures after which a run gives up
    MaxPauses,    \* bound on the number of pause requests
    None

Pages == {Page[rel] : rel \in Releases}

\* Pages are counted from one, and none of them is empty.
ASSUME PageAssumption ==
    /\ IsFiniteSet(Releases) /\ Releases # {}
    /\ Page \in [Releases -> Nat \ {0}]
    /\ Pages = 1 .. Cardinality(Pages)
ASSUME MaxFailuresAssumption == MaxFailures \in Nat \ {0}
ASSUME MaxPausesAssumption == MaxPauses \in Nat
ASSUME NoneAssumption == None \notin Jobs \cup Runs \cup Releases

LastPage == CHOOSE n \in Pages : \A p \in Pages : p <= n

VARIABLES
    status,      \* of every job, None before it is created
    imported_count, \* of every job
    last_page,   \* last_page of every job
    flag,        \* _stop_flags: the run whose event is registered for a job
    stopped,     \* the runs whose stop event is set
    pausing,     \* jobs whose pause handler has yet to write the row
    pauses,      \* how many pause requests there were
    viewed,      \* jobs the import page has selected as zombie candidates
    copies,      \* tokens in the catalogue for every release
    pc,          \* where each run is
    job,         \* the job of each run
    reimport,    \* is the run to update releases already in the catalogue
    page,        \* page of each run
    todo,        \* releases of that page the run has not looked at
    current,     \* the release the run is importing
    imported,    \* what each run has counted
    failures,    \* consecutive_failures of each run
    handled,     \* releases imported, skipped or failed by a run of a job (history)
    overlapped   \* were two tasks ever alive at once (history)

rowVars == <<status, imported_count, last_page>>
handlerVars == <<pausing, pauses, viewed>>
runVars == <<page, todo, current, imported, failures>>
vars == <<rowVars, flag, stopped, handlerVars, copies, pc, job, reimport, runVars,
          handled, overlapped>>

Init ==
    /\ status = [j \in Jobs |-> None]
    /\ imported_count = [j \in Jobs |-> 0]
    /\ last_page = [j \in Jobs |-> 1]
    /\ flag = [j \in Jobs |-> None]
    /\ stopped = {}
    /\ pausing = {}
    /\ pauses = 0
    /\ viewed = {}
    /\ copies = [rel \in Releases |-> 0]
    /\ pc = [k \in Runs |-> "new"]
    /\ job = [k \in Runs |-> None]
    /\ reimport = [k \in Runs |-> FALSE]
    /\ page = [k \in Runs |-> 1]
    /\ todo = [k \in Runs |-> {}]
    /\ current = [k \in Runs |-> None]
    /\ imported = [k \in Runs |-> 0]
    /\ failures = [k \in Runs |-> 0]
    /\ handled = [j \in Jobs |-> {}]
    /\ overlapped = FALSE

-----------------------------------------------------------------------------
Go(k, label) == pc' = [pc EXCEPT ![k] = label]

\* A task between its creation and the end of its finally clause.
Alive(k) == pc[k] \notin {"new", "launch", "done"}

\* _mark: one UPDATE of the job's row; when it fails, the task goes on without it.
Write(k, s, progress, reached) ==
    \/ /\ status' = [status EXCEPT ![job[k]] = s]
       /\ imported_count' = [imported_count EXCEPT ![job[k]] = progress]
       /\ last_page' = [last_page EXCEPT ![job[k]] = reached]
    \/ UNCHANGED rowVars

\* _mark with the status alone.
Mark(k, s) == Write(k, s, imported_count[job[k]], last_page[job[k]])

\* A mistake of Store: a resumed run would start after the page it stopped on.
StoreNext(k, s) == Write(k, s, imported[k], page[k] + 1)

\* _mark with the progress of the run.
Store(k, s) == Write(k, s, imported[k], page[k])

\* The run has imported, skipped or given up the release.
Handle(k, rel) == handled' = [handled EXCEPT ![job[k]] = @ \cup {rel}]

-----------------------------------------------------------------------------
(* The handlers that launch a run *)

\* import_start: the row is committed before the flag is registered.
Start(k, j) ==
    /\ pc[k] = "new"
    /\ status[j] = None
    /\ status' = [status EXCEPT ![j] = "pending"]
    /\ job' = [job EXCEPT ![k] = j]
    /\ \E again \in BOOLEAN : reimport' = [reimport EXCEPT ![k] = again]
    /\ Go(k, "launch")
    /\ UNCHANGED <<imported_count, last_page, flag, stopped, handlerVars, copies, runVars,
                   handled, overlapped>>

\* import_resume: whatever the status of the job is.
Resume(k, j) ==
    /\ pc[k] = "new"
    /\ status[j] # None
    /\ status' = [status EXCEPT ![j] = "pending"]
    /\ job' = [job EXCEPT ![k] = j]
    /\ Go(k, "launch")
    /\ UNCHANGED <<imported_count, last_page, flag, stopped, handlerVars, copies,
                   reimport, runVars, handled, overlapped>>

\* Both: the new event replaces the one registered, and the task is created.
Launch(k) ==
    /\ pc[k] = "launch"
    /\ flag' = [flag EXCEPT ![job[k]] = k]
    /\ overlapped' = (overlapped \/ \E other \in Runs : Alive(other))
    /\ Go(k, "begin")
    /\ UNCHANGED <<rowVars, stopped, handlerVars, copies, job, reimport, runVars, handled>>

-----------------------------------------------------------------------------
(* The task: _run_import *)

Begin(k) ==
    /\ pc[k] = "begin"
    /\ Mark(k, "running")
    /\ Go(k, "load")
    /\ UNCHANGED <<flag, stopped, handlerVars, copies, job, reimport,
                   runVars, handled, overlapped>>

\* A mistake of LoadProgress: a resumed run begins with the first page.
LoadFromStart(k) ==
    /\ pc[k] = "load"
    /\ page' = [page EXCEPT ![k] = 1]
    /\ imported' = [imported EXCEPT ![k] = imported_count[job[k]]]
    /\ Go(k, "first page")
    /\ UNCHANGED <<rowVars, flag, stopped, handlerVars, copies, job, reimport, todo,
                   current, failures, handled, overlapped>>

\* The run goes on from the progress the row has.
LoadProgress(k) ==
    /\ pc[k] = "load"
    /\ page' = [page EXCEPT ![k] = last_page[job[k]]]
    /\ imported' = [imported EXCEPT ![k] = imported_count[job[k]]]
    /\ Go(k, "first page")
    /\ UNCHANGED <<rowVars, flag, stopped, handlerVars, copies, job, reimport, todo,
                   current, failures, handled, overlapped>>

\* The check of the stop event before a page is fetched.
PageTop(k) ==
    /\ pc[k] \in {"first page", "page"}
    /\ IF k \in stopped
       THEN Mark(k, "paused") /\ Go(k, "closing")
       ELSE Go(k, IF pc[k] = "page" THEN "fetch" ELSE "first fetch") /\ UNCHANGED rowVars
    /\ UNCHANGED <<flag, stopped, handlerVars, copies, job, reimport,
                   runVars, handled, overlapped>>

\* fetch_user_collection; the first page also says how large the collection is.
Fetch(k) ==
    /\ pc[k] \in {"first fetch", "fetch"}
    /\ todo' = [todo EXCEPT ![k] = {rel \in Releases : Page[rel] = page[k]}]
    /\ failures' = [failures EXCEPT ![k] = 0]
    /\ IF pc[k] = "first fetch" THEN Mark(k, "running") ELSE UNCHANGED rowVars
    /\ Go(k, "release")
    /\ UNCHANGED <<flag, stopped, handlerVars, copies, job, reimport,
                   page, current, imported, handled, overlapped>>

\* An error answer or an empty page.
FetchFails(k) ==
    /\ pc[k] \in {"first fetch", "fetch"}
    /\ IF pc[k] = "fetch" THEN Store(k, "failed") ELSE Mark(k, "failed")
    /\ Go(k, "closing")
    /\ UNCHANGED <<flag, stopped, handlerVars, copies, job, reimport, runVars, handled,
                   overlapped>>

\* The check of the stop event before a release.
StopAtRelease(k) ==
    /\ pc[k] = "release"
    /\ todo[k] # {}
    /\ k \in stopped
    /\ Store(k, "paused")
    /\ Go(k, "closing")
    /\ UNCHANGED <<flag, stopped, handlerVars, copies, job, reimport, runVars, handled,
                   overlapped>>

\* A release without a usable id.
BadRelease(k, rel) ==
    /\ pc[k] = "release" /\ k \notin stopped
    /\ rel \in todo[k]
    /\ todo' = [todo EXCEPT ![k] = @ \ {rel}]
    /\ Handle(k, rel)
    /\ UNCHANGED <<rowVars, flag, stopped, handlerVars, copies, pc, job, reimport, page,
                   current, imported, failures, overlapped>>

\* The lookup found the release, or it failed: skipped.
Skip(k, rel) ==
    /\ pc[k] = "release" /\ k \notin stopped
    /\ rel \in todo[k]
    /\ todo' = [todo EXCEPT ![k] = @ \ {rel}]
    /\ Handle(k, rel)
    /\ failures' = [failures EXCEPT ![k] = 0]
    /\ UNCHANGED <<rowVars, flag, stopped, handlerVars, copies, pc, job, reimport, page,
                   current, imported, overlapped>>

\* A mistake of LookUp: what is to be updated is inserted again.
LookUpBlind(k, rel) ==
    /\ pc[k] = "release" /\ k \notin stopped
    /\ rel \in todo[k]
    /\ copies[rel] = 0 \/ reimport[k]
    /\ todo' = [todo EXCEPT ![k] = @ \ {rel}]
    /\ current' = [current EXCEPT ![k] = rel]
    /\ Go(k, "insert")
    /\ UNCHANGED <<rowVars, flag, stopped, handlerVars, copies, job, reimport, page, imported,
                   failures, handled, overlapped>>

\* The lookup says what is to be done with the release.
LookUp(k, rel) ==
    /\ pc[k] = "release" /\ k \notin stopped
    /\ rel \in todo[k]
    /\ copies[rel] = 0 \/ reimport[k]
    /\ todo' = [todo EXCEPT ![k] = @ \ {rel}]
    /\ current' = [current EXCEPT ![k] = rel]
    /\ Go(k, IF copies[rel] = 0 THEN "insert" ELSE "update")
    /\ UNCHANGED <<rowVars, flag, stopped, handlerVars, copies, job, reimport, page, imported,
                   failures, handled, overlapped>>

\* The release is fetched and the token inserted, or updated.
ImportRelease(k) ==
    /\ pc[k] \in {"insert", "update"}
    /\ IF pc[k] = "insert" THEN copies' = [copies EXCEPT ![current[k]] = @ + 1]
                           ELSE UNCHANGED copies
    /\ imported' = [imported EXCEPT ![k] = @ + 1]
    /\ Handle(k, current[k])
    /\ failures' = [failures EXCEPT ![k] = 0]
    /\ current' = [current EXCEPT ![k] = None]
    /\ Go(k, "release")
    /\ UNCHANGED <<rowVars, flag, stopped, handlerVars, job, reimport, page, todo,
                   overlapped>>

\* Something failed before the token was stored.
ImportFails(k) ==
    /\ pc[k] \in {"insert", "update"}
    /\ Handle(k, current[k])
    /\ failures' = [failures EXCEPT ![k] = @ + 1]
    /\ current' = [current EXCEPT ![k] = None]
    /\ Go(k, IF failures[k] + 1 >= MaxFailures THEN "give up" ELSE "release")
    /\ UNCHANGED <<rowVars, flag, stopped, handlerVars, copies, job, reimport, page, todo,
                   imported, overlapped>>

\* Too many failures in a row.
GiveUp(k) ==
    /\ pc[k] = "give up"
    /\ Store(k, "failed")
    /\ Go(k, "closing")
    /\ UNCHANGED <<flag, stopped, handlerVars, copies, job, reimport, runVars, handled,
                   overlapped>>

\* A mistake of PageEnd: the last page is left out.
PageEndEarly(k) ==
    /\ pc[k] = "release"
    /\ todo[k] = {}
    /\ Store(k, "running")
    /\ IF page[k] + 1 >= LastPage
       THEN Go(k, "complete") /\ UNCHANGED page
       ELSE Go(k, "page") /\ page' = [page EXCEPT ![k] = @ + 1]
    /\ UNCHANGED <<flag, stopped, handlerVars, copies, job, reimport, todo, current, imported,
                   failures, handled, overlapped>>

\* All releases of the page are done.
PageEnd(k) ==
    /\ pc[k] = "release"
    /\ todo[k] = {}
    /\ Store(k, "running")
    /\ IF page[k] >= LastPage
       THEN Go(k, "complete") /\ UNCHANGED page
       ELSE Go(k, "page") /\ page' = [page EXCEPT ![k] = @ + 1]
    /\ UNCHANGED <<flag, stopped, handlerVars, copies, job, reimport, todo, current, imported,
                   failures, handled, overlapped>>

CompleteImport(k) ==
    /\ pc[k] = "complete"
    /\ Store(k, "completed")
    /\ Go(k, "closing")
    /\ UNCHANGED <<flag, stopped, handlerVars, copies, job, reimport, runVars, handled,
                   overlapped>>

\* An exception outside the handling of one release.
Blow(k) ==
    /\ pc[k] \in {"load", "first page", "page", "first fetch", "fetch", "release"}
    /\ Write(k, "failed", imported[k], last_page[job[k]])
    /\ Go(k, "closing")
    /\ UNCHANGED <<flag, stopped, handlerVars, copies, job, reimport, runVars,
                   handled, overlapped>>

\* A mistake of Close: the flag stays.
CloseOpen(k) ==
    /\ pc[k] = "closing"
    /\ Go(k, "done")
    /\ UNCHANGED <<rowVars, flag, stopped, handlerVars, copies, job, reimport, runVars,
                   handled, overlapped>>

\* The finally clause, after its await: the flag of the job goes, whosever it is.
Close(k) ==
    /\ pc[k] = "closing"
    /\ flag' = [flag EXCEPT ![job[k]] = None]
    /\ Go(k, "done")
    /\ UNCHANGED <<rowVars, stopped, handlerVars, copies, job, reimport, runVars, handled,
                   overlapped>>

-----------------------------------------------------------------------------
(* The other handlers, and the process *)

\* import_pause: the event is set, then the row is written.
Pause(j) ==
    /\ pauses < MaxPauses
    /\ status[j] # None /\ j \notin pausing
    /\ pauses' = pauses + 1
    /\ stopped' = IF flag[j] = None THEN stopped ELSE stopped \cup {flag[j]}
    /\ pausing' = pausing \cup {j}
    /\ UNCHANGED <<rowVars, flag, viewed, copies, pc, job, reimport, runVars, handled,
                   overlapped>>

\* The write of the row; an error is only logged.
PauseRow(j) ==
    /\ j \in pausing
    /\ status' \in {status, [status EXCEPT ![j] = "paused"]}
    /\ pausing' = pausing \ {j}
    /\ UNCHANGED <<imported_count, last_page, flag, stopped, pauses, viewed, copies, pc,
                   job, reimport, runVars, handled, overlapped>>

\* A mistake of View: pending jobs are not looked at.
ViewRunning ==
    /\ viewed = {}
    /\ viewed' = {j \in Jobs : status[j] = "running"}
    /\ viewed' # {}
    /\ UNCHANGED <<rowVars, flag, stopped, pausing, pauses, copies, pc, job, reimport,
                   runVars, handled, overlapped>>

\* The import page selects the jobs that may be zombies.
View ==
    /\ viewed = {}
    /\ viewed' = {j \in Jobs : status[j] \in {"running", "pending"}}
    /\ viewed' # {}
    /\ UNCHANGED <<rowVars, flag, stopped, pausing, pauses, copies, pc, job, reimport,
                   runVars, handled, overlapped>>

\* One of them, if no flag is registered for it, is marked as failed.
MarkZombie(j) ==
    /\ j \in viewed
    /\ flag[j] = None
    /\ status' = [status EXCEPT ![j] = "failed"]
    /\ viewed' = viewed \ {j}
    /\ UNCHANGED <<imported_count, last_page, flag, stopped, pausing, pauses, copies, pc,
                   job, reimport, runVars, handled, overlapped>>

SpareActive(j) ==
    /\ j \in viewed
    /\ flag[j] # None
    /\ viewed' = viewed \ {j}
    /\ UNCHANGED <<rowVars, flag, stopped, pausing, pauses, copies, pc, job, reimport,
                   runVars, handled, overlapped>>

\* The server process dies and starts again.
Restart ==
    /\ \E k \in Runs : pc[k] \notin {"new", "done"}
    /\ pc' = [k \in Runs |-> IF pc[k] = "new" THEN "new" ELSE "done"]
    /\ flag' = [j \in Jobs |-> None]
    /\ pausing' = {}
    /\ viewed' = {}
    /\ UNCHANGED <<rowVars, stopped, pauses, copies, job, reimport, runVars, handled,
                   overlapped>>

-----------------------------------------------------------------------------
RunStep(k) ==
    \/ Launch(k) \/ Begin(k) \/ LoadProgress(k) \/ PageTop(k)
    \/ Fetch(k) \/ FetchFails(k) \/ StopAtRelease(k)
    \/ \E rel \in Releases : BadRelease(k, rel) \/ Skip(k, rel) \/ LookUp(k, rel)
    \/ ImportRelease(k) \/ ImportFails(k) \/ GiveUp(k)
    \/ PageEnd(k) \/ CompleteImport(k) \/ Blow(k) \/ Close(k)

Next ==
    \/ \E k \in Runs, j \in Jobs : Start(k, j) \/ Resume(k, j)
    \/ \E k \in Runs : RunStep(k)
    \/ \E j \in Jobs : Pause(j) \/ PauseRow(j) \/ MarkZombie(j) \/ SpareActive(j)
    \/ View
    \/ Restart

Spec == Init /\ [][Next]_vars

\* The event loop runs every task and handler that can go on; administrators keep
\* opening the import page, which is when zombies are looked for.
FairSpec ==
    /\ Spec
    /\ \A k \in Runs : WF_vars(RunStep(k))
    /\ \A j \in Jobs : WF_vars(PauseRow(j)) /\ WF_vars(MarkZombie(j) \/ SpareActive(j))
    /\ WF_vars(View)

-----------------------------------------------------------------------------
(* Properties *)

TypeOK ==
    /\ status \in [Jobs -> {None, "pending", "running", "paused", "failed", "completed"}]
    /\ imported_count \in [Jobs -> Nat] /\ imported \in [Runs -> Nat]
    /\ last_page \in [Jobs -> Pages] /\ page \in [Runs -> Pages]
    /\ flag \in [Jobs -> Runs \cup {None}]
    /\ stopped \subseteq Runs
    /\ pausing \subseteq Jobs /\ viewed \subseteq Jobs
    /\ pauses \in 0 .. MaxPauses
    /\ copies \in [Releases -> Nat]
    /\ pc \in [Runs -> {"new", "launch", "begin", "load", "first page", "first fetch", "page",
                        "fetch", "release", "insert", "update", "give up", "complete",
                        "closing", "done"}]
    /\ job \in [Runs -> Jobs \cup {None}]
    /\ reimport \in [Runs -> BOOLEAN]
    /\ todo \in [Runs -> SUBSET Releases]
    /\ current \in [Runs -> Releases \cup {None}]
    /\ failures \in [Runs -> 0 .. MaxFailures]
    /\ handled \in [Jobs -> SUBSET Releases]

\* admin.html:143: a resumed import goes on from where it was, "so no progress is lost".
\* Pausing, resuming, failing and dying at any point, in any number of runs that
\* may even overlap, never makes an import jump over a release: what lies before
\* the page a resumed run would start on has been dealt with (admin.py:974-985).
ResumeSkipsNothing ==
    \A j \in Jobs : \A rel \in Releases : Page[rel] < last_page[j] => rel \in handled[j]

\* The same text of the page promises that "no progress is lost": as long as no two
\* tasks run at once, the page a job has reached never goes back.
ProgressKept ==
    [][overlapped' \/ \A j \in Jobs : last_page'[j] >= last_page[j]]_vars

\* A run that is about to report the job as completed leaves no release out.
CompletionIsComplete ==
    \A k \in Runs : pc[k] = "complete" => handled[job[k]] = Releases

\* The lookup before the insert keeps the catalogue free of duplicates as long as no
\* two tasks run at once.
DuplicatesNeedOverlap == overlapped \/ \A rel \in Releases : copies[rel] <= 1

\* The dictionary of stop events names live tasks only; and while tasks have never
\* overlapped every live task can be reached through it.  The types come with it, among them
\* the bound of the failures in a row.
FlagsMatchTasks ==
    /\ TypeOK
    /\ \A j \in Jobs : flag[j] # None => Alive(flag[j]) /\ job[flag[j]] = j
    /\ overlapped \/ \A k \in Runs : Alive(k) => flag[job[k]] = k

\* No job stays pending or running for ever: a task ends with another status, and
\* what a restart leaves behind is found by the import page (admin.py:127-158).
JobsSettle == <>[](\A j \in Jobs : status[j] \notin {"pending", "running"})

\* admin.py:127: the page marks jobs "that have no active asyncio task as failed".
ZombieHasNoTask ==
    [][\A j \in Jobs : MarkZombie(j) => ~ \E k \in Runs : Alive(k) /\ job[k] = j]_vars
=============================================================================
