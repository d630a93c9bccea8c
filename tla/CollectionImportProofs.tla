----------------------- MODULE CollectionImportProofs -----------------------
(***************************************************************************)
(* What holds of the collection import for every collection and any number *)
(* of jobs, runs, pauses and restarts.                                     *)
(*                                                                         *)
(* ResumeSkipsNothing is about rows, CompletionIsComplete about a run at   *)
(* its end; neither is inductive.  Covered adds what every run has behind  *)
(* it while it works on its page.  FlagsMatchTasks and the absence of      *)
(* duplicates need to know that tasks did not overlap: Reached says what   *)
(* the only task alive then may rely on, and ProgressKept follows from it. *)
(***************************************************************************)
EXTENDS CollectionImport, FiniteSetTheorems, TLAPS

-----------------------------------------------------------------------------
(* Types.  Besides TypeOK: a run that was launched has a job, one that is  *)
(* about to store a release has it, and one that still imports has not yet *)
(* failed too often.                                                       *)

Statuses == {"pending", "running", "paused", "failed", "completed"}
Labels == {"new", "launch", "begin", "load", "first page", "first fetch", "page", "fetch",
           "release", "insert", "update", "give up", "complete", "closing", "done"}

RowTypes ==
    /\ status \in [Jobs -> Statuses \cup {None}]
    /\ imported_count \in [Jobs -> Nat]
    /\ last_page \in [Jobs -> Pages]
HandlerTypes ==
    /\ flag \in [Jobs -> Runs \cup {None}]
    /\ stopped \subseteq Runs /\ pausing \subseteq Jobs /\ viewed \subseteq Jobs
    /\ pauses \in 0 .. MaxPauses
RunTypes ==
    /\ pc \in [Runs -> Labels]
    /\ job \in [Runs -> Jobs \cup {None}]
    /\ reimport \in [Runs -> BOOLEAN]
    /\ \A k \in Runs : pc[k] # "new" => job[k] \in Jobs
WorkTypes ==
    /\ page \in [Runs -> Pages]
    /\ todo \in [Runs -> SUBSET Releases]
    /\ current \in [Runs -> Releases \cup {None}]
    /\ \A k \in Runs : pc[k] \in {"insert", "update"} => current[k] \in Releases
CountTypes == imported \in [Runs -> Nat]
FailureTypes ==
    /\ failures \in [Runs -> 0 .. MaxFailures]
    /\ \A k \in Runs : pc[k] \notin {"give up", "closing", "done"} => failures[k] < MaxFailures
TokenTypes ==
    /\ copies \in [Releases -> Nat]
    /\ handled \in [Jobs -> SUBSET Releases]

Typed ==
    /\ RowTypes /\ HandlerTypes /\ RunTypes /\ WorkTypes /\ CountTypes /\ FailureTypes
    /\ TokenTypes

\* The bounds are numbers, and none of them is below where its counter begins.
LEMMA Limits == /\ 0 \in 0 .. MaxFailures /\ 0 < MaxFailures /\ MaxFailures \in Nat
                /\ 0 \in 0 .. MaxPauses /\ MaxPauses \in Nat
  BY MaxFailuresAssumption, MaxPausesAssumption

\* A collection has a last page: fetch_user_collection counts the pages from one, without
\* a gap.
LEMMA PagesEnd == LastPage \in Nat /\ Pages = 1 .. LastPage /\ 1 \in Pages
<1> DEFINE N == Cardinality(Pages)
<1>1. IsFiniteSet(Pages)
  <2>1. IsFiniteSet(Releases)
    BY PageAssumption
  <2>2. Page \in Surjection(Releases, Pages)
    BY PageAssumption DEF Surjection, Pages
  <2> QED BY <2>1, <2>2, FS_Surjection
<1>2. N \in Nat /\ Pages = 1 .. N
  BY <1>1, FS_CardinalityType, PageAssumption
<1> HIDE DEF N
<1>3. N \in Pages /\ 1 \in Pages
  <2>1. Pages # {}
    BY PageAssumption DEF Pages
  <2> QED BY <2>1, <1>2
<1>4. LastPage \in Pages /\ \A p \in Pages : p <= LastPage
  BY <1>2, <1>3 DEF LastPage
<1> QED BY <1>2, <1>3, <1>4

\* A write of the row, done or failed, leaves a row.
LEMMA RowsWritten ==
  ASSUME RowTypes, NEW k \in Runs, NEW s \in Statuses, NEW p \in Nat, NEW r \in Pages,
         Write(k, s, p, r)
  PROVE  RowTypes'
  BY DEF RowTypes, Write, rowVars

\* The types are TypeOK.
LEMMA TypedIsTypeOK == Typed => TypeOK
  BY DEF Typed, TypeOK, RowTypes, HandlerTypes, RunTypes, WorkTypes, CountTypes, FailureTypes,
         TokenTypes, Labels, Statuses

\* Nothing has run yet.
LEMMA TypedAtStart == Init => Typed
  BY PagesEnd, Limits, NoneAssumption
  DEF Init, Typed, RowTypes, HandlerTypes, RunTypes, WorkTypes, CountTypes, FailureTypes,
      TokenTypes, Labels, Statuses

\* Every handler, every step of _run_import and a restart keep the types.
LEMMA TypedStays == Typed /\ [Next]_vars => Typed'
<1> SUFFICES ASSUME Typed, [Next]_vars PROVE Typed'
  OBVIOUS
<1> USE DEF Typed
<1>1. ASSUME NEW k \in Runs, NEW j \in Jobs, Start(k, j) PROVE Typed'
  <2>1. HandlerTypes' /\ CountTypes' /\ TokenTypes'
    BY <1>1 DEF Start, HandlerTypes, CountTypes, TokenTypes, handlerVars, runVars
  <2>2. RowTypes'
    BY <1>1 DEF Start, Go, RowTypes, Statuses, RunTypes, rowVars
  <2>3. RunTypes'
    BY <1>1 DEF Start, Go, RunTypes, Labels
  <2>4. WorkTypes'
    BY <1>1 DEF Start, Go, WorkTypes, RunTypes, runVars
  <2>5. FailureTypes'
    BY <1>1, Limits DEF Start, Go, FailureTypes, RunTypes, runVars
  <2> QED BY <2>1, <2>2, <2>3, <2>4, <2>5
<1>2. ASSUME NEW k \in Runs, NEW j \in Jobs, Resume(k, j) PROVE Typed'
  <2>1. HandlerTypes' /\ CountTypes' /\ TokenTypes'
    BY <1>2 DEF Resume, HandlerTypes, CountTypes, TokenTypes, handlerVars, runVars
  <2>2. RowTypes'
    BY <1>2 DEF Resume, Go, RowTypes, Statuses, RunTypes, rowVars
  <2>3. RunTypes'
    BY <1>2 DEF Resume, Go, RunTypes, Labels
  <2>4. WorkTypes'
    BY <1>2 DEF Resume, Go, WorkTypes, RunTypes, runVars
  <2>5. FailureTypes'
    BY <1>2, Limits DEF Resume, Go, FailureTypes, RunTypes, runVars
  <2> QED BY <2>1, <2>2, <2>3, <2>4, <2>5
<1>3. ASSUME NEW k \in Runs, Launch(k) PROVE Typed'
  <2>1. RowTypes' /\ CountTypes' /\ TokenTypes'
    BY <1>3 DEF Launch, RowTypes, CountTypes, TokenTypes, rowVars, runVars
  <2>2. HandlerTypes'
    BY <1>3, NoneAssumption DEF Launch, Go, HandlerTypes, handlerVars
  <2>3. RunTypes'
    BY <1>3 DEF Launch, Go, RunTypes, Labels
  <2>4. WorkTypes'
    BY <1>3 DEF Launch, Go, WorkTypes, RunTypes, runVars
  <2>5. FailureTypes'
    BY <1>3, Limits DEF Launch, Go, FailureTypes, RunTypes, runVars
  <2> QED BY <2>1, <2>2, <2>3, <2>4, <2>5
<1>4. ASSUME NEW k \in Runs, Begin(k) PROVE Typed'
  <2>1. HandlerTypes' /\ CountTypes' /\ TokenTypes'
    BY <1>4 DEF Begin, HandlerTypes, CountTypes, TokenTypes, handlerVars, runVars
  <2>2. RowTypes'
    BY <1>4, RowsWritten DEF Begin, Go, Mark, Write, RowTypes, Statuses, RunTypes, rowVars
  <2>3. RunTypes'
    BY <1>4 DEF Begin, Go, RunTypes, Labels
  <2>4. WorkTypes'
    BY <1>4 DEF Begin, Go, WorkTypes, RunTypes, runVars
  <2>5. FailureTypes'
    BY <1>4, Limits DEF Begin, Go, FailureTypes, RunTypes, runVars
  <2> QED BY <2>1, <2>2, <2>3, <2>4, <2>5
<1>5. ASSUME NEW k \in Runs, LoadProgress(k) PROVE Typed'
  <2>1. RowTypes' /\ HandlerTypes' /\ TokenTypes'
    BY <1>5 DEF LoadProgress, RowTypes, HandlerTypes, TokenTypes, handlerVars, rowVars
  <2>2. RunTypes'
    BY <1>5 DEF LoadProgress, Go, RunTypes, Labels
  <2>3. WorkTypes'
    BY <1>5 DEF LoadProgress, Go, WorkTypes, RunTypes, RowTypes, runVars
  <2>4. CountTypes'
    BY <1>5 DEF LoadProgress, Go, CountTypes, RowTypes, RunTypes, runVars
  <2>5. FailureTypes'
    BY <1>5, Limits DEF LoadProgress, Go, FailureTypes, RunTypes, runVars
  <2> QED BY <2>1, <2>2, <2>3, <2>4, <2>5
<1>6. ASSUME NEW k \in Runs, PageTop(k) PROVE Typed'
  <2>1. HandlerTypes' /\ CountTypes' /\ TokenTypes'
    BY <1>6 DEF PageTop, HandlerTypes, CountTypes, TokenTypes, handlerVars, runVars
  <2>2. RowTypes'
    <3>1. CASE k \in stopped
      BY <1>6, <3>1, RowsWritten DEF PageTop, Mark, RowTypes, RunTypes, Statuses
    <3>2. CASE k \notin stopped
      BY <1>6, <3>2 DEF PageTop, RowTypes, rowVars
    <3> QED BY <3>1, <3>2
  <2>3. RunTypes'
    BY <1>6 DEF PageTop, Go, RunTypes, Labels
  <2>4. WorkTypes'
    BY <1>6 DEF PageTop, Go, WorkTypes, RunTypes, runVars
  <2>5. FailureTypes'
    BY <1>6, Limits DEF PageTop, Go, FailureTypes, RunTypes, runVars
  <2> QED BY <2>1, <2>2, <2>3, <2>4, <2>5
<1>7. ASSUME NEW k \in Runs, Fetch(k) PROVE Typed'
  <2>1. HandlerTypes' /\ CountTypes' /\ TokenTypes'
    BY <1>7 DEF Fetch, HandlerTypes, CountTypes, TokenTypes, handlerVars, runVars
  <2>2. RowTypes'
    BY <1>7, RowsWritten DEF Fetch, Go, Mark, Write, RowTypes, Statuses, RunTypes, rowVars
  <2>3. RunTypes'
    BY <1>7 DEF Fetch, Go, RunTypes, Labels
  <2>4. WorkTypes'
    BY <1>7 DEF Fetch, Go, WorkTypes, RunTypes, runVars
  <2>5. FailureTypes'
    BY <1>7, Limits DEF Fetch, Go, FailureTypes, RunTypes, runVars
  <2> QED BY <2>1, <2>2, <2>3, <2>4, <2>5
<1>8. ASSUME NEW k \in Runs, FetchFails(k) PROVE Typed'
  <2>1. HandlerTypes' /\ CountTypes' /\ TokenTypes'
    BY <1>8 DEF FetchFails, HandlerTypes, CountTypes, TokenTypes, handlerVars, runVars
  <2>2. RowTypes'
    BY <1>8, RowsWritten
    DEF FetchFails, Go, Mark, Store, Write, RowTypes, Statuses, RunTypes, WorkTypes, CountTypes,
        rowVars
  <2>3. RunTypes'
    BY <1>8 DEF FetchFails, Go, RunTypes, Labels
  <2>4. WorkTypes'
    BY <1>8 DEF FetchFails, Go, WorkTypes, RunTypes, runVars
  <2>5. FailureTypes'
    BY <1>8, Limits DEF FetchFails, Go, FailureTypes, RunTypes, runVars
  <2> QED BY <2>1, <2>2, <2>3, <2>4, <2>5
<1>9. ASSUME NEW k \in Runs, StopAtRelease(k) PROVE Typed'
  <2>1. HandlerTypes' /\ CountTypes' /\ TokenTypes'
    BY <1>9 DEF StopAtRelease, HandlerTypes, CountTypes, TokenTypes, handlerVars, runVars
  <2>2. RowTypes'
    BY <1>9, RowsWritten
    DEF StopAtRelease, Go, Store, Write, RowTypes, Statuses, RunTypes, WorkTypes, CountTypes,
        rowVars
  <2>3. RunTypes'
    BY <1>9 DEF StopAtRelease, Go, RunTypes, Labels
  <2>4. WorkTypes'
    BY <1>9 DEF StopAtRelease, Go, WorkTypes, RunTypes, runVars
  <2>5. FailureTypes'
    BY <1>9, Limits DEF StopAtRelease, Go, FailureTypes, RunTypes, runVars
  <2> QED BY <2>1, <2>2, <2>3, <2>4, <2>5
<1>10. ASSUME NEW k \in Runs, ImportRelease(k) PROVE Typed'
  <2>1. RowTypes' /\ HandlerTypes'
    BY <1>10 DEF ImportRelease, RowTypes, HandlerTypes, handlerVars, rowVars
  <2>2. RunTypes'
    BY <1>10 DEF ImportRelease, Go, RunTypes, Labels
  <2>3. WorkTypes'
    BY <1>10 DEF ImportRelease, Go, WorkTypes, RunTypes, runVars
  <2>4. CountTypes'
    BY <1>10 DEF ImportRelease, Go, CountTypes, runVars
  <2>5. FailureTypes'
    BY <1>10, Limits DEF ImportRelease, Go, FailureTypes, RunTypes, runVars
  <2>6. TokenTypes'
    BY <1>10 DEF ImportRelease, Go, Handle, TokenTypes, RunTypes, WorkTypes
  <2> QED BY <2>1, <2>2, <2>3, <2>4, <2>5, <2>6
<1>11. ASSUME NEW k \in Runs, ImportFails(k) PROVE Typed'
  <2>1. RowTypes' /\ HandlerTypes' /\ CountTypes'
    BY <1>11 DEF ImportFails, RowTypes, HandlerTypes, CountTypes, handlerVars, rowVars, runVars
  <2>2. RunTypes'
    BY <1>11 DEF ImportFails, Go, RunTypes, Labels
  <2>3. WorkTypes'
    BY <1>11 DEF ImportFails, Go, WorkTypes, RunTypes, runVars
  <2>4. FailureTypes'
    <3>1. pc[k] \in {"insert", "update"}
      BY <1>11 DEF ImportFails
    <3>2. failures[k] \in 0 .. MaxFailures /\ failures[k] < MaxFailures
      BY <3>1 DEF FailureTypes
    <3>3. /\ failures[k] + 1 \in 0 .. MaxFailures
          /\ failures[k] + 1 >= MaxFailures \/ failures[k] + 1 < MaxFailures
      BY <3>2, Limits
    <3>4. failures' = [failures EXCEPT ![k] = failures[k] + 1]
      BY <1>11 DEF ImportFails
    <3>5. /\ pc'[k] = "give up" \/ failures[k] + 1 < MaxFailures
          /\ \A i \in Runs \ {k} : pc'[i] = pc[i]
      BY <1>11, <3>3 DEF ImportFails, Go, RunTypes
    <3> QED
      BY <3>3, <3>4, <3>5 DEF FailureTypes
  <2>5. TokenTypes'
    BY <1>11 DEF ImportFails, Go, Handle, TokenTypes, RunTypes, WorkTypes
  <2> QED BY <2>1, <2>2, <2>3, <2>4, <2>5
<1>12. ASSUME NEW k \in Runs, GiveUp(k) PROVE Typed'
  <2>1. HandlerTypes' /\ CountTypes' /\ TokenTypes'
    BY <1>12 DEF GiveUp, HandlerTypes, CountTypes, TokenTypes, handlerVars, runVars
  <2>2. RowTypes'
    BY <1>12, RowsWritten
    DEF GiveUp, Go, Store, Write, RowTypes, Statuses, RunTypes, WorkTypes, CountTypes, rowVars
  <2>3. RunTypes'
    BY <1>12 DEF GiveUp, Go, RunTypes, Labels
  <2>4. WorkTypes'
    BY <1>12 DEF GiveUp, Go, WorkTypes, RunTypes, runVars
  <2>5. FailureTypes'
    BY <1>12, Limits DEF GiveUp, Go, FailureTypes, RunTypes, runVars
  <2> QED BY <2>1, <2>2, <2>3, <2>4, <2>5
<1>13. ASSUME NEW k \in Runs, PageEnd(k) PROVE Typed'
  <2>1. HandlerTypes' /\ CountTypes' /\ TokenTypes'
    BY <1>13 DEF PageEnd, HandlerTypes, CountTypes, TokenTypes, handlerVars, runVars
  <2>2. RowTypes'
    BY <1>13, RowsWritten
    DEF PageEnd, Go, Store, Write, RowTypes, Statuses, RunTypes, WorkTypes, CountTypes, rowVars
  <2>3. RunTypes'
    BY <1>13 DEF PageEnd, Go, RunTypes, Labels
  <2>4. WorkTypes'
    BY <1>13, PagesEnd DEF PageEnd, Go, WorkTypes, RunTypes, runVars
  <2>5. FailureTypes'
    BY <1>13, Limits DEF PageEnd, Go, FailureTypes, RunTypes, runVars
  <2> QED BY <2>1, <2>2, <2>3, <2>4, <2>5
<1>14. ASSUME NEW k \in Runs, CompleteImport(k) PROVE Typed'
  <2>1. HandlerTypes' /\ CountTypes' /\ TokenTypes'
    BY <1>14 DEF CompleteImport, HandlerTypes, CountTypes, TokenTypes, handlerVars, runVars
  <2>2. RowTypes'
    BY <1>14, RowsWritten
    DEF CompleteImport, Go, Store, Write, RowTypes, Statuses, RunTypes, WorkTypes, CountTypes,
        rowVars
  <2>3. RunTypes'
    BY <1>14 DEF CompleteImport, Go, RunTypes, Labels
  <2>4. WorkTypes'
    BY <1>14 DEF CompleteImport, Go, WorkTypes, RunTypes, runVars
  <2>5. FailureTypes'
    BY <1>14, Limits DEF CompleteImport, Go, FailureTypes, RunTypes, runVars
  <2> QED BY <2>1, <2>2, <2>3, <2>4, <2>5
<1>15. ASSUME NEW k \in Runs, Blow(k) PROVE Typed'
  <2>1. HandlerTypes' /\ CountTypes' /\ TokenTypes'
    BY <1>15 DEF Blow, HandlerTypes, CountTypes, TokenTypes, handlerVars, runVars
  <2>2. RowTypes'
    BY <1>15, RowsWritten
    DEF Blow, Go, Write, RowTypes, Statuses, RunTypes, WorkTypes, CountTypes, rowVars
  <2>3. RunTypes'
    BY <1>15 DEF Blow, Go, RunTypes, Labels
  <2>4. WorkTypes'
    BY <1>15 DEF Blow, Go, WorkTypes, RunTypes, runVars
  <2>5. FailureTypes'
    BY <1>15, Limits DEF Blow, Go, FailureTypes, RunTypes, runVars
  <2> QED BY <2>1, <2>2, <2>3, <2>4, <2>5
<1>16. ASSUME NEW k \in Runs, Close(k) PROVE Typed'
  <2>1. RowTypes' /\ CountTypes' /\ TokenTypes'
    BY <1>16 DEF Close, RowTypes, CountTypes, TokenTypes, rowVars, runVars
  <2>2. HandlerTypes'
    BY <1>16, NoneAssumption DEF Close, Go, HandlerTypes, handlerVars
  <2>3. RunTypes'
    BY <1>16 DEF Close, Go, RunTypes, Labels
  <2>4. WorkTypes'
    BY <1>16 DEF Close, Go, WorkTypes, RunTypes, runVars
  <2>5. FailureTypes'
    BY <1>16, Limits DEF Close, Go, FailureTypes, RunTypes, runVars
  <2> QED BY <2>1, <2>2, <2>3, <2>4, <2>5
<1>17. ASSUME NEW k \in Runs, NEW rel \in Releases, BadRelease(k, rel) PROVE Typed'
  <2>1. RowTypes' /\ HandlerTypes' /\ RunTypes' /\ CountTypes' /\ FailureTypes'
    BY <1>17
    DEF BadRelease, RowTypes, HandlerTypes, RunTypes, CountTypes, FailureTypes, handlerVars,
        rowVars, runVars
  <2>2. WorkTypes'
    BY <1>17 DEF BadRelease, WorkTypes, RunTypes, runVars
  <2>3. TokenTypes'
    BY <1>17 DEF BadRelease, Handle, TokenTypes, RunTypes, WorkTypes
  <2> QED BY <2>1, <2>2, <2>3
<1>18. ASSUME NEW k \in Runs, NEW rel \in Releases, Skip(k, rel) PROVE Typed'
  <2>1. RowTypes' /\ HandlerTypes' /\ RunTypes' /\ CountTypes'
    BY <1>18 DEF Skip, RowTypes, HandlerTypes, RunTypes, CountTypes, handlerVars, rowVars, runVars
  <2>2. WorkTypes'
    BY <1>18 DEF Skip, WorkTypes, RunTypes, runVars
  <2>3. FailureTypes'
    BY <1>18, Limits DEF Skip, FailureTypes, RunTypes, runVars
  <2>4. TokenTypes'
    BY <1>18 DEF Skip, Handle, TokenTypes, RunTypes, WorkTypes
  <2> QED BY <2>1, <2>2, <2>3, <2>4
<1>19. ASSUME NEW k \in Runs, NEW rel \in Releases, LookUp(k, rel) PROVE Typed'
  <2>1. RowTypes' /\ HandlerTypes' /\ CountTypes' /\ TokenTypes'
    BY <1>19
    DEF LookUp, RowTypes, HandlerTypes, CountTypes, TokenTypes, handlerVars, rowVars, runVars
  <2>2. RunTypes'
    BY <1>19 DEF LookUp, Go, RunTypes, Labels
  <2>3. WorkTypes'
    BY <1>19 DEF LookUp, Go, WorkTypes, RunTypes, runVars
  <2>4. FailureTypes'
    BY <1>19, Limits DEF LookUp, Go, FailureTypes, RunTypes, runVars
  <2> QED BY <2>1, <2>2, <2>3, <2>4
<1>20. ASSUME NEW j \in Jobs, Pause(j) PROVE Typed'
  <2>1. RowTypes' /\ RunTypes' /\ WorkTypes' /\ CountTypes' /\ FailureTypes' /\ TokenTypes'
    BY <1>20
    DEF Pause, RowTypes, RunTypes, WorkTypes, CountTypes, FailureTypes, TokenTypes, rowVars,
        runVars
  <2>2. HandlerTypes'
    BY <1>20, NoneAssumption, Limits DEF Pause, HandlerTypes, handlerVars
  <2> QED BY <2>1, <2>2
<1>21. ASSUME NEW j \in Jobs, PauseRow(j) PROVE Typed'
  <2>1. RunTypes' /\ WorkTypes' /\ CountTypes' /\ FailureTypes' /\ TokenTypes'
    BY <1>21 DEF PauseRow, RunTypes, WorkTypes, CountTypes, FailureTypes, TokenTypes, runVars
  <2>2. RowTypes'
    BY <1>21 DEF PauseRow, RowTypes, Statuses, RunTypes, rowVars
  <2>3. HandlerTypes'
    BY <1>21, NoneAssumption DEF PauseRow, HandlerTypes
  <2> QED BY <2>1, <2>2, <2>3
<1>22. ASSUME NEW j \in Jobs, MarkZombie(j) PROVE Typed'
  <2>1. RunTypes' /\ WorkTypes' /\ CountTypes' /\ FailureTypes' /\ TokenTypes'
    BY <1>22 DEF MarkZombie, RunTypes, WorkTypes, CountTypes, FailureTypes, TokenTypes, runVars
  <2>2. RowTypes'
    BY <1>22 DEF MarkZombie, RowTypes, Statuses, RunTypes, rowVars
  <2>3. HandlerTypes'
    BY <1>22, NoneAssumption DEF MarkZombie, HandlerTypes, handlerVars
  <2> QED BY <2>1, <2>2, <2>3
<1>23. ASSUME NEW j \in Jobs, SpareActive(j) PROVE Typed'
  <2>1. RowTypes' /\ RunTypes' /\ WorkTypes' /\ CountTypes' /\ FailureTypes' /\ TokenTypes'
    BY <1>23
    DEF SpareActive, RowTypes, RunTypes, WorkTypes, CountTypes, FailureTypes, TokenTypes,
        rowVars, runVars
  <2>2. HandlerTypes'
    BY <1>23, NoneAssumption DEF SpareActive, HandlerTypes, handlerVars
  <2> QED BY <2>1, <2>2
<1>24. CASE View
  <2>1. RowTypes' /\ RunTypes' /\ WorkTypes' /\ CountTypes' /\ FailureTypes' /\ TokenTypes'
    BY <1>24
    DEF View, RowTypes, RunTypes, WorkTypes, CountTypes, FailureTypes, TokenTypes, rowVars,
        runVars
  <2>2. HandlerTypes'
    BY <1>24, NoneAssumption DEF View, HandlerTypes, handlerVars
  <2> QED BY <2>1, <2>2
<1>25. CASE Restart
  <2>1. RowTypes' /\ CountTypes' /\ TokenTypes'
    BY <1>25 DEF Restart, RowTypes, CountTypes, TokenTypes, rowVars, runVars
  <2>2. HandlerTypes'
    BY <1>25, NoneAssumption DEF Restart, HandlerTypes, handlerVars
  <2>3. RunTypes'
    BY <1>25 DEF Restart, RunTypes, Labels
  <2>4. WorkTypes'
    BY <1>25 DEF Restart, WorkTypes, RunTypes, runVars
  <2>5. FailureTypes'
    BY <1>25, Limits DEF Restart, FailureTypes, RunTypes, runVars
  <2> QED BY <2>1, <2>2, <2>3, <2>4, <2>5
<1>26. CASE UNCHANGED vars
  BY <1>26
  DEF vars, rowVars, handlerVars, runVars, RowTypes, HandlerTypes, RunTypes, WorkTypes,
      CountTypes, FailureTypes, TokenTypes
<1> QED
  BY <1>1, <1>2, <1>3, <1>4, <1>5, <1>6, <1>7, <1>8, <1>9, <1>10, <1>11, <1>12, <1>13, <1>14,
     <1>15, <1>16, <1>17, <1>18, <1>19, <1>20, <1>21, <1>22, <1>23, <1>24, <1>25, <1>26
  DEF Next, RunStep
-----------------------------------------------------------------------------
(* Progress.  What was handled stays handled, and the page in a row is     *)
(* either left alone or that of a run which is at work on the job.         *)

\* Between the loading of the row's progress and the finally clause.
Working == {"first page", "first fetch", "page", "fetch", "release", "insert", "update",
            "give up", "complete"}

Progress ==
    /\ overlapped => overlapped'
    /\ \A j \in Jobs :
          /\ handled[j] \subseteq handled'[j]
          /\ \/ last_page'[j] = last_page[j]
             \/ \E k \in Runs : pc[k] \in Working /\ job[k] = j /\ last_page'[j] = page[k]

\* _mark is called with the page of its own run, or without one (web/admin.py:942).
LEMMA ProgressMade == Typed /\ [Next]_vars => Progress
<1> SUFFICES ASSUME Typed, [Next]_vars PROVE Progress
  OBVIOUS
<1> USE DEF Typed, Progress
<1>1. ASSUME NEW k \in Runs, NEW j \in Jobs, Start(k, j) PROVE Progress
  BY <1>1 DEF Start, RowTypes, RunTypes
<1>2. ASSUME NEW k \in Runs, NEW j \in Jobs, Resume(k, j) PROVE Progress
  BY <1>2 DEF Resume, RowTypes, RunTypes
<1>3. ASSUME NEW k \in Runs, Launch(k) PROVE Progress
  BY <1>3 DEF Launch, rowVars, RowTypes, RunTypes
<1>4. ASSUME NEW k \in Runs, Begin(k) PROVE Progress
  BY <1>4 DEF Begin, Mark, Write, rowVars, RowTypes, RunTypes, Working
<1>5. ASSUME NEW k \in Runs, LoadProgress(k) PROVE Progress
  BY <1>5 DEF LoadProgress, rowVars, RowTypes, RunTypes
<1>6. ASSUME NEW k \in Runs, PageTop(k) PROVE Progress
  BY <1>6 DEF PageTop, Mark, Write, rowVars, RowTypes, RunTypes, Working
<1>7. ASSUME NEW k \in Runs, Fetch(k) PROVE Progress
  BY <1>7 DEF Fetch, Mark, Write, rowVars, RowTypes, RunTypes, Working
<1>8. ASSUME NEW k \in Runs, FetchFails(k) PROVE Progress
  BY <1>8 DEF FetchFails, Mark, Store, Write, rowVars, RowTypes, RunTypes, Working
<1>9. ASSUME NEW k \in Runs, StopAtRelease(k) PROVE Progress
  BY <1>9 DEF StopAtRelease, Store, Write, rowVars, RowTypes, RunTypes, Working
<1>10. ASSUME NEW k \in Runs, ImportRelease(k) PROVE Progress
  BY <1>10 DEF ImportRelease, Handle, rowVars, RowTypes, RunTypes, TokenTypes
<1>11. ASSUME NEW k \in Runs, ImportFails(k) PROVE Progress
  BY <1>11 DEF ImportFails, Handle, rowVars, RowTypes, RunTypes, TokenTypes
<1>12. ASSUME NEW k \in Runs, GiveUp(k) PROVE Progress
  BY <1>12 DEF GiveUp, Store, Write, rowVars, RowTypes, RunTypes, Working
<1>13. ASSUME NEW k \in Runs, PageEnd(k) PROVE Progress
  BY <1>13 DEF PageEnd, Store, Write, rowVars, RowTypes, RunTypes, Working
<1>14. ASSUME NEW k \in Runs, CompleteImport(k) PROVE Progress
  BY <1>14 DEF CompleteImport, Store, Write, rowVars, RowTypes, RunTypes, Working
<1>15. ASSUME NEW k \in Runs, Blow(k) PROVE Progress
  BY <1>15 DEF Blow, Write, rowVars, RowTypes, RunTypes, Working
<1>16. ASSUME NEW k \in Runs, Close(k) PROVE Progress
  BY <1>16 DEF Close, rowVars, RowTypes, RunTypes
<1>17. ASSUME NEW k \in Runs, NEW rel \in Releases, BadRelease(k, rel) PROVE Progress
  BY <1>17 DEF BadRelease, Handle, rowVars, RowTypes, RunTypes, TokenTypes
<1>18. ASSUME NEW k \in Runs, NEW rel \in Releases, Skip(k, rel) PROVE Progress
  BY <1>18 DEF Skip, Handle, rowVars, RowTypes, RunTypes, TokenTypes
<1>19. ASSUME NEW k \in Runs, NEW rel \in Releases, LookUp(k, rel) PROVE Progress
  BY <1>19 DEF LookUp, rowVars, RowTypes, RunTypes
<1>20. ASSUME NEW j \in Jobs, Pause(j) PROVE Progress
  BY <1>20 DEF Pause, rowVars, RowTypes, RunTypes
<1>21. ASSUME NEW j \in Jobs, PauseRow(j) PROVE Progress
  BY <1>21 DEF PauseRow, RowTypes, RunTypes
<1>22. ASSUME NEW j \in Jobs, MarkZombie(j) PROVE Progress
  BY <1>22 DEF MarkZombie, RowTypes, RunTypes
<1>23. ASSUME NEW j \in Jobs, SpareActive(j) PROVE Progress
  BY <1>23 DEF SpareActive, rowVars, RowTypes, RunTypes
<1>24. CASE View
  BY <1>24 DEF View, rowVars, RowTypes, RunTypes
<1>25. CASE Restart
  BY <1>25 DEF Restart, rowVars, RowTypes, RunTypes
<1>26. CASE UNCHANGED vars
  BY <1>26 DEF vars, rowVars
<1> QED
  BY <1>1, <1>2, <1>3, <1>4, <1>5, <1>6, <1>7, <1>8, <1>9, <1>10, <1>11, <1>12, <1>13, <1>14,
     <1>15, <1>16, <1>17, <1>18, <1>19, <1>20, <1>21, <1>22, <1>23, <1>24, <1>25, <1>26
  DEF Next, RunStep
-----------------------------------------------------------------------------
(* Nothing is jumped over.  A run's page has all earlier ones behind it,   *)
(* and what it has not yet handled of its own page is in todo, or in its   *)
(* hands.  A row takes its page from such a run only.                      *)

Own(k) ==
    /\ pc[k] \in Working => \A rel \in Releases : Page[rel] < page[k] => rel \in handled[job[k]]
    /\ pc[k] \in {"release", "insert", "update"} =>
          \A rel \in Releases : Page[rel] = page[k] =>
              \/ rel \in handled[job[k]] \cup todo[k]
              \/ pc[k] # "release" /\ rel = current[k]
    /\ pc[k] = "complete" => handled[job[k]] = Releases

Covered == ResumeSkipsNothing /\ \A k \in Runs : Own(k)

\* The step is another one's.
Untouched(k) ==
    /\ pc'[k] = pc[k] /\ job'[k] = job[k] /\ page'[k] = page[k]
    /\ todo'[k] = todo[k] /\ current'[k] = current[k]

\* The page _mark writes has everything before it handled, for its run has.
LEMMA RowsCovered == Typed /\ Covered /\ Progress => ResumeSkipsNothing'
  BY DEF Typed, RunTypes, Covered, Own, Progress, ResumeSkipsNothing

\* What other runs and handlers do takes nothing from a run: handled only grows.
LEMMA OthersStay ==
  ASSUME Typed, Typed', Progress, NEW k \in Runs, Own(k), Untouched(k)
  PROVE  Own(k)'
<1>1. pc[k] \in Working => job[k] \in Jobs /\ handled[job[k]] \subseteq handled'[job[k]]
  BY DEF Typed, RunTypes, Working, Progress
<1> QED
  BY <1>1 DEF Typed, TokenTypes, Own, Untouched, Working

\* Every step of a run of _run_import keeps what it has behind it.
LEMMA OwnStays == Typed /\ Covered /\ Progress /\ Typed' /\ [Next]_vars => \A i \in Runs : Own(i)'
<1> SUFFICES ASSUME Typed, Covered, Progress, Typed', [Next]_vars PROVE \A i \in Runs : Own(i)'
  OBVIOUS
<1> USE DEF Typed, Covered
<1>1. ASSUME NEW k \in Runs, NEW j \in Jobs, Start(k, j) PROVE \A i \in Runs : Own(i)'
  <2>1. \A i \in Runs \ {k} : Untouched(i)
    BY <1>1 DEF Start, Go, Untouched, RunTypes, WorkTypes, runVars
  <2>2. Own(k)'
    BY <1>1 DEF Start, Go, Own, RunTypes, WorkTypes, Working, runVars
  <2> QED BY <2>1, <2>2, OthersStay
<1>2. ASSUME NEW k \in Runs, NEW j \in Jobs, Resume(k, j) PROVE \A i \in Runs : Own(i)'
  <2>1. \A i \in Runs \ {k} : Untouched(i)
    BY <1>2 DEF Resume, Go, Untouched, RunTypes, WorkTypes, runVars
  <2>2. Own(k)'
    BY <1>2 DEF Resume, Go, Own, RunTypes, WorkTypes, Working, runVars
  <2> QED BY <2>1, <2>2, OthersStay
<1>3. ASSUME NEW k \in Runs, Launch(k) PROVE \A i \in Runs : Own(i)'
  <2>1. \A i \in Runs \ {k} : Untouched(i)
    BY <1>3 DEF Launch, Go, Untouched, RunTypes, WorkTypes, runVars
  <2>2. Own(k)'
    BY <1>3 DEF Launch, Go, Own, RunTypes, WorkTypes, Working, runVars
  <2> QED BY <2>1, <2>2, OthersStay
<1>4. ASSUME NEW k \in Runs, Begin(k) PROVE \A i \in Runs : Own(i)'
  <2>1. \A i \in Runs \ {k} : Untouched(i)
    BY <1>4 DEF Begin, Go, Untouched, RunTypes, WorkTypes, runVars
  <2>2. Own(k)'
    BY <1>4 DEF Begin, Go, Own, RunTypes, WorkTypes, Working, runVars
  <2> QED BY <2>1, <2>2, OthersStay
<1>5. ASSUME NEW k \in Runs, LoadProgress(k) PROVE \A i \in Runs : Own(i)'
  <2>1. \A i \in Runs \ {k} : Untouched(i)
    BY <1>5 DEF LoadProgress, Go, Untouched, RunTypes, WorkTypes
  <2>2. Own(k)'
    BY <1>5 DEF LoadProgress, Go, Own, RunTypes, WorkTypes, Working, ResumeSkipsNothing, Covered
  <2> QED BY <2>1, <2>2, OthersStay
<1>6. ASSUME NEW k \in Runs, PageTop(k) PROVE \A i \in Runs : Own(i)'
  <2>1. \A i \in Runs \ {k} : Untouched(i)
    BY <1>6 DEF PageTop, Go, Untouched, RunTypes, WorkTypes, runVars
  <2>2. Own(k)'
    <3>1. pc[k] \in {"first page", "page"} /\ UNCHANGED <<page, job, handled>>
      BY <1>6 DEF PageTop, runVars
    <3>2. pc'[k] \in {"closing", "first fetch", "fetch"}
      BY <1>6 DEF PageTop, Go, RunTypes
    <3> QED BY <3>1, <3>2 DEF Covered, Own, Working
  <2> QED BY <2>1, <2>2, OthersStay
<1>7. ASSUME NEW k \in Runs, Fetch(k) PROVE \A i \in Runs : Own(i)'
  <2>1. \A i \in Runs \ {k} : Untouched(i)
    BY <1>7 DEF Fetch, Go, Untouched, RunTypes, WorkTypes, runVars
  <2>2. Own(k)'
    BY <1>7 DEF Fetch, Go, Own, RunTypes, WorkTypes, Working, runVars, Covered
  <2> QED BY <2>1, <2>2, OthersStay
<1>8. ASSUME NEW k \in Runs, FetchFails(k) PROVE \A i \in Runs : Own(i)'
  <2>1. \A i \in Runs \ {k} : Untouched(i)
    BY <1>8 DEF FetchFails, Go, Untouched, RunTypes, WorkTypes, runVars
  <2>2. Own(k)'
    BY <1>8 DEF FetchFails, Go, Own, RunTypes, WorkTypes, Working, runVars, Covered
  <2> QED BY <2>1, <2>2, OthersStay
<1>9. ASSUME NEW k \in Runs, StopAtRelease(k) PROVE \A i \in Runs : Own(i)'
  <2>1. \A i \in Runs \ {k} : Untouched(i)
    BY <1>9 DEF StopAtRelease, Go, Untouched, RunTypes, WorkTypes, runVars
  <2>2. Own(k)'
    BY <1>9 DEF StopAtRelease, Go, Own, RunTypes, WorkTypes, Working, runVars, Covered
  <2> QED BY <2>1, <2>2, OthersStay
<1>10. ASSUME NEW k \in Runs, ImportRelease(k) PROVE \A i \in Runs : Own(i)'
  <2>1. \A i \in Runs \ {k} : Untouched(i)
    BY <1>10 DEF ImportRelease, Go, Untouched, RunTypes, WorkTypes, runVars
  <2>2. Own(k)'
    BY <1>10
    DEF ImportRelease, Go, Own, RunTypes, WorkTypes, Working, Handle, TokenTypes, runVars,
        Covered
  <2> QED BY <2>1, <2>2, OthersStay
<1>11. ASSUME NEW k \in Runs, ImportFails(k) PROVE \A i \in Runs : Own(i)'
  <2>1. \A i \in Runs \ {k} : Untouched(i)
    BY <1>11 DEF ImportFails, Go, Untouched, RunTypes, WorkTypes, runVars
  <2>2. Own(k)'
    BY <1>11
    DEF ImportFails, Go, Own, RunTypes, WorkTypes, Working, Handle, TokenTypes, runVars,
        Covered
  <2> QED BY <2>1, <2>2, OthersStay
<1>12. ASSUME NEW k \in Runs, GiveUp(k) PROVE \A i \in Runs : Own(i)'
  <2>1. \A i \in Runs \ {k} : Untouched(i)
    BY <1>12 DEF GiveUp, Go, Untouched, RunTypes, WorkTypes, runVars
  <2>2. Own(k)'
    BY <1>12 DEF GiveUp, Go, Own, RunTypes, WorkTypes, Working, runVars, Covered
  <2> QED BY <2>1, <2>2, OthersStay
<1>13. ASSUME NEW k \in Runs, PageEnd(k) PROVE \A i \in Runs : Own(i)'
  <2>1. \A i \in Runs \ {k} : Untouched(i)
    BY <1>13 DEF PageEnd, Go, Untouched, RunTypes, WorkTypes
  <2>2. Own(k)'
    <3>1. pc[k] = "release" /\ todo[k] = {} /\ UNCHANGED <<job, handled>>
      BY <1>13 DEF PageEnd
    <3>2. \/ pc'[k] = "complete" /\ page[k] >= LastPage /\ page'[k] = page[k]
          \/ pc'[k] = "page" /\ page'[k] = page[k] + 1
      BY <1>13 DEF PageEnd, Go, RunTypes, WorkTypes
    <3>3. page[k] \in Nat /\ \A rel \in Releases : Page[rel] \in Nat /\ Page[rel] <= LastPage
      BY PagesEnd, PageAssumption DEF Pages, WorkTypes
    <3>4. \A rel \in Releases : Page[rel] <= page[k] => rel \in handled[job[k]]
      <4> SUFFICES ASSUME NEW rel \in Releases, Page[rel] <= page[k]
                   PROVE  rel \in handled[job[k]]
        OBVIOUS
      <4>1. Page[rel] < page[k] \/ Page[rel] = page[k]
        BY <3>3
      <4>2. CASE Page[rel] < page[k]
        BY <3>1, <4>2 DEF Covered, Own, Working
      <4>3. CASE Page[rel] = page[k]
        BY <3>1, <4>3 DEF Covered, Own
      <4> QED BY <4>1, <4>2, <4>3
    <3>5. handled[job[k]] \subseteq Releases
      BY <3>1 DEF RunTypes, TokenTypes
    <3>6. CASE pc'[k] = "complete"
      <4>1. page[k] >= LastPage /\ page'[k] = page[k]
        BY <3>2, <3>6
      <4>2. \A rel \in Releases : Page[rel] <= page[k]
        BY <4>1, <3>3, PagesEnd
      <4>3. handled[job[k]] = Releases
        BY <4>2, <3>4, <3>5
      <4> QED BY <4>3, <3>1, <3>6 DEF Own
    <3>7. CASE pc'[k] = "page"
      <4>1. \A rel \in Releases : Page[rel] < page'[k] => rel \in handled'[job'[k]]
        BY <3>1, <3>2, <3>3, <3>4, <3>7
      <4> QED BY <4>1, <3>7 DEF Own
    <3> QED BY <3>2, <3>6, <3>7
  <2> QED BY <2>1, <2>2, OthersStay
<1>14. ASSUME NEW k \in Runs, CompleteImport(k) PROVE \A i \in Runs : Own(i)'
  <2>1. \A i \in Runs \ {k} : Untouched(i)
    BY <1>14 DEF CompleteImport, Go, Untouched, RunTypes, WorkTypes, runVars
  <2>2. Own(k)'
    BY <1>14 DEF CompleteImport, Go, Own, RunTypes, WorkTypes, Working, runVars, Covered
  <2> QED BY <2>1, <2>2, OthersStay
<1>15. ASSUME NEW k \in Runs, Blow(k) PROVE \A i \in Runs : Own(i)'
  <2>1. \A i \in Runs \ {k} : Untouched(i)
    BY <1>15 DEF Blow, Go, Untouched, RunTypes, WorkTypes, runVars
  <2>2. Own(k)'
    BY <1>15 DEF Blow, Go, Own, RunTypes, WorkTypes, Working, runVars, Covered
  <2> QED BY <2>1, <2>2, OthersStay
<1>16. ASSUME NEW k \in Runs, Close(k) PROVE \A i \in Runs : Own(i)'
  <2>1. \A i \in Runs \ {k} : Untouched(i)
    BY <1>16 DEF Close, Go, Untouched, RunTypes, WorkTypes, runVars
  <2>2. Own(k)'
    BY <1>16 DEF Close, Go, Own, RunTypes, WorkTypes, Working, runVars, Covered
  <2> QED BY <2>1, <2>2, OthersStay
<1>17. ASSUME NEW k \in Runs, NEW rel \in Releases, BadRelease(k, rel)
       PROVE \A i \in Runs : Own(i)'
  <2>1. \A i \in Runs \ {k} : Untouched(i)
    BY <1>17 DEF BadRelease, Untouched, RunTypes, WorkTypes, runVars
  <2>2. Own(k)'
    <3>1. pc[k] = "release" /\ UNCHANGED <<pc, page, job, current>> /\ job[k] \in Jobs
      BY <1>17 DEF BadRelease, RunTypes
    <3>2. todo'[k] = todo[k] \ {rel} /\ handled'[job[k]] = handled[job[k]] \cup {rel}
      BY <1>17, <3>1 DEF BadRelease, Handle, WorkTypes, TokenTypes
    <3> QED BY <3>1, <3>2 DEF Covered, Own, Working
  <2> QED BY <2>1, <2>2, OthersStay
<1>18. ASSUME NEW k \in Runs, NEW rel \in Releases, Skip(k, rel) PROVE \A i \in Runs : Own(i)'
  <2>1. \A i \in Runs \ {k} : Untouched(i)
    BY <1>18 DEF Skip, Untouched, RunTypes, WorkTypes, runVars
  <2>2. Own(k)'
    <3>1. pc[k] = "release" /\ UNCHANGED <<pc, page, job, current>> /\ job[k] \in Jobs
      BY <1>18 DEF Skip, RunTypes
    <3>2. todo'[k] = todo[k] \ {rel} /\ handled'[job[k]] = handled[job[k]] \cup {rel}
      BY <1>18, <3>1 DEF Skip, Handle, WorkTypes, TokenTypes
    <3> QED BY <3>1, <3>2 DEF Covered, Own, Working
  <2> QED BY <2>1, <2>2, OthersStay
<1>19. ASSUME NEW k \in Runs, NEW rel \in Releases, LookUp(k, rel) PROVE \A i \in Runs : Own(i)'
  <2>1. \A i \in Runs \ {k} : Untouched(i)
    BY <1>19 DEF LookUp, Go, Untouched, RunTypes, WorkTypes, runVars
  <2>2. Own(k)'
    BY ZenonT(60), <1>19 DEF LookUp, Go, Own, RunTypes, WorkTypes, Working, runVars, Covered
  <2> QED BY <2>1, <2>2, OthersStay
<1>20. ASSUME NEW j \in Jobs, Pause(j) PROVE \A i \in Runs : Own(i)'
  <2>1. \A i \in Runs : Untouched(i)
    BY <1>20 DEF Pause, Untouched, runVars
  <2> QED BY <2>1, OthersStay
<1>21. ASSUME NEW j \in Jobs, PauseRow(j) PROVE \A i \in Runs : Own(i)'
  <2>1. \A i \in Runs : Untouched(i)
    BY <1>21 DEF PauseRow, Untouched, runVars
  <2> QED BY <2>1, OthersStay
<1>22. ASSUME NEW j \in Jobs, MarkZombie(j) PROVE \A i \in Runs : Own(i)'
  <2>1. \A i \in Runs : Untouched(i)
    BY <1>22 DEF MarkZombie, Untouched, runVars
  <2> QED BY <2>1, OthersStay
<1>23. ASSUME NEW j \in Jobs, SpareActive(j) PROVE \A i \in Runs : Own(i)'
  <2>1. \A i \in Runs : Untouched(i)
    BY <1>23 DEF SpareActive, Untouched, runVars
  <2> QED BY <2>1, OthersStay
<1>24. CASE View
  <2>1. \A i \in Runs : Untouched(i)
    BY <1>24 DEF View, Untouched, runVars
  <2> QED BY <2>1, OthersStay
<1>25. CASE Restart
  <2>1. \A i \in Runs : pc'[i] \in {"new", "done"}
    BY <1>25 DEF Restart
  <2> QED BY <2>1 DEF Own, Working
<1>26. CASE UNCHANGED vars
  BY <1>26, OthersStay DEF vars, runVars, Untouched
<1> QED
  BY <1>1, <1>2, <1>3, <1>4, <1>5, <1>6, <1>7, <1>8, <1>9, <1>10, <1>11, <1>12, <1>13, <1>14,
     <1>15, <1>16, <1>17, <1>18, <1>19, <1>20, <1>21, <1>22, <1>23, <1>24, <1>25, <1>26
  DEF Next, RunStep
-----------------------------------------------------------------------------
(* One task at a time.  An event in _stop_flags is that of a live task of  *)
(* the job; and as long as no two tasks have been alive at once, the one   *)
(* that is can be reached, is not behind the row, and inserts only what    *)
(* the catalogue lacks.                                                    *)

Behind(k) ==
    /\ pc[k] \in Working => page[k] >= last_page[job[k]]
    /\ pc[k] = "insert" => copies[current[k]] = 0

Alone ==
    /\ \A k, l \in Runs : Alive(k) /\ Alive(l) => k = l
    /\ \A k \in Runs : (Alive(k) => flag[job[k]] = k) /\ Behind(k)
    /\ \A rel \in Releases : copies[rel] <= 1

Reached ==
    /\ \A j \in Jobs : flag[j] # None => Alive(flag[j]) /\ job[flag[j]] = j
    /\ overlapped \/ Alone

\* A step of a live task that leaves it alive has to care for its own page and tokens only.
LEMMA OneTask ==
  ASSUME Typed, Reached, NEW k \in Runs, Alive(k), Alive(k)',
         \A i \in Runs \ {k} : pc'[i] = pc[i],
         UNCHANGED <<job, flag, overlapped>>,
         ~ overlapped => Behind(k)' /\ \A rel \in Releases : copies'[rel] <= 1
  PROVE  Reached'
<1>1. \A i \in Runs : Alive(i)' = Alive(i)
  BY DEF Alive
<1>2. \A j \in Jobs : flag'[j] # None => Alive(flag[j])' /\ job'[flag'[j]] = j
  BY <1>1 DEF Reached, Typed, HandlerTypes
<1>3. ASSUME ~ overlapped PROVE Alone'
  <2>1. \A i \in Runs \ {k} : ~ Alive(i) /\ pc'[i] \notin Working
    BY <1>3, <1>1 DEF Reached, Alone, Alive, Working
  <2>2. \A i \in Runs : Behind(i)'
    BY <1>3, <2>1 DEF Behind, Working
  <2> QED
    BY <1>1, <1>3, <2>1, <2>2 DEF Reached, Alone
<1> QED
  BY <1>2, <1>3 DEF Reached

\* Every step keeps that: import_start and import_resume register the event together with
\* the task, the finally clause takes it away (web/admin.py:1250).
LEMMA ReachedStays == Typed /\ Reached /\ [Next]_vars => Reached'
<1> SUFFICES ASSUME Typed, Reached, [Next]_vars PROVE Reached'
  OBVIOUS
<1> USE DEF Typed, Reached
<1>1. ASSUME NEW k \in Runs, NEW j \in Jobs, Start(k, j) PROVE Reached'
  <2>1. ~ Alive(k) /\ \A i \in Runs \ {k} : Untouched(i)
    BY <1>1 DEF Start, Go, Alive, Untouched, RunTypes, runVars
  <2>2. pc'[k] = "launch" /\ UNCHANGED <<flag, last_page, copies, overlapped>>
    BY <1>1 DEF Start, Go, RunTypes
  <2>3. \A i \in Runs : Alive(i)' = Alive(i) /\ (Alive(i) => Untouched(i) /\ i # k)
    BY <2>1, <2>2 DEF Alive, Untouched
  <2>4. \A any \in Jobs : flag'[any] # None => Alive(flag[any])' /\ job'[flag'[any]] = any
    BY <2>2, <2>3 DEF HandlerTypes, Untouched
  <2>5. ASSUME Alone PROVE Alone'
    <3>1. \A i \in Runs : Behind(i)'
      BY <2>1, <2>2, <2>5 DEF Alone, Behind, Untouched, Working
    <3> QED BY <3>1, <2>2, <2>3, <2>5 DEF Alone, Untouched
  <2> QED BY <2>2, <2>4, <2>5
<1>2. ASSUME NEW k \in Runs, NEW j \in Jobs, Resume(k, j) PROVE Reached'
  <2>1. ~ Alive(k) /\ \A i \in Runs \ {k} : Untouched(i)
    BY <1>2 DEF Resume, Go, Alive, Untouched, RunTypes, runVars
  <2>2. pc'[k] = "launch" /\ UNCHANGED <<flag, last_page, copies, overlapped>>
    BY <1>2 DEF Resume, Go, RunTypes
  <2>3. \A i \in Runs : Alive(i)' = Alive(i) /\ (Alive(i) => Untouched(i) /\ i # k)
    BY <2>1, <2>2 DEF Alive, Untouched
  <2>4. \A any \in Jobs : flag'[any] # None => Alive(flag[any])' /\ job'[flag'[any]] = any
    BY <2>2, <2>3 DEF HandlerTypes, Untouched
  <2>5. ASSUME Alone PROVE Alone'
    <3>1. \A i \in Runs : Behind(i)'
      BY <2>1, <2>2, <2>5 DEF Alone, Behind, Untouched, Working
    <3> QED BY <3>1, <2>2, <2>3, <2>5 DEF Alone, Untouched
  <2> QED BY <2>2, <2>4, <2>5
<1>3. ASSUME NEW k \in Runs, Launch(k) PROVE Reached'
  <2>1. /\ ~ Alive(k) /\ pc'[k] = "begin" /\ job[k] \in Jobs
        /\ \A i \in Runs \ {k} : pc'[i] = pc[i]
    BY <1>3 DEF Launch, Go, Alive, RunTypes
  <2>2. /\ UNCHANGED <<job, page, last_page, copies, current>>
        /\ flag' = [flag EXCEPT ![job[k]] = k]
        /\ overlapped' = (overlapped \/ \E other \in Runs : Alive(other))
    BY <1>3 DEF Launch, rowVars, runVars
  <2>3. Alive(k)' /\ \A i \in Runs \ {k} : Alive(i)' = Alive(i)
    BY <2>1 DEF Alive
  <2>4. \A j \in Jobs : flag'[j] # None => Alive(flag[j])' /\ job'[flag'[j]] = j
    BY <2>1, <2>2, <2>3 DEF HandlerTypes
  <2>5. ASSUME ~ overlapped' PROVE Alone'
    <3>1. Alone /\ \A i \in Runs : ~ Alive(i)
      BY <2>2, <2>5
    <3>2. \A i \in Runs : Alive(i)' => i = k
      BY <2>3, <3>1
    <3>3. flag'[job'[k]] = k
      BY <2>1, <2>2 DEF HandlerTypes
    <3>4. \A i \in Runs : Behind(i)'
      BY <2>1, <2>2, <3>1 DEF Alone, Behind, Working
    <3> QED BY <2>2, <3>1, <3>2, <3>3, <3>4 DEF Alone
  <2> QED BY <2>4, <2>5
<1>4. ASSUME NEW k \in Runs, Begin(k) PROVE Reached'
  <2>1. Alive(k) /\ Alive(k)' /\ \A i \in Runs \ {k} : pc'[i] = pc[i]
    BY <1>4 DEF Begin, Go, Alive, RunTypes
  <2>2. UNCHANGED <<job, flag, overlapped>>
    BY <1>4 DEF Begin
  <2>3. ~ overlapped => Behind(k)' /\ \A rel \in Releases : copies'[rel] <= 1
    <3>1. pc'[k] = "load" /\ UNCHANGED copies
      BY <1>4 DEF Begin, Go, RunTypes
    <3> QED BY <3>1 DEF Alone, Behind, Working
  <2> QED BY <2>1, <2>2, <2>3, OneTask
<1>5. ASSUME NEW k \in Runs, LoadProgress(k) PROVE Reached'
  <2>1. Alive(k) /\ Alive(k)' /\ \A i \in Runs \ {k} : pc'[i] = pc[i]
    BY <1>5 DEF LoadProgress, Go, Alive, RunTypes
  <2>2. UNCHANGED <<job, flag, overlapped>>
    BY <1>5 DEF LoadProgress
  <2>3. ~ overlapped => Behind(k)' /\ \A rel \in Releases : copies'[rel] <= 1
    <3>1. pc'[k] = "first page" /\ page'[k] = last_page[job[k]] /\ UNCHANGED <<last_page, copies>>
      BY <1>5 DEF LoadProgress, Go, RunTypes, WorkTypes, rowVars
    <3>2. job[k] \in Jobs
      BY <1>5 DEF LoadProgress, RunTypes
    <3>3. last_page[job[k]] \in Nat
      BY <3>2, PagesEnd DEF RowTypes
    <3>4. page'[k] = last_page[job[k]] /\ last_page'[job'[k]] = last_page[job[k]]
      BY <3>1, <2>2
    <3>5. page'[k] >= last_page'[job'[k]]
      BY <3>3, <3>4
    <3> QED BY <3>1, <3>5 DEF Alone, Behind
  <2> QED BY <2>1, <2>2, <2>3, OneTask
<1>6. ASSUME NEW k \in Runs, PageTop(k) PROVE Reached'
  <2>1. Alive(k) /\ Alive(k)' /\ \A i \in Runs \ {k} : pc'[i] = pc[i]
    BY <1>6 DEF PageTop, Go, Alive, RunTypes
  <2>2. UNCHANGED <<job, flag, overlapped>>
    BY <1>6 DEF PageTop
  <2>3. ~ overlapped => Behind(k)' /\ \A rel \in Releases : copies'[rel] <= 1
    <3>1. \/ pc'[k] = "closing"
          \/ pc'[k] \in {"first fetch", "fetch"} /\ last_page' = last_page
      BY <1>6 DEF PageTop, Go, RunTypes, rowVars
    <3>2. pc[k] \in Working /\ UNCHANGED <<page, copies>>
      BY <1>6 DEF PageTop, runVars, Working
    <3> QED BY <3>1, <3>2, <2>2 DEF Alone, Behind, Working
  <2> QED BY <2>1, <2>2, <2>3, OneTask
<1>7. ASSUME NEW k \in Runs, Fetch(k) PROVE Reached'
  <2>1. Alive(k) /\ Alive(k)' /\ \A i \in Runs \ {k} : pc'[i] = pc[i]
    BY <1>7 DEF Fetch, Go, Alive, RunTypes
  <2>2. UNCHANGED <<job, flag, overlapped>>
    BY <1>7 DEF Fetch
  <2>3. ~ overlapped => Behind(k)' /\ \A rel \in Releases : copies'[rel] <= 1
    <3>1. pc'[k] = "release" /\ pc[k] \in Working /\ UNCHANGED <<page, copies>>
      BY <1>7 DEF Fetch, Go, RunTypes, Working
    <3>2. last_page' = last_page
      BY <1>7 DEF Fetch, Mark, Write, RowTypes, rowVars
    <3> QED BY <3>1, <3>2, <2>2 DEF Alone, Behind
  <2> QED BY <2>1, <2>2, <2>3, OneTask
<1>8. ASSUME NEW k \in Runs, FetchFails(k) PROVE Reached'
  <2>1. Alive(k) /\ Alive(k)' /\ \A i \in Runs \ {k} : pc'[i] = pc[i]
    BY <1>8 DEF FetchFails, Go, Alive, RunTypes
  <2>2. UNCHANGED <<job, flag, overlapped>>
    BY <1>8 DEF FetchFails
  <2>3. ~ overlapped => Behind(k)' /\ \A rel \in Releases : copies'[rel] <= 1
    <3>1. pc'[k] = "closing" /\ UNCHANGED copies
      BY <1>8 DEF FetchFails, Go, RunTypes
    <3> QED BY <3>1 DEF Alone, Behind, Working
  <2> QED BY <2>1, <2>2, <2>3, OneTask
<1>9. ASSUME NEW k \in Runs, StopAtRelease(k) PROVE Reached'
  <2>1. Alive(k) /\ Alive(k)' /\ \A i \in Runs \ {k} : pc'[i] = pc[i]
    BY <1>9 DEF StopAtRelease, Go, Alive, RunTypes
  <2>2. UNCHANGED <<job, flag, overlapped>>
    BY <1>9 DEF StopAtRelease
  <2>3. ~ overlapped => Behind(k)' /\ \A rel \in Releases : copies'[rel] <= 1
    <3>1. pc'[k] = "closing" /\ UNCHANGED copies
      BY <1>9 DEF StopAtRelease, Go, RunTypes
    <3> QED BY <3>1 DEF Alone, Behind, Working
  <2> QED BY <2>1, <2>2, <2>3, OneTask
<1>10. ASSUME NEW k \in Runs, ImportRelease(k) PROVE Reached'
  <2>1. Alive(k) /\ Alive(k)' /\ \A i \in Runs \ {k} : pc'[i] = pc[i]
    BY <1>10 DEF ImportRelease, Go, Alive, RunTypes
  <2>2. UNCHANGED <<job, flag, overlapped>>
    BY <1>10 DEF ImportRelease
  <2>3. ~ overlapped => Behind(k)' /\ \A rel \in Releases : copies'[rel] <= 1
    <3>1. pc[k] \in Working /\ pc'[k] # "insert" /\ UNCHANGED <<page, last_page>>
      BY <1>10 DEF ImportRelease, Go, RunTypes, Working, rowVars
    <3>2. ASSUME ~ overlapped PROVE \A rel \in Releases : copies'[rel] <= 1
      <4>1. Alone
        BY <3>2
      <4>2. CASE pc[k] = "insert"
        <5>1. copies[current[k]] = 0
          BY <4>1, <4>2 DEF Alone, Behind
        <5>2. copies' = [copies EXCEPT ![current[k]] = copies[current[k]] + 1]
          BY <1>10, <4>2 DEF ImportRelease
        <5> QED BY <4>1, <5>1, <5>2 DEF Alone, TokenTypes
      <4>3. CASE pc[k] = "update"
        BY <1>10, <4>1, <4>3 DEF ImportRelease, Alone
      <4> QED BY <1>10, <4>2, <4>3 DEF ImportRelease
    <3> QED BY <3>1, <3>2, <2>2 DEF Alone, Behind
  <2> QED BY <2>1, <2>2, <2>3, OneTask
<1>11. ASSUME NEW k \in Runs, ImportFails(k) PROVE Reached'
  <2>1. Alive(k) /\ Alive(k)' /\ \A i \in Runs \ {k} : pc'[i] = pc[i]
    BY <1>11 DEF ImportFails, Go, Alive, RunTypes
  <2>2. UNCHANGED <<job, flag, overlapped>>
    BY <1>11 DEF ImportFails
  <2>3. ~ overlapped => Behind(k)' /\ \A rel \in Releases : copies'[rel] <= 1
    <3>1. pc[k] \in Working /\ pc'[k] # "insert" /\ UNCHANGED <<page, last_page>>
      BY <1>11 DEF ImportFails, Go, RunTypes, Working, rowVars
    <3>2. UNCHANGED copies
      BY <1>11 DEF ImportFails
    <3> QED BY <3>1, <3>2, <2>2 DEF Alone, Behind
  <2> QED BY <2>1, <2>2, <2>3, OneTask
<1>12. ASSUME NEW k \in Runs, GiveUp(k) PROVE Reached'
  <2>1. Alive(k) /\ Alive(k)' /\ \A i \in Runs \ {k} : pc'[i] = pc[i]
    BY <1>12 DEF GiveUp, Go, Alive, RunTypes
  <2>2. UNCHANGED <<job, flag, overlapped>>
    BY <1>12 DEF GiveUp
  <2>3. ~ overlapped => Behind(k)' /\ \A rel \in Releases : copies'[rel] <= 1
    <3>1. pc'[k] = "closing" /\ UNCHANGED copies
      BY <1>12 DEF GiveUp, Go, RunTypes
    <3> QED BY <3>1 DEF Alone, Behind, Working
  <2> QED BY <2>1, <2>2, <2>3, OneTask
<1>13. ASSUME NEW k \in Runs, PageEnd(k) PROVE Reached'
  <2>1. Alive(k) /\ Alive(k)' /\ \A i \in Runs \ {k} : pc'[i] = pc[i]
    BY <1>13 DEF PageEnd, Go, Alive, RunTypes
  <2>2. UNCHANGED <<job, flag, overlapped>>
    BY <1>13 DEF PageEnd
  <2>3. ~ overlapped => Behind(k)' /\ \A rel \in Releases : copies'[rel] <= 1
    <3>1. pc[k] \in Working /\ job[k] \in Jobs /\ pc'[k] # "insert" /\ UNCHANGED copies
      BY <1>13 DEF PageEnd, Go, RunTypes, Working
    <3>2. page[k] \in Nat /\ last_page[job[k]] \in Nat
      BY <3>1, PagesEnd DEF RowTypes, WorkTypes
    <3>3. page'[k] \in {page[k], page[k] + 1}
      BY <1>13 DEF PageEnd, WorkTypes
    <3>4. last_page'[job[k]] \in {last_page[job[k]], page[k]}
      BY <1>13, <3>1 DEF PageEnd, Store, Write, RowTypes, rowVars
    <3>5. page[k] >= last_page[job[k]] => page'[k] >= last_page'[job'[k]]
      BY <3>2, <3>3, <3>4, <2>2
    <3> QED BY <3>1, <3>5 DEF Alone, Behind
  <2> QED BY <2>1, <2>2, <2>3, OneTask
<1>14. ASSUME NEW k \in Runs, CompleteImport(k) PROVE Reached'
  <2>1. Alive(k) /\ Alive(k)' /\ \A i \in Runs \ {k} : pc'[i] = pc[i]
    BY <1>14 DEF CompleteImport, Go, Alive, RunTypes
  <2>2. UNCHANGED <<job, flag, overlapped>>
    BY <1>14 DEF CompleteImport
  <2>3. ~ overlapped => Behind(k)' /\ \A rel \in Releases : copies'[rel] <= 1
    <3>1. pc'[k] = "closing" /\ UNCHANGED copies
      BY <1>14 DEF CompleteImport, Go, RunTypes
    <3> QED BY <3>1 DEF Alone, Behind, Working
  <2> QED BY <2>1, <2>2, <2>3, OneTask
<1>15. ASSUME NEW k \in Runs, Blow(k) PROVE Reached'
  <2>1. Alive(k) /\ Alive(k)' /\ \A i \in Runs \ {k} : pc'[i] = pc[i]
    BY <1>15 DEF Blow, Go, Alive, RunTypes
  <2>2. UNCHANGED <<job, flag, overlapped>>
    BY <1>15 DEF Blow
  <2>3. ~ overlapped => Behind(k)' /\ \A rel \in Releases : copies'[rel] <= 1
    <3>1. pc'[k] = "closing" /\ UNCHANGED copies
      BY <1>15 DEF Blow, Go, RunTypes
    <3> QED BY <3>1 DEF Alone, Behind, Working
  <2> QED BY <2>1, <2>2, <2>3, OneTask
<1>16. ASSUME NEW k \in Runs, Close(k) PROVE Reached'
  <2>1. /\ pc'[k] = "done" /\ Alive(k) /\ job[k] \in Jobs
        /\ \A i \in Runs \ {k} : pc'[i] = pc[i]
    BY <1>16 DEF Close, Go, Alive, RunTypes
  <2>2. /\ UNCHANGED <<job, page, last_page, copies, current, overlapped>>
        /\ flag' = [flag EXCEPT ![job[k]] = None]
    BY <1>16 DEF Close, rowVars, runVars
  <2>3. ~ Alive(k)' /\ \A i \in Runs \ {k} : Alive(i)' = Alive(i)
    BY <2>1 DEF Alive
  <2>4. \A j \in Jobs : flag'[j] # None => Alive(flag[j])' /\ job'[flag'[j]] = j
    BY <2>1, <2>2, <2>3 DEF HandlerTypes
  <2>5. ASSUME Alone PROVE Alone'
    <3>1. \A i \in Runs : ~ Alive(i)'
      BY <2>1, <2>3, <2>5 DEF Alone
    <3>2. \A i \in Runs : Behind(i)'
      BY <2>1, <2>2, <2>5 DEF Alone, Behind, Working
    <3> QED BY <2>2, <2>5, <3>1, <3>2 DEF Alone
  <2> QED BY <2>2, <2>4, <2>5
<1>17. ASSUME NEW k \in Runs, NEW rel \in Releases, BadRelease(k, rel) PROVE Reached'
  <2>1. Alive(k) /\ Alive(k)' /\ \A i \in Runs \ {k} : pc'[i] = pc[i]
    BY <1>17 DEF BadRelease, Alive, RunTypes
  <2>2. UNCHANGED <<job, flag, overlapped>>
    BY <1>17 DEF BadRelease
  <2>3. ~ overlapped => Behind(k)' /\ \A any \in Releases : copies'[any] <= 1
    <3>1. UNCHANGED <<pc, page, last_page, copies, current>>
      BY <1>17 DEF BadRelease, rowVars
    <3> QED BY <3>1, <2>2 DEF Alone, Behind
  <2> QED BY <2>1, <2>2, <2>3, OneTask
<1>18. ASSUME NEW k \in Runs, NEW rel \in Releases, Skip(k, rel) PROVE Reached'
  <2>1. Alive(k) /\ Alive(k)' /\ \A i \in Runs \ {k} : pc'[i] = pc[i]
    BY <1>18 DEF Skip, Alive, RunTypes
  <2>2. UNCHANGED <<job, flag, overlapped>>
    BY <1>18 DEF Skip
  <2>3. ~ overlapped => Behind(k)' /\ \A any \in Releases : copies'[any] <= 1
    <3>1. UNCHANGED <<pc, page, last_page, copies, current>>
      BY <1>18 DEF Skip, rowVars
    <3> QED BY <3>1, <2>2 DEF Alone, Behind
  <2> QED BY <2>1, <2>2, <2>3, OneTask
<1>19. ASSUME NEW k \in Runs, NEW rel \in Releases, LookUp(k, rel) PROVE Reached'
  <2>1. Alive(k) /\ Alive(k)' /\ \A i \in Runs \ {k} : pc'[i] = pc[i]
    BY <1>19 DEF LookUp, Go, Alive, RunTypes
  <2>2. UNCHANGED <<job, flag, overlapped>>
    BY <1>19 DEF LookUp
  <2>3. ~ overlapped => Behind(k)' /\ \A any \in Releases : copies'[any] <= 1
    <3>1. pc[k] \in Working /\ UNCHANGED <<page, last_page, copies>>
      BY <1>19 DEF LookUp, Working, rowVars
    <3>2. current'[k] = rel /\ (pc'[k] = "insert" => copies[rel] = 0)
      BY <1>19 DEF LookUp, Go, RunTypes, WorkTypes
    <3> QED BY <3>1, <3>2, <2>2 DEF Alone, Behind
  <2> QED BY <2>1, <2>2, <2>3, OneTask
<1>20. ASSUME NEW j \in Jobs, Pause(j) PROVE Reached'
  <2>1. UNCHANGED <<pc, job, page, last_page, copies, current, flag, overlapped>>
    BY <1>20 DEF Pause, rowVars, runVars
  <2> QED BY <2>1 DEF Alone, Behind, Alive
<1>21. ASSUME NEW j \in Jobs, PauseRow(j) PROVE Reached'
  <2>1. UNCHANGED <<pc, job, page, last_page, copies, current, flag, overlapped>>
    BY <1>21 DEF PauseRow, rowVars, runVars
  <2> QED BY <2>1 DEF Alone, Behind, Alive
<1>22. ASSUME NEW j \in Jobs, MarkZombie(j) PROVE Reached'
  <2>1. UNCHANGED <<pc, job, page, last_page, copies, current, flag, overlapped>>
    BY <1>22 DEF MarkZombie, rowVars, runVars
  <2> QED BY <2>1 DEF Alone, Behind, Alive
<1>23. ASSUME NEW j \in Jobs, SpareActive(j) PROVE Reached'
  <2>1. UNCHANGED <<pc, job, page, last_page, copies, current, flag, overlapped>>
    BY <1>23 DEF SpareActive, rowVars, runVars
  <2> QED BY <2>1 DEF Alone, Behind, Alive
<1>24. CASE View
  <2>1. UNCHANGED <<pc, job, page, last_page, copies, current, flag, overlapped>>
    BY <1>24 DEF View, rowVars, runVars
  <2> QED BY <2>1 DEF Alone, Behind, Alive
<1>25. CASE Restart
  <2>1. \A i \in Runs : pc'[i] \in {"new", "done"}
    BY <1>25 DEF Restart
  <2>2. \A i \in Runs : ~ Alive(i)' /\ Behind(i)'
    BY <2>1 DEF Alive, Behind, Working
  <2>3. UNCHANGED <<copies, overlapped>> /\ \A j \in Jobs : flag'[j] = None
    BY <1>25 DEF Restart
  <2> QED BY <2>2, <2>3 DEF Alone
<1>26. CASE UNCHANGED vars
  BY <1>26 DEF vars, rowVars, runVars, Alone, Behind, Alive
<1> QED
  BY <1>1, <1>2, <1>3, <1>4, <1>5, <1>6, <1>7, <1>8, <1>9, <1>10, <1>11, <1>12, <1>13, <1>14,
     <1>15, <1>16, <1>17, <1>18, <1>19, <1>20, <1>21, <1>22, <1>23, <1>24, <1>25, <1>26
  DEF Next, RunStep

-----------------------------------------------------------------------------
(* The invariants *)

\* The types hold of every reachable state of the import.
LEMMA AlwaysTyped == Spec => []Typed
  BY TypedAtStart, TypedStays, PTL DEF Spec

\* No run has begun, and no row has a page behind it.
LEMMA CoveredAtStart == Init => Covered
  BY PageAssumption DEF Init, Covered, Own, ResumeSkipsNothing, Working

\* No release is ever jumped over, whatever pauses, resumes, fails or dies.
LEMMA AlwaysCovered == Spec => []Covered
<1>1. Typed /\ Covered /\ [Next]_vars => Covered'
  BY TypedStays, ProgressMade, RowsCovered, OwnStays DEF Covered
<1> QED
  BY <1>1, CoveredAtStart, AlwaysTyped, PTL DEF Spec

\* No task, no event, no token.
LEMMA ReachedAtStart == Init => Reached
  BY DEF Init, Reached, Alone, Behind, Alive, Working

\* _stop_flags never names a task that has ended, or another job's.
LEMMA AlwaysReached == Spec => []Reached
  BY ReachedStays, ReachedAtStart, AlwaysTyped, PTL DEF Spec

-----------------------------------------------------------------------------
(* The theorems *)

\* A resumed import jumps over no release, for any number of overlapping runs, pauses and
\* restarts: what lies before the page the row has (last_page, from which _run_import goes
\* on) has been handled by some run of the job.
THEOREM NothingIsSkipped == Spec => []ResumeSkipsNothing
<1>1. Covered => ResumeSkipsNothing
  BY DEF Covered
<1> QED
  BY <1>1, AlwaysCovered, PTL

\* A run that is about to write "completed" leaves no release of the collection out, however
\* often it was paused and resumed before.
THEOREM CompletedIsComplete == Spec => []CompletionIsComplete
<1>1. Covered => CompletionIsComplete
  BY DEF Covered, Own, CompletionIsComplete
<1> QED
  BY <1>1, AlwaysCovered, PTL

\* The lookup of a release and its insert are apart, and still no release is in the
\* catalogue twice unless two tasks were alive at once.
THEOREM OneTaskNoDuplicates == Spec => []DuplicatesNeedOverlap
<1>1. Reached => DuplicatesNeedOverlap
  BY DEF Reached, Alone, DuplicatesNeedOverlap
<1> QED
  BY <1>1, AlwaysReached, PTL

\* _stop_flags names live tasks of the right job, and every live one as long as tasks have
\* not overlapped; consecutive_failures and the other variables keep their types.
THEOREM FlagsNameTasks == Spec => []FlagsMatchTasks
<1>1. Typed /\ Reached => FlagsMatchTasks
  BY TypedIsTypeOK DEF Reached, Alone, FlagsMatchTasks
<1> QED
  BY <1>1, AlwaysTyped, AlwaysReached, PTL

\* No step takes a row's page back while tasks do not overlap.
LEMMA PagesAreKept == Typed /\ Reached /\ [Next]_vars =>
    overlapped' \/ \A j \in Jobs : last_page'[j] >= last_page[j]
<1> SUFFICES ASSUME Typed, Reached, Progress, ~ overlapped', NEW j \in Jobs
             PROVE  last_page'[j] >= last_page[j]
  BY ProgressMade
<1>1. Alone
  BY DEF Progress, Reached
<1>2. last_page[j] \in Nat
  BY PagesEnd DEF Typed, RowTypes
<1> QED
  BY <1>1, <1>2 DEF Progress, Alone, Behind

\* The page a job has reached never goes back as long as no two tasks overlap: every _mark
\* writes the page of a run that loaded the row's page before.
THEOREM ProgressIsKept == Spec => ProgressKept
  BY PagesAreKept, AlwaysTyped, AlwaysReached, PTL DEF Spec, ProgressKept
=============================================================================
