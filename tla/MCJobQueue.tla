----------------------------- MODULE MCJobQueue -----------------------------
(***************************************************************************)
(* Instances of JobQueue for TLC.  The counters of the model are bounded   *)
(* by MaxAttempts and MaxAge, so no further bound is needed.               *)
(***************************************************************************)
EXTENDS JobQueue, TLC

\* Jobs, workers and reapers are interchangeable in the safety runs.
ClientSymmetry == Permutations(Jobs) \cup Permutations(Workers) \cup Permutations(Reapers)
=============================================================================
