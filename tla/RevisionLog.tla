---------------------------- MODULE RevisionLog ----------------------------
(***************************************************************************)
(* What the token registry promises about history: every token has a log  *)
(* of revisions that only grows at its end, one revision at a time, until  *)
(* the token is purged; what was written is never overwritten or reordered,*)
(* and nothing is written for a purged token.                              *)
(*                                                                         *)
(* db/models.py:414-419 ("Append-only revision of a token's attribute      *)
(* snapshot"); the code that has to live up to it is modelled by           *)
(* TokenRegistry, which implements this specification.                     *)
(***************************************************************************)
EXTENDS Sequences

CONSTANTS
    Tokens,    \* token ids
    Entries    \* what a revision says

VARIABLES
    log,       \* the revisions of every token, oldest first
    purged     \* the tokens deleted for good

vars == <<log, purged>>

Init ==
    /\ log = [t \in Tokens |-> << >>]
    /\ purged = {}

\* A new revision of one token.
Revise(t, entry) ==
    /\ t \notin purged
    /\ log' = [log EXCEPT ![t] = Append(@, entry)]
    /\ UNCHANGED purged

\* Tokens go, and their history with them.
Purge(S) ==
    /\ purged' = purged \cup S
    /\ log' = [t \in Tokens |-> IF t \in S THEN << >> ELSE log[t]]

Next ==
    \/ \E t \in Tokens, entry \in Entries : Revise(t, entry)
    \/ \E S \in SUBSET Tokens : Purge(S)

Spec == Init /\ [][Next]_vars
=============================================================================
