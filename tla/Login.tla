------------------------------- MODULE Login --------------------------------
(***************************************************************************)
(* Logging in (web/auth.py, login_submit of web/routes.py): a failed       *)
(* attempt counts against its user name and its address, in Redis.  The    *)
(* counts that a process keeps when Redis is not there differ in that they *)
(* are lost with it, and are not modelled.                                 *)
(*                                                                         *)
(* A step is what a request does from one await to the next.  Data: the    *)
(* age of a failure is counted in ticks, Window of which are the window.   *)
(***************************************************************************)
EXTENDS Naturals, FiniteSets

CONSTANTS Names, Addresses, Attempts, None,
          MaxAttempts, Window  \* lockout_threshold, lockout_window_seconds

LoginAssumption ==
    /\ {MaxAttempts, Window} \subseteq Nat \ {0}
    /\ Names \cap Addresses = {}

VARIABLES
    failures,  \* per name and address: the failures within the window, <<attempt, age>>
    attempt,   \* [at, name, address] of each attempt
    wrong,     \* per name and address: the attempts that failed less than a window ago (history)
    crowd      \* per name and address: the most attempts past its check at once (history)

loginVars == <<failures, attempt, wrong, crowd>>

Keys == Names \cup Addresses

Init ==
    /\ failures = [k \in Keys |-> {}]
    /\ attempt = [a \in Attempts |-> [at |-> "new", name |-> None, address |-> None]]
    /\ wrong = [k \in Keys |-> {}]
    /\ crowd = [k \in Keys |-> 0]

-----------------------------------------------------------------------------
is_locked(k) == Cardinality(failures[k]) >= MaxAttempts

\* The attempts that the check of a name or an address has let past and that may yet count.
Past(k) ==
    {a \in Attempts :
        \/ attempt[a].name = k /\ attempt[a].at \in {"check address", "verify", "record name"}
        \/ attempt[a].address = k /\ attempt[a].at \in {"verify", "record name", "record address"}}

Set(a, to) ==
    /\ attempt' = [attempt EXCEPT ![a] = to]
    /\ crowd' = [k \in Keys |-> IF Cardinality(Past(k)') > crowd[k] THEN Cardinality(Past(k)') ELSE crowd[k]]
To(a, label) == Set(a, [attempt[a] EXCEPT !.at = label])
End(a) == Set(a, [at |-> "over", name |-> None, address |-> None])

\* login_submit checks the user name, then the address.
CheckName(a, name, address) ==
    /\ attempt[a].at = "new"
    /\ IF is_locked(name) THEN End(a)
       ELSE Set(a, [at |-> "check address", name |-> name, address |-> address])
    /\ UNCHANGED <<failures, wrong>>

CheckAddress(a) ==
    /\ attempt[a].at = "check address"
    /\ IF is_locked(attempt[a].address) THEN End(a) ELSE To(a, "verify")
    /\ UNCHANGED <<failures, wrong>>

\* The user is looked up; it is active and the password right, or not.
Verify(a) ==
    /\ attempt[a].at = "verify"
    /\ \/ To(a, "clear name") /\ UNCHANGED wrong
       \/ /\ To(a, "record name")
          /\ wrong' = [k \in Keys |-> IF k \in {attempt[a].name, attempt[a].address}
                                       THEN wrong[k] \cup {<<a, 0>>} ELSE wrong[k]]
    /\ UNCHANGED failures

\* record_failure adds the failure and drops what is as old as the window.
record_failure(k, a) == [failures EXCEPT ![k] = {f \in @ : f[2] < Window} \cup {<<a, 0>>}]

\* A mistake of Record: only the address is counted.
RecordAddress(a) ==
    \/ /\ attempt[a].at = "record name"
       /\ To(a, "record address")
       /\ UNCHANGED <<failures, wrong>>
    \/ /\ attempt[a].at = "record address"
       /\ failures' = record_failure(attempt[a].address, a)
       /\ End(a)
       /\ UNCHANGED wrong

Record(a) ==
    \/ /\ attempt[a].at = "record name"
       /\ failures' = record_failure(attempt[a].name, a)
       /\ To(a, "record address")
       /\ UNCHANGED wrong
    \/ /\ attempt[a].at = "record address"
       /\ failures' = record_failure(attempt[a].address, a)
       /\ End(a)
       /\ UNCHANGED wrong

\* A success clears both counts, then notes the login in the row and signs the cookie.
Clear(a) ==
    \/ /\ attempt[a].at = "clear name"
       /\ failures' = [failures EXCEPT ![attempt[a].name] = {}]
       /\ wrong' = [wrong EXCEPT ![attempt[a].name] = {}]
       /\ To(a, "clear address")
    \/ /\ attempt[a].at = "clear address"
       /\ failures' = [failures EXCEPT ![attempt[a].address] = {}]
       /\ wrong' = [wrong EXCEPT ![attempt[a].address] = {}]
       /\ End(a)

\* Redis does not answer, or the browser has gone: a failure may go without a record.
Fail(a) ==
    /\ attempt[a].at \notin {"new", "over"}
    /\ End(a)
    /\ wrong' = [k \in Keys |-> {f \in wrong[k] : f[1] # a}]
    /\ UNCHANGED failures

Tick ==
    /\ failures' = [k \in Keys |-> {<<f[1], f[2] + 1>> : f \in {g \in failures[k] : g[2] < Window}}]
    /\ wrong' = [k \in Keys |-> {<<f[1], f[2] + 1>> : f \in {g \in wrong[k] : g[2] + 1 < Window}}]
    /\ UNCHANGED <<attempt, crowd>>

Next ==
    \/ \E a \in Attempts :
          \/ \E name \in Names, address \in Addresses : CheckName(a, name, address)
          \/ CheckAddress(a) \/ Verify(a) \/ Record(a) \/ Clear(a) \/ Fail(a)
    \/ Tick

Spec == Init /\ [][Next]_loginVars

-----------------------------------------------------------------------------
TypeOK ==
    /\ \A k \in Keys : failures[k] \subseteq Attempts \X (0..Window) /\ crowd[k] \in Nat
    /\ \A a \in Attempts : attempt[a].name \in Names \cup {None} /\ attempt[a].address \in Addresses \cup {None}

\* "Login is rate-limited and accounts are locked after threshold failures" (auth.py:8).  The
\* check and the record are two calls (auth.py:225), so that attempts at once all pass the
\* check before the first has counted: since a success, and within a window, a name or an
\* address has had no more failures that Redis was told of than the threshold allows and
\* attempts were past its check at once.
FailuresAreBounded ==
    \A k \in Keys : Cardinality(wrong[k]) <= (MaxAttempts - 1) + crowd[k]
=============================================================================
