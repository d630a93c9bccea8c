------------------------------- MODULE Reviews ------------------------------
(***************************************************************************)
(* The review queue (web/routes.py, flag_for_review of web/catalogue.py):  *)
(* a token is flagged, and the item it gets is approved or rejected.       *)
(*                                                                         *)
(* A step is what a request does from one await to the next.  Data: one    *)
(* token, whose items are named by the requests that flagged it.           *)
(***************************************************************************)
EXTENDS FiniteSets

CONSTANTS Requests, Comments, None

VARIABLES
    token,     \* "live", "deleted" or "purged"
    items,     \* per request: the review item it has created, [status, comment], or None
    request,   \* [at, item, verdict, comment, copy] of each request
    decided,   \* per item: the last decision that was stored, or None (history)
    crossed    \* the items that were decided on by two requests at once (history)

reviewVars == <<token, items, request, decided, crossed>>

Verdicts == {"approved", "rejected"}

ReviewsAssumption == None \notin [status : Verdicts, comment : Comments]

Init ==
    /\ token = "live"
    /\ items = [r \in Requests |-> None]
    /\ request = [r \in Requests |-> [at |-> "new", item |-> None, verdict |-> "none",
                                      comment |-> None, copy |-> None]]
    /\ decided = [r \in Requests |-> None]
    /\ crossed = {}

-----------------------------------------------------------------------------
To(r, label) == request' = [request EXCEPT ![r].at = label]

\* flag_for_review selects the token, which must not be deleted, ...
Flag(r) ==
    /\ request[r].at = "new"
    /\ To(r, IF token = "live" THEN "insert" ELSE "over")
    /\ UNCHANGED <<token, items, decided, crossed>>

\* ... and inserts an item, if the token is there at all by then.
Insert(r) ==
    /\ request[r].at = "insert"
    /\ items' = IF token = "purged" THEN items
                ELSE [items EXCEPT ![r] = [status |-> "pending", comment |-> None]]
    /\ To(r, "over")
    /\ UNCHANGED <<token, decided, crossed>>

\* review_approve and review_reject select the item, whatever its status; one that is not
\* there is told to be decided as well.
Select(r, i, verdict, comment) ==
    /\ request[r].at = "new"
    /\ request' = [request EXCEPT ![r] =
          [at |-> IF items[i] = None THEN "over" ELSE "store", item |-> i, verdict |-> verdict,
           comment |-> comment, copy |-> items[i]]]
    /\ crossed' = crossed \cup {j \in {i} : \E q \in Requests :
                                              request[q].at = "store" /\ request[q].item = j}
    /\ UNCHANGED <<token, items, decided>>

\* A mistake of Store: the comment of an earlier decision stands.
StoreVerdict(r) ==
    /\ request[r].at = "store"
    /\ LET i == request[r].item IN
          /\ items[i] # None
          /\ items' = [items EXCEPT ![i].status = request[r].verdict,
                                    ![i].comment = IF @ = None THEN request[r].comment ELSE @]
          /\ decided' = [decided EXCEPT ![i] = [status |-> request[r].verdict,
                                                comment |-> request[r].comment]]
    /\ To(r, "over")
    /\ UNCHANGED <<token, crossed>>

\* The UPDATE has the columns that differ from the row as it was selected.  A row that is gone,
\* or a database that fails, is logged and told to be decided.
Store(r) ==
    /\ request[r].at = "store"
    /\ LET q == request[r]
           decision == [status |-> q.verdict, comment |-> q.comment]
       IN \/ /\ items[q.item] # None
             /\ items' = [items EXCEPT ![q.item] =
                   [c \in DOMAIN @ |-> IF decision[c] = q.copy[c] THEN @[c] ELSE decision[c]]]
             /\ decided' = [decided EXCEPT ![q.item] = decision]
          \/ UNCHANGED <<items, decided>>
    /\ To(r, "over")
    /\ UNCHANGED <<token, crossed>>

\* A token is deleted, recovered or purged; its items go with it.
DeleteOrRecover ==
    /\ token # "purged"
    /\ token' = IF token = "live" THEN "deleted" ELSE "live"
    /\ UNCHANGED <<items, request, decided, crossed>>

Purge ==
    /\ token = "deleted"
    /\ token' = "purged"
    /\ items' = [r \in Requests |-> None]
    /\ UNCHANGED <<request, decided, crossed>>

Next ==
    \/ \E r \in Requests :
          \/ Flag(r) \/ Insert(r) \/ Store(r)
          \/ \E i \in Requests, v \in Verdicts, c \in Comments : Select(r, i, v, c)
    \/ DeleteOrRecover \/ Purge

Spec == Init /\ [][Next]_reviewVars

-----------------------------------------------------------------------------
TypeOK ==
    /\ token \in {"live", "deleted", "purged"}
    /\ \A r \in Requests :
          items[r] = None \/ items[r] \in [status : Verdicts \cup {"pending"}, comment : Comments \cup {None}]
    /\ crossed \subseteq Requests

\* No status is checked (routes.py:605), so that a later decision replaces an earlier one as a
\* whole: an item shows the last decision and the comment that was made with it, and is
\* pending as long as there is none.  Only two decisions at once may mix, the status of one
\* with the comment of the other, since the second writes what differs from its own copy.
DecisionIsWhole ==
    \A i \in Requests : items[i] # None /\ i \notin crossed =>
        IF decided[i] = None THEN items[i].status = "pending" /\ items[i].comment = None
        ELSE items[i] = decided[i]
=============================================================================
