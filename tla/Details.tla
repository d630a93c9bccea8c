------------------------------ MODULE Details -------------------------------
(***************************************************************************)
(* What a token keeps of Discogs in its column extra (web/                 *)
(* discogs_details.py, ingestion/discogs_extras.py and the extras of a     *)
(* collection import, web/admin.py): the identifiers of the release, and   *)
(* the fields that the user's own Discogs collection has for the copy.     *)
(*                                                                         *)
(* Those fields are edited on both sides.  MediaCat keeps its own value    *)
(* of each and the last value known to be on Discogs; where the two differ *)
(* the edit has not been written back.                                     *)
(*                                                                         *)
(* A step is what one request does from one await to the next; a request   *)
(* may end in an exception at each of them.                                *)
(*                                                                         *)
(* Data: one token with a release, one copy of it.  The identifiers are    *)
(* there or not.  The field definitions are fixed (clean_field_defs); a    *)
(* value is a text, Blank when there is none.                              *)
(***************************************************************************)
EXTENDS Naturals, FiniteSets

CONSTANTS
    Fields,    \* of the collection
    Texts,     \* that a field may hold
    Blank,     \* the empty one of them
    Editors,   \* requests under way at once
    Null,
    MaxRequests, MaxSiteEdits  \* bounds of what is explored

Entries == [Fields -> Texts]

\* extra["discogs_collection"]; instance says whether the copy's ids are known.
Collection == [values : Entries, discogs_values : Entries, instance : BOOLEAN]

DetailsAssumption ==
    /\ Blank \in Texts
    /\ Null \notin Texts /\ Null \notin Entries /\ Null \notin Collection
    /\ MaxRequests \in Nat /\ MaxSiteEdits \in Nat

VARIABLES
    identifiers,  \* is extra["discogs"] there
    collection,   \* extra["discogs_collection"], or Null
    site,         \* what Discogs holds of the copy; Null when it is not in the collection
    at,           \* where each request is
    task,         \* of each request
    copy,         \* the collection as the request has loaded it, or as Discogs has listed it
    base,         \* extra as _save_extra has selected it
    found,        \* has the request fetched the release
    result,       \* the collection it will store, or Null
    todo,         \* fields it has yet to write to Discogs
    behind,       \* requests since whose beginning another one has stored (history)
    pushed,       \* fields the request has written to Discogs (history)
    late,         \* fields changed on Discogs since the request looked (history)
    moved,        \* fields changed on Discogs that no stored state shows (history)
    typed,        \* edits stored and not on Discogs since (history)
    raced,        \* has a request stored what it made of an outdated copy (history)
    spent         \* requests and edits on Discogs so far (bounds)

row == <<identifiers, collection>>
local == <<at, task, copy, base, found, result, todo>>
history == <<behind, pushed, late, moved, typed, raced>>
detailVars == <<row, site, local, history, spent>>

Init ==
    /\ identifiers = FALSE /\ collection = Null
    /\ site \in {[f \in Fields |-> Blank], Null}
    /\ at = [r \in Editors |-> "idle"]
    /\ task = [r \in Editors |-> Null]
    /\ copy = [r \in Editors |-> Null]
    /\ base = [r \in Editors |-> Null]
    /\ found = [r \in Editors |-> FALSE]
    /\ result = [r \in Editors |-> Null]
    /\ todo = [r \in Editors |-> {}]
    /\ behind = {}
    /\ pushed = [r \in Editors |-> {}]
    /\ late = [r \in Editors |-> {}]
    /\ moved = {}
    /\ typed = [f \in Fields |-> Null]
    /\ raced = FALSE
    /\ spent = [requests |-> 0, edits |-> 0]

-----------------------------------------------------------------------------
(* Merging and comparing *)

\* notes_to_values: a field without a note is empty.
Remote(copyThere) == IF copyThere = Null THEN [f \in Fields |-> Blank] ELSE copyThere

NoCollection == [values |-> [f \in Fields |-> Blank],
                 discogs_values |-> [f \in Fields |-> Blank], instance |-> FALSE]

Stored(c) == IF c = Null THEN NoCollection ELSE c

\* Fields edited here and not written back.
Pending(c) == {f \in Fields : c.values[f] # c.discogs_values[f]}

\* A mistake of Merged: every value follows Discogs.
MergedBlindly(existing, there) ==
    [values |-> Remote(there), discogs_values |-> Remote(there),
     instance |-> there # Null \/ Stored(existing).instance]

\* merge_collection: a pending edit stays, any other value follows Discogs.
Merged(existing, there) ==
    LET prev == Stored(existing)
    IN [values |-> [f \in Fields |-> IF f \in Pending(prev) THEN prev.values[f] ELSE Remote(there)[f]],
        discogs_values |-> Remote(there),
        instance |-> there # Null \/ prev.instance]

\* The values of the form take the place of the stored ones.
WithForm(c, form) ==
    [c EXCEPT !.values = [f \in Fields |-> IF form[f] = Null THEN @[f] ELSE form[f]]]

-----------------------------------------------------------------------------
Go(r, label) == at' = [at EXCEPT ![r] = label]
UnderWay == {r \in Editors : at[r] # "idle"}

\* A request is over, and the next one may come.
End(r) ==
    /\ Go(r, "idle")
    /\ task' = [task EXCEPT ![r] = Null]
    /\ copy' = [copy EXCEPT ![r] = Null]
    /\ base' = [base EXCEPT ![r] = Null]
    /\ found' = [found EXCEPT ![r] = FALSE]
    /\ result' = [result EXCEPT ![r] = Null]
    /\ todo' = [todo EXCEPT ![r] = {}]
    /\ pushed' = [pushed EXCEPT ![r] = {}]
    /\ late' = [late EXCEPT ![r] = {}]

\* A request comes in.  None does once one has stored what it made of an outdated copy:
\* the properties say nothing of what follows.
Start(r, name) ==
    /\ at[r] = "idle" /\ ~ raced
    /\ spent.requests < MaxRequests
    /\ spent' = [spent EXCEPT !.requests = @ + 1]
    /\ task' = [task EXCEPT ![r] = name]

\* _load; a refresh is also the last part of sync_discogs_execute.
StartRefresh(r) ==
    /\ Start(r, "refresh")
    /\ copy' = [copy EXCEPT ![r] = collection]
    /\ Go(r, "release")
    /\ UNCHANGED <<row, site, base, found, result, todo, history>>

\* discogs_collection_save: nothing to edit before the fields have been loaded.  A
\* write-back pushes what is pending, of a copy whose ids are known.
StartSave(r, form, writeback) ==
    /\ Start(r, "save")
    /\ collection # Null
    /\ LET c == WithForm(collection, form)
       IN /\ result' = [result EXCEPT ![r] = c]
          /\ todo' = [todo EXCEPT ![r] = IF writeback /\ c.instance THEN Pending(c) ELSE {}]
          /\ Go(r, IF writeback /\ c.instance /\ Pending(c) # {} THEN "open" ELSE "select")
    /\ copy' = [copy EXCEPT ![r] = collection]
    /\ UNCHANGED <<row, site, base, found, history>>

\* A collection import lists the copy with its notes; a release that is known is only
\* fetched when the token has no identifiers (_refresh_existing_extras).
StartImport(r) ==
    /\ Start(r, "import")
    /\ site # Null
    /\ copy' = [copy EXCEPT ![r] = [NoCollection EXCEPT !.discogs_values = site]]
    /\ Go(r, IF identifiers THEN "select" ELSE "release")
    /\ UNCHANGED <<row, site, base, found, result, todo, history>>

\* _fetch_release_patiently, or the connector: the answer may be a failure.
FetchRelease(r) ==
    /\ at[r] = "release"
    /\ \E answered \in BOOLEAN : found' = [found EXCEPT ![r] = answered]
    /\ Go(r, IF task[r] = "import" THEN "select" ELSE "collection")
    /\ UNCHANGED <<row, site, task, copy, base, result, todo, history, spent>>

\* fetch_collection_state merges into the copy loaded at the start.  Without a token or
\* an answer there is nothing to merge, and perhaps nothing to store.
FetchCollection(r) ==
    /\ at[r] = "collection"
    /\ \/ /\ result' = [result EXCEPT ![r] = Merged(copy[r], site)]
          /\ late' = [late EXCEPT ![r] = {}]
          /\ Go(r, "select")
          /\ UNCHANGED <<task, copy, base, found, todo, pushed, behind>>
       \/ /\ found[r] /\ Go(r, "select")
          /\ UNCHANGED <<task, copy, base, found, result, todo, pushed, late, behind>>
       \/ ~ found[r] /\ End(r) /\ behind' = behind \ {r}
    /\ UNCHANGED <<row, site, moved, typed, raced, spent>>

\* open_collection_connector: a write-back without a token only saves.
OpenConnector(r) ==
    /\ at[r] = "open"
    /\ \E token \in BOOLEAN :
          /\ Go(r, IF token THEN "push" ELSE "select")
          /\ todo' = IF token THEN todo ELSE [todo EXCEPT ![r] = {}]
    /\ UNCHANGED <<row, site, task, copy, base, found, result, history, spent>>

\* To the other requests under way the field has changed.
ChangedFor(r, f) ==
    [q \in Editors |-> IF q = r THEN late[q] \ {f}
                       ELSE IF q \in UnderWay THEN late[q] \cup {f} ELSE late[q]]

\* set_collection_field, one field at a time in the order of the fields; the first that
\* fails ends the write-back, and those before it are recorded.
Push(r, f) ==
    /\ at[r] = "push" /\ f \in todo[r]
    /\ \/ /\ site # Null
          /\ site' = [site EXCEPT ![f] = result[r].values[f]]
          /\ result' = [result EXCEPT ![r].discogs_values[f] = result[r].values[f]]
          /\ todo' = [todo EXCEPT ![r] = @ \ {f}]
          /\ moved' = moved \cup {f}
          /\ pushed' = [pushed EXCEPT ![r] = @ \cup {f}]
          /\ late' = ChangedFor(r, f)
       \/ todo' = [todo EXCEPT ![r] = {}] /\ UNCHANGED <<site, result, pushed, moved, late>>
    /\ Go(r, IF todo'[r] = {} THEN "select" ELSE "push")
    /\ UNCHANGED <<row, task, copy, base, found, behind, typed, raced, spent>>

\* _save_extra and _store_discogs_extras load the row again; only the import merges into
\* what it loads here.
SelectExtra(r) ==
    /\ at[r] = "select"
    /\ base' = [base EXCEPT ![r] = [identifiers |-> identifiers, collection |-> collection]]
    /\ result' = IF task[r] = "import"
                 THEN [result EXCEPT ![r] = Merged(collection, copy[r].discogs_values)] ELSE result
    /\ Go(r, "store")
    /\ UNCHANGED <<row, site, task, copy, found, todo, history, spent>>

\* Fields that the request has compared with Discogs, or has written there.
Settled(r) ==
    (IF task[r] = "save" THEN pushed[r] ELSE Fields) \ late[r]

\* An edit is typed until Discogs is known to have the same.
Typed(r, c) ==
    [f \in Fields |->
        LET text == IF task[r] = "save" /\ copy[r].values[f] # c.values[f] THEN c.values[f]
                                                                          ELSE typed[f]
        IN IF text = c.discogs_values[f] THEN Null ELSE text]

\* The whole column is written, the keys that the request has something for replaced.
StoreExtra(r) ==
    /\ at[r] = "store"
    /\ identifiers' = (found[r] \/ base[r].identifiers)
    /\ collection' = IF result[r] = Null THEN base[r].collection ELSE result[r]
    /\ moved' = IF result[r] = Null THEN moved ELSE moved \ Settled(r)
    /\ typed' = IF result[r] = Null THEN typed ELSE Typed(r, result[r])
    /\ raced' = (raced \/ r \in behind)
    /\ behind' = (behind \cup UnderWay) \ {r}
    /\ End(r)
    /\ UNCHANGED <<site, spent>>

\* An exception, or the end of the process, at any await.
Abandon(r) ==
    /\ r \in UnderWay
    /\ End(r)
    /\ behind' = behind \ {r}
    /\ UNCHANGED <<row, site, moved, typed, raced, spent>>

\* What one edit on Discogs makes of the copy.
Nearby(there) ==
    IF there = Null THEN {[f \in Fields |-> Blank]}
    ELSE {Null} \cup {[there EXCEPT ![f] = text] : f \in Fields, text \in Texts}

\* The user edits the copy on Discogs, adds it to the collection or takes it out.
EditOnSite(there) ==
    /\ there # site /\ ~ raced
    /\ spent.edits < MaxSiteEdits
    /\ spent' = [spent EXCEPT !.edits = @ + 1]
    /\ site' = there
    /\ LET changed == {f \in Fields : Remote(there)[f] # Remote(site)[f]}
       IN /\ moved' = moved \cup changed
          /\ late' = [r \in Editors |-> IF r \in UnderWay THEN late[r] \cup changed ELSE late[r]]
    /\ UNCHANGED <<row, local, behind, pushed, typed, raced>>

Next ==
    \/ \E r \in Editors :
          \/ StartRefresh(r) \/ StartImport(r)
          \/ \E f \in Fields, text \in Texts, writeback \in BOOLEAN :
                StartSave(r, [g \in Fields |-> IF g = f THEN text ELSE Null], writeback)
          \/ FetchRelease(r) \/ FetchCollection(r) \/ OpenConnector(r)
          \/ \E f \in Fields : Push(r, f)
          \/ SelectExtra(r) \/ StoreExtra(r) \/ Abandon(r)
    \/ \E there \in Nearby(site) : EditOnSite(there)

Spec == Init /\ [][Next]_detailVars

-----------------------------------------------------------------------------
TypeOK ==
    /\ identifiers \in BOOLEAN
    /\ collection \in Collection \cup {Null}
    /\ site \in Entries \cup {Null}
    /\ at \in [Editors -> {"idle", "release", "collection", "open", "push", "select", "store"}]
    /\ found \in [Editors -> BOOLEAN]
    /\ result \in [Editors -> Collection \cup {Null}]
    /\ todo \in [Editors -> SUBSET Fields]

\* discogs_extras.py:284: "Values edited locally but not yet written back are preserved".
\* An edit stays as it was typed until Discogs has the same, whatever is refreshed,
\* imported, written back or fails in between, unless a request stores what it made of a
\* copy that another one has replaced (discogs_details.py:204, 300).
EditsSurvive ==
    raced \/ \A f \in Fields : typed[f] = Null \/ collection.values[f] = typed[f]

\* What MediaCat takes for the value on Discogs is the value there, unless it was changed
\* there since the last contact; a write-back that fails half way, or is stored by nobody,
\* leaves no field that looks written and is not.
KnowsDiscogs ==
    \/ raced \/ collection = Null
    \/ \A f \in Fields : f \in moved \/ collection.discogs_values[f] = Remote(site)[f]

=============================================================================
