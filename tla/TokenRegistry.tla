--------------------------- MODULE TokenRegistry ---------------------------
(***************************************************************************)
(* The token registry: the tokens and token_revisions tables and every     *)
(* HTTP handler of web/catalogue.py and web/admin.py that writes them.     *)
(*                                                                         *)
(* A request is one transaction of a handler, and runs once.  Handlers     *)
(* read the row of a token, assign attributes of the ORM object, have the  *)
(* session flush the changed columns before the next query (autoflush),    *)
(* count the revisions, and commit with a new revision numbered one above  *)
(* the count.  Any other request may run between these steps.              *)
(*                                                                         *)
(* The database is PostgreSQL at READ COMMITTED: an UPDATE locks its row    *)
(* until the transaction ends, waits for the lock of another, and sets the *)
(* changed columns only; nothing is visible to others before the commit;   *)
(* a duplicate (token_id, revision_number) or a revision of a purged token *)
(* makes the commit fail and the transaction roll back.                    *)
(*                                                                         *)
(* Data: a row is a record of the columns the properties tell apart.  The  *)
(* side A matrix text stands for all plain form fields, the parsed matrix  *)
(* column for the JSON columns that handlers rewrite as a whole.           *)
(***************************************************************************)
EXTENDS Integers, FiniteSets, Sequences

CONSTANTS
    Tokens,       \* token ids
    Requests,     \* HTTP requests
    Operations,   \* what the requests of this model may ask for
    Values,       \* values of a column
    Keys,         \* keys of the parsed matrix column
    Null

AllOperations == {"create", "import", "collection_import", "reimport", "edit", "merge",
                  "apply_ocr", "correct", "genres", "sync", "archive", "delete",
                  "bulk_delete", "recover", "purge"}

ASSUME OperationsAssumption == Operations \subseteq AllOperations
ASSUME KeysAssumption == "matrix_number" \in Keys
ASSUME NullAssumption == Null \notin Values \cup Requests

Columns == {"status", "deleted", "country_id", "matrix_runout", "parsed", "genres",
            "current_revision_id"}

\* The columns that a revision's data repeats (_revision_data).
Logged == {"country_id", "matrix_runout"}

Entry == (Values \cup {Null}) \X {"human", "vision"}
Row == [status : {"active", "merged", "archived"},
        deleted : BOOLEAN,
        country_id : Values \cup {Null},
        matrix_runout : Values \cup {Null},
        parsed : [Keys -> Entry \cup {Null}],
        genres : SUBSET Values,
        current_revision_id : Nat \cup {Null}]

VARIABLES
    rows,       \* tokens: the row of every id that has one
    life,       \* has an id a row: "unused", "stored" or "purged"
    revisions,  \* token_revisions: the revisions of every token
    lock,       \* the request whose transaction holds the row's lock
    pc,         \* where each request is
    req,        \* what a request carries in its session
    count       \* rev_count of each request

vars == <<rows, life, revisions, lock, pc, req, count>>

Init ==
    /\ rows = [t \in Tokens |-> Null]
    /\ life = [t \in Tokens |-> "unused"]
    /\ revisions = [t \in Tokens |-> {}]
    /\ lock = [t \in Tokens |-> Null]
    /\ pc = [r \in Requests |-> "new"]
    /\ req = [r \in Requests |-> Null]
    /\ count = [r \in Requests |-> 0]

-----------------------------------------------------------------------------
Exists(t) == life[t] = "stored"
Visible(t) == Exists(t) /\ ~ rows[t].deleted
Free(t) == lock[t] = Null
Numbers(t) == {rev.number : rev \in revisions[t]}

\* The columns an ORM object would UPDATE: those whose value has changed.
Changes(old, new) == [c \in {d \in Columns : old[d] # new[d]} |-> new[c]]

Updated(row, update) ==
    [c \in Columns |-> IF c \in DOMAIN update THEN update[c] ELSE row[c]]

\* _revision_data
RevisionData(row) == [country_id |-> row.country_id, matrix_runout |-> row.matrix_runout]

Revision(number, source, data, changed, merged, wrote) ==
    [number |-> number, source |-> source, data |-> data,
     changed |-> changed,   \* which of the logged columns the author changed (history)
     merged |-> merged,     \* the token the comment says was merged in, or Null
     wrote |-> wrote]       \* did the author change the row of the token (history)

NewRow(country, matrix) ==
    [status |-> "active", deleted |-> FALSE, country_id |-> country,
     matrix_runout |-> matrix, parsed |-> [k \in Keys |-> Null], genres |-> {},
     current_revision_id |-> Null]

Start(r, op) == pc[r] = "new" /\ op \in Operations

Go(r, label) == pc' = [pc EXCEPT ![r] = label]

\* A mistake of End: the row stays locked.
EndLocked(r) ==
    /\ Go(r, "done")
    /\ req' = [req EXCEPT ![r] = Null]
    /\ count' = [count EXCEPT ![r] = 0]
    /\ UNCHANGED lock

\* The transaction ends: its locks go, and the session with it.
End(r) ==
    /\ Go(r, "done")
    /\ lock' = [t \in Tokens |-> IF lock[t] = r THEN Null ELSE lock[t]]
    /\ req' = [req EXCEPT ![r] = Null]
    /\ count' = [count EXCEPT ![r] = 0]

-----------------------------------------------------------------------------
(* New tokens.  The row and its first revision are inserted by one commit. *)
(* current_revision_id is assigned from revision.id, which is None until   *)
(* the revision is flushed.                                                *)

Insert(r, t, row, first) ==
    /\ life[t] = "unused"
    /\ life' = [life EXCEPT ![t] = "stored"]
    /\ rows' = [rows EXCEPT ![t] = row]
    /\ revisions' = [revisions EXCEPT ![t] = first]
    /\ Go(r, "done")
    /\ UNCHANGED <<lock, req, count>>

\* token_new_submit
Create(r, t) ==
    /\ Start(r, "create")
    /\ \E country, matrix \in Values \cup {Null} :
         LET row == NewRow(country, matrix) IN
         Insert(r, t, row, {Revision(1, "human", RevisionData(row), Logged, Null, TRUE)})

\* import_discogs_create, import_mb_create: the country is not stored.
Import(r, t) ==
    /\ Start(r, "import")
    /\ \E matrix \in Values \cup {Null} :
         LET row == NewRow(Null, matrix) IN
         Insert(r, t, row, {Revision(1, "import", RevisionData(row), Logged, Null, TRUE)})

\* _run_import, a release that is not in the catalogue yet: no revision.
CollectionImport(r, t) ==
    /\ Start(r, "collection_import")
    /\ \E country, matrix \in Values \cup {Null} : Insert(r, t, NewRow(country, matrix), {})

-----------------------------------------------------------------------------
(* Handlers that read a row and assign attributes.  What they would UPDATE *)
(* is settled here, whatever happens to the row before the UPDATE runs.    *)

\* A mistake of Load: the data of the revision is taken before the assignments.
LoadStaleData(r, t, op, new, next) ==
    /\ Start(r, op)
    /\ Visible(t)
    /\ req' = [req EXCEPT ![r] = [op |-> op, row |-> t, log |-> t,
                                  update |-> Changes(rows[t], new),
                                  data |-> RevisionData(rows[t])]]
    /\ Go(r, next)
    /\ UNCHANGED <<rows, life, revisions, lock, count>>

Load(r, t, op, new, next) ==
    /\ Start(r, op)
    /\ Visible(t)
    /\ req' = [req EXCEPT ![r] = [op |-> op, row |-> t, log |-> t,
                                  update |-> Changes(rows[t], new),
                                  data |-> RevisionData(new)]]
    /\ Go(r, next)
    /\ UNCHANGED <<rows, life, revisions, lock, count>>

WithForm(row, country, matrix) ==
    [row EXCEPT !.country_id = country, !.matrix_runout = matrix,
                !.current_revision_id = Null]
WithReading(row, v) ==
    [row EXCEPT !.matrix_runout = v, !.parsed = [k \in Keys |-> <<v, "vision">>]]
WithCorrection(row, k, v) ==
    [row EXCEPT !.parsed[k] = <<v, "human">>,
                !.matrix_runout = IF k = "matrix_number" /\ v # Null THEN v ELSE @]
WithStatus(row, status) == [row EXCEPT !.status = status]
WithDeleted(row) == [row EXCEPT !.deleted = TRUE]
WithGenres(row, g) == [row EXCEPT !.genres = g]
WithRelease(row, g, country) ==
    [row EXCEPT !.genres = @ \cup g, !.country_id = IF @ = Null THEN country ELSE @]

\* token_edit_submit: every form field is assigned.
Edit(r, t) == \E country, matrix \in Values \cup {Null} :
    Load(r, t, "edit", WithForm(rows[t], country, matrix), "flush")

\* apply_ocr_to_pressing
ApplyOcr(r, t) == \E v \in Values :
    Load(r, t, "apply_ocr", WithReading(rows[t], v), "flush")

\* correct_matrix_field
Correct(r, t) == \E k \in Keys, v \in Values \cup {Null} :
    Load(r, t, "correct", WithCorrection(rows[t], k, v), "flush")

\* token_archive
Archive(r, t) == Load(r, t, "archive", WithStatus(rows[t], "archived"), "save")

\* token_delete
Delete(r, t) == Load(r, t, "delete", WithDeleted(rows[t]), "save")

\* save_genres
SaveGenres(r, t) == \E g \in SUBSET Values :
    Load(r, t, "genres", WithGenres(rows[t], g), "save")

\* sync_discogs_execute, the session that writes the row; import_genres is the
\* case without a country.
Sync(r, t) == \E g \in SUBSET Values, country \in Values \cup {Null} :
    Load(r, t, "sync", WithRelease(rows[t], g, country), "save")

\* merge_submit, the SELECT of the winner, whose row becomes the revision's data.
LoadWinner(r, w) ==
    /\ Start(r, "merge")
    /\ Visible(w)
    /\ req' = [req EXCEPT ![r] = [op |-> "merge", row |-> w, log |-> w,
                                  update |-> << >>, data |-> RevisionData(rows[w])]]
    /\ Go(r, "loser")
    /\ UNCHANGED <<rows, life, revisions, lock, count>>

\* merge_submit, the SELECT of the loser.
LoadLoser(r, l) ==
    /\ pc[r] = "loser"
    /\ Visible(l)
    /\ l # req[r].log
    /\ req' = [req EXCEPT ![r] = [op |-> "merge", row |-> l, log |-> req[r].log,
                                  update |-> Changes(rows[l], WithStatus(rows[l], "merged")),
                                  data |-> req[r].data]]
    /\ Go(r, "flush")
    /\ UNCHANGED <<rows, life, revisions, lock, count>>

\* _run_import of a release that is in the catalogue (reimport): the lookup.
FindExisting(r, t) ==
    /\ Start(r, "reimport")
    /\ Visible(t)
    /\ req' = [req EXCEPT ![r] = [op |-> "reimport", row |-> t, log |-> t,
                                  update |-> << >>, data |-> Null]]
    /\ Go(r, "country")
    /\ UNCHANGED <<rows, life, revisions, lock, count>>

\* The check that the token has no country, in a session of its own; what was
\* fetched is then written unconditionally by id.
CheckCountry(r) ==
    /\ pc[r] = "country"
    /\ \E country, matrix \in Values \cup {Null} :
         LET t == req[r].row
             written == {c \in Logged :
                           \/ c = "matrix_runout" /\ matrix # Null
                           \/ /\ c = "country_id" /\ country # Null
                              /\ Exists(t) /\ rows[t].country_id = Null}
         IN req' = [req EXCEPT ![r] =
                      [op |-> "reimport", row |-> t, log |-> t,
                       update |-> [c \in written |->
                                     IF c = "matrix_runout" THEN matrix ELSE country],
                       data |-> Null]]
    /\ Go(r, "save")
    /\ UNCHANGED <<rows, life, revisions, lock, count>>

\* The request is refused: no role, a bad form, no such token.
Refuse(r) ==
    /\ pc[r] \in {"new", "loser"}
    /\ End(r)
    /\ UNCHANGED <<rows, life, revisions>>

-----------------------------------------------------------------------------
(* Writing *)

Clean(r) == DOMAIN req[r].update = {}

\* A mistake of Flush: the count runs before the UPDATE has locked the row.
FlushLater(r) ==
    /\ pc[r] = "flush"
    /\ Go(r, "count")
    /\ UNCHANGED <<rows, life, revisions, lock, req, count>>

\* The autoflush before the count: an UPDATE if anything changed.
Flush(r) ==
    /\ pc[r] = "flush"
    /\ \/ Clean(r) /\ UNCHANGED lock
       \/ /\ ~ Clean(r)
          /\ Exists(req[r].row) /\ Free(req[r].row)
          /\ lock' = [lock EXCEPT ![req[r].row] = r]
    /\ Go(r, "count")
    /\ UNCHANGED <<rows, life, revisions, req, count>>

\* select(func.count()) of the revisions
Count(r) ==
    /\ pc[r] = "count"
    /\ count' = [count EXCEPT ![r] = Cardinality(revisions[req[r].log])]
    /\ Go(r, "commit")
    /\ UNCHANGED <<rows, life, revisions, lock, req>>

Sources == [edit |-> "human", merge |-> "human", correct |-> "human",
            apply_ocr |-> "vision"]

\* The row a request's transaction leaves behind.
Written(r) ==
    IF Clean(r) THEN rows
    ELSE [rows EXCEPT ![req[r].row] = Updated(@, req[r].update)]

\* A mistake of Taken: no unique constraint.
NeverTaken(r) == FALSE
Taken(r) == count[r] + 1 \in Numbers(req[r].log)

\* INSERT of the revision and COMMIT
Commit(r) ==
    LET t == req[r].log
        loser == req[r].row
    IN
    /\ pc[r] = "commit"
    /\ Exists(t)
    /\ ~ Taken(r)
    /\ revisions' = [revisions EXCEPT ![t] = @ \cup
         {Revision(count[r] + 1, Sources[req[r].op], req[r].data,
                   DOMAIN req[r].update \cap Logged,
                   IF loser = t THEN Null ELSE loser,
                   loser = t /\ ~ Clean(r))}]
    /\ rows' = Written(r)
    /\ End(r)
    /\ UNCHANGED life

\* A mistake of Conflict: the flushed row is committed on its own.
ConflictHalfDone(r) ==
    /\ pc[r] = "commit"
    /\ Exists(req[r].log)
    /\ Taken(r)
    /\ rows' = Written(r)
    /\ End(r)
    /\ UNCHANGED <<life, revisions>>

\* uq_token_revision_number: the number is taken, the transaction rolls back.
Conflict(r) ==
    /\ pc[r] = "commit"
    /\ Exists(req[r].log)
    /\ Taken(r)
    /\ End(r)
    /\ UNCHANGED <<rows, life, revisions>>

\* The commit of a handler that writes no revision.
Save(r) ==
    /\ pc[r] = "save"
    /\ Clean(r) \/ (Exists(req[r].row) /\ Free(req[r].row))
    /\ rows' = Written(r)
    /\ End(r)
    /\ UNCHANGED <<life, revisions>>

\* The row was purged: the UPDATE finds nothing, or the foreign key fails.
Vanish(r) ==
    /\ \/ pc[r] \in {"flush", "save"} /\ ~ Clean(r) /\ ~ Exists(req[r].row)
       \/ pc[r] = "commit" /\ ~ Exists(req[r].log)
    /\ End(r)
    /\ UNCHANGED <<rows, life, revisions>>

\* The client goes, the connection is lost or the process dies: a rollback.
Fail(r) ==
    /\ pc[r] \notin {"new", "done"}
    /\ End(r)
    /\ UNCHANGED <<rows, life, revisions>>

-----------------------------------------------------------------------------
(* Housekeeping: single statements by id *)

\* housekeeping_bulk_delete, confirmed
BulkDelete(r, S) ==
    /\ Start(r, "bulk_delete")
    /\ \A t \in S : Visible(t) /\ Free(t)
    /\ rows' = [t \in Tokens |->
                  IF t \in S THEN WithDeleted(WithStatus(rows[t], "archived")) ELSE rows[t]]
    /\ Go(r, "done")
    /\ UNCHANGED <<life, revisions, lock, req, count>>

\* housekeeping_recover
Recover(r, t) ==
    /\ Start(r, "recover")
    /\ Exists(t) /\ rows[t].deleted /\ Free(t)
    /\ rows' = [rows EXCEPT ![t] = [WithStatus(@, "active") EXCEPT !.deleted = FALSE]]
    /\ Go(r, "done")
    /\ UNCHANGED <<life, revisions, lock, req, count>>

\* A mistake of Purge: the revisions outlive their token.
PurgeRows(r, S) ==
    /\ Start(r, "purge")
    /\ \A t \in S : Exists(t) /\ rows[t].deleted /\ Free(t)
    /\ life' = [t \in Tokens |-> IF t \in S THEN "purged" ELSE life[t]]
    /\ rows' = [t \in Tokens |-> IF t \in S THEN Null ELSE rows[t]]
    /\ Go(r, "done")
    /\ UNCHANGED <<revisions, lock, req, count>>

\* housekeeping_purge_expired; S are the tokens whose retention has run out.
Purge(r, S) ==
    /\ Start(r, "purge")
    /\ \A t \in S : Exists(t) /\ rows[t].deleted /\ Free(t)
    /\ life' = [t \in Tokens |-> IF t \in S THEN "purged" ELSE life[t]]
    /\ rows' = [t \in Tokens |-> IF t \in S THEN Null ELSE rows[t]]
    /\ revisions' = [t \in Tokens |-> IF t \in S THEN {} ELSE revisions[t]]
    /\ Go(r, "done")
    /\ UNCHANGED <<lock, req, count>>

-----------------------------------------------------------------------------
Begin(r) ==
    \/ \E t \in Tokens :
         \/ Create(r, t) \/ Import(r, t) \/ CollectionImport(r, t)
         \/ Edit(r, t) \/ ApplyOcr(r, t) \/ Correct(r, t)
         \/ Archive(r, t) \/ Delete(r, t) \/ SaveGenres(r, t) \/ Sync(r, t)
         \/ LoadWinner(r, t) \/ FindExisting(r, t) \/ Recover(r, t)
    \/ \E S \in SUBSET Tokens \ {{}} : BulkDelete(r, S) \/ Purge(r, S)

Continue(r) ==
    \/ \E l \in Tokens : LoadLoser(r, l)
    \/ pc[r] = "loser" /\ Refuse(r)
    \/ CheckCountry(r)
    \/ Flush(r) \/ Count(r) \/ Commit(r) \/ Conflict(r) \/ Save(r) \/ Vanish(r)

\* Every request has been answered.
Finished == (\A r \in Requests : pc[r] = "done") /\ UNCHANGED vars

Next ==
    \/ \E r \in Requests : Begin(r) \/ Refuse(r) \/ Continue(r) \/ Fail(r)
    \/ Finished

Spec == Init /\ [][Next]_vars

\* A request that has begun goes on; nothing is assumed of who gets a lock first.
FairSpec == Spec /\ \A r \in Requests : WF_vars(Continue(r))
-----------------------------------------------------------------------------
(* Properties *)

TypeOK ==
    /\ life \in [Tokens -> {"unused", "stored", "purged"}]
    /\ \A t \in Tokens : rows[t] \in IF Exists(t) THEN Row ELSE {Null}
    /\ \A t \in Tokens : \A rev \in revisions[t] :
         /\ rev.number \in Nat \ {0}
         /\ rev.changed \subseteq Logged
         /\ rev.merged \in Tokens \cup {Null}
    /\ lock \in [Tokens -> Requests \cup {Null}]
    /\ pc \in [Requests -> {"new", "loser", "country", "flush", "count", "commit", "save",
                            "done"}]
    /\ \A r \in Requests : req[r] = Null \/ {req[r].row, req[r].log} \subseteq Tokens
    /\ count \in [Requests -> Nat]

\* Numbering by the count plus one in concurrent transactions, one of which may have
\* counted before another committed, still gives the revisions of every token the
\* numbers 1, 2, 3, ... without a gap or a repetition (uq_token_revision_number,
\* catalogue.py:2787-2793).
ContiguousNumbers ==
    \A t \in Tokens : Numbers(t) = 1 .. Cardinality(revisions[t])

Newest(revs) == CHOOSE rev \in revs : \A other \in revs : other.number <= rev.number

\* Revision numbers order the writes as the database did: as long as only the
\* handlers that write revisions touch them, each logged column of a row holds what
\* the newest revision that changed the column says, even if the handlers read
\* the row before other writes to it.
RowReplaysLog ==
    \A t \in Tokens : Exists(t) =>
        \A c \in Logged :
            rows[t][c] = Newest({rev \in revisions[t] : c \in rev.changed}).data[c]

\* A merge is never half done: a token marked as merged is named by a revision of
\* another token, or that token has been purged since (merge_submit).
MergedIsNamed ==
    \A t \in Tokens : Exists(t) /\ rows[t].status = "merged" =>
        \E w \in Tokens \ {t} :
            life[w] = "purged" \/ \E rev \in revisions[w] : rev.merged = t

\* Flushing before counting makes the row lock serialise the authors that change a
\* row: of two requests that want the same revision number of a token, at most one
\* changes the row, so no changed field is lost to a conflict between edits.
WritersNeverConflict ==
    [][\A r \in Requests :
         /\ Conflict(r)
         /\ ~ Clean(r) /\ req[r].row = req[r].log
         => \A rev \in revisions[req[r].log] : rev.number = count[r] + 1 => ~ rev.wrote]_vars

\* Every request that has begun is answered: nobody waits for a row lock for ever; and what
\* is stored is of its type.
EveryRequestEnds ==
    []TypeOK /\ \A r \in Requests : pc[r] # "new" ~> pc[r] = "done"

\* The promise of an append-only history, as a specification of its own.
RevisionNumbered(t, n) == CHOOSE rev \in revisions[t] : rev.number = n
History == INSTANCE RevisionLog WITH
    Entries <- [source : {"human", "vision", "import"},
                data : [Logged -> Values \cup {Null}]],
    log <- [t \in Tokens |-> [n \in 1 .. Cardinality(revisions[t]) |->
              [source |-> RevisionNumbered(t, n).source,
               data |-> RevisionNumbered(t, n).data]]],
    purged <- {t \in Tokens : life[t] = "purged"}

\* The registry implements it: a revision that was written keeps its number and
\* its contents until the token is purged, and nothing is written after that.
HistoryIsAppendOnly == History!Spec
=============================================================================
