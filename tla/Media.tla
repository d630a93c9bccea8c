------------------------------- MODULE Media --------------------------------
(***************************************************************************)
(* The images of one pressing: the rows of media_objects with the flag of  *)
(* the primary cover, and the object store that holds what they show       *)
(* (web/catalogue.py, storage/object_store.py).                            *)
(*                                                                         *)
(* A step is what a request does from one await to the next, except that   *)
(* a transaction's statements after its first read are one step with its   *)
(* commit.  The process may die anywhere.                                  *)
(*                                                                         *)
(* Data: an image is its content, which is also its key in the store.  A   *)
(* row's id is the request that inserted it with the content, as no        *)
(* request inserts a content twice.  Other pressings share the store,      *)
(* which only grows, and nothing else.  Left out: the region of an image,  *)
(* sizes and formats, and the deletion of the pressing itself.             *)
(***************************************************************************)
EXTENDS Integers, Sequences, FiniteSets

CONSTANTS
    Contents,  \* what an image may show
    Urls,
    Listings,  \* lists of images that Discogs may have, each a url and a type
    Requests,
    None

Row == [by : Requests \cup {None}, cover : BOOLEAN, source : Urls \cup {None}, read : BOOLEAN]
Rows == [Contents -> Row \cup {None}]
Ids == (Requests \cup {None}) \X Contents

ASSUME MediaAssumption ==
    /\ Listings \subseteq Seq([url : Urls, front : BOOLEAN])
    /\ None \notin Requests \cup Contents \cup Urls \cup Row

VARIABLES
    row,     \* media_objects of the pressing, by content
    stored,  \* the contents of the object store
    pc,      \* where each request is
    target,  \* the content it uploads or the id it is about
    loaded,  \* the rows as it has selected them
    todo,    \* the images an import has before it
    tried,   \* urls it has fetched (existing_urls)
    front,   \* has it met the front cover (primary_done)
    adding,  \* the rows it is to insert
    chosen,  \* the content last made the cover (history)
    behind,  \* requests since whose select another one has written covers (history)
    odd      \* what has happened that is out of the ordinary (history)

importVars == <<todo, tried, front, adding>>
history == <<chosen, behind, odd>>
vars == <<row, stored, pc, target, loaded, importVars, history>>

Nothing == [c \in Contents |-> None]
Present(rows) == {c \in Contents : rows[c] # None}
Covers(rows) == {c \in Present(rows) : rows[c].cover}

\* There may be images already, and one of them may be the cover.
Init ==
    /\ \E present \in SUBSET Contents : \E first \in present \cup {None} :
          /\ row = [c \in Contents |->
                      IF c \in present
                      THEN [by |-> None, cover |-> c = first, source |-> None, read |-> FALSE]
                      ELSE None]
          /\ stored = present
          /\ chosen = first
    /\ pc = [r \in Requests |-> "new"]
    /\ target = [r \in Requests |-> None]
    /\ loaded = [r \in Requests |-> Nothing]
    /\ todo = [r \in Requests |-> <<>>]
    /\ tried = [r \in Requests |-> {}]
    /\ front = [r \in Requests |-> FALSE]
    /\ adding = [r \in Requests |-> Nothing]
    /\ behind = {}
    /\ odd = {}

-----------------------------------------------------------------------------
Go(r, label) == pc' = [pc EXCEPT ![r] = label]

\* Is there (still) the row with this id?
Exists(rows, id) == rows[id[2]] # None /\ rows[id[2]].by = id[1]

IdOf(rows, c) == <<rows[c].by, c>>

\* The covers have been written: what other requests have selected is out of date.
WroteCovers(r, newChosen, events) ==
    /\ chosen' = newChosen
    /\ behind' = behind \cup {q \in Requests \ {r} : pc[q] \in {"next", "save"}}
    /\ odd' = odd \cup events \cup IF r \in behind THEN {"raced"} ELSE {}

\* A request comes in, about an image that some page has listed.
StartUpload(r, c) ==
    /\ pc[r] = "new"
    /\ target' = [target EXCEPT ![r] = c]
    /\ Go(r, "upload")
    /\ UNCHANGED <<row, stored, loaded, importVars, history>>

StartImport(r, listing) ==
    /\ pc[r] = "new"
    /\ todo' = [todo EXCEPT ![r] = listing]
    /\ Go(r, "import")
    /\ UNCHANGED <<row, stored, target, loaded, tried, front, adding, history>>

StartChange(r, kind, id) ==
    /\ pc[r] = "new"
    /\ Exists(row, id)
    /\ target' = [target EXCEPT ![r] = id]
    /\ Go(r, kind)
    /\ UNCHANGED <<row, stored, loaded, importVars, history>>

-----------------------------------------------------------------------------
(* upload_image *)

\* A mistake of StoreUpload: an error of the store is overlooked.
StoreUploadBlindly(r) ==
    /\ pc[r] = "upload"
    /\ stored' = stored \cup {target[r]} \/ UNCHANGED stored
    /\ Go(r, "insert")
    /\ UNCHANGED <<row, target, loaded, importVars, history>>

\* put_image: an object that is there already is left alone.
StoreUpload(r) ==
    /\ pc[r] = "upload"
    /\ \/ stored' = stored \cup {target[r]} /\ Go(r, "insert")
       \/ UNCHANGED stored /\ Go(r, "done")
    /\ UNCHANGED <<row, target, loaded, importVars, history>>

\* The row is inserted unless the pressing has one with this content (uq_media_token_content_hash).
InsertUpload(r) ==
    /\ pc[r] = "insert"
    /\ row' = IF row[target[r]] # None THEN row
              ELSE [row EXCEPT ![target[r]] = [by |-> r, cover |-> FALSE, source |-> None,
                                               read |-> FALSE]]
    /\ Go(r, "done")
    /\ UNCHANGED <<stored, target, loaded, importVars, history>>

-----------------------------------------------------------------------------
(* _import_discogs_images and set_primary_cover begin with a SELECT of all rows. *)

Select(r) ==
    /\ \/ pc[r] = "import" /\ Go(r, "next")
       \/ pc[r] = "cover" /\ Go(r, "save")
    /\ loaded' = [loaded EXCEPT ![r] = row]
    /\ UNCHANGED <<row, stored, target, importVars, history>>

\* A mistake of KnownUrls: only the urls of this list.
KnownUrlsHere(r) == tried[r]

\* existing_urls and existing_hashes
KnownUrls(r) == tried[r] \cup {loaded[r][c].source : c \in Present(loaded[r])}
KnownContents(r) == Present(loaded[r]) \cup Present(adding[r])
HasCover(r) == Covers(loaded[r]) \cup Covers(adding[r]) # {}

\* The next image of the list is done with.
Advance(r) ==
    /\ todo' = [todo EXCEPT ![r] = Tail(@)]
    /\ front' = [front EXCEPT ![r] = @ \/ Head(todo[r]).front]

Skip(r) ==
    /\ pc[r] = "next" /\ todo[r] # <<>>
    /\ Head(todo[r]).url \in KnownUrls(r)
    /\ Advance(r)
    /\ UNCHANGED <<row, stored, pc, target, loaded, tried, adding, history>>

\* The image is fetched and stored, or one of the two fails.  The first front cover
\* becomes the primary one if there is none.
Fetch(r) ==
    /\ pc[r] = "next" /\ todo[r] # <<>>
    /\ Head(todo[r]).url \notin KnownUrls(r)
    /\ \/ UNCHANGED <<stored, tried, adding>>
       \/ \E c \in Contents :
             /\ stored' = stored \cup {c}
             /\ tried' = [tried EXCEPT ![r] = @ \cup {Head(todo[r]).url}]
             /\ adding' = IF c \in KnownContents(r) THEN adding
                          ELSE [adding EXCEPT ![r][c] =
                                  [by |-> r, source |-> Head(todo[r]).url, read |-> FALSE,
                                   cover |-> Head(todo[r]).front /\ ~ front[r] /\ ~ HasCover(r)]]
    /\ Advance(r)
    /\ UNCHANGED <<row, pc, target, loaded, history>>

\* All rows are inserted, or none if a content has come in by another way meanwhile.
CommitImport(r) ==
    /\ pc[r] = "next" /\ todo[r] = <<>>
    /\ \/ /\ Present(adding[r]) \cap Present(row) = {}
          /\ row' = [c \in Contents |-> IF adding[r][c] # None THEN adding[r][c] ELSE row[c]]
          /\ \/ Covers(adding[r]) = {} /\ UNCHANGED history
             \/ \E c \in Covers(adding[r]) : WroteCovers(r, c, {})
       \/ /\ Present(adding[r]) \cap Present(row) # {}
          /\ UNCHANGED <<row, history>>
    /\ Go(r, "done")
    /\ UNCHANGED <<stored, target, loaded, importVars>>

-----------------------------------------------------------------------------
(* set_primary_cover *)

\* A mistake of ToFlag: the cover that was is not looked at.
ToFlagOne(r) ==
    {c \in Present(loaded[r]) : ~ loaded[r][c].cover /\ IdOf(loaded[r], c) = target[r]}

\* The rows whose flag is not what it is to be; no others are written.
ToFlag(r) ==
    {c \in Present(loaded[r]) : loaded[r][c].cover # (IdOf(loaded[r], c) = target[r])}

\* If the only row to be written is gone, the commit fails; several are written without
\* a look at how many there were.
SaveCover(r) ==
    LET there == {c \in ToFlag(r) : Exists(row, IdOf(loaded[r], c))}
    IN /\ pc[r] = "save"
       /\ \/ /\ there = ToFlag(r) \/ Cardinality(ToFlag(r)) > 1
             /\ row' = [c \in Contents |->
                          IF c \in there
                          THEN [row[c] EXCEPT !.cover = (IdOf(loaded[r], c) = target[r])]
                          ELSE row[c]]
             /\ WroteCovers(r, target[r][2],
                            IF Exists(row, target[r]) THEN {} ELSE {"missing"})
          \/ /\ there # ToFlag(r) /\ Cardinality(ToFlag(r)) = 1
             /\ UNCHANGED <<row, history>>
       /\ Go(r, "done")
       /\ UNCHANGED <<stored, target, loaded, importVars>>

-----------------------------------------------------------------------------
(* delete_image *)

\* The flush first takes the row's OCR results away from it, which their table forbids;
\* so an image that has been analysed stays.
FindDeleted(r) ==
    /\ pc[r] = "delete"
    /\ IF Exists(row, target[r]) /\ ~ row[target[r][2]].read
       THEN Go(r, "remove") ELSE Go(r, "done")
    /\ odd' = odd \cup IF Exists(row, target[r]) /\ row[target[r][2]].read
                       THEN {"refused"} ELSE {}
    /\ UNCHANGED <<row, stored, target, loaded, importVars, chosen, behind>>

\* The row goes, with what results there are by now; its object stays.
Remove(r) ==
    /\ pc[r] = "remove"
    /\ row' = IF Exists(row, target[r]) THEN [row EXCEPT ![target[r][2]] = None] ELSE row
    /\ chosen' = IF Exists(row, target[r]) /\ chosen = target[r][2] THEN None ELSE chosen
    /\ Go(r, "done")
    /\ UNCHANGED <<stored, target, loaded, importVars, behind, odd>>

-----------------------------------------------------------------------------
(* analyse_image *)

FindAnalysed(r) ==
    /\ pc[r] = "analyse"
    /\ IF Exists(row, target[r]) THEN Go(r, "record") ELSE Go(r, "done")
    /\ UNCHANGED <<row, stored, target, loaded, importVars, history>>

\* The model has answered, or failed; the result can be stored if its row is there.
Record(r) ==
    /\ pc[r] = "record"
    /\ \/ Exists(row, target[r]) /\ row' = [row EXCEPT ![target[r][2]].read = TRUE]
       \/ UNCHANGED row
    /\ Go(r, "done")
    /\ UNCHANGED <<stored, target, loaded, importVars, history>>

-----------------------------------------------------------------------------
Restart ==
    /\ \E r \in Requests : pc[r] \notin {"new", "done"}
    /\ pc' = [r \in Requests |-> IF pc[r] = "new" THEN "new" ELSE "done"]
    /\ UNCHANGED <<row, stored, target, loaded, importVars, history>>

Start(r) ==
    \/ \E c \in Contents : StartUpload(r, c)
    \/ \E listing \in Listings : StartImport(r, listing)
    \/ \E kind \in {"cover", "delete", "analyse"}, id \in Ids : StartChange(r, kind, id)

Step(r) ==
    \/ StoreUpload(r) \/ InsertUpload(r)
    \/ Select(r) \/ Skip(r) \/ Fetch(r) \/ CommitImport(r) \/ SaveCover(r)
    \/ FindDeleted(r) \/ Remove(r) \/ FindAnalysed(r) \/ Record(r)

Next ==
    \/ \E r \in Requests : Start(r) \/ Step(r)
    \/ Restart

Spec == Init /\ [][Next]_vars

-----------------------------------------------------------------------------
TypeOK ==
    /\ row \in Rows
    /\ stored \subseteq Contents
    /\ pc \in [Requests -> {"new", "upload", "insert", "import", "next", "cover", "save",
                            "delete", "remove", "analyse", "record", "done"}]
    /\ target \in [Requests -> Contents \cup Ids \cup {None}]
    /\ loaded \in [Requests -> Rows] /\ adding \in [Requests -> Rows]
    /\ tried \in [Requests -> SUBSET Urls]
    /\ front \in [Requests -> BOOLEAN]
    /\ behind \subseteq Requests
    /\ chosen \in Contents \cup {None}
    /\ odd \subseteq {"raced", "missing", "refused"}

\* Every row can be shown: its object was stored before it and is not removed with
\* another row of the same content (catalogue.py:3057, 373, 3287).
RowsHaveObjects == Present(row) \subseteq stored

\* catalogue.py:3313: "Set one image as the primary cover; clear the flag on all others".
\* There is one cover, the image last chosen, by a person or else by the first import,
\* until it is deleted; unless requests overlapped, or the image chosen was gone.
CoverIsChosen ==
    odd \cap {"raced", "missing"} # {} \/ Covers(row) = {chosen} \ {None}

\* catalogue.py:333: an image is not imported twice from one url, in one list or in
\* two, unless neither of two imports found the other's row at its beginning.
SourcesAreDistinct ==
    \A c, d \in Present(row) :
        c # d /\ row[c].source # None /\ row[c].source = row[d].source
            => /\ row[c].by # row[d].by
               /\ ~ Exists(loaded[row[c].by], IdOf(row, d))
               /\ ~ Exists(loaded[row[d].by], IdOf(row, c))

\* catalogue.py:3287: delete_image deletes the row of any image it is asked to.
DeletionsSucceed == "refused" \notin odd
=============================================================================
