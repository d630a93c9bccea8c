---------------------------- MODULE MediaProofs ----------------------------
(***************************************************************************)
(* The images of a pressing, for any number of requests, contents and      *)
(* lists of images to import.                                              *)
(***************************************************************************)
EXTENDS Media, FiniteSetTheorems, TLAPS

Image == [url : Urls, front : BOOLEAN]

Typed ==
    /\ TypeOK
    /\ todo \in [Requests -> Seq(Image)]
    /\ \A r \in Requests : pc[r] \in {"upload", "insert"} => target[r] \in Contents
    /\ \A r \in Requests : pc[r] \in {"cover", "save", "delete", "remove", "analyse", "record"}
                              => target[r] \in Ids

LEMMA RowsAreRows ==
  ASSUME NEW rows \in Rows, NEW c \in Present(rows)
  PROVE  /\ c \in Contents /\ rows[c] \in Row /\ rows[c].by \in Requests \cup {None}
         /\ rows[c].cover \in BOOLEAN /\ rows[c].source \in Urls \cup {None}
  BY DEF Rows, Row, Present

LEMMA NothingIsRows == Nothing \in Rows /\ Present(Nothing) = {} /\ Covers(Nothing) = {}
  BY DEF Nothing, Rows, Present, Covers

LEMMA InitTyped == Init => Typed
<1> SUFFICES ASSUME Init PROVE Typed
  OBVIOUS
<1>0. PICK present \in SUBSET Contents : \E first \in present \cup {None} :
         /\ row = [c \in Contents |->
                     IF c \in present
                     THEN [by |-> None, cover |-> c = first, source |-> None, read |-> FALSE]
                     ELSE None]
         /\ stored = present
         /\ chosen = first
  BY DEF Init
<1>1. PICK first \in present \cup {None} :
         /\ row = [c \in Contents |->
                     IF c \in present
                     THEN [by |-> None, cover |-> c = first, source |-> None, read |-> FALSE]
                     ELSE None]
         /\ stored = present
         /\ chosen = first
  BY <1>0
<1>2. \A c \in Contents :
         [by |-> None, cover |-> c = first, source |-> None, read |-> FALSE] \in Row
  BY DEF Row
<1>3. row \in Rows
  BY <1>1, <1>2 DEF Rows
<1>4. /\ stored \subseteq Contents /\ chosen \in Contents \cup {None}
  BY <1>1
<1>5. todo \in [Requests -> Seq(Image)]
  BY DEF Init
<1> QED BY <1>3, <1>4, <1>5, NothingIsRows DEF Init, Typed, TypeOK

LEMMA StartTyped == ASSUME Typed, NEW r \in Requests, Start(r) PROVE Typed'
<1>1. ASSUME NEW c \in Contents, StartUpload(r, c) PROVE Typed'
  BY <1>1 DEF StartUpload, Typed, TypeOK, Go, importVars, history
<1>2. ASSUME NEW listing \in Listings, StartImport(r, listing) PROVE Typed'
  <2>1. listing \in Seq(Image)
    BY MediaAssumption DEF Image
  <2> QED BY <1>2, <2>1 DEF StartImport, Typed, TypeOK, Go, history
<1>3. ASSUME NEW kind \in {"cover", "delete", "analyse"}, NEW id \in Ids,
             StartChange(r, kind, id)
      PROVE  Typed'
  BY <1>3 DEF StartChange, Typed, TypeOK, Go, importVars, history
<1> QED BY <1>1, <1>2, <1>3 DEF Start

LEMMA UploadTyped ==
  ASSUME Typed, NEW r \in Requests, StoreUpload(r) \/ InsertUpload(r) PROVE Typed'
<1>1. CASE StoreUpload(r)
  <2>1. target[r] \in Contents
    BY <1>1 DEF StoreUpload, Typed
  <2> QED BY <1>1, <2>1 DEF StoreUpload, Typed, TypeOK, Go, importVars, history
<1>2. CASE InsertUpload(r)
  <2> DEFINE new == [by |-> r, cover |-> FALSE, source |-> None, read |-> FALSE]
  <2>1. new \in Row /\ target[r] \in Contents
    BY <1>2 DEF Row, InsertUpload, Typed
  <2>2. row' = row \/ row' = [row EXCEPT ![target[r]] = new]
    BY <1>2 DEF InsertUpload
  <2> HIDE DEF new
  <2>3. row' \in Rows
    BY <2>1, <2>2 DEF Typed, TypeOK, Rows
  <2> QED BY <1>2, <2>3 DEF InsertUpload, Typed, TypeOK, Go, importVars, history
<1> QED BY <1>1, <1>2

LEMMA SelectTyped == ASSUME Typed, NEW r \in Requests, Select(r) PROVE Typed'
  BY DEF Select, Typed, TypeOK, Go, importVars, history

\* What a step with the next image of a list does to the list.
LEMMA AdvanceTyped ==
  ASSUME Typed, NEW r \in Requests, todo[r] # <<>>, Advance(r)
  PROVE  /\ Head(todo[r]) \in Image
         /\ todo' \in [Requests -> Seq(Image)] /\ front' \in [Requests -> BOOLEAN]
<1>1. todo[r] \in Seq(Image) /\ Head(todo[r]) \in Image /\ Tail(todo[r]) \in Seq(Image)
  BY DEF Typed
<1>2. Head(todo[r]).front \in BOOLEAN
  BY <1>1 DEF Image
<1> QED BY <1>1, <1>2 DEF Advance, Typed, TypeOK

\* What Fetch adds, if it does.
Fetched(r) == [by |-> r, source |-> Head(todo[r]).url, read |-> FALSE,
               cover |-> Head(todo[r]).front /\ ~ front[r] /\ ~ HasCover(r)]

LEMMA FetchAdds ==
  ASSUME Typed, NEW r \in Requests, Fetch(r)
  PROVE  /\ Fetched(r) \in Row
         /\ \/ adding' = adding /\ stored' = stored
            \/ \E c \in Contents :
                  /\ stored' = stored \cup {c}
                  /\ \/ adding' = adding
                     \/ c \notin KnownContents(r) /\ adding' = [adding EXCEPT ![r][c] = Fetched(r)]
<1>1. Head(todo[r]) \in Image
  BY AdvanceTyped DEF Fetch
<1>2. Fetched(r) \in Row
  BY <1>1 DEF Fetched, Row, Image
<1> QED BY <1>2 DEF Fetch, Fetched

LEMMA FetchTyped == ASSUME Typed, NEW r \in Requests, Skip(r) \/ Fetch(r) PROVE Typed'
<1>1. /\ Head(todo[r]) \in Image
      /\ todo' \in [Requests -> Seq(Image)] /\ front' \in [Requests -> BOOLEAN]
  BY AdvanceTyped DEF Skip, Fetch
<1>2. adding' \in [Requests -> Rows] /\ stored' \subseteq Contents
  <2>1. CASE Skip(r)
    BY <2>1 DEF Skip, Typed, TypeOK
  <2>2. CASE Fetch(r)
    <3>1. ASSUME NEW c \in Contents, adding' = [adding EXCEPT ![r][c] = Fetched(r)]
          PROVE  adding' \in [Requests -> Rows]
      <4>1. [adding[r] EXCEPT ![c] = Fetched(r)] \in Rows
        BY <2>2, FetchAdds DEF Rows, Typed, TypeOK
      <4> QED BY <3>1, <4>1 DEF Typed, TypeOK
    <3> QED BY <2>2, <3>1, FetchAdds DEF Typed, TypeOK
  <2> QED BY <2>1, <2>2
<1>3. tried' \in [Requests -> SUBSET Urls]
  <2>1. Head(todo[r]).url \in Urls
    BY <1>1 DEF Image
  <2> QED BY <2>1 DEF Skip, Fetch, Typed, TypeOK
<1> QED BY <1>1, <1>2, <1>3 DEF Skip, Fetch, Typed, TypeOK, history

LEMMA CommitImportTyped == ASSUME Typed, NEW r \in Requests, CommitImport(r) PROVE Typed'
<1>1. row' \in Rows
  <2>1. \A c \in Contents :
           (IF adding[r][c] # None THEN adding[r][c] ELSE row[c]) \in Row \cup {None}
    BY DEF Typed, TypeOK, Rows
  <2> QED BY <2>1 DEF CommitImport, Typed, TypeOK, Rows
<1>2. chosen' \in Contents \cup {None} /\ behind' \subseteq Requests
      /\ odd' \subseteq {"raced", "missing", "refused"}
  BY DEF CommitImport, WroteCovers, Covers, Present, Typed, TypeOK, history
<1> QED BY <1>1, <1>2 DEF CommitImport, Typed, TypeOK, Go, importVars

LEMMA SaveCoverTyped == ASSUME Typed, NEW r \in Requests, SaveCover(r) PROVE Typed'
<1>1. target[r] \in Ids /\ target[r][2] \in Contents
  BY DEF SaveCover, Typed, Ids
<1>2. row' \in Rows
  <2>1. ASSUME NEW c \in Contents, row[c] # None, NEW flag \in BOOLEAN
        PROVE  [row[c] EXCEPT !.cover = flag] \in Row
    BY ZenonT(60), <2>1 DEF Typed, TypeOK, Rows, Row
  <2>2. \A c \in Contents : row'[c] = row[c] \/ \E flag \in BOOLEAN :
            row[c] # None /\ row'[c] = [row[c] EXCEPT !.cover = flag]
    BY DEF SaveCover, Exists, IdOf
  <2>3. row' = [c \in Contents |-> row'[c]]
    BY DEF SaveCover, Typed, TypeOK, Rows
  <2> QED BY <2>1, <2>2, <2>3 DEF Typed, TypeOK, Rows
<1>3. chosen' \in Contents \cup {None} /\ behind' \subseteq Requests
      /\ odd' \subseteq {"raced", "missing", "refused"}
  BY <1>1 DEF SaveCover, WroteCovers, Typed, TypeOK, history
<1> QED BY <1>2, <1>3 DEF SaveCover, Typed, TypeOK, Go, importVars

LEMMA DeleteTyped ==
  ASSUME Typed, NEW r \in Requests, FindDeleted(r) \/ Remove(r) PROVE Typed'
<1>1. CASE FindDeleted(r)
  BY ZenonT(60), <1>1 DEF FindDeleted, Typed, TypeOK, Go, importVars
<1>2. CASE Remove(r)
  BY <1>2 DEF Remove, Typed, TypeOK, Go, importVars, Rows
<1> QED BY <1>1, <1>2

LEMMA AnalyseTyped ==
  ASSUME Typed, NEW r \in Requests, FindAnalysed(r) \/ Record(r) PROVE Typed'
<1>1. CASE FindAnalysed(r)
  BY <1>1 DEF FindAnalysed, Typed, TypeOK, Go, importVars, history
<1>2. CASE Record(r)
  <2>1. target[r] \in Ids /\ target[r][2] \in Contents
    BY <1>2 DEF Record, Typed, Ids
  <2>2. ASSUME row[target[r][2]] # None
        PROVE  [row[target[r][2]] EXCEPT !.read = TRUE] \in Row
    <3>1. row[target[r][2]] \in Row
      BY <2>1, <2>2 DEF Typed, TypeOK, Rows
    <3> QED BY <3>1 DEF Row
  <2>3. row' \in Rows
    BY <1>2, <2>1, <2>2 DEF Record, Exists, Typed, TypeOK, Rows
  <2> QED BY <1>2, <2>3 DEF Record, Typed, TypeOK, Go, importVars, history
<1> QED BY <1>1, <1>2

LEMMA RestartTyped == Typed /\ Restart => Typed'
  BY DEF Restart, Typed, TypeOK, importVars, history

LEMMA NextTyped == Typed /\ [Next]_vars => Typed'
<1> SUFFICES ASSUME Typed, [Next]_vars PROVE Typed'
  OBVIOUS
<1>1. ASSUME NEW r \in Requests, Start(r) \/ Step(r) PROVE Typed'
  BY <1>1, StartTyped, UploadTyped, SelectTyped, FetchTyped, CommitImportTyped, SaveCoverTyped,
     DeleteTyped, AnalyseTyped DEF Step
<1>2. CASE Restart
  BY <1>2, RestartTyped
<1>3. CASE UNCHANGED vars
  BY <1>3 DEF Typed, TypeOK, vars, importVars, history
<1> QED BY <1>1, <1>2, <1>3 DEF Next

-----------------------------------------------------------------------------
(* RowsHaveObjects is not inductive: what is about to be inserted has been *)
(* stored, too.                                                            *)

Backed ==
    /\ Typed
    /\ RowsHaveObjects
    /\ \A r \in Requests : pc[r] = "insert" => target[r] \in stored
    /\ \A r \in Requests : Present(adding[r]) \subseteq stored

LEMMA InitBacked == Init => Backed
<1> SUFFICES ASSUME Init PROVE Backed
  OBVIOUS
<1>1. Present(row) \subseteq stored
  BY DEF Init, Present
<1>2. \A r \in Requests : pc[r] # "insert" /\ Present(adding[r]) = {}
  BY NothingIsRows DEF Init
<1> QED BY <1>1, <1>2, InitTyped DEF Backed, RowsHaveObjects

LEMMA StepBacked == ASSUME Backed, NEW r \in Requests, Start(r) \/ Step(r) PROVE Backed'
<1>1. Typed'
  BY NextTyped DEF Backed, Next
<1>2. stored \subseteq stored'
  BY DEF Start, Step, StartUpload, StartImport, StartChange, StoreUpload, InsertUpload, Select,
         Skip, Fetch, CommitImport, SaveCover, FindDeleted, Remove, FindAnalysed, Record
<1>3. \A q \in Requests : pc'[q] = "insert" => target'[q] \in stored'
  <2>1. CASE Start(r)
    BY <1>2, <2>1 DEF Start, StartUpload, StartImport, StartChange, Go, Backed, Typed, TypeOK
  <2>2. CASE StoreUpload(r)
    BY <1>2, <2>2 DEF StoreUpload, Go, Backed, Typed, TypeOK
  <2>3. CASE Step(r) /\ ~ StoreUpload(r)
    <3>1. target' = target /\ (pc' = pc \/ \E label \in {"done", "next", "save", "remove", "record"} :
                                             pc' = [pc EXCEPT ![r] = label])
      BY <2>3 DEF Step, InsertUpload, Select, Skip, Fetch, CommitImport, SaveCover, FindDeleted,
                  Remove, FindAnalysed, Record, Go
    <3> QED BY <1>2, <3>1 DEF Backed, Typed, TypeOK
  <2> QED BY <2>1, <2>2, <2>3
<1>4. \A q \in Requests : Present(adding'[q]) \subseteq stored'
  <2>1. CASE Fetch(r)
    <3>1. CASE adding' = adding
      BY <1>2, <3>1 DEF Backed
    <3>2. ASSUME NEW c \in Contents, stored' = stored \cup {c},
                 adding' = [adding EXCEPT ![r][c] = Fetched(r)]
          PROVE  \A q \in Requests : Present(adding'[q]) \subseteq Present(adding[q]) \cup {c}
      <4> HIDE DEF Fetched
      <4> QED BY <3>2 DEF Backed, Typed, TypeOK, Present, Rows
    <3> QED BY <1>2, <2>1, <3>1, <3>2, FetchAdds DEF Backed
  <2>2. CASE ~ Fetch(r)
    <3>1. adding' = adding
      BY <2>2 DEF Start, Step, StartUpload, StartImport, StartChange, StoreUpload, InsertUpload,
         Select, Skip, CommitImport, SaveCover, FindDeleted, Remove, FindAnalysed, Record, importVars
    <3> QED BY <1>2, <3>1 DEF Backed
  <2> QED BY <2>1, <2>2
<1>5. Present(row') \subseteq stored'
  <2>1. CASE InsertUpload(r)
    BY <1>2, <2>1 DEF InsertUpload, Backed, RowsHaveObjects, Present, Typed, TypeOK, Rows
  <2>2. CASE CommitImport(r)
    <3>1. Present(row') \subseteq Present(row) \cup Present(adding[r])
      BY <2>2 DEF CommitImport, Present
    <3> QED BY <1>2, <3>1 DEF Backed, RowsHaveObjects
  <2>3. CASE ~ InsertUpload(r) /\ ~ CommitImport(r)
    <3>1. Present(row') \subseteq Present(row)
      <4>1. CASE SaveCover(r)
        BY <4>1 DEF SaveCover, Present, Exists, IdOf
      <4>2. CASE Remove(r) \/ Record(r)
        BY <4>2 DEF Remove, Record, Present, Exists, Backed, Typed, TypeOK, Rows
      <4>3. CASE ~ SaveCover(r) /\ ~ Remove(r) /\ ~ Record(r)
        BY <2>3, <4>3 DEF Start, Step, StartUpload, StartImport, StartChange, StoreUpload, Select,
                          Skip, Fetch, FindDeleted, FindAnalysed
      <4> QED BY <4>1, <4>2, <4>3
    <3> QED BY <1>2, <3>1 DEF Backed, RowsHaveObjects
  <2> QED BY <2>1, <2>2, <2>3
<1> QED BY <1>1, <1>3, <1>4, <1>5 DEF Backed, RowsHaveObjects, Present

\* catalogue.py:3057 and 373: a row is inserted after its object was stored, whichever
\* request stored it and whatever fails, and no object is taken away.
THEOREM RowsAreBacked == Spec => []RowsHaveObjects
<1>1. Backed /\ [Next]_vars => Backed'
  <2> SUFFICES ASSUME Backed, [Next]_vars PROVE Backed'
    OBVIOUS
  <2>1. CASE Restart
    BY <2>1, NextTyped DEF Restart, Backed, RowsHaveObjects, Present, importVars
  <2>2. CASE UNCHANGED vars
    BY <2>2, NextTyped DEF vars, Backed, RowsHaveObjects, Present, importVars
  <2> QED BY <2>1, <2>2, StepBacked DEF Next
<1> QED BY <1>1, InitBacked, PTL DEF Spec, Backed

\* Whatever requests overlap or die, a row is whole: it says who inserted it, whether it is the
\* cover and where it is from, and a request is where its kind may be (catalogue.py:3057).
THEOREM TypeCorrect == Spec => []TypeOK
<1>1. Typed => TypeOK
  BY DEF Typed
<1> QED BY <1>1, InitTyped, NextTyped, PTL DEF Spec

-----------------------------------------------------------------------------
(* CoverIsChosen is not inductive: what a request has selected must say    *)
(* how things are as long as no other one has written covers since.  The   *)
(* rows may have changed meanwhile, but only by rows that went and by rows *)
(* that came without the flag; and that a row that came is not mistaken    *)
(* for one that was selected rests on the ids, which do not come back.     *)

WithId == {"cover", "save", "delete", "remove", "analyse", "record"}

\* A request whose id is in use has inserted its rows.
Ended(at, by) == by # None => at[by] = "done"

IdsAreUsed ==
    /\ \A c \in Present(row) : Ended(pc, row[c].by)
    /\ \A q \in Requests : \A c \in Present(loaded[q]) : Ended(pc, loaded[q][c].by)
    /\ \A q \in Requests : pc[q] \in WithId => Ended(pc, target[q][1])

\* What an import is to insert: one cover at most, and that if there was none.
AddsOneCover ==
    \A q \in Requests :
       /\ \A c \in Present(adding[q]) : adding[q][c].by = q
       /\ pc[q] \in {"new", "import"} => Present(adding[q]) = {}
       /\ pc[q] = "next" => /\ \A c, d \in Covers(adding[q]) : c = d
                            /\ Covers(adding[q]) # {} => Covers(loaded[q]) = {}

Agrees(selected) ==
    \A c \in Present(row) : IF Exists(selected, IdOf(row, c))
                            THEN selected[c].cover = row[c].cover
                            ELSE ~ row[c].cover

SelectedIsCurrent ==
    \A q \in Requests :
       /\ q \notin behind /\ pc[q] \in {"next", "save"} => Agrees(loaded[q])
       /\ pc[q] = "save" /\ Exists(row, target[q]) => Exists(loaded[q], target[q])

Followed == Typed /\ IdsAreUsed /\ AddsOneCover /\ SelectedIsCurrent /\ CoverIsChosen

LEMMA IdsAreRequests ==
  ASSUME Typed
  PROVE  /\ \A c \in Present(row) : row[c].by \in Requests \cup {None}
         /\ \A q \in Requests : \A c \in Present(loaded[q]) :
               loaded[q][c].by \in Requests \cup {None}
         /\ \A q \in Requests : pc[q] \in WithId => /\ target[q][1] \in Requests \cup {None}
                                                  /\ target[q][2] \in Contents
<1>1. \A q \in Requests : pc[q] \in WithId => target[q] \in Ids
  BY DEF Typed, WithId
<1> QED BY <1>1, RowsAreRows DEF Typed, TypeOK, Ids

LEMMA InitFollowed == Init => Followed
<1> SUFFICES ASSUME Init PROVE Followed
  OBVIOUS
<1>1. Typed
  BY InitTyped
<1>2. /\ \A q \in Requests : pc[q] = "new" /\ Present(adding[q]) = {} /\ Present(loaded[q]) = {}
  BY NothingIsRows DEF Init
<1>3. /\ \A c \in Present(row) : row[c].by = None
      /\ Covers(row) = {chosen} \ {None}
  <2>0. PICK present \in SUBSET Contents : \E first \in present \cup {None} :
           /\ row = [c \in Contents |->
                       IF c \in present
                       THEN [by |-> None, cover |-> c = first, source |-> None, read |-> FALSE]
                       ELSE None]
           /\ chosen = first
    BY DEF Init
  <2>1. PICK first \in present \cup {None} :
           /\ row = [c \in Contents |->
                       IF c \in present
                       THEN [by |-> None, cover |-> c = first, source |-> None, read |-> FALSE]
                       ELSE None]
           /\ chosen = first
    BY <2>0
  <2>2. \A c \in Contents :
           [by |-> None, cover |-> c = first, source |-> None, read |-> FALSE] # None
    <3>1. \A c \in Contents :
             [by |-> None, cover |-> c = first, source |-> None, read |-> FALSE] \in Row
      BY DEF Row
    <3> QED BY <3>1, MediaAssumption
  <2>3. \A c \in Contents : row[c] # None <=> c \in present
    BY <2>1, <2>2
  <2>4. Present(row) = present
    BY <2>3 DEF Present
  <2>5. \A c \in present : row[c].by = None /\ (row[c].cover <=> c = first)
    BY <2>1
  <2>6. None \notin Contents
    BY MediaAssumption
  <2> QED BY ZenonT(60), <2>1, <2>4, <2>5, <2>6 DEF Covers
<1> QED BY <1>1, <1>2, <1>3 DEF Followed, IdsAreUsed, Ended, WithId, AddsOneCover,
                                SelectedIsCurrent, CoverIsChosen

\* Rows go, or change in what does not matter here.
LEMMA RowsGo ==
  ASSUME Followed, Typed', CoverIsChosen',
         loaded' = loaded, adding' = adding, behind' = behind, target' = target,
         \A c \in Contents : \/ row'[c] = None
                             \/ /\ row[c] # None /\ row'[c] # None
                                /\ row'[c].by = row[c].by /\ row'[c].cover = row[c].cover,
         \A q \in Requests : \/ pc'[q] = pc[q]
                             \/ /\ pc'[q] \notin {"new", "import", "next", "save"}
                                /\ pc[q] # "done" /\ (pc'[q] \in WithId => pc[q] \in WithId)
  PROVE  Followed'
<1>1. \A by \in Requests \cup {None} : Ended(pc, by) => Ended(pc', by)
  BY DEF Ended
<1>2. IdsAreUsed'
  <2>1. ASSUME NEW c \in Present(row') PROVE Ended(pc', row'[c].by)
    <3>1. c \in Present(row) /\ row'[c].by = row[c].by
      BY <2>1 DEF Present
    <3>2. row[c].by \in Requests \cup {None}
      BY <3>1, IdsAreRequests DEF Followed
    <3> QED BY <1>1, <3>1, <3>2 DEF Followed, IdsAreUsed
  <2>2. ASSUME NEW q \in Requests, NEW c \in Present(loaded[q]) PROVE Ended(pc', loaded[q][c].by)
    BY <1>1, <2>2, IdsAreRequests DEF Followed, IdsAreUsed
  <2>3. ASSUME NEW q \in Requests, pc'[q] \in WithId PROVE Ended(pc', target[q][1])
    <3>1. pc[q] \in WithId
      BY <2>3
    <3>2. target[q][1] \in Requests \cup {None}
      BY <3>1, IdsAreRequests DEF Followed
    <3> QED BY <1>1, <3>1, <3>2 DEF Followed, IdsAreUsed
  <2> QED BY <2>1, <2>2, <2>3 DEF IdsAreUsed, WithId
<1>3. AddsOneCover'
  BY DEF Followed, AddsOneCover, Present, Covers
<1>4. SelectedIsCurrent'
  <2>1. ASSUME NEW q \in Requests, q \notin behind, pc'[q] \in {"next", "save"}
        PROVE  Agrees(loaded[q])'
    <3>1. Agrees(loaded[q])
      BY <2>1 DEF Followed, SelectedIsCurrent
    <3> QED BY <3>1 DEF Agrees, Present, Exists, IdOf
  <2>2. ASSUME NEW q \in Requests, pc'[q] = "save", Exists(row', target[q])
        PROVE  Exists(loaded[q], target[q])
    <3>1. pc[q] = "save" /\ target[q][2] \in Contents
      BY <2>2 DEF Followed, Typed, Ids
    <3>2. Exists(row, target[q])
      BY <2>2, <3>1 DEF Exists
    <3> QED BY <3>1, <3>2 DEF Followed, SelectedIsCurrent
  <2> QED BY <2>1, <2>2 DEF SelectedIsCurrent, Exists
<1> QED BY <1>2, <1>3, <1>4 DEF Followed

\* Rows come, with or without the flag; one with it makes all that was selected old.
LEMMA RowsCome ==
  ASSUME Followed, Typed', CoverIsChosen', NEW r \in Requests,
         pc[r] # "done", pc' = [pc EXCEPT ![r] = "done"],
         loaded' = loaded, adding' = adding, behind \subseteq behind', target' = target,
         \A c \in Present(row') : \/ c \in Present(row) /\ row'[c].by = row[c].by
                                  \/ row'[c].by = r,
         \/ \A q \in Requests \ {r} : pc[q] \in {"next", "save"} => q \in behind'
         \/ \A c \in Present(row') : row'[c] = row[c] \/ (row'[c].by = r /\ ~ row'[c].cover)
  PROVE  Followed'
<1>1. \A by \in Requests \cup {None} : Ended(pc, by) => Ended(pc', by)
  BY DEF Ended, Followed, Typed, TypeOK
<1>2. pc'[r] = "done" /\ \A q \in Requests \ {r} : pc'[q] = pc[q]
  BY DEF Followed, Typed, TypeOK
<1>3. ~ Ended(pc, r) /\ Ended(pc', r)
  BY <1>2, MediaAssumption DEF Ended
<1>4. IdsAreUsed'
  <2>1. ASSUME NEW c \in Present(row') PROVE Ended(pc', row'[c].by)
    <3>1. CASE row'[c].by = r
      BY <1>3, <3>1
    <3>2. CASE c \in Present(row) /\ row'[c].by = row[c].by
      <4>1. row[c].by \in Requests \cup {None}
        BY <3>2, IdsAreRequests DEF Followed
      <4> QED BY <1>1, <3>2, <4>1 DEF Followed, IdsAreUsed
    <3> QED BY <2>1, <3>1, <3>2
  <2>2. ASSUME NEW q \in Requests, NEW c \in Present(loaded[q]) PROVE Ended(pc', loaded[q][c].by)
    BY <1>1, <2>2, IdsAreRequests DEF Followed, IdsAreUsed
  <2>3. ASSUME NEW q \in Requests, pc'[q] \in WithId PROVE Ended(pc', target[q][1])
    <3>1. pc[q] \in WithId
      BY <1>2, <2>3 DEF WithId
    <3>2. target[q][1] \in Requests \cup {None}
      BY <3>1, IdsAreRequests DEF Followed
    <3> QED BY <1>1, <3>1, <3>2 DEF Followed, IdsAreUsed
  <2> QED BY <2>1, <2>2, <2>3 DEF IdsAreUsed, WithId
<1>5. AddsOneCover'
  BY <1>2 DEF Followed, AddsOneCover, Present, Covers
<1>6. SelectedIsCurrent'
  <2>1. ASSUME NEW q \in Requests, q \notin behind', pc'[q] \in {"next", "save"}
        PROVE  Agrees(loaded[q])'
    <3>1. Agrees(loaded[q])
      BY <1>2, <2>1 DEF Followed, SelectedIsCurrent
    <3>2. \A c \in Present(row') : row'[c] = row[c] \/ (row'[c].by = r /\ ~ row'[c].cover)
      BY <1>2, <2>1
    <3>3. \A c \in Present(loaded[q]) : loaded[q][c].by # r
      BY <1>3 DEF Followed, IdsAreUsed
    <3>4. \A c \in Contents : c \in Present(loaded[q]) <=> loaded[q][c] # None
      BY DEF Present
    <3> QED BY <3>1, <3>2, <3>3, <3>4 DEF Agrees, Present, Exists, IdOf
  <2>2. ASSUME NEW q \in Requests, pc'[q] = "save", Exists(row', target[q])
        PROVE  Exists(loaded[q], target[q])
    <3>1. pc[q] = "save" /\ target[q][2] \in Contents /\ Ended(pc, target[q][1])
      BY <1>2, <2>2 DEF Followed, Typed, Ids, IdsAreUsed, WithId
    <3>2. Exists(row, target[q])
      BY <1>3, <2>2, <3>1 DEF Exists, Present
    <3> QED BY <3>1, <3>2 DEF Followed, SelectedIsCurrent
  <2> QED BY <2>1, <2>2 DEF SelectedIsCurrent, Exists
<1> QED BY <1>4, <1>5, <1>6 DEF Followed

LEMMA StartFollowed == ASSUME Followed, NEW r \in Requests, Start(r) PROVE Followed'
<1>1. PICK label \in {"upload", "import", "cover", "delete", "analyse"} :
         pc[r] = "new" /\ pc' = [pc EXCEPT ![r] = label]
  BY DEF Start, StartUpload, StartImport, StartChange, Go
<1>2. UNCHANGED <<row, loaded, adding, behind, chosen, odd>>
  BY DEF Start, StartUpload, StartImport, StartChange, history, importVars
<1>3. Typed'
  BY NextTyped DEF Followed, Next
<1>4. \A q \in Requests : pc'[q] = IF q = r THEN label ELSE pc[q]
  BY <1>1 DEF Followed, Typed, TypeOK
<1>5. IdsAreUsed'
  <2>1. \A by \in Requests \cup {None} : Ended(pc, by) => Ended(pc', by)
    BY <1>1, <1>4 DEF Ended
  <2>2. ASSUME NEW q \in Requests, pc'[q] \in WithId
        PROVE  Ended(pc, target'[q][1]) /\ target'[q][1] \in Requests \cup {None}
    <3>1. CASE target'[q] = target[q] /\ pc[q] \in WithId
      BY <3>1, IdsAreRequests DEF Followed, IdsAreUsed
    <3>2. ASSUME NEW id \in Ids, Exists(row, id), target'[q] = id
          PROVE  Ended(pc, target'[q][1]) /\ target'[q][1] \in Requests \cup {None}
      <4>1. id[2] \in Present(row) /\ row[id[2]].by = id[1]
        BY <3>2 DEF Ids, Exists, Present
      <4> QED BY <3>2, <4>1, IdsAreRequests DEF Followed, IdsAreUsed
    <3>3. CASE q # r
      BY <1>4, <2>2, <3>1, <3>3
         DEF Start, StartUpload, StartImport, StartChange, Followed, Typed, TypeOK
    <3>4. CASE q = r
      <4>1. label \notin {"upload", "import"}
        BY <1>4, <2>2, <3>4 DEF WithId
      <4>2. ~ (\E c \in Contents : StartUpload(r, c))
            /\ ~ (\E listing \in Listings : StartImport(r, listing))
        BY <1>4, <4>1 DEF StartUpload, StartImport, Go, Followed, Typed, TypeOK
      <4>3. PICK kind \in {"cover", "delete", "analyse"}, id \in Ids : StartChange(r, kind, id)
        BY <4>2 DEF Start
      <4>4. Exists(row, id) /\ target'[r] = id
        BY <4>3 DEF StartChange, Followed, Typed, TypeOK
      <4> QED BY <3>2, <3>4, <4>4
    <3> QED BY <3>3, <3>4
  <2>3. \A c \in Present(row) : Ended(pc', row[c].by)
    BY <2>1, IdsAreRequests DEF Followed, IdsAreUsed
  <2>4. \A q \in Requests : \A c \in Present(loaded[q]) : Ended(pc', loaded[q][c].by)
    BY <2>1, IdsAreRequests DEF Followed, IdsAreUsed
  <2> QED BY <1>2, <2>1, <2>2, <2>3, <2>4 DEF IdsAreUsed, WithId
<1>6. AddsOneCover'
  BY <1>1, <1>2, <1>4 DEF Followed, AddsOneCover, Present, Covers
<1>7. SelectedIsCurrent'
  <2>1. \A q \in Requests : pc'[q] \in {"next", "save"} => q # r /\ pc[q] = pc'[q]
    BY <1>4
  <2>2. \A q \in Requests : q # r => target'[q] = target[q]
    BY DEF Start, StartUpload, StartImport, StartChange, Followed, Typed, TypeOK
  <2> QED BY <1>2, <2>1, <2>2 DEF Followed, SelectedIsCurrent, Agrees, Exists, Present, IdOf
<1> QED BY <1>2, <1>3, <1>5, <1>6, <1>7 DEF Followed, CoverIsChosen, Covers, Present

LEMMA SelectFollowed == ASSUME Followed, NEW r \in Requests, Select(r) PROVE Followed'
<1>1. PICK label \in {"next", "save"} :
         /\ pc' = [pc EXCEPT ![r] = label]
         /\ pc[r] = IF label = "next" THEN "import" ELSE "cover"
  BY DEF Select, Go
<1>2. UNCHANGED <<row, adding, behind, chosen, odd, target>>
  BY DEF Select, history, importVars
<1>3. Typed'
  BY NextTyped DEF Followed, Next, Step
<1>4. \A q \in Requests : pc'[q] = IF q = r THEN label ELSE pc[q]
  BY <1>1 DEF Followed, Typed, TypeOK
<1>5. \A q \in Requests : loaded'[q] = IF q = r THEN row ELSE loaded[q]
  BY DEF Select, Followed, Typed, TypeOK
<1>6. IdsAreUsed'
  <2>1. \A by \in Requests \cup {None} : Ended(pc, by) => Ended(pc', by)
    BY <1>1, <1>4 DEF Ended
  <2>2. \A c \in Present(row) : Ended(pc', row[c].by)
    BY <2>1, IdsAreRequests DEF Followed, IdsAreUsed
  <2>3. \A q \in Requests : \A c \in Present(loaded[q]) : Ended(pc', loaded[q][c].by)
    BY <2>1, IdsAreRequests DEF Followed, IdsAreUsed
  <2>4. \A q \in Requests : pc'[q] \in WithId => Ended(pc', target[q][1])
    <3>1. \A q \in Requests : pc'[q] \in WithId => pc[q] \in WithId
      BY <1>1, <1>4 DEF WithId
    <3> QED BY <2>1, <3>1, IdsAreRequests DEF Followed, IdsAreUsed
  <2> QED BY <1>2, <1>5, <2>2, <2>3, <2>4 DEF IdsAreUsed, WithId
<1>7. AddsOneCover'
  BY <1>1, <1>2, <1>4, <1>5 DEF Followed, AddsOneCover, Present, Covers
<1>8. SelectedIsCurrent'
  <2>1. Agrees(row)
    <3>1. \A c \in Present(row) : Exists(row, IdOf(row, c))
      BY DEF Exists, IdOf, Present
    <3> QED BY <3>1 DEF Agrees
  <2>2. ASSUME NEW q \in Requests, q \notin behind, pc'[q] \in {"next", "save"}
        PROVE  Agrees(loaded'[q])
    BY <1>4, <1>5, <2>1, <2>2 DEF Followed, SelectedIsCurrent
  <2>3. ASSUME NEW q \in Requests, pc'[q] = "save", Exists(row, target[q])
        PROVE  Exists(loaded'[q], target[q])
    BY <1>4, <1>5, <2>3 DEF Followed, SelectedIsCurrent
  <2> QED BY <1>2, <2>2, <2>3 DEF SelectedIsCurrent, Agrees, Exists, Present, IdOf
<1> QED BY <1>2, <1>3, <1>6, <1>7, <1>8 DEF Followed, CoverIsChosen, Covers, Present

LEMMA FetchFollowed == ASSUME Followed, NEW r \in Requests, Fetch(r) PROVE Followed'
<1>1. UNCHANGED <<row, pc, target, loaded, behind, chosen, odd>> /\ pc[r] = "next"
  BY DEF Fetch, history
<1>2. Typed'
  BY NextTyped DEF Followed, Next, Step
<1>3. IdsAreUsed' /\ SelectedIsCurrent' /\ CoverIsChosen'
  BY <1>1 DEF Followed, IdsAreUsed, Ended, WithId, SelectedIsCurrent, Agrees, Exists, IdOf,
              CoverIsChosen, Covers, Present
<1>4. AddsOneCover'
  <2>1. CASE adding' = adding
    BY <1>1, <2>1 DEF Followed, AddsOneCover, Covers, Present
  <2>2. ASSUME NEW c \in Contents, c \notin KnownContents(r),
               adding' = [adding EXCEPT ![r][c] = Fetched(r)]
        PROVE  AddsOneCover'
    <3>1. /\ Fetched(r).by = r
          /\ Fetched(r).cover => Covers(adding[r]) = {} /\ Covers(loaded[r]) = {}
      BY DEF Fetched, HasCover
    <3>2. \A q \in Requests : \A d \in Contents :
             adding'[q][d] = IF q = r /\ d = c THEN Fetched(r) ELSE adding[q][d]
      BY <2>2 DEF Followed, Typed, TypeOK, Rows
    <3> HIDE DEF Fetched
    <3>3. \A q \in Requests : \A d \in Present(adding'[q]) : adding'[q][d].by = q
      BY <3>1, <3>2 DEF Followed, AddsOneCover, Present
    <3>4. \A q \in Requests : q # r => adding'[q] = adding[q]
      BY <2>2 DEF Followed, Typed, TypeOK
    <3>5. \A d, e \in Covers(adding'[r]) : d = e
      BY <1>1, <3>1, <3>2 DEF Followed, AddsOneCover, Present, Covers
    <3>6. Covers(adding'[r]) # {} => Covers(loaded[r]) = {}
      BY <1>1, <3>1, <3>2 DEF Followed, AddsOneCover, Present, Covers
    <3> QED BY <1>1, <3>3, <3>4, <3>5, <3>6 DEF Followed, AddsOneCover, Present, Covers
  <2> QED BY <2>1, <2>2, FetchAdds DEF Followed
<1> QED BY <1>2, <1>3, <1>4 DEF Followed

\* Steps that write no row and no flag, and those that take a row away.
LEMMA OtherFollowed ==
  ASSUME Followed, NEW r \in Requests,
         StoreUpload(r) \/ Skip(r) \/ FindDeleted(r) \/ Remove(r) \/ FindAnalysed(r) \/ Record(r)
  PROVE  Followed'
<1>1. Typed'
  BY NextTyped DEF Followed, Next, Step
<1>2. UNCHANGED <<loaded, adding, behind, target>>
  BY DEF StoreUpload, Skip, FindDeleted, Remove, FindAnalysed, Record, history, importVars
<1>3. \A q \in Requests : \/ pc'[q] = pc[q]
                          \/ /\ pc'[q] \notin {"new", "import", "next", "save"}
                             /\ pc[q] # "done" /\ (pc'[q] \in WithId => pc[q] \in WithId)
  BY DEF StoreUpload, Skip, FindDeleted, Remove, FindAnalysed, Record, Go, WithId,
         Followed, Typed, TypeOK
<1>4. CASE Remove(r)
  <2>1. target[r][2] \in Contents
    BY <1>4, IdsAreRequests DEF Remove, WithId, Followed
  <2>2. CASE Exists(row, target[r])
    <3>1. row' = [row EXCEPT ![target[r][2]] = None]
          /\ chosen' = (IF chosen = target[r][2] THEN None ELSE chosen) /\ odd' = odd
      BY <1>4, <2>2 DEF Remove
    <3>2. \A c \in Contents : row'[c] = IF c = target[r][2] THEN None ELSE row[c]
      BY <2>1, <3>1 DEF Followed, Typed, TypeOK, Rows
    <3>3. Covers(row') = Covers(row) \ {target[r][2]}
      BY <3>2 DEF Covers, Present
    <3>4. CoverIsChosen'
      BY <3>1, <3>3 DEF Followed, CoverIsChosen, Covers, Present
    <3>5. \A c \in Contents : \/ row'[c] = None
                              \/ /\ row[c] # None /\ row'[c] # None
                                 /\ row'[c].by = row[c].by /\ row'[c].cover = row[c].cover
      BY <3>2
    <3> QED BY <1>1, <1>2, <1>3, <3>4, <3>5, RowsGo
  <2>3. CASE ~ Exists(row, target[r])
    <3>1. UNCHANGED <<row, chosen, odd>>
      BY <1>4, <2>3 DEF Remove
    <3> QED BY <1>1, <1>2, <1>3, <3>1, RowsGo DEF Followed, CoverIsChosen, Covers, Present
  <2> QED BY <2>2, <2>3
<1>5. CASE Record(r) /\ row' # row
  <2>1. target[r][2] \in Contents
    BY <1>5, IdsAreRequests DEF Record, WithId, Followed
  <2>2. Exists(row, target[r]) /\ row' = [row EXCEPT ![target[r][2]].read = TRUE]
    BY <1>5 DEF Record
  <2>3. row[target[r][2]] \in Row
    BY <2>1, <2>2 DEF Followed, Typed, TypeOK, Rows, Exists
  <2>4. \A c \in Contents : row'[c] = IF c = target[r][2] THEN [row[c] EXCEPT !.read = TRUE]
                                      ELSE row[c]
    BY <2>1, <2>2 DEF Followed, Typed, TypeOK, Rows
  <2>5. LET new == [row[target[r][2]] EXCEPT !.read = TRUE]
        IN  new \in Row /\ new.by = row[target[r][2]].by /\ new.cover = row[target[r][2]].cover
    BY <2>3 DEF Row
  <2>6. \A c \in Contents : \/ row'[c] = None /\ row[c] = None
                            \/ /\ row[c] # None /\ row'[c] # None
                               /\ row'[c].by = row[c].by /\ row'[c].cover = row[c].cover
    BY <2>2, <2>4, <2>5, MediaAssumption DEF Exists
  <2>7. Covers(row') = Covers(row)
    BY <2>6 DEF Covers, Present
  <2>8. UNCHANGED <<chosen, odd>>
    BY <1>5 DEF Record, history
  <2>9. CoverIsChosen'
    BY <2>7, <2>8 DEF Followed, CoverIsChosen, Covers, Present
  <2> QED BY <1>1, <1>2, <1>3, <2>6, <2>9, RowsGo
<1>6. CASE ~ Remove(r) /\ row' = row
  <2>1. chosen' = chosen /\ odd' \cap {"raced", "missing"} = odd \cap {"raced", "missing"}
    BY <1>6 DEF StoreUpload, Skip, FindDeleted, FindAnalysed, Record, history
  <2>2. CoverIsChosen'
    BY <1>6, <2>1 DEF Followed, CoverIsChosen, Covers, Present
  <2> QED BY <1>1, <1>2, <1>3, <1>6, <2>2, RowsGo
<1>7. ~ Remove(r) /\ ~ Record(r) => row' = row
  BY DEF StoreUpload, Skip, FindDeleted, FindAnalysed
<1> QED BY <1>4, <1>5, <1>6, <1>7

LEMMA InsertUploadFollowed == ASSUME Followed, NEW r \in Requests, InsertUpload(r) PROVE Followed'
<1> DEFINE new == [by |-> r, cover |-> FALSE, source |-> None, read |-> FALSE]
<1>1. Typed'
  BY NextTyped DEF Followed, Next, Step
<1>2. /\ pc[r] = "insert" /\ pc' = [pc EXCEPT ![r] = "done"]
      /\ UNCHANGED <<loaded, adding, behind, target, chosen, odd>>
      /\ target[r] \in Contents
      /\ row' = row \/ (row[target[r]] = None /\ row' = [row EXCEPT ![target[r]] = new])
  BY DEF InsertUpload, Go, history, importVars, Followed, Typed
<1>3. new.by = r /\ ~ new.cover
  OBVIOUS
<1> HIDE DEF new
<1>4. \A c \in Present(row') : \/ c \in Present(row) /\ row'[c] = row[c]
                               \/ c \notin Present(row) /\ row'[c] = new
  BY <1>2 DEF Present, Followed, Typed, TypeOK, Rows
<1>5. Present(row) \subseteq Present(row')
  BY <1>2 DEF Present, Followed, Typed, TypeOK, Rows
<1>6. Covers(row') = Covers(row)
  BY <1>3, <1>4, <1>5 DEF Covers
<1>7. CoverIsChosen'
  BY <1>2, <1>6 DEF Followed, CoverIsChosen, Covers, Present
<1> QED BY ZenonT(60), <1>1, <1>2, <1>3, <1>4, <1>7, RowsCome

LEMMA CommitImportFollowed ==
  ASSUME Followed, NEW r \in Requests, CommitImport(r) PROVE Followed'
<1>1. Typed'
  BY NextTyped DEF Followed, Next, Step
<1>2. /\ pc[r] = "next" /\ pc' = [pc EXCEPT ![r] = "done"]
      /\ UNCHANGED <<loaded, adding, target>>
  BY DEF CommitImport, Go, importVars
<1>3. \A c \in Present(adding[r]) : adding[r][c].by = r
  BY DEF Followed, AddsOneCover
<1>4. CASE Present(adding[r]) \cap Present(row) # {}
  <2>1. UNCHANGED <<row, chosen, odd, behind>>
    BY <1>4 DEF CommitImport, history
  <2>2. CoverIsChosen'
    BY <2>1 DEF Followed, CoverIsChosen, Covers, Present
  <2> QED BY <1>1, <1>2, <2>1, <2>2, RowsCome
<1>5. CASE Present(adding[r]) \cap Present(row) = {}
  <2>1. \A c \in Contents : row'[c] = IF adding[r][c] # None THEN adding[r][c] ELSE row[c]
    BY <1>5 DEF CommitImport
  <2>2. \A c \in Present(row') : \/ c \in Present(row) /\ row'[c] = row[c]
                                 \/ /\ c \in Present(adding[r]) /\ row'[c] = adding[r][c]
                                    /\ row'[c].by = r
    BY <1>3, <2>1 DEF Present
  <2>3. Covers(row') = Covers(row) \cup Covers(adding[r])
    <3>1. \A c \in Contents : ~ (row[c] # None /\ adding[r][c] # None)
      BY <1>5 DEF Present
    <3> QED BY <2>1, <3>1 DEF Covers, Present
  <2>4. CASE Covers(adding[r]) = {}
    <3>1. UNCHANGED <<chosen, odd, behind>>
      BY <1>5, <2>4 DEF CommitImport, WroteCovers, history
    <3>2. CoverIsChosen'
      BY <2>3, <2>4, <3>1 DEF Followed, CoverIsChosen, Covers, Present
    <3>3. \A c \in Present(row') : row'[c] = row[c] \/ (row'[c].by = r /\ ~ row'[c].cover)
      BY <2>2, <2>4 DEF Covers
    <3> QED BY <1>1, <1>2, <2>2, <3>1, <3>2, <3>3, RowsCome
  <2>5. CASE Covers(adding[r]) # {}
    <3>1. PICK c \in Covers(adding[r]) : WroteCovers(r, c, {})
      BY <1>5, <2>5 DEF CommitImport
    <3>2. Covers(adding[r]) = {c} /\ Covers(loaded[r]) = {}
      BY <1>2, <2>5, <3>1 DEF Followed, AddsOneCover
    <3>3. CoverIsChosen'
      <4>1. CASE r \in behind
        BY <3>1, <4>1 DEF WroteCovers, CoverIsChosen
      <4>2. CASE r \notin behind
        <5>1. Agrees(loaded[r])
          BY <1>2, <4>2 DEF Followed, SelectedIsCurrent
        <5>2. Covers(row) = {}
          <6>1. ASSUME NEW d \in Covers(row) PROVE FALSE
            <7>1. d \in Present(row) /\ row[d].cover
              BY <6>1 DEF Covers
            <7>2. Exists(loaded[r], IdOf(row, d)) /\ loaded[r][d].cover
              BY <5>1, <7>1 DEF Agrees
            <7>3. d \in Covers(loaded[r])
              BY <7>1, <7>2 DEF Covers, Present, Exists, IdOf
            <7> QED BY <3>2, <7>3
          <6> QED BY <6>1
        <5>3. Covers(row') = {c} /\ chosen' = c /\ c # None
          BY <2>3, <3>1, <3>2, <5>2, MediaAssumption DEF WroteCovers, Covers, Present
        <5> QED BY <5>3 DEF CoverIsChosen, Covers, Present
      <4> QED BY <4>1, <4>2
    <3>4. behind \subseteq behind'
          /\ \A q \in Requests \ {r} : pc[q] \in {"next", "save"} => q \in behind'
      BY <3>1 DEF WroteCovers
    <3> QED BY <1>1, <1>2, <2>2, <3>3, <3>4, RowsCome
  <2> QED BY <2>4, <2>5
<1> QED BY <1>4, <1>5

LEMMA SaveCoverFollowed == ASSUME Followed, NEW r \in Requests, SaveCover(r) PROVE Followed'
<1>1. Typed'
  BY NextTyped DEF Followed, Next, Step
<1>2. /\ pc[r] = "save" /\ pc' = [pc EXCEPT ![r] = "done"]
      /\ UNCHANGED <<loaded, adding, target>>
  BY DEF SaveCover, Go, importVars
<1> DEFINE there == {c \in ToFlag(r) : Exists(row, IdOf(loaded[r], c))}
<1>3. CASE UNCHANGED <<row, history>>
  <2>1. CoverIsChosen'
    BY <1>3 DEF Followed, CoverIsChosen, Covers, Present, history
  <2> QED BY <1>1, <1>2, <1>3, <2>1, RowsCome DEF history
<1>4. CASE /\ row' = [c \in Contents |->
                        IF c \in there
                        THEN [row[c] EXCEPT !.cover = (IdOf(loaded[r], c) = target[r])]
                        ELSE row[c]]
           /\ WroteCovers(r, target[r][2],
                          IF Exists(row, target[r]) THEN {} ELSE {"missing"})
  <2>1. \A c \in there : c \in Contents /\ row[c] # None /\ row[c] \in Row
                         /\ row[c].by = loaded[r][c].by
    BY DEF ToFlag, Present, Exists, IdOf, Followed, Typed, TypeOK, Rows
  <2>2. \A c \in there : /\ row'[c].by = row[c].by
                         /\ row'[c].cover = (IdOf(loaded[r], c) = target[r])
    BY <1>4, <2>1 DEF Row
  <2>3. \A c \in Contents : c \notin there => row'[c] = row[c]
    BY <1>4
  <2> HIDE DEF there
  <2>4. Present(row') \subseteq Present(row)
    BY <2>1, <2>3 DEF Present
  <2>5. \A c \in Present(row') : c \in Present(row) /\ row'[c].by = row[c].by
    BY <2>2, <2>3, <2>4 DEF Present
  <2>6. CoverIsChosen'
    <3>1. CASE r \in behind \/ ~ Exists(row, target[r])
      BY <1>4, <3>1 DEF WroteCovers, CoverIsChosen
    <3>2. CASE r \notin behind /\ Exists(row, target[r])
      <4>1. Agrees(loaded[r]) /\ Exists(loaded[r], target[r])
        BY <1>2, <3>2 DEF Followed, SelectedIsCurrent
      <4>2. target[r] \in Ids /\ target[r][2] \in Contents
        BY <1>2 DEF Followed, Typed, Ids
      <4>3. \A c \in Contents : IdOf(row, c) = target[r] <=> c = target[r][2]
        BY <3>2, <4>2 DEF IdOf, Exists, Ids
      <4>4. ASSUME NEW c \in Present(row)
            PROVE  row'[c] # None /\ (row'[c].cover <=> c = target[r][2])
        <5>1. c \in Contents /\ row[c] # None /\ row[c].cover \in BOOLEAN
          BY RowsAreRows DEF Present, Followed, Typed, TypeOK
        <5>2. CASE c \in there
          <6>1. IdOf(loaded[r], c) = IdOf(row, c)
            BY <2>1, <5>2 DEF IdOf
          <6>2. row'[c] # None
            <7>1. [row[c] EXCEPT !.cover = (IdOf(loaded[r], c) = target[r])] \in Row
              BY <2>1, <5>2 DEF Row
            <7>2. row'[c] = [row[c] EXCEPT !.cover = (IdOf(loaded[r], c) = target[r])]
              BY <1>4, <5>1, <5>2
            <7> QED BY <7>1, <7>2, MediaAssumption
          <6> QED BY <2>2, <4>3, <5>1, <5>2, <6>1, <6>2
        <5>3. CASE c \notin there /\ Exists(loaded[r], IdOf(row, c))
          <6>1. /\ IdOf(loaded[r], c) = IdOf(row, c) /\ c \in Present(loaded[r])
                /\ loaded[r][c].cover = row[c].cover
            BY <4>1, <5>1, <5>3 DEF Exists, IdOf, Present, Agrees
          <6>2. Exists(row, IdOf(loaded[r], c))
            BY <5>1, <6>1 DEF Exists, IdOf
          <6>3. c \notin ToFlag(r)
            BY <5>3, <6>2 DEF there
          <6>4. loaded[r][c].cover = (IdOf(loaded[r], c) = target[r])
            BY <6>1, <6>3 DEF ToFlag
          <6> QED BY <2>3, <4>3, <5>1, <5>3, <6>1, <6>4
        <5>4. CASE c \notin there /\ ~ Exists(loaded[r], IdOf(row, c))
          <6>1. ~ row[c].cover /\ IdOf(row, c) # target[r]
            BY <4>1, <5>4 DEF Agrees
          <6> QED BY <2>3, <4>3, <5>1, <5>4, <6>1
        <5> QED BY <5>2, <5>3, <5>4
      <4>5. target[r][2] \in Present(row)
        BY <3>2, <4>2 DEF Exists, Present
      <4>6. Covers(row') = {target[r][2]}
        BY <2>4, <4>4, <4>5 DEF Covers, Present
      <4>7. chosen' = target[r][2] /\ target[r][2] # None
        BY <1>4, <4>2, MediaAssumption DEF WroteCovers
      <4> QED BY <4>6, <4>7 DEF CoverIsChosen, Covers, Present
    <3> QED BY <3>1, <3>2
  <2>7. behind \subseteq behind'
        /\ \A q \in Requests \ {r} : pc[q] \in {"next", "save"} => q \in behind'
    BY <1>4 DEF WroteCovers
  <2> QED BY <1>1, <1>2, <2>5, <2>6, <2>7, RowsCome
<1> QED BY <1>3, <1>4 DEF SaveCover

LEMMA RestartFollowed ==
  Followed /\ (Restart \/ UNCHANGED vars) => Followed'
<1> SUFFICES ASSUME Followed, Restart \/ UNCHANGED vars PROVE Followed'
  OBVIOUS
<1>1. Typed'
  BY NextTyped DEF Followed, Next
<1>2. UNCHANGED <<row, loaded, adding, behind, target, chosen, odd>>
  BY DEF Restart, vars, importVars, history
<1>3. \A q \in Requests : pc'[q] = pc[q] \/ (pc'[q] = "done" /\ pc[q] # "done")
  BY DEF Restart, vars
<1>4. CoverIsChosen'
  BY <1>2 DEF Followed, CoverIsChosen, Covers, Present
<1> QED BY <1>1, <1>2, <1>3, <1>4, RowsGo DEF WithId

LEMMA StepFollowed == Followed /\ [Next]_vars => Followed'
<1> SUFFICES ASSUME Followed, [Next]_vars PROVE Followed'
  OBVIOUS
<1>1. ASSUME NEW r \in Requests, Start(r) \/ Step(r) PROVE Followed'
  BY <1>1, StartFollowed, SelectFollowed, FetchFollowed, OtherFollowed, InsertUploadFollowed,
     CommitImportFollowed, SaveCoverFollowed DEF Step
<1> QED BY <1>1, RestartFollowed DEF Next

LEMMA AlwaysFollowed == Spec => []Followed
  BY InitFollowed, StepFollowed, PTL DEF Spec

\* catalogue.py:3313: the cover is the image last chosen as long as no two requests that
\* write covers overlapped and no vanished image was chosen; uploads, deletions,
\* analyses and crashes may come in between anywhere.
THEOREM ChosenCoverStays == Spec => []CoverIsChosen
<1>1. Followed => CoverIsChosen
  BY DEF Followed
<1> QED BY <1>1, AlwaysFollowed, PTL

-----------------------------------------------------------------------------
(* SourcesAreDistinct follows from what an import knows: the url of each   *)
(* row it adds is one that none of the rows it selected has, and what it   *)
(* has selected tells the url of every such row that is still there, as    *)
(* the ids do not come back.                                               *)

LoadedSources(q) == {loaded[q][c].source : c \in Present(loaded[q])}

Listed(q) ==
    \A c \in Present(adding[q]) :
       /\ adding[q][c].source \in tried[q] \ LoadedSources(q)
       /\ \A d \in Present(adding[q]) : adding[q][d].source = adding[q][c].source => d = c

OwnSource(c) ==
    /\ row[c].by \in Requests
    /\ row[c].source \notin LoadedSources(row[c].by)
    /\ \A d \in Present(row) :
          row[d].by = row[c].by /\ row[d].source = row[c].source => d = c

Known(q) ==
    \A c \in Present(loaded[q]) :
       Exists(row, IdOf(loaded[q], c)) => row[c].source = loaded[q][c].source

Sourced ==
    /\ \A q \in Requests : pc[q] = "next" => Listed(q)
    /\ \A c \in Present(row) : row[c].source # None => OwnSource(c)
    /\ \A q \in Requests : Known(q)

LEMMA InitSourced == Init => Sourced
<1> SUFFICES ASSUME Init PROVE Sourced
  OBVIOUS
<1>1. \A q \in Requests : pc[q] = "new" /\ Present(loaded[q]) = {}
  BY NothingIsRows DEF Init
<1>2. \A c \in Present(row) : row[c].source = None
  BY DEF Init, Present
<1> QED BY <1>1, <1>2 DEF Sourced, Known

\* A step that neither selects nor adds: what rows there are then were there with their
\* source, or have none and come from a request that had not ended.
LEMMA RowsKeepSources ==
  ASSUME Followed, Sourced,
         UNCHANGED <<loaded, adding, tried>>,
         \A q \in Requests : pc'[q] = "next" => pc[q] = "next",
         \A c \in Present(row') :
            \/ c \in Present(row) /\ row'[c].by = row[c].by /\ row'[c].source = row[c].source
            \/ /\ row'[c].source = None /\ row'[c].by \in Requests
               /\ pc[row'[c].by] # "done"
  PROVE  Sourced'
<1>1. \A q \in Requests : LoadedSources(q)' = LoadedSources(q)
  BY DEF LoadedSources, Present
<1>2. ASSUME NEW q \in Requests, pc'[q] = "next" PROVE Listed(q)'
  BY <1>1, <1>2 DEF Sourced, Listed, Present
<1>3. ASSUME NEW c \in Present(row'), row'[c].source # None PROVE OwnSource(c)'
  <2>1. c \in Present(row) /\ row'[c].by = row[c].by /\ row'[c].source = row[c].source
    BY <1>3
  <2>2. OwnSource(c)
    BY <1>3, <2>1 DEF Sourced
  <2>3. ASSUME NEW d \in Present(row'), row'[d].by = row'[c].by, row'[d].source = row'[c].source
        PROVE  d = c
    BY <1>3, <2>1, <2>2, <2>3 DEF OwnSource
  <2> QED BY <1>1, <2>1, <2>2, <2>3 DEF OwnSource
<1>4. ASSUME NEW q \in Requests, NEW c \in Present(loaded[q]), Exists(row', IdOf(loaded[q], c))
      PROVE  row'[c].source = loaded[q][c].source
  <2>1. c \in Present(row') /\ row'[c].by = loaded[q][c].by
    BY <1>4 DEF Exists, IdOf, Present
  <2>2. Ended(pc, row'[c].by)
    BY <2>1 DEF Followed, IdsAreUsed
  <2>3. c \in Present(row) /\ row'[c].by = row[c].by /\ row'[c].source = row[c].source
    BY <2>1, <2>2, MediaAssumption DEF Ended
  <2>4. Exists(row, IdOf(loaded[q], c))
    BY <2>1, <2>3 DEF Exists, IdOf, Present
  <2> QED BY <2>3, <2>4 DEF Sourced, Known
<1>5. ASSUME NEW q \in Requests PROVE Known(q)'
  <2>1. \A c \in Present(loaded[q]) :
           Exists(row', IdOf(loaded[q], c)) => row'[c].source = loaded[q][c].source
    BY <1>4
  <2> QED BY <2>1 DEF Known, Present, Exists, IdOf
<1> QED BY <1>2, <1>3, <1>5 DEF Sourced

LEMMA SelectSourced == ASSUME Followed, Sourced, NEW r \in Requests, Select(r) PROVE Sourced'
<1>1. /\ pc[r] \in {"import", "cover"} /\ (pc'[r] = "next" => pc[r] = "import")
      /\ \A q \in Requests \ {r} : pc'[q] = pc[q] /\ loaded'[q] = loaded[q]
      /\ loaded'[r] = row /\ UNCHANGED <<row, adding, tried>>
  BY DEF Select, Go, importVars, Followed, Typed, TypeOK
<1>2. \A q \in Requests \ {r} : LoadedSources(q)' = LoadedSources(q)
  BY <1>1 DEF LoadedSources, Present
<1>3. ASSUME NEW q \in Requests, pc'[q] = "next" PROVE Listed(q)'
  <2>1. CASE q = r
    <3>1. Present(adding[r])' = {}
      BY <1>1, <1>3, <2>1 DEF Followed, AddsOneCover, Present
    <3> QED BY <2>1, <3>1 DEF Listed
  <2>2. CASE q # r
    BY <1>1, <1>2, <1>3, <2>2 DEF Sourced, Listed, Present
  <2> QED BY <2>1, <2>2
<1>4. ASSUME NEW c \in Present(row'), row'[c].source # None PROVE OwnSource(c)'
  <2>1. OwnSource(c) /\ c \in Present(row)
    BY <1>1, <1>4 DEF Sourced, Present
  <2>2. row[c].by \in Requests \ {r}
    BY <1>1, <2>1, MediaAssumption DEF OwnSource, Followed, IdsAreUsed, Ended
  <2> QED BY <1>1, <1>2, <2>1, <2>2 DEF OwnSource, Present
<1>5. ASSUME NEW q \in Requests PROVE Known(q)'
  BY <1>1 DEF Sourced, Known, Present, Exists, IdOf
<1> QED BY <1>3, <1>4, <1>5 DEF Sourced

LEMMA FetchSourced == ASSUME Followed, Sourced, NEW r \in Requests, Fetch(r) PROVE Sourced'
<1>1. pc[r] = "next" /\ UNCHANGED <<row, pc, loaded>>
  BY DEF Fetch, history
<1>2. \A q \in Requests : LoadedSources(q)' = LoadedSources(q)
  BY <1>1 DEF LoadedSources, Present
<1>3. ASSUME NEW q \in Requests, pc'[q] = "next" PROVE Listed(q)'
  <2>1. Listed(q)
    BY <1>1, <1>3 DEF Sourced
  <2>2. CASE adding'[q] = adding[q]
    <3>0. tried = [p \in Requests |-> tried[p]]
      BY DEF Followed, Typed, TypeOK
    <3>1. tried[q] \subseteq tried'[q]
      <4>1. \/ tried' = tried
            \/ \E url : tried' = [tried EXCEPT ![r] = @ \cup {url}]
        BY DEF Fetch
      <4> QED BY <3>0, <4>1
    <3> QED BY <1>2, <2>1, <2>2, <3>1 DEF Listed, Present
  <2>3. CASE adding'[q] # adding[q]
    <3>1. PICK c \in Contents :
             /\ c \notin KnownContents(r)
             /\ tried' = [tried EXCEPT ![r] = @ \cup {Head(todo[r]).url}]
             /\ adding' = [adding EXCEPT ![r][c] = Fetched(r)]
      BY <2>3 DEF Fetch, Fetched
    <3>2. q = r
      BY <2>3, <3>1 DEF Followed, Typed, TypeOK
    <3> DEFINE url == Head(todo[r]).url
    <3>3. Fetched(r).source = url /\ url \notin tried[r] /\ url \notin LoadedSources(r)
      BY DEF Fetched, Fetch, KnownUrls, LoadedSources
    <3>4. tried'[r] = tried[r] \cup {url}
      BY <3>1 DEF Followed, Typed, TypeOK
    <3> HIDE DEF Fetched, url
    <3>5. \A d \in Contents : adding'[r][d] = IF d = c THEN Fetched(r) ELSE adding[r][d]
      BY <3>1 DEF Followed, Typed, TypeOK, Rows
    <3>6. \A d \in Present(adding'[r]) : d = c \/ d \in Present(adding[r])
      BY <3>5 DEF Present
    <3>7. \A d \in Present(adding'[r]) :
             /\ d \in Contents
             /\ adding'[r][d].source = IF d = c THEN url ELSE adding[r][d].source
      BY <3>3, <3>5 DEF Present
    <3>8. \A d \in Present(adding[r]) : adding[r][d].source # url
      BY <2>1, <3>2, <3>3 DEF Listed
    <3>9. ASSUME NEW d \in Present(adding'[r])
          PROVE  /\ adding'[r][d].source \in tried'[r] \ LoadedSources(r)
                 /\ \A e \in Present(adding'[r]) :
                       adding'[r][e].source = adding'[r][d].source => e = d
      BY <2>1, <3>2, <3>3, <3>4, <3>6, <3>7, <3>8 DEF Listed
    <3> QED BY <1>2, <3>2, <3>9 DEF Listed, Present
  <2> QED BY <2>2, <2>3
<1>4. \A c \in Present(row) : OwnSource(c) => OwnSource(c)'
  BY <1>1, <1>2 DEF OwnSource, Present
<1>5. ASSUME NEW q \in Requests PROVE Known(q)'
  BY <1>1 DEF Sourced, Known, Present, Exists, IdOf
<1> QED BY <1>1, <1>3, <1>4, <1>5 DEF Sourced, Present

LEMMA CommitImportSourced ==
  ASSUME Followed, Sourced, NEW r \in Requests, CommitImport(r) PROVE Sourced'
<1>1. /\ pc[r] = "next" /\ pc' = [pc EXCEPT ![r] = "done"]
      /\ UNCHANGED <<loaded, adding, tried>>
  BY DEF CommitImport, Go, importVars
<1>2. \A q \in Requests : pc'[q] = "next" => pc[q] = "next"
  BY <1>1 DEF Followed, Typed, TypeOK
<1>3. CASE row' = row
  BY <1>1, <1>2, <1>3, RowsKeepSources DEF Present
<1>4. CASE row' # row
  <2>1. /\ Present(adding[r]) \cap Present(row) = {}
        /\ \A c \in Contents : row'[c] = IF adding[r][c] # None THEN adding[r][c] ELSE row[c]
    BY <1>4 DEF CommitImport
  <2>2. \A c \in Present(row') :
           \/ c \in Present(row) /\ row'[c] = row[c]
           \/ c \in Present(adding[r]) /\ row'[c] = adding[r][c] /\ row'[c].by = r
    BY <2>1 DEF Present, Followed, AddsOneCover
  <2>3. \A c \in Present(row) : row[c].by # r
    BY <1>1, MediaAssumption DEF Followed, IdsAreUsed, Ended
  <2>4. \A q \in Requests : LoadedSources(q)' = LoadedSources(q)
    BY <1>1 DEF LoadedSources, Present
  <2>5. ASSUME NEW q \in Requests, pc'[q] = "next" PROVE Listed(q)'
    BY <1>1, <1>2, <2>4, <2>5 DEF Sourced, Listed, Present
  <2>6. ASSUME NEW c \in Present(row'), row'[c].source # None PROVE OwnSource(c)'
    <3>1. CASE c \in Present(row) /\ row'[c] = row[c]
      <4>1. OwnSource(c)
        BY <2>6, <3>1 DEF Sourced
      <4>2. ASSUME NEW d \in Present(row'), row'[d].by = row'[c].by,
                   row'[d].source = row'[c].source
            PROVE  d = c
        BY <2>2, <2>3, <3>1, <4>1, <4>2 DEF OwnSource
      <4> QED BY <2>4, <3>1, <4>1, <4>2 DEF OwnSource
    <3>2. CASE c \in Present(adding[r]) /\ row'[c] = adding[r][c] /\ row'[c].by = r
      <4>1. Listed(r)
        BY <1>1 DEF Sourced
      <4>2. ASSUME NEW d \in Present(row'), row'[d].by = row'[c].by,
                   row'[d].source = row'[c].source
            PROVE  d = c
        <5>1. d \in Present(adding[r]) /\ row'[d] = adding[r][d]
          BY <2>2, <2>3, <3>2, <4>2
        <5> QED BY <3>2, <4>1, <4>2, <5>1 DEF Listed
      <4>3. row'[c].source \notin LoadedSources(r)
        BY <3>2, <4>1 DEF Listed
      <4> QED BY <2>4, <3>2, <4>2, <4>3 DEF OwnSource
    <3> QED BY <2>2, <3>1, <3>2
  <2>7. ASSUME NEW q \in Requests, NEW c \in Present(loaded[q]), Exists(row', IdOf(loaded[q], c))
        PROVE  row'[c].source = loaded[q][c].source
    <3>1. c \in Present(row') /\ row'[c].by = loaded[q][c].by
      BY <2>7 DEF Exists, IdOf, Present
    <3>2. row'[c].by # r
      BY <1>1, <3>1, MediaAssumption DEF Followed, IdsAreUsed, Ended
    <3>3. row'[c] = row[c] /\ Exists(row, IdOf(loaded[q], c))
      BY <2>2, <3>1, <3>2 DEF Exists, IdOf, Present
    <3> QED BY <3>3 DEF Sourced, Known
  <2>8. ASSUME NEW q \in Requests PROVE Known(q)'
    <3>1. \A c \in Present(loaded[q]) :
             Exists(row', IdOf(loaded[q], c)) => row'[c].source = loaded[q][c].source
      BY <2>7
    <3> QED BY <1>1, <3>1 DEF Known, Present, Exists, IdOf
  <2> QED BY <2>5, <2>6, <2>8 DEF Sourced
<1> QED BY <1>3, <1>4

LEMMA QuietSourced ==
  ASSUME Followed, Sourced,
         \/ \E r \in Requests :
               Start(r) \/ StoreUpload(r) \/ Skip(r) \/ FindDeleted(r) \/ FindAnalysed(r)
         \/ Restart
         \/ UNCHANGED vars
  PROVE  Sourced'
<1>1. UNCHANGED <<row, loaded, adding, tried>>
  BY DEF Start, StartUpload, StartImport, StartChange, StoreUpload, Skip, FindDeleted,
         FindAnalysed, Restart, vars, importVars
<1>2. \A q \in Requests : pc'[q] = "next" => pc[q] = "next"
  BY ZenonT(60) DEF Start, StartUpload, StartImport, StartChange, StoreUpload, Skip, FindDeleted,
         FindAnalysed, Restart, vars, Go, Followed, Typed, TypeOK
<1>3. \A c \in Present(row') :
         c \in Present(row) /\ row'[c].by = row[c].by /\ row'[c].source = row[c].source
  BY <1>1 DEF Present
<1> QED BY <1>1, <1>2, <1>3, RowsKeepSources

LEMMA WritesSourced ==
  ASSUME Followed, Sourced, NEW r \in Requests,
         InsertUpload(r) \/ SaveCover(r) \/ Remove(r) \/ Record(r)
  PROVE  Sourced'
<1>1. /\ UNCHANGED <<loaded, adding, tried>> /\ pc' = [pc EXCEPT ![r] = "done"]
      /\ pc[r] \in {"insert", "save", "remove", "record"}
  BY DEF InsertUpload, SaveCover, Remove, Record, importVars, Go
<1>2. \A q \in Requests : pc'[q] = "next" => pc[q] = "next"
  BY <1>1 DEF Followed, Typed, TypeOK
<1>3. CASE InsertUpload(r)
  <2> DEFINE new == [by |-> r, cover |-> FALSE, source |-> None, read |-> FALSE]
  <2>1. \A c \in Contents : row'[c] = row[c] \/ row'[c] = new
    BY <1>3 DEF InsertUpload, Followed, Typed, TypeOK, Rows
  <2>2. new.by = r /\ new.source = None /\ pc[r] # "done"
    BY <1>1
  <2> HIDE DEF new
  <2> QED BY <1>1, <1>2, <2>1, <2>2, RowsKeepSources DEF Present
<1>4. CASE SaveCover(r) \/ Remove(r) \/ Record(r)
  <2>1. ASSUME NEW c \in Present(row')
        PROVE  \/ row'[c] = row[c]
               \/ \E v : row'[c] = [row[c] EXCEPT !.cover = v]
               \/ row'[c] = [row[c] EXCEPT !.read = TRUE]
    <3>1. CASE SaveCover(r)
      BY <2>1, <3>1 DEF SaveCover, Present
    <3>2. CASE Remove(r)
      BY <2>1, <3>2 DEF Remove, Followed, Typed, TypeOK, Rows, Present
    <3>3. CASE Record(r)
      BY ZenonT(60), <2>1, <3>3 DEF Record, Followed, Typed, TypeOK, Rows, Present
    <3> QED BY <1>4, <3>1, <3>2, <3>3
  <2>2. \A c \in Present(row') : c \in Present(row)
    <3>1. CASE SaveCover(r)
      BY <3>1 DEF SaveCover, Present, Exists, IdOf
    <3>2. CASE Remove(r) \/ Record(r)
      BY <3>2 DEF Remove, Record, Present, Exists, Followed, Typed, TypeOK, Rows
    <3> QED BY <1>4, <3>1, <3>2
  <2>3. ASSUME NEW c \in Present(row')
        PROVE  row'[c].by = row[c].by /\ row'[c].source = row[c].source
    <3>1. row[c] \in Row
      BY <2>2, RowsAreRows DEF Followed, Typed, TypeOK
    <3> QED BY <2>1, <3>1 DEF Row
  <2> QED BY <1>1, <1>2, <2>2, <2>3, RowsKeepSources
<1> QED BY <1>3, <1>4

LEMMA StepSourced == Followed /\ Sourced /\ [Next]_vars => Sourced'
<1> SUFFICES ASSUME Followed, Sourced, [Next]_vars PROVE Sourced'
  OBVIOUS
<1>1. ASSUME NEW r \in Requests, Start(r) \/ Step(r) PROVE Sourced'
  BY <1>1, SelectSourced, FetchSourced, CommitImportSourced, QuietSourced, WritesSourced DEF Step
<1>2. CASE Restart \/ UNCHANGED vars
  BY <1>2, QuietSourced
<1> QED BY <1>1, <1>2 DEF Next

\* catalogue.py:333: whatever requests overlap, fail or die, two images of one pressing have
\* one url only if two imports added them of which neither found the other's at its beginning.
THEOREM SourcesStayDistinct == Spec => []SourcesAreDistinct
<1>1. Followed /\ Sourced => SourcesAreDistinct
  <2> SUFFICES ASSUME Sourced, NEW c \in Present(row), NEW d \in Present(row),
                      c # d, row[c].source # None, row[c].source = row[d].source
               PROVE  /\ row[c].by # row[d].by
                      /\ ~ Exists(loaded[row[c].by], IdOf(row, d))
                      /\ ~ Exists(loaded[row[d].by], IdOf(row, c))
    BY DEF SourcesAreDistinct
  <2>1. OwnSource(c) /\ OwnSource(d)
    BY DEF Sourced
  <2>2. ASSUME NEW a \in Present(row), NEW b \in Present(row), OwnSource(a),
               row[a].source = row[b].source, Exists(loaded[row[a].by], IdOf(row, b))
        PROVE  FALSE
    <3>1. PICK q \in Requests : q = row[a].by
      BY <2>2 DEF OwnSource
    <3>2. /\ b \in Contents /\ loaded[q][b] # None /\ loaded[q][b].by = row[b].by
          /\ row[b] # None
      BY <2>2, <3>1 DEF Exists, IdOf, Present
    <3>3. b \in Present(loaded[q]) /\ Exists(row, IdOf(loaded[q], b))
      BY <3>2 DEF Exists, IdOf, Present
    <3>4. row[b].source = loaded[q][b].source
      BY <3>3 DEF Sourced, Known
    <3> QED BY <2>2, <3>1, <3>3, <3>4 DEF OwnSource, LoadedSources
  <2> QED BY <2>1, <2>2 DEF OwnSource
<1> QED BY <1>1, InitSourced, StepSourced, AlwaysFollowed, PTL DEF Spec
=============================================================================
