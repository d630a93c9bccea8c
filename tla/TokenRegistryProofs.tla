------------------------ MODULE TokenRegistryProofs ------------------------
(***************************************************************************)
(* What holds of the revisions and rows of tokens for any number of        *)
(* tokens, requests and values, and that the log of revisions is one.      *)
(*                                                                         *)
(* Numbering adds to ContiguousNumbers that no request has counted more    *)
(* revisions than its token has by now, which is what makes "the number is *)
(* free" mean "the number is the next one"; it breaks only when the token  *)
(* is purged, and then the request cannot commit any more.                 *)
(*                                                                         *)
(* Registry == Sessions /\ Stored /\ Locks has the types, with what a      *)
(* request carries at each of its labels and which row it has locked.  It  *)
(* is inductive together with Numbering, and the other invariants rest on  *)
(* the two: MergedIsNamed; NothingLost, that what a request has counted is *)
(* still what it was when no other has committed; Distinct, that a number  *)
(* belongs to one revision; Replaying, that the row has the newest values  *)
(* of the log, for the operations of OnlyAuthors.                          *)
(*                                                                         *)
(* StepKinds sorts the steps by what they do to rows and revisions; an     *)
(* ...Effect lemma says what that is, and LogGrows, HistoryIs and          *)
(* StepRefines that the step is one of RevisionLog, or none.               *)
(***************************************************************************)
EXTENDS TokenRegistry, FiniteSetTheorems, SequenceTheorems, TLAPS

\* A request that will write a revision of req[r].log.
Author(r) == pc[r] \in {"loser", "flush", "count", "commit"}

Shape ==
    /\ revisions = [t \in Tokens |-> revisions[t]]
    /\ life = [t \in Tokens |-> life[t]]
    /\ pc = [r \in Requests |-> pc[r]]
    /\ req = [r \in Requests |-> req[r]]
    /\ count = [r \in Requests |-> count[r]]

Numbered(t) ==
    /\ IsFiniteSet(revisions[t])
    /\ Numbers(t) = 1 .. Cardinality(revisions[t])

\* What a request has counted is no more than there is, as long as it matters.
Counted(r) ==
    /\ Author(r) => req[r].log \in Tokens
    /\ pc[r] = "commit" =>
         /\ count[r] \in Nat
         /\ life[req[r].log] = "purged" \/ count[r] <= Cardinality(revisions[req[r].log])

Numbering ==
    /\ Shape
    /\ \A t \in Tokens : Numbered(t)
    /\ \A t \in Tokens : life[t] = "unused" => revisions[t] = {}
    /\ \A r \in Requests : Counted(r)

-----------------------------------------------------------------------------
LEMMA InitNumbering == Init => Numbering
<1> SUFFICES ASSUME Init PROVE Numbering
  OBVIOUS
<1>1. Shape
  BY DEF Init, Shape
<1>2. ASSUME NEW t \in Tokens PROVE Numbered(t) /\ revisions[t] = {}
  <2>1. revisions[t] = {}
    BY DEF Init
  <2>2. Numbers(t) = {}
    BY <2>1 DEF Numbers
  <2>3. 1 .. 0 = {}
    OBVIOUS
  <2> QED BY <2>1, <2>2, <2>3, FS_EmptySet DEF Numbered
<1>3. ASSUME NEW r \in Requests PROVE Counted(r)
  BY DEF Init, Counted, Author
<1> QED BY <1>1, <1>2, <1>3 DEF Numbering

\* A step of one request that leaves the revisions alone and counts nothing.
LEMMA QuietStep ==
  ASSUME Numbering, NEW r \in Requests, NEW label, NEW q,
         label # "commit",
         label \in {"loser", "flush", "count"} => q.log \in Tokens,
         pc' = [pc EXCEPT ![r] = label],
         req' = [req EXCEPT ![r] = q],
         count' = [count EXCEPT ![r] = 0] \/ count' = count,
         revisions' = revisions, life' = life
  PROVE  Numbering'
<1>1. Shape'
  BY DEF Numbering, Shape
<1>2. ASSUME NEW t \in Tokens
      PROVE  Numbered(t)' /\ (life[t] = "unused" => revisions[t] = {})'
  BY DEF Numbering, Numbered, Numbers
<1>3. ASSUME NEW s \in Requests PROVE Counted(s)'
  <2>1. CASE s = r
    <3>1. pc'[s] = label /\ req'[s] = q
      BY <2>1 DEF Numbering, Shape
    <3> QED BY <3>1 DEF Counted, Author
  <2>2. CASE s # r
    <3>1. pc'[s] = pc[s] /\ req'[s] = req[s] /\ count'[s] = count[s]
      BY <2>2 DEF Numbering, Shape
    <3>2. Counted(s)
      BY DEF Numbering
    <3> QED BY <3>1, <3>2 DEF Counted, Author
  <2> QED BY <2>1, <2>2
<1> QED BY <1>1, <1>2, <1>3 DEF Numbering

\* The end of a transaction that writes no revision.
LEMMA EndStep ==
  ASSUME Numbering, NEW r \in Requests, End(r), revisions' = revisions, life' = life
  PROVE  Numbering'
<1>1. /\ pc' = [pc EXCEPT ![r] = "done"]
      /\ req' = [req EXCEPT ![r] = Null]
      /\ count' = [count EXCEPT ![r] = 0]
  BY DEF End, Go
<1> QED BY <1>1, QuietStep

\* A request that is answered in one statement and writes no revision.
LEMMA StatementStep ==
  ASSUME Numbering, NEW r \in Requests, Go(r, "done"), UNCHANGED <<req, count>>,
         revisions' = revisions, life' = life
  PROVE  Numbering'
<1>1. /\ pc' = [pc EXCEPT ![r] = "done"]
      /\ req' = [req EXCEPT ![r] = req[r]]
  BY DEF Go, Numbering, Shape
<1> QED BY <1>1, QuietStep

\* A handler reads the row it is going to write.
LEMMA LoadStep ==
  ASSUME Numbering, NEW r \in Requests, NEW t \in Tokens, NEW op, NEW new,
         NEW next \in {"flush", "save"}, Load(r, t, op, new, next)
  PROVE  Numbering'
<1> DEFINE q == [op |-> op, row |-> t, log |-> t, update |-> Changes(rows[t], new),
                 data |-> RevisionData(new)]
<1>1. /\ pc' = [pc EXCEPT ![r] = next]
      /\ req' = [req EXCEPT ![r] = q]
      /\ UNCHANGED <<count, revisions, life>>
  BY DEF Load, Go
<1>2. q.log = t
  OBVIOUS
<1> HIDE DEF q
<1> QED BY <1>1, <1>2, QuietStep

-----------------------------------------------------------------------------
\* A new token has no revision or one, and its number is 1.
LEMMA InsertStep ==
  ASSUME Numbering, NEW r \in Requests, NEW t \in Tokens, NEW row, NEW first,
         Insert(r, t, row, first),
         first = {} \/ \E rev : first = {rev} /\ rev.number = 1
  PROVE  Numbering'
<1>1. /\ life[t] = "unused"
      /\ life' = [life EXCEPT ![t] = "stored"]
      /\ revisions' = [revisions EXCEPT ![t] = first]
      /\ pc' = [pc EXCEPT ![r] = "done"]
      /\ UNCHANGED <<req, count>>
  BY DEF Insert, Go
<1>2. Shape'
  BY <1>1 DEF Numbering, Shape
<1>3. revisions'[t] = first /\ life'[t] = "stored"
  BY <1>1 DEF Numbering, Shape
<1>4. ASSUME NEW u \in Tokens, u # t PROVE revisions'[u] = revisions[u] /\ life'[u] = life[u]
  BY <1>1, <1>4 DEF Numbering, Shape
<1>5. IsFiniteSet(first) /\ {rev.number : rev \in first} = 1 .. Cardinality(first)
      /\ Cardinality(first) \in Nat
  <2>1. CASE first = {}
    <3>1. Cardinality(first) = 0 /\ IsFiniteSet(first)
      BY <2>1, FS_EmptySet
    <3>2. {rev.number : rev \in first} = {} /\ 1 .. 0 = {}
      BY <2>1
    <3> QED BY <3>1, <3>2
  <2>2. ASSUME NEW rev, first = {rev}, rev.number = 1
        PROVE  IsFiniteSet(first) /\ {x.number : x \in first} = 1 .. Cardinality(first)
               /\ Cardinality(first) \in Nat
    <3>1. Cardinality(first) = 1 /\ IsFiniteSet(first)
      BY <2>2, FS_Singleton
    <3>2. {x.number : x \in first} = {1} /\ 1 .. 1 = {1}
      BY <2>2
    <3> QED BY <3>1, <3>2
  <2> QED BY <2>1, <2>2
<1>6. ASSUME NEW u \in Tokens
      PROVE  Numbered(u)' /\ (life[u] = "unused" => revisions[u] = {})'
  BY <1>3, <1>4, <1>5 DEF Numbering, Numbered, Numbers
<1>7. ASSUME NEW s \in Requests PROVE Counted(s)'
  <2>1. CASE s = r
    BY <1>1, <2>1 DEF Numbering, Shape, Counted, Author
  <2>2. CASE s # r
    <3>1. pc'[s] = pc[s] /\ req'[s] = req[s] /\ count'[s] = count[s]
      BY <1>1, <2>2 DEF Numbering, Shape
    <3>2. Counted(s)
      BY DEF Numbering
    <3>3. CASE req[s].log = t
      <4>1. Cardinality(revisions[t]) = 0
        BY <1>1, FS_EmptySet DEF Numbering
      <4>2. pc[s] = "commit" => count[s] \in Nat /\ count[s] <= 0
        BY <1>1, <3>2, <3>3, <4>1 DEF Counted
      <4> QED BY <1>3, <1>5, <3>1, <3>2, <3>3, <4>2 DEF Counted, Author
    <3>4. CASE req[s].log # t
      BY <1>4, <3>1, <3>2, <3>4 DEF Counted, Author
    <3> QED BY <3>3, <3>4
  <2> QED BY <2>1, <2>2
<1> QED BY <1>2, <1>6, <1>7 DEF Numbering

\* A request counts the revisions of its token.
LEMMA CountStep ==
  ASSUME Numbering, NEW r \in Requests, Count(r)
  PROVE  Numbering'
<1>1. /\ pc[r] = "count"
      /\ pc' = [pc EXCEPT ![r] = "commit"]
      /\ count' = [count EXCEPT ![r] = Cardinality(revisions[req[r].log])]
      /\ UNCHANGED <<life, revisions, req>>
  BY DEF Count, Go
<1>2. Shape'
  BY <1>1 DEF Numbering, Shape
<1>3. ASSUME NEW t \in Tokens
      PROVE  Numbered(t)' /\ (life[t] = "unused" => revisions[t] = {})'
  BY <1>1 DEF Numbering, Numbered, Numbers
<1>4. ASSUME NEW s \in Requests PROVE Counted(s)'
  <2>1. CASE s = r
    <3>1. req[r].log \in Tokens
      BY <1>1 DEF Numbering, Counted, Author
    <3>2. Cardinality(revisions[req[r].log]) \in Nat
      BY <3>1, FS_CardinalityType DEF Numbering, Numbered
    <3>3. count'[r] = Cardinality(revisions[req[r].log])
      BY <1>1 DEF Numbering, Shape
    <3> QED BY <1>1, <2>1, <3>1, <3>2, <3>3 DEF Counted, Author
  <2>2. CASE s # r
    <3>1. pc'[s] = pc[s] /\ req'[s] = req[s] /\ count'[s] = count[s]
      BY <1>1, <2>2 DEF Numbering, Shape
    <3>2. Counted(s)
      BY DEF Numbering
    <3> QED BY <1>1, <3>1, <3>2 DEF Counted, Author
  <2> QED BY <2>1, <2>2
<1> QED BY <1>2, <1>3, <1>4 DEF Numbering

\* If the number one above the count is free then it is the next number.
LEMMA FreeNumberIsNext ==
  ASSUME Numbering, NEW r \in Requests, pc[r] = "commit", Exists(req[r].log), ~ Taken(r)
  PROVE  /\ req[r].log \in Tokens
         /\ Cardinality(revisions[req[r].log]) \in Nat
         /\ count[r] = Cardinality(revisions[req[r].log])
<1> DEFINE t == req[r].log
           n == Cardinality(revisions[t])
<1>1. t \in Tokens /\ count[r] \in Nat /\ count[r] <= n
  BY DEF Numbering, Counted, Author, Exists
<1>2. n \in Nat /\ Numbers(t) = 1 .. n
  BY <1>1, FS_CardinalityType DEF Numbering, Numbered
<1>3. count[r] + 1 \notin 1 .. n
  BY <1>2 DEF Taken
<1> HIDE DEF t, n
<1>4. count[r] = n
  BY <1>1, <1>2, <1>3
<1> QED BY <1>1, <1>2, <1>4 DEF t, n

LEMMA CommitStep ==
  ASSUME Numbering, NEW r \in Requests, Commit(r)
  PROVE  Numbering'
<1> DEFINE new == Revision(count[r] + 1, Sources[req[r].op], req[r].data,
                           DOMAIN req[r].update \cap Logged,
                           IF req[r].row = req[r].log THEN Null ELSE req[r].row,
                           req[r].row = req[r].log /\ ~ Clean(r))
<1>0. /\ revisions' = [revisions EXCEPT ![req[r].log] = @ \cup {new}]
      /\ new.number = count[r] + 1
  <2>1. revisions' = [revisions EXCEPT ![req[r].log] = @ \cup {new}]
    BY DEF Commit
  <2>2. new.number = count[r] + 1
    BY DEF Revision
  <2> QED BY <2>1, <2>2
<1> HIDE DEF new
<1>1. PICK t, rev :
        /\ t = req[r].log
        /\ rev.number = count[r] + 1
        /\ revisions' = [revisions EXCEPT ![t] = @ \cup {rev}]
  BY <1>0
<1>2. /\ pc[r] = "commit" /\ Exists(req[r].log) /\ ~ Taken(r)
      /\ pc' = [pc EXCEPT ![r] = "done"]
      /\ req' = [req EXCEPT ![r] = Null]
      /\ count' = [count EXCEPT ![r] = 0]
      /\ life' = life
  BY DEF Commit, End, Go
<1> DEFINE n == Cardinality(revisions[t])
<1>3. t \in Tokens /\ n \in Nat /\ count[r] = n
  BY <1>1, <1>2, FreeNumberIsNext
<1>4. /\ revisions'[t] = revisions[t] \cup {rev}
      /\ \A u \in Tokens : u # t => revisions'[u] = revisions[u]
  BY <1>1, <1>3 DEF Numbering, Shape
<1>5. IsFiniteSet(revisions[t]) /\ Numbers(t) = 1 .. n
  BY <1>3 DEF Numbering, Numbered
<1>6. rev \notin revisions[t]
  <2>1. n + 1 \notin Numbers(t)
    BY <1>3, <1>5
  <2> QED BY <1>1, <1>3, <2>1 DEF Numbers
<1>7. IsFiniteSet(revisions'[t]) /\ Cardinality(revisions'[t]) = n + 1
  BY <1>4, <1>5, <1>6, FS_AddElement
<1>8. Numbered(t)'
  <2>1. {x.number : x \in revisions'[t]} = Numbers(t) \cup {n + 1}
    BY <1>1, <1>3, <1>4 DEF Numbers
  <2>2. {x.number : x \in revisions'[t]} = 1 .. n + 1
    BY <1>3, <1>5, <2>1
  <2>3. \A u : u = t => Numbered(u)'
    BY <1>7, <2>2 DEF Numbered, Numbers
  <2> QED BY <2>3
<1>9. ASSUME NEW u \in Tokens
      PROVE  Numbered(u)' /\ (life[u] = "unused" => revisions[u] = {})'
  <2>1. CASE u = t
    <3>1. life'[u] # "unused"
      BY <1>1, <1>2, <2>1 DEF Exists
    <3> QED BY <1>8, <2>1, <3>1
  <2>2. CASE u # t
    BY <1>2, <1>4, <2>2 DEF Numbering, Numbered, Numbers
  <2> QED BY <2>1, <2>2
<1>10. ASSUME NEW s \in Requests PROVE Counted(s)'
  <2>1. CASE s = r
    BY <1>2, <2>1 DEF Numbering, Shape, Counted, Author
  <2>2. CASE s # r
    <3>1. pc'[s] = pc[s] /\ req'[s] = req[s] /\ count'[s] = count[s]
      BY <1>2, <2>2 DEF Numbering, Shape
    <3>2. Counted(s)
      BY DEF Numbering
    <3>3. CASE req[s].log = t
      BY <1>2, <1>3, <1>7, <3>1, <3>2, <3>3 DEF Counted, Author
    <3>4. CASE req[s].log # t
      BY <1>2, <1>4, <3>1, <3>2, <3>4 DEF Counted, Author
    <3> QED BY <3>3, <3>4
  <2> QED BY <2>1, <2>2
<1>11. Shape'
  BY <1>1, <1>2 DEF Numbering, Shape
<1> QED BY <1>9, <1>10, <1>11 DEF Numbering

\* Purged tokens lose their revisions and whoever counted them cannot commit.
LEMMA PurgeStep ==
  ASSUME Numbering, NEW r \in Requests, NEW S \in SUBSET Tokens, Purge(r, S)
  PROVE  Numbering'
<1>1. /\ life' = [t \in Tokens |-> IF t \in S THEN "purged" ELSE life[t]]
      /\ revisions' = [t \in Tokens |-> IF t \in S THEN {} ELSE revisions[t]]
      /\ pc' = [pc EXCEPT ![r] = "done"]
      /\ UNCHANGED <<req, count>>
  BY DEF Purge, Go
<1>2. Shape'
  BY <1>1 DEF Numbering, Shape
<1>3. ASSUME NEW t \in Tokens
      PROVE  Numbered(t)' /\ (life[t] = "unused" => revisions[t] = {})'
  <2>1. CASE t \in S
    <3>1. revisions'[t] = {}
      BY <1>1, <2>1
    <3>2. {x.number : x \in revisions'[t]} = {} /\ 1 .. 0 = {}
      BY <3>1
    <3> QED BY <3>1, <3>2, FS_EmptySet DEF Numbered, Numbers
  <2>2. CASE t \notin S
    BY <1>1, <2>2 DEF Numbering, Numbered, Numbers
  <2> QED BY <2>1, <2>2
<1>4. ASSUME NEW s \in Requests PROVE Counted(s)'
  <2>1. CASE s = r
    BY <1>1, <2>1 DEF Numbering, Shape, Counted, Author
  <2>2. CASE s # r
    <3>1. pc'[s] = pc[s] /\ req'[s] = req[s] /\ count'[s] = count[s]
      BY <1>1, <2>2 DEF Numbering, Shape
    <3>2. Counted(s)
      BY DEF Numbering
    <3> QED BY <1>1, <3>1, <3>2 DEF Counted, Author
  <2> QED BY <2>1, <2>2
<1> QED BY <1>2, <1>3, <1>4 DEF Numbering

-----------------------------------------------------------------------------
LEMMA BeginNumbering ==
  ASSUME Numbering, NEW r \in Requests, Begin(r)
  PROVE  Numbering'
<1>1. ASSUME NEW t \in Tokens, Create(r, t) \/ Import(r, t) \/ CollectionImport(r, t)
      PROVE  Numbering'
  <2>1. ASSUME NEW row, NEW source, NEW data,
               Insert(r, t, row, {Revision(1, source, data, Logged, Null, TRUE)})
        PROVE  Numbering'
    <3>1. Revision(1, source, data, Logged, Null, TRUE).number = 1
      BY DEF Revision
    <3> QED BY <2>1, <3>1, InsertStep
  <2>2. CASE Create(r, t)
    BY <2>1, <2>2 DEF Create
  <2>3. CASE Import(r, t)
    BY <2>1, <2>3 DEF Import
  <2>4. CASE CollectionImport(r, t)
    BY <2>4, InsertStep DEF CollectionImport
  <2> QED BY <1>1, <2>2, <2>3, <2>4
<1>2. ASSUME NEW t \in Tokens, Edit(r, t) \/ ApplyOcr(r, t) \/ Correct(r, t)
      PROVE  Numbering'
  BY <1>2, LoadStep DEF Edit, ApplyOcr, Correct
<1>3. ASSUME NEW t \in Tokens,
             Archive(r, t) \/ Delete(r, t) \/ SaveGenres(r, t) \/ Sync(r, t)
      PROVE  Numbering'
  BY <1>3, LoadStep DEF Archive, Delete, SaveGenres, Sync
<1>4. ASSUME NEW t \in Tokens, LoadWinner(r, t) PROVE Numbering'
  <2> DEFINE q == [op |-> "merge", row |-> t, log |-> t,
                   update |-> << >>, data |-> RevisionData(rows[t])]
  <2>1. /\ pc' = [pc EXCEPT ![r] = "loser"]
        /\ req' = [req EXCEPT ![r] = q]
        /\ UNCHANGED <<count, revisions, life>>
    BY <1>4 DEF LoadWinner, Go
  <2>2. q.log = t
    OBVIOUS
  <2> HIDE DEF q
  <2> QED BY <2>1, <2>2, QuietStep
<1>5. ASSUME NEW t \in Tokens, FindExisting(r, t) PROVE Numbering'
  <2>1. PICK q : /\ pc' = [pc EXCEPT ![r] = "country"]
                 /\ req' = [req EXCEPT ![r] = q]
                 /\ UNCHANGED <<count, revisions, life>>
    BY <1>5 DEF FindExisting, Go
  <2> QED BY <2>1, QuietStep
<1>6. ASSUME NEW t \in Tokens, Recover(r, t) PROVE Numbering'
  BY <1>6, StatementStep DEF Recover
<1>7. ASSUME NEW S \in SUBSET Tokens, BulkDelete(r, S) PROVE Numbering'
  BY <1>7, StatementStep DEF BulkDelete
<1> QED
  BY <1>1, <1>2, <1>3, <1>4, <1>5, <1>6, <1>7, PurgeStep DEF Begin

LEMMA ContinueNumbering ==
  ASSUME Numbering, NEW r \in Requests, Continue(r)
  PROVE  Numbering'
<1>1. ASSUME NEW l \in Tokens, LoadLoser(r, l) PROVE Numbering'
  <2>1. req[r].log \in Tokens
    BY <1>1 DEF LoadLoser, Numbering, Counted, Author
  <2> DEFINE q == [op |-> "merge", row |-> l, log |-> req[r].log,
                   update |-> Changes(rows[l], WithStatus(rows[l], "merged")),
                   data |-> req[r].data]
  <2>2. /\ pc' = [pc EXCEPT ![r] = "flush"]
        /\ req' = [req EXCEPT ![r] = q]
        /\ UNCHANGED <<count, revisions, life>>
    BY <1>1 DEF LoadLoser, Go
  <2>3. q.log = req[r].log
    OBVIOUS
  <2> HIDE DEF q
  <2> QED BY <2>1, <2>2, <2>3, QuietStep
<1>2. CASE CheckCountry(r)
  <2>1. PICK q : /\ pc' = [pc EXCEPT ![r] = "save"]
                 /\ req' = [req EXCEPT ![r] = q]
                 /\ UNCHANGED <<count, revisions, life>>
    BY <1>2 DEF CheckCountry, Go
  <2> QED BY <2>1, QuietStep
<1>3. CASE Flush(r)
  <2>1. /\ pc' = [pc EXCEPT ![r] = "count"]
        /\ req' = [req EXCEPT ![r] = req[r]]
        /\ UNCHANGED <<count, revisions, life>>
    BY <1>3 DEF Flush, Go, Numbering, Shape
  <2>2. req[r].log \in Tokens
    BY <1>3 DEF Flush, Numbering, Counted, Author
  <2> QED BY <2>1, <2>2, QuietStep
<1>4. CASE Refuse(r) \/ Conflict(r) \/ Save(r) \/ Vanish(r)
  BY <1>4, EndStep DEF Refuse, Conflict, Save, Vanish
<1> QED
  BY <1>1, <1>2, <1>3, <1>4, CountStep, CommitStep DEF Continue

LEMMA StepNumbering == Numbering /\ [Next]_vars => Numbering'
<1> SUFFICES ASSUME Numbering, [Next]_vars PROVE Numbering'
  OBVIOUS
<1>1. CASE UNCHANGED vars
  BY <1>1 DEF vars, Numbering, Shape, Numbered, Numbers, Counted, Author
<1>2. ASSUME NEW r \in Requests, Refuse(r) \/ Fail(r) PROVE Numbering'
  BY <1>2, EndStep DEF Refuse, Fail
<1> QED
  BY <1>1, <1>2, BeginNumbering, ContinueNumbering DEF Next, Finished

\* For any number of tokens, requests and values, and whatever the interleaving
\* of handlers, housekeeping and failures: the revisions of every token are
\* numbered 1, 2, 3, ... without a gap or a repetition.
THEOREM NumbersAreContiguous == Spec => []ContiguousNumbers
<1>1. Init => Numbering
  BY InitNumbering
<1>2. Numbering /\ [Next]_vars => Numbering'
  BY StepNumbering
<1>3. Numbering => ContiguousNumbers
  BY DEF Numbering, Numbered, ContiguousNumbers
<1> QED BY <1>1, <1>2, <1>3, PTL DEF Spec

LEMMA AlwaysNumbering == Spec => []Numbering
  BY InitNumbering, StepNumbering, PTL DEF Spec

-----------------------------------------------------------------------------
(***************************************************************************)
(* Types, and what the sessions of requests hold.                          *)
(***************************************************************************)

\* Only the handlers that write revisions touch the columns a revision repeats.
OnlyAuthors == Operations \cap {"collection_import", "reimport", "sync"} = {}

\* What a request carries when it is at label: a well-typed update, which marks a row
\* as merged only on behalf of another token, and changes the logged columns only
\* together with a revision that says so.
SessionOf(label, q) ==
    /\ label \in {"new", "done"} => q = Null
    /\ label \notin {"new", "done"} =>
         /\ q.row \in Tokens /\ q.log \in Tokens
         /\ DOMAIN q.update \subseteq Columns
         /\ \A row \in Row : Updated(row, q.update) \in Row
    /\ label \in {"loser", "flush", "count", "commit"} =>
         /\ q.data \in [Logged -> Values \cup {Null}]
         /\ \A c \in Logged \cap DOMAIN q.update :
              q.row = q.log /\ q.update[c] = q.data[c]
    /\ label \in {"flush", "count", "commit"} => q.op \in DOMAIN Sources
    /\ label = "loser" => DOMAIN q.update = {}
    /\ label = "country" => ~ OnlyAuthors
    /\ label = "save" /\ OnlyAuthors => DOMAIN q.update \cap Logged = {}
    /\ label \notin {"new", "done"} /\ "status" \in DOMAIN q.update
         /\ q.update["status"] = "merged"
       => label \in {"flush", "count", "commit"} /\ q.row # q.log

Labels == {"new", "loser", "country", "flush", "count", "commit", "save", "done"}

Sessions ==
    /\ pc \in [Requests -> Labels]
    /\ req = [r \in Requests |-> req[r]]
    /\ count \in [Requests -> Nat]
    /\ lock \in [Tokens -> Requests \cup {Null}]
    /\ \A r \in Requests : SessionOf(pc[r], req[r])

Stored ==
    /\ life \in [Tokens -> {"unused", "stored", "purged"}]
    /\ rows = [t \in Tokens |-> rows[t]]
    /\ \A t \in Tokens : rows[t] \in IF Exists(t) THEN Row ELSE {Null}
    /\ \A t \in Tokens : \A rev \in revisions[t] :
         /\ rev.number \in Nat \ {0}
         /\ rev.source \in {"human", "vision", "import"}
         /\ rev.data \in [Logged -> Values \cup {Null}]
         /\ rev.changed \subseteq Logged
         /\ rev.merged \in Tokens \cup {Null}

\* A row whose columns are each taken from one of two rows.
LEMMA MixedRow ==
  ASSUME NEW a \in Row, NEW b \in Row, NEW f,
         f = [c \in Columns |-> f[c]],
         \A c \in Columns : f[c] = a[c] \/ f[c] = b[c]
  PROVE  f \in Row
<1>1. f.status \in {"active", "merged", "archived"} /\ f.deleted \in BOOLEAN
  BY DEF Row, Columns
<1>2. f.country_id \in Values \cup {Null} /\ f.matrix_runout \in Values \cup {Null}
  BY DEF Row, Columns
<1>3. f.parsed \in [Keys -> Entry \cup {Null}] /\ f.genres \in SUBSET Values
  BY DEF Row, Columns
<1>4. f.current_revision_id \in Nat \cup {Null}
  BY DEF Row, Columns
<1> QED BY <1>1, <1>2, <1>3, <1>4 DEF Row, Columns

\* What is to be updated is what the handler assigned.
LEMMA ChangesAreTyped ==
  ASSUME NEW old \in Row, NEW new \in Row
  PROVE  /\ DOMAIN Changes(old, new) \subseteq Columns
         /\ \A row \in Row : Updated(row, Changes(old, new)) \in Row
         /\ \A c \in DOMAIN Changes(old, new) :
              Changes(old, new)[c] = new[c] /\ old[c] # new[c]
<1> DEFINE u == Changes(old, new)
<1>1. DOMAIN u \subseteq Columns /\ \A c \in DOMAIN u : u[c] = new[c] /\ old[c] # new[c]
  BY DEF Changes
<1>2. ASSUME NEW row \in Row PROVE Updated(row, u) \in Row
  <2> DEFINE f == Updated(row, u)
  <2>1. f = [c \in Columns |-> f[c]] /\ \A c \in Columns : f[c] = row[c] \/ f[c] = new[c]
    BY <1>1 DEF Updated
  <2> HIDE DEF f
  <2>2. f \in Row
    BY <2>1, MixedRow
  <2> QED BY <2>2 DEF f
<1> QED BY <1>1, <1>2

\* A row without changes stays as it is.
LEMMA NothingUpdated ==
  ASSUME NEW row \in Row, NEW u, DOMAIN u = {}
  PROVE  Updated(row, u) = row
  BY DEF Updated, Row, Columns

LEMMA DataIsTyped ==
  ASSUME NEW row \in Row
  PROVE  /\ RevisionData(row) \in [Logged -> Values \cup {Null}]
         /\ \A c \in Logged : RevisionData(row)[c] = row[c]
  BY DEF RevisionData, Row, Logged

LEMMA NewRowIsTyped ==
  ASSUME NEW country \in Values \cup {Null}, NEW matrix \in Values \cup {Null}
  PROVE  NewRow(country, matrix) \in Row
  BY DEF NewRow, Row

\* The rows that the handlers leave behind.
LEMMA HandlersKeepRows ==
  ASSUME NEW row \in Row
  PROVE  /\ \A country, matrix \in Values \cup {Null} :
              /\ WithForm(row, country, matrix) \in Row
              /\ WithForm(row, country, matrix).status = row.status
         /\ \A v \in Values : WithReading(row, v) \in Row
                              /\ WithReading(row, v).status = row.status
         /\ \A k \in Keys, v \in Values \cup {Null} :
              /\ WithCorrection(row, k, v) \in Row
              /\ WithCorrection(row, k, v).status = row.status
         /\ \A status \in {"active", "merged", "archived"} :
              /\ WithStatus(row, status) \in Row
              /\ WithStatus(row, status).status = status
              /\ \A c \in Columns \ {"status"} : WithStatus(row, status)[c] = row[c]
         /\ WithDeleted(row) \in Row
         /\ \A c \in Columns \ {"deleted"} : WithDeleted(row)[c] = row[c]
<1>1. ASSUME NEW country \in Values \cup {Null}, NEW matrix \in Values \cup {Null}
      PROVE  /\ WithForm(row, country, matrix) \in Row
             /\ WithForm(row, country, matrix).status = row.status
  BY DEF WithForm, Row
<1>2. ASSUME NEW v \in Values
      PROVE  WithReading(row, v) \in Row /\ WithReading(row, v).status = row.status
  BY DEF WithReading, Row, Entry
<1>3. ASSUME NEW k \in Keys, NEW v \in Values \cup {Null}
      PROVE  /\ WithCorrection(row, k, v) \in Row
             /\ WithCorrection(row, k, v).status = row.status
  <2>1. <<v, "human">> \in Entry
    BY DEF Entry
  <2> QED BY <2>1 DEF WithCorrection, Row
<1>4. ASSUME NEW status \in {"active", "merged", "archived"}
      PROVE  /\ WithStatus(row, status) \in Row
             /\ WithStatus(row, status).status = status
             /\ \A c \in Columns \ {"status"} : WithStatus(row, status)[c] = row[c]
  BY DEF WithStatus, Row, Columns
<1>5. /\ WithDeleted(row) \in Row
      /\ \A c \in Columns \ {"deleted"} : WithDeleted(row)[c] = row[c]
  BY DEF WithDeleted, Row, Columns
<1> QED BY <1>1, <1>2, <1>3, <1>4, <1>5

LEMMA GenresKeepRow ==
  ASSUME NEW row \in Row, NEW g \in SUBSET Values
  PROVE  /\ WithGenres(row, g) \in Row
         /\ \A c \in Columns \ {"genres"} : WithGenres(row, g)[c] = row[c]
  BY DEF WithGenres, Row, Columns

LEMMA ReleaseKeepsRow ==
  ASSUME NEW row \in Row, NEW g \in SUBSET Values, NEW country \in Values \cup {Null}
  PROVE  /\ WithRelease(row, g, country) \in Row
         /\ WithRelease(row, g, country).status = row.status
  BY DEF WithRelease, Row

-----------------------------------------------------------------------------
\* Whoever has flushed a change of a row holds the row's lock, and the row exists.
Held(r) ==
    pc[r] \in {"count", "commit"} /\ DOMAIN req[r].update # {} =>
        lock[req[r].row] = r /\ Exists(req[r].row)
Locks == \A r \in Requests : Held(r)

\* A request's session changes, the others' do not.
LEMMA SessionStep ==
  ASSUME Sessions, NEW r \in Requests, NEW label \in Labels, NEW q, SessionOf(label, q),
         pc' = [pc EXCEPT ![r] = label],
         req' = [req EXCEPT ![r] = q],
         count' \in [Requests -> Nat],
         lock' \in [Tokens -> Requests \cup {Null}]
  PROVE  Sessions'
<1>1. pc' \in [Requests -> Labels] /\ req' = [s \in Requests |-> req'[s]]
  BY DEF Sessions
<1>2. ASSUME NEW s \in Requests PROVE SessionOf(pc'[s], req'[s])
  <2>1. CASE s = r
    <3>1. pc'[s] = label /\ req'[s] = q
      BY <2>1 DEF Sessions
    <3> QED BY <3>1
  <2>2. CASE s # r
    <3>1. pc'[s] = pc[s] /\ req'[s] = req[s]
      BY <2>2 DEF Sessions
    <3> QED BY <3>1 DEF Sessions
  <2> QED BY <2>1, <2>2
<1> QED BY <1>1, <1>2 DEF Sessions

\* The rows and their locks stay as they are and so do the other sessions.
LEMMA LocksStay ==
  ASSUME Sessions, Locks, NEW r \in Requests, NEW label, NEW q,
         pc' = [pc EXCEPT ![r] = label],
         req' = [req EXCEPT ![r] = q],
         label \in {"count", "commit"} /\ DOMAIN q.update # {} =>
             lock'[q.row] = r /\ Exists(q.row)',
         \A t \in Tokens : lock[t] \in Requests \ {r} => lock'[t] = lock[t],
         \A t \in Tokens : Exists(t) /\ lock[t] # Null => Exists(t)'
  PROVE  Locks'
<1> SUFFICES ASSUME NEW s \in Requests PROVE Held(s)'
  BY DEF Locks
<1>1. CASE s = r
  <2>1. pc'[s] = label /\ req'[s] = q
    BY <1>1 DEF Sessions
  <2> QED BY <2>1, <1>1 DEF Held, Exists
<1>2. CASE s # r
  <2>1. pc'[s] = pc[s] /\ req'[s] = req[s]
    BY <1>2 DEF Sessions
  <2>2. SUFFICES ASSUME pc[s] \in {"count", "commit"}, DOMAIN req[s].update # {}
                 PROVE  lock'[req[s].row] = s /\ life'[req[s].row] = "stored"
    BY <2>1 DEF Held, Exists
  <2>3. lock[req[s].row] = s /\ Exists(req[s].row)
    BY <2>2 DEF Locks, Held
  <2>4. req[s].row \in Tokens
    BY <2>2 DEF Sessions, SessionOf
  <2>5. s # Null
    BY NullAssumption
  <2> QED BY <1>2, <2>3, <2>4, <2>5 DEF Exists
<1> QED BY <1>1, <1>2

Registry == Sessions /\ Stored /\ Locks

\* The end of a request's transaction.
LEMMA EndRegistry ==
  ASSUME Sessions, Locks, NEW r \in Requests, End(r), life' = life
  PROVE  Sessions' /\ Locks'
<1>1. /\ pc' = [pc EXCEPT ![r] = "done"]
      /\ req' = [req EXCEPT ![r] = Null]
      /\ count' = [count EXCEPT ![r] = 0]
      /\ lock' = [t \in Tokens |-> IF lock[t] = r THEN Null ELSE lock[t]]
  BY DEF End, Go
<1>2. SessionOf("done", Null)
  BY DEF SessionOf
<1>3. count' \in [Requests -> Nat] /\ lock' \in [Tokens -> Requests \cup {Null}]
  BY <1>1 DEF Sessions
<1>4. Sessions'
  BY <1>1, <1>2, <1>3, SessionStep DEF Labels
<1>5. \A t \in Tokens : lock[t] \in Requests \ {r} => lock'[t] = lock[t]
  BY <1>1
<1>6. \A t \in Tokens : Exists(t) => Exists(t)'
  BY DEF Exists
<1>7. Locks'
  BY <1>1, <1>5, <1>6, LocksStay
<1> QED BY <1>4, <1>7

\* A request that is answered by one statement: it has no session.
LEMMA StatementRegistry ==
  ASSUME Sessions, Locks, NEW r \in Requests, pc[r] = "new", Go(r, "done"),
         UNCHANGED <<lock, req, count>>,
         \A t \in Tokens : Exists(t) /\ lock[t] # Null => Exists(t)'
  PROVE  Sessions' /\ Locks'
<1>1. /\ pc' = [pc EXCEPT ![r] = "done"]
      /\ req' = [req EXCEPT ![r] = Null]
  BY DEF Go, Sessions, SessionOf
<1>2. SessionOf("done", Null)
  BY DEF SessionOf
<1>3. Sessions'
  BY <1>1, <1>2, SessionStep DEF Labels, Sessions
<1>4. Locks'
  BY <1>1, LocksStay
<1> QED BY <1>3, <1>4

\* A request goes on to label, with q in its session; the database stays as it is.
LEMMA QuietRegistry ==
  ASSUME Registry, NEW r \in Requests, NEW label \in Labels \ {"count", "commit"}, NEW q,
         SessionOf(label, q),
         pc' = [pc EXCEPT ![r] = label],
         req' = [req EXCEPT ![r] = q],
         UNCHANGED <<rows, life, revisions, lock, count>>
  PROVE  Registry'
<1>1. Sessions'
  BY SessionStep DEF Registry, Sessions
<1>2. \A t \in Tokens : Exists(t) => Exists(t)'
  BY DEF Exists
<1>3. Locks'
  BY <1>2, LocksStay DEF Registry
<1>4. Stored'
  BY DEF Registry, Stored, Exists
<1> QED BY <1>1, <1>3, <1>4 DEF Registry

\* A handler reads a row and assigns attributes.
LEMMA LoadRegistry ==
  ASSUME Registry, NEW r \in Requests, NEW t \in Tokens, NEW op, NEW new,
         NEW next \in {"flush", "save"}, Load(r, t, op, new, next),
         rows[t] \in Row => new \in Row /\ new.status \in {rows[t].status, "archived"},
         next = "flush" => op \in DOMAIN Sources,
         next = "save" /\ OnlyAuthors => \A c \in Logged : new[c] = rows[t][c]
  PROVE  Registry'
<1> DEFINE u == Changes(rows[t], new)
           q == [op |-> op, row |-> t, log |-> t, update |-> u, data |-> RevisionData(new)]
<1>1. /\ pc' = [pc EXCEPT ![r] = next]
      /\ req' = [req EXCEPT ![r] = q]
      /\ UNCHANGED <<rows, life, revisions, lock, count>>
  BY DEF Load, Go
<1>2. rows[t] \in Row
  BY DEF Load, Visible, Registry, Stored
<1>3. new \in Row
  BY <1>2
<1>4. /\ DOMAIN u \subseteq Columns
      /\ \A row \in Row : Updated(row, u) \in Row
      /\ \A c \in DOMAIN u : u[c] = new[c] /\ rows[t][c] # new[c]
  BY <1>2, <1>3, ChangesAreTyped
<1>5. /\ RevisionData(new) \in [Logged -> Values \cup {Null}]
      /\ \A c \in Logged : RevisionData(new)[c] = new[c]
  BY <1>3, DataIsTyped
<1> HIDE DEF u
<1>6. SessionOf(next, q)
  <2>1. "status" \in DOMAIN u => u["status"] # "merged"
    BY <1>2, <1>4
  <2>2. next = "save" /\ OnlyAuthors => DOMAIN u \cap Logged = {}
    BY <1>4
  <2> QED BY <1>4, <1>5, <2>1, <2>2 DEF SessionOf
<1> HIDE DEF q
<1> QED BY <1>1, <1>6, QuietRegistry DEF Labels

-----------------------------------------------------------------------------
\* New tokens.
LEMMA InsertRegistry ==
  ASSUME Registry, NEW r \in Requests, NEW t \in Tokens, pc[r] = "new",
         NEW row \in Row, NEW first, Insert(r, t, row, first),
         revisions = [u \in Tokens |-> revisions[u]],
         \A rev \in first :
           /\ rev.number = 1
           /\ rev.source \in {"human", "import"}
           /\ rev.data = RevisionData(row)
           /\ rev.changed = Logged
           /\ rev.merged = Null
  PROVE  Registry'
<1>1. /\ life' = [life EXCEPT ![t] = "stored"]
      /\ rows' = [rows EXCEPT ![t] = row]
      /\ revisions' = [revisions EXCEPT ![t] = first]
      /\ Go(r, "done")
      /\ UNCHANGED <<lock, req, count>>
  BY DEF Insert
<1>2. \A u \in Tokens : Exists(u) => Exists(u)'
  BY <1>1 DEF Exists, Registry, Stored
<1>3. Sessions' /\ Locks'
  BY <1>1, <1>2, StatementRegistry DEF Registry
<1>4. Stored'
  <2>1. life' \in [Tokens -> {"unused", "stored", "purged"}]
        /\ rows' = [u \in Tokens |-> rows'[u]]
    BY <1>1 DEF Registry, Stored
  <2>2. ASSUME NEW u \in Tokens
        PROVE  rows'[u] \in IF Exists(u)' THEN Row ELSE {Null}
    BY <1>1 DEF Registry, Stored, Exists
  <2>3. RevisionData(row) \in [Logged -> Values \cup {Null}]
    BY DataIsTyped
  <2>4. ASSUME NEW u \in Tokens, NEW rev \in revisions'[u]
        PROVE  /\ rev.number \in Nat \ {0}
               /\ rev.source \in {"human", "vision", "import"}
               /\ rev.data \in [Logged -> Values \cup {Null}]
               /\ rev.changed \subseteq Logged
               /\ rev.merged \in Tokens \cup {Null}
    <3>1. CASE u = t
      <4>1. rev \in first
        BY <1>1, <2>4, <3>1
      <4> QED BY <2>3, <4>1
    <3>2. CASE u # t
      <4>1. rev \in revisions[u]
        BY <1>1, <2>4, <3>2
      <4> QED BY <4>1 DEF Registry, Stored
    <3> QED BY <3>1, <3>2
  <2> QED BY <2>1, <2>2, <2>4 DEF Stored
<1> QED BY <1>3, <1>4 DEF Registry

\* The single statements of housekeeping that change rows.
LEMMA HousekeepingRegistry ==
  ASSUME Registry, NEW r \in Requests,
         \/ \E t \in Tokens : Recover(r, t)
         \/ \E S \in SUBSET Tokens : BulkDelete(r, S)
  PROVE  Registry'
<1>1. /\ pc[r] = "new" /\ Go(r, "done")
      /\ UNCHANGED <<life, revisions, lock, req, count>>
  BY DEF Recover, BulkDelete, Start
<1>2. \A t \in Tokens : Exists(t) => Exists(t)'
  BY <1>1 DEF Exists
<1>3. Sessions' /\ Locks'
  BY <1>1, <1>2, StatementRegistry DEF Registry
<1>4. rows' = [t \in Tokens |-> rows'[t]]
  BY DEF Recover, BulkDelete, Registry, Stored
<1>5. ASSUME NEW t \in Tokens PROVE rows'[t] \in IF Exists(t)' THEN Row ELSE {Null}
  <2>1. CASE rows'[t] = rows[t]
    BY <1>1, <2>1 DEF Registry, Stored, Exists
  <2>2. CASE rows'[t] = WithDeleted(WithStatus(rows[t], "archived")) /\ Exists(t)
    <3>1. rows[t] \in Row
      BY <2>2 DEF Registry, Stored
    <3>2. WithStatus(rows[t], "archived") \in Row
      BY <3>1, HandlersKeepRows
    <3>3. WithDeleted(WithStatus(rows[t], "archived")) \in Row
      BY <3>2, HandlersKeepRows
    <3> QED BY <1>2, <2>2, <3>3
  <2>3. CASE rows'[t] = [WithStatus(rows[t], "active") EXCEPT !.deleted = FALSE] /\ Exists(t)
    <3>1. rows[t] \in Row
      BY <2>3 DEF Registry, Stored
    <3>2. [WithStatus(rows[t], "active") EXCEPT !.deleted = FALSE] \in Row
      BY <3>1 DEF WithStatus, Row
    <3> QED BY <1>2, <2>3, <3>2
  <2>4. ASSUME NEW S \in SUBSET Tokens, BulkDelete(r, S)
        PROVE  \/ rows'[t] = rows[t]
               \/ /\ rows'[t] = WithDeleted(WithStatus(rows[t], "archived"))
                  /\ Exists(t)
    BY <2>4 DEF BulkDelete, Visible
  <2>5. ASSUME NEW u \in Tokens, Recover(r, u)
        PROVE  \/ rows'[t] = rows[t]
               \/ /\ rows'[t] = [WithStatus(rows[t], "active") EXCEPT !.deleted = FALSE]
                  /\ Exists(t)
    BY <2>5 DEF Recover, Registry, Stored
  <2> QED BY <2>1, <2>2, <2>3, <2>4, <2>5
<1>6. Stored'
  BY <1>1, <1>4, <1>5 DEF Registry, Stored
<1> QED BY <1>3, <1>6 DEF Registry

\* Purged tokens are locked by nobody, so no flushed change is pulled from under its author.
LEMMA PurgeRegistry ==
  ASSUME Registry, NEW r \in Requests, NEW S \in SUBSET Tokens, Purge(r, S)
  PROVE  Registry'
<1>1. /\ pc[r] = "new" /\ Go(r, "done")
      /\ life' = [t \in Tokens |-> IF t \in S THEN "purged" ELSE life[t]]
      /\ rows' = [t \in Tokens |-> IF t \in S THEN Null ELSE rows[t]]
      /\ revisions' = [t \in Tokens |-> IF t \in S THEN {} ELSE revisions[t]]
      /\ UNCHANGED <<lock, req, count>>
      /\ \A t \in S : Free(t)
  BY DEF Purge, Start
<1>2. \A t \in Tokens : Exists(t) /\ lock[t] # Null => Exists(t)'
  BY <1>1 DEF Exists, Free
<1>3. Sessions' /\ Locks'
  BY <1>1, <1>2, StatementRegistry DEF Registry
<1>4. life' \in [Tokens -> {"unused", "stored", "purged"}]
      /\ rows' = [t \in Tokens |-> rows'[t]]
  BY <1>1 DEF Registry, Stored
<1>5. ASSUME NEW t \in Tokens PROVE rows'[t] \in IF Exists(t)' THEN Row ELSE {Null}
  BY <1>1 DEF Registry, Stored, Exists
<1>6. \A t \in Tokens : revisions'[t] \subseteq revisions[t]
  BY <1>1
<1>7. Stored'
  BY <1>4, <1>5, <1>6 DEF Registry, Stored
<1> QED BY <1>3, <1>7 DEF Registry

\* What a transaction writes: rows that exist, of their type.
LEMMA WrittenRows ==
  ASSUME Registry, NEW r \in Requests, pc[r] \in {"commit", "save"}, rows' = Written(r),
         Clean(r) \/ Exists(req[r].row), life' = life
  PROVE  /\ rows' = [t \in Tokens |-> rows'[t]]
         /\ \A t \in Tokens : rows'[t] \in IF Exists(t)' THEN Row ELSE {Null}
         /\ \A t \in Tokens :
              \/ rows'[t] = rows[t]
              \/ /\ ~ Clean(r) /\ t = req[r].row /\ Exists(t)
                 /\ rows'[t] = Updated(rows[t], req[r].update)
<1>1. rows' = [t \in Tokens |-> rows'[t]]
  BY DEF Written, Registry, Stored
<1>2. ASSUME NEW t \in Tokens
      PROVE  \/ rows'[t] = rows[t]
             \/ /\ ~ Clean(r) /\ t = req[r].row /\ Exists(t)
                /\ rows'[t] = Updated(rows[t], req[r].update)
  BY DEF Written, Registry, Stored
<1>3. ASSUME NEW t \in Tokens PROVE rows'[t] \in IF Exists(t)' THEN Row ELSE {Null}
  <2>1. rows[t] \in IF Exists(t)' THEN Row ELSE {Null}
    BY DEF Registry, Stored, Exists
  <2>2. \A row \in Row : Updated(row, req[r].update) \in Row
    BY DEF Registry, Sessions, SessionOf
  <2>3. Exists(t)' <=> Exists(t)
    BY DEF Exists
  <2> QED BY <1>2, <2>1, <2>2, <2>3
<1> QED BY <1>1, <1>2, <1>3

\* The commit of a handler that writes no revision.
LEMMA SaveRegistry ==
  ASSUME Registry, NEW r \in Requests, Save(r)
  PROVE  Registry'
<1>1. Sessions' /\ Locks'
  BY EndRegistry DEF Save, Registry
<1>2. /\ rows' = [t \in Tokens |-> rows'[t]]
      /\ \A t \in Tokens : rows'[t] \in IF Exists(t)' THEN Row ELSE {Null}
  BY WrittenRows DEF Save
<1>3. Stored'
  BY <1>2 DEF Registry, Stored, Save
<1> QED BY <1>1, <1>3 DEF Registry

-----------------------------------------------------------------------------
\* The UPDATE of a handler that changed something locks the row.
LEMMA FlushRegistry ==
  ASSUME Registry, NEW r \in Requests, Flush(r)
  PROVE  Registry'
<1>1. PICK q :
      /\ q = req[r]
      /\ pc[r] = "flush"
      /\ pc' = [pc EXCEPT ![r] = "count"]
      /\ req' = [req EXCEPT ![r] = q]
      /\ UNCHANGED <<rows, life, revisions, count>>
  BY DEF Flush, Go, Registry, Sessions
<1>2. SessionOf("flush", q)
  BY <1>1 DEF Registry, Sessions
<1>3. SessionOf("count", q) /\ q.row \in Tokens
  BY <1>2 DEF SessionOf
<1>4. \/ DOMAIN q.update = {} /\ lock' = lock
      \/ Exists(q.row) /\ lock[q.row] = Null /\ lock' = [lock EXCEPT ![q.row] = r]
  BY <1>1 DEF Flush, Clean, Free
<1>5. lock' \in [Tokens -> Requests \cup {Null}]
  BY <1>4 DEF Registry, Sessions
<1>6. Sessions'
  BY <1>1, <1>3, <1>5, SessionStep DEF Registry, Sessions, Labels
<1>7. Locks'
  <2>1. DOMAIN q.update # {} => lock'[q.row] = r /\ Exists(q.row)'
    BY <1>1, <1>3, <1>4 DEF Exists, Registry, Sessions
  <2>2. \A t \in Tokens : lock[t] \in Requests \ {r} => lock'[t] = lock[t]
    BY <1>4, NullAssumption DEF Registry, Sessions
  <2>3. \A t \in Tokens : Exists(t) => Exists(t)'
    BY <1>1 DEF Exists
  <2> QED BY <1>1, <2>1, <2>2, <2>3, LocksStay DEF Registry
<1>8. Stored'
  BY <1>1 DEF Registry, Stored, Exists
<1> QED BY <1>6, <1>7, <1>8 DEF Registry

LEMMA CountRegistry ==
  ASSUME Registry, Numbering, NEW r \in Requests, Count(r)
  PROVE  Registry'
<1>1. PICK q :
      /\ q = req[r]
      /\ pc[r] = "count"
      /\ pc' = [pc EXCEPT ![r] = "commit"]
      /\ req' = [req EXCEPT ![r] = q]
      /\ count' = [count EXCEPT ![r] = Cardinality(revisions[q.log])]
      /\ UNCHANGED <<rows, life, revisions, lock>>
  BY DEF Count, Go, Registry, Sessions
<1>2. SessionOf("count", q) /\ Held(r)
  BY <1>1 DEF Registry, Sessions, Locks
<1>3. SessionOf("commit", q) /\ q.log \in Tokens
  BY <1>2 DEF SessionOf
<1>4. Cardinality(revisions[q.log]) \in Nat
  BY <1>3, FS_CardinalityType DEF Numbering, Numbered
<1>5. DOMAIN q.update # {} => lock'[q.row] = r /\ Exists(q.row)'
  BY <1>1, <1>2 DEF Held, Exists
<1>6. Sessions'
  BY <1>1, <1>3, <1>4, SessionStep DEF Registry, Sessions, Labels
<1>7. Locks'
  <2>1. \A t \in Tokens : Exists(t) => Exists(t)'
    BY <1>1 DEF Exists
  <2> QED BY <1>1, <1>5, <2>1, LocksStay DEF Registry
<1>8. Stored'
  BY <1>1 DEF Registry, Stored, Exists
<1> QED BY <1>6, <1>7, <1>8 DEF Registry

\* The revision that a request commits.
NewRevision(r) ==
    Revision(count[r] + 1, Sources[req[r].op], req[r].data, DOMAIN req[r].update \cap Logged,
             IF req[r].row = req[r].log THEN Null ELSE req[r].row,
             req[r].row = req[r].log /\ ~ Clean(r))

LEMMA NewRevisionFields ==
  ASSUME NEW r \in Requests
  PROVE  /\ NewRevision(r).number = count[r] + 1
         /\ NewRevision(r).source = Sources[req[r].op]
         /\ NewRevision(r).data = req[r].data
         /\ NewRevision(r).changed = DOMAIN req[r].update \cap Logged
         /\ NewRevision(r).merged = IF req[r].row = req[r].log THEN Null ELSE req[r].row
         /\ NewRevision(r).wrote = (req[r].row = req[r].log /\ ~ Clean(r))
  BY DEF NewRevision, Revision

\* A commit: one revision of the log, and the row of whoever changed it.
LEMMA CommitEffect ==
  ASSUME Registry, Numbering, NEW r \in Requests, Commit(r)
  PROVE  /\ pc[r] = "commit" /\ Exists(req[r].log) /\ ~ Taken(r)
         /\ SessionOf("commit", req[r]) /\ req[r].log \in Tokens /\ req[r].row \in Tokens
         /\ Clean(r) \/ (lock[req[r].row] = r /\ Exists(req[r].row))
         /\ revisions' = [revisions EXCEPT ![req[r].log] = @ \cup {NewRevision(r)}]
         /\ rows' = Written(r)
         /\ End(r)
         /\ life' = life
         /\ revisions'[req[r].log] = revisions[req[r].log] \cup {NewRevision(r)}
         /\ \A t \in Tokens : t # req[r].log => revisions'[t] = revisions[t]
<1>1. /\ pc[r] = "commit" /\ Exists(req[r].log) /\ ~ Taken(r)
      /\ rows' = Written(r) /\ End(r) /\ life' = life
      /\ revisions' = [revisions EXCEPT ![req[r].log] = @ \cup {NewRevision(r)}]
  BY DEF Commit, NewRevision
<1>2. SessionOf("commit", req[r]) /\ Held(r)
  BY <1>1 DEF Registry, Sessions, Locks
<1>3. req[r].log \in Tokens /\ req[r].row \in Tokens
  BY <1>2 DEF SessionOf
<1>4. Clean(r) \/ (lock[req[r].row] = r /\ Exists(req[r].row))
  BY <1>1, <1>2 DEF Held, Clean
<1>5. revisions = [t \in Tokens |-> revisions[t]]
  BY DEF Numbering, Shape
<1>6. /\ revisions'[req[r].log] = revisions[req[r].log] \cup {NewRevision(r)}
      /\ \A t \in Tokens : t # req[r].log => revisions'[t] = revisions[t]
  BY <1>1, <1>3, <1>5
<1> QED BY <1>1, <1>2, <1>3, <1>4, <1>6

LEMMA CommitRegistry ==
  ASSUME Registry, Numbering, NEW r \in Requests, Commit(r)
  PROVE  Registry'
<1>1. /\ pc[r] = "commit" /\ SessionOf("commit", req[r])
      /\ req[r].log \in Tokens /\ req[r].row \in Tokens
      /\ Clean(r) \/ Exists(req[r].row)
      /\ rows' = Written(r) /\ End(r) /\ life' = life
      /\ revisions'[req[r].log] = revisions[req[r].log] \cup {NewRevision(r)}
      /\ \A t \in Tokens : t # req[r].log => revisions'[t] = revisions[t]
  BY CommitEffect
<1>2. Sessions' /\ Locks'
  BY <1>1, EndRegistry DEF Registry
<1>3. /\ rows' = [t \in Tokens |-> rows'[t]]
      /\ \A t \in Tokens : rows'[t] \in IF Exists(t)' THEN Row ELSE {Null}
  BY <1>1, WrittenRows
<1>4. /\ NewRevision(r).number \in Nat \ {0}
      /\ NewRevision(r).source \in {"human", "vision", "import"}
      /\ NewRevision(r).data \in [Logged -> Values \cup {Null}]
      /\ NewRevision(r).changed \subseteq Logged
      /\ NewRevision(r).merged \in Tokens \cup {Null}
  <2>1. count[r] \in Nat
    BY DEF Registry, Sessions
  <2>2. Sources[req[r].op] \in {"human", "vision"}
    BY <1>1 DEF SessionOf, Sources
  <2>3. req[r].data \in [Logged -> Values \cup {Null}]
    BY <1>1 DEF SessionOf
  <2> QED BY <1>1, <2>1, <2>2, <2>3, NewRevisionFields
<1>5. ASSUME NEW t \in Tokens, NEW rev \in revisions'[t]
      PROVE  /\ rev.number \in Nat \ {0}
             /\ rev.source \in {"human", "vision", "import"}
             /\ rev.data \in [Logged -> Values \cup {Null}]
             /\ rev.changed \subseteq Logged
             /\ rev.merged \in Tokens \cup {Null}
  <2>1. CASE rev \in revisions[t]
    BY <2>1 DEF Registry, Stored
  <2>2. CASE rev \notin revisions[t]
    <3>1. rev = NewRevision(r)
      BY <1>1, <1>5, <2>2
    <3> QED BY <1>4, <3>1
  <2> QED BY <2>1, <2>2
<1>6. Stored'
  BY <1>1, <1>3, <1>5 DEF Registry, Stored
<1> QED BY <1>2, <1>6 DEF Registry

-----------------------------------------------------------------------------
LEMMA LoadersRegistry ==
  ASSUME Registry, NEW r \in Requests, NEW t \in Tokens,
         \/ Edit(r, t) \/ ApplyOcr(r, t) \/ Correct(r, t)
         \/ Archive(r, t) \/ Delete(r, t) \/ SaveGenres(r, t) \/ Sync(r, t)
  PROVE  Registry'
<1>1. {"edit", "merge", "apply_ocr", "correct"} \subseteq DOMAIN Sources
  BY DEF Sources
<1>2. CASE Edit(r, t)
  <2>1. PICK country, matrix \in Values \cup {Null} :
          Load(r, t, "edit", WithForm(rows[t], country, matrix), "flush")
    BY <1>2 DEF Edit
  <2>2. rows[t] \in Row
    BY <2>1 DEF Load, Visible, Registry, Stored
  <2>3. /\ WithForm(rows[t], country, matrix) \in Row
        /\ WithForm(rows[t], country, matrix).status = rows[t].status
    BY ZenonT(60), <2>2, HandlersKeepRows
  <2> QED BY <1>1, <2>1, <2>3, LoadRegistry
<1>3. CASE ApplyOcr(r, t)
  <2>1. PICK v \in Values : Load(r, t, "apply_ocr", WithReading(rows[t], v), "flush")
    BY <1>3 DEF ApplyOcr
  <2> QED BY <1>1, <2>1, HandlersKeepRows, LoadRegistry
<1>4. CASE Correct(r, t)
  <2>1. PICK k \in Keys, v \in Values \cup {Null} :
          Load(r, t, "correct", WithCorrection(rows[t], k, v), "flush")
    BY <1>4 DEF Correct
  <2> QED BY ZenonT(60), <1>1, <2>1, HandlersKeepRows, LoadRegistry
<1>5. Start(r, "sync") => ~ OnlyAuthors
  BY DEF Start, OnlyAuthors
<1>6. Load(r, t, "archive", WithStatus(rows[t], "archived"), "save") => rows[t] \in Row
  BY DEF Load, Visible, Registry, Stored
<1>7. CASE Archive(r, t)
  <2>1. rows[t] \in Row
    BY <1>6, <1>7 DEF Archive
  <2>2. /\ WithStatus(rows[t], "archived") \in Row
        /\ WithStatus(rows[t], "archived").status = "archived"
        /\ \A c \in Logged : WithStatus(rows[t], "archived")[c] = rows[t][c]
    BY <2>1, HandlersKeepRows DEF Logged, Columns
  <2> QED BY <1>7, <2>2, LoadRegistry DEF Archive
<1>8. CASE Delete(r, t)
  <2>1. rows[t] \in Row
    BY <1>8 DEF Delete, Load, Visible, Registry, Stored
  <2>2. /\ WithDeleted(rows[t]) \in Row
        /\ WithDeleted(rows[t]).status = rows[t].status
        /\ \A c \in Logged : WithDeleted(rows[t])[c] = rows[t][c]
    BY <2>1, HandlersKeepRows DEF Logged, Columns
  <2> QED BY <1>8, <2>2, LoadRegistry DEF Delete
<1>9. CASE SaveGenres(r, t)
  <2>1. PICK g \in SUBSET Values : Load(r, t, "genres", WithGenres(rows[t], g), "save")
    BY <1>9 DEF SaveGenres
  <2>2. rows[t] \in Row
    BY <2>1 DEF Load, Visible, Registry, Stored
  <2>3. /\ WithGenres(rows[t], g) \in Row
        /\ WithGenres(rows[t], g).status = rows[t].status
        /\ \A c \in Logged : WithGenres(rows[t], g)[c] = rows[t][c]
    BY <2>2, GenresKeepRow DEF Logged, Columns
  <2> QED BY <2>1, <2>3, LoadRegistry
<1>10. CASE Sync(r, t)
  <2>1. PICK g \in SUBSET Values, country \in Values \cup {Null} :
          Load(r, t, "sync", WithRelease(rows[t], g, country), "save")
    BY <1>10 DEF Sync
  <2>2. rows[t] \in Row /\ ~ OnlyAuthors
    BY <1>5, <2>1 DEF Load, Visible, Registry, Stored
  <2>3. /\ WithRelease(rows[t], g, country) \in Row
        /\ WithRelease(rows[t], g, country).status = rows[t].status
    BY <2>2, ReleaseKeepsRow
  <2> QED BY <2>1, <2>2, <2>3, LoadRegistry
<1> QED BY <1>2, <1>3, <1>4, <1>7, <1>8, <1>9, <1>10

\* The first SELECT of a merge, and that of a collection import.
LEMMA FindersRegistry ==
  ASSUME Registry, NEW r \in Requests, NEW t \in Tokens,
         LoadWinner(r, t) \/ FindExisting(r, t)
  PROVE  Registry'
<1>1. \A row \in Row : Updated(row, << >>) \in Row
  <2>1. DOMAIN << >> = {}
    OBVIOUS
  <2> QED BY <2>1, NothingUpdated
<1>2. CASE LoadWinner(r, t)
  <2> DEFINE q == [op |-> "merge", row |-> t, log |-> t,
                   update |-> << >>, data |-> RevisionData(rows[t])]
  <2>1. /\ pc' = [pc EXCEPT ![r] = "loser"]
        /\ req' = [req EXCEPT ![r] = q]
        /\ UNCHANGED <<rows, life, revisions, lock, count>>
    BY <1>2 DEF LoadWinner, Go
  <2>2. RevisionData(rows[t]) \in [Logged -> Values \cup {Null}]
    BY <1>2, DataIsTyped DEF LoadWinner, Visible, Registry, Stored
  <2>3. SessionOf("loser", q)
    BY <1>1, <2>2 DEF SessionOf
  <2> HIDE DEF q
  <2> QED BY <2>1, <2>3, QuietRegistry DEF Labels
<1>3. CASE FindExisting(r, t)
  <2> DEFINE q == [op |-> "reimport", row |-> t, log |-> t, update |-> << >>, data |-> Null]
  <2>1. /\ pc' = [pc EXCEPT ![r] = "country"]
        /\ req' = [req EXCEPT ![r] = q]
        /\ UNCHANGED <<rows, life, revisions, lock, count>>
        /\ ~ OnlyAuthors
    BY <1>3 DEF FindExisting, Go, Start, OnlyAuthors
  <2>2. SessionOf("country", q)
    BY <1>1, <2>1 DEF SessionOf
  <2> HIDE DEF q
  <2> QED BY <2>1, <2>2, QuietRegistry DEF Labels
<1> QED BY <1>2, <1>3, <1>1

\* The second SELECT of a merge: the update will mark the loser as merged.
LEMMA LoserRegistry ==
  ASSUME Registry, NEW r \in Requests, NEW l \in Tokens, LoadLoser(r, l)
  PROVE  Registry'
<1> DEFINE new == WithStatus(rows[l], "merged")
           u == Changes(rows[l], new)
           q == [op |-> "merge", row |-> l, log |-> req[r].log, update |-> u,
                 data |-> req[r].data]
<1>1. /\ pc[r] = "loser" /\ l # req[r].log
      /\ pc' = [pc EXCEPT ![r] = "flush"]
      /\ req' = [req EXCEPT ![r] = q]
      /\ UNCHANGED <<rows, life, revisions, lock, count>>
  BY DEF LoadLoser, Go
<1>2. SessionOf("loser", req[r])
  BY <1>1 DEF Registry, Sessions
<1>3. req[r].log \in Tokens /\ req[r].data \in [Logged -> Values \cup {Null}]
  BY <1>2 DEF SessionOf
<1>4. rows[l] \in Row
  BY DEF LoadLoser, Visible, Registry, Stored
<1>5. new \in Row /\ \A c \in Columns \ {"status"} : new[c] = rows[l][c]
  BY <1>4, HandlersKeepRows
<1>6. /\ DOMAIN u \subseteq Columns
      /\ \A row \in Row : Updated(row, u) \in Row
      /\ \A c \in DOMAIN u : u[c] = new[c] /\ rows[l][c] # new[c]
  BY <1>4, <1>5, ChangesAreTyped
<1>7. DOMAIN u \cap Logged = {}
  BY <1>5, <1>6 DEF Logged
<1>8. "merge" \in DOMAIN Sources
  BY DEF Sources
<1> HIDE DEF u, new
<1>9. SessionOf("flush", q)
  BY <1>1, <1>3, <1>6, <1>7, <1>8 DEF SessionOf
<1> HIDE DEF q
<1> QED BY <1>1, <1>9, QuietRegistry DEF Labels

\* A collection import settles what it will write by id.
LEMMA CountryRegistry ==
  ASSUME Registry, NEW r \in Requests, CheckCountry(r)
  PROVE  Registry'
<1>1. pc[r] = "country" /\ SessionOf("country", req[r])
  BY DEF CheckCountry, Registry, Sessions
<1>2. PICK country \in Values \cup {Null}, matrix \in Values \cup {Null},
           written \in SUBSET Logged :
        req' = [req EXCEPT ![r] =
                  [op |-> "reimport", row |-> req[r].row, log |-> req[r].row,
                   update |-> [c \in written |->
                                 IF c = "matrix_runout" THEN matrix ELSE country],
                   data |-> Null]]
  BY DEF CheckCountry
<1> DEFINE u == [c \in written |-> IF c = "matrix_runout" THEN matrix ELSE country]
           q == [op |-> "reimport", row |-> req[r].row, log |-> req[r].row,
                 update |-> u, data |-> Null]
<1>3. /\ pc' = [pc EXCEPT ![r] = "save"]
      /\ req' = [req EXCEPT ![r] = q]
      /\ UNCHANGED <<rows, life, revisions, lock, count>>
  BY <1>2 DEF CheckCountry, Go
<1>4. DOMAIN u \subseteq Logged /\ \A row \in Row : Updated(row, u) \in Row
  BY DEF Updated, Row, Columns, Logged
<1>5. ~ OnlyAuthors /\ req[r].row \in Tokens
  BY <1>1 DEF SessionOf
<1> HIDE DEF u
<1>6. SessionOf("save", q)
  BY <1>4, <1>5 DEF SessionOf, Logged, Columns
<1> HIDE DEF q
<1> QED BY <1>3, <1>6, QuietRegistry DEF Labels

LEMMA EndsRegistry ==
  ASSUME Registry, NEW r \in Requests,
         Refuse(r) \/ Conflict(r) \/ Vanish(r) \/ Fail(r)
  PROVE  Registry'
<1>1. End(r) /\ UNCHANGED <<rows, life, revisions>>
  BY DEF Refuse, Conflict, Vanish, Fail
<1>2. Sessions' /\ Locks'
  BY <1>1, EndRegistry DEF Registry
<1> QED BY <1>1, <1>2 DEF Registry, Stored, Exists

LEMMA InsertsRegistry ==
  ASSUME Registry, Numbering, NEW r \in Requests, NEW t \in Tokens,
         Create(r, t) \/ Import(r, t) \/ CollectionImport(r, t)
  PROVE  Registry'
<1>1. pc[r] = "new" /\ revisions = [u \in Tokens |-> revisions[u]]
  BY DEF Create, Import, CollectionImport, Start, Numbering, Shape
<1>2. ASSUME NEW row \in Row, NEW source \in {"human", "import"},
             Insert(r, t, row, {Revision(1, source, RevisionData(row), Logged, Null, TRUE)})
      PROVE  Registry'
  <2> DEFINE rev == Revision(1, source, RevisionData(row), Logged, Null, TRUE)
  <2>1. /\ rev.number = 1 /\ rev.source = source /\ rev.data = RevisionData(row)
        /\ rev.changed = Logged /\ rev.merged = Null
    BY DEF Revision
  <2> HIDE DEF rev
  <2>2. Insert(r, t, row, {rev})
    BY <1>2 DEF rev
  <2> QED BY <1>1, <2>1, <2>2, InsertRegistry
<1>3. CASE Create(r, t)
  BY <1>2, <1>3, NewRowIsTyped DEF Create
<1>4. CASE Import(r, t)
  BY <1>2, <1>4, NewRowIsTyped DEF Import
<1>5. CASE CollectionImport(r, t)
  <2>1. PICK country, matrix \in Values \cup {Null} : Insert(r, t, NewRow(country, matrix), {})
    BY <1>5 DEF CollectionImport
  <2> QED BY <1>1, <2>1, NewRowIsTyped, InsertRegistry
<1> QED BY <1>3, <1>4, <1>5

LEMMA InitRegistry == Init => Registry
<1> SUFFICES ASSUME Init PROVE Registry
  OBVIOUS
<1>1. \A r \in Requests : SessionOf(pc[r], req[r])
  BY DEF Init, SessionOf
<1>2. Sessions
  BY <1>1 DEF Init, Sessions, Labels
<1>3. Stored
  BY DEF Init, Stored, Exists
<1>4. Locks
  BY DEF Init, Locks, Held
<1> QED BY <1>2, <1>3, <1>4 DEF Registry

LEMMA StepRegistry == Registry /\ Numbering /\ [Next]_vars => Registry'
<1> SUFFICES ASSUME Registry, Numbering, [Next]_vars PROVE Registry'
  OBVIOUS
<1>1. CASE UNCHANGED vars
  BY <1>1 DEF vars, Registry, Sessions, Stored, Locks, Held, Exists
<1>2. ASSUME NEW r \in Requests, Begin(r) PROVE Registry'
  BY <1>2, InsertsRegistry, LoadersRegistry, FindersRegistry, HousekeepingRegistry,
     PurgeRegistry DEF Begin
<1>3. ASSUME NEW r \in Requests, Continue(r) PROVE Registry'
  BY <1>3, LoserRegistry, CountryRegistry, FlushRegistry, CountRegistry, CommitRegistry,
     SaveRegistry, EndsRegistry DEF Continue
<1> QED BY <1>1, <1>2, <1>3, EndsRegistry DEF Next, Finished

LEMMA AlwaysRegistry == Spec => []Registry
<1>1. Registry /\ Numbering /\ [Next]_vars => Registry'
  BY StepRegistry
<1> QED BY <1>1, InitRegistry, AlwaysNumbering, PTL DEF Spec

\* Whatever is interleaved, rows, revisions, locks and sessions are of their types: the
\* rows that exist are whole, also those written by partial updates, and every lock
\* belongs to a request.
THEOREM RegistryTypeCorrect == Spec => []TypeOK
<1>1. Registry => TypeOK
  <2> SUFFICES ASSUME Registry PROVE TypeOK
    OBVIOUS
  <2>1. \A r \in Requests : req[r] = Null \/ {req[r].row, req[r].log} \subseteq Tokens
    BY DEF Registry, Sessions, SessionOf
  <2> QED BY <2>1 DEF TypeOK, Registry, Sessions, Stored, Labels
<1> QED BY <1>1, AlwaysRegistry, PTL

-----------------------------------------------------------------------------
(***************************************************************************)
(* What a step may do to the rows and the revisions.                       *)
(***************************************************************************)

Inserts(r, t) == Create(r, t) \/ Import(r, t) \/ CollectionImport(r, t)

\* Reading, locking, counting, refusing and failing leave the tables alone.
LEMMA StepKinds ==
  ASSUME [Next]_vars
  PROVE  \/ UNCHANGED <<rows, life, revisions>>
         \/ \E r \in Requests, t \in Tokens : Inserts(r, t)
         \/ \E r \in Requests : Commit(r) \/ Save(r)
         \/ \E r \in Requests, S \in SUBSET Tokens : BulkDelete(r, S) \/ Purge(r, S)
         \/ \E r \in Requests, t \in Tokens : Recover(r, t)
<1>1. CASE UNCHANGED vars
  BY <1>1 DEF vars
<1>2. ASSUME NEW r \in Requests, NEW t \in Tokens,
             \/ Edit(r, t) \/ ApplyOcr(r, t) \/ Correct(r, t)
             \/ Archive(r, t) \/ Delete(r, t) \/ SaveGenres(r, t) \/ Sync(r, t)
             \/ LoadWinner(r, t) \/ FindExisting(r, t) \/ LoadLoser(r, t)
      PROVE  UNCHANGED <<rows, life, revisions>>
  BY <1>2 DEF Edit, ApplyOcr, Correct, Archive, Delete, SaveGenres, Sync, Load,
              LoadWinner, FindExisting, LoadLoser
<1>3. ASSUME NEW r \in Requests,
             \/ Refuse(r) \/ Fail(r) \/ CheckCountry(r) \/ Flush(r) \/ Count(r)
             \/ Conflict(r) \/ Vanish(r)
      PROVE  UNCHANGED <<rows, life, revisions>>
  BY <1>3 DEF Refuse, Fail, CheckCountry, Flush, Count, Conflict, Vanish
<1>4. ASSUME NEW r \in Requests, Begin(r)
      PROVE  \/ UNCHANGED <<rows, life, revisions>>
             \/ \E t \in Tokens : Inserts(r, t) \/ Recover(r, t)
             \/ \E S \in SUBSET Tokens : BulkDelete(r, S) \/ Purge(r, S)
  BY <1>2, <1>4 DEF Begin, Inserts
<1>5. ASSUME NEW r \in Requests, Continue(r)
      PROVE  UNCHANGED <<rows, life, revisions>> \/ Commit(r) \/ Save(r)
  BY <1>2, <1>3, <1>5 DEF Continue
<1> QED BY <1>1, <1>3, <1>4, <1>5 DEF Next, Finished

\* An insert makes a token of one that was unused: active, and with a first revision
\* that repeats its row, unless a collection import made it.
LEMMA InsertEffect ==
  ASSUME Registry, Numbering, NEW r \in Requests, NEW t \in Tokens, Inserts(r, t)
  PROVE  /\ life[t] = "unused" /\ revisions[t] = {}
         /\ life'[t] = "stored" /\ rows'[t] \in Row /\ rows'[t].status = "active"
         /\ \/ revisions'[t] = {} /\ ~ OnlyAuthors
            \/ \E source \in {"human", "import"} :
                 revisions'[t] =
                   {Revision(1, source, RevisionData(rows'[t]), Logged, Null, TRUE)}
         /\ \A u \in Tokens \ {t} :
              life'[u] = life[u] /\ rows'[u] = rows[u] /\ revisions'[u] = revisions[u]
<1> DEFINE First(row, source) == {Revision(1, source, RevisionData(row), Logged, Null, TRUE)}
<1>1. PICK row, first :
        /\ row \in Row
        /\ Insert(r, t, row, first)
        /\ row.status = "active"
        /\ \/ first = {} /\ ~ OnlyAuthors
           \/ \E source \in {"human", "import"} : first = First(row, source)
  <2>1. \A country, matrix \in Values \cup {Null} :
          NewRow(country, matrix) \in Row /\ NewRow(country, matrix).status = "active"
    BY NewRowIsTyped DEF NewRow
  <2>2. CASE Create(r, t)
    <3>1. PICK country, matrix \in Values \cup {Null} :
            Insert(r, t, NewRow(country, matrix), First(NewRow(country, matrix), "human"))
      BY <2>2 DEF Create
    <3> HIDE DEF First
    <3> QED BY <2>1, <3>1
  <2>3. CASE Import(r, t)
    <3>1. PICK matrix \in Values \cup {Null} :
            Insert(r, t, NewRow(Null, matrix), First(NewRow(Null, matrix), "import"))
      BY <2>3 DEF Import
    <3> HIDE DEF First
    <3> QED BY <2>1, <3>1
  <2>4. CASE CollectionImport(r, t)
    <3>1. PICK country, matrix \in Values \cup {Null} :
            Insert(r, t, NewRow(country, matrix), {})
      BY <2>4 DEF CollectionImport
    <3>2. ~ OnlyAuthors
      BY <2>4 DEF CollectionImport, Start, OnlyAuthors
    <3> HIDE DEF First
    <3> QED BY <2>1, <3>1, <3>2
  <2> QED BY <2>2, <2>3, <2>4 DEF Inserts
<1>2. /\ life[t] = "unused"
      /\ life' = [life EXCEPT ![t] = "stored"]
      /\ rows' = [rows EXCEPT ![t] = row]
      /\ revisions' = [revisions EXCEPT ![t] = first]
  BY <1>1 DEF Insert
<1>3. revisions[t] = {}
  BY <1>2 DEF Numbering
<1>4. /\ life = [u \in Tokens |-> life[u]]
      /\ rows = [u \in Tokens |-> rows[u]]
      /\ revisions = [u \in Tokens |-> revisions[u]]
  BY DEF Numbering, Shape, Registry, Stored
<1>5. revisions'[t] = first /\ life'[t] = "stored" /\ rows'[t] = row
  BY <1>2, <1>4
<1>6. \A u \in Tokens \ {t} :
        life'[u] = life[u] /\ rows'[u] = rows[u] /\ revisions'[u] = revisions[u]
  BY <1>2, <1>4
<1>7. \/ revisions'[t] = {} /\ ~ OnlyAuthors
      \/ \E source \in {"human", "import"} : revisions'[t] = First(rows'[t], source)
  <2> HIDE DEF First
  <2> QED BY <1>1, <1>5
<1> QED BY <1>1, <1>2, <1>3, <1>5, <1>6, <1>7

\* Housekeeping's statements change neither the logged columns nor what exists, and
\* never mark a row as merged.
LEMMA HousekeepingEffect ==
  ASSUME Registry, NEW r \in Requests, NEW t \in Tokens,
         \/ \E u \in Tokens : Recover(r, u)
         \/ \E S \in SUBSET Tokens : BulkDelete(r, S)
  PROVE  /\ UNCHANGED <<life, revisions>>
         /\ \/ rows'[t] = rows[t]
            \/ /\ Exists(t)
               /\ rows'[t].status # "merged"
               /\ \A c \in Logged : rows'[t][c] = rows[t][c]
<1>1. CASE \E u \in Tokens : Recover(r, u)
  <2>1. PICK u \in Tokens : Recover(r, u)
    BY <1>1
  <2>2. CASE u = t
    <3>1. Exists(t) /\ rows[t] \in Row
      BY <2>1, <2>2 DEF Recover, Registry, Stored
    <3>2. rows'[t] = [WithStatus(rows[t], "active") EXCEPT !.deleted = FALSE]
      BY <2>1, <2>2 DEF Recover, Registry, Stored
    <3>3. /\ rows'[t].status = "active"
          /\ \A c \in Logged : rows'[t][c] = rows[t][c]
      BY <3>1, <3>2 DEF WithStatus, Row, Logged
    <3> QED BY <2>1, <3>1, <3>3 DEF Recover
  <2>3. CASE u # t
    BY <2>1, <2>3 DEF Recover, Registry, Stored
  <2> QED BY <2>2, <2>3
<1>2. CASE \E S \in SUBSET Tokens : BulkDelete(r, S)
  <2>1. PICK S \in SUBSET Tokens : BulkDelete(r, S)
    BY <1>2
  <2>2. CASE t \in S
    <3>1. Exists(t) /\ rows[t] \in Row
      BY <2>1, <2>2 DEF BulkDelete, Visible, Registry, Stored
    <3>2. rows'[t] = WithDeleted(WithStatus(rows[t], "archived"))
      BY <2>1, <2>2 DEF BulkDelete
    <3>3. /\ rows'[t].status = "archived"
          /\ \A c \in Logged : rows'[t][c] = rows[t][c]
      BY <3>1, <3>2 DEF WithStatus, WithDeleted, Row, Logged
    <3> QED BY <2>1, <3>1, <3>3 DEF BulkDelete
  <2>3. CASE t \notin S
    BY <2>1, <2>3 DEF BulkDelete
  <2> QED BY <2>2, <2>3
<1> QED BY <1>1, <1>2

\* A save without a revision never marks a row as merged, and leaves the logged columns
\* alone where only authors write them.
LEMMA SaveEffect ==
  ASSUME Registry, NEW r \in Requests, NEW t \in Tokens, Save(r)
  PROVE  /\ UNCHANGED <<life, revisions>>
         /\ \/ rows'[t] = rows[t]
            \/ /\ Exists(t)
               /\ rows'[t].status # "merged" \/ rows'[t].status = rows[t].status
               /\ OnlyAuthors => \A c \in Logged : rows'[t][c] = rows[t][c]
<1>1. pc[r] = "save" /\ UNCHANGED <<life, revisions>> /\ SessionOf("save", req[r])
  BY DEF Save, Registry, Sessions
<1>2. \/ rows'[t] = rows[t]
      \/ Exists(t) /\ rows'[t] = Updated(rows[t], req[r].update)
  BY <1>1, WrittenRows DEF Save
<1>3. ASSUME rows'[t] = Updated(rows[t], req[r].update)
      PROVE  /\ rows'[t].status # "merged" \/ rows'[t].status = rows[t].status
             /\ OnlyAuthors => \A c \in Logged : rows'[t][c] = rows[t][c]
  BY <1>1, <1>3 DEF SessionOf, Updated, Columns, Logged
<1> QED BY <1>1, <1>2, <1>3

-----------------------------------------------------------------------------
(***************************************************************************)
(* Merges.                                                                 *)
(***************************************************************************)

\* A commit marks a row as merged only if it names it in a revision of another token.
LEMMA CommitMerges ==
  ASSUME Registry, Numbering, NEW r \in Requests, NEW t \in Tokens, Commit(r),
         Exists(t)', rows'[t].status = "merged"
  PROVE  \/ Exists(t) /\ rows[t].status = "merged"
         \/ \E w \in Tokens \ {t} : \E rev \in revisions'[w] : rev.merged = t
<1>1. /\ pc[r] = "commit" /\ SessionOf("commit", req[r])
      /\ req[r].log \in Tokens /\ req[r].row \in Tokens
      /\ Clean(r) \/ Exists(req[r].row)
      /\ rows' = Written(r) /\ life' = life
      /\ revisions'[req[r].log] = revisions[req[r].log] \cup {NewRevision(r)}
  BY CommitEffect
<1>2. \/ rows'[t] = rows[t]
      \/ t = req[r].row /\ rows'[t] = Updated(rows[t], req[r].update)
  BY <1>1, WrittenRows
<1>3. Exists(t)
  BY <1>1 DEF Exists
<1>4. CASE rows'[t].status # rows[t].status
  <2>1. t = req[r].row /\ rows'[t] = Updated(rows[t], req[r].update)
    BY <1>2, <1>4
  <2>2. "status" \in DOMAIN req[r].update /\ req[r].update["status"] = "merged"
    BY <2>1, <1>4 DEF Updated, Columns
  <2>3. req[r].row # req[r].log
    BY <1>1, <2>2 DEF SessionOf
  <2>4. NewRevision(r).merged = t
    BY <2>1, <2>3, NewRevisionFields
  <2> QED BY <1>1, <2>1, <2>3, <2>4
<1> QED BY <1>3, <1>4

LEMMA StepMerges == Registry /\ Numbering /\ MergedIsNamed /\ [Next]_vars => MergedIsNamed'
<1> SUFFICES ASSUME Registry, Numbering, MergedIsNamed, [Next]_vars,
                    NEW t \in Tokens, Exists(t)', rows'[t].status = "merged"
             PROVE  \E w \in Tokens \ {t} :
                      life'[w] = "purged" \/ \E rev \in revisions'[w] : rev.merged = t
  BY DEF MergedIsNamed
<1> DEFINE Named == \E w \in Tokens \ {t} :
                      life[w] = "purged" \/ \E rev \in revisions[w] : rev.merged = t
\* What is named stays named or its witness is purged.
<1>1. ASSUME Named,
             \A w \in Tokens : \/ life'[w] = "purged"
                               \/ revisions[w] \subseteq revisions'[w] /\ life[w] # "purged"
      PROVE  \E w \in Tokens \ {t} :
               life'[w] = "purged" \/ \E rev \in revisions'[w] : rev.merged = t
  BY <1>1
<1>2. Exists(t) /\ rows[t].status = "merged" => Named
  BY DEF MergedIsNamed
<1>3. CASE UNCHANGED <<rows, life, revisions>>
  BY <1>2, <1>3 DEF Exists
<1>4. ASSUME NEW r \in Requests, NEW u \in Tokens, Inserts(r, u)
      PROVE  \E w \in Tokens \ {t} :
               life'[w] = "purged" \/ \E rev \in revisions'[w] : rev.merged = t
  <2>1. /\ life[u] = "unused" /\ revisions[u] = {} /\ rows'[u].status = "active"
        /\ \A w \in Tokens \ {u} :
             life'[w] = life[w] /\ rows'[w] = rows[w] /\ revisions'[w] = revisions[w]
    BY <1>4, InsertEffect
  <2>2. t # u
    BY <2>1
  <2>3. Named
    BY <1>2, <2>1, <2>2 DEF Exists
  <2> QED BY <1>1, <2>1, <2>3
<1>5. ASSUME NEW r \in Requests, Commit(r)
      PROVE  \E w \in Tokens \ {t} :
               life'[w] = "purged" \/ \E rev \in revisions'[w] : rev.merged = t
  <2>1. /\ life' = life
        /\ \A w \in Tokens : revisions[w] \subseteq revisions'[w]
    <3>1. /\ life' = life
          /\ revisions'[req[r].log] = revisions[req[r].log] \cup {NewRevision(r)}
          /\ \A w \in Tokens : w # req[r].log => revisions'[w] = revisions[w]
      BY <1>5, CommitEffect
    <3> QED BY <3>1
  <2>2. CASE Exists(t) /\ rows[t].status = "merged"
    BY <1>1, <1>2, <2>1, <2>2
  <2> QED BY <1>5, <2>2, CommitMerges
<1>6. ASSUME NEW r \in Requests,
             \/ Save(r)
             \/ \E u \in Tokens : Recover(r, u)
             \/ \E S \in SUBSET Tokens : BulkDelete(r, S)
      PROVE  \E w \in Tokens \ {t} :
               life'[w] = "purged" \/ \E rev \in revisions'[w] : rev.merged = t
  <2>1. UNCHANGED <<life, revisions>> /\ rows[t].status = "merged"
    BY <1>6, SaveEffect, HousekeepingEffect
  <2> QED BY <1>2, <2>1 DEF Exists
<1>7. ASSUME NEW r \in Requests, NEW S \in SUBSET Tokens, Purge(r, S)
      PROVE  \E w \in Tokens \ {t} :
               life'[w] = "purged" \/ \E rev \in revisions'[w] : rev.merged = t
  <2>1. \A w \in Tokens :
          /\ life'[w] = IF w \in S THEN "purged" ELSE life[w]
          /\ rows'[w] = IF w \in S THEN Null ELSE rows[w]
          /\ revisions'[w] = IF w \in S THEN {} ELSE revisions[w]
    BY <1>7 DEF Purge
  <2>2. Named
    BY <1>2, <2>1 DEF Exists
  <2> QED BY <1>1, <2>1, <2>2
<1> QED BY <1>3, <1>4, <1>5, <1>6, <1>7, StepKinds

\* For any interleaving of merges with edits, deletions, purges and failures of requests
\* (merge_submit): a token marked as merged is named by a revision of another token, unless
\* a token has been purged that may have named it.
THEOREM MergesAreNamed == Spec => []MergedIsNamed
<1>1. Init => MergedIsNamed
  BY DEF Init, MergedIsNamed, Exists
<1>2. Registry /\ Numbering /\ MergedIsNamed /\ [Next]_vars => MergedIsNamed'
  BY StepMerges
<1> QED BY <1>1, <1>2, AlwaysRegistry, AlwaysNumbering, PTL DEF Spec

-----------------------------------------------------------------------------
(***************************************************************************)
(* Writers of one row.                                                     *)
(***************************************************************************)

\* Since a writer of its own log's row counted, with the row locked, nobody else has
\* committed a change of that row.
Unlost(r) ==
    pc[r] = "commit" /\ DOMAIN req[r].update # {} /\ req[r].row = req[r].log =>
        \A rev \in revisions[req[r].log] : rev.number > count[r] => ~ rev.wrote
NothingLost == \A r \in Requests : Unlost(r)

\* A request is at its commit only if it was before, or has just counted.
LEMMA CommittersStay ==
  ASSUME Registry, [Next]_vars, NEW r \in Requests, pc'[r] = "commit"
  PROVE  \/ Count(r)
         \/ pc[r] = "commit" /\ req'[r] = req[r] /\ count'[r] = count[r]
<1>1. CASE UNCHANGED vars
  BY <1>1 DEF vars
<1>2. ASSUME NEW s \in Requests, NEW label, pc' = [pc EXCEPT ![s] = label], label # "commit",
             \/ \E q : req' = [req EXCEPT ![s] = q]
             \/ req' = req,
             \/ \E n : count' = [count EXCEPT ![s] = n]
             \/ count' = count
      PROVE  pc[r] = "commit" /\ req'[r] = req[r] /\ count'[r] = count[r]
  <2>1. s # r
    BY <1>2 DEF Registry, Sessions
  <2> QED BY <1>2, <2>1 DEF Registry, Sessions
<1>3. ASSUME NEW s \in Requests, End(s)
      PROVE  pc[r] = "commit" /\ req'[r] = req[r] /\ count'[r] = count[r]
  BY <1>2, <1>3 DEF End, Go
<1>4. ASSUME NEW s \in Requests, Go(s, "done"), UNCHANGED <<req, count>>
      PROVE  pc[r] = "commit" /\ req'[r] = req[r] /\ count'[r] = count[r]
  BY <1>2, <1>4 DEF Go
<1>5. ASSUME NEW s \in Requests, NEW t \in Tokens, NEW op, NEW new,
             NEW next \in {"flush", "save"}, Load(s, t, op, new, next)
      PROVE  pc[r] = "commit" /\ req'[r] = req[r] /\ count'[r] = count[r]
  <2>1. pc' = [pc EXCEPT ![s] = next] /\ UNCHANGED count /\ \E q : req' = [req EXCEPT ![s] = q]
    BY <1>5 DEF Load, Go
  <2> QED BY <1>2, <2>1
<1>6. ASSUME NEW s \in Requests, NEW t \in Tokens,
             LoadWinner(s, t) \/ LoadLoser(s, t) \/ FindExisting(s, t) \/ CheckCountry(s)
      PROVE  pc[r] = "commit" /\ req'[r] = req[r] /\ count'[r] = count[r]
  <2>1. /\ \E label \in {"loser", "flush", "country", "save"} : pc' = [pc EXCEPT ![s] = label]
        /\ UNCHANGED count /\ \E q : req' = [req EXCEPT ![s] = q]
    BY <1>6 DEF LoadWinner, LoadLoser, FindExisting, CheckCountry, Go
  <2> QED BY <1>2, <2>1
<1>7. ASSUME NEW s \in Requests, Begin(s)
      PROVE  pc[r] = "commit" /\ req'[r] = req[r] /\ count'[r] = count[r]
  <2>1. ASSUME NEW t \in Tokens, Create(s, t) \/ Import(s, t) \/ CollectionImport(s, t)
                                 \/ Recover(s, t)
        PROVE  Go(s, "done") /\ UNCHANGED <<req, count>>
    BY <2>1 DEF Create, Import, CollectionImport, Insert, Recover
  <2>2. ASSUME NEW S, BulkDelete(s, S) \/ Purge(s, S)
        PROVE  Go(s, "done") /\ UNCHANGED <<req, count>>
    BY <2>2 DEF BulkDelete, Purge
  <2>3. ASSUME NEW t \in Tokens,
               \/ Edit(s, t) \/ ApplyOcr(s, t) \/ Correct(s, t)
               \/ Archive(s, t) \/ Delete(s, t) \/ SaveGenres(s, t) \/ Sync(s, t)
        PROVE  pc[r] = "commit" /\ req'[r] = req[r] /\ count'[r] = count[r]
    BY <1>5, <2>3 DEF Edit, ApplyOcr, Correct, Archive, Delete, SaveGenres, Sync
  <2> QED BY <1>4, <1>6, <1>7, <2>1, <2>2, <2>3 DEF Begin
<1>8. ASSUME NEW s \in Requests, Continue(s) \/ Refuse(s) \/ Fail(s)
      PROVE  \/ Count(r)
             \/ pc[r] = "commit" /\ req'[r] = req[r] /\ count'[r] = count[r]
  <2>1. CASE Flush(s)
    <3>1. pc' = [pc EXCEPT ![s] = "count"] /\ UNCHANGED <<req, count>>
      BY <2>1 DEF Flush, Go
    <3> QED BY <1>2, <3>1
  <2>2. CASE Count(s)
    BY <2>2 DEF Count, Go, Registry, Sessions
  <2>3. CASE Refuse(s) \/ Fail(s) \/ Commit(s) \/ Conflict(s) \/ Save(s) \/ Vanish(s)
    BY <1>3, <2>3 DEF Refuse, Fail, Commit, Conflict, Save, Vanish
  <2>4. CASE (\E t \in Tokens : LoadLoser(s, t)) \/ CheckCountry(s)
    <3>1. CASE \E t \in Tokens : LoadLoser(s, t)
      BY <1>6, <3>1
    <3>2. CASE CheckCountry(s)
      <4>1. req[s].row \in Tokens
        BY <3>2 DEF CheckCountry, Registry, Sessions, SessionOf
      <4> QED BY <1>6, <3>2, <4>1
    <3> QED BY <2>4, <3>1, <3>2
  <2> QED BY <1>8, <2>1, <2>2, <2>3, <2>4 DEF Continue
<1> QED BY <1>1, <1>7, <1>8 DEF Next, Finished

\* Two requests that have both flushed changes have flushed them to different rows.
LEMMA WritersDiffer ==
  ASSUME Registry, NEW r \in Requests, NEW s \in Requests, r # s,
         pc[r] = "commit", pc[s] = "commit",
         DOMAIN req[r].update # {}, DOMAIN req[s].update # {}
  PROVE  req[r].row # req[s].row
  BY DEF Registry, Locks, Held

LEMMA StepUnlost == Registry /\ Numbering /\ NothingLost /\ [Next]_vars => NothingLost'
<1> SUFFICES ASSUME Registry, Numbering, NothingLost, [Next]_vars,
                    NEW r \in Requests, pc'[r] = "commit"
             PROVE  Unlost(r)'
  BY DEF NothingLost, Unlost
<1>1. CASE Count(r)
  <2>1. /\ pc[r] = "count" /\ req' = req /\ revisions' = revisions
        /\ count'[r] = Cardinality(revisions[req[r].log])
    BY <1>1 DEF Count, Registry, Sessions
  <2>2. req[r].log \in Tokens
    BY <2>1 DEF Registry, Sessions, SessionOf
  <2>3. /\ Cardinality(revisions[req[r].log]) \in Nat
        /\ \A rev \in revisions[req[r].log] :
             rev.number \in 1 .. Cardinality(revisions[req[r].log])
    BY <2>2, FS_CardinalityType DEF Numbering, Numbered, Numbers
  <2>4. \A rev \in revisions'[req'[r].log] : ~ (rev.number > count'[r])
    BY <2>1, <2>3
  <2> QED BY <2>4 DEF Unlost
<1>2. CASE pc[r] = "commit" /\ req'[r] = req[r] /\ count'[r] = count[r]
  <2> SUFFICES ASSUME DOMAIN req[r].update # {}, req[r].row = req[r].log,
                      NEW rev \in revisions'[req[r].log], rev.number > count[r]
               PROVE  ~ rev.wrote
    BY <1>2 DEF Unlost
  <2>1. req[r].log \in Tokens /\ lock[req[r].log] = r /\ Exists(req[r].log)
    BY <1>2 DEF Registry, Sessions, SessionOf, Locks, Held
  <2>2. rev \in revisions[req[r].log] => ~ rev.wrote
    BY <1>2 DEF NothingLost, Unlost
  <2>3. CASE UNCHANGED <<rows, life, revisions>>
    BY <2>2, <2>3
  <2>4. ASSUME NEW s \in Requests, NEW u \in Tokens, Inserts(s, u) PROVE ~ rev.wrote
    BY <2>1, <2>2, <2>4, InsertEffect DEF Exists
  <2>5. ASSUME NEW s \in Requests, Commit(s) PROVE ~ rev.wrote
    <3>1. /\ pc[s] = "commit" /\ End(s)
          /\ revisions'[req[s].log] = revisions[req[s].log] \cup {NewRevision(s)}
          /\ \A t \in Tokens : t # req[s].log => revisions'[t] = revisions[t]
      BY <2>5, CommitEffect
    <3>2. s # r
      BY <1>2, <3>1 DEF End, Go, Registry, Sessions
    <3>3. CASE rev = NewRevision(s) /\ req[s].log = req[r].log
      <4>1. req[s].row # req[r].row \/ DOMAIN req[s].update = {}
        BY <1>2, <3>1, <3>2, WritersDiffer
      <4> QED BY <3>3, <4>1, NewRevisionFields DEF Clean
    <3> QED BY <2>1, <2>2, <3>1, <3>3
  <2>6. ASSUME NEW s \in Requests,
               \/ Save(s)
               \/ \E u \in Tokens : Recover(s, u)
               \/ \E S \in SUBSET Tokens : BulkDelete(s, S)
        PROVE  ~ rev.wrote
    BY <2>1, <2>2, <2>6, SaveEffect, HousekeepingEffect
  <2>7. ASSUME NEW s \in Requests, NEW S \in SUBSET Tokens, Purge(s, S) PROVE ~ rev.wrote
    BY <2>1, <2>2, <2>7 DEF Purge
  <2> QED BY <2>3, <2>4, <2>5, <2>6, <2>7, StepKinds
<1> QED BY <1>1, <1>2, CommittersStay

\* For any number of concurrent handlers: a request that loses the race for a revision
\* number, and with it what it wanted to change, lost it to one that did not change the
\* row (catalogue.py:2787-2793).
THEOREM WritersDoNotConflict == Spec => WritersNeverConflict
<1>1. Init => NothingLost
  BY DEF Init, NothingLost, Unlost
<1>2. Registry /\ Numbering /\ NothingLost /\ [Next]_vars => NothingLost'
  BY StepUnlost
<1>3. Registry /\ NothingLost /\ [Next]_vars =>
        [\A r \in Requests :
           /\ Conflict(r)
           /\ ~ Clean(r) /\ req[r].row = req[r].log
           => \A rev \in revisions[req[r].log] : rev.number = count[r] + 1 => ~ rev.wrote]_vars
  BY DEF Conflict, Clean, NothingLost, Unlost, Registry, Sessions
<1> QED BY <1>1, <1>2, <1>3, AlwaysRegistry, AlwaysNumbering, PTL
        DEF Spec, WritersNeverConflict

-----------------------------------------------------------------------------
(***************************************************************************)
(* The row and its log.                                                    *)
(***************************************************************************)

\* A number names one revision of a token.
Distinct == \A t \in Tokens : \A a, b \in revisions[t] : a.number = b.number => a = b

LEMMA StepDistinct == Registry /\ Numbering /\ Distinct /\ [Next]_vars => Distinct'
<1> SUFFICES ASSUME Registry, Numbering, Distinct, [Next]_vars, NEW t \in Tokens,
                    NEW a \in revisions'[t], NEW b \in revisions'[t], a.number = b.number
             PROVE  a = b
  BY DEF Distinct
<1>1. a \in revisions[t] /\ b \in revisions[t] => a = b
  BY DEF Distinct
<1>2. CASE UNCHANGED <<rows, life, revisions>>
  BY <1>1, <1>2
<1>3. ASSUME NEW r \in Requests, NEW u \in Tokens, Inserts(r, u) PROVE a = b
  <2>1. CASE t = u
    <3>1. revisions'[t] = {} \/ \E x : revisions'[t] = {x}
      BY <1>3, <2>1, InsertEffect
    <3> QED BY <3>1
  <2>2. CASE t # u
    BY ZenonT(60), <1>1, <1>3, <2>2, InsertEffect
  <2> QED BY <2>1, <2>2
<1>4. ASSUME NEW r \in Requests, Commit(r) PROVE a = b
  <2>1. /\ ~ Taken(r)
        /\ revisions'[req[r].log] = revisions[req[r].log] \cup {NewRevision(r)}
        /\ \A u \in Tokens : u # req[r].log => revisions'[u] = revisions[u]
    BY <1>4, CommitEffect
  <2>2. \A x \in revisions[req[r].log] : x.number # NewRevision(r).number
    BY <2>1, NewRevisionFields DEF Taken, Numbers
  <2> QED BY <1>1, <2>1, <2>2
<1>5. ASSUME NEW r \in Requests,
             \/ Save(r)
             \/ \E u \in Tokens : Recover(r, u)
             \/ \E S \in SUBSET Tokens : BulkDelete(r, S)
      PROVE  a = b
  BY <1>1, <1>5, SaveEffect, HousekeepingEffect
<1>6. ASSUME NEW r \in Requests, NEW S \in SUBSET Tokens, Purge(r, S) PROVE a = b
  BY <1>1, <1>6 DEF Purge
<1> QED BY <1>2, <1>3, <1>4, <1>5, <1>6, StepKinds

LEMMA AlwaysDistinct == Spec => []Distinct
<1>1. Init => Distinct
  BY DEF Init, Distinct
<1>2. Registry /\ Numbering /\ Distinct /\ [Next]_vars => Distinct'
  BY StepDistinct
<1> QED BY <1>1, <1>2, AlwaysRegistry, AlwaysNumbering, PTL DEF Spec

\* rev is the newest of revs that changed the column c.
Tops(rev, revs, c) ==
    /\ rev \in revs /\ c \in rev.changed
    /\ \A other \in revs : c \in other.changed => other.number <= rev.number

Replayed(t, c) == Exists(t) => \E rev : Tops(rev, revisions[t], c) /\ rows[t][c] = rev.data[c]
Replaying == \A t \in Tokens : \A c \in Logged : Replayed(t, c)

\* A commit's revision says of every logged column what the row holds, and is newer than
\* all others.
LEMMA CommitReplays ==
  ASSUME OnlyAuthors, Registry, Numbering, Replaying, NEW r \in Requests, Commit(r),
         NEW t \in Tokens, NEW c \in Logged
  PROVE  Replayed(t, c)'
<1> SUFFICES ASSUME Exists(t)'
             PROVE  \E rev : Tops(rev, revisions'[t], c) /\ rows'[t][c] = rev.data[c]
  BY DEF Replayed
<1>1. /\ pc[r] = "commit" /\ Exists(req[r].log) /\ ~ Taken(r)
      /\ SessionOf("commit", req[r]) /\ req[r].log \in Tokens
      /\ Clean(r) \/ Exists(req[r].row)
      /\ rows' = Written(r) /\ life' = life
      /\ revisions'[req[r].log] = revisions[req[r].log] \cup {NewRevision(r)}
      /\ \A u \in Tokens : u # req[r].log => revisions'[u] = revisions[u]
  BY CommitEffect
<1>2. \/ rows'[t] = rows[t] /\ (DOMAIN req[r].update = {} \/ t # req[r].row)
      \/ t = req[r].row /\ rows'[t] = Updated(rows[t], req[r].update)
  BY <1>1, WrittenRows DEF Written, Clean, Registry, Stored
<1>3. PICK old : Tops(old, revisions[t], c) /\ rows[t][c] = old.data[c]
  BY <1>1 DEF Replaying, Replayed, Exists
<1>4. CASE t = req[r].row /\ c \in DOMAIN req[r].update
  <2>1. req[r].row = req[r].log /\ req[r].update[c] = req[r].data[c]
    BY <1>1, <1>4 DEF SessionOf
  <2>2. rows'[t][c] = req[r].data[c]
    BY <1>2, <1>4, <2>1 DEF Updated, Columns, Logged
  <2>3. NewRevision(r).data = req[r].data /\ c \in NewRevision(r).changed
    BY <1>4, NewRevisionFields
  <2>4. \A other \in revisions[t] : other.number <= NewRevision(r).number
    <3>1. /\ Cardinality(revisions[t]) \in Nat
          /\ count[r] = Cardinality(revisions[t])
      BY <1>1, <1>4, <2>1, FreeNumberIsNext
    <3>2. \A other \in revisions[t] : other.number \in 1 .. Cardinality(revisions[t])
      BY <1>1 DEF Numbering, Numbered, Numbers
    <3>3. NewRevision(r).number = Cardinality(revisions[t]) + 1
      BY <3>1, NewRevisionFields
    <3> QED BY <3>1, <3>2, <3>3
  <2>5. NewRevision(r).number <= NewRevision(r).number
    <3>1. count[r] \in Nat
      BY DEF Registry, Sessions
    <3> QED BY <3>1, NewRevisionFields
  <2>6. Tops(NewRevision(r), revisions'[t], c)
    BY <1>1, <1>4, <2>1, <2>3, <2>4, <2>5 DEF Tops
  <2> QED BY <2>2, <2>3, <2>6
<1>5. CASE ~ (t = req[r].row /\ c \in DOMAIN req[r].update)
  <2>1. rows'[t][c] = rows[t][c]
    BY <1>2, <1>5 DEF Updated, Columns, Logged
  <2>2. t = req[r].log => c \notin NewRevision(r).changed
    BY <1>1, <1>5, NewRevisionFields DEF SessionOf
  <2>3. Tops(old, revisions'[t], c)
    BY <1>1, <1>3, <2>2 DEF Tops
  <2> QED BY <1>3, <2>1, <2>3
<1> QED BY <1>4, <1>5

LEMMA StepReplaying ==
  ASSUME OnlyAuthors
  PROVE  Registry /\ Numbering /\ Replaying /\ [Next]_vars => Replaying'
<1> SUFFICES ASSUME Registry, Numbering, Replaying, [Next]_vars,
                    NEW t \in Tokens, NEW c \in Logged
             PROVE  Replayed(t, c)'
  BY DEF Replaying
<1>1. Replayed(t, c)
  BY DEF Replaying
<1>2. CASE UNCHANGED <<rows, life, revisions>>
  BY <1>1, <1>2 DEF Replayed, Exists
<1>3. ASSUME NEW r \in Requests, NEW u \in Tokens, Inserts(r, u) PROVE Replayed(t, c)'
  <2>1. CASE t = u
    <3>1. PICK source :
            revisions'[t] = {Revision(1, source, RevisionData(rows'[t]), Logged, Null, TRUE)}
      BY <1>3, <2>1, InsertEffect
    <3> DEFINE rev == Revision(1, source, RevisionData(rows'[t]), Logged, Null, TRUE)
    <3>2. /\ revisions'[t] = {rev} /\ rev.number = 1 /\ rev.changed = Logged
          /\ rev.data = RevisionData(rows'[t])
      BY <3>1 DEF Revision
    <3> HIDE DEF rev
    <3>3. rows'[t] \in Row
      BY <1>3, <2>1, InsertEffect
    <3>4. rows'[t][c] = rev.data[c]
      BY <3>2, <3>3, DataIsTyped
    <3>5. Tops(rev, revisions'[t], c)
      BY <3>2 DEF Tops
    <3> QED BY <3>4, <3>5 DEF Replayed
  <2>2. CASE t # u
    <3>1. life'[t] = life[t] /\ rows'[t] = rows[t] /\ revisions'[t] = revisions[t]
      BY <1>3, <2>2, InsertEffect
    <3> QED BY <1>1, <3>1 DEF Replayed, Exists
  <2> QED BY <2>1, <2>2
<1>4. ASSUME NEW r \in Requests, Commit(r) PROVE Replayed(t, c)'
  BY <1>4, CommitReplays
<1>5. ASSUME NEW r \in Requests,
             \/ Save(r)
             \/ \E u \in Tokens : Recover(r, u)
             \/ \E S \in SUBSET Tokens : BulkDelete(r, S)
      PROVE  Replayed(t, c)'
  <2>1. UNCHANGED <<life, revisions>> /\ rows'[t][c] = rows[t][c]
    BY <1>5, SaveEffect, HousekeepingEffect
  <2> QED BY <1>1, <2>1 DEF Replayed, Exists
<1>6. ASSUME NEW r \in Requests, NEW S \in SUBSET Tokens, Purge(r, S) PROVE Replayed(t, c)'
  <2>1. \/ life'[t] = "purged"
        \/ life'[t] = life[t] /\ rows'[t] = rows[t] /\ revisions'[t] = revisions[t]
    BY <1>6 DEF Purge
  <2> QED BY <1>1, <2>1 DEF Replayed, Exists
<1> QED BY <1>2, <1>3, <1>4, <1>5, <1>6, StepKinds

\* Newest picks the revision that tops the others.
LEMMA NewestTops ==
  ASSUME NEW t \in Tokens, NEW c, NEW rev, Tops(rev, revisions[t], c),
         \A x \in revisions[t] : x.number \in Nat,
         \A a, b \in revisions[t] : a.number = b.number => a = b
  PROVE  Newest({x \in revisions[t] : c \in x.changed}) = rev
<1> DEFINE revs == {x \in revisions[t] : c \in x.changed}
           n == Newest(revs)
<1>1. rev \in revs /\ \A other \in revs : other.number <= rev.number
  BY DEF Tops
<1>2. n \in revs /\ \A other \in revs : other.number <= n.number
  BY <1>1 DEF Newest
<1>3. n.number \in Nat /\ rev.number \in Nat
  BY <1>1, <1>2
<1>4. n.number <= rev.number /\ rev.number <= n.number
  BY <1>1, <1>2
<1>5. n.number = rev.number
  BY <1>3, <1>4
<1> QED BY <1>1, <1>2, <1>5

\* Where only the handlers that write revisions change the logged columns: whatever their
\* interleaving, however stale the row they read, and whoever fails, each logged column of
\* each row holds what the newest revision that changed it says.
THEOREM RowsReplayTheirLogs ==
  ASSUME OnlyAuthors
  PROVE  Spec => []RowReplaysLog
<1>1. Init => Replaying
  BY DEF Init, Replaying, Replayed, Exists
<1>2. Registry /\ Numbering /\ Replaying /\ [Next]_vars => Replaying'
  BY StepReplaying
<1>3. Registry /\ Distinct /\ Replaying => RowReplaysLog
  <2> SUFFICES ASSUME Registry, Distinct, Replaying, NEW t \in Tokens, Exists(t),
                      NEW c \in Logged
               PROVE  rows[t][c] = Newest({rev \in revisions[t] : c \in rev.changed}).data[c]
    BY DEF RowReplaysLog
  <2>1. PICK rev : Tops(rev, revisions[t], c) /\ rows[t][c] = rev.data[c]
    BY DEF Replaying, Replayed
  <2>2. Newest({x \in revisions[t] : c \in x.changed}) = rev
    BY <2>1, NewestTops DEF Registry, Stored, Distinct
  <2> QED BY <2>1, <2>2
<1> QED BY <1>1, <1>2, <1>3, AlwaysRegistry, AlwaysNumbering, AlwaysDistinct, PTL DEF Spec

-----------------------------------------------------------------------------
(***************************************************************************)
(* The registry implements the append-only log of RevisionLog.             *)
(***************************************************************************)

EntryOf(rev) == [source |-> rev.source, data |-> rev.data]

\* The log that a set of revisions is.
LogOf(revs) == [n \in 1 .. Cardinality(revs) |->
                  [source |-> (CHOOSE rev \in revs : rev.number = n).source,
                   data |-> (CHOOSE rev \in revs : rev.number = n).data]]

\* Functions on an interval from 1 are sequences.
LEMMA FunctionIsSeq ==
  ASSUME NEW n \in Nat, NEW S, NEW f \in [1 .. n -> S]
  PROVE  f \in Seq(S) /\ Len(f) = n
  OBVIOUS

\* A function on one index more that agrees is the sequence with an element appended.
LEMMA AppendIs ==
  ASSUME NEW n \in Nat, NEW S, NEW f \in [1 .. n -> S], NEW e \in S,
         NEW g \in [1 .. n + 1 -> S], \A i \in 1 .. n : g[i] = f[i], g[n+1] = e
  PROVE  g = Append(f, e)
<1>1. f \in Seq(S) /\ Len(f) = n
  BY FunctionIsSeq
<1>2. Append(f, e) \in Seq(S) /\ Len(Append(f,e)) = n + 1
  BY <1>1
<1>4. \A i \in 1 .. n+1 : Append(f,e)[i] = IF i = n+1 THEN e ELSE f[i]
  BY <1>1
<1>3. Append(f, e) \in [1 .. n + 1 -> S]
  BY <1>2, LenProperties
<1> QED BY <1>4, <1>3

LEMMA ChosenByNumber ==
  ASSUME NEW revs, NEW rev \in revs,
         \A a, b \in revs : a.number = b.number => a = b
  PROVE  (CHOOSE x \in revs : x.number = rev.number) = rev
  OBVIOUS

\* A set of revisions numbered 1 .. n with one numbered n + 1 added is a log with one
\* entry appended.
LEMMA LogGrows ==
  ASSUME NEW S, NEW revs, IsFiniteSet(revs), NEW rev,
         {x.number : x \in revs} = 1 .. Cardinality(revs),
         rev.number = Cardinality(revs) + 1,
         \A a, b \in revs : a.number = b.number => a = b,
         \A x \in revs \cup {rev} : EntryOf(x) \in S
  PROVE  LogOf(revs \cup {rev}) = Append(LogOf(revs), EntryOf(rev))
<1> DEFINE n == Cardinality(revs)
           all == revs \cup {rev}
<1>1. n \in Nat
  BY FS_CardinalityType
<1>2. rev \notin revs
  <2>1. n + 1 \notin {x.number : x \in revs}
    BY <1>1
  <2> QED BY <2>1
<1>3. Cardinality(all) = n + 1
  BY <1>2, FS_AddElement
<1>4. ASSUME NEW x \in revs PROVE x.number \in 1 .. n
  OBVIOUS
<1>5. \A a, b \in all : a.number = b.number => a = b
  <2>1. \A x \in revs : x.number # rev.number
    BY <1>1, <1>4
  <2> QED BY <2>1
<1>6. ASSUME NEW i \in 1 .. n
      PROVE  /\ LogOf(revs)[i] \in S
             /\ LogOf(all)[i] = LogOf(revs)[i]
  <2>1. PICK x \in revs : x.number = i
    OBVIOUS
  <2>2. (CHOOSE y \in revs : y.number = i) = x /\ (CHOOSE y \in all : y.number = i) = x
    BY <1>5, <2>1
  <2>3. LogOf(revs)[i] = EntryOf(x) /\ LogOf(all)[i] = EntryOf(x)
    BY <1>1, <1>3, <2>2 DEF LogOf, EntryOf
  <2> QED BY <2>3
<1>7. LogOf(all)[n + 1] = EntryOf(rev)
  <2>1. (CHOOSE y \in all : y.number = n + 1) = rev
    BY <1>5
  <2> QED BY <1>1, <1>3, <2>1 DEF LogOf, EntryOf
<1>8. LogOf(revs) \in [1 .. n -> S]
  BY <1>6 DEF LogOf
<1>9. LogOf(all) \in [1 .. n + 1 -> S]
  <2>1. \A i \in 1 .. n + 1 : LogOf(all)[i] \in S
    <3> SUFFICES ASSUME NEW i \in 1 .. n + 1 PROVE LogOf(all)[i] \in S
      OBVIOUS
    <3>1. i \in 1 .. n \/ i = n + 1
      BY <1>1
    <3>2. EntryOf(rev) \in S
      OBVIOUS
    <3> HIDE DEF n, all
    <3>3. LogOf(all)[i] \in S
      BY <1>6, <1>7, <3>1, <3>2
    <3> QED BY <3>3
  <2> QED BY <1>3, <2>1 DEF LogOf
<1> HIDE DEF n, all
<1>10. EntryOf(rev) \in S
  OBVIOUS
<1>11. LogOf(all) = Append(LogOf(revs), EntryOf(rev))
  BY <1>1, <1>6, <1>7, <1>8, <1>9, <1>10, AppendIs
<1> QED BY <1>11 DEF all

LogEntries == [source : {"human", "vision", "import"}, data : [Logged -> Values \cup {Null}]]
Logs == [t \in Tokens |-> LogOf(revisions[t])]
Gone == {t \in Tokens : life[t] = "purged"}

LEMMA EmptyLog == LogOf({}) = << >>
<1>1. Cardinality({}) = 0 /\ 1 .. 0 = {}
  BY FS_EmptySet
<1> QED BY <1>1 DEF LogOf

\* The instance of the abstract specification, with its parameters spelled out.
LEMMA HistoryIs ==
  /\ History!Init <=> Logs = [t \in Tokens |-> << >>] /\ Gone = {}
  /\ \A t \in Tokens : \A entry \in LogEntries :
       /\ t \notin Gone
       /\ Logs' = [Logs EXCEPT ![t] = Append(@, entry)]
       /\ Gone' = Gone
       => History!Next
  /\ \A S \in SUBSET Tokens :
       /\ Gone' = Gone \cup S
       /\ Logs' = [t \in Tokens |-> IF t \in S THEN << >> ELSE Logs[t]]
       => History!Next
  /\ Logs' = Logs /\ Gone' = Gone => UNCHANGED History!vars
<1>1. History!Init <=> Logs = [t \in Tokens |-> << >>] /\ Gone = {}
  BY DEF History!Init, Logs, Gone, LogOf, RevisionNumbered
<1>2. ASSUME NEW t \in Tokens, NEW entry \in LogEntries,
             t \notin Gone, Logs' = [Logs EXCEPT ![t] = Append(@, entry)], Gone' = Gone
      PROVE  History!Next
  <2>1. History!Revise(t, entry)
    BY <1>2 DEF History!Revise, Logs, Gone, LogOf, RevisionNumbered
  <2> QED BY <2>1 DEF History!Next, LogEntries
<1>3. ASSUME NEW S \in SUBSET Tokens, Gone' = Gone \cup S,
             Logs' = [t \in Tokens |-> IF t \in S THEN << >> ELSE Logs[t]]
      PROVE  History!Next
  <2>1. History!Purge(S)
    BY <1>3 DEF History!Purge, Logs, Gone, LogOf, RevisionNumbered
  <2> QED BY <2>1 DEF History!Next
<1>4. Logs' = Logs /\ Gone' = Gone => UNCHANGED History!vars
  BY DEF History!vars, Logs, Gone, LogOf, RevisionNumbered
<1> QED BY <1>1, <1>2, <1>3, <1>4

\* The log of a new token is empty or has one entry.
LEMMA InsertRefines ==
  ASSUME Registry, Registry', Numbering, NEW r \in Requests, NEW t \in Tokens, Inserts(r, t)
  PROVE  History!Next \/ UNCHANGED History!vars
<1>1. /\ life[t] = "unused" /\ revisions[t] = {}
      /\ life'[t] = "stored" /\ rows'[t] \in Row
      /\ \A u \in Tokens \ {t} : life'[u] = life[u] /\ revisions'[u] = revisions[u]
  BY InsertEffect
<1>2. Gone' = Gone
  BY <1>1 DEF Gone
<1>3. CASE revisions'[t] = {}
  <2>1. Logs' = Logs
    BY <1>1, <1>3 DEF Logs
  <2> QED BY <1>2, <2>1, HistoryIs
<1>4. ASSUME NEW source \in {"human", "import"},
             revisions'[t] = {Revision(1, source, RevisionData(rows'[t]), Logged, Null, TRUE)}
      PROVE  History!Next
  <2> DEFINE rev == Revision(1, source, RevisionData(rows'[t]), Logged, Null, TRUE)
  <2>1. rev.number = 1 /\ rev.source = source /\ rev.data = RevisionData(rows'[t])
    BY DEF Revision
  <2>2. revisions'[t] = {} \cup {rev}
    BY <1>4
  <2> HIDE DEF rev
  <2>3. EntryOf(rev) \in LogEntries
    BY <1>1, <2>1, DataIsTyped DEF EntryOf, LogEntries
  <2>4. LogOf({} \cup {rev}) = Append(LogOf({}), EntryOf(rev))
    <3>1. IsFiniteSet({}) /\ Cardinality({}) = 0
      BY FS_EmptySet
    <3>2. {x.number : x \in {}} = 1 .. Cardinality({})
      BY <3>1
    <3>3. rev.number = Cardinality({}) + 1
      BY <2>1, <3>1
    <3>4. \A x \in {} \cup {rev} : EntryOf(x) \in LogEntries
      BY <2>3
    <3> QED BY <3>1, <3>2, <3>3, <3>4, LogGrows, Zenon
  <2>5. Logs' = [Logs EXCEPT ![t] = Append(@, EntryOf(rev))]
    BY <1>1, <2>2, <2>4 DEF Logs
  <2>6. t \notin Gone
    BY <1>1 DEF Gone
  <2> QED BY <1>2, <2>3, <2>5, <2>6, HistoryIs
<1>5. \/ revisions'[t] = {}
      \/ \E source \in {"human", "import"} :
           revisions'[t] = {Revision(1, source, RevisionData(rows'[t]), Logged, Null, TRUE)}
  BY InsertEffect
<1> QED BY <1>3, <1>4, <1>5

\* A commit appends to one log.
LEMMA CommitRefines ==
  ASSUME Registry, Registry', Numbering, Distinct, NEW r \in Requests, Commit(r)
  PROVE  History!Next
<1> DEFINE t == req[r].log
           rev == NewRevision(r)
<1>1. /\ pc[r] = "commit" /\ Exists(t) /\ ~ Taken(r) /\ t \in Tokens /\ life' = life
      /\ revisions'[t] = revisions[t] \cup {rev}
      /\ \A u \in Tokens : u # t => revisions'[u] = revisions[u]
  BY CommitEffect
<1>2. Gone' = Gone /\ t \notin Gone
  BY <1>1 DEF Gone, Exists
<1>3. IsFiniteSet(revisions[t]) /\ {x.number : x \in revisions[t]} = 1 .. Cardinality(revisions[t])
  BY <1>1 DEF Numbering, Numbered, Numbers
<1>4. rev.number = Cardinality(revisions[t]) + 1
  BY <1>1, FreeNumberIsNext, NewRevisionFields
<1>5. \A x \in revisions'[t] : EntryOf(x) \in LogEntries
  <2>1. \A x \in revisions'[t] : /\ x.source \in {"human", "vision", "import"}
                                 /\ x.data \in [Logged -> Values \cup {Null}]
    BY <1>1 DEF Registry, Stored
  <2> QED BY <2>1 DEF EntryOf, LogEntries
<1>6. \A a, b \in revisions[t] : a.number = b.number => a = b
  BY <1>1 DEF Distinct
<1>7. PICK u, new : u = t /\ new = rev
  OBVIOUS
<1> HIDE DEF t, rev
<1>8. LogOf(revisions[u] \cup {new}) = Append(LogOf(revisions[u]), EntryOf(new))
  <2>1. IsFiniteSet(revisions[u])
        /\ {x.number : x \in revisions[u]} = 1 .. Cardinality(revisions[u])
    BY <1>3, <1>7
  <2>2. new.number = Cardinality(revisions[u]) + 1
    BY <1>4, <1>7
  <2>3. \A x \in revisions[u] \cup {new} : EntryOf(x) \in LogEntries
    BY <1>1, <1>5, <1>7
  <2>4. \A a, b \in revisions[u] : a.number = b.number => a = b
    BY <1>6, <1>7
  <2> QED BY <2>1, <2>2, <2>3, <2>4, LogGrows, ZenonT(40)
<1>9. Logs' = [Logs EXCEPT ![u] = Append(@, EntryOf(new))]
  BY <1>1, <1>7, <1>8 DEF Logs
<1>10. EntryOf(new) \in LogEntries /\ u \in Tokens /\ u \notin Gone
  BY <1>1, <1>2, <1>5, <1>7
<1> QED BY <1>2, <1>9, <1>10, HistoryIs

LEMMA PurgeRefines ==
  ASSUME Numbering, NEW r \in Requests, NEW S \in SUBSET Tokens, Purge(r, S)
  PROVE  History!Next
<1>1. /\ life' = [t \in Tokens |-> IF t \in S THEN "purged" ELSE life[t]]
      /\ revisions' = [t \in Tokens |-> IF t \in S THEN {} ELSE revisions[t]]
  BY DEF Purge
<1>2. Gone' = Gone \cup S
  BY <1>1 DEF Gone
<1>3. Logs' = [t \in Tokens |-> IF t \in S THEN << >> ELSE Logs[t]]
  BY <1>1, EmptyLog DEF Logs
<1> QED BY <1>2, <1>3, HistoryIs

LEMMA StepRefines ==
  Registry /\ Registry' /\ Numbering /\ Distinct /\ [Next]_vars
  => [History!Next]_(History!vars)
<1> SUFFICES ASSUME Registry, Registry', Numbering, Distinct, [Next]_vars
             PROVE  History!Next \/ UNCHANGED History!vars
  OBVIOUS
<1>1. ASSUME UNCHANGED <<life, revisions>> PROVE UNCHANGED History!vars
  BY <1>1, HistoryIs DEF Logs, Gone
<1>2. ASSUME NEW r \in Requests,
             \/ Save(r)
             \/ \E u \in Tokens : Recover(r, u)
             \/ \E S \in SUBSET Tokens : BulkDelete(r, S)
      PROVE  UNCHANGED History!vars
  BY <1>1, <1>2 DEF Save, Recover, BulkDelete
<1> QED
  BY <1>1, <1>2, InsertRefines, CommitRefines, PurgeRefines, StepKinds

\* The registry keeps the promise of an append-only history (db/models.py:414-419) for any
\* number of tokens and of concurrent handlers: a committed revision keeps its place and
\* its contents until its token is purged, and a purged token gets no revision.
THEOREM RegistryImplementsRevisionLog == Spec => HistoryIsAppendOnly
<1>1. Init => History!Init
  <2> SUFFICES ASSUME Init PROVE Logs = [t \in Tokens |-> << >>] /\ Gone = {}
    BY HistoryIs
  <2> QED BY EmptyLog DEF Init, Logs, Gone
<1>2. Registry /\ Registry' /\ Numbering /\ Distinct /\ [Next]_vars
      => [History!Next]_(History!vars)
  BY StepRefines
<1> QED BY <1>1, <1>2, AlwaysRegistry, AlwaysNumbering, AlwaysDistinct, PTL
        DEF Spec, HistoryIsAppendOnly, History!Spec
=============================================================================
