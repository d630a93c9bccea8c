---------------------------- MODULE UsersProofs ----------------------------
(***************************************************************************)
(* Two theorems, for any number of accounts and of requests: an active     *)
(* administrator remains (AnAdminRemains, from the invariant Guarded), and *)
(* the store follows the rows (TheMirrorFollows, from Guarded and          *)
(* Following).                                                             *)
(***************************************************************************)
EXTENDS Users, FiniteSetTheorems, TLAPS

LEMMA TwoMembers ==
  ASSUME NEW S, IsFiniteSet(S), ~ (Cardinality(S) <= 1)
  PROVE  \E a, b \in S : a # b
<1> SUFFICES ASSUME \A a, b \in S : a = b PROVE FALSE
  OBVIOUS
<1>1. CASE S = {}
  BY <1>1, FS_EmptySet
<1>2. CASE S # {}
  <2>1. PICK a \in S : TRUE
    BY <1>2
  <2>2. S = {a}
    BY <2>1
  <2> QED BY <2>2, FS_Singleton
<1> QED BY <1>1, <1>2

-----------------------------------------------------------------------------
(* AdminRemains is not inductive: a request that is about to update has    *)
(* made up its mind.  As long as no other one has written since, its       *)
(* update would leave an administrator; for a request that has counted two *)
(* this takes that an id stands for one account only.                      *)

Steady == odd \cap {"raced", "blind"} = {}

After(r) == ChangeIn(r, row, Holders(row, target[r]))

IdsAreDistinct ==
    /\ \A u, v \in Names : row[u] # None /\ row[v] # None /\ row[u].id = row[v].id => u = v
    /\ \A u \in Names, r \in Requests :
          row[u] # None /\ row[u].id = r => pc[r] \notin {"new", "insert"}

Typed ==
    /\ row \in [Names -> Account \cup {None}]
    /\ pc \in [Requests -> {"new", "insert", "mirror new", "load", "count", "update", "mirror",
                            "done"}]
    /\ name \in [Requests -> Names \cup {None}]
    /\ \A r \in Requests : pc[r] = "insert" => name[r] \in Names
    /\ role \in [Requests -> Roles]
    /\ active \in [Requests -> BOOLEAN]
    /\ kind \in [Requests -> {"register", "create", "admin create", "edit", "deactivate",
                              "activate", None}]
    /\ target \in [Requests -> Ids \cup {None}]

Guarded ==
    /\ Typed
    /\ IdsAreDistinct
    /\ AdminRemains
    /\ \A r \in Requests : Steady /\ r \notin behind /\ pc[r] = "update"
                              => ActiveAdmins(After(r)) # {}

LEMMA InitGuarded == Init => Guarded
<1> SUFFICES ASSUME Init PROVE Guarded
  OBVIOUS
<1>1. Typed
  BY UsersAssumption DEF Init, Typed, Account, Roles, Ids
<1>2. \A u \in Names : row[u] # None => u \in Admins /\ row[u].id = u /\ row[u].role = "admin"
                                        /\ row[u].active
  BY DEF Init
<1>3. IdsAreDistinct
  BY <1>2, UsersAssumption DEF IdsAreDistinct, Init
<1>4. PICK u \in Admins : TRUE
  BY UsersAssumption
<1>5. [id |-> u, role |-> "admin", active |-> TRUE] \in Account
  BY UsersAssumption DEF Account, Roles, Ids
<1>6. u \in Names /\ row[u] # None
  BY <1>5, UsersAssumption DEF Init
<1>7. AdminRemains
  BY <1>2, <1>6 DEF AdminRemains, ActiveAdmins
<1> QED BY <1>1, <1>3, <1>7 DEF Guarded, Init

\* A step that leaves the rows alone, and lets no request begin to update.
LEMMA QuietStep ==
  ASSUME Guarded, Typed', row' = row, behind \subseteq behind', odd \subseteq odd',
         \A r \in Requests : pc[r] \notin {"new", "insert"} => pc'[r] \notin {"new", "insert"},
         \A r \in Requests : Steady' /\ r \notin behind' /\ pc'[r] = "update"
                               => ActiveAdmins(After(r)') # {}
  PROVE  Guarded'
<1>1. IdsAreDistinct'
  BY DEF Guarded, IdsAreDistinct
<1>2. AdminRemains'
  BY DEF Guarded, AdminRemains, ActiveAdmins
<1>3. \A r \in Requests : Steady' /\ r \notin behind' /\ pc'[r] = "update"
                               => (ActiveAdmins(After(r)) # {})'
  BY DEF ActiveAdmins
<1> QED BY <1>1, <1>2, <1>3 DEF Guarded

LEMMA AfterSame ==
  ASSUME NEW q \in Requests, row' = row, kind'[q] = kind[q], role'[q] = role[q],
         active'[q] = active[q], target'[q] = target[q]
  PROVE  ActiveAdmins(After(q))' = ActiveAdmins(After(q))
  BY DEF After, ChangeIn, Changed, Holders, ActiveAdmins

\* An update that takes the role or the activity from no administrator leaves one.
LEMMA HarmlessUpdate ==
  ASSUME Guarded, Steady, NEW rows,
         \A u \in ActiveAdmins(row) : rows[u] # None /\ rows[u].role = "admin" /\ rows[u].active
  PROVE  ActiveAdmins(rows) # {}
  BY DEF Guarded, AdminRemains, Steady, ActiveAdmins

LEMMA ChangedAccount ==
  ASSUME NEW r \in Requests, NEW account \in Account,
         role[r] \in Roles, active[r] \in BOOLEAN
  PROVE  /\ Changed(r, account) \in Account /\ Changed(r, account) # None
         /\ Changed(r, account).id = account.id
         /\ Changed(r, account).active = active[r]
         /\ Changed(r, account).role = IF kind[r] = "edit" THEN role[r] ELSE account.role
<1>1. Changed(r, account) \in Account
  BY DEF Changed, Account, Roles
<1>2. Changed(r, account) # None
  BY <1>1, UsersAssumption
<1> QED BY <1>1, <1>2 DEF Changed, Account

\* So does one that changes a single account, if there are two administrators.
LEMMA CountedUpdate ==
  ASSUME Guarded, NEW r \in Requests, ~ (Cardinality(ActiveAdmins(row)) <= 1)
  PROVE  ActiveAdmins(After(r)) # {}
<1>1. IsFiniteSet(ActiveAdmins(row))
  BY UsersAssumption, FS_Subset DEF ActiveAdmins
<1>2. PICK a, b \in ActiveAdmins(row) : a # b
  BY <1>1, TwoMembers
<1>3. a \notin Holders(row, target[r]) \/ b \notin Holders(row, target[r])
  BY <1>2 DEF Guarded, IdsAreDistinct, Holders, ActiveAdmins
<1> QED BY <1>2, <1>3 DEF ActiveAdmins, After, ChangeIn

-----------------------------------------------------------------------------
(* The steps that leave the rows alone.                                    *)

LEMMA StepOfOne ==
  ASSUME Guarded, Typed', NEW r \in Requests, row' = row, behind' = behind, odd \subseteq odd',
         \A q \in Requests \ {r} :
            /\ pc'[q] = pc[q] /\ kind'[q] = kind[q] /\ role'[q] = role[q]
            /\ active'[q] = active[q] /\ target'[q] = target[q],
         pc[r] \notin {"new", "insert"} => pc'[r] \notin {"new", "insert"},
         Steady' /\ r \notin behind /\ pc'[r] = "update" => ActiveAdmins(After(r)') # {}
  PROVE  Guarded'
<1>1. Steady' => Steady
  BY DEF Steady
<1>2. ASSUME NEW q \in Requests, Steady', q \notin behind', pc'[q] = "update"
      PROVE  ActiveAdmins(After(q)') # {}
  <2>1. CASE q = r
    BY <1>2, <2>1
  <2>2. CASE q # r
    <3>1. ActiveAdmins(After(q))' = ActiveAdmins(After(q))
      BY <2>2, AfterSame
    <3>2. ActiveAdmins(After(q)) # {}
      BY <1>1, <1>2, <2>2 DEF Guarded
    <3> QED BY <3>1, <3>2 DEF ActiveAdmins
  <2> QED BY <2>1, <2>2
<1> QED BY <1>2, QuietStep

LEMMA StartCreateGuarded ==
  ASSUME Guarded, NEW r \in Requests, NEW k \in {"register", "create", "admin create"},
         NEW u \in Names, NEW newRole \in Roles, StartCreate(r, k, u, newRole)
  PROVE  Guarded'
<1>1. Typed'
  BY DEF Guarded, Typed, StartCreate, Go
<1>2. /\ pc[r] = "new" /\ pc'[r] = "insert" /\ UNCHANGED <<row, behind>> /\ odd \subseteq odd'
      /\ \A q \in Requests \ {r} :
            /\ pc'[q] = pc[q] /\ kind'[q] = kind[q] /\ role'[q] = role[q]
            /\ active'[q] = active[q] /\ target'[q] = target[q]
  BY DEF Guarded, Typed, StartCreate, Go, Note
<1> QED BY <1>1, <1>2, StepOfOne

LEMMA StartChangeGuarded ==
  ASSUME Guarded, NEW r \in Requests, NEW k \in {"edit", "deactivate", "activate"},
         NEW id \in Ids, NEW asListed \in BOOLEAN, NEW newRole \in Roles,
         NEW newActive \in BOOLEAN, StartChange(r, k, id, asListed, newRole, newActive)
  PROVE  Guarded'
<1>1. Typed'
  BY DEF Guarded, Typed, StartChange, Go
<1>2. /\ pc[r] = "new" /\ pc'[r] \in {"load", "update"}
      /\ UNCHANGED <<row, behind, odd>>
      /\ \A q \in Requests \ {r} :
            /\ pc'[q] = pc[q] /\ kind'[q] = kind[q] /\ role'[q] = role[q]
            /\ active'[q] = active[q] /\ target'[q] = target[q]
  BY DEF Guarded, Typed, StartChange, Go
<1>3. ASSUME Steady', pc'[r] = "update" PROVE ActiveAdmins(After(r)') # {}
  <2>1. k = "activate" /\ kind'[r] = "activate" /\ active'[r] = TRUE
    BY <1>3 DEF Guarded, Typed, StartChange, Go
  <2>2. Steady
    BY <1>2, <1>3 DEF Steady
  <2>3. ASSUME NEW u \in ActiveAdmins(row)
        PROVE  After(r)'[u] # None /\ After(r)'[u].role = "admin" /\ After(r)'[u].active
    <3>1. u \in Names /\ row[u] \in Account /\ row[u].role = "admin" /\ row[u].active
      BY <2>3 DEF Guarded, Typed, ActiveAdmins
    <3> DEFINE changed == [row[u] EXCEPT !.active = TRUE]
    <3>2. changed \in Account /\ changed.role = "admin" /\ changed.active
      BY <3>1 DEF Account
    <3>3. After(r)'[u] \in {changed, row[u]}
      BY <1>2, <2>1, <3>1 DEF After, ChangeIn, Changed
    <3> HIDE DEF changed
    <3> QED BY <3>1, <3>2, <3>3, UsersAssumption
  <2> QED BY <2>2, <2>3, HarmlessUpdate
<1> QED BY <1>1, <1>2, <1>3, StepOfOne

LEMMA LoadGuarded == ASSUME Guarded, NEW r \in Requests, Load(r) PROVE Guarded'
<1>1. Typed'
  BY DEF Guarded, Typed, Load, Go, inputs
<1>2. PICK fromRows \in BOOLEAN :
         LET found == IF fromRows /\ Holders(row, target[r]) # {}
                      THEN {row[u].role : u \in Holders(row, target[r])}
                      ELSE {mem[u].role : u \in InStore(r)}
         IN /\ Note(IF fromRows THEN {} ELSE {"blind"})
            /\ Go(r, IF found = {} /\ kind[r] = "edit" THEN "done"
                     ELSE IF \E loaded \in found : LosesAdmin(r, loaded) THEN "count"
                     ELSE "update")
  BY DEF Load
<1>3. /\ pc[r] = "load" /\ UNCHANGED <<row, behind, inputs>> /\ odd \subseteq odd'
      /\ pc'[r] \in {"done", "count", "update"} /\ \A q \in Requests \ {r} : pc'[q] = pc[q]
  BY <1>2 DEF Guarded, Typed, Load, Go, Note
<1>4. ASSUME Steady', pc'[r] = "update" PROVE ActiveAdmins(After(r)') # {}
  <2>1. fromRows /\ Steady
    BY <1>2, <1>4 DEF Steady, Note
  <2>2. \A u \in Holders(row, target[r]) : ~ LosesAdmin(r, row[u].role)
    BY <1>2, <1>4, <2>1 DEF Guarded, Typed, Go
  <2>3. ASSUME NEW u \in ActiveAdmins(row)
        PROVE  After(r)[u] # None /\ After(r)[u].role = "admin" /\ After(r)[u].active
    <3>1. u \in Names /\ row[u] \in Account /\ row[u].role = "admin" /\ row[u].active
      BY <2>3 DEF Guarded, Typed, ActiveAdmins
    <3>2. CASE u \in Holders(row, target[r])
      <4>1. role[r] = "admin" /\ active[r] /\ role[r] \in Roles /\ active[r] \in BOOLEAN
        BY <2>2, <3>1, <3>2 DEF LosesAdmin, Guarded, Typed
      <4>2. After(r)[u] = Changed(r, row[u])
        BY <3>1, <3>2 DEF After, ChangeIn
      <4>3. /\ Changed(r, row[u]) # None /\ Changed(r, row[u]).active = active[r]
            /\ Changed(r, row[u]).role = IF kind[r] = "edit" THEN role[r] ELSE row[u].role
        BY <3>1, <4>1, ChangedAccount
      <4>4. Changed(r, row[u]).role = "admin"
        BY <3>1, <4>1, <4>3
      <4>5. Changed(r, row[u]).active
        BY <4>1, <4>3, Zenon
      <4> QED BY <4>2, <4>3, <4>4, <4>5
    <3>3. CASE u \notin Holders(row, target[r])
      BY <3>1, <3>3, UsersAssumption DEF After, ChangeIn
    <3> QED BY <3>2, <3>3
  <2>4. ActiveAdmins(After(r)) # {}
    BY <2>1, <2>3, HarmlessUpdate
  <2>5. ActiveAdmins(After(r))' = ActiveAdmins(After(r))
    BY <1>3, AfterSame DEF inputs
  <2> QED BY <2>4, <2>5 DEF ActiveAdmins
<1> QED BY <1>1, <1>3, <1>4, StepOfOne DEF inputs

LEMMA CountAdminsGuarded == ASSUME Guarded, NEW r \in Requests, CountAdmins(r) PROVE Guarded'
<1>1. Typed'
  BY DEF Guarded, Typed, CountAdmins, Go, inputs
<1>2. PICK store \in {row, mem} :
         /\ Note(IF store = row THEN {} ELSE {"blind"})
         /\ Go(r, IF Cardinality(ActiveAdmins(store)) <= 1 THEN "done" ELSE "update")
  BY DEF CountAdmins
<1>3. /\ pc[r] = "count" /\ UNCHANGED <<row, behind, inputs>> /\ odd \subseteq odd'
      /\ pc'[r] \in {"done", "update"} /\ \A q \in Requests \ {r} : pc'[q] = pc[q]
  BY <1>2 DEF Guarded, Typed, CountAdmins, Go, Note
<1>4. ASSUME Steady', pc'[r] = "update" PROVE ActiveAdmins(After(r)') # {}
  <2>1. store = row
    BY <1>2, <1>4 DEF Steady, Note
  <2>2. ~ (Cardinality(ActiveAdmins(row)) <= 1)
    BY <1>2, <1>4, <2>1 DEF Guarded, Typed, Go
  <2>3. ActiveAdmins(After(r)) # {}
    BY <2>2, CountedUpdate
  <2>4. ActiveAdmins(After(r))' = ActiveAdmins(After(r))
    BY <1>3, AfterSame DEF inputs
  <2> QED BY <2>3, <2>4 DEF ActiveAdmins
<1> QED BY <1>1, <1>3, <1>4, StepOfOne DEF inputs

LEMMA MirrorsGuarded ==
  ASSUME Guarded, NEW r \in Requests, MirrorNew(r) \/ Mirror(r) PROVE Guarded'
<1>1. Typed'
  BY DEF Guarded, Typed, MirrorNew, Mirror, Go, inputs
<1>2. /\ UNCHANGED <<row, behind, inputs>> /\ odd \subseteq odd'
      /\ pc'[r] = "done" /\ \A q \in Requests \ {r} : pc'[q] = pc[q]
  BY DEF Guarded, Typed, MirrorNew, Mirror, Go, Note
<1> QED BY <1>1, <1>2, StepOfOne DEF inputs

LEMMA RestartGuarded == Guarded /\ Restart => Guarded'
<1> SUFFICES ASSUME Guarded, Restart PROVE Guarded'
  OBVIOUS
<1>1. Typed'
  BY DEF Guarded, Typed, Restart, inputs
<1>2. /\ UNCHANGED <<row, behind, odd>>
      /\ \A q \in Requests : pc'[q] # "update" /\ (pc'[q] \in {"new", "insert"} => pc[q] = "new")
  BY DEF Guarded, Typed, Restart
<1> QED BY <1>1, <1>2, QuietStep

-----------------------------------------------------------------------------
(* The steps that may write rows.                                          *)

LEMMA InsertGuarded == ASSUME Guarded, NEW r \in Requests, Insert(r) PROVE Guarded'
<1>1. Typed'
  <2> DEFINE new == [id |-> r, role |-> role[r], active |-> TRUE]
  <2>1. new \in Account
    BY DEF Guarded, Typed, Account, Ids
  <2>2. row' = row \/ row' = [row EXCEPT ![name[r]] = new]
    BY DEF Insert, WriteRows
  <2> HIDE DEF new
  <2>3. row' \in [Names -> Account \cup {None}]
    BY <2>1, <2>2 DEF Guarded, Typed
  <2>4. /\ pc' \in [Requests -> {"new", "insert", "mirror new", "load", "count", "update",
                                 "mirror", "done"}]
        /\ \A q \in Requests : pc'[q] = "insert" => pc[q] = "insert"
    BY DEF Guarded, Typed, Insert, Go
  <2> QED BY <2>3, <2>4 DEF Guarded, Typed, Insert, inputs
<1>2. /\ pc[r] = "insert" /\ pc'[r] \in {"mirror new", "done"} /\ UNCHANGED inputs
      /\ odd \subseteq odd' /\ behind \subseteq behind'
      /\ \A q \in Requests \ {r} : pc'[q] = pc[q]
  BY DEF Guarded, Typed, Insert, WriteRows, Go, Note
<1>3. CASE row' = row
  <2>1. \A q \in Requests : ActiveAdmins(After(q))' = ActiveAdmins(After(q))
    BY <1>2, <1>3, AfterSame DEF inputs
  <2>2. Steady' => Steady
    BY <1>2 DEF Steady
  <2>3. ASSUME NEW q \in Requests, Steady', q \notin behind', pc'[q] = "update"
        PROVE  ActiveAdmins(After(q)') # {}
    BY <1>2, <2>1, <2>2, <2>3 DEF Guarded, ActiveAdmins
  <2> QED BY <1>1, <1>2, <1>3, <2>3, QuietStep
<1>4. CASE row' # row
  <2> DEFINE new == [id |-> r, role |-> role[r], active |-> TRUE]
  <2>1. name[r] \in Names /\ row[name[r]] = None /\ row' = [row EXCEPT ![name[r]] = new]
    BY <1>2, <1>4 DEF Guarded, Typed, Insert, WriteRows
  <2>2. /\ row'[name[r]] = new /\ new.id = r
        /\ \A u \in Names \ {name[r]} : row'[u] = row[u]
    BY <2>1 DEF Guarded, Typed
  <2>3. \A q \in Requests \ {r} : pc[q] = "update" => q \in behind'
    BY <1>4 DEF Insert, WriteRows
  <2>4. IdsAreDistinct'
    <3> HIDE DEF new
    <3>1. \A u \in Names : row[u] # None => row[u].id # r
      BY <1>2 DEF Guarded, IdsAreDistinct
    <3>2. \A u, v \in Names :
             row'[u] # None /\ row'[v] # None /\ row'[u].id = row'[v].id => u = v
      BY <2>1, <2>2, <3>1 DEF Guarded, IdsAreDistinct
    <3>3. ASSUME NEW u \in Names, NEW q \in Requests, row'[u] # None, row'[u].id = q
          PROVE  pc'[q] \notin {"new", "insert"}
      <4>1. CASE q = r
        BY <1>2, <4>1
      <4>2. CASE q # r
        BY ZenonT(60), <1>2, <2>1, <2>2, <3>3, <4>2 DEF Guarded, IdsAreDistinct
      <4> QED BY <4>1, <4>2
    <3> QED BY <3>2, <3>3 DEF IdsAreDistinct
  <2>5. AdminRemains'
    <3>1. ActiveAdmins(row) \subseteq ActiveAdmins(row')
      BY <2>1, <2>2 DEF ActiveAdmins
    <3> QED BY <1>2, <3>1 DEF Guarded, AdminRemains, ActiveAdmins
  <2> QED BY <1>1, <1>2, <2>3, <2>4, <2>5 DEF Guarded
<1> QED BY <1>3, <1>4

LEMMA UpdateGuarded == ASSUME Guarded, NEW r \in Requests, Update(r) PROVE Guarded'
<1>1. /\ pc[r] = "update" /\ pc'[r] = "mirror" /\ UNCHANGED inputs
      /\ odd \subseteq odd' /\ behind \subseteq behind'
      /\ \A q \in Requests \ {r} : pc'[q] = pc[q]
  BY DEF Guarded, Typed, Update, WriteRows, Go, Note
<1>2. row' = row \/ row' = After(r)
  BY DEF Update, WriteRows, After
<1>3. \A u \in Names : row[u] # None
                          => /\ Changed(r, row[u]) \in Account /\ Changed(r, row[u]) # None
                             /\ Changed(r, row[u]).id = row[u].id
  <2> SUFFICES ASSUME NEW u \in Names, row[u] # None
               PROVE  /\ Changed(r, row[u]) \in Account /\ Changed(r, row[u]) # None
                      /\ Changed(r, row[u]).id = row[u].id
    OBVIOUS
  <2>1. row[u] \in Account /\ role[r] \in Roles /\ active[r] \in BOOLEAN
    BY DEF Guarded, Typed
  <2> QED BY <2>1, ChangedAccount
<1>4. \A u \in Names : /\ row'[u] \in Account \cup {None}
                       /\ row'[u] # None => row[u] # None /\ row'[u].id = row[u].id
  BY <1>2, <1>3 DEF After, ChangeIn, Holders, Guarded, Typed
<1>5. Typed'
  <2>1. row' \in [Names -> Account \cup {None}]
    BY <1>2, <1>4 DEF After, ChangeIn, Guarded, Typed
  <2>2. pc' \in [Requests -> {"new", "insert", "mirror new", "load", "count", "update",
                              "mirror", "done"}]
    BY DEF Guarded, Typed, Update, Go
  <2> QED BY <1>1, <2>1, <2>2 DEF Guarded, Typed, inputs
<1>6. IdsAreDistinct'
  BY <1>1, <1>4 DEF Guarded, IdsAreDistinct
<1>7. Steady' => Steady
  BY <1>1 DEF Steady
<1>8. CASE row' = row
  <2>1. \A q \in Requests : ActiveAdmins(After(q))' = ActiveAdmins(After(q))
    BY <1>1, <1>8, AfterSame DEF inputs
  <2>2. ASSUME NEW q \in Requests, Steady', q \notin behind', pc'[q] = "update"
        PROVE  ActiveAdmins(After(q)') # {}
    BY <1>1, <1>7, <2>1, <2>2 DEF Guarded, ActiveAdmins
  <2> QED BY <1>1, <1>5, <1>8, <2>2, QuietStep
<1>9. CASE row' # row
  <2>1. row' = After(r) /\ Note(Overtaken(r))
    BY <1>9 DEF Update, WriteRows, After
  <2>2. \A q \in Requests \ {r} : pc[q] = "update" => q \in behind'
    BY <1>9 DEF Update, WriteRows
  <2>3. Steady' => ActiveAdmins(row') # {}
    <3>1. Steady' => r \notin behind
      BY <2>1 DEF Steady, Note, Overtaken
    <3> QED BY <1>1, <1>7, <2>1, <3>1 DEF Guarded
  <2>4. AdminRemains'
    BY <2>3 DEF AdminRemains, Steady, ActiveAdmins
  <2> QED BY <1>1, <1>5, <1>6, <2>2, <2>4 DEF Guarded
<1> QED BY <1>8, <1>9

-----------------------------------------------------------------------------
LEMMA StepGuarded == Guarded /\ [Next]_vars => Guarded'
<1> SUFFICES ASSUME Guarded, [Next]_vars PROVE Guarded'
  OBVIOUS
<1>1. ASSUME NEW r \in Requests, NEW u \in Names, NEW newRole \in Roles,
             NEW k \in {"register", "create", "admin create"}, StartCreate(r, k, u, newRole)
      PROVE  Guarded'
  BY <1>1, StartCreateGuarded
<1>2. ASSUME NEW r \in Requests, NEW id \in Ids, NEW asListed \in BOOLEAN,
             NEW newRole \in Roles, NEW k \in {"edit", "deactivate", "activate"},
             NEW newActive \in BOOLEAN, StartChange(r, k, id, asListed, newRole, newActive)
      PROVE  Guarded'
  BY <1>2, StartChangeGuarded
<1>3. ASSUME NEW r \in Requests, Insert(r) \/ Update(r) PROVE Guarded'
  BY <1>3, InsertGuarded, UpdateGuarded
<1>4. ASSUME NEW r \in Requests, MirrorNew(r) \/ Mirror(r) PROVE Guarded'
  BY <1>4, MirrorsGuarded
<1>5. ASSUME NEW r \in Requests, Load(r) \/ CountAdmins(r) PROVE Guarded'
  BY <1>5, LoadGuarded, CountAdminsGuarded
<1>6. CASE Restart
  BY <1>6, RestartGuarded
<1>7. CASE UNCHANGED vars
  <2>1. Typed' /\ row' = row /\ behind' = behind /\ odd' = odd /\ pc' = pc
    BY <1>7 DEF vars, inputs, Guarded, Typed
  <2>2. \A q \in Requests : ActiveAdmins(After(q))' = ActiveAdmins(After(q))
    BY <1>7, AfterSame DEF vars, inputs
  <2>3. Steady' => Steady
    BY <2>1 DEF Steady
  <2>4. ASSUME NEW q \in Requests, Steady', q \notin behind', pc'[q] = "update"
        PROVE  ActiveAdmins(After(q)') # {}
    BY <2>1, <2>2, <2>3, <2>4 DEF Guarded, ActiveAdmins
  <2> QED BY <2>1, <2>4, QuietStep
<1> QED BY <1>1, <1>2, <1>3, <1>4, <1>5, <1>6, <1>7 DEF Next

LEMMA AlwaysGuarded == Spec => []Guarded
  BY InitGuarded, StepGuarded, PTL DEF Spec

\* routes.py:1032 and 1091: whatever requests come in, an active administrator remains
\* unless one of them acts on what it read before another wrote, or without the database.
THEOREM AnAdminRemains == Spec => []AdminRemains
<1>1. Guarded => AdminRemains
  BY DEF Guarded
<1> QED BY <1>1, AlwaysGuarded, PTL

-----------------------------------------------------------------------------
(* MirrorFollows is not inductive either: while requests are under way the *)
(* store lags behind the rows.  Then a request that has yet to mirror will *)
(* close the gap, unless another one has written since its own write, and  *)
(* that is noted when it mirrors.                                          *)

Calm == odd \cap {"raced", "failed", "missed"} = {}

Mirroring == {r \in Requests : pc[r] \in {"mirror", "mirror new"}}

\* A request is going to mirror what another one has overwritten.
Doomed == Mirroring \cap behind # {}

\* What r is going to mirror will make the account of u what its row is.
Closes(r, u) ==
    \/ pc[r] = "mirror new" /\ name[r] = u
    \/ /\ pc[r] = "mirror" /\ mem[u] # None /\ row[u] # None
       /\ mem[u].id = target[r] /\ row[u] = Changed(r, mem[u])

Follows(u) == mem[u] \in {None, row[u]} \/ \E r \in Mirroring : Closes(r, u)

\* The rows are as a request that has yet to mirror has written them.
Wrote(r) ==
    /\ pc[r] = "mirror" =>
         \A u \in Names : row[u] # None /\ row[u].id = target[r] => Changed(r, row[u]) = row[u]
    /\ pc[r] = "mirror new" =>
         row[name[r]] = [id |-> r, role |-> role[r], active |-> TRUE]

MirrorTyped ==
    /\ mem \in [Names -> Account \cup {None}]
    /\ plain \in [Requests -> BOOLEAN]
    /\ behind \subseteq Requests
    /\ odd \subseteq {"raced", "blind", "failed", "missed"}
    /\ \A r \in Requests : pc[r] = "mirror new" => name[r] \in Names

Following ==
    /\ MirrorTyped
    /\ \A r \in Requests : Calm /\ r \notin behind => Wrote(r)
    /\ Calm /\ ~ Doomed => \A u \in Names : Follows(u)

LEMMA InitFollowing == Init => Following
  BY DEF Init, Following, MirrorTyped, Wrote, Follows

\* To change an account twice in the same way is to change it once; and who changes it to
\* what it would also become otherwise changes nothing of that.
LEMMA ChangesAgree ==
  ASSUME Guarded, NEW r \in Requests, NEW s \in Requests, NEW a \in Account
  PROVE  /\ Changed(r, Changed(r, a)) = Changed(r, a)
         /\ Changed(r, Changed(s, a)) = Changed(s, a)
              => Changed(s, Changed(r, a)) = Changed(s, a)
<1>1. /\ role[r] \in Roles /\ active[r] \in BOOLEAN
      /\ role[s] \in Roles /\ active[s] \in BOOLEAN
  BY DEF Guarded, Typed
<1>2. ASSUME NEW q \in {r, s}, NEW b \in Account
      PROVE  /\ Changed(q, b) \in Account
             /\ Changed(q, b).id = b.id
             /\ Changed(q, b).active = active[q]
             /\ Changed(q, b).role = IF kind[q] = "edit" THEN role[q] ELSE b.role
  BY <1>1, ChangedAccount
<1>3. \A b, c \in Account : b = c <=> b.id = c.id /\ b.role = c.role /\ b.active = c.active
  BY DEF Account
<1> QED BY <1>2, <1>3

\* A step of a request that is not going to mirror, before or after.
LEMMA AsideStep ==
  ASSUME Guarded, Guarded', Following, NEW r \in Requests,
         pc[r] \notin {"mirror", "mirror new"}, pc'[r] \notin {"mirror", "mirror new"},
         UNCHANGED <<row, mem, behind>>, odd \subseteq odd',
         plain' \in [Requests -> BOOLEAN],
         odd' \subseteq {"raced", "blind", "failed", "missed"},
         \A q \in Requests \ {r} :
            /\ pc'[q] = pc[q] /\ kind'[q] = kind[q] /\ role'[q] = role[q]
            /\ active'[q] = active[q] /\ target'[q] = target[q] /\ name'[q] = name[q]
  PROVE  Following'
<1>1. MirrorTyped'
  BY DEF Following, MirrorTyped
<1>2. Calm' => Calm
  BY DEF Calm
<1>3. Mirroring' = Mirroring /\ r \notin Mirroring
  BY DEF Mirroring
<1>4. ASSUME NEW q \in Requests \ {r}, NEW a PROVE Changed(q, a)' = Changed(q, a)
  BY <1>4 DEF Changed
<1>5. ASSUME NEW q \in Requests, Calm', q \notin behind' PROVE Wrote(q)'
  <2>1. CASE q = r
    BY <2>1 DEF Wrote
  <2>2. CASE q # r
    <3>1. Wrote(q)
      BY <1>2, <1>5 DEF Following
    <3>2. \A a : Changed(q, a)' = Changed(q, a)
      BY <2>2 DEF Changed
    <3> QED BY ZenonT(60), <2>2, <3>1, <3>2 DEF Wrote
  <2> QED BY <2>1, <2>2
<1>6. ASSUME Calm', ~ Doomed', NEW u \in Names PROVE Follows(u)'
  <2>1. Follows(u)
    BY <1>2, <1>3, <1>6 DEF Following, Doomed
  <2>2. ASSUME NEW q \in Mirroring, Closes(q, u) PROVE Closes(q, u)'
    BY <1>3, <2>2 DEF Closes, Changed, Mirroring
  <2> QED BY <1>3, <2>1, <2>2 DEF Follows
<1> QED BY <1>1, <1>5, <1>6 DEF Following

LEMMA AsidesFollowing ==
  ASSUME Guarded, Guarded', Following, NEW r \in Requests,
         \/ \E u \in Names, newRole \in Roles, k \in {"register", "create", "admin create"} :
              StartCreate(r, k, u, newRole)
         \/ \E id \in Ids, asListed, newActive \in BOOLEAN, newRole \in Roles,
               k \in {"edit", "deactivate", "activate"} :
              StartChange(r, k, id, asListed, newRole, newActive)
         \/ Load(r) \/ CountAdmins(r)
  PROVE  Following'
<1>1. ASSUME NEW u \in Names, NEW newRole, NEW k, StartCreate(r, k, u, newRole)
      PROVE  Following'
  <2>1. /\ pc[r] = "new" /\ pc'[r] = "insert" /\ UNCHANGED <<row, mem, behind, plain>>
        /\ odd \subseteq odd' /\ odd' \subseteq {"raced", "blind", "failed", "missed"}
        /\ \A q \in Requests \ {r} :
              /\ pc'[q] = pc[q] /\ kind'[q] = kind[q] /\ role'[q] = role[q]
              /\ active'[q] = active[q] /\ target'[q] = target[q] /\ name'[q] = name[q]
    BY ZenonT(60), <1>1 DEF Guarded, Typed, StartCreate, Go, Note, Following, MirrorTyped
  <2> QED BY <2>1, AsideStep DEF Following, MirrorTyped
<1>2. ASSUME NEW id \in Ids, NEW asListed \in BOOLEAN, NEW newActive, NEW newRole, NEW k,
             StartChange(r, k, id, asListed, newRole, newActive)
      PROVE  Following'
  <2>0. plain' \in [Requests -> BOOLEAN]
    <3>1. plain' = [plain EXCEPT ![r] = asListed]
      BY <1>2 DEF StartChange
    <3> QED BY <3>1 DEF Following, MirrorTyped
  <2>1. /\ pc[r] = "new" /\ pc'[r] \in {"load", "update"} /\ UNCHANGED <<row, mem, behind, odd>>
        /\ \A q \in Requests \ {r} :
              /\ pc'[q] = pc[q] /\ kind'[q] = kind[q] /\ role'[q] = role[q]
              /\ active'[q] = active[q] /\ target'[q] = target[q] /\ name'[q] = name[q]
    BY ZenonT(60), <1>2 DEF Guarded, Typed, StartChange, Go
  <2> QED BY <2>0, <2>1, AsideStep DEF Following, MirrorTyped
<1>3. CASE Load(r) \/ CountAdmins(r)
  <2>1. /\ pc[r] \in {"load", "count"} /\ pc'[r] \in {"done", "count", "update"}
        /\ \A q \in Requests \ {r} : pc'[q] = pc[q]
    BY <1>3 DEF Load, CountAdmins, Go, Guarded, Typed
  <2>2. UNCHANGED <<row, mem, behind, inputs>> /\ (odd' = odd \/ odd' = odd \cup {"blind"})
    BY <1>3 DEF Load, CountAdmins, Note
  <2> QED BY <2>1, <2>2, AsideStep DEF Following, MirrorTyped, inputs
<1> QED BY <1>1, <1>2, <1>3

-----------------------------------------------------------------------------
(* The steps that write rows: what they change puts all others behind.     *)

\* Without a change of the rows, the others are as they were.
LEMMA OthersStay ==
  ASSUME Guarded, NEW r \in Requests, NEW q \in Requests \ {r}, pc'[q] = pc[q],
         UNCHANGED <<row, mem, inputs>>
  PROVE  /\ Wrote(q) => Wrote(q)'
         /\ \A u \in Names : Closes(q, u) => Closes(q, u)'
  BY DEF Wrote, Closes, Changed, inputs

LEMMA UpdateFollowing ==
  ASSUME Guarded, Guarded', Following, NEW r \in Requests, Update(r)
  PROVE  Following'
<1>1. /\ pc[r] = "update" /\ pc'[r] = "mirror" /\ UNCHANGED <<mem, inputs>>
      /\ \A q \in Requests \ {r} : pc'[q] = pc[q]
      /\ odd \subseteq odd' /\ behind \subseteq behind'
  BY DEF Guarded, Typed, Update, WriteRows, Go, Note
<1>2. MirrorTyped'
  <2>1. behind' \subseteq Requests
    BY DEF Update, WriteRows, Following, MirrorTyped
  <2>2. odd' \subseteq {"raced", "blind", "failed", "missed"}
    BY DEF Update, Note, Overtaken, Following, MirrorTyped
  <2> QED BY <1>1, <2>1, <2>2 DEF Following, MirrorTyped, inputs
<1>3. ASSUME Calm'
      PROVE  /\ Calm /\ r \notin behind
             /\ row' = ChangeIn(r, row, Holders(row, target[r]))
             /\ WriteRows(r, row')
  BY <1>1, <1>3 DEF Update, Calm, Note, Overtaken, WriteRows
<1>4. \A q \in Requests : \A a : Changed(q, a)' = Changed(q, a)
  BY <1>1 DEF Changed, inputs
<1>5. ASSUME NEW u \in Names, Calm'
      PROVE  /\ row[u] # None /\ row[u].id = target[r] => row'[u] = Changed(r, row[u])
             /\ ~ (row[u] # None /\ row[u].id = target[r]) => row'[u] = row[u]
             /\ row[u] # None => row'[u] # None /\ row'[u].id = row[u].id
  <2>1. row[u] # None => /\ Changed(r, row[u]) # None
                         /\ Changed(r, row[u]).id = row[u].id
    <3> SUFFICES ASSUME row[u] # None
                 PROVE  Changed(r, row[u]) # None /\ Changed(r, row[u]).id = row[u].id
      OBVIOUS
    <3>1. row[u] \in Account /\ role[r] \in Roles /\ active[r] \in BOOLEAN
      BY DEF Guarded, Typed
    <3> QED BY <3>1, ChangedAccount
  <2> QED BY <1>3, <1>5, <2>1 DEF ChangeIn, Holders
<1>6. CASE row' = row
  <2>1. behind' = behind
    BY <1>6 DEF Update, WriteRows
  <2>2. ASSUME NEW q \in Requests \ {r}
        PROVE  /\ Wrote(q) => Wrote(q)'
               /\ \A u \in Names : Closes(q, u) => Closes(q, u)'
    BY <1>1, <1>6, OthersStay
  <2>3. ASSUME NEW q \in Requests, Calm', q \notin behind' PROVE Wrote(q)'
    <3>1. CASE q = r
      BY <1>1, <1>4, <1>5, <1>6, <2>3, <3>1 DEF Wrote, inputs
    <3>2. CASE q # r
      BY <1>3, <2>1, <2>2, <2>3, <3>2 DEF Following
    <3> QED BY <3>1, <3>2
  <2>4. Mirroring' = Mirroring \cup {r}
    BY <1>1 DEF Mirroring
  <2>5. ASSUME Calm', ~ Doomed', NEW u \in Names PROVE Follows(u)'
    <3>1. Follows(u)
      BY <1>3, <2>1, <2>4, <2>5 DEF Following, Doomed
    <3>2. r \notin Mirroring
      BY <1>1 DEF Mirroring
    <3> QED BY <1>1, <1>6, <2>2, <2>4, <3>1, <3>2 DEF Follows, Mirroring
  <2> QED BY <1>2, <2>3, <2>5 DEF Following
<1>7. CASE row' # row
  <2>1. \A q \in Requests \ {r} : pc[q] \notin {"new", "done"} => q \in behind'
    BY <1>7 DEF Update, WriteRows
  <2>2. ASSUME NEW q \in Requests, Calm', q \notin behind' PROVE Wrote(q)'
    <3>1. CASE q = r
      <4>1. ASSUME NEW u \in Names, row'[u] # None, row'[u].id = target[r]
            PROVE  Changed(r, row'[u]) = row'[u]
        <5>1. row[u] # None /\ row[u].id = target[r] /\ row'[u] = Changed(r, row[u])
          BY <1>5, <2>2, <4>1
        <5>2. row[u] \in Account
          BY <5>1 DEF Guarded, Typed
        <5> QED BY <5>1, <5>2, ChangesAgree
      <4> QED BY <1>1, <1>4, <3>1, <4>1 DEF Wrote, inputs
    <3>2. CASE q # r
      BY <1>1, <2>1, <2>2, <3>2 DEF Wrote
    <3> QED BY <3>1, <3>2
  <2>3. ASSUME Calm', ~ Doomed', NEW u \in Names PROVE Follows(u)'
    <3>1. Mirroring = {}
      BY <1>1, <2>1, <2>3 DEF Doomed, Mirroring
    <3>2. mem[u] \in {None, row[u]}
      BY <1>3, <2>3, <3>1 DEF Following, Doomed, Follows
    <3>3. CASE row[u] # None /\ row[u].id = target[r] /\ mem[u] = row[u]
      <4>1. Closes(r, u)'
        BY <1>1, <1>4, <1>5, <2>3, <3>3 DEF Closes, inputs
      <4> QED BY <1>1, <4>1 DEF Follows, Mirroring
    <3>4. CASE ~ (row[u] # None /\ row[u].id = target[r]) \/ mem[u] = None
      BY <1>1, <1>5, <2>3, <3>2, <3>4 DEF Follows
    <3> QED BY <3>2, <3>3, <3>4
  <2> QED BY <1>2, <2>2, <2>3 DEF Following
<1> QED BY <1>6, <1>7

LEMMA InsertFollowing ==
  ASSUME Guarded, Guarded', Following, NEW r \in Requests, Insert(r)
  PROVE  Following'
<1>1. /\ pc[r] = "insert" /\ pc'[r] \in {"mirror new", "done"} /\ UNCHANGED <<mem, inputs>>
      /\ \A q \in Requests \ {r} : pc'[q] = pc[q]
      /\ odd \subseteq odd' /\ behind \subseteq behind' /\ name[r] \in Names
  BY DEF Guarded, Typed, Insert, WriteRows, Go, Note
<1>2. MirrorTyped'
  <2>1. behind' \subseteq Requests
    BY DEF Insert, WriteRows, Following, MirrorTyped
  <2>2. odd' \subseteq {"raced", "blind", "failed", "missed"}
    BY DEF Insert, Note, Following, MirrorTyped
  <2> QED BY <1>1, <2>1, <2>2 DEF Following, MirrorTyped, inputs
<1>3. ASSUME Calm'
      PROVE  /\ Calm /\ row[name[r]] = None
             /\ row' = [row EXCEPT ![name[r]] =
                          [id |-> r, role |-> role[r], active |-> TRUE]]
             /\ WriteRows(r, row')
             /\ pc'[r] = "mirror new"
  BY <1>1, <1>3 DEF Insert, Calm, Note, WriteRows, Go, Guarded, Typed
<1>4. ASSUME Calm'
      PROVE  \A q \in Requests \ {r} : pc[q] \notin {"new", "done"} => q \in behind'
  <2> DEFINE new == [id |-> r, role |-> role[r], active |-> TRUE]
  <2>1. new \in Account
    BY DEF Guarded, Typed, Account, Ids
  <2>2. row'[name[r]] = new /\ new # None
    BY <1>1, <1>3, <1>4, <2>1, UsersAssumption DEF Guarded, Typed
  <2> HIDE DEF new
  <2>3. row' # row
    BY <1>3, <1>4, <2>2
  <2> QED BY <1>3, <1>4, <2>3 DEF WriteRows
<1>5. ASSUME NEW q \in Requests, Calm', q \notin behind' PROVE Wrote(q)'
  <2>1. CASE q = r
    BY <1>1, <1>3, <1>5, <2>1 DEF Wrote, inputs, Guarded, Typed
  <2>2. CASE q # r
    BY <1>1, <1>4, <1>5, <2>2 DEF Wrote
  <2> QED BY <2>1, <2>2
<1>6. ASSUME Calm', ~ Doomed', NEW u \in Names PROVE Follows(u)'
  <2>1. Mirroring = {}
    BY <1>1, <1>4, <1>6 DEF Doomed, Mirroring
  <2>2. mem[u] \in {None, row[u]}
    BY <1>3, <1>6, <2>1 DEF Following, Doomed, Follows
  <2>3. CASE u = name[r]
    <3>1. Closes(r, u)'
      BY <1>1, <1>3, <1>6, <2>3 DEF Closes, inputs
    <3> QED BY <1>3, <1>6, <3>1 DEF Follows, Mirroring
  <2>4. CASE u # name[r]
    <3>1. row'[u] = row[u]
      BY <1>3, <1>6, <2>4 DEF Guarded, Typed
    <3> QED BY <1>1, <2>2, <3>1 DEF Follows
  <2> QED BY <2>3, <2>4
<1> QED BY <1>2, <1>5, <1>6 DEF Following

-----------------------------------------------------------------------------
(* The steps that mirror.                                                  *)

LEMMA MirrorNewFollowing ==
  ASSUME Guarded, Guarded', Following, NEW r \in Requests, MirrorNew(r)
  PROVE  Following'
<1>1. /\ pc[r] = "mirror new" /\ pc'[r] = "done" /\ UNCHANGED <<row, inputs, behind>>
      /\ \A q \in Requests \ {r} : pc'[q] = pc[q]
      /\ odd \subseteq odd' /\ name[r] \in Names
  BY DEF Guarded, Typed, Following, MirrorTyped, MirrorNew, Go, Note
<1> DEFINE new == [id |-> r, role |-> role[r], active |-> TRUE]
<1>2. new \in Account /\ mem' = [mem EXCEPT ![name[r]] = new]
  BY DEF MirrorNew, Guarded, Typed, Account, Ids
<1>3. MirrorTyped'
  <2>1. odd' \subseteq {"raced", "blind", "failed", "missed"}
    BY DEF MirrorNew, Note, Overtaken, Following, MirrorTyped
  <2> HIDE DEF new
  <2> QED BY <1>1, <1>2, <2>1 DEF Following, MirrorTyped, inputs
<1>4. ASSUME Calm' PROVE Calm /\ r \notin behind
  BY <1>4 DEF MirrorNew, Calm, Note, Overtaken
<1>5. \A q \in Requests : \A a : Changed(q, a)' = Changed(q, a)
  BY <1>1 DEF Changed, inputs
<1>6. ASSUME NEW q \in Requests, Calm', q \notin behind' PROVE Wrote(q)'
  <2>1. Wrote(q)
    BY <1>1, <1>4, <1>6 DEF Following
  <2> QED BY <1>1, <1>5, <2>1 DEF Wrote, inputs
<1>7. Mirroring' = Mirroring \ {r} /\ r \in Mirroring
  BY <1>1 DEF Mirroring
<1>8. ASSUME Calm', ~ Doomed', NEW u \in Names PROVE Follows(u)'
  <2>1. Follows(u) /\ Wrote(r)
    BY <1>1, <1>4, <1>7, <1>8 DEF Following, Doomed
  <2>2. CASE u = name[r]
    <3>1. row[u] = new
      BY <1>1, <2>1, <2>2 DEF Wrote
    <3>2. mem'[u] = new
      BY <1>2, <2>2 DEF Following, MirrorTyped
    <3> QED BY <1>1, <3>1, <3>2 DEF Follows
  <2>3. CASE u # name[r]
    <3>1. mem'[u] = mem[u] /\ row'[u] = row[u]
      BY <1>1, <1>2, <2>3 DEF Following, MirrorTyped
    <3>2. ASSUME NEW q \in Mirroring, Closes(q, u) PROVE q # r /\ Closes(q, u)'
      <4>1. q # r
        BY <1>1, <2>3, <3>2 DEF Closes
      <4> QED BY <1>1, <1>5, <3>1, <3>2, <4>1 DEF Closes, inputs, Mirroring
    <3> QED BY <1>7, <2>1, <3>1, <3>2 DEF Follows
  <2> QED BY <2>2, <2>3
<1> QED BY <1>3, <1>6, <1>8 DEF Following

LEMMA MirrorFollowing ==
  ASSUME Guarded, Guarded', Following, NEW r \in Requests, Mirror(r)
  PROVE  Following'
<1>1. /\ pc[r] = "mirror" /\ pc'[r] = "done" /\ UNCHANGED <<row, inputs, behind>>
      /\ \A q \in Requests \ {r} : pc'[q] = pc[q]
      /\ odd \subseteq odd'
  BY DEF Guarded, Typed, Mirror, Go, Note
<1>2. role[r] \in Roles /\ active[r] \in BOOLEAN
  BY DEF Guarded, Typed
<1>3. ASSUME NEW u \in Names, mem[u] # None
      PROVE  /\ mem[u] \in Account
             /\ Changed(r, mem[u]) \in Account
             /\ Changed(r, mem[u]) # None /\ Changed(r, mem[u]).id = mem[u].id
  <2>1. mem[u] \in Account
    BY <1>3 DEF Following, MirrorTyped
  <2> QED BY <1>2, <2>1, ChangedAccount
<1>4. MirrorTyped'
  <2>1. odd' \subseteq {"raced", "blind", "failed", "missed"}
    BY DEF Mirror, Note, Overtaken, Following, MirrorTyped
  <2>2. mem' \in [Names -> Account \cup {None}]
    <3>1. \A u \in InStore(r) : u \in Names /\ mem[u] # None
      BY DEF InStore, Holders
    <3> QED BY <1>3, <3>1 DEF Mirror, ChangeIn, Following, MirrorTyped
  <2> QED BY <1>1, <2>1, <2>2 DEF Following, MirrorTyped, inputs
<1>5. ASSUME Calm'
      PROVE  /\ Calm /\ r \notin behind
             /\ mem' = ChangeIn(r, mem, Holders(mem, target[r]))
  BY <1>5 DEF Mirror, Calm, Note, Overtaken
<1>6. \A q \in Requests : \A a : Changed(q, a)' = Changed(q, a)
  BY <1>1 DEF Changed, inputs
<1>7. ASSUME NEW q \in Requests, Calm', q \notin behind' PROVE Wrote(q)'
  <2>1. Wrote(q)
    BY <1>1, <1>5, <1>7 DEF Following
  <2> QED BY <1>1, <1>6, <2>1 DEF Wrote, inputs
<1>8. Mirroring' = Mirroring \ {r} /\ r \in Mirroring
  BY <1>1 DEF Mirroring
<1>9. ASSUME Calm', ~ Doomed', NEW u \in Names PROVE Follows(u)'
  <2>1. Follows(u) /\ Wrote(r)
    BY <1>1, <1>5, <1>8, <1>9 DEF Following, Doomed
  <2>2. row'[u] = row[u]
    BY <1>1
  <2>3. CASE u \notin Holders(mem, target[r])
    <3>1. mem'[u] = mem[u]
      BY <1>5, <1>9, <2>3 DEF ChangeIn
    <3>2. ASSUME NEW q \in Mirroring, Closes(q, u) PROVE q # r /\ Closes(q, u)'
      <4>1. q # r
        BY <1>1, <2>3, <3>2 DEF Closes, Holders
      <4> QED BY <1>1, <1>6, <2>2, <3>1, <3>2, <4>1 DEF Closes, inputs, Mirroring
    <3> QED BY <1>8, <2>1, <2>2, <3>1, <3>2 DEF Follows
  <2>4. CASE u \in Holders(mem, target[r])
    <3>1. mem[u] # None /\ mem[u].id = target[r] /\ mem'[u] = Changed(r, mem[u])
      BY <1>5, <1>9, <2>4 DEF ChangeIn, Holders
    <3>2. /\ mem[u] \in Account
          /\ mem'[u] # None /\ mem'[u].id = mem[u].id
      BY <1>3, <3>1
    <3>3. CASE mem[u] = row[u]
      <4>1. mem'[u] = row[u]
        BY <1>1, <2>1, <3>1, <3>3 DEF Wrote
      <4> QED BY <2>2, <4>1 DEF Follows
    <3>4. ASSUME NEW q \in Mirroring, Closes(q, u) PROVE Follows(u)'
      <4>1. CASE q = r
        <5>1. mem'[u] = row[u]
          BY <1>1, <3>1, <3>4, <4>1 DEF Closes
        <5> QED BY <2>2, <5>1 DEF Follows
      <4>2. CASE q # r /\ pc[q] = "mirror new"
        <5>1. Closes(q, u)'
          BY <1>1, <3>4, <4>2 DEF Closes, inputs, Mirroring
        <5> QED BY <1>8, <4>2, <5>1 DEF Follows
      <4>3. CASE q # r /\ pc[q] = "mirror"
        <5>1. q \in Requests /\ mem[u].id = target[q] /\ row[u] # None
              /\ row[u] = Changed(q, mem[u])
          BY <3>4, <4>3 DEF Closes, Mirroring
        <5>2. role[q] \in Roles /\ active[q] \in BOOLEAN
          BY <5>1 DEF Guarded, Typed
        <5>3. row[u].id = target[r]
          BY <3>1, <3>2, <5>1, <5>2, ChangedAccount
        <5>4. Changed(r, row[u]) = row[u]
          BY <1>1, <2>1, <5>1, <5>3 DEF Wrote
        <5>5. Changed(q, Changed(r, mem[u])) = Changed(q, mem[u])
          BY <3>2, <5>1, <5>4, ChangesAgree
        <5>6. Closes(q, u)'
          BY <1>1, <1>6, <2>2, <3>1, <3>2, <4>3, <5>1, <5>5 DEF Closes, inputs
        <5> QED BY <1>8, <4>3, <5>6 DEF Follows
      <4> QED BY <3>4, <4>1, <4>2, <4>3 DEF Mirroring
    <3> QED BY <2>1, <3>1, <3>3, <3>4 DEF Follows
  <2> QED BY <2>3, <2>4
<1> QED BY <1>4, <1>7, <1>9 DEF Following

LEMMA RestartFollowing == Following /\ Restart => Following'
<1> SUFFICES ASSUME Following, Restart PROVE Following'
  OBVIOUS
<1>1. \A r \in Requests : pc'[r] \in {"new", "done"}
  BY DEF Restart
<1>2. MirrorTyped'
  BY <1>1 DEF Restart, Following, MirrorTyped, inputs
<1>3. \A r \in Requests : Wrote(r)'
  BY <1>1 DEF Wrote
<1>4. \A u \in Names : Follows(u)'
  BY DEF Restart, Follows
<1> QED BY <1>2, <1>3, <1>4 DEF Following

-----------------------------------------------------------------------------
LEMMA StepFollowing == Guarded /\ Guarded' /\ Following /\ [Next]_vars => Following'
<1> SUFFICES ASSUME Guarded, Guarded', Following, [Next]_vars PROVE Following'
  OBVIOUS
<1>1. ASSUME NEW r \in Requests, NEW u \in Names, NEW newRole \in Roles,
             NEW k \in {"register", "create", "admin create"}, StartCreate(r, k, u, newRole)
      PROVE  Following'
  BY <1>1, AsidesFollowing
<1>2. ASSUME NEW r \in Requests, NEW id \in Ids, NEW asListed \in BOOLEAN,
             NEW newRole \in Roles, NEW k \in {"edit", "deactivate", "activate"},
             NEW newActive \in BOOLEAN, StartChange(r, k, id, asListed, newRole, newActive)
      PROVE  Following'
  BY <1>2, AsidesFollowing
<1>3. ASSUME NEW r \in Requests, Load(r) \/ CountAdmins(r) PROVE Following'
  BY <1>3, AsidesFollowing
<1>4. ASSUME NEW r \in Requests, Insert(r) \/ Update(r) PROVE Following'
  BY <1>4, InsertFollowing, UpdateFollowing
<1>5. ASSUME NEW r \in Requests, MirrorNew(r) \/ Mirror(r) PROVE Following'
  BY <1>5, MirrorNewFollowing, MirrorFollowing
<1>6. CASE Restart
  BY <1>6, RestartFollowing
<1>7. CASE UNCHANGED vars
  <2>1. /\ MirrorTyped' /\ UNCHANGED <<row, mem, pc, inputs>> /\ Mirroring' = Mirroring
        /\ (Calm' <=> Calm) /\ (Doomed' <=> Doomed) /\ behind' = behind
    BY <1>7 DEF vars, inputs, Following, MirrorTyped, Calm, Doomed, Mirroring
  <2>2. ASSUME NEW r \in Requests
        PROVE  /\ Wrote(r) => Wrote(r)'
               /\ \A u \in Names : Closes(r, u) => Closes(r, u)'
    BY <2>1 DEF Wrote, Closes, Changed, inputs
  <2>3. \A u \in Names : Follows(u) => Follows(u)'
    BY <2>1, <2>2 DEF Follows, Mirroring
  <2> QED BY <2>1, <2>2, <2>3 DEF Following
<1> QED BY <1>1, <1>2, <1>3, <1>4, <1>5, <1>6, <1>7 DEF Next

\* routes.py:896 and 1078: whatever requests come in, and whenever the server starts again,
\* with no request under way the store is as the rows are, unless requests overlapped, a
\* statement failed or did nothing, or an account was not found by the id as it was written.
THEOREM TheMirrorFollows == Spec => []MirrorFollows
<1>1. Init => Following
  BY InitFollowing
<1>2. Guarded /\ Following => MirrorFollows
  <2> SUFFICES ASSUME Guarded, Following PROVE MirrorFollows
    OBVIOUS
  <2>1. TypeOK
    BY DEF Guarded, Typed, Following, MirrorTyped, TypeOK
  <2>2. ASSUME \A r \in Requests : pc[r] \in {"new", "done"},
               odd \cap {"raced", "failed", "missed"} = {}, NEW u \in Names
        PROVE  mem[u] \in {None, row[u]}
    BY <2>2 DEF Following, Calm, Doomed, Mirroring, Follows
  <2> QED BY <2>1, <2>2 DEF MirrorFollows
<1> QED BY <1>1, <1>2, AlwaysGuarded, StepFollowing, PTL DEF Spec
=============================================================================
