------------------------------- MODULE Users --------------------------------
(***************************************************************************)
(* User administration (web/routes.py and web/admin.py): accounts are rows *)
(* of the database, and the server process keeps a mirror of the accounts  *)
(* it created, _users_store, which login looks in first.                   *)
(*                                                                         *)
(* A step is what one request does from one await to the next.  Any        *)
(* statement may fail: the handlers log that and go on without the         *)
(* database.  The process may die and lose the mirror.                     *)
(*                                                                         *)
(* Data: an account is its id, its role and whether it is active.  All     *)
(* roles but "admin" are alike here.  The id of an account that a request  *)
(* creates is that request.  The store writes ids as 32 digits and the     *)
(* database with dashes, so the id in a URL depends on where the page the  *)
(* administrator clicked on had it from; the lookup by id in the store     *)
(* compares the texts.  Login and sessions are left out, and so are the    *)
(* password, the e-mail address (one that is taken makes an insert do      *)
(* nothing) and the accounts that a development server starts with.        *)
(***************************************************************************)
EXTENDS Integers, FiniteSets

CONSTANTS
    Names,      \* user names
    Requests,
    Admins,     \* the accounts there are at first
    None

Roles == {"admin", "viewer"}
Ids == Names \cup Requests
Account == [id : Ids, role : Roles, active : BOOLEAN]

ASSUME UsersAssumption ==
    /\ Admins \subseteq Names /\ Admins # {}
    /\ Names \cap Requests = {}
    /\ None \notin Names \cup Requests \cup Account
    /\ IsFiniteSet(Names)

VARIABLES
    row,     \* the users table, by name
    mem,     \* _users_store
    pc,      \* where each request is
    kind,    \* of each request
    name,    \* the name a request is to create
    target,  \* the id a request is about
    plain,   \* is that id written as the store has it
    role,    \* the role asked for
    active,  \* the activity asked for
    behind,  \* requests under way since whose beginning another one has written (history)
    odd      \* what has happened that is out of the ordinary (history)

inputs == <<kind, name, target, plain, role, active>>
vars == <<row, mem, pc, inputs, behind, odd>>

Init ==
    /\ row = [u \in Names |-> IF u \in Admins THEN [id |-> u, role |-> "admin", active |-> TRUE]
                                              ELSE None]
    /\ mem = [u \in Names |-> None]
    /\ pc = [r \in Requests |-> "new"]
    /\ kind = [r \in Requests |-> None]
    /\ name = [r \in Requests |-> None]
    /\ target = [r \in Requests |-> None]
    /\ plain = [r \in Requests |-> FALSE]
    /\ role = [r \in Requests |-> "viewer"]
    /\ active = [r \in Requests |-> TRUE]
    /\ behind = {}
    /\ odd = {}

-----------------------------------------------------------------------------
Go(r, label) == pc' = [pc EXCEPT ![r] = label]
Note(events) == odd' = odd \cup events

Holders(store, id) == {u \in Names : store[u] # None /\ store[u].id = id}
ActiveAdmins(store) == {u \in Names : store[u] # None /\ store[u].role = "admin"
                                                      /\ store[u].active}

\* The account of the store a request finds by its id.
InStore(r) == IF plain[r] THEN Holders(mem, target[r]) ELSE {}

\* The rows change, so what other requests have read is out of date.
WriteRows(r, rows) ==
    /\ row' = rows
    /\ behind' = IF rows = row THEN behind
                 ELSE behind \cup {q \in Requests \ {r} : pc[q] \notin {"new", "done"}}

Overtaken(r) == IF r \in behind THEN {"raced"} ELSE {}

-----------------------------------------------------------------------------
(* Creating an account: register_submit, user_create_submit and            *)
(* admin_user_create                                                       *)

\* The request comes in, and the name must not be taken.  The first two look in the
\* store and then in the database; the third looks in the store only when the
\* database does not answer.
StartCreate(r, k, u, newRole) ==
    /\ pc[r] = "new"
    /\ k = "register" => newRole = "viewer"
    /\ \/ /\ row[u] = None
          /\ k = "admin create" \/ mem[u] = None
          /\ Note({})
       \/ mem[u] = None /\ Note({"blind"})
    /\ kind' = [kind EXCEPT ![r] = k]
    /\ name' = [name EXCEPT ![r] = u]
    /\ role' = [role EXCEPT ![r] = newRole]
    /\ Go(r, "insert")
    /\ UNCHANGED <<row, mem, target, plain, active, behind>>

\* The row is inserted unless its name or its address is taken, or the statement
\* fails; only admin_user_create tells the last from the others.
Insert(r) ==
    /\ pc[r] = "insert"
    /\ \/ /\ row[name[r]] = None
          /\ WriteRows(r, [row EXCEPT ![name[r]] = [id |-> r, role |-> role[r], active |-> TRUE]])
          /\ Note({})
          /\ Go(r, "mirror new")
       \/ /\ WriteRows(r, row)
          /\ Note({"failed"})
          /\ \/ Go(r, "mirror new")
             \/ kind[r] = "admin create" /\ Go(r, "done")
    /\ UNCHANGED <<mem, inputs>>

\* The account is put in the store, whatever became of the row.
MirrorNew(r) ==
    /\ pc[r] = "mirror new"
    /\ mem' = [mem EXCEPT ![name[r]] = [id |-> r, role |-> role[r], active |-> TRUE]]
    /\ Note(Overtaken(r))
    /\ Go(r, "done")
    /\ UNCHANGED <<row, inputs, behind>>

-----------------------------------------------------------------------------
(* Changing an account: user_edit_submit, user_deactivate, user_activate   *)

\* The role that the loaded account has; it is missing when no account is found.
LosesAdmin(r, loadedRole) == loadedRole = "admin" /\ (role[r] # "admin" \/ ~ active[r])

\* A request names an account that some page has listed.  A deactivation or an
\* activation leaves the role alone.
StartChange(r, k, id, asListed, newRole, newActive) ==
    /\ pc[r] = "new"
    /\ \/ ~ asListed /\ Holders(row, id) # {}
       \/ asListed /\ Holders(mem, id) # {}
    /\ k # "edit" => newRole = "viewer" /\ newActive = (k = "activate")
    /\ kind' = [kind EXCEPT ![r] = k]
    /\ target' = [target EXCEPT ![r] = id]
    /\ plain' = [plain EXCEPT ![r] = asListed]
    /\ role' = [role EXCEPT ![r] = newRole]
    /\ active' = [active EXCEPT ![r] = newActive]
    /\ Go(r, IF k = "activate" THEN "update" ELSE "load")
    /\ UNCHANGED <<row, mem, name, behind, odd>>

\* The account is loaded from the database, or else from the store.  An edit of an
\* account that neither has is refused; a deactivation goes on, and checks nothing.
Load(r) ==
    /\ pc[r] = "load"
    /\ \E fromRows \in BOOLEAN :
          LET found == IF fromRows /\ Holders(row, target[r]) # {}
                       THEN {row[u].role : u \in Holders(row, target[r])}
                       ELSE {mem[u].role : u \in InStore(r)}
          IN /\ Note(IF fromRows THEN {} ELSE {"blind"})
             /\ Go(r, IF found = {} /\ kind[r] = "edit" THEN "done"
                      ELSE IF \E loaded \in found : LosesAdmin(r, loaded) THEN "count"
                      ELSE "update")
    /\ UNCHANGED <<row, mem, inputs, behind>>

\* A mistake of CountAdmins: the last administrator is not counted.
CountAdminsLess(r) ==
    /\ pc[r] = "count"
    /\ \E store \in {row, mem} :
          /\ Note(IF store = row THEN {} ELSE {"blind"})
          /\ Go(r, IF Cardinality(ActiveAdmins(store)) < 1 THEN "done" ELSE "update")
    /\ UNCHANGED <<row, mem, inputs, behind>>

\* _active_admin_count: of the rows, or of the store when the database does not answer.
CountAdmins(r) ==
    /\ pc[r] = "count"
    /\ \E store \in {row, mem} :
          /\ Note(IF store = row THEN {} ELSE {"blind"})
          /\ Go(r, IF Cardinality(ActiveAdmins(store)) <= 1 THEN "done" ELSE "update")
    /\ UNCHANGED <<row, mem, inputs, behind>>

\* What a request makes of an account.
Changed(r, account) ==
    IF kind[r] = "edit" THEN [account EXCEPT !.role = role[r], !.active = active[r]]
                        ELSE [account EXCEPT !.active = active[r]]

ChangeIn(r, store, found) ==
    [u \in Names |-> IF u \in found THEN Changed(r, store[u]) ELSE store[u]]

\* The UPDATE, by id; it may fail.
Update(r) ==
    /\ pc[r] = "update"
    /\ \/ WriteRows(r, ChangeIn(r, row, Holders(row, target[r]))) /\ Note(Overtaken(r))
       \/ WriteRows(r, row) /\ Note({"failed"})
    /\ Go(r, "mirror")
    /\ UNCHANGED <<mem, inputs>>

\* A mistake of Mirror: the store is not told of the new activity.
MirrorRole(r) ==
    /\ pc[r] = "mirror"
    /\ mem' = [u \in Names |-> IF u \in InStore(r) /\ kind[r] = "edit"
                               THEN [mem[u] EXCEPT !.role = role[r]] ELSE mem[u]]
    /\ Note(Overtaken(r) \cup IF Holders(mem, target[r]) # InStore(r) THEN {"missed"} ELSE {})
    /\ Go(r, "done")
    /\ UNCHANGED <<row, inputs, behind>>

\* The same change in the store, if the account is found there.
Mirror(r) ==
    /\ pc[r] = "mirror"
    /\ mem' = ChangeIn(r, mem, InStore(r))
    /\ Note(Overtaken(r) \cup IF Holders(mem, target[r]) # InStore(r) THEN {"missed"} ELSE {})
    /\ Go(r, "done")
    /\ UNCHANGED <<row, inputs, behind>>

-----------------------------------------------------------------------------
\* The server process dies and starts again, with an empty store.
Restart ==
    /\ mem # [u \in Names |-> None] \/ \E r \in Requests : pc[r] \notin {"new", "done"}
    /\ mem' = [u \in Names |-> None]
    /\ pc' = [r \in Requests |-> IF pc[r] = "new" THEN "new" ELSE "done"]
    /\ UNCHANGED <<row, inputs, behind, odd>>

Next ==
    \/ \E r \in Requests, u \in Names, newRole \in Roles :
          \E k \in {"register", "create", "admin create"} : StartCreate(r, k, u, newRole)
    \/ \E r \in Requests, id \in Ids, asListed \in BOOLEAN, newRole \in Roles :
          \E k \in {"edit", "deactivate", "activate"}, newActive \in BOOLEAN :
             StartChange(r, k, id, asListed, newRole, newActive)
    \/ \E r \in Requests : \/ Insert(r) \/ MirrorNew(r)
                           \/ Load(r) \/ CountAdmins(r) \/ Update(r) \/ Mirror(r)
    \/ Restart

Spec == Init /\ [][Next]_vars

-----------------------------------------------------------------------------
TypeOK ==
    /\ row \in [Names -> Account \cup {None}]
    /\ mem \in [Names -> Account \cup {None}]
    /\ pc \in [Requests -> {"new", "insert", "mirror new", "load", "count", "update", "mirror",
                            "done"}]
    /\ name \in [Requests -> Names \cup {None}]
    /\ target \in [Requests -> Ids \cup {None}]
    /\ plain \in [Requests -> BOOLEAN] /\ active \in [Requests -> BOOLEAN]
    /\ role \in [Requests -> Roles]
    /\ behind \subseteq Requests
    /\ odd \subseteq {"raced", "blind", "failed", "missed"}

\* routes.py:1091: a deactivation is "Blocked if this would leave zero active admins",
\* and so is a demotion (routes.py:1032).  An active administrator always remains,
\* unless a request acts on what it read before another one wrote, or without the database.
AdminRemains == odd \cap {"raced", "blind"} # {} \/ ActiveAdmins(row) # {}

\* The store is a mirror of the database (routes.py:896, 1078): with no request under
\* way each of its accounts is as its row is, unless requests overlapped, a statement
\* failed or did nothing, or an id was written the other way and the account not found.
MirrorFollows ==
    /\ TypeOK
    /\ (\A r \in Requests : pc[r] \in {"new", "done"})
        => odd \cap {"raced", "failed", "missed"} # {}
           \/ \A u \in Names : mem[u] \in {None, row[u]}
=============================================================================
