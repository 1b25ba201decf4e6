----------------------------- MODULE TenantAdmin -----------------------------
(***************************************************************************)
(* The users of one tenant and who administers it: requests that create    *)
(* users, change their status and replace their roles, as concurrent       *)
(* transactions (services/tenant_admin_service.py).                        *)
(*                                                                         *)
(* An administrator is an active user with the flag is_tenant_admin and    *)
(* the role "administrator".  Flag and role are kept in two tables and     *)
(* written by the same requests; of the roles only that one is modelled.   *)
(***************************************************************************)
EXTENDS Naturals, FiniteSets, UnitOfWork

CONSTANTS
    Users,      \* user ids, in the order of ORDER BY users.id
    Requests    \* requests of the administrators

ASSUME UsersAssumption == Users \subseteq Nat

VARIABLES
    user,       \* users: status and is_tenant_admin
    role,       \* user_roles: does the user have the role "administrator"
    req         \* the requests, each with its session and transaction

vars == <<user, role, req>>

UserRow == [status : {"absent", "active", "inactive"}, flag : BOOLEAN]
NoUser == [status |-> "absent", flag |-> FALSE]

Exists(u) == user[u].status # "absent"
MayAct(row) == row.status = "active" /\ row.flag
Admins == {u \in Users : MayAct(user[u]) /\ role[u]}

\* What a request is told: its user, a status or "same", what becomes of the role.
\* seen: the user as the session holds it; had: did current_roles hold the role;
\* todo, ids: the administrators still to be locked, and those found and locked;
\* locks: the rows locked; drop: the row of user_roles that is deleted.
NotMade == [pc |-> "start", of |-> 0, status |-> "same", roles |-> "keep", seen |-> NoUser,
            had |-> FALSE, todo |-> {}, ids |-> {}, locks |-> {}, drop |-> FALSE]

Init ==
    /\ role \in [Users -> BOOLEAN]
    /\ user \in [Users -> UserRow]
    /\ \A u \in Users : user[u].flag = role[u] /\ (role[u] => Exists(u))
    /\ Admins # {}
    /\ req = [c \in Requests |-> NotMade]

Goto(c, pc) == req' = [req EXCEPT ![c].pc = pc]
Finish(c) == req' = [req EXCEPT ![c] = [NotMade EXCEPT !.pc = "done"]]
Fail(c) == req' = [req EXCEPT ![c] = [NotMade EXCEPT !.pc = "failed"]]

Free(c, u) == \A d \in Requests \ {c} : u \notin req[d].locks

-----------------------------------------------------------------------------
(* require_tenant_admin, and what the caller asks for *)

\* The caller's row is loaded into the session the service goes on to use.
Authorize(c) ==
    /\ req[c].pc = "start"
    /\ \E caller \in Admins, u \in Users, roles \in {"keep", "grant", "revoke"},
          status \in {"same", "active", "inactive"} :
         /\ roles # "keep" \/ status # "same"
         /\ req' = [req EXCEPT ![c].pc = "load", ![c].of = u, ![c].roles = roles,
                               ![c].status = status,
                               ![c].seen = IF caller = u THEN user[u] ELSE NoUser]
    /\ UNCHANGED <<user, role>>

AuthorizeCreation(c) ==
    /\ req[c].pc = "start"
    /\ Admins # {}
    /\ \E u \in Users, roles \in {"grant", "revoke"}, status \in {"active", "inactive"} :
         req' = [req EXCEPT ![c].pc = "create", ![c].of = u, ![c].roles = roles,
                            ![c].status = status]
    /\ UNCHANGED <<user, role>>

CreateUnflushed(c) ==
    /\ req[c].pc = "create"
    /\ role' = [role EXCEPT ![req[c].of] = req[c].roles = "grant"]
    /\ Finish(c)
    /\ UNCHANGED user

\* create_user: the user and the roles in one transaction; the unique index on
\* the email refuses a user that exists.
Create(c) ==
    /\ req[c].pc = "create"
    /\ LET u == req[c].of IN
       \/ Exists(u) /\ Fail(c) /\ UNCHANGED <<user, role>>
       \/ /\ ~Exists(u)
          /\ user' = [user EXCEPT ![u] = [status |-> req[c].status,
                                          flag |-> req[c].roles = "grant"]]
          /\ role' = [role EXCEPT ![u] = req[c].roles = "grant"]
          /\ Finish(c)

-----------------------------------------------------------------------------
(* assign_roles (status "same") and update_user *)

\* get_user; a caller who changes itself gets the row that was loaded before.
Load(c) ==
    /\ req[c].pc = "load"
    /\ LET u == req[c].of
           loaded == IF req[c].seen = NoUser THEN user[u] ELSE Reselect(user[u], req[c].seen)
       IN  IF loaded = NoUser THEN Fail(c)
           ELSE req' = [req EXCEPT
                          ![c].seen = loaded,
                          ![c].pc = IF req[c].status = "same" THEN "select" ELSE "roles"]
    /\ UNCHANGED <<user, role>>

\* update_user only: current_roles.
ReadRoles(c) ==
    /\ req[c].pc = "roles"
    /\ req' = [req EXCEPT ![c].pc = "select", ![c].had = role[req[c].of]]
    /\ UNCHANGED <<user, role>>

\* active_administrator_ids(for_update=True) finds its rows with one snapshot ...
Select(c) ==
    /\ req[c].pc = "select"
    /\ req' = [req EXCEPT ![c].pc = "lock", ![c].todo = Admins]
    /\ UNCHANGED <<user, role>>

LockUnawaited(c) ==
    /\ req[c].pc = "lock" /\ req[c].todo # {}
    /\ req' = [req EXCEPT ![c].todo = {}, ![c].ids = req[c].todo]
    /\ UNCHANGED <<user, role>>

\* ... then locks one after the other, and leaves out a row that has stopped to
\* satisfy the WHERE.  Only the locked row is read again, not its user_roles.
Lock(c) ==
    /\ req[c].pc = "lock"
    /\ \E u \in req[c].todo :
         /\ \A v \in req[c].todo : u <= v
         /\ Free(c, u)
         /\ req' = [req EXCEPT ![c].todo = @ \ {u},
                               ![c].locks = @ \cup {u},
                               ![c].ids = IF MayAct(user[u]) THEN @ \cup {u} ELSE @]
    /\ UNCHANGED <<user, role>>

\* has_administrator_role(roles)
Grants(c) == req[c].roles = "grant" \/ (req[c].roles = "keep" /\ req[c].had)

\* The final administrator is not given up.
Decide(c) ==
    /\ req[c].pc = "lock" /\ req[c].todo = {}
    /\ IF req[c].ids = {req[c].of} /\ (req[c].status = "inactive" \/ ~Grants(c))
       THEN Fail(c)
       ELSE Goto(c, IF req[c].roles = "keep" THEN "commit" ELSE "replace")
    /\ UNCHANGED <<user, role>>

\* The DELETE of replace_user_roles, which waits for another that has not committed.
Replace(c) ==
    /\ req[c].pc = "replace"
    /\ \A d \in Requests \ {c} : ~(req[d].drop /\ req[d].of = req[c].of)
    /\ req' = [req EXCEPT ![c].pc = "commit", ![c].drop = role[req[c].of]]
    /\ UNCHANGED <<user, role>>

\* What the service makes of the user it holds.
Dirty(c) == [status |-> IF req[c].status = "same" THEN req[c].seen.status ELSE req[c].status,
             flag |-> Grants(c)]

\* The UPDATE and the foreign key of an INSERT into user_roles wait for the row.
NeedsUser(c) == Dirty(c) # req[c].seen \/ req[c].roles = "grant"

\* The role the request would insert is there, and not by its own doing.
Clash(c) == req[c].roles = "grant" /\ role[req[c].of] /\ ~req[c].drop

CommitWholeRow(c) ==
    /\ req[c].pc = "commit"
    /\ Free(c, req[c].of)
    /\ user' = [user EXCEPT ![req[c].of] = Dirty(c)]
    /\ role' = [role EXCEPT ![req[c].of] = req[c].roles = "grant" \/ (@ /\ ~req[c].drop)]
    /\ Finish(c)

\* The flush and the commit.
Commit(c) ==
    /\ req[c].pc = "commit"
    /\ NeedsUser(c) => Free(c, req[c].of)
    /\ LET u == req[c].of IN
       \/ Clash(c) /\ Fail(c) /\ UNCHANGED <<user, role>>
       \/ /\ ~Clash(c)
          /\ user' = [user EXCEPT ![u] = Flush(@, req[c].seen, Dirty(c))]
          /\ role' = [role EXCEPT ![u] = req[c].roles = "grant" \/ (@ /\ ~req[c].drop)]
          /\ Finish(c)

\* The process or the connection dies, or Postgres aborts the transaction: two
\* requests can lock users in different orders, the counted ones before their own.
RequestDies(c) ==
    /\ req[c].pc \notin {"start", "done", "failed"}
    /\ Fail(c)
    /\ UNCHANGED <<user, role>>

Rest ==
    /\ \A c \in Requests : req[c].pc \in {"start", "done", "failed"}
    /\ UNCHANGED vars

Next ==
    \/ \E c \in Requests :
         \/ Authorize(c) \/ AuthorizeCreation(c) \/ Create(c)
         \/ Load(c) \/ ReadRoles(c) \/ Select(c) \/ Lock(c)
         \/ Decide(c) \/ Replace(c) \/ Commit(c) \/ RequestDies(c)
    \/ Rest

Spec == Init /\ [][Next]_vars

-----------------------------------------------------------------------------
(* Properties *)

\* The types, that roles belong to users, and that only a request under way
\* keeps a row from the others.
TypeOK ==
    /\ user \in [Users -> UserRow]
    /\ role \in [Users -> BOOLEAN]
    /\ \A u \in Users : role[u] \/ user[u].flag => Exists(u)
    /\ req \in [Requests ->
                  [pc : {"start", "create", "load", "roles", "select", "lock", "replace",
                         "commit", "done", "failed"},
                   of : Users \cup {0}, status : {"same", "active", "inactive"},
                   roles : {"keep", "grant", "revoke"}, seen : UserRow, had : BOOLEAN,
                   todo : SUBSET Users, ids : SUBSET Users, locks : SUBSET Users,
                   drop : BOOLEAN]]
    /\ \A c \in Requests : req[c].locks # {} => req[c].pc \in {"lock", "replace", "commit"}

\* Requests that race to give up administrators leave the last of those they
\* have counted, however old the users are that their sessions hold.  Only a user
\* who became one after the count, or whose flag and role disagree, is not kept.
CountedAdministratorIsKept ==
    [][Admins # {} /\ Admins' = {} =>
         \/ \E c \in Requests : req[c].pc = "commit" /\ req[c].of \in Admins \ req[c].ids
         \/ \E u \in Users : user[u].flag # role[u]]_vars

\* A user who was deactivated stays so until a request asks for "active": no
\* session that still holds the active user writes it back with the roles.
DeactivationIsNotUndone ==
    [][\A u \in Users : user[u].status = "inactive" /\ user'[u].status = "active" =>
         \E c \in Requests : /\ req[c].pc = "commit" /\ req'[c].pc = "done"
                             /\ req[c].of = u /\ req[c].status = "active"]_vars
=============================================================================
