-------------------------- MODULE TenantAdminProofs --------------------------
(* Theorems about TenantAdmin, for any number of users and requests. *)
EXTENDS TenantAdmin, TLAPS

-----------------------------------------------------------------------------
(* The inductive invariant: what a request may rely on after its wait. *)

RequestRecord ==
    [pc : {"start", "create", "load", "roles", "select", "lock", "replace",
           "commit", "done", "failed"},
     of : Users \cup {0}, status : {"same", "active", "inactive"},
     roles : {"keep", "grant", "revoke"}, seen : UserRow, had : BOOLEAN,
     todo : SUBSET Users, ids : SUBSET Users, locks : SUBSET Users, drop : BOOLEAN]

LocksExclusive ==
    \A c, d \in Requests : c # d => req[c].locks \cap req[d].locks = {}

\* What the service makes of the user's flag: Grants of the request's record.
Given(r) == r.roles = "grant" \/ (r.roles = "keep" /\ r.had)

\* The guard on the final administrator has let the request pass.
Passed(r) == r.ids # {r.of} \/ (r.status # "inactive" /\ Given(r))

HasLoaded(r) == r.seen.status # "absent" /\ Exists(r.of)
Begun == {"roles", "select", "lock", "replace", "commit"}

\* The users counted are locked and still may act; a request that writes a user
\* has loaded it, and a user is never removed.
RequestsHold ==
    \A c \in Requests :
        /\ req[c].pc \notin {"start", "done", "failed"} => req[c].of \in Users
        /\ req[c].pc = "create" => req[c].status # "same"
        /\ req[c].pc = "load" => req[c].seen = NoUser \/ HasLoaded(req[c])
        /\ req[c].pc \in Begun => HasLoaded(req[c])
        /\ req[c].ids \subseteq req[c].locks
        /\ \A u \in req[c].ids : MayAct(user[u])
        /\ req[c].pc \in {"replace", "commit"} => Passed(req[c])

Inv == TypeOK /\ LocksExclusive /\ RequestsHold

Step(c) ==
    \/ Authorize(c) \/ AuthorizeCreation(c) \/ Create(c)
    \/ Load(c) \/ ReadRoles(c) \/ Select(c) \/ Lock(c)
    \/ Decide(c) \/ Replace(c) \/ Commit(c) \/ RequestDies(c)

-----------------------------------------------------------------------------
(* What a step makes of the users. *)

\* A flush of a user is a user, attribute by attribute.
LEMMA FlushedUser ==
    ASSUME NEW stored \in UserRow, NEW loaded \in UserRow, NEW dirty \in UserRow
    PROVE  LET new == Flush(stored, loaded, dirty) IN
           /\ new \in UserRow
           /\ new.status = IF dirty.status = loaded.status THEN stored.status ELSE dirty.status
           /\ new.flag = IF dirty.flag = loaded.flag THEN stored.flag ELSE dirty.flag
<1>1. DOMAIN stored = {"status", "flag"}
  BY DEF UserRow
<1>2. Flush(stored, loaded, dirty) =
        [a \in {"status", "flag"} |-> IF dirty[a] = loaded[a] THEN stored[a] ELSE dirty[a]]
  BY <1>1 DEF Flush
<1>3. Flush(stored, loaded, dirty) =
        [status |-> IF dirty.status = loaded.status THEN stored.status ELSE dirty.status,
         flag   |-> IF dirty.flag = loaded.flag THEN stored.flag ELSE dirty.flag]
  BY <1>2
<1>4. QED BY <1>3 DEF UserRow

Written(c) ==
    /\ req[c].pc = "commit"
    /\ NeedsUser(c) => Free(c, req[c].of)
    /\ user' = [user EXCEPT ![req[c].of] = Flush(@, req[c].seen, Dirty(c))]
    /\ role' = [role EXCEPT ![req[c].of] = req[c].roles = "grant" \/ (@ /\ ~req[c].drop)]
    /\ req' = [req EXCEPT ![c] = [NotMade EXCEPT !.pc = "done"]]

Created(c) ==
    LET u == req[c].of IN
    /\ req[c].pc = "create" /\ ~Exists(u)
    /\ user' = [user EXCEPT ![u] = [status |-> req[c].status, flag |-> req[c].roles = "grant"]]
    /\ role' = [role EXCEPT ![u] = req[c].roles = "grant"]

LEMMA StepOnUsers ==
    ASSUME NEW c \in Requests, Step(c)
    PROVE  Written(c) \/ Created(c) \/ UNCHANGED <<user, role>>
BY DEF Step, Authorize, AuthorizeCreation, Create, Load, ReadRoles, Select, Lock, Decide,
       Replace, Commit, RequestDies, Written, Created, Finish

\* The written user, attribute by attribute.
LEMMA WrittenUser ==
    ASSUME Inv, NEW c \in Requests, Written(c)
    PROVE  LET r == req[c] IN
           /\ r \in RequestRecord /\ r.of \in Users
           /\ user' \in [Users -> UserRow] /\ role' \in [Users -> BOOLEAN]
           /\ user'[r.of].status = IF r.status \in {"same", r.seen.status}
                                   THEN user[r.of].status ELSE r.status
           /\ user'[r.of].flag = IF Given(r) = r.seen.flag THEN user[r.of].flag ELSE Given(r)
           /\ role'[r.of] = (r.roles = "grant" \/ (role[r.of] /\ ~r.drop))
           /\ \A u \in Users : u # r.of => user'[u] = user[u] /\ role'[u] = role[u]
<1> DEFINE r == req[c]
<1>1. r \in RequestRecord /\ r.of \in Users /\ r.seen \in UserRow
      /\ user \in [Users -> UserRow] /\ role \in [Users -> BOOLEAN]
  BY DEF Inv, TypeOK, RequestsHold, RequestRecord, Written
<1>2. Dirty(c) \in UserRow /\ Dirty(c).flag = Given(r)
      /\ Dirty(c).status = IF r.status = "same" THEN r.seen.status ELSE r.status
  BY <1>1 DEF Dirty, Grants, Given, UserRow, RequestRecord
<1> DEFINE new == Flush(user[r.of], r.seen, Dirty(c))
<1>3. /\ new \in UserRow
      /\ new.status = IF r.status \in {"same", r.seen.status} THEN user[r.of].status ELSE r.status
      /\ new.flag = IF Given(r) = r.seen.flag THEN user[r.of].flag ELSE Given(r)
  BY <1>1, <1>2, FlushedUser
<1>4. user' = [user EXCEPT ![r.of] = new]
      /\ role' = [role EXCEPT ![r.of] = r.roles = "grant" \/ (@ /\ ~r.drop)]
  BY DEF Written
<1> HIDE DEF new
<1>5. QED BY <1>1, <1>3, <1>4

\* The created user, and that nobody else is touched.
LEMMA CreatedUser ==
    ASSUME Inv, NEW c \in Requests, Created(c)
    PROVE  LET r == req[c] IN
           /\ r.of \in Users /\ user[r.of].status = "absent"
           /\ user' \in [Users -> UserRow] /\ role' \in [Users -> BOOLEAN]
           /\ user'[r.of].status = r.status /\ r.status # "absent"
           /\ user'[r.of].flag = role'[r.of]
           /\ \A u \in Users : u # r.of => user'[u] = user[u] /\ role'[u] = role[u]
<1> DEFINE r == req[c]
           new == [status |-> r.status, flag |-> r.roles = "grant"]
<1>1. r \in RequestRecord /\ r.of \in Users /\ r.status # "same"
      /\ user \in [Users -> UserRow] /\ role \in [Users -> BOOLEAN]
  BY DEF Inv, TypeOK, RequestsHold, RequestRecord, Created
<1>2. new \in UserRow /\ new.status = r.status /\ new.flag = (r.roles = "grant")
      /\ r.status # "absent"
  BY <1>1 DEF UserRow, RequestRecord
<1>3. /\ user' = [user EXCEPT ![r.of] = new]
      /\ role' = [role EXCEPT ![r.of] = r.roles = "grant"]
      /\ user[r.of].status = "absent"
  BY DEF Created, Exists
<1> HIDE DEF new
<1>4. QED BY <1>1, <1>2, <1>3

\* Users are never removed, keep what belongs together, and stop to be able to
\* act only when nobody else has them locked.
LEMMA UserEffect ==
    ASSUME Inv, NEW c \in Requests, Step(c)
    PROVE  /\ user' \in [Users -> UserRow] /\ role' \in [Users -> BOOLEAN]
           /\ \A u \in Users : role'[u] \/ user'[u].flag => user'[u].status # "absent"
           /\ \A u \in Users : Exists(u) => user'[u].status # "absent"
           /\ \A u \in Users : MayAct(user[u]) /\ ~MayAct(user'[u]) => Free(c, u)
<1>1. /\ user \in [Users -> UserRow] /\ role \in [Users -> BOOLEAN]
      /\ \A u \in Users : role[u] \/ user[u].flag => user[u].status # "absent"
  BY DEF Inv, TypeOK, Exists
<1>2. CASE UNCHANGED <<user, role>>
  BY <1>1, <1>2 DEF Exists
<1>3. CASE Created(c)
  <2> DEFINE r == req[c]
  <2>1. /\ r.of \in Users /\ user[r.of].status = "absent"
        /\ user' \in [Users -> UserRow] /\ role' \in [Users -> BOOLEAN]
        /\ user'[r.of].status # "absent"
        /\ \A u \in Users : u # r.of => user'[u] = user[u] /\ role'[u] = role[u]
    BY <1>3, CreatedUser
  <2>2. QED BY <1>1, <2>1 DEF Exists, MayAct
<1>4. CASE Written(c)
  <2> DEFINE r == req[c]
  <2>1. /\ r \in RequestRecord /\ r.of \in Users
        /\ user' \in [Users -> UserRow] /\ role' \in [Users -> BOOLEAN]
        /\ user'[r.of].status = IF r.status \in {"same", r.seen.status}
                                THEN user[r.of].status ELSE r.status
        /\ user'[r.of].flag = IF Given(r) = r.seen.flag THEN user[r.of].flag ELSE Given(r)
        /\ \A u \in Users : u # r.of => user'[u] = user[u] /\ role'[u] = role[u]
    BY <1>4, WrittenUser
  <2>2. r.pc = "commit" /\ user[r.of].status # "absent"
    BY <1>4 DEF Written, Inv, RequestsHold, Begun, HasLoaded, Exists
  <2>3. user'[r.of].status # "absent"
    BY <2>1, <2>2 DEF RequestRecord
  <2>4. ASSUME ~NeedsUser(c) PROVE user'[r.of].status = user[r.of].status
                                   /\ user'[r.of].flag = user[r.of].flag
    <3>1. Dirty(c) = r.seen
      BY <2>4 DEF NeedsUser
    <3>2. /\ r.seen.status = IF r.status = "same" THEN r.seen.status ELSE r.status
          /\ r.seen.flag = Given(r)
      BY <3>1 DEF Dirty, Grants, Given
    <3>3. QED BY <2>1, <3>2
  <2>5. MayAct(user[r.of]) /\ ~MayAct(user'[r.of]) => Free(c, r.of)
    BY <1>4, <2>4 DEF MayAct, Written
  <2>6. QED BY <1>1, <2>1, <2>2, <2>3, <2>5 DEF Exists
<1>5. QED BY <1>2, <1>3, <1>4, StepOnUsers

-----------------------------------------------------------------------------
(* What a step makes of the request. *)

Outcome(c, new) ==
    LET old == req[c]
        same == new.of = old.of /\ new.ids = old.ids /\ new.locks = old.locks
        told == same /\ new.status = old.status /\ new.roles = old.roles /\ new.had = old.had
    IN
    \/ new.pc \in {"done", "failed"} /\ new.ids = {} /\ new.locks = {}
    \/ /\ old.pc = "start" /\ new.pc \in {"load", "create"} /\ new.of \in Users
       /\ new.ids = {} /\ new.locks = {}
       /\ new.pc = "create" => new.status # "same"
       /\ new.pc = "load" => new.seen = NoUser \/ HasLoaded(new)
    \/ /\ old.pc = "load" /\ new.pc \in {"select", "roles"} /\ same
       /\ HasLoaded(new)
    \/ /\ old.pc \in {"roles", "select"} /\ new.pc \in {"select", "lock"} /\ same
       /\ new.seen = old.seen
    \/ /\ old.pc = "lock" /\ new.pc = "lock" /\ new.seen = old.seen /\ new.of = old.of
       /\ \E u \in old.todo : /\ Free(c, u) /\ new.locks = old.locks \cup {u}
                              /\ \/ new.ids = old.ids
                                 \/ new.ids = old.ids \cup {u} /\ MayAct(user[u])
    \/ /\ old.pc = "lock" /\ new.pc \in {"replace", "commit"} /\ told
       /\ new.seen = old.seen /\ Passed(new)
    \/ /\ old.pc = "replace" /\ new.pc = "commit" /\ told /\ new.seen = old.seen

LEMMA InitialRequest ==
    /\ NotMade \in RequestRecord /\ NotMade.pc = "start" /\ NotMade.ids = {}
    /\ NotMade.locks = {} /\ NotMade.status = "same"
BY DEF NotMade, RequestRecord, UserRow, NoUser

LEMMA RequestOutcome ==
    ASSUME Inv, NEW c \in Requests, Step(c)
    PROVE  \E new \in RequestRecord : req' = [req EXCEPT ![c] = new] /\ Outcome(c, new)
<1> DEFINE old == req[c]
           Goal == \E new \in RequestRecord : req' = [req EXCEPT ![c] = new] /\ Outcome(c, new)
<1>1. /\ old \in RequestRecord /\ req \in [Requests -> RequestRecord]
      /\ user \in [Users -> UserRow] /\ role \in [Users -> BOOLEAN]
      /\ old.pc \notin {"start", "done", "failed"} => old.of \in Users
      /\ old.ids \subseteq old.locks
      /\ old.pc \notin {"lock", "replace", "commit"} => old.locks = {} /\ old.ids = {}
  BY DEF Inv, TypeOK, RequestsHold, RequestRecord
<1>2. ASSUME NEW pc \in {"done", "failed"}, req' = [req EXCEPT ![c] = [NotMade EXCEPT !.pc = pc]]
      PROVE  Goal
  <2> DEFINE new == [NotMade EXCEPT !.pc = pc]
  <2>1. new \in RequestRecord /\ new.pc = pc /\ new.ids = {} /\ new.locks = {}
    BY InitialRequest DEF RequestRecord
  <2> HIDE DEF new
  <2>2. QED BY <1>2, <2>1 DEF Outcome, new
<1> HIDE DEF old
<1>3. ASSUME NEW new \in RequestRecord, req' = [req EXCEPT ![c] = new], Outcome(c, new) PROVE Goal
  BY <1>3
<1>4. CASE Authorize(c)
  <2>1. PICK caller \in Admins, u \in Users, roles \in {"keep", "grant", "revoke"},
             status \in {"same", "active", "inactive"} :
          /\ roles # "keep" \/ status # "same"
          /\ req' = [req EXCEPT ![c].pc = "load", ![c].of = u, ![c].roles = roles,
                                ![c].status = status,
                                ![c].seen = IF caller = u THEN user[u] ELSE NoUser]
    BY <1>4 DEF Authorize
  <2> DEFINE loaded == IF caller = u THEN user[u] ELSE NoUser
             new == [old EXCEPT !.pc = "load", !.of = u, !.roles = roles, !.status = status,
                                !.seen = loaded]
  <2>2. old.pc = "start" /\ loaded \in UserRow
    BY <1>1, <1>4 DEF Authorize, old, NoUser, UserRow
  <2>3. req' = [req EXCEPT ![c] = new]
    BY <2>1 DEF old
  <2>4. loaded = NoUser \/ (loaded.status # "absent" /\ Exists(u))
    BY DEF Admins, MayAct, Exists
  <2> HIDE DEF loaded
  <2>5. /\ new \in RequestRecord /\ new.pc = "load" /\ new.of = u /\ new.seen = loaded
        /\ new.ids = {} /\ new.locks = {}
    <3>1. new \in RequestRecord /\ new.pc = "load" /\ new.of = u /\ new.seen = loaded
      BY <1>1, <2>2 DEF RequestRecord
    <3>2. new.ids = old.ids /\ new.locks = old.locks
      BY <1>1 DEF RequestRecord
    <3>3. QED BY <1>1, <2>2, <3>1, <3>2
  <2> HIDE DEF new
  <2>6. QED BY <1>3, <2>2, <2>3, <2>4, <2>5 DEF Outcome, HasLoaded, old
<1>5. CASE AuthorizeCreation(c)
  <2>1. PICK u \in Users, roles \in {"grant", "revoke"}, status \in {"active", "inactive"} :
          req' = [req EXCEPT ![c].pc = "create", ![c].of = u, ![c].roles = roles,
                             ![c].status = status]
    BY <1>5 DEF AuthorizeCreation
  <2> DEFINE new == [old EXCEPT !.pc = "create", !.of = u, !.roles = roles, !.status = status]
  <2>s. old.pc = "start"
    BY <1>5 DEF AuthorizeCreation, old
  <2>2. old.pc = "start" /\ req' = [req EXCEPT ![c] = new]
    BY <2>s, <2>1 DEF old
  <2>3. /\ new \in RequestRecord /\ new.pc = "create" /\ new.of = u /\ new.status # "same"
        /\ new.ids = {} /\ new.locks = {}
    <3>0. new \in RequestRecord
      BY <1>1 DEF RequestRecord
    <3>1. new.pc = "create" /\ new.of = u /\ new.status = status
      BY <1>1 DEF RequestRecord
    <3>2. new.ids = old.ids /\ new.locks = old.locks
      BY <1>1 DEF RequestRecord
    <3> HIDE DEF new
    <3>3. QED BY <1>1, <2>2, <3>0, <3>1, <3>2
  <2> HIDE DEF new
  <2>4. QED BY <1>3, <2>2, <2>3 DEF Outcome, old
<1>6. CASE Create(c)
  BY <1>2, <1>6 DEF Create, Finish, Fail
<1>7. CASE Load(c)
  <2> DEFINE u == old.of
             loaded == IF old.seen = NoUser THEN user[u] ELSE old.seen
             next == IF old.status = "same" THEN "select" ELSE "roles"
             new == [old EXCEPT !.seen = loaded, !.pc = next]
  <2>1. old.pc = "load" /\ u \in Users
    BY <1>1, <1>7 DEF Load, old
  <2>2. CASE loaded = NoUser
    BY <1>2, <1>7, <2>2 DEF Load, Fail, Reselect, old
  <2>3. CASE loaded # NoUser
    <3>1. req' = [req EXCEPT ![c] = new]
      BY <1>7, <2>3 DEF Load, Reselect, old
    <3>2. loaded \in UserRow
      BY <1>1, <2>1 DEF RequestRecord
    <3>3. next \in {"select", "roles"}
      OBVIOUS
    <3> HIDE DEF loaded, next
    <3>4. /\ new \in RequestRecord /\ new.pc = next /\ new.of = old.of /\ new.seen = loaded
          /\ new.ids = old.ids /\ new.locks = old.locks
      BY <1>1, <3>2, <3>3 DEF RequestRecord
    <3> HIDE DEF new
    <3>5. HasLoaded(new)
      <4>1. CASE old.seen = NoUser
        <5>1. loaded = user[u]
          BY <4>1 DEF loaded
        <5>2. user[u].status # "absent"
          <6>1. ASSUME user[u].status = "absent" PROVE FALSE
            <7>1. user[u].flag = FALSE /\ user[u] \in UserRow
              BY <1>1, <2>1, <6>1 DEF Inv, TypeOK, Exists, UserRow
            <7>2. user[u] = NoUser
              BY <6>1, <7>1 DEF UserRow, NoUser
            <7>3. QED BY <2>3, <5>1, <7>2
          <6>2. QED BY <6>1
        <5>3. QED BY <3>4, <5>1, <5>2 DEF HasLoaded, Exists
      <4>2. CASE old.seen # NoUser
        <5>1. HasLoaded(old) /\ loaded = old.seen
          BY <2>1, <4>2 DEF Inv, RequestsHold, old, loaded
        <5>2. QED BY <3>4, <5>1 DEF HasLoaded
      <4>3. QED BY <4>1, <4>2
    <3>6. QED BY <1>3, <2>1, <3>1, <3>3, <3>4, <3>5 DEF Outcome, old
  <2>4. QED BY <2>2, <2>3
<1>8. CASE ReadRoles(c)
  <2> DEFINE new == [old EXCEPT !.pc = "select", !.had = role[old.of]]
  <2>1. old.pc = "roles" /\ req' = [req EXCEPT ![c] = new]
    BY <1>8 DEF ReadRoles, old
  <2>2. role[old.of] \in BOOLEAN
    BY <1>1, <2>1
  <2>3. /\ new \in RequestRecord /\ new.pc = "select" /\ new.of = old.of /\ new.seen = old.seen
        /\ new.ids = old.ids /\ new.locks = old.locks
    BY <1>1, <2>2 DEF RequestRecord
  <2> HIDE DEF new
  <2>4. QED BY <1>3, <2>1, <2>3 DEF Outcome, old
<1>9. CASE Select(c)
  <2> DEFINE new == [old EXCEPT !.pc = "lock", !.todo = Admins]
  <2>1. old.pc = "select" /\ req' = [req EXCEPT ![c] = new]
    BY <1>9 DEF Select, old
  <2>2. Admins \subseteq Users
    BY DEF Admins
  <2>3. /\ new \in RequestRecord /\ new.pc = "lock" /\ new.of = old.of /\ new.seen = old.seen
        /\ new.ids = old.ids /\ new.locks = old.locks
    BY <1>1, <2>2 DEF RequestRecord
  <2> HIDE DEF new
  <2>4. QED BY <1>3, <2>1, <2>3 DEF Outcome, old
<1>10. CASE Lock(c)
  <2>1. PICK u \in old.todo :
          /\ Free(c, u)
          /\ req' = [req EXCEPT ![c].todo = @ \ {u}, ![c].locks = @ \cup {u},
                                ![c].ids = IF MayAct(user[u]) THEN @ \cup {u} ELSE @]
    BY <1>10 DEF Lock, old
  <2> DEFINE ids == IF MayAct(user[u]) THEN old.ids \cup {u} ELSE old.ids
             new == [old EXCEPT !.todo = @ \ {u}, !.locks = @ \cup {u}, !.ids = ids]
  <2>2. old.pc = "lock" /\ req' = [req EXCEPT ![c] = new]
    BY <1>10, <2>1 DEF Lock, old
  <2>3. u \in Users /\ ids \subseteq Users
    BY <1>1 DEF RequestRecord
  <2>4. ids = old.ids \/ (ids = old.ids \cup {u} /\ MayAct(user[u]))
    OBVIOUS
  <2> HIDE DEF ids
  <2>5. /\ new \in RequestRecord /\ new.pc = "lock" /\ new.of = old.of /\ new.seen = old.seen
        /\ new.ids = ids /\ new.locks = old.locks \cup {u}
    BY <1>1, <2>2, <2>3 DEF RequestRecord
  <2> HIDE DEF new
  <2>6. QED BY <1>3, <2>1, <2>2, <2>4, <2>5 DEF Outcome, old
<1>11. CASE Decide(c)
  <2>1. CASE Fail(c)
    BY <1>2, <2>1 DEF Fail
  <2>2. CASE ~Fail(c)
    <3>1. PICK pc \in {"replace", "commit"} : Goto(c, pc)
      BY <1>11, <2>2 DEF Decide
    <3> DEFINE new == [old EXCEPT !.pc = pc]
    <3>2. old.pc = "lock" /\ req' = [req EXCEPT ![c] = new] /\ Passed(old)
      BY <1>11, <2>2, <3>1 DEF Decide, Goto, Passed, Given, Grants, old
    <3>3. /\ new \in RequestRecord /\ new.pc = pc /\ new.of = old.of /\ new.seen = old.seen
          /\ new.ids = old.ids /\ new.locks = old.locks /\ new.status = old.status
          /\ new.roles = old.roles /\ new.had = old.had
      BY <1>1 DEF RequestRecord
    <3> HIDE DEF new
    <3>4. Passed(new)
      BY <3>2, <3>3 DEF Passed, Given
    <3>5. QED BY <1>3, <3>2, <3>3, <3>4 DEF Outcome, old
  <2>3. QED BY <2>1, <2>2
<1>12. CASE Replace(c)
  <2> DEFINE new == [old EXCEPT !.pc = "commit", !.drop = role[old.of]]
  <2>1. old.pc = "replace" /\ req' = [req EXCEPT ![c] = new]
    BY <1>12 DEF Replace, old
  <2>2. role[old.of] \in BOOLEAN
    BY <1>1, <2>1
  <2>3. /\ new \in RequestRecord /\ new.pc = "commit" /\ new.of = old.of /\ new.seen = old.seen
        /\ new.ids = old.ids /\ new.locks = old.locks /\ new.status = old.status
        /\ new.roles = old.roles /\ new.had = old.had
    BY <1>1, <2>2 DEF RequestRecord
  <2> HIDE DEF new
  <2>4. QED BY <1>3, <2>1, <2>3 DEF Outcome, old
<1>13. CASE Commit(c)
  BY <1>2, <1>13 DEF Commit, Finish, Fail
<1>14. CASE RequestDies(c)
  BY <1>2, <1>14 DEF RequestDies, Fail
<1>15. QED
  BY <1>4, <1>5, <1>6, <1>7, <1>8, <1>9, <1>10, <1>11, <1>12, <1>13, <1>14 DEF Step

-----------------------------------------------------------------------------
(* The invariant is inductive. *)

LEMMA InitInv == Init => Inv
<1> SUFFICES ASSUME Init PROVE Inv
  OBVIOUS
<1>1. req \in [Requests -> RequestRecord] /\ \A c \in Requests : req[c] = NotMade
  BY InitialRequest DEF Init
<1>2. TypeOK
  BY <1>1, InitialRequest DEF Init, TypeOK, RequestRecord
<1>3. QED BY <1>1, <1>2, InitialRequest DEF Inv, LocksExclusive, RequestsHold, Begun

LEMMA StepInv ==
    ASSUME Inv, NEW c \in Requests, Step(c)
    PROVE  Inv'
<1>1. PICK new \in RequestRecord : req' = [req EXCEPT ![c] = new] /\ Outcome(c, new)
  BY RequestOutcome
<1>2. /\ req' \in [Requests -> RequestRecord] /\ req'[c] = new
      /\ \A d \in Requests : d # c => req'[d] = req[d]
  BY <1>1 DEF Inv, TypeOK, RequestRecord
<1>3. /\ user' \in [Users -> UserRow] /\ role' \in [Users -> BOOLEAN]
      /\ \A u \in Users : role'[u] \/ user'[u].flag => user'[u].status # "absent"
      /\ \A u \in Users : Exists(u) => user'[u].status # "absent"
      /\ \A u \in Users : MayAct(user[u]) /\ ~MayAct(user'[u]) => Free(c, u)
  BY UserEffect
<1>4. ASSUME NEW d \in Requests
      PROVE  /\ req[d] \in RequestRecord
             /\ req[d].pc \notin {"start", "done", "failed"} => req[d].of \in Users
             /\ req[d].pc = "create" => req[d].status # "same"
             /\ req[d].pc = "load" => req[d].seen = NoUser \/ HasLoaded(req[d])
             /\ req[d].pc \in Begun => HasLoaded(req[d])
             /\ req[d].ids \subseteq req[d].locks
             /\ \A u \in req[d].ids : MayAct(user[u])
             /\ req[d].pc \in {"replace", "commit"} => Passed(req[d])
             /\ req[d].locks # {} => req[d].pc \in {"lock", "replace", "commit"}
  BY DEF Inv, TypeOK, RequestsHold, RequestRecord
<1>5. TypeOK'
  <2>1. ASSUME NEW d \in Requests, req'[d].locks # {}
        PROVE  req'[d].pc \in {"lock", "replace", "commit"}
    BY <1>1, <1>2, <1>4, <2>1 DEF Outcome
  <2>2. QED BY <1>2, <1>3, <2>1 DEF TypeOK, Exists, RequestRecord
<1>6. LocksExclusive'
  <2>1. ASSUME NEW d \in Requests, d # c PROVE new.locks \cap req[d].locks = {}
    <3>1. req[c].locks \cap req[d].locks = {}
      BY <2>1 DEF Inv, LocksExclusive
    <3>2. QED BY <1>1, <2>1, <3>1 DEF Outcome, Free
  <2>2. QED BY <1>2, <2>1 DEF Inv, LocksExclusive
\* Users change only in the last step of a request.
<1>7. new.pc \notin {"done", "failed"} => user' = user
  BY <1>1, StepOnUsers DEF Written, Created, Outcome
<1>8. ASSUME NEW d \in Requests
      PROVE  /\ req'[d].pc \notin {"start", "done", "failed"} => req'[d].of \in Users
             /\ req'[d].pc = "create" => req'[d].status # "same"
             /\ req'[d].ids \subseteq req'[d].locks
             /\ \A u \in req'[d].ids : MayAct(user'[u])
             /\ req'[d].pc \in {"replace", "commit"} => Passed(req'[d])
  <2>1. CASE d # c
    <3>1. req'[d] = req[d]
      BY <1>2, <2>1
    <3>2. ASSUME NEW u \in req[d].ids PROVE MayAct(user'[u])
      <4>1. u \in req[d].locks /\ u \in Users /\ MayAct(user[u])
        BY <1>4 DEF RequestRecord
      <4>2. ~Free(c, u)
        BY <2>1, <4>1 DEF Free
      <4>3. QED BY <1>3, <4>1, <4>2
    <3>3. QED BY <1>4, <3>1, <3>2
  <2>2. CASE d = c
    <3>1. \A u \in new.ids : MayAct(user'[u])
      <4>1. CASE new.pc \in {"done", "failed"}
        BY <1>1, <4>1 DEF Outcome
      <4>2. CASE new.pc \notin {"done", "failed"}
        BY <1>1, <1>4, <1>7, <4>2 DEF Outcome
      <4>3. QED BY <4>1, <4>2
    <3>2. new.ids \subseteq new.locks
      BY <1>1, <1>4 DEF Outcome
    <3>3. new.pc \in {"replace", "commit"} => Passed(new)
      BY <1>1, <1>4 DEF Outcome, Passed, Given
    <3>4. QED BY <1>1, <1>2, <1>4, <2>2, <3>1, <3>2, <3>3 DEF Outcome
  <2>3. QED BY <2>1, <2>2
<1>9. ASSUME NEW d \in Requests
      PROVE  /\ req'[d].pc = "load" => req'[d].seen = NoUser \/ HasLoaded(req'[d])
             /\ req'[d].pc \in Begun => HasLoaded(req'[d])
  <2>1. CASE d # c
    BY <1>2, <1>4, <2>1
  <2>2. CASE d = c
    BY <1>1, <1>2, <1>4, <2>2 DEF Outcome, Begun, HasLoaded
  <2>3. QED BY <2>1, <2>2
<1>10. ASSUME NEW d \in Requests, HasLoaded(req'[d]), req'[d].of \in Users
       PROVE  req'[d].seen.status # "absent" /\ user'[req'[d].of].status # "absent"
  BY <1>3, <1>10 DEF HasLoaded
<1>11. RequestsHold'
  BY <1>8, <1>9, <1>10 DEF RequestsHold, HasLoaded, Exists, Begun
<1>12. QED BY <1>5, <1>6, <1>11 DEF Inv

LEMMA NextInv == Inv /\ [Next]_vars => Inv'
<1> SUFFICES ASSUME Inv, [Next]_vars PROVE Inv'
  OBVIOUS
<1>1. CASE UNCHANGED vars
  BY <1>1 DEF vars, Inv, TypeOK, LocksExclusive, RequestsHold, HasLoaded, Exists
<1>2. QED BY <1>1, StepInv DEF Next, Step, Rest

LEMMA InvHolds == Spec => []Inv
<1>1. QED BY InitInv, NextInv, PTL DEF Spec

\* A role is deleted only by a request that was told to replace the roles.
DropsAsTold ==
    \A c \in Requests :
        /\ req[c].drop => req[c].pc = "commit" /\ req[c].roles # "keep"
        /\ req[c].pc = "replace" => req[c].roles # "keep"

LEMMA StepDrops ==
    ASSUME Inv, DropsAsTold, NEW c \in Requests, Step(c)
    PROVE  DropsAsTold'
<1>1. PICK new \in RequestRecord : req' = [req EXCEPT ![c] = new] /\ Outcome(c, new)
  BY RequestOutcome
<1>2. /\ req \in [Requests -> RequestRecord] /\ req'[c] = new
      /\ \A d \in Requests : d # c => req'[d] = req[d]
  BY <1>1 DEF Inv, TypeOK, RequestRecord
<1>3. /\ req[c].drop => req[c].pc = "commit" /\ req[c].roles # "keep"
      /\ req[c].pc = "replace" => req[c].roles # "keep"
      /\ req[c] \in RequestRecord
  BY <1>2 DEF DropsAsTold
<1>4. /\ req'[c].drop => req'[c].pc = "commit" /\ req'[c].roles # "keep"
      /\ req'[c].pc = "replace" => req'[c].roles # "keep"
  <2>1. CASE Authorize(c) \/ AuthorizeCreation(c)
    <3> SUFFICES req'[c].pc \in {"load", "create"} /\ req'[c].drop = req[c].drop
                 /\ req[c].pc = "start"
      BY <1>3
    <3>1. CASE Authorize(c)
      <4>1. PICK caller \in Admins, u \in Users, roles \in {"keep", "grant", "revoke"},
                 status \in {"same", "active", "inactive"} :
              /\ roles # "keep" \/ status # "same"
              /\ req' = [req EXCEPT ![c].pc = "load", ![c].of = u, ![c].roles = roles,
                                    ![c].status = status,
                                    ![c].seen = IF caller = u THEN user[u] ELSE NoUser]
        BY <3>1 DEF Authorize
      <4> DEFINE loaded == IF caller = u THEN user[u] ELSE NoUser
                 told == [req[c] EXCEPT !.pc = "load", !.of = u, !.roles = roles,
                                        !.status = status, !.seen = loaded]
      <4>2. req' = [req EXCEPT ![c] = told]
        BY <4>1
      <4> HIDE DEF loaded
      <4>3. told.pc = "load" /\ told.drop = req[c].drop
        BY <1>3 DEF RequestRecord
      <4>4. req[c].pc = "start"
        BY <3>1 DEF Authorize
      <4>5. req'[c] = told
        BY <1>2, <4>2
      <4> HIDE DEF told
      <4>6. QED BY <4>3, <4>4, <4>5
    <3>2. CASE AuthorizeCreation(c)
      <4>1. PICK u \in Users, roles \in {"grant", "revoke"}, status \in {"active", "inactive"} :
              req' = [req EXCEPT ![c].pc = "create", ![c].of = u, ![c].roles = roles,
                                 ![c].status = status]
        BY <3>2 DEF AuthorizeCreation
      <4> DEFINE told == [req[c] EXCEPT !.pc = "create", !.of = u, !.roles = roles,
                                        !.status = status]
      <4>2. req' = [req EXCEPT ![c] = told]
        BY <4>1
      <4>3. told.pc = "create" /\ told.drop = req[c].drop
        BY <1>3 DEF RequestRecord
      <4>4. req[c].pc = "start"
        BY <3>2 DEF AuthorizeCreation
      <4>5. req'[c] = told
        BY <1>2, <4>2
      <4> HIDE DEF told
      <4>6. QED BY <4>3, <4>4, <4>5
    <3>3. QED BY <2>1, <3>1, <3>2
  <2>2. CASE Create(c) \/ Commit(c) \/ RequestDies(c)
    BY <1>2, <1>3, <2>2 DEF Create, Commit, RequestDies, Finish, Fail, NotMade
  <2>3. CASE Load(c)
    BY <1>2, <1>3, <2>3 DEF Load, Fail, NotMade, RequestRecord
  <2>4. CASE ReadRoles(c) \/ Select(c)
    BY <1>2, <1>3, <2>4 DEF ReadRoles, Select, RequestRecord
  <2>5. CASE Lock(c)
    <3>1. req'[c].pc = req[c].pc /\ req'[c].drop = req[c].drop /\ req[c].pc = "lock"
      <4>1. PICK u \in req[c].todo :
              req' = [req EXCEPT ![c].todo = @ \ {u}, ![c].locks = @ \cup {u},
                                 ![c].ids = IF MayAct(user[u]) THEN @ \cup {u} ELSE @]
        BY <2>5 DEF Lock
      <4> DEFINE ids == IF MayAct(user[u]) THEN req[c].ids \cup {u} ELSE req[c].ids
                 held == [req[c] EXCEPT !.todo = @ \ {u}, !.locks = @ \cup {u}, !.ids = ids]
      <4>2. req' = [req EXCEPT ![c] = held] /\ req[c].pc = "lock"
        BY <2>5, <4>1 DEF Lock
      <4> HIDE DEF ids
      <4>3. held.pc = req[c].pc /\ held.drop = req[c].drop
        BY <1>3 DEF RequestRecord
      <4>4. req'[c] = held
        BY <1>2, <4>2
      <4> HIDE DEF held
      <4>5. QED BY <4>2, <4>3, <4>4
    <3>2. QED BY <1>3, <3>1
  <2>6. CASE Decide(c)
    <3>1. CASE Fail(c)
      BY <1>2, <1>3, <3>1 DEF Fail, NotMade, RequestRecord
    <3>2. ASSUME NEW pc \in {"replace", "commit"}, Goto(c, pc), pc = "replace" => req[c].roles # "keep"
          PROVE  /\ req'[c].drop => req'[c].pc = "commit" /\ req'[c].roles # "keep"
                 /\ req'[c].pc = "replace" => req'[c].roles # "keep"
      BY <1>2, <1>3, <2>6, <3>2 DEF Decide, Goto, RequestRecord
    <3>3. QED BY <2>6, <3>1, <3>2 DEF Decide
  <2>7. CASE Replace(c)
    BY <1>2, <1>3, <2>7 DEF Replace, RequestRecord
  <2>8. QED BY <2>1, <2>2, <2>3, <2>4, <2>5, <2>6, <2>7 DEF Step
<1>5. QED BY <1>2, <1>4 DEF DropsAsTold

LEMMA DropsHold == Spec => []DropsAsTold
<1>1. Init => DropsAsTold
  BY InitialRequest DEF Init, DropsAsTold, NotMade
<1>2. Inv /\ DropsAsTold /\ [Next]_vars => DropsAsTold'
  <2> SUFFICES ASSUME Inv, DropsAsTold, [Next]_vars PROVE DropsAsTold'
    OBVIOUS
  <2>1. CASE UNCHANGED vars
    BY <2>1 DEF vars, DropsAsTold
  <2>2. QED BY <2>1, StepDrops DEF Next, Step, Rest
<1>3. QED BY <1>1, <1>2, InvHolds, PTL DEF Spec

\* Every variable keeps its type, roles and flags belong to users, and locks to
\* requests under way.
THEOREM TypeCorrect == Spec => []TypeOK
<1>1. Inv => TypeOK
  BY DEF Inv
<1>2. QED BY <1>1, InvHolds, PTL

-----------------------------------------------------------------------------
(* The final administrator *)

\* Of the administrators a request has counted one is left, unless its flag and
\* role disagree, however many requests give up administrators at once.
THEOREM AdministratorKept == Spec => CountedAdministratorIsKept
<1> DEFINE Loses == Admins # {} /\ Admins' = {}
           Uncounted == \E c \in Requests : /\ req[c].pc = "commit"
                                            /\ req[c].of \in Admins \ req[c].ids
           Disagrees == \E u \in Users : user[u].flag # role[u]
<1>1. ASSUME Inv, DropsAsTold, [Next]_vars, Loses, ~Uncounted PROVE Disagrees
  <2>1. PICK a \in Users : MayAct(user[a]) /\ role[a]
    BY <1>1 DEF Admins
  <2>2. \A u \in Users : ~(MayAct(user'[u]) /\ role'[u])
    BY <1>1 DEF Admins, MayAct
  <2>3. ~UNCHANGED <<user, role>>
    BY <2>1, <2>2
  <2>4. PICK c \in Requests : Step(c)
    BY <1>1, <2>3 DEF Next, Step, Rest, vars
  <2>5. CASE Created(c)
    <3>1. /\ user[req[c].of].status = "absent"
          /\ \A u \in Users : u # req[c].of => user'[u] = user[u] /\ role'[u] = role[u]
      BY <1>1, <2>4, <2>5, CreatedUser
    <3>2. QED BY <2>1, <2>2, <3>1 DEF MayAct
  <2>6. CASE Written(c)
    <3> DEFINE r == req[c]
    <3>1. /\ r \in RequestRecord /\ r.of \in Users
          /\ user'[r.of].status = IF r.status \in {"same", r.seen.status}
                                  THEN user[r.of].status ELSE r.status
          /\ user'[r.of].flag = IF Given(r) = r.seen.flag THEN user[r.of].flag ELSE Given(r)
          /\ role'[r.of] = (r.roles = "grant" \/ (role[r.of] /\ ~r.drop))
          /\ \A u \in Users : u # r.of => user'[u] = user[u] /\ role'[u] = role[u]
      BY <1>1, <2>4, <2>6, WrittenUser
    <3>2. r.of = a
      BY <2>1, <2>2, <3>1
    <3>3. r.pc = "commit" /\ a \in r.ids
      BY <1>1, <2>1, <2>6, <3>2 DEF Written, Admins
    <3>4. Passed(r) /\ r.ids \subseteq Users /\ \A u \in r.ids : MayAct(user[u])
      BY <1>1, <3>1, <3>3 DEF Inv, RequestsHold, RequestRecord
    <3>5. CASE r.ids = {r.of}
      <4>1. r.status # "inactive" /\ Given(r)
        BY <3>4, <3>5 DEF Passed
      <4>2. MayAct(user'[a])
        BY <2>1, <3>1, <3>2, <4>1 DEF MayAct, RequestRecord
      <4>3. ~r.drop \/ r.roles # "keep"
        BY <1>1 DEF DropsAsTold
      <4>4. role'[a]
        BY <2>1, <3>1, <3>2, <4>1, <4>3 DEF Given
      <4>5. QED BY <2>2, <4>2, <4>4
    <3>6. CASE r.ids # {r.of}
      <4>1. PICK u \in r.ids : u # a
        BY <3>2, <3>3, <3>6
      <4>2. MayAct(user'[u]) /\ role'[u] = role[u] /\ u \in Users
        BY <3>1, <3>2, <3>4, <4>1
      <4>3. ~role[u] /\ user[u].flag
        BY <2>2, <3>4, <4>1, <4>2 DEF MayAct
      <4>4. user[u].flag # role[u]
        BY <4>3
      <4>5. QED BY <4>2, <4>4
    <3>7. QED BY <3>5, <3>6
  <2>7. QED BY <2>3, <2>4, <2>5, <2>6, StepOnUsers
<1>2. Inv /\ DropsAsTold /\ [Next]_vars =>
        [Admins # {} /\ Admins' = {} =>
           \/ \E c \in Requests : req[c].pc = "commit" /\ req[c].of \in Admins \ req[c].ids
           \/ \E u \in Users : user[u].flag # role[u]]_vars
  BY <1>1
<1>3. QED BY <1>2, InvHolds, DropsHold, PTL DEF Spec, CountedAdministratorIsKept

\* The deactivation of a user is lifted only by a request told to activate it.
THEOREM DeactivationStays == Spec => DeactivationIsNotUndone
<1>1. ASSUME Inv, [Next]_vars, NEW u \in Users,
             user[u].status = "inactive", user'[u].status = "active"
      PROVE  \E c \in Requests : /\ req[c].pc = "commit" /\ req'[c].pc = "done"
                                /\ req[c].of = u /\ req[c].status = "active"
  <2>1. ~UNCHANGED <<user, role>>
    BY <1>1
  <2>2. PICK c \in Requests : Step(c)
    BY <1>1, <2>1 DEF Next, Step, Rest, vars
  <2>3. ~Created(c)
    BY <1>1, <2>2, CreatedUser
  <2>4. Written(c)
    BY <2>1, <2>2, <2>3, StepOnUsers
  <2> DEFINE r == req[c]
  <2>5. /\ user'[r.of].status = IF r.status \in {"same", r.seen.status}
                                THEN user[r.of].status ELSE r.status
        /\ \A v \in Users : v # r.of => user'[v] = user[v]
    BY <1>1, <2>4, WrittenUser
  <2>6. r.of = u /\ r.status = "active"
    BY <1>1, <2>5
  <2>7. req[c].pc = "commit" /\ req'[c].pc = "done"
    BY <1>1, <2>4 DEF Written, NotMade, Inv, TypeOK
  <2>8. QED BY <2>6, <2>7
<1>2. Inv /\ [Next]_vars =>
        [\A u \in Users : user[u].status = "inactive" /\ user'[u].status = "active" =>
           \E c \in Requests : /\ req[c].pc = "commit" /\ req'[c].pc = "done"
                               /\ req[c].of = u /\ req[c].status = "active"]_vars
  BY <1>1
<1>3. QED BY <1>2, InvHolds, PTL DEF Spec, DeactivationIsNotUndone
=============================================================================
