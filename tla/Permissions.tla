----------------------------- MODULE Permissions -----------------------------
(***************************************************************************)
(* The permissions on one cached table: requests of tenant administrators  *)
(* (services/permission_service.py) and the synchronisations that add and  *)
(* drop columns under them (repositories/database_connections.py), with    *)
(* the schema the resolver makes of the committed rows for any user.       *)
(*                                                                         *)
(* A request checks what it has read and commits later; in between others  *)
(* commit.  A subject is a role or a user.  The unique indexes allow it    *)
(* one table permission, which therefore goes by the name of its subject;  *)
(* a subject whose permission was deleted is not given a second one here.  *)
(***************************************************************************)
EXTENDS EffectiveSchema, UnitOfWork

CONSTANTS Subjects,         \* roles and users that may be given the table
          Columns,          \* ids of columns the table has or will have
          Sensitive,        \* those marked sensitive, which no request changes
          Requests,         \* requests of administrators
          Capabilities,     \* what they may ask for in a column row
          Filters           \* and in a row filter

ASSUME SensitiveAssumption == Sensitive \subseteq Columns
ASSUME CapabilitiesAssumption == Capabilities \subseteq Capability
ASSUME FiltersAssumption == Filters \subseteq SUBSET Columns /\ {} \in Filters

VARIABLES column,           \* database_columns: absent, live or dropped
          grant,            \* table_permissions, each with its column_permissions
          req

vars == <<column, grant, req>>
-----------------------------------------------------------------------------
Live == {c \in Columns : column[c] = "live"}

ColumnRows == UNION {[C -> Capabilities] : C \in SUBSET Columns}
NoRows == [c \in {} |-> Nothing]
Without(rows, C) == [c \in DOMAIN rows \ C |-> rows[c]]

\* The attributes of a TablePermission a session holds, and the row itself.
Object == [read : BOOLEAN, filter : Filters]
NoObject == [read |-> FALSE, filter |-> {}]
Grant == [status : {"unused", "live", "deleted"}, object : Object, rows : ColumnRows]
NoGrant(status) == [status |-> status, object |-> NoObject, rows |-> NoRows]

\* What a request has loaded and made of it, the rows it was told to write and
\* the columns whose rows its DELETE has removed.
Request == [pc : {"idle", "create", "update", "delete", "remove", "insert"},
            of : Subjects, loaded : Object, object : Object,
            rows : ColumnRows, gone : SUBSET Columns]

Doing(pc, s) == [pc |-> pc, of |-> s, loaded |-> NoObject, object |-> NoObject,
                 rows |-> NoRows, gone |-> {}]
Answer(r) == req' = [req EXCEPT ![r] = Doing("idle", req[r].of)]

Init ==
    /\ column \in [Columns -> {"absent", "live"}]
    /\ \A c \in Sensitive : column[c] = "live"
    /\ grant = [s \in Subjects |-> NoGrant("unused")]
    /\ \E s \in Subjects : req = [r \in Requests |-> Doing("idle", s)]
-----------------------------------------------------------------------------
\* PermissionService.create: no column row exists yet, so the filter is validated
\* against what the table permission will inherit.
Create(r, s, object) ==
    /\ req[r].pc = "idle"
    /\ FilterValid(object.filter, NoRows, Live, Sensitive)
    /\ req' = [req EXCEPT ![r] = [Doing("create", s) EXCEPT !.object = object]]
    /\ UNCHANGED <<column, grant>>

\* _commit_conflict: the unique index refuses a second row for the subject.
CommitCreate(r) ==
    /\ req[r].pc = "create"
    /\ grant' = IF grant[req[r].of].status = "unused"
                THEN [grant EXCEPT ![req[r].of] = [status |-> "live", rows |-> NoRows,
                                                   object |-> req[r].object]]
                ELSE grant
    /\ Answer(r)
    /\ UNCHANGED column

\* PermissionService.update: PATCH semantics, and only a filter is validated.
Update(r, s, object) ==
    /\ req[r].pc = "idle" /\ grant[s].status = "live"
    /\ \/ object.filter = grant[s].object.filter
       \/ FilterValid(object.filter, grant[s].rows, Live, Sensitive)
    /\ object # grant[s].object
    /\ req' = [req EXCEPT ![r] = [Doing("update", s) EXCEPT !.loaded = grant[s].object,
                                                            !.object = object]]
    /\ UNCHANGED <<column, grant>>

\* Mutant: every attribute is written, changed or not.
CommitUpdateWhole(r) ==
    /\ req[r].pc = "update"
    /\ grant' = IF grant[req[r].of].status = "live"
                THEN [grant EXCEPT ![req[r].of].object = req[r].object]
                ELSE grant
    /\ Answer(r)
    /\ UNCHANGED column

\* The flush at the commit; it fails when the row is gone.
CommitUpdate(r) ==
    /\ req[r].pc = "update"
    /\ grant' = IF grant[req[r].of].status = "live"
                THEN [grant EXCEPT ![req[r].of].object =
                          Flush(@, req[r].loaded, req[r].object)]
                ELSE grant
    /\ Answer(r)
    /\ UNCHANGED column

\* PermissionService.delete.
Delete(r, s) ==
    /\ req[r].pc = "idle" /\ grant[s].status = "live"
    /\ req' = [req EXCEPT ![r] = Doing("delete", s)]
    /\ UNCHANGED <<column, grant>>

\* The column rows go with the table permission; a second deletion finds nothing.
CommitDelete(r) ==
    /\ req[r].pc = "delete"
    /\ grant' = [grant EXCEPT ![req[r].of] = NoGrant("deleted")]
    /\ Answer(r)
    /\ UNCHANGED column

\* Mutant: a sensitive column may be given without a mask.
ReplaceUnmasked(r, s, rows) ==
    /\ req[r].pc = "idle" /\ grant[s].status = "live"
    /\ DOMAIN rows \subseteq Live
    /\ FilterValid(grant[s].object.filter, rows, Live, Sensitive)
    /\ req' = [req EXCEPT ![r] = [Doing("remove", s) EXCEPT !.rows = rows]]
    /\ UNCHANGED <<column, grant>>

\* PermissionService.replace_columns up to its first statement that writes.
Replace(r, s, rows) ==
    /\ req[r].pc = "idle" /\ grant[s].status = "live"
    /\ DOMAIN rows \subseteq Live
    /\ \A c \in DOMAIN rows \cap Sensitive : rows[c].read => rows[c].mask # Unmasked
    /\ FilterValid(grant[s].object.filter, rows, Live, Sensitive)
    /\ req' = [req EXCEPT ![r] = [Doing("remove", s) EXCEPT !.rows = rows]]
    /\ UNCHANGED <<column, grant>>

\* PermissionRepository.replace_columns: the DELETE removes the rows that are
\* committed when it runs, and no other.
Remove(r) ==
    /\ req[r].pc = "remove"
    /\ req' = [req EXCEPT ![r].pc = "insert", ![r].gone = DOMAIN grant[req[r].of].rows]
    /\ UNCHANGED <<column, grant>>

\* Rows another request has removed first are not this one's to remove: what
\* that request puts in their place is another row.
Forget(r) ==
    req' = [q \in Requests |->
               IF q = r THEN Doing("idle", req[r].of)
               ELSE IF req[q].of = req[r].of
                    THEN [req[q] EXCEPT !.gone = @ \ req[r].gone]
                    ELSE req[q]]

\* What the request leaves of the rows, before its own.
Kept(r) == DOMAIN grant[req[r].of].rows \ req[r].gone

\* The unique constraint and the two foreign keys.
MayInsert(r) ==
    /\ DOMAIN req[r].rows \cap Kept(r) = {}
    /\ DOMAIN req[r].rows \subseteq Live
    /\ DOMAIN req[r].rows # {} => grant[req[r].of].status = "live"

WithInserted(r) ==
    [c \in DOMAIN req[r].rows \cup Kept(r) |->
        IF c \in DOMAIN req[r].rows THEN req[r].rows[c] ELSE grant[req[r].of].rows[c]]

\* Mutant: the foreign keys are not enforced.
InsertUnreferenced(r) ==
    /\ req[r].pc = "insert"
    /\ DOMAIN req[r].rows \cap Kept(r) = {}
    /\ grant' = [grant EXCEPT ![req[r].of].rows = WithInserted(r)]
    /\ Forget(r)
    /\ UNCHANGED column

\* The INSERT and the commit, in the order the database admits them.
Insert(r) ==
    /\ req[r].pc = "insert"
    /\ MayInsert(r)
    /\ grant' = [grant EXCEPT ![req[r].of].rows = WithInserted(r)]
    /\ Forget(r)
    /\ UNCHANGED column

\* The IntegrityError: the request rolls back and answers with a conflict.
InsertFails(r) ==
    /\ req[r].pc = "insert" /\ ~MayInsert(r)
    /\ Answer(r)
    /\ UNCHANGED <<column, grant>>

\* Mutant: every column is written anew, and its rows go with the old one.
SynchronizeRebuilds(seen) ==
    /\ \A c \in seen : column[c] # "dropped"
    /\ column' = [c \in Columns |-> IF c \in seen THEN "live"
                                    ELSE IF column[c] = "absent" THEN "absent"
                                    ELSE "dropped"]
    /\ grant' = [s \in Subjects |-> [grant[s] EXCEPT !.rows = NoRows]]
    /\ UNCHANGED req

\* Mutant: columns that are no longer seen are disabled, as tables are.
SynchronizeDisables(seen) ==
    /\ \A c \in seen : column[c] # "dropped"
    /\ column' = [c \in Columns |-> IF c \in seen THEN "live"
                                    ELSE IF column[c] = "absent" THEN "absent"
                                    ELSE "disabled"]
    /\ UNCHANGED <<grant, req>>

\* reconcile_metadata, for this table: columns that are no longer seen are deleted
\* with their column rows, and new ones are not sensitive.
Synchronize(seen) ==
    /\ \A c \in seen : column[c] # "dropped"
    /\ column' = [c \in Columns |-> IF c \in seen THEN "live"
                                    ELSE IF column[c] = "absent" THEN "absent"
                                    ELSE "dropped"]
    /\ grant' = [s \in Subjects |->
                    [grant[s] EXCEPT !.rows = Without(@, Columns \ seen)]]
    /\ UNCHANGED req

Next ==
    \/ \E r \in Requests, s \in Subjects, object \in Object :
          Create(r, s, object) \/ Update(r, s, object)
    \/ \E r \in Requests, s \in Subjects :
          Delete(r, s) \/ \E rows \in ColumnRows : Replace(r, s, rows)
    \/ \E r \in Requests :
          \/ CommitCreate(r) \/ CommitUpdate(r) \/ CommitDelete(r)
          \/ Remove(r) \/ Insert(r) \/ InsertFails(r)
    \/ \E seen \in SUBSET Columns : Synchronize(seen)

Spec == Init /\ [][Next]_vars
-----------------------------------------------------------------------------
\* PermissionResolver.resolve, for a user known by the names `direct` of their own
\* permission (at most one) and the names of their roles: their own permission
\* replaces those of the roles, and the rest must be readable.
Selected(direct, roles) ==
    LET live == {s \in direct \cup roles : grant[s].status = "live"}
        chosen == IF live \cap direct # {} THEN live \cap direct ELSE live
    IN  {s \in chosen : grant[s].object.read}

\* What the selected permissions make of a column and of the rows.
Effective(selected, c) ==
    MergeColumn(UNION {Gives(grant[s].rows, c \in Sensitive, c) : s \in selected})
Readable(selected) == {c \in Live : Effective(selected, c).read}
RowFilters(selected) == MergeFilters({grant[s].object.filter : s \in selected})

\* compile_row_filter: a clause on a column that the table no longer has fails the
\* query, whatever the other filters are.
Compiles(selected) == \A filter \in RowFilters(selected) : filter \subseteq Live

\* The rows of the table a query can see, each known by the clauses it satisfies.
Visible(selected) ==
    IF Readable(selected) = {} \/ ~Compiles(selected) THEN {}
    ELSE {row \in SUBSET Columns : Passes(row, RowFilters(selected))}
-----------------------------------------------------------------------------
\* The types: a grant has at most one row for a column, with a capability that was
\* asked for, and a session holds attributes that a grant may have.
TypeOK ==
    /\ column \in [Columns -> {"absent", "live", "dropped"}]
    /\ grant \in [Subjects -> Grant]
    /\ req \in [Requests -> Request]

\* Whatever permissions are merged for a user, a sensitive column they can read
\* comes with a mask (SECURITY.md: an explicit readable grant and an approved mask).
SensitiveMasked ==
    \A selected \in SUBSET Subjects :
        \A c \in Readable(selected) \cap Sensitive :
            Effective(selected, c).mask # Unmasked

\* Column rows never outlive what they refer to: a deleted table permission has
\* none, and none is on a column that a synchronisation has dropped, however the
\* requests overlap.
RowsAreReferenced ==
    \A s \in Subjects : /\ grant[s].status # "live" => DOMAIN grant[s].rows = {}
                        /\ DOMAIN grant[s].rows \subseteq Live

\* A permission that was made unreadable becomes readable only by a request that
\* asks for it: one that changes the filter, and loaded the object before,
\* does not bring the old value back.
RevocationsStay ==
    [][\A s \in Subjects :
          grant[s].status = "live" /\ ~grant[s].object.read /\ grant'[s].object.read
          => \E r \in Requests : /\ req[r].pc = "update" /\ req[r].of = s
                                 /\ ~req[r].loaded.read /\ req[r].object.read]_vars

\* A further role that can read the table takes nothing from a user without a
\* permission of their own: no column and no row, unless its filter is on a column
\* that a synchronisation has dropped.
RolesOnlyWiden ==
    [][\A s \in Subjects, others \in SUBSET Subjects :
          /\ s \notin Selected({}, {s}) /\ s \in Selected({}, {s})'
          /\ grant'[s].object.filter \subseteq Live'
          /\ \A t \in others \ {s} : grant'[t] = grant[t]
          => /\ Readable(Selected({}, others)) \subseteq
                    Readable(Selected({}, others \cup {s}))'
             /\ Visible(Selected({}, others)) \subseteq
                    Visible(Selected({}, others \cup {s}))']_vars

\* A synchronisation, the one step that is no request's, gives nobody a column
\* that was there and that they could not read, but for one case: it drops the
\* last column that a permission has a row for, and the permission, an allowlist
\* until then, passes on whatever is not sensitive.
SyncWidensOnlyEmptied ==
    [][req' = req =>
          \A s \in Subjects :
              \/ Readable(Selected({s}, {}))' \cap Live \subseteq Readable(Selected({s}, {}))
              \/ DOMAIN grant[s].rows # {} /\ DOMAIN grant[s].rows \cap Live' = {}]_vars
=============================================================================
