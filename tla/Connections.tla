----------------------------- MODULE Connections -----------------------------
(***************************************************************************)
(* One customer connection and the cached schema of the database it leads  *)
(* to: requests that update, delete, test and synchronise it, each a       *)
(* session of its own (services/database/connection_service.py and         *)
(* repositories/database_connections.py).                                  *)
(*                                                                         *)
(* A test and a discovery talk to the customer database for seconds with   *)
(* what their session loaded before; no lock is held meanwhile.  Only the  *)
(* reconciliation of the cached schema locks the row of the connection.    *)
(***************************************************************************)
EXTENDS UnitOfWork

CONSTANTS Requests,     \* requests to the connection
          Databases,    \* what host, port, user and password can lead to
          Tables,       \* names of customer tables
          AllowPrivate, \* allow_private_database_hosts
          Nobody

ASSUME NobodyAssumption == Nobody \notin Requests
ASSUME AllowPrivateAssumption == AllowPrivate \in BOOLEAN

VARIABLES conn,         \* the row of database_connections
          table,        \* the rows of database_tables
          lock,         \* the request that holds the row lock of the connection
          req           \* the requests, each with what its session has loaded

vars == <<conn, table, lock, req>>
-----------------------------------------------------------------------------
Connection == [exists : BOOLEAN, active : BOOLEAN, details : Databases,
               status : {"pending", "connected", "failed"},
               sync : {"pending", "running", "succeeded", "failed"}]

\* `by` is the synchronisation whose discovery the columns and the other
\* metadata of the row come from.  A row is kept once it exists.
TableRow == [enabled : BOOLEAN, by : Requests \cup {Nobody}]
NoRow == [enabled |-> FALSE, by |-> Nobody]

Enabled == {n \in Tables : table[n].enabled}

Discovering == {"discover", "reconcile", "commit_sync", "caught", "rolled_back", "fail"}

\* `loaded` and `tables` are the objects of the session's identity map.
Request == [pc : {"idle", "lock", "commit_update", "delete", "test", "run", "ended"}
                     \cup Discovering,
            outcome : {"none", "refused", "ok", "failed", "crashed"},
            kind : {"none", "update", "delete", "test", "sync"},
            details : Databases, loaded : Connection,
            tables : [Tables -> TableRow], found : SUBSET Tables]

Init ==
    /\ conn \in Connection
    /\ ~conn.exists /\ ~conn.active /\ conn.status = "pending" /\ conn.sync = "pending"
    /\ table = [n \in Tables |-> NoRow]
    /\ lock = Nobody
    /\ req = [r \in Requests |->
                [pc |-> "idle", outcome |-> "none", kind |-> "none", details |-> conn.details,
                 loaded |-> conn, tables |-> table, found |-> {}]]

Free(r) == lock \in {Nobody, r}

\* Mutant: a request that fails or dies keeps its transaction.
EndKeepsLock(r, outcome) ==
    /\ req' = [req EXCEPT ![r].pc = "ended", ![r].outcome = outcome]
    /\ lock' = IF lock = r /\ outcome = "ok" THEN Nobody ELSE lock

\* The request answers; with its transaction ends the lock it holds.
End(r, outcome) ==
    /\ req' = [req EXCEPT ![r].pc = "ended", ![r].outcome = outcome]
    /\ lock' = IF lock = r THEN Nobody ELSE lock

\* The commit of what the service has made of the connection it had loaded.
Store(r, dirty) == conn' = Flush(conn, req[r].loaded, dirty)

-----------------------------------------------------------------------------
(* The way to a customer database *)

AddressKinds == {"public", "private", "forbidden"}

\* HostSecurityValidator: every address the host has resolved to is allowed.
Allowed(resolved) ==
    /\ resolved # {}
    /\ "forbidden" \notin resolved
    /\ "private" \in resolved => AllowPrivate

\* PostgreSQLAdapter: what the host resolves to by now is judged before it connects.
Connects(resolved, answers) == Allowed(resolved) /\ answers

\* ConnectionTester.test and SchemaDiscoveryService.discover: the password is
\* decrypted and the host resolved and judged before the adapter resolves it
\* again; what goes wrong anywhere is a failure.
Reaches(decrypts, first, resolved, answers) ==
    decrypts /\ Allowed(first) /\ Connects(resolved, answers)
Verdicts == {Reaches(decrypts, first, resolved, answers) :
                decrypts \in BOOLEAN, first \in SUBSET AddressKinds,
                resolved \in SUBSET AddressKinds, answers \in BOOLEAN}

\* discover_schema: the tables, by name, that the catalog may be read to hold.
Discoveries == SUBSET Tables
-----------------------------------------------------------------------------
\* create: the unique name is taken by a deleted connection, too.
Create ==
    /\ ~conn.exists
    /\ \E d \in Databases :
         conn' = [exists |-> TRUE, active |-> TRUE, details |-> d,
                  status |-> "pending", sync |-> "pending"]
    /\ UNCHANGED <<table, lock, req>>

\* _get_connection, with which every request begins: an inactive row is not
\* found, and a synchronisation needs a connection that is "connected".
Load(r) ==
    /\ req[r].pc = "idle"
    /\ \E kind \in {"update", "delete", "test", "sync"}, d \in Databases :
         IF conn.active /\ (kind = "sync" => conn.status = "connected")
         THEN /\ req' = [req EXCEPT ![r].kind = kind, ![r].details = d, ![r].loaded = conn,
                                    ![r].pc = CASE kind = "update" -> "lock"
                                                [] kind = "delete" -> "delete"
                                                [] kind = "test" -> "test"
                                                [] kind = "sync" -> "run"]
              /\ UNCHANGED lock
         ELSE End(r, "refused")
    /\ UNCHANGED <<conn, table>>

Delete(r) ==
    /\ req[r].pc = "delete" /\ Free(r)
    /\ Store(r, [req[r].loaded EXCEPT !.active = FALSE, !.status = "pending",
                                      !.sync = "pending"])
    /\ End(r, "ok")
    /\ UNCHANGED table

\* Mutant: the row is written as the object stands, not attribute by attribute.
TestWholeRow(r) ==
    /\ req[r].pc = "test" /\ Free(r)
    /\ \E ok \in BOOLEAN :
         /\ conn' = [req[r].loaded EXCEPT !.status = IF ok THEN "connected" ELSE "failed"]
         /\ End(r, IF ok THEN "ok" ELSE "failed")
    /\ UNCHANGED table

\* Mutant: the word that says a synchronisation has succeeded.
TestSucceeded(r) ==
    /\ req[r].pc = "test" /\ Free(r)
    /\ Store(r, [req[r].loaded EXCEPT !.status = "succeeded"])
    /\ End(r, "ok")
    /\ UNCHANGED table

\* test_connection: the verdict on the details that were loaded, whatever the
\* row holds by the time of the answer.
Test(r) ==
    /\ req[r].pc = "test" /\ Free(r)
    /\ \E verdict \in Verdicts :
         /\ Store(r, [req[r].loaded EXCEPT
                        !.status = IF verdict THEN "connected" ELSE "failed"])
         /\ End(r, IF verdict THEN "ok" ELSE "failed")
    /\ UNCHANGED table

-----------------------------------------------------------------------------
(* reconcile_metadata: the row of the connection is locked and only then   *)
(* are the cached tables read; found tables are enabled, all others        *)
(* disabled, and the lock is kept until the commit.                        *)

\* Mutant: the cached tables are read without the lock.
LockNothing(r, from, to) ==
    /\ req[r].pc = from
    /\ lock' = lock
    /\ req' = [req EXCEPT ![r].pc = to, ![r].tables = table]

Lock(r, from, to) ==
    /\ req[r].pc = from
    /\ lock = Nobody
    /\ lock' = r
    /\ req' = [req EXCEPT ![r].pc = to, ![r].tables = table]

Reconcile(r) ==
    LET found == req[r].found
        dirty(n) == IF n \in found THEN [enabled |-> TRUE, by |-> r]
                                   ELSE [req[r].tables[n] EXCEPT !.enabled = FALSE]
    IN  table' = [n \in Tables |-> Flush(table[n], req[r].tables[n], dirty(n))]

\* update, given any field but the name: everything known of the database is reset.
LockForUpdate(r) == Lock(r, "lock", "commit_update") /\ UNCHANGED <<conn, table>>

\* Mutant: the cached tables of the old database stay enabled.
UpdateKeepsTables(r) ==
    /\ req[r].pc = "commit_update"
    /\ Store(r, [req[r].loaded EXCEPT !.details = req[r].details, !.status = "pending",
                                      !.sync = "pending"])
    /\ End(r, "ok")
    /\ UNCHANGED table

\* Nothing was discovered, so every table is disabled.  The new name may be
\* taken, and then nothing is written.
Update(r) ==
    /\ req[r].pc = "commit_update"
    /\ \/ /\ Store(r, [req[r].loaded EXCEPT !.details = req[r].details, !.status = "pending",
                                            !.sync = "pending"])
          /\ Reconcile(r)
          /\ End(r, "ok")
       \/ End(r, "refused") /\ UNCHANGED <<conn, table>>

-----------------------------------------------------------------------------
(* sync_schema *)

MarkRunning(r) ==
    /\ req[r].pc = "run" /\ Free(r)
    /\ LET running == [req[r].loaded EXCEPT !.sync = "running"]
       IN  /\ Store(r, running)
           /\ req' = [req EXCEPT ![r].pc = "discover", ![r].loaded = running]
    /\ UNCHANGED <<table, lock>>

\* discover_schema of the details that were loaded; whatever is raised from
\* here on is caught.
Discover(r) ==
    /\ req[r].pc = "discover"
    /\ \/ /\ TRUE \in Verdicts
          /\ \E found \in Discoveries :
               req' = [req EXCEPT ![r].pc = "reconcile", ![r].found = found]
       \/ req' = [req EXCEPT ![r].pc = "caught"]
    /\ UNCHANGED <<conn, table, lock>>

LockForSync(r) == Lock(r, "reconcile", "commit_sync") /\ UNCHANGED <<conn, table>>

\* A failure rolls back, which expires what the session has loaded.
CommitSync(r) ==
    /\ req[r].pc = "commit_sync"
    /\ \/ /\ Store(r, [req[r].loaded EXCEPT !.sync = "succeeded"])
          /\ Reconcile(r)
          /\ End(r, "ok")
       \/ /\ req' = [req EXCEPT ![r].pc = "rolled_back", ![r].found = {}]
          /\ lock' = Nobody
          /\ UNCHANGED <<conn, table>>

\* The handler of sync_schema: a connection deleted meanwhile is not found.
Recover(r) ==
    /\ req[r].pc \in {"caught", "rolled_back"}
    /\ IF conn.active
       THEN /\ req' = [req EXCEPT ![r].pc = "fail",
                       ![r].loaded = IF req[r].pc = "caught" THEN Reselect(conn, @) ELSE conn]
            /\ UNCHANGED lock
       ELSE End(r, "failed")
    /\ UNCHANGED <<conn, table>>

\* Mutant: an error answers the request and leaves the row as it is.
SyncFailsUnrecorded(r) ==
    /\ req[r].pc = "fail" /\ Free(r)
    /\ End(r, "failed")
    /\ UNCHANGED <<conn, table>>

SyncFails(r) ==
    /\ req[r].pc = "fail" /\ Free(r)
    /\ Store(r, [req[r].loaded EXCEPT !.sync = "failed"])
    /\ End(r, "failed")
    /\ UNCHANGED table

\* The process dies or the client leaves; nothing catches either.
Crash(r) ==
    /\ req[r].pc \notin {"idle", "ended"}
    /\ End(r, "crashed")
    /\ UNCHANGED <<conn, table>>
-----------------------------------------------------------------------------
Progress(r) ==
    \/ Delete(r) \/ Test(r) \/ LockForUpdate(r) \/ Update(r) \/ MarkRunning(r)
    \/ Discover(r) \/ LockForSync(r) \/ CommitSync(r) \/ Recover(r)
    \/ SyncFails(r)

Next == Create \/ \E r \in Requests : Load(r) \/ Progress(r) \/ Crash(r)

\* Every call to a customer database has a timeout, and PostgreSQL grants a row
\* lock to the requests that wait for it.
Spec == Init /\ [][Next]_vars /\ \A r \in Requests : WF_vars(Progress(r))
-----------------------------------------------------------------------------
(* Properties.                                                             *)

\* The types: a connection is in one of the states the table admits, and a row of a
\* cached table knows the synchronisation it comes from.
TypeOK ==
    /\ conn \in Connection
    /\ table \in [Tables -> TableRow]
    /\ lock \in Requests \cup {Nobody}
    /\ req \in [Requests -> Request]

\* The tables a query may use are those of one discovery and all of them: two
\* synchronisations, or one and an update, never leave a mixture.
OneDiscovery ==
    \/ Enabled = {}
    \/ \E r \in Requests : /\ Enabled = req[r].found
                           /\ \A n \in Enabled : table[n].by = r

\* While a connection waits for its first synchronisation, or for a new one
\* because it leads elsewhere now, none of its tables can be used.
PendingHidesTables == conn.active /\ conn.sync = "pending" => Enabled = {}

\* A connection that says "running" is being synchronised, or its request died:
\* no failure, update or other synchronisation leaves the word behind.
RunningIsSomeones ==
    conn.active /\ conn.sync = "running" =>
        \E r \in Requests : /\ req[r].kind = "sync"
                            /\ req[r].pc \in Discovering \/ req[r].outcome = "crashed"

\* No request that has loaded a connection before its deletion brings it back.
DeletedStaysDeleted == [][conn.exists /\ ~conn.active => ~conn'.active]_vars

\* Every request that found the connection is answered, although some wait for
\* others, unless its process dies or its client leaves.
RequestsEnd == \A r \in Requests : req[r].pc \notin {"idle", "ended"} ~> req[r].pc = "ended"
=============================================================================
