-------------------------- MODULE ConnectionsProofs --------------------------
(* Theorems about Connections, for any number of requests, databases and  *)
(* tables.                                                                 *)
EXTENDS Connections, TLAPS

USE NobodyAssumption
-----------------------------------------------------------------------------
(* The inductive invariant: what a session knows by the place it is at, who *)
(* holds the lock and what he has read under it, and whose discovery the   *)
(* rows of the cached tables come from.                                    *)

SessionInv(s) ==
    /\ s.pc # "ended" => s.outcome = "none"
    /\ s.kind = "none" => s.pc \in {"idle", "ended"} /\ s.outcome \in {"none", "refused"}
    /\ s.kind # "none" => s.pc # "idle" /\ s.loaded.exists /\ s.loaded.active
    /\ s.pc \in Discovering \cup {"run"} => s.kind = "sync"
    /\ s.pc \in {"discover", "reconcile", "commit_sync", "caught"} => s.loaded.sync = "running"
    /\ s.pc \in {"idle", "lock", "commit_update"} => s.found = {}

HoldsLock(r) ==
    req[r].pc \in {"commit_update", "commit_sync"} => lock = r /\ req[r].tables = table

\* A row that comes from a discovery comes from one that is committed.
Committed ==
    \A n \in Tables : table[n].by # Nobody => req[table[n].by].pc = "ended"

Existence ==
    /\ ~conn.exists => ~conn.active /\ Enabled = {} /\ \A r \in Requests : req[r].kind = "none"

\* A request that is going to write "failed" has seen another value before.
Syncs(s) ==
    /\ s.kind = "sync"
    /\ \/ s.pc \in Discovering /\ (s.pc = "fail" => s.loaded.sync # "failed")
       \/ s.outcome = "crashed"

SomeoneSyncs ==
    conn.active /\ conn.sync = "running" => \E r \in Requests : Syncs(req[r])

Inv ==
    /\ TypeOK
    /\ \A r \in Requests : SessionInv(req[r]) /\ HoldsLock(r)
    /\ Committed /\ Existence
    /\ OneDiscovery /\ PendingHidesTables /\ SomeoneSyncs
-----------------------------------------------------------------------------
(* What a step of r does to its session and to the lock. *)

Steps(r) ==
    /\ req' = [req EXCEPT ![r] = req'[r]]
    /\ req'[r] \in Request
    /\ SessionInv(req'[r])
    /\ req[r].pc # "ended"
    /\ req[r].kind # "none" \/ conn.exists \/ req'[r].kind = "none"
    /\ lock' \in {lock, Nobody, r}
    /\ lock' # lock => lock \in {Nobody, r}

LEMMA Typed ==
    ASSUME Inv, NEW r \in Requests
    PROVE  /\ req[r] \in Request /\ req[r].loaded \in Connection
           /\ req[r].tables \in [Tables -> TableRow] /\ req[r].found \in SUBSET Tables
           /\ SessionInv(req[r]) /\ HoldsLock(r)
           /\ conn \in Connection /\ table \in [Tables -> TableRow]
BY DEF Inv, TypeOK, Request

LEMMA FlushedConnection ==
    ASSUME NEW stored \in Connection, NEW loaded \in Connection, NEW dirty \in Connection
    PROVE  LET new == Flush(stored, loaded, dirty) IN
           /\ new \in Connection
           /\ new.exists = IF dirty.exists = loaded.exists THEN stored.exists ELSE dirty.exists
           /\ new.active = IF dirty.active = loaded.active THEN stored.active ELSE dirty.active
           /\ new.sync = IF dirty.sync = loaded.sync THEN stored.sync ELSE dirty.sync
<1>1. DOMAIN stored = {"exists", "active", "details", "status", "sync"}
  BY DEF Connection
<1>2. Flush(stored, loaded, dirty) =
        [exists |-> IF dirty.exists = loaded.exists THEN stored.exists ELSE dirty.exists,
         active |-> IF dirty.active = loaded.active THEN stored.active ELSE dirty.active,
         details |-> IF dirty.details = loaded.details THEN stored.details ELSE dirty.details,
         status |-> IF dirty.status = loaded.status THEN stored.status ELSE dirty.status,
         sync |-> IF dirty.sync = loaded.sync THEN stored.sync ELSE dirty.sync]
  BY <1>1 DEF Flush
<1> QED BY <1>2 DEF Connection

LEMMA FlushedTable ==
    ASSUME NEW stored \in TableRow, NEW dirty \in TableRow
    PROVE  Flush(stored, stored, dirty) = dirty
<1>1. DOMAIN stored = {"enabled", "by"}
  BY DEF TableRow
<1>2. Flush(stored, stored, dirty) = [enabled |-> dirty.enabled, by |-> dirty.by]
  BY <1>1 DEF Flush, TableRow
<1> QED BY <1>2 DEF TableRow

\* The lock is given up by whoever had it, and nobody else's is touched.
LEMMA EndSteps ==
    ASSUME Inv, NEW r \in Requests, req[r].pc \notin {"idle", "ended"},
           NEW outcome \in {"refused", "ok", "failed", "crashed"}, End(r, outcome)
    PROVE  /\ Steps(r)
           /\ req'[r] = [req[r] EXCEPT !.pc = "ended", !.outcome = outcome]
<1>1. req'[r] = [req[r] EXCEPT !.pc = "ended", !.outcome = outcome]
  BY DEF End, Inv, TypeOK
<1>2. req'[r] \in Request
  BY <1>1, Typed DEF Request
<1>3. SessionInv(req'[r])
  BY <1>1, Typed DEF SessionInv, Request, Discovering
<1>4. req[r].kind # "none"
  BY Typed DEF SessionInv
<1> QED BY <1>1, <1>2, <1>3, <1>4 DEF Steps, End, Inv, TypeOK

\* A step that leaves the tables alone, or is the commit of who holds the lock,
\* disturbs no other session.
LEMMA SessionsKept ==
    ASSUME Inv, NEW r \in Requests, Steps(r), HoldsLock(r)',
           table' = table \/ req[r].pc \in {"commit_update", "commit_sync"}
    PROVE  /\ \A q \in Requests : SessionInv(req'[q]) /\ HoldsLock(q)'
           /\ req' \in [Requests -> Request]
           /\ lock' \in Requests \cup {Nobody}
           /\ \A q \in Requests : q # r => req'[q] = req[q]
<1>1. \A q \in Requests : q # r => req'[q] = req[q]
  BY DEF Steps, Inv, TypeOK
<1>2. req' \in [Requests -> Request]
  BY DEF Steps, Inv, TypeOK
<1>3. ASSUME NEW q \in Requests PROVE SessionInv(req'[q]) /\ HoldsLock(q)'
  <2>1. CASE q = r
    BY <2>1 DEF Steps
  <2>2. CASE q # r
    <3>1. SessionInv(req'[q])
      BY <1>1, <2>2, Typed
    <3>2. ASSUME req'[q].pc \in {"commit_update", "commit_sync"}
          PROVE  lock' = q /\ req'[q].tables = table'
      <4>1. lock = q /\ req[q].tables = table
        BY <1>1, <2>2, <3>2, Typed DEF HoldsLock
      <4>2. req[r].pc \notin {"commit_update", "commit_sync"}
        BY <2>2, <4>1, Typed DEF HoldsLock
      <4> QED BY <1>1, <2>2, <4>1, <4>2 DEF Steps
    <3> QED BY <3>1, <3>2 DEF HoldsLock
  <2> QED BY <2>1, <2>2
<1>4. lock' \in Requests \cup {Nobody}
  BY DEF Steps, Inv, TypeOK
<1> QED BY <1>1, <1>2, <1>3, <1>4

\* Nothing about the cached tables changes with a step that does not write them.
LEMMA TablesKept ==
    ASSUME Inv, NEW r \in Requests, Steps(r), table' = table
    PROVE  Committed' /\ OneDiscovery' /\ Enabled' = Enabled
<1>1. Enabled' = Enabled
  BY DEF Enabled
<1>2. \A q \in Requests : q # r => req'[q] = req[q]
  BY DEF Steps, Inv, TypeOK
<1>3. \A n \in Tables : table[n].by # Nobody => table[n].by \in Requests /\ table[n].by # r
  BY Typed DEF Inv, Committed, Steps, TableRow
<1>4. Committed'
  BY <1>2, <1>3 DEF Committed, Inv
<1>5. OneDiscovery'
  <2>1. CASE Enabled = {}
    BY <1>1, <2>1 DEF OneDiscovery
  <2>2. CASE Enabled # {}
    <3>1. PICK q \in Requests : Enabled = req[q].found /\ \A n \in Enabled : table[n].by = q
      BY <2>2 DEF Inv, OneDiscovery
    <3>2. q # r
      BY <1>3, <2>2, <3>1 DEF Enabled
    <3> QED BY <1>1, <1>2, <3>1, <3>2 DEF OneDiscovery
  <2> QED BY <2>1, <2>2
<1> QED BY <1>1, <1>4, <1>5

\* The commit of who holds the lock leaves exactly the tables that were found.
LEMMA Reconciled ==
    ASSUME Inv, NEW r \in Requests, req[r].pc \in {"commit_update", "commit_sync"},
           Reconcile(r)
    PROVE  /\ table' \in [Tables -> TableRow]
           /\ Enabled' = req[r].found
           /\ \A n \in Tables : table'[n].by = IF n \in req[r].found THEN r ELSE table[n].by
<1> DEFINE dirty(n) == IF n \in req[r].found THEN [enabled |-> TRUE, by |-> r]
                       ELSE [req[r].tables[n] EXCEPT !.enabled = FALSE]
<1>1. req[r].tables = table
  BY Typed DEF HoldsLock
<1>2. \A n \in Tables : dirty(n) \in TableRow /\ table[n] \in TableRow
  BY <1>1, Typed DEF TableRow
<1>3. table' = [n \in Tables |-> Flush(table[n], req[r].tables[n], dirty(n))]
  BY DEF Reconcile
<1>4. \A n \in Tables : table'[n] = dirty(n)
  BY <1>1, <1>2, <1>3, FlushedTable
<1>5. table' \in [Tables -> TableRow]
  BY <1>2, <1>3, <1>4
<1>6. \A n \in Tables : /\ table'[n].enabled <=> n \in req[r].found
                        /\ table'[n].by = IF n \in req[r].found THEN r ELSE table[n].by
  <2> TAKE n \in Tables
  <2>1. CASE n \in req[r].found
    <3>1. table'[n] = [enabled |-> TRUE, by |-> r]
      BY <1>4, <2>1
    <3> QED BY <2>1, <3>1
  <2>2. CASE n \notin req[r].found
    <3>1. table'[n] = [table[n] EXCEPT !.enabled = FALSE]
      BY <1>1, <1>4, <2>2
    <3>2. table'[n].enabled = FALSE /\ table'[n].by = table[n].by
      BY <1>2, <3>1 DEF TableRow
    <3> QED BY <2>2, <3>2
  <2> QED BY <2>1, <2>2
<1>7. Enabled' = req[r].found
  BY <1>6, Typed DEF Enabled
<1> QED BY <1>5, <1>6, <1>7
-----------------------------------------------------------------------------
(* The steps of a request that write neither the connection nor a table. *)

\* Who synchronised goes on to, or it ends where the connection is no longer active.
LEMMA QuietStep ==
    ASSUME Inv, NEW r \in Requests, Steps(r), HoldsLock(r)', UNCHANGED <<conn, table>>,
           Syncs(req[r]) => Syncs(req'[r]) \/ ~conn.active \/ conn.sync # "running"
    PROVE  Inv'
<1>1. \A q \in Requests : q # r => req'[q] = req[q]
  BY SessionsKept
<1>2. TypeOK' /\ \A q \in Requests : SessionInv(req[q])' /\ HoldsLock(q)'
  BY SessionsKept DEF Inv, TypeOK
<1>3. Committed' /\ OneDiscovery' /\ PendingHidesTables'
  BY TablesKept DEF Inv, PendingHidesTables
<1>4. Existence'
  <2>1. CASE conn.exists
    BY <2>1 DEF Existence
  <2>2. CASE ~conn.exists
    <3>1. ~conn.active /\ Enabled = {} /\ \A q \in Requests : req[q].kind = "none"
      BY <2>2 DEF Inv, Existence
    <3>2. \A q \in Requests : req'[q].kind = "none"
      BY <1>1, <2>2, <3>1 DEF Steps
    <3> QED BY <2>2, <3>1, <3>2, TablesKept DEF Existence
  <2> QED BY <2>1, <2>2
<1>5. SomeoneSyncs'
  <2> SUFFICES ASSUME conn.active, conn.sync = "running"
               PROVE  \E q \in Requests : Syncs(req'[q])
    BY DEF SomeoneSyncs
  <2>1. PICK q \in Requests : Syncs(req[q])
    BY DEF Inv, SomeoneSyncs
  <2> QED BY <1>1, <2>1
<1> QED BY <1>2, <1>3, <1>4, <1>5 DEF Inv

LEMMA LoadKeeps == ASSUME Inv, NEW r \in Requests, Load(r) PROVE Inv'
<1>1. UNCHANGED <<conn, table>> /\ req[r].pc = "idle" /\ req[r].kind = "none"
  BY Typed DEF Load, SessionInv
<1>2. ~Syncs(req[r])
  BY <1>1 DEF Syncs
<1>0. PICK kind \in {"update", "delete", "test", "sync"}, d \in Databases :
        IF conn.active /\ (kind = "sync" => conn.status = "connected")
        THEN /\ req' = [req EXCEPT ![r].kind = kind, ![r].details = d, ![r].loaded = conn,
                                   ![r].pc = CASE kind = "update" -> "lock"
                                               [] kind = "delete" -> "delete"
                                               [] kind = "test" -> "test"
                                               [] kind = "sync" -> "run"]
             /\ UNCHANGED lock
        ELSE End(r, "refused")
  BY Zenon DEF Load
<1> DEFINE begin == CASE kind = "update" -> "lock"
                      [] kind = "delete" -> "delete"
                      [] kind = "test" -> "test"
                      [] kind = "sync" -> "run"
<1>b. begin \in {"lock", "delete", "test", "run"} /\ (begin = "run" => kind = "sync")
  OBVIOUS
<1>3. \/ /\ conn.active
         /\ req' = [req EXCEPT ![r].kind = kind, ![r].details = d,
                               ![r].loaded = conn, ![r].pc = begin]
         /\ UNCHANGED lock
      \/ End(r, "refused")
  BY <1>0
<1> HIDE DEF begin
<1>4. CASE End(r, "refused")
  <2>1. req'[r] = [req[r] EXCEPT !.pc = "ended", !.outcome = "refused"]
    BY <1>4 DEF End, Inv, TypeOK
  <2>2. req'[r] \in Request /\ SessionInv(req'[r]) /\ req'[r].kind = "none"
    BY <1>1, <2>1, Typed DEF Request, SessionInv, Discovering
  <2>3. Steps(r)
    BY <1>1, <1>4, <2>1, <2>2 DEF Steps, End, Inv, TypeOK
  <2>4. HoldsLock(r)'
    BY <2>1, Typed DEF HoldsLock, Request
  <2> QED BY <1>1, <1>2, <2>3, <2>4, QuietStep
<1>5. CASE ~End(r, "refused")
  <2>1. PICK pc \in {"lock", "delete", "test", "run"} :
          /\ pc = "run" => kind = "sync"
          /\ req' = [req EXCEPT ![r].kind = kind, ![r].details = d,
                                ![r].loaded = conn, ![r].pc = pc]
    BY <1>3, <1>5, <1>b
  <2>2. req'[r] = [req[r] EXCEPT !.kind = kind, !.details = d, !.loaded = conn, !.pc = pc]
    BY <2>1 DEF Inv, TypeOK
  <2>3. req'[r] \in Request
    BY <2>2, Typed DEF Request
  <2>4. conn.active /\ conn.exists /\ lock' = lock
    BY <1>3, <1>5 DEF Inv, Existence
  <2>5. req[r].found = {}
    BY <1>1, Typed DEF SessionInv
  <2>6. SessionInv(req'[r])
    <3>1. /\ req'[r].kind = kind /\ req'[r].loaded = conn /\ req'[r].pc = pc
          /\ req'[r].found = {} /\ kind # "none"
      BY <2>2, <2>5, Typed DEF Request
    <3>2. req'[r].outcome = "none"
      BY <1>1, <2>2, Typed DEF SessionInv, Request
    <3> QED BY <2>1, <2>4, <3>1, <3>2 DEF SessionInv, Discovering
  <2>7. Steps(r) /\ HoldsLock(r)'
    BY <1>1, <2>1, <2>2, <2>3, <2>4, <2>6, Typed DEF Steps, HoldsLock, Inv, TypeOK, Request
  <2> QED BY <1>1, <1>2, <2>7, QuietStep
<1> QED BY <1>4, <1>5

\* Taking the lock, a discovery and an error that is caught.
LEMMA MoveKeeps ==
    ASSUME Inv, NEW r \in Requests,
           LockForUpdate(r) \/ LockForSync(r) \/ Discover(r)
    PROVE  Inv'
<1>1. UNCHANGED <<conn, table>>
  BY DEF LockForUpdate, LockForSync, Discover
<1>2. req[r] \in Request /\ SessionInv(req[r]) /\ HoldsLock(r)
      /\ table \in [Tables -> TableRow]
  BY Typed
<1>3. CASE LockForUpdate(r)
  <2>1. /\ req[r].pc = "lock" /\ lock = Nobody /\ lock' = r
        /\ req' = [req EXCEPT ![r].pc = "commit_update", ![r].tables = table]
    BY <1>3 DEF LockForUpdate, Lock
  <2>2. req'[r] = [req[r] EXCEPT !.pc = "commit_update", !.tables = table]
    BY <2>1 DEF Inv, TypeOK
  <2>f. /\ req'[r].pc = "commit_update" /\ req'[r].kind = req[r].kind
        /\ req'[r].outcome = req[r].outcome /\ req'[r].loaded = req[r].loaded
        /\ req'[r].found = req[r].found /\ req'[r].tables = table
    BY <1>2, <2>2 DEF Request
  <2>3. req'[r] \in Request
    BY <1>2, <2>2 DEF Request
  <2>4. SessionInv(req'[r])
    BY <1>2, <2>1, <2>f DEF SessionInv, Discovering
  <2>5. Steps(r)
    <3>1. req' = [req EXCEPT ![r] = req'[r]]
      BY <2>1, <2>2
    <3>2. req[r].kind # "none" \/ conn.exists \/ req'[r].kind = "none"
      BY <2>f
    <3>3. QED BY <2>1, <2>3, <2>4, <3>1, <3>2 DEF Steps
  <2>7. HoldsLock(r)'
    BY <1>1, <2>1, <2>f DEF HoldsLock
  <2>6. ~Syncs(req[r])
    BY <1>2, <2>1 DEF Syncs, SessionInv, Discovering
  <2> QED BY <1>1, <2>5, <2>6, <2>7, QuietStep
<1>4. CASE LockForSync(r)
  <2>1. /\ req[r].pc = "reconcile" /\ lock = Nobody /\ lock' = r
        /\ req' = [req EXCEPT ![r].pc = "commit_sync", ![r].tables = table]
    BY <1>4 DEF LockForSync, Lock
  <2>2. req'[r] = [req[r] EXCEPT !.pc = "commit_sync", !.tables = table]
    BY <2>1 DEF Inv, TypeOK
  <2>f. /\ req'[r].pc = "commit_sync" /\ req'[r].kind = req[r].kind
        /\ req'[r].outcome = req[r].outcome /\ req'[r].loaded = req[r].loaded
        /\ req'[r].found = req[r].found /\ req'[r].tables = table
    BY <1>2, <2>2 DEF Request
  <2>3. req'[r] \in Request
    BY <1>2, <2>2 DEF Request, Discovering
  <2>4. SessionInv(req'[r])
    BY <1>2, <2>1, <2>f DEF SessionInv, Discovering
  <2>5. Steps(r)
    <3>1. req' = [req EXCEPT ![r] = req'[r]]
      BY <2>1, <2>2
    <3>2. req[r].kind # "none" \/ conn.exists \/ req'[r].kind = "none"
      BY <2>f
    <3>3. QED BY <2>1, <2>3, <2>4, <3>1, <3>2 DEF Steps
  <2>7. HoldsLock(r)'
    BY <1>1, <2>1, <2>f DEF HoldsLock
  <2>6. Syncs(req[r]) => Syncs(req'[r])
    BY <1>2, <2>1, <2>f DEF Syncs, SessionInv, Discovering
  <2> QED BY <1>1, <2>5, <2>6, <2>7, QuietStep
<1>5. CASE Discover(r)
  <2>1. req[r].pc = "discover" /\ lock' = lock
    BY <1>5 DEF Discover, Discoveries
  <2>2. PICK found \in SUBSET Tables, pc \in {"reconcile", "caught"} :
          req'[r] = [req[r] EXCEPT !.pc = pc, !.found = found]
    <3>1. req[r].found \in SUBSET Tables /\ req[r] = [req[r] EXCEPT !.found = req[r].found]
      BY <1>2 DEF Request
    <3>2. CASE \E found \in SUBSET Tables :
                 req' = [req EXCEPT ![r].pc = "reconcile", ![r].found = found]
      BY <3>2 DEF Inv, TypeOK
    <3>3. CASE req' = [req EXCEPT ![r].pc = "caught"]
      <4>1. req'[r] = [req[r] EXCEPT !.pc = "caught"]
        BY <3>3 DEF Inv, TypeOK
      <4>2. [req[r] EXCEPT !.pc = "caught"]
              = [req[r] EXCEPT !.pc = "caught", !.found = req[r].found]
        BY <1>2 DEF Request
      <4> QED BY <3>1, <4>1, <4>2
    <3> QED BY <1>5, <3>2, <3>3 DEF Discover, Discoveries
  <2>3. req'[r] \in Request
    BY <1>2, <2>2 DEF Request, Discovering
  <2>4. SessionInv(req'[r])
    BY <1>2, <2>1, <2>2 DEF Request, SessionInv, Discovering
  <2>5. req' = [req EXCEPT ![r] = req'[r]]
    BY <1>5 DEF Discover, Discoveries, Inv, TypeOK
  <2>6. Steps(r)
    BY <1>2, <2>1, <2>3, <2>4, <2>5 DEF Steps, SessionInv, Discovering
  <2>7. HoldsLock(r)'
    BY <1>2, <2>2 DEF HoldsLock, Request
  <2>8. Syncs(req[r]) => Syncs(req'[r])
    BY <1>2, <2>1, <2>2 DEF Syncs, SessionInv, Discovering, Request
  <2> QED BY <1>1, <2>6, <2>7, <2>8, QuietStep
<1> QED BY <1>3, <1>4, <1>5

\* An answer without a commit, and the death of a request.
LEMMA EndKeeps ==
    ASSUME Inv, NEW r \in Requests, req[r].pc \notin {"idle", "ended"},
           NEW outcome \in {"refused", "failed", "crashed"}, End(r, outcome),
           UNCHANGED <<conn, table>>,
           req[r].pc \in Discovering /\ outcome # "crashed" => ~conn.active
    PROVE  Inv'
<1>1. Steps(r) /\ req'[r] = [req[r] EXCEPT !.pc = "ended", !.outcome = outcome]
  BY EndSteps
<1>2. HoldsLock(r)'
  BY <1>1, Typed DEF HoldsLock, Request
<1>3. Syncs(req[r]) => Syncs(req'[r]) \/ ~conn.active
  BY <1>1, Typed DEF Syncs, SessionInv, Request
<1> QED BY <1>1, <1>2, <1>3, QuietStep

LEMMA RecoverKeeps == ASSUME Inv, NEW r \in Requests, Recover(r) PROVE Inv'
<1>1. UNCHANGED <<conn, table>> /\ req[r].pc \in {"caught", "rolled_back"}
  BY DEF Recover
<1>2. CASE ~conn.active
  BY <1>1, <1>2, EndKeeps DEF Recover
<1>3. CASE conn.active
  <2>1. PICK loaded \in {req[r].loaded, conn} :
          /\ req[r].pc = "caught" => loaded = req[r].loaded
          /\ req[r].pc = "rolled_back" => loaded = conn
          /\ req' = [req EXCEPT ![r].pc = "fail", ![r].loaded = loaded]
          /\ lock' = lock
    BY <1>1, <1>3 DEF Recover, Reselect
  <2>2. req'[r] = [req[r] EXCEPT !.pc = "fail", !.loaded = loaded]
    BY <2>1 DEF Inv, TypeOK
  <2>3. loaded \in Connection
    BY <2>1, Typed
  <2>4. req'[r] \in Request
    BY <2>2, <2>3, Typed DEF Request, Discovering
  <2>5. /\ req'[r].pc = "fail" /\ req'[r].loaded = loaded /\ req'[r].kind = "sync"
        /\ req'[r].outcome = "none"
    BY <1>1, <2>2, <2>3, Typed DEF Request, SessionInv, Discovering
  <2>6. loaded.active /\ loaded.exists
    BY <1>1, <1>3, <2>1, Typed DEF SessionInv, Discovering, Inv, Existence
  <2>7. SessionInv(req'[r])
    BY <2>5, <2>6 DEF SessionInv, Discovering
  <2>8. Steps(r) /\ HoldsLock(r)'
    BY <1>1, <2>1, <2>2, <2>4, <2>5, <2>7, Typed DEF Steps, HoldsLock, Inv, TypeOK, SessionInv,
       Discovering
  <2>9. conn.sync = "running" => Syncs(req'[r])
    BY <1>1, <2>1, <2>5, Typed DEF Syncs, SessionInv, Discovering
  <2> QED BY <1>1, <2>8, <2>9, QuietStep
<1> QED BY <1>2, <1>3
-----------------------------------------------------------------------------
(* The steps that write the connection. *)

\* A commit of the connection only: what must be shown of its two fields.
LEMMA StoreStep ==
    ASSUME Inv, NEW r \in Requests, Steps(r), HoldsLock(r)', table' = table,
           req[r].kind # "none",
           NEW dirty \in Connection, Store(r, dirty), dirty.exists,
           conn'.active => conn.active,
           conn'.active /\ conn'.sync = "pending" => conn.sync = "pending",
           conn'.active /\ conn'.sync = "running" =>
               \/ Syncs(req'[r])
               \/ conn.sync = "running" /\ ~Syncs(req[r])
    PROVE  Inv'
<1>1. \A q \in Requests : q # r => req'[q] = req[q]
  BY SessionsKept
<1>2. req[r].loaded \in Connection /\ req[r].loaded.exists /\ conn \in Connection
  BY Typed DEF SessionInv
<1>3. conn.exists
  BY DEF Inv, Existence
<1>4. conn' \in Connection /\ conn'.exists
  BY <1>2, <1>3, FlushedConnection DEF Store, Connection
<1>5. TypeOK' /\ \A q \in Requests : SessionInv(req[q])' /\ HoldsLock(q)'
  BY <1>4, SessionsKept DEF Inv, TypeOK
<1>6. Committed' /\ OneDiscovery' /\ Enabled' = Enabled
  BY TablesKept
<1>7. PendingHidesTables'
  BY <1>6 DEF PendingHidesTables, Inv
<1>8. Existence'
  BY <1>4 DEF Existence
<1>9. SomeoneSyncs'
  <2> SUFFICES ASSUME conn'.active, conn'.sync = "running"
               PROVE  \E q \in Requests : Syncs(req'[q])
    BY DEF SomeoneSyncs
  <2>1. CASE Syncs(req'[r])
    BY <2>1
  <2>2. CASE ~Syncs(req'[r])
    <3>1. PICK q \in Requests : Syncs(req[q])
      BY <2>2 DEF Inv, SomeoneSyncs
    <3> QED BY <1>1, <2>2, <3>1
  <2> QED BY <2>1, <2>2
<1> QED BY <1>5, <1>6, <1>7, <1>8, <1>9 DEF Inv

\* What such a step starts from.
LEMMA Loaded ==
    ASSUME Inv, NEW r \in Requests, req[r].kind # "none"
    PROVE  /\ conn \in Connection /\ conn.exists
           /\ req[r].loaded \in Connection /\ req[r].loaded.exists /\ req[r].loaded.active
BY Typed DEF Inv, Existence, SessionInv

LEMMA DeleteKeeps == ASSUME Inv, NEW r \in Requests, Delete(r) PROVE Inv'
<1> DEFINE dirty == [req[r].loaded EXCEPT !.active = FALSE, !.status = "pending",
                                          !.sync = "pending"]
<1>1. req[r].pc = "delete" /\ Store(r, dirty) /\ End(r, "ok") /\ table' = table
  BY DEF Delete
<1>2. req[r].kind # "none"
  BY <1>1, Typed DEF SessionInv
<1>3. dirty \in Connection /\ dirty.exists /\ ~dirty.active
  BY <1>2, Loaded DEF Connection
<1>4. Steps(r) /\ req'[r] = [req[r] EXCEPT !.pc = "ended", !.outcome = "ok"]
  BY <1>1, EndSteps
<1>5. HoldsLock(r)'
  BY <1>4, Typed DEF HoldsLock, Request
<1> HIDE DEF dirty
<1>6. ~conn'.active
  BY <1>1, <1>2, <1>3, Loaded, FlushedConnection DEF Store
<1> QED BY <1>1, <1>2, <1>3, <1>4, <1>5, <1>6, StoreStep

LEMMA TestKeeps == ASSUME Inv, NEW r \in Requests, Test(r) PROVE Inv'
<1>1. req[r].pc = "test" /\ table' = table
  BY DEF Test
<1>2. req[r].kind # "none"
  BY <1>1, Typed DEF SessionInv
<1>3. PICK status \in {"connected", "failed"}, outcome \in {"ok", "failed"} :
        Store(r, [req[r].loaded EXCEPT !.status = status]) /\ End(r, outcome)
  BY DEF Test
<1> DEFINE dirty == [req[r].loaded EXCEPT !.status = status]
<1>4. /\ dirty \in Connection /\ dirty.exists = req[r].loaded.exists /\ dirty.exists
      /\ dirty.active = req[r].loaded.active /\ dirty.sync = req[r].loaded.sync
  BY <1>2, Loaded DEF Connection
<1>5. Steps(r) /\ req'[r] = [req[r] EXCEPT !.pc = "ended", !.outcome = outcome]
  BY <1>1, <1>3, EndSteps
<1>6. HoldsLock(r)'
  BY <1>5, Typed DEF HoldsLock, Request
<1>7. Store(r, dirty)
  BY <1>3
<1> HIDE DEF dirty
<1>8. ~Syncs(req[r])
  BY <1>1, Typed DEF Syncs, SessionInv, Discovering
<1>9. conn'.active = conn.active /\ conn'.sync = conn.sync
  BY <1>2, <1>4, <1>7, Loaded, FlushedConnection DEF Store
<1> QED BY <1>1, <1>2, <1>4, <1>5, <1>6, <1>7, <1>8, <1>9, StoreStep

LEMMA MarkRunningKeeps == ASSUME Inv, NEW r \in Requests, MarkRunning(r) PROVE Inv'
<1> DEFINE running == [req[r].loaded EXCEPT !.sync = "running"]
<1>1. /\ req[r].pc = "run" /\ Store(r, running) /\ UNCHANGED <<table, lock>>
      /\ req' = [req EXCEPT ![r].pc = "discover", ![r].loaded = running]
  BY DEF MarkRunning
<1>2. req[r].kind = "sync" /\ req[r].outcome = "none"
  BY <1>1, Typed DEF SessionInv
<1>3. /\ running \in Connection /\ running.exists = req[r].loaded.exists /\ running.exists
      /\ running.active = req[r].loaded.active /\ running.active /\ running.sync = "running"
  BY <1>2, Loaded DEF Connection
<1> HIDE DEF running
<1>4. req'[r] = [req[r] EXCEPT !.pc = "discover", !.loaded = running]
  BY <1>1 DEF Inv, TypeOK
<1>5. req'[r] \in Request
  BY <1>3, <1>4, Typed DEF Request, Discovering
<1>6. /\ req'[r].pc = "discover" /\ req'[r].loaded = running /\ req'[r].kind = "sync"
      /\ req'[r].outcome = "none"
  BY <1>2, <1>3, <1>4, Typed DEF Request
<1>7. SessionInv(req'[r]) /\ Syncs(req'[r])
  BY <1>3, <1>6 DEF SessionInv, Syncs, Discovering
<1>8. Steps(r) /\ HoldsLock(r)'
  BY <1>1, <1>2, <1>4, <1>5, <1>6, <1>7 DEF Steps, HoldsLock, Inv, TypeOK
<1>9. conn'.active = conn.active /\ (conn'.sync = "pending" => conn.sync = "pending")
  BY <1>1, <1>2, <1>3, Loaded, FlushedConnection DEF Store
<1> QED BY <1>1, <1>2, <1>3, <1>7, <1>8, <1>9, StoreStep

\* Either the error is written, or the row has said "failed" since the session
\* loaded it and what it says now comes from another.
LEMMA SyncFailsKeeps == ASSUME Inv, NEW r \in Requests, SyncFails(r) PROVE Inv'
<1> DEFINE dirty == [req[r].loaded EXCEPT !.sync = "failed"]
<1>1. req[r].pc = "fail" /\ Store(r, dirty) /\ End(r, "failed") /\ table' = table
  BY DEF SyncFails
<1>2. req[r].kind = "sync" /\ req[r].outcome = "none"
  BY <1>1, Typed DEF SessionInv, Discovering
<1>3. /\ dirty \in Connection /\ dirty.exists = req[r].loaded.exists /\ dirty.exists
      /\ dirty.active = req[r].loaded.active /\ dirty.sync = "failed"
  BY <1>2, Loaded DEF Connection
<1> HIDE DEF dirty
<1>4. Steps(r) /\ req'[r] = [req[r] EXCEPT !.pc = "ended", !.outcome = "failed"]
  BY <1>1, EndSteps
<1>5. HoldsLock(r)'
  BY <1>4, Typed DEF HoldsLock, Request
<1>6. /\ conn'.active = conn.active
      /\ conn'.sync = IF req[r].loaded.sync = "failed" THEN conn.sync ELSE "failed"
  BY <1>1, <1>2, <1>3, Loaded, FlushedConnection DEF Store
<1>7. req[r].loaded.sync = "failed" => ~Syncs(req[r])
  BY <1>1, <1>2 DEF Syncs
<1> QED BY <1>1, <1>2, <1>3, <1>4, <1>5, <1>6, <1>7, StoreStep
-----------------------------------------------------------------------------
(* The steps that write the cached tables, and the first of all. *)

\* What the commit of a reconciliation needs of the connection.
LEMMA ReconcileStep ==
    ASSUME Inv, NEW r \in Requests, req[r].pc \in {"commit_update", "commit_sync"},
           End(r, "ok"), Reconcile(r),
           NEW dirty \in Connection, Store(r, dirty), dirty.exists,
           conn'.active /\ conn'.sync = "pending" => req[r].found = {},
           conn'.active => conn.active,
           conn'.active /\ conn'.sync = "running" => conn.sync = "running" /\ ~Syncs(req[r])
    PROVE  Inv'
<1>1. Steps(r) /\ req'[r] = [req[r] EXCEPT !.pc = "ended", !.outcome = "ok"]
  BY EndSteps
<1>2. req'[r].pc = "ended" /\ req'[r].found = req[r].found
  BY <1>1, Typed DEF Request
<1>3. HoldsLock(r)'
  BY <1>2 DEF HoldsLock
<1>4. /\ \A q \in Requests : SessionInv(req'[q]) /\ HoldsLock(q)'
      /\ req' \in [Requests -> Request] /\ lock' \in Requests \cup {Nobody}
      /\ \A q \in Requests : q # r => req'[q] = req[q]
  BY <1>1, <1>3, SessionsKept
<1>5. /\ table' \in [Tables -> TableRow] /\ Enabled' = req[r].found
      /\ \A n \in Tables : table'[n].by = IF n \in req[r].found THEN r ELSE table[n].by
  BY Reconciled
<1>6. req[r].kind # "none"
  BY Typed DEF SessionInv
<1>7. conn' \in Connection /\ conn'.exists
  BY <1>6, Loaded, FlushedConnection DEF Store, Connection
<1>8. TypeOK'
  BY <1>4, <1>5, <1>7 DEF TypeOK
<1>9. Committed'
  <2> SUFFICES ASSUME NEW n \in Tables, table'[n].by # Nobody
               PROVE  req'[table'[n].by].pc = "ended"
    BY DEF Committed
  <2>1. CASE table'[n].by = r
    BY <1>2, <2>1
  <2>2. CASE table'[n].by # r
    <3>1. table'[n].by = table[n].by /\ table[n].by \in Requests
      BY <1>5, <2>2, Typed DEF TableRow
    <3> QED BY <1>4, <2>2, <3>1 DEF Inv, Committed
  <2> QED BY <2>1, <2>2
<1>10. OneDiscovery'
  <2>1. Enabled' = req'[r].found
    BY <1>2, <1>5
  <2>2. \A n \in Enabled' : table'[n].by = r
    BY <1>5, Typed
  <2> QED BY <2>1, <2>2 DEF OneDiscovery
<1>11. Existence' /\ PendingHidesTables'
  BY <1>5, <1>7 DEF Existence, PendingHidesTables
<1>12. SomeoneSyncs'
  <2> SUFFICES ASSUME conn'.active, conn'.sync = "running"
               PROVE  \E q \in Requests : Syncs(req'[q])
    BY DEF SomeoneSyncs
  <2>1. PICK q \in Requests : Syncs(req[q])
    BY DEF Inv, SomeoneSyncs
  <2> QED BY <1>4, <2>1
<1> QED BY <1>4, <1>8, <1>9, <1>10, <1>11, <1>12 DEF Inv

LEMMA UpdateKeeps == ASSUME Inv, NEW r \in Requests, Update(r) PROVE Inv'
<1> DEFINE dirty == [req[r].loaded EXCEPT !.details = req[r].details, !.status = "pending",
                                          !.sync = "pending"]
<1>1. /\ req[r].pc = "commit_update"
      /\ \/ Store(r, dirty) /\ Reconcile(r) /\ End(r, "ok")
         \/ End(r, "refused") /\ UNCHANGED <<conn, table>>
  BY DEF Update
<1>2. req[r].kind # "none" /\ req[r].found = {} /\ ~Syncs(req[r])
  BY <1>1, Typed DEF SessionInv, Syncs, Discovering
<1>3. /\ dirty \in Connection /\ dirty.exists = req[r].loaded.exists /\ dirty.exists
      /\ dirty.active = req[r].loaded.active /\ dirty.sync = "pending"
  <2>1. req[r].details \in Databases
    BY Typed DEF Request
  <2> QED BY <1>2, <2>1, Loaded DEF Connection
<1> HIDE DEF dirty
<1>4. CASE End(r, "refused") /\ UNCHANGED <<conn, table>>
  BY <1>1, <1>4, EndKeeps DEF Discovering
<1>5. CASE Store(r, dirty) /\ Reconcile(r) /\ End(r, "ok")
  <2>1. conn'.active = conn.active /\ (conn'.sync = "running" => conn.sync = "running")
    BY <1>2, <1>3, <1>5, Loaded, FlushedConnection DEF Store
  <2> QED BY <1>1, <1>2, <1>3, <1>5, <2>1, ReconcileStep
<1> QED BY <1>1, <1>4, <1>5

LEMMA CommitSyncKeeps == ASSUME Inv, NEW r \in Requests, CommitSync(r) PROVE Inv'
<1> DEFINE dirty == [req[r].loaded EXCEPT !.sync = "succeeded"]
<1>1. /\ req[r].pc = "commit_sync"
      /\ \/ Store(r, dirty) /\ Reconcile(r) /\ End(r, "ok")
         \/ /\ req' = [req EXCEPT ![r].pc = "rolled_back", ![r].found = {}]
            /\ lock' = Nobody
            /\ UNCHANGED <<conn, table>>
  BY DEF CommitSync
<1>2. req[r].kind = "sync" /\ req[r].loaded.sync = "running" /\ req[r].outcome = "none"
  BY <1>1, Typed DEF SessionInv, Discovering
<1>3. /\ dirty \in Connection /\ dirty.exists = req[r].loaded.exists /\ dirty.exists
      /\ dirty.active = req[r].loaded.active /\ dirty.sync = "succeeded"
  BY <1>2, Loaded DEF Connection
<1> HIDE DEF dirty
<1>4. CASE Store(r, dirty) /\ Reconcile(r) /\ End(r, "ok")
  <2>1. conn'.active = conn.active /\ conn'.sync = "succeeded"
    BY <1>2, <1>3, <1>4, Loaded, FlushedConnection DEF Store
  <2> QED BY <1>1, <1>3, <1>4, <2>1, ReconcileStep
<1>5. CASE /\ req' = [req EXCEPT ![r].pc = "rolled_back", ![r].found = {}]
           /\ lock' = Nobody
           /\ UNCHANGED <<conn, table>>
  <2>1. req'[r] = [req[r] EXCEPT !.pc = "rolled_back", !.found = {}]
    BY <1>5 DEF Inv, TypeOK
  <2>2. req'[r] \in Request
    BY <2>1, Typed DEF Request, Discovering
  <2>3. /\ req'[r].pc = "rolled_back" /\ req'[r].kind = "sync" /\ req'[r].outcome = "none"
        /\ req'[r].loaded = req[r].loaded
    BY <1>2, <2>1, Typed DEF Request
  <2>4. SessionInv(req'[r]) /\ Syncs(req'[r])
    BY <1>2, <2>3, Loaded DEF SessionInv, Syncs, Discovering
  <2>5. lock = r
    BY <1>1, Typed DEF HoldsLock
  <2>6. Steps(r) /\ HoldsLock(r)'
    BY <1>1, <1>2, <1>5, <2>1, <2>2, <2>3, <2>4, <2>5 DEF Steps, HoldsLock, Inv, TypeOK
  <2> QED BY <1>5, <2>4, <2>6, QuietStep
<1> QED BY <1>1, <1>4, <1>5

LEMMA CreateKeeps == ASSUME Inv, Create PROVE Inv'
<1>1. PICK d \in Databases :
        conn' = [exists |-> TRUE, active |-> TRUE, details |-> d,
                 status |-> "pending", sync |-> "pending"]
  BY DEF Create
<1>2. ~conn.exists /\ UNCHANGED <<table, lock, req>>
  BY DEF Create
<1>3. conn' \in Connection /\ conn'.exists /\ conn'.sync = "pending"
  BY <1>1 DEF Connection
<1>4. Enabled' = Enabled /\ Enabled = {}
  BY <1>2 DEF Inv, Existence, Enabled
<1>5. TypeOK' /\ OneDiscovery' /\ PendingHidesTables' /\ SomeoneSyncs' /\ Existence'
  BY <1>2, <1>3, <1>4 DEF Inv, TypeOK, OneDiscovery, PendingHidesTables, SomeoneSyncs, Existence
<1>6. Committed' /\ \A q \in Requests : SessionInv(req[q])' /\ HoldsLock(q)'
  BY <1>2 DEF Inv, Committed, HoldsLock
<1> QED BY <1>5, <1>6 DEF Inv
-----------------------------------------------------------------------------
LEMMA InvInit == Init => Inv
<1> SUFFICES ASSUME Init PROVE Inv
  OBVIOUS
<1>1. table \in [Tables -> TableRow] /\ \A n \in Tables : table[n] = NoRow
  BY DEF Init, NoRow, TableRow
<1>2. Enabled = {} /\ \A n \in Tables : table[n].by = Nobody
  BY <1>1 DEF Enabled, NoRow
<1>3. \A r \in Requests : /\ req[r].pc = "idle" /\ req[r].outcome = "none"
                          /\ req[r].kind = "none" /\ req[r].found = {}
  BY DEF Init
<1>4. TypeOK
  <2>1. conn.details \in Databases
    BY DEF Init, Connection
  <2> QED BY <1>1, <2>1 DEF Init, TypeOK, Request
<1>5. \A r \in Requests : SessionInv(req[r]) /\ HoldsLock(r)
  BY <1>3 DEF SessionInv, HoldsLock, Discovering
<1> QED BY <1>2, <1>3, <1>4, <1>5 DEF Init, Inv, Committed, Existence, OneDiscovery,
       PendingHidesTables, SomeoneSyncs

LEMMA InvStep == Inv /\ [Next]_vars => Inv'
<1> SUFFICES ASSUME Inv, [Next]_vars PROVE Inv'
  OBVIOUS
<1>1. ASSUME NEW r \in Requests, Progress(r) PROVE Inv'
  <2>1. CASE CommitSync(r) \/ Update(r)
    BY <2>1, CommitSyncKeeps, UpdateKeeps
  <2>2. CASE Delete(r) \/ Test(r) \/ MarkRunning(r) \/ SyncFails(r)
    BY <2>2, DeleteKeeps, TestKeeps, MarkRunningKeeps, SyncFailsKeeps
  <2>3. CASE LockForUpdate(r) \/ LockForSync(r) \/ Discover(r) \/ Recover(r)
    BY <2>3, MoveKeeps, RecoverKeeps
  <2> QED BY <1>1, <2>1, <2>2, <2>3 DEF Progress
<1>2. ASSUME NEW r \in Requests, Crash(r) PROVE Inv'
  BY <1>2, EndKeeps DEF Crash
<1>3. ASSUME UNCHANGED vars PROVE Inv'
  BY <1>3 DEF vars, Inv, TypeOK, HoldsLock, Committed, Existence, Enabled, OneDiscovery,
     PendingHidesTables, SomeoneSyncs
<1> QED BY <1>1, <1>2, <1>3, CreateKeeps, LoadKeeps DEF Next

THEOREM InvHolds == Spec => []Inv
BY InvInit, InvStep, PTL DEF Spec

\* Every variable keeps its type.
THEOREM TypeCorrect == Spec => []TypeOK
<1>1. Inv => TypeOK
  BY DEF Inv
<1> QED BY <1>1, InvHolds, PTL

\* The tables that can be used are those of one discovery: the row lock makes
\* reading and writing the cached tables one step.
THEOREM TablesAreOneDiscovery == Spec => []OneDiscovery
<1>1. Inv => OneDiscovery
  BY DEF Inv
<1> QED BY <1>1, InvHolds, PTL

\* A connection that waits for a synchronisation offers no table.
THEOREM PendingTablesAreHidden == Spec => []PendingHidesTables
<1>1. Inv => PendingHidesTables
  BY DEF Inv
<1> QED BY <1>1, InvHolds, PTL

\* "running" names a synchronisation in progress, or one that died.
THEOREM RunningHasAnOwner == Spec => []RunningIsSomeones
<1>1. Inv => RunningIsSomeones
  BY DEF Inv, SomeoneSyncs, Syncs, RunningIsSomeones
<1> QED BY <1>1, InvHolds, PTL

\* A deleted connection is not brought back by a session that saw it active.
THEOREM DeletionIsFinal == Spec => DeletedStaysDeleted
<1>1. ASSUME Inv, [Next]_vars, conn.exists, ~conn.active PROVE ~conn'.active
  <2>1. ASSUME NEW r \in Requests, NEW dirty \in Connection, req[r].kind # "none",
               Store(r, dirty), dirty.active = req[r].loaded.active \/ ~dirty.active
        PROVE  ~conn'.active
    BY <1>1, <2>1, Loaded, FlushedConnection DEF Store, Connection
  <2>2. ASSUME NEW r \in Requests, NEW status \in {"pending", "connected", "failed"},
               NEW sync \in {"pending", "running", "succeeded", "failed"},
               req[r].kind # "none",
               \/ Store(r, [req[r].loaded EXCEPT !.active = FALSE, !.status = status,
                                                 !.sync = sync])
               \/ Store(r, [req[r].loaded EXCEPT !.details = req[r].details,
                                                 !.status = status, !.sync = sync])
               \/ Store(r, [req[r].loaded EXCEPT !.status = status])
               \/ Store(r, [req[r].loaded EXCEPT !.sync = sync])
        PROVE  ~conn'.active
    <3> DEFINE d1 == [req[r].loaded EXCEPT !.active = FALSE, !.status = status, !.sync = sync]
               d2 == [req[r].loaded EXCEPT !.details = req[r].details,
                                           !.status = status, !.sync = sync]
               d3 == [req[r].loaded EXCEPT !.status = status]
               d4 == [req[r].loaded EXCEPT !.sync = sync]
    <3>1. req[r].loaded \in Connection /\ req[r].details \in Databases
      BY <1>1, Typed DEF Request
    <3>2. d1 \in Connection /\ ~d1.active
      BY <3>1 DEF Connection
    <3>3. d2 \in Connection /\ d2.active = req[r].loaded.active
      BY <3>1 DEF Connection
    <3>4. d3 \in Connection /\ d3.active = req[r].loaded.active
      BY <3>1 DEF Connection
    <3>5. d4 \in Connection /\ d4.active = req[r].loaded.active
      BY <3>1 DEF Connection
    <3>6. Store(r, d1) \/ Store(r, d2) \/ Store(r, d3) \/ Store(r, d4)
      BY <2>2
    <3> HIDE DEF d1, d2, d3, d4
    <3> QED BY <2>1, <2>2, <3>2, <3>3, <3>4, <3>5, <3>6
  <2>3. ASSUME NEW r \in Requests, Progress(r), conn' # conn PROVE ~conn'.active
    <3>1. req[r].pc \notin {"idle", "ended"}
      BY <2>3 DEF Progress, Delete, Test, LockForUpdate, LockForSync, Lock, Update, MarkRunning,
         Discover, CommitSync, Recover, SyncFails
    <3>2. req[r].kind # "none"
      BY <1>1, <3>1, Typed DEF SessionInv
    <3>3. CASE Delete(r)
      BY <2>2, <3>2, <3>3 DEF Delete
    <3>4. CASE Test(r)
      BY <2>2, <3>2, <3>4 DEF Test
    <3>5. CASE Update(r)
      BY <2>2, <2>3, <3>2, <3>5 DEF Update
    <3>6. CASE MarkRunning(r)
      BY <2>2, <3>2, <3>6 DEF MarkRunning
    <3>7. CASE CommitSync(r)
      BY <2>2, <2>3, <3>2, <3>7 DEF CommitSync
    <3>8. CASE SyncFails(r)
      BY <2>2, <3>2, <3>8 DEF SyncFails
    <3> QED BY <2>3, <3>3, <3>4, <3>5, <3>6, <3>7, <3>8
          DEF Progress, LockForUpdate, LockForSync, Discover, Recover
  <2> QED BY <1>1, <2>3 DEF Next, Create, Load, Crash, vars
<1>2. Inv /\ [Next]_vars => [conn.exists /\ ~conn.active => ~conn'.active]_vars
  BY <1>1
<1> QED BY <1>2, InvHolds, PTL DEF Spec, DeletedStaysDeleted
=============================================================================
