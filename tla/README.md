# Formal verification of the tenant intelligence platform

TLA+ models of the parts of the platform where several actors touch the same
state: API requests, Dramatiq workers, browsers, and the three stores they use
(Postgres, MinIO, Redis).  TLC checks the models on small instances; TLAPS proves
every safety property that a passing run checks for every value of the constants,
two of them from hypotheses on the faults and the workers that section 4 names.

`PROJECT.json` maps every definition to the source lines it stands for and lists
the runs, the mutants that show each property can fail, the theorems, the hazards
and the findings.

## 1. The system

| Component | State | Operations | What makes it correct | Module |
|---|---|---|---|---|
| Document ingestion (`services/documents/file_service.py`, `knowledge_base_service.py`, `workers/document_tasks.py`) | `files`, `document_chunks`, `knowledge_bases`; objects in MinIO; messages in Redis; attributes cached in each SQLAlchemy session | upload, delete, reprocess a file; update, delete a knowledge base; the actor `process_document` with its retries | retrieval sees complete generations of files that were not deleted; bytes are unique; stores agree; every file settles | `Ingestion` |
| Database session (`database/session.py`) | identity map of each session | flush, SELECT of a loaded row | used by every service | `UnitOfWork` |
| Refresh tokens (`services/auth_service.py`, `repositories/identity.py`) | `refresh_tokens`, row locks | login, rotation, revocation of a family | one usable token per login, an unforked chain, a replay ends the login | `RefreshTokens` |
| Tenant administration (`services/tenant_admin_service.py`) | `users`, `roles`, `user_roles` | create, update a user, assign roles | a tenant keeps an active administrator; no deactivation is written over | `TenantAdmin` |
| Database connections (`services/database/connection_service.py`, `repositories/database_connections.py`, `adapters/postgresql.py`, `host_security.py`) | `database_connections`, `database_schemas`, `database_tables`, `database_columns`, the row lock of a connection | create, update, delete, test, synchronise the schema | the usable tables are those of one discovery, and none while the connection is pending; deletions are final; "running" has an owner; every request ends | `Connections` |
| Permissions (`services/permission_service.py`, `services/database/permission_resolver.py`, `row_filter.py`) | `table_permissions`, `column_permissions` over `database_columns` | create, update, delete a grant, replace its columns; synchronisation beneath; resolution for a user | a row belongs to what it refers to; sensitive columns are masked; revocations stay; roles only widen; a synchronisation gives nothing | `Permissions`, `EffectiveSchema` |
| Safe queries (`query_validator.py`, `column_lineage.py`, `query_rewriter.py`, `result_masking.py`) | none between queries | validate, trace, filter, limit, fetch, mask | every output is masked as what it is made from; row filters reach every place that reads the table; a cut result says so | `QueryPipeline` |
| Chat and agent graph (`services/chat_service.py`, `agents/graph.py`, `query_executor.py`, `conversation_service.py`) | `conversations`, `messages`, `query_executions`; the graph state of a turn | run, stream, cancel; every node of the graph | an answer rests on an audited execution; only syntax is repaired, once; the reply is what is stored; an outcome is final; every turn ends | `ChatTurn` |
| LLM provider (`services/llm/groq_provider.py`) | attempts of one call | request with retries | bounded attempts per call | `ChatTurn` |
| Chunking, evidence, schema of a question (`services/documents/chunker.py`, `retrieval.py`, `services/database/schema_retriever.py`) | none | pure functions | windows cover the text; a choice keeps its bounds and leaves out nothing that fits | `Retrieval` |
| Browser session (`frontend/lib/server/session.ts` and the route handlers) | two cookies per browser | request with one refresh on 401, login, logout | parallel requests do not end the login | not modelled |
| Routes, schemas, configuration, middleware, migrations, scripts, frontend components | none of their own | | | not modelled: plumbing and presentation |

How they interact.  A request has one database session and one transaction at a
time; it talks to MinIO and Redis between commits, so no transaction spans two
stores.  Uploads and reprocesses send a message after their commit; a worker
receives it, opens its own sessions and commits three times (processing, result,
outcome).  A chat turn is one request: it commits the pending message, runs the
graph, which resolves the user's permissions, asks the model for SQL, has it
validated and audited (a commit before and one after the customer database
answers), and commits the answer.  Administrators change connections, schemas and
permissions meanwhile.  Redis delivers at least once, Dramatiq retries what fails.  All
processes meet only in the stores.  The browser holds tokens in cookies that the
Next.js server presents on its behalf.

What is hard here:

* a session neither reloads what it has loaded nor writes what it has not changed
  (`expire_on_commit=False`, `autoflush=False`), so a check after
  `SELECT ... FOR UPDATE` can be made on old attributes, and a flush can mix old
  and new columns;
* READ COMMITTED: a multi-row UPDATE does not see rows inserted while it waits;
* a rollback expires what a session has loaded, and the next access to it raises;
* seconds pass between what a test, a discovery or a turn has loaded and what it
  writes; only the reconciliation of a schema holds a lock;
* the merge of several grants, and the way of a column through the scopes of a
  query, have more cases than tests;
* two stores, one failure between them; messages delivered twice, late or never;
  time limits that interrupt the worker outside its handlers.

## 2. Modules

`UnitOfWork` states what a session does: `Flush` (only changed attributes are
written, over whatever the row now holds) and `Reselect` (a loaded row is not
reloaded); `UsableAfterRollback` says when a rollback leaves the session's objects
usable.  `Ingestion` uses both for every commit and for every
`SELECT ... FOR UPDATE`.

`Ingestion` has one action per stretch of code between two awaits at which another
actor can be noticed: a request is a record with a program counter `pc`, the file
it works on and `seen`, its session's copy of the row; a worker the same with its
message.  `row[f]` holds the columns of `files` that control the life cycle
(`status`, `deleted_at` as a Boolean, `ingestion_version`,
`active_ingestion_version`, `error_code`), `chunks` the generations stored in full,
`objects` the objects in MinIO, `queue` how many copies of each message Redis has.
Bytes are a checksum; a failed operation is a disjunct enabled by a fault of the
constant `Faults`, so that each run says which faults it admits.

`DocumentIndex` is the promise to retrieval.  A file has a last good generation from
the first one that is completed until for ever: only a generation that is stored in
full takes its place, in one step (`Publish`).  A file serves that generation or
nothing, and a removed file serves nothing ever again.  `Suspend` and `Resume` are the
one thing the documents rule out and the code does: a reprocess makes a file stop
serving until a worker begins (section 5); they leave the good generation alone.
`Ingestion` implements it with the mapping `Index`: `stored` is `chunks`, `good` the column
`active_ingestion_version`, `open` the files that retrieval's filter lets through, `removed`
the tombstones.  A run checks it, a theorem proves it, and `GoodGenerationsReturn` says
that what was suspended serves again in the end.

`MCIngestion` holds constants of the runs; `IngestionClaims` what documents say and
the code does not do; `IngestionProofs` the theorems.

`RefreshTokens` has the rows of one user's refresh tokens and a set of calls, each
with its transaction: `Lock` is `SELECT ... FOR UPDATE` with the checks that
follow, `RevokeStart`, `RevokeRow` and `RevokeCommit` are the one UPDATE of
`revoke_refresh_family`, split because it waits for one row after the other while
keeping those it has changed.  `Free` is a row no other transaction has locked.
`RefreshClaims` and `RefreshProofs` as above.

`TenantAdmin` has the users of one tenant, whether each has the role
`administrator` (of all roles the one the rules look at), and requests of its
administrators.  A request is a transaction: `Load`, `ReadRoles` (`get_user`,
`current_roles`), `Select` and `Lock` (`active_administrator_ids(for_update=True)`:
one snapshot finds the rows, then each is locked and looked at again), `Decide`
(the guard on the final administrator), `Replace` (the DELETE in
`replace_user_roles`), `Commit` (the flush, which writes what changed against
`seen`).  `Authorize` reads the caller's row and roles in one step where the code
has two SELECTs; a caller who changes itself finds that row in the session, and
the model starts from it.  `Clash` and `NeedsUser` are the primary key and the foreign
key of `user_roles`.  `MCTenantAdmin` holds the symmetry of the run, `TenantAdminProofs` the
theorems.

`ChatTurn` has the turns of one conversation, each a record with the node it is at
(`pc`) and the part of the graph state that routing, citations and the reply look
at.  One action is one node; `ValidateExecute` and `ExecuteQuery` are the two halves
of `SafeQueryService.execute`, before and after the call of the customer database,
because the audit is committed in between.  `message` and `executions` are what is
committed.  What the model, the customer database or retrieval answer is a choice;
`RouteIntent`, `RouteExecution`, `Clarify`, `Citations` and `Reply` are what the code makes
of it.  `ProviderRetry` and `ProviderFails` are the loop of `GroqProvider._request` at
whatever node waits for it; `Raise` is `_mark_failed`, `Cancel` `_mark_cancelled`, each
with the rollback it begins with.  Turns meet only in the conversation and the
connection.

`Retrieval` has the pure functions around a turn: `Windows` and `Chunks` of the
chunker, `Evidence` among ranked candidates, `Tables` and `Columns` of the schema a
question gets.  `WindowsCover`, `EvidenceIsMaximal` and `SchemaIsBounded` say what they
have to give; `MCChatTurn`, the module of the run on turns, evaluates them for every
input within small bounds as assumptions, and `RetrievalProofs` proves them for every
input.

`Connections` has one connection row, the cached tables with the synchronisation
their columns come from, the row lock, and requests with the objects their
sessions have loaded.  `Lock` is the SELECT ... FOR UPDATE of `reconcile_metadata`,
`Reconcile` what it flushes; an update is that with nothing discovered.  The way to
the customer database (`Reaches`) is decryption, two resolutions of the host, each
validated and each with an outcome of its own, and an answer.

`EffectiveSchema` is the pure merge: what one grant gives of a column (`Gives`), the
merge of several (`MergeColumn`, `MergeFilters`), and row filters as the sets of
columns they name.  `Permissions` has the grants on one table with the sessions that
change them, split where others can commit, and `Synchronize`, which adds and drops
columns and with them column rows.  `Selected`, `Readable` and `Visible` are the
resolver, for any user.  Actions commit what `Flush` makes of the loaded object.

`QueryPipeline` builds a query of up to `MaxScopes` scopes over one table, scope by scope.
A scope is part of the text of another one (a derived table, a branch of a set
operation, a subquery of a projection or of a condition), or it is a common table
expression, which may have the name of the table (`Namings`).  The query then goes
through the code's three walks, each with its own idea of the text:

* `Accepted`: the validator looks at every scope (`ScopeValid`, with the columns of the
  subqueries below it that could be the scope's), the analyzer at what the root's outputs
  ask for.  `Lineage` gives every scope its outputs with their sources, and `ok` where
  the analyzer would raise if it got there.  `TextRefs` is its `find_all`: all references in
  the text of an output, in whatever scope of that text.  `MaskingPlan` is what follows.
* `Visited`, `Contained`, `Wrapped`, `Met`: the rewriter walks the tree, replaces table nodes
  by their name and puts a predicate beside each.
* `FetchLimit`, `Fetched`, `Returned`, `Truncated`: the limit, the fetch and the masking.

What PostgreSQL does with the rewritten query is stated apart from them: which scopes
it evaluates (`Runs`, `Evaluated`), which rows of the table a source yields (`RowsRead`) and
which columns of the table an output is made from (`Means`, `MadeFrom`, `DependsOn`).  The
properties compare the two.  `QueryClaims` is the claim on masks that the code breaks.

The modules `MC...` hold constants of runs, those named `...Proofs` theorems.

Operators whose name is that of an action with an addition (`RotateUnlinked`,
`ActivateAndPrune`, ...) are mutants: a plausible bug in the action of that name,
used by no specification.  `PROJECT.json` says which property notices it.

## 3. Runs

| Run | Question | Bounds and faults |
|---|---|---|
| `IngestionLifecycle` | `TypeOK`, `LiveChecksumsUnique`, `NoStrandedFile`, `StoresAgree`, and under fairness `EveryFileSettles`, `GoodGenerationsReturn` | two files with the same bytes, an upload and two more requests of every kind, the knowledge base's included, one worker, one retry, two generations; refused commits, transient failures, crashes |
| `IngestionScaled` | `ActiveGenerationStored`, `DeletedForGood`, `ImplementsDocumentIndex` | two workers, one file, three requests that upload, delete or reprocess, no retry by Dramatiq but redelivery after crashes, two generations; every fault but refused commits |
| `RefreshRotation` | `TypeOK`, `OneLivePerFamily`, `RotationIsAChain`, `RotationKeepsSession`, and under fairness `EveryCallEnds` | four calls, four tokens: two logins that rotate, or one login with two rotations and a replay, the least in which a revocation, a rotation and a second family meet |
| `TenantAdministration` | `TypeOK`, `CountedAdministratorIsKept`, `DeactivationIsNotUndone` | two users, three requests of any kind, every initial state in which flag and role agree and someone administers the tenant |
| `ChatTurns` | `TypeOK`, `AnswerRestsOnAudit`, `RepairsSyntaxOnly`, `ReplyIsStored`, `OutcomeIsFinal`, and under fairness `EveryTurnEnds` | one turn, two retries, every answer of the model, failures of every statement, cancellation, crashes |
| `Connections` | `TypeOK`, `OneDiscovery`, `PendingHidesTables`, `RunningIsSomeones`, `DeletedStaysDeleted`, and under fairness `RequestsEnd` | three requests of any kind, two databases, two tables; failures, crashes |
| `Permissions` | `TypeOK`, `SensitiveMasked`, `RowsAreReferenced`, `RevocationsStay`, `RolesOnlyWiden`, `SyncWidensOnlyEmptied` | two subjects, two columns, one of them sensitive, two requests, any synchronisation, an open and a hashed capability, a filter on one column or none |
| `QueryPipeline` | `TypeOK`, `OutputsAreMasked`, `PlanFitsResult`, `RowsAreAuthorized`, `TruncationIsHonest` | every query of up to three scopes, three column references and three reads over two columns, four capabilities, no row filter or one on each column; two rows allowed, up to five available |
| `ClaimDeleted`, `ClaimReplay`, `ClaimPending`, `ClaimMasked` | a statement of the documents or tests that fails | the smallest instance that shows it |

Why the bounds are enough.  A race on a file needs a worker, a request that
overtakes it and one that lets both start: three requests.  `IngestionLifecycle` has the
one worker of `src/docker-compose.yml:195`; what it checks is about who works on a file, and
`NoStrandedFile` does not survive a second one (section 4).  A stale generation needs two
generations and two workers: `IngestionScaled`.  The code retries a document twice
(`MAX_RETRIES`, `src/workers/document_tasks.py:31`) and by default a call of the model twice;
it distinguishes only a retry that is left from none, so 0, 1 and 2 show both.  `MaxVersion`
bounds `ingestion_version`, an unbounded counter in the code: `ReprocessLoad` stops
there, and of three requests one has to upload, so at most two reprocess.  Symmetry
among requests, workers, tokens and calls is used only where no liveness is
checked.  In `TenantAdmin` a race for the last administrator needs a promotion, a
demotion and a demotion that waits for it: three requests, two users.  Turns meet in
nothing a property reads but the connection and the conversation, which change at
any time anyway, so one turn shows what several do (the theorems hold for any
number).  A mixture of two discoveries needs two synchronisations and an update
between them: three requests, two tables.  A merge of grants is decided by two of
them; a lost replacement by two requests; and a column that is dropped needs one
that stays.  A mask can be lost in a scope, in the scope that reads it and in a set
operation or a subquery over it: three scopes.  A scope of the run reads at most two
sources; it has one output of up to two references and its subqueries, or two outputs of
one reference, and at most one reference in its conditions; an aggregate is the whole
query, and only queries of one scope are executed, since the limit is the root's.  In
`Permissions` a subject whose grant was deleted gets no second one, and in `Connections`
the one connection is created once.

Fairness.  `FairSpec` in `Ingestion` gives weak fairness to a request that has begun and
to a worker: the event loop and the worker threads go on as long as their process lives,
and Redis keeps messages.  No fairness makes a client call, a fault occur or a fault not
occur: `EveryFileSettles` holds although `transient` may strike each attempt, because
the retries are counted.  It and `GoodGenerationsReturn` have the premise `CrashesEnd`:
workers may die at any point and any number of times, each time to have their message
delivered again, but not for ever.  They are checked without interrupts and lost
messages, which the code does not survive.  `FairSpec` in `RefreshTokens` gives weak
fairness to each call that has begun: Postgres grants a lock that is free, and every
call of the model ends, so none is overtaken for ever.  `TenantAdmin` states no
liveness: two requests can lock users in different orders, and that Postgres then aborts
one of them is its promise, not this code's (`RequestDies` covers the abort).  In
`ChatTurn` the steps of a turn are weakly fair, since every await has a timeout of its
own; cancellation and crashes are not, and retries are counted.  In `Connections` the
steps of a request are: calls to a customer database have timeouts and Postgres grants a
free lock.  `Permissions` and `QueryPipeline` state no liveness: none of their steps
waits.

## 4. What is proved

For every set of files, requests, workers, tokens, calls, tables and columns, every
bound and every set of faults, from the assumptions that the modules state of their
constants (`IngestionAssumption`, `TokensAssumption`, `UsersAssumption`,
`BoundsAssumption`, ...: sets are of the right kind, bounds are naturals).  Two theorems,
`StoresDoAgree` and `NoFileIsStranded`, have hypotheses of their own, because the code
does not give the property without them.

`IngestionProofs`: the invariant is `TypeOK /\ Sessions`, what sessions know that
the table does not say.  `UploadsFresh`: the file id of an upload under way is no
one else's, so an INSERT never meets a row.  `RequestsHold`, `WorkersHold`: a
session holds a row that exists, with a version not above the row's bound, a
reprocess's copy was not a tombstone, and so on.  It is needed because a flush
takes some columns from the session and some from the table: that the mixture is
a row, and keeps the active generation stored, depends on what the session could
have loaded.  Every action is first shown to change `row` and `chunks` in one of
five ways (`RowChange`: insert, edit, activate, tombstone, nothing); each theorem
then looks at five cases.

* `TypeCorrect`, `ActiveGenerationCorrect`, `LiveChecksumsAreUnique`,
  `DeletionIsForGood`: the properties of the runs.
* `TombstonesAgree`: status `deleted` implies the tombstone, which justifies that
  `KbDeleteCommit` writes both columns.
* `IndexImplemented`: `Spec => Index!Spec`.  Initial states map to initial states;
  every step is a `Publish`, `Suspend`, `Resume`, `Remove` or a stutter (`StepRefines`).  That
  no step takes the good generation back rests on what workers have loaded
  (`GoodOnesKept`).
* `StoresDoAgree` (`StoresAgree`), if no write or erasure of an object fails and no
  request dies: after either of them the stores may well differ.  A commit may
  be refused, a worker may crash, and any number of requests may run.  The invariant
  `Stores` says what a request in between owes: an object without a row belongs to an
  upload that will commit or take it back, a live row without its object to a deletion
  that will mark it; an upload has its object and no row until it commits, and what a
  deletion counts as removed is gone.
* `NoFileIsStranded` (`NoStrandedFile`), with one worker, if Redis takes every message, no
  request dies and no time limit interrupts a worker.  The invariant `Carrying` says that a
  busy file is awaited by a message of its generation, waiting or about to be sent, or
  is in the hands of the worker; that a worker whose message is superseded knows
  of one that waits (`SupersededAwaited`); that a worker about to let go of its message
  leaves nothing busy that nobody awaits (`LeftFilesAwaited`); and what its session can have
  loaded (`SessionsCurrent`), since a flush that finds the status unchanged does not write
  it.  `src/docker-compose.yml:195` runs one process with one thread.  With two workers the
  property is false: the first receives generation 1, the file is marked deleting and
  then accepted for reprocessing, the second worker indexes generation 2, and the first
  one's `Begin` writes "processing" over "ready" from the row it loaded before, while
  nothing carries generation 2 any more.

`RefreshProofs`: the invariant `Inv` adds to `TypeOK` that row locks are exclusive,
that the token of a call past its SELECT exists and, until the rotation commits,
is usable, that a revocation has chosen rows of its own family, and that families
and replacements are tokens of the table.  Without the locks, a second rotation
could start from a revoked token and fork the chain.  Every step changes the table
in one of three ways (`Adds`, `Replaces`, `Revokes`) or not at all.

* `TypeCorrect`, `OneLiveTokenPerFamily`, `RotationChains`, `SessionKept`: the
  safety properties of `RefreshRotation`.

`TenantAdminProofs`: the invariant `Inv` adds to `TypeOK` that locks are exclusive,
that users counted are locked and may still act (only the holder of a lock can
take that away), that a request past its SELECT holds a user that exists, and that
one past the guard has either counted another administrator or leaves its user
one.  A step changes users in one of two ways (`Written`, `Created`) or not at
all.  `DropsAsTold`, a second invariant on top of it, says that a role is deleted
only by a request told to replace the roles.

* `TypeCorrect`, `AdministratorKept`, `DeactivationStays`: all the properties of
  `TenantAdministration`.

`ChatTurnProofs`: the invariant says of each turn, by its place in the graph, what its
state holds: before a query has run there are no rows (`BeforeRows`), rows and tables
come with an execution that is accepted and succeeded (`Audited`), a second audit row
follows only an unparsable first (`Queries`), and once the answer is persisted the row
is what the reply will say (`Told`).  It is needed because the graph state is
inherited from node to node.  Each action is shown to advance one turn within it.

* `TypeCorrect`, `AnswersRestOnAudits`, `OnlySyntaxIsRepaired`, `RepliesAreStored`,
  `OutcomesAreFinal`: all the safety properties of `ChatTurns`.

`ConnectionsProofs`: the invariant adds what sessions have loaded: whoever holds the
lock has the cached tables as they are, every committed row of a table is of a
synchronisation that has ended, and a request about to note a failure has seen
another word than "failed", so that the flush writes it.

* `TypeCorrect`, `TablesAreOneDiscovery`, `PendingTablesAreHidden`, `RunningHasAnOwner`,
  `DeletionIsFinal`: all the safety properties of `Connections`.

`PermissionsProofs`: the invariant is typing, `RowsAreReferenced` and that rows on
sensitive columns, stored or about to be, carry a mask.  That roles only widen is
proved from lemmas on the merge: the columns a grant gives stay given in a larger
set of grants, and so do the rows its filter passes.

* `TypeCorrect`, `RowsBelong`, `SensitiveIsAlwaysMasked`, `RevocationsHold`,
  `FurtherRolesWiden`, `SynchronizationGivesNothing`: all the properties of `Permissions`.

`QueryPipelineProofs`: the invariant says that a query is well formed (`QueryWell`: a scope
has parts and reads sources that come before it, and names only what it reads), that a
plan is that of an accepted query (`Planned`) and an answer that of a limit and a number of
rows (`Answered`).  The verdict cannot change once given (`VerdictStands`).  The
properties then follow from the query alone, by induction over its scopes; walks are the
least sets that are closed (`Reach`), so that one is in another when the other is closed
under its steps (`ReachClosed`, `ReachLeast`).

* `FiltersAreApplied` (`RowsAreAuthorized`): every scope PostgreSQL evaluates is one the
  rewriter's walk has visited (`EvaluatedVisited`), and where it has been, the subquery it
  put in place of the table passes the rows of the filters and no others (`WrappedPasses`).
* `MasksFollowTheLineage` (`OutputsAreMasked`): `DependsOn` collects in as many rounds as there
  are scopes the pairs of a scope and an output that a value is made from.  Each round
  stays within pairs whose sources are sources of the first (`MadeWithin`), so what
  an output of an accepted query depends on is among the sources the analyzer found
  (`DependsOnSources`), these are readable (`SourcesReadable`), and the mask of the plan is
  the strongest of theirs.  A scalar subquery keeps within them when it reads what the
  scope around it reads, a common table expression when it is not replaced by the table;
  the others are the exceptions of the property (`LooksElsewhere`), which are defects
  (section 5).
* `EveryOutputHasAMask` (`PlanFitsResult`): names and lineage of a scope have the same outputs
  (`NamesOfLineage`), though one is found from the outside and the other bottom up.
* `TruncationIsReported`, `TypeCorrect`.

`RetrievalProofs`: theorems about operators, so there is no invariant over steps but one over
the elements of a fold: what has been chosen so far.

* `EveryTokenIsInAWindow`: the windows from any position on cover what is left (`Covered`),
  from the last position down; a stride is at least 1 whatever overlap is configured.
* `EvidenceIsWhatFits`: what has been chosen keeps the bounds and the order, and whatever was
  passed over did not fit then; choosing more makes nothing fit again.
* `SchemaIsWhatMayBeShown`: the best tables stay a prefix of what is chosen, further ones
  are referred to by a ranked one, and no table is chosen twice; from the hypotheses
  that the ranking is of visible tables and has each once.

The provers have no rule of induction, but the library has the least element of a set of
naturals.  From it (`LeastNat`, `Upwards`) both modules show that a recursive function over an
interval exists, which unfolds its definition, and that what each step keeps holds
after all of them; a fold over a sequence is unfolded in the same way.

Only model-checked: the liveness properties (`EveryFileSettles`, `GoodGenerationsReturn`,
`EveryCallEnds`, `EveryTurnEnds`, `RequestsEnd`; fairness and ENABLED are beyond the provers), and the claims,
which fail.

## 5. Findings

* A file deleted while a worker indexes it gets its status back (`ClaimDeleted`): the
  check after the second SELECT is made on the attributes loaded before.  What
  retrieval may see is not affected (`DeletionIsForGood`).
* A replay does not revoke the replacement that a concurrent rotation is inserting
  (`ClaimReplay`).
* A turn that fails or is cancelled while its session has a transaction open leaves
  its message pending and its stream without a last event (`ClaimPending`): the
  rollback that precedes the mark expires the tenant whose id the mark reads.
* A reprocess hides the last good generation.  `SECURITY.md:226-227` lets it stay active
  until a new one is committed, and the technical reference (1116-1117, 1205) says that
  replacement work cannot remove it and that it remains available.  The code keeps the
  column but sets the status to `pending` (`file_service.py:109`), which retrieval does not
  let through (`repositories/documents.py:125`), until a worker begins.  No fault is needed;
  if Redis does not take the message it lasts, since a reprocess of a pending file does
  nothing.  In `DocumentIndex` it is
  the action `Suspend`; that the file serves again is `GoodGenerationsReturn`.
* The mask of a scalar subquery is looked up in the wrong scope (`ClaimMasked`): the analyzer
  finds the subquery's columns in the text of the output (`column_lineage.py:122`) and
  resolves them among the sources of the scope around it, where another column may have
  the name.  `SECURITY.md:159-163` names nested subqueries.
* A common table expression with the name of a table is taken for the table by the rewriter
  (`query_rewriter.py:44`) once the user has a row filter on it, after the analyzer has
  taken it for the expression; the masks of the plan are then those of other columns.
  `OutputsAreMasked` excepts both cases (`LooksElsewhere`) and nothing else.

The models also show what no document speaks of: a test can mark
details connected that were changed meanwhile and never tested; a synchronisation
that drops the last column an allowlist names turns it into a grant of every column
that is not sensitive, and a row filter on a dropped column refuses every query of
the users it reaches (the exceptions in `SyncWidensOnlyEmptied` and `RolesOnlyWiden`); a
user promoted while a request waits to count the administrators is not counted.

## 6. Not modelled

* The browser session: two cookies, rewritten by the responses of parallel
  requests.  What the service does with the tokens it presents, a replay by a second
  request included, is in `RefreshTokens`.  It is the next thing to add: read, not checked, it
  loses a login in two more ways, since a response that ends in an error after a
  rotation (`session/me/route.ts`, the retry that times out in `session.ts`) does not
  carry the new cookies, and the browser then presents a revoked token.
* Queries over several tables and self-joins, correlated subqueries, WITH inside a
  subquery, aliases of sources and lists of column aliases, names of unaliased
  expressions (the analyzer and PostgreSQL name them differently, and the adapter refuses
  a result with two of one name), functions, syntax and complexity limits (each rejects
  a query whatever it reads), limits that are not literals.
* The check of a row filter's operators against the data types (`row_filter.py:55-65`), which
  only refuses more.
* Scores of retrieval and of tables, embeddings, file formats: given, or a choice.
* Types, keys and relationships in a discovered catalog; several schemas.
* Titles and listings; creation of a knowledge base and of roles other than
  `administrator`, of which nothing is kept.
* HTTP plumbing, configuration, presentation, one-off scripts.  Migrations are
  modelled by the constraints they create, where a step depends on one.
* Access tokens keep no state.  The branch of the rotation for a token whose claims
  disagree with its row is reached only with a forged signature.
