------------------------------ MODULE Ingestion ------------------------------
(***************************************************************************)
(* The life of the files of one knowledge base: API requests that upload,  *)
(* delete and reprocess them (services/documents/file_service.py), that    *)
(* update and delete the knowledge base (knowledge_base_service.py), and   *)
(* the Dramatiq workers that index them (workers/document_tasks.py).       *)
(*                                                                         *)
(* Three stores are involved and no transaction spans two of them:         *)
(* Postgres (kb, row, chunks), MinIO (objects) and Redis (queue).          *)
(***************************************************************************)
EXTENDS Naturals, FiniteSets, UnitOfWork

CONSTANTS
    Files,        \* the file ids that uploads may mint
    Checksum,     \* the SHA-256 of the bytes uploaded under each file id
    Requests,     \* API requests; each performs one operation
    Operations,   \* which operations each request may perform
    Workers,      \* worker threads
    MaxRetries,   \* MAX_RETRIES of document_tasks.py
    MaxVersion,   \* bound on ingestion_version
    Faults,       \* the faults the environment of a run may show
    NoFile,       \* the file of a request that has none
    NoMessage     \* the message of an idle worker

OperationKinds == {"upload", "delete", "reprocess", "kb_update", "kb_delete"}

\* put, erase: MinIO refuses or times out; commit: Postgres refuses the upload;
\* enqueue: Redis refuses; request: the API process dies, or Postgres refuses;
\* transient, content: what document_tasks.py retries and what it rejects;
\* interrupt: time_limit, or a second failure while the first is recorded;
\* crash: the worker process dies.
FaultKinds == {"put", "erase", "commit", "enqueue", "request",
               "transient", "content", "interrupt", "crash"}

ASSUME IngestionAssumption ==
    /\ Operations \in [Requests -> SUBSET OperationKinds]
    /\ Faults \subseteq FaultKinds
    /\ MaxRetries \in Nat
    /\ MaxVersion \in Nat \ {0}
    /\ NoFile \notin Files
    /\ DOMAIN Checksum = Files

VARIABLES
    kb,       \* knowledge_bases.status
    row,      \* files: one row per file id, "absent" until it is inserted
    chunks,   \* document_chunks: the <<file, generation>> pairs stored in full
    objects,  \* the file ids whose object is in MinIO
    queue,    \* Redis: how many copies of each message wait
    req,      \* the API requests
    wrk       \* the workers

vars == <<kb, row, chunks, objects, queue, req, wrk>>

-----------------------------------------------------------------------------
(* The tables and messages *)

KbStatuses == {"active", "inactive", "deleted"}
Statuses == {"pending", "processing", "ready", "failed", "deleting", "deleted"}
Versions == 1..MaxVersion
Row == [status  : Statuses \cup {"absent"},
        deleted : BOOLEAN,                   \* deleted_at IS NOT NULL
        version : Versions,                  \* ingestion_version
        active  : 0..MaxVersion,             \* active_ingestion_version
        error   : {"none", "RETRY_PENDING", "code"}]
Message == [file : Files, version : Versions, retries : 0..MaxRetries]

Absent == [status |-> "absent", deleted |-> FALSE, version |-> 1, active |-> 0,
           error |-> "none"]

InsertedAtZero == [Absent EXCEPT !.status = "pending", !.version = 0]

\* What StoredFile's column defaults make of a new row.
Inserted == [Absent EXCEPT !.status = "pending"]

-----------------------------------------------------------------------------
(* The requests and the workers.  `seen` is the row as the session holds it. *)

Unstarted == [pc |-> "start", file |-> NoFile, seen |-> Absent,
              files |-> {}, todo |-> {}, kbSeen |-> "active", kbNew |-> "active"]
Finished == [Unstarted EXCEPT !.pc = "done"]
Idle == [pc |-> "idle", msg |-> NoMessage, seen |-> Absent, note |-> "none"]

Init ==
    /\ kb = "active"
    /\ row = [f \in Files |-> Absent]
    /\ chunks = {}
    /\ objects = {}
    /\ queue = [m \in Message |-> 0]
    /\ req = [r \in Requests |-> Unstarted]
    /\ wrk = [w \in Workers |-> Idle]

Exists(f) == row[f].status # "absent"
Live(f) == Exists(f) /\ ~row[f].deleted

\* get_kb: a deleted knowledge base is not found, whoever asks.
KbFound == kb # "deleted"

\* The CHECK constraint file_active_ingestion_version_valid.
VersionsValid(new) == new.active <= new.version

Starts(r, op) == op \in Operations[r] /\ req[r].pc = "start"
Becomes(r, new) == req' = [req EXCEPT ![r] = new]
Goto(r, pc) == req' = [req EXCEPT ![r].pc = pc]
Finish(r) == Becomes(r, Finished)
Send(m) == queue' = [queue EXCEPT ![m] = @ + 1]

-----------------------------------------------------------------------------
(* FileService.upload *)

\* The policy check comes before the body is streamed and validated.  The file
\* id, minted later by uuid4(), is fixed here: it names what was uploaded.
UploadAccept(r) ==
    /\ Starts(r, "upload")
    /\ kb = "active"
    /\ \E f \in Files :
         /\ ~Exists(f) /\ f \notin objects
         /\ \A q \in Requests : req[q].file # f
         /\ Becomes(r, [req[r] EXCEPT !.pc = "upload_store", !.file = f])
    /\ UNCHANGED <<kb, row, chunks, objects, queue, wrk>>

\* A live file of this knowledge base has the same bytes: find_duplicate, and
\* the unique index uq_files_active_checksum.
Duplicate(f) == \E g \in Files : Live(g) /\ Checksum[g] = Checksum[f]

\* find_duplicate, and put_file under a key no one else knows yet.  A put that
\* fails may have stored the object: the thread outlives its timeout.
UploadStore(r) ==
    /\ req[r].pc = "upload_store"
    /\ LET f == req[r].file IN
       \/ Duplicate(f) /\ Finish(r) /\ UNCHANGED objects
       \/ ~Duplicate(f) /\ Goto(r, "upload_commit") /\ objects' = objects \cup {f}
       \/ /\ "put" \in Faults
          /\ ~Duplicate(f)
          /\ Finish(r)
          /\ objects' \in {objects, objects \cup {f}}
    /\ UNCHANGED <<kb, row, chunks, queue, wrk>>

UploadCommitUnindexed(r) ==
    /\ req[r].pc = "upload_commit"
    /\ row' = [row EXCEPT ![req[r].file] = Inserted]
    /\ Becomes(r, [req[r] EXCEPT !.pc = "upload_enqueue", !.seen = Inserted])
    /\ UNCHANGED <<kb, chunks, objects, queue, wrk>>

\* The INSERT; the unique index decides a race of two uploads.
UploadCommit(r) ==
    /\ req[r].pc = "upload_commit"
    /\ LET f == req[r].file IN
       \/ /\ ~Duplicate(f)
          /\ row' = [row EXCEPT ![f] = Inserted]
          /\ Becomes(r, [req[r] EXCEPT !.pc = "upload_enqueue", !.seen = Inserted])
       \/ /\ Duplicate(f) \/ "commit" \in Faults
          /\ Goto(r, "upload_undo")
          /\ UNCHANGED row
    /\ UNCHANGED <<kb, chunks, objects, queue, wrk>>

\* object_store.delete: a failed call may have deleted the object or not.
Erased(f) == {objects \ {f}} \cup (IF "erase" \in Faults THEN {objects} ELSE {})

UploadUndoForgotten(r) ==
    /\ req[r].pc = "upload_undo"
    /\ Finish(r)
    /\ UNCHANGED <<kb, row, chunks, objects, queue, wrk>>

UploadUndo(r) ==
    /\ req[r].pc = "upload_undo"
    /\ objects' \in Erased(req[r].file)
    /\ Finish(r)
    /\ UNCHANGED <<kb, row, chunks, queue, wrk>>

\* The last step of upload and of reprocess, with the version the session has.
Enqueue(r) ==
    /\ req[r].pc \in {"upload_enqueue", "reprocess_enqueue"}
    /\ Send([file |-> req[r].file, version |-> req[r].seen.version, retries |-> 0])
    /\ Finish(r)
    /\ UNCHANGED <<kb, row, chunks, objects, wrk>>

\* Redis refuses the message: the row is committed already, the caller gets 500.
EnqueueFails(r) ==
    /\ "enqueue" \in Faults
    /\ req[r].pc \in {"upload_enqueue", "reprocess_enqueue"}
    /\ Finish(r)
    /\ UNCHANGED <<kb, row, chunks, objects, queue, wrk>>

-----------------------------------------------------------------------------
(* FileService.delete *)

DeleteLoad(r) ==
    /\ Starts(r, "delete")
    /\ KbFound
    /\ \E f \in Files :
         /\ Exists(f)
         /\ row[f].status # "deleted"
         /\ Becomes(r, [req[r] EXCEPT !.pc = "delete_mark", !.file = f, !.seen = row[f]])
    /\ UNCHANGED <<kb, row, chunks, objects, queue, wrk>>

\* A commit of the request's session: it flushes `dirty` over the row, and the
\* session goes on with `dirty` as what it has loaded.
Commit(r, dirty, pc) ==
    /\ row' = [row EXCEPT ![req[r].file] = Flush(@, req[r].seen, dirty)]
    /\ Becomes(r, [req[r] EXCEPT !.pc = pc, !.seen = dirty])

DeleteMark(r) ==
    /\ req[r].pc = "delete_mark"
    /\ Commit(r, [req[r].seen EXCEPT !.status = "deleting"], "delete_erase")
    /\ UNCHANGED <<kb, chunks, objects, queue, wrk>>

DeleteErase(r) ==
    /\ req[r].pc = "delete_erase"
    /\ \/ /\ objects' = objects \ {req[r].file}
          /\ Goto(r, "delete_finish")
       \/ /\ "erase" \in Faults
          /\ objects' \in Erased(req[r].file)
          /\ Finish(r)
    /\ UNCHANGED <<kb, row, chunks, queue, wrk>>

DeleteFinish(r) ==
    /\ req[r].pc = "delete_finish"
    /\ row' = [row EXCEPT ![req[r].file] =
                 Flush(@, req[r].seen,
                       [req[r].seen EXCEPT !.status = "deleted", !.deleted = TRUE])]
    /\ Finish(r)
    /\ UNCHANGED <<kb, chunks, objects, queue, wrk>>

-----------------------------------------------------------------------------
(* FileService.reprocess *)

ReprocessLoad(r) ==
    /\ Starts(r, "reprocess")
    /\ KbFound
    /\ \E f \in Files :
         /\ Exists(f)
         /\ row[f].status \notin {"deleted", "pending", "processing"}
         /\ row[f].version < MaxVersion
         /\ Becomes(r, [req[r] EXCEPT !.pc = "reprocess_commit", !.file = f,
                                      !.seen = row[f]])
    /\ UNCHANGED <<kb, row, chunks, objects, queue, wrk>>

ReprocessFromScratch(r) ==
    /\ req[r].pc = "reprocess_commit"
    /\ Commit(r, [req[r].seen EXCEPT !.version = @ + 1, !.status = "pending",
                                     !.active = 0, !.error = "none"],
              "reprocess_enqueue")
    /\ UNCHANGED <<kb, chunks, objects, queue, wrk>>

\* ingestion_version is incremented in the session, not in the table.
ReprocessCommit(r) ==
    /\ req[r].pc = "reprocess_commit"
    /\ LET dirty == [req[r].seen EXCEPT !.version = @ + 1, !.status = "pending",
                                        !.error = "none"]
           new   == Flush(row[req[r].file], req[r].seen, dirty)
       IN  \/ VersionsValid(new) /\ Commit(r, dirty, "reprocess_enqueue")
           \/ ~VersionsValid(new) /\ Finish(r) /\ UNCHANGED row
    /\ UNCHANGED <<kb, chunks, objects, queue, wrk>>

-----------------------------------------------------------------------------
(* KnowledgeBaseService.update and delete *)

KbUpdateLoad(r) ==
    /\ Starts(r, "kb_update")
    /\ KbFound
    /\ \E new \in {"active", "inactive"} :
         Becomes(r, [req[r] EXCEPT !.pc = "kb_update", !.kbSeen = kb, !.kbNew = new])
    /\ UNCHANGED <<kb, row, chunks, objects, queue, wrk>>

KbUpdateCommit(r) ==
    /\ req[r].pc = "kb_update"
    /\ kb' = IF req[r].kbNew = req[r].kbSeen THEN kb ELSE req[r].kbNew
    /\ Finish(r)
    /\ UNCHANGED <<row, chunks, objects, queue, wrk>>

KbDeleteLoad(r) ==
    /\ Starts(r, "kb_delete")
    /\ KbFound
    /\ LET live == {f \in Files : Live(f)} IN
         Becomes(r, [req[r] EXCEPT !.pc = "kb_erase", !.files = live, !.todo = live])
    /\ UNCHANGED <<kb, row, chunks, objects, queue, wrk>>

\* One object after the other; a failure leaves the ones before it deleted.
KbErase(r) ==
    /\ req[r].pc = "kb_erase"
    /\ \E f \in req[r].todo :
         \/ /\ objects' = objects \ {f}
            /\ Becomes(r, [req[r] EXCEPT !.todo = @ \ {f}])
         \/ /\ "erase" \in Faults
            /\ objects' \in Erased(f)
            /\ Finish(r)
    /\ UNCHANGED <<kb, row, chunks, queue, wrk>>

\* Both columns are written: the rows were loaded with deleted_at NULL, and no
\* such row has status "deleted" (TombstoneMeansDeleted).
KbDeleteCommit(r) ==
    /\ req[r].pc = "kb_erase"
    /\ req[r].todo = {}
    /\ kb' = "deleted"
    /\ row' = [f \in Files |->
                 IF f \in req[r].files
                 THEN [row[f] EXCEPT !.status = "deleted", !.deleted = TRUE]
                 ELSE row[f]]
    /\ Finish(r)
    /\ UNCHANGED <<chunks, objects, queue, wrk>>

\* The request dies between two of its awaits.
RequestDies(r) ==
    /\ "request" \in Faults
    /\ req[r].pc \notin {"start", "done"}
    /\ Finish(r)
    /\ UNCHANGED <<kb, row, chunks, objects, queue, wrk>>

-----------------------------------------------------------------------------
(* process_document, with the delivery and retry of Dramatiq around it *)

WorkerGoto(w, pc) == wrk' = [wrk EXCEPT ![w].pc = pc]
Acknowledge(w) == wrk' = [wrk EXCEPT ![w] = Idle]
Target(w) == wrk[w].msg.file

\* Delivery and the guard of _process: a message whose generation is no longer
\* the file's is acknowledged and forgotten.
Receive(w) ==
    /\ wrk[w].pc = "idle"
    /\ \E m \in Message :
         /\ queue[m] > 0
         /\ queue' = [queue EXCEPT ![m] = @ - 1]
         /\ IF Live(m.file) /\ row[m.file].version = m.version
            THEN wrk' = [wrk EXCEPT ![w] = [pc |-> "begin", msg |-> m,
                                            seen |-> row[m.file], note |-> "none"]]
            ELSE UNCHANGED wrk
    /\ UNCHANGED <<kb, row, chunks, objects, req>>

\* A commit of the worker's session.
WorkerCommit(w, dirty, pc) ==
    /\ row' = [row EXCEPT ![Target(w)] = Flush(@, wrk[w].seen, dirty)]
    /\ wrk' = [wrk EXCEPT ![w].pc = pc, ![w].seen = dirty]

Begin(w) ==
    /\ wrk[w].pc = "begin"
    /\ WorkerCommit(w, [wrk[w].seen EXCEPT !.status = "processing"], "work")
    /\ UNCHANGED <<kb, chunks, objects, queue, req>>

\* Download, parse, chunk and embed.  A missing object is an S3Error, which is
\* neither TimeoutError nor OSError, and is retried all the same.
Prepare(w) ==
    /\ wrk[w].pc = "work"
    /\ \/ /\ Target(w) \in objects
          /\ WorkerGoto(w, "store")
       \/ /\ Target(w) \notin objects \/ "transient" \in Faults
          /\ wrk' = [wrk EXCEPT ![w].pc = "note", ![w].note = "RETRY_PENDING"]
       \/ /\ "content" \in Faults
          /\ wrk' = [wrk EXCEPT ![w].pc = "note", ![w].note = "code"]
    /\ UNCHANGED <<kb, row, chunks, objects, queue, req>>

ActivateAndPrune(w) ==
    /\ wrk[w].pc = "store"
    /\ row' = [row EXCEPT ![Target(w)] =
                 Flush(@, wrk[w].seen, [wrk[w].seen EXCEPT !.status = "ready",
                                                           !.active = wrk[w].msg.version])]
    /\ chunks' = {c \in chunks : c[1] # Target(w)}
                    \cup {<<Target(w), wrk[w].msg.version>>}
    /\ WorkerGoto(w, "noted")
    /\ UNCHANGED <<kb, objects, queue, req>>

\* The last transaction: it re-selects the row FOR UPDATE, replaces the chunks
\* of this generation and makes the generation the active one.  The comparison
\* of the re-selected row with the message is made on the object the session
\* already holds.  A refused commit is retried like any unknown exception.
Activate(w) ==
    /\ wrk[w].pc = "store"
    /\ LET f       == Target(w)
           v       == wrk[w].msg.version
           current == Reselect(row[f], wrk[w].seen)
           dirty   == [current EXCEPT !.status = "ready", !.active = v, !.error = "none"]
           new     == Flush(row[f], wrk[w].seen, dirty)
       IN  IF current.deleted \/ current.version # v
           THEN WorkerGoto(w, "noted") /\ UNCHANGED <<row, chunks>>
           ELSE \/ /\ VersionsValid(new)
                   /\ row' = [row EXCEPT ![f] = new]
                   /\ chunks' = chunks \cup {<<f, v>>}
                   /\ WorkerGoto(w, "noted")
                \/ /\ ~VersionsValid(new) \/ "transient" \in Faults
                   /\ wrk' = [wrk EXCEPT ![w].pc = "note", ![w].note = "RETRY_PENDING"]
                   /\ UNCHANGED <<row, chunks>>
    /\ UNCHANGED <<kb, objects, queue, req>>

\* _mark_retry_pending and _mark_failed: a fresh session selects the row, if it
\* still is this generation's and not deleted ...
NoteLoad(w) ==
    /\ wrk[w].pc = "note"
    /\ LET f == Target(w) IN
       IF Live(f) /\ row[f].version = wrk[w].msg.version
       THEN wrk' = [wrk EXCEPT ![w].pc = "note_commit", ![w].seen = row[f]]
       ELSE WorkerGoto(w, "noted")
    /\ UNCHANGED <<kb, row, chunks, objects, queue, req>>

NoteCommitAlwaysPending(w) ==
    /\ wrk[w].pc = "note_commit"
    /\ WorkerCommit(w, [wrk[w].seen EXCEPT !.status = "pending", !.error = wrk[w].note],
                    "noted")
    /\ UNCHANGED <<kb, chunks, objects, queue, req>>

NoteCommitHides(w) ==
    /\ wrk[w].pc = "note_commit"
    /\ WorkerCommit(w, [wrk[w].seen EXCEPT
                          !.status = IF wrk[w].note = "code" THEN "failed" ELSE "pending",
                          !.error = wrk[w].note],
                    "noted")
    /\ UNCHANGED <<kb, chunks, objects, queue, req>>

\* ... and writes the outcome.
NoteCommit(w) ==
    /\ wrk[w].pc = "note_commit"
    /\ LET unserved == IF wrk[w].note = "code" THEN "failed" ELSE "pending"
           dirty    == [wrk[w].seen EXCEPT
                          !.status = IF wrk[w].seen.active > 0 THEN "ready" ELSE unserved,
                          !.error = wrk[w].note]
       IN  WorkerCommit(w, dirty, "noted")
    /\ UNCHANGED <<kb, chunks, objects, queue, req>>

SettleWithoutNote(w) ==
    /\ wrk[w].pc = "noted"
    /\ IF wrk[w].note = "RETRY_PENDING" /\ wrk[w].msg.retries < MaxRetries
       THEN Send([wrk[w].msg EXCEPT !.retries = @ + 1])
       ELSE UNCHANGED queue
    /\ Acknowledge(w)
    /\ UNCHANGED <<kb, row, chunks, objects, req>>

\* A message that is done with, or rejected, is acknowledged; a retryable one is
\* sent again or, when its retries are used up, its failure is noted instead.
Settle(w) ==
    /\ wrk[w].pc = "noted"
    /\ LET m == wrk[w].msg IN
       \/ /\ wrk[w].note \in {"none", "code"}
          /\ Acknowledge(w)
          /\ UNCHANGED queue
       \/ /\ wrk[w].note = "RETRY_PENDING" /\ m.retries < MaxRetries
          /\ Send([m EXCEPT !.retries = @ + 1])
          /\ Acknowledge(w)
       \/ /\ wrk[w].note = "RETRY_PENDING" /\ m.retries >= MaxRetries
          /\ wrk' = [wrk EXCEPT ![w].pc = "note", ![w].note = "code"]
          /\ UNCHANGED queue
    /\ UNCHANGED <<kb, row, chunks, objects, req>>

\* An exception that process_document does not catch: Dramatiq's middleware
\* sends the message again or, after the last retry, gives it up.
Interrupt(w) ==
    /\ "interrupt" \in Faults
    /\ wrk[w].pc # "idle"
    /\ LET m == wrk[w].msg IN
       IF m.retries < MaxRetries THEN Send([m EXCEPT !.retries = @ + 1])
                                 ELSE UNCHANGED queue
    /\ Acknowledge(w)
    /\ UNCHANGED <<kb, row, chunks, objects, req>>

\* The worker dies with the message unacknowledged: Redis delivers it again.
Crash(w) ==
    /\ "crash" \in Faults
    /\ wrk[w].pc # "idle"
    /\ Send(wrk[w].msg)
    /\ Acknowledge(w)
    /\ UNCHANGED <<kb, row, chunks, objects, req>>

-----------------------------------------------------------------------------
RequestStarts(r) ==
    \/ UploadAccept(r) \/ DeleteLoad(r) \/ ReprocessLoad(r)
    \/ KbUpdateLoad(r) \/ KbDeleteLoad(r)

RequestContinues(r) ==
    \/ UploadStore(r) \/ UploadCommit(r) \/ UploadUndo(r) \/ Enqueue(r)
    \/ DeleteMark(r) \/ DeleteErase(r) \/ DeleteFinish(r)
    \/ ReprocessCommit(r)
    \/ KbUpdateCommit(r) \/ KbErase(r) \/ KbDeleteCommit(r)

WorkerContinues(w) ==
    \/ Receive(w) \/ Begin(w) \/ Prepare(w) \/ Activate(w)
    \/ NoteLoad(w) \/ NoteCommit(w) \/ Settle(w)

\* Nothing is left to do but what a request not yet made would bring.
Rest ==
    /\ \A r \in Requests : req[r].pc \in {"start", "done"}
    /\ \A w \in Workers : wrk[w].pc = "idle"
    /\ \A m \in Message : queue[m] = 0
    /\ UNCHANGED vars

Next ==
    \/ \E r \in Requests : \/ RequestStarts(r) \/ RequestContinues(r)
                           \/ EnqueueFails(r) \/ RequestDies(r)
    \/ \E w \in Workers : WorkerContinues(w) \/ Interrupt(w) \/ Crash(w)
    \/ Rest

Spec == Init /\ [][Next]_vars

\* A request that has begun and a worker that has a message go on; nothing
\* obliges a client to make a request, or a fault to occur.
FairSpec ==
    /\ Spec
    /\ \A r \in Requests : WF_vars(RequestContinues(r))
    /\ \A w \in Workers : WF_vars(WorkerContinues(w))

-----------------------------------------------------------------------------
(* Properties *)

TypeOK ==
    /\ kb \in KbStatuses
    /\ row \in [Files -> Row]
    /\ chunks \subseteq Files \X Versions
    /\ objects \subseteq Files
    /\ queue \in [Message -> Nat]
    /\ req \in [Requests -> [pc : {"start", "upload_store", "upload_commit",
                                   "upload_undo", "upload_enqueue", "delete_mark",
                                   "delete_erase", "delete_finish",
                                   "reprocess_commit", "reprocess_enqueue",
                                   "kb_update", "kb_erase", "done"},
                             file : Files \cup {NoFile}, seen : Row,
                             files : SUBSET Files, todo : SUBSET Files,
                             kbSeen : KbStatuses, kbNew : {"active", "inactive"}]]
    /\ wrk \in [Workers -> [pc : {"idle", "begin", "work", "store", "note",
                                  "note_commit", "noted"},
                            msg : Message \cup {NoMessage}, seen : Row,
                            note : {"none", "RETRY_PENDING", "code"}]]

RetrievableByStatus(f) ==
    /\ row[f].status \in {"ready", "processing"}
    /\ row[f].active > 0
    /\ <<f, row[f].active>> \in chunks

\* active_chunks, dense_candidates and lexical_candidates: the filter of every
\* retrieval, and the generation it lets through.
Retrievable(f) ==
    /\ row[f].status \in {"ready", "processing"}
    /\ row[f].active > 0
    /\ ~row[f].deleted
    /\ <<f, row[f].active>> \in chunks

\* The generation a file serves is stored in full, whatever requests, workers
\* and faults have interleaved, and it is not newer than the file's generation.
ActiveGenerationStored ==
    \A f \in Files : row[f].active > 0 =>
        /\ <<f, row[f].active>> \in chunks
        /\ row[f].active <= row[f].version

\* A file is listed as "deleted" only when it has its tombstone.
TombstoneMeansDeleted ==
    \A f \in Files : row[f].status = "deleted" => row[f].deleted

\* No stale session takes a tombstone away or serves a deleted file again,
\* whatever it makes of the file's status.
DeletedForGood ==
    [][\A f \in Files : row[f].deleted => row'[f].deleted /\ ~Retrievable(f)']_vars

\* The index that retrieval sees is the one DocumentIndex promises: reprocesses,
\* retries, redeliveries and deletions never cost a file its last good generation.
Index == INSTANCE DocumentIndex WITH
    stored  <- chunks,
    good    <- [f \in Files |-> row[f].active],
    open    <- {f \in Files : Retrievable(f)},
    removed <- {f \in Files : row[f].deleted}

ImplementsDocumentIndex == Index!Spec

\* Two live files never hold the same bytes: find_duplicate alone does not see
\* an upload that has not committed yet.
LiveChecksumsUnique ==
    \A f, g \in Files : Live(f) /\ Live(g) /\ Checksum[f] = Checksum[g] => f = g

\* Between requests Postgres and MinIO agree: the live files are those whose
\* object is stored.
StoresAgree ==
    (\A r \in Requests : req[r].pc \in {"start", "done"})
        => {f \in Files : Live(f)} = objects

\* Some message, waiting, held by a worker or about to be sent, will get the
\* file's current generation out of "pending" or "processing".
Carried(f) ==
    \/ \E m \in Message : m.file = f /\ m.version = row[f].version /\ queue[m] > 0
    \/ \E w \in Workers : /\ wrk[w].pc # "idle"
                          /\ Target(w) = f /\ wrk[w].msg.version = row[f].version
    \/ \E r \in Requests : /\ req[r].pc \in {"upload_enqueue", "reprocess_enqueue"}
                           /\ req[r].file = f /\ req[r].seen.version = row[f].version

Busy(f) == Live(f) /\ row[f].status \in {"pending", "processing"}

\* A file the API reports as being worked on is being worked on.  It is what
\* makes reprocess right to do nothing for such a file.
NoStrandedFile == \A f \in Files : Busy(f) => Carried(f)

\* Workers do not die for ever: Redis delivers the message of a dead one again.
CrashesEnd == <>[][\A w \in Workers : ~Crash(w)]_vars

\* Every file is at some point ready, failed or deleted.
EveryFileSettles == CrashesEnd => \A f \in Files : Busy(f) ~> ~Busy(f)

\* A file that has a good generation serves it again, however its reprocessing
\* ends, unless it is deleted.
GoodGenerationsReturn ==
    CrashesEnd => \A f \in Files :
                     row[f].active > 0 ~> (Retrievable(f) \/ row[f].deleted)
=============================================================================
