--------------------------- MODULE IngestionProofs ---------------------------
(* Theorems about Ingestion, for every set of files, requests and workers, *)
(* every fault and every bound.                                            *)
EXTENDS Ingestion, TLAPS

-----------------------------------------------------------------------------
(* Sessions.  A flush of a row is a row, attribute by attribute. *)

\* A flush makes a row, column by column of the session or of the table.
LEMMA FlushedRow ==
    ASSUME NEW stored \in Row, NEW loaded \in Row, NEW dirty \in Row
    PROVE  LET new == Flush(stored, loaded, dirty) IN
           /\ new \in Row
           /\ new.status  = IF dirty.status = loaded.status
                            THEN stored.status ELSE dirty.status
           /\ new.deleted = IF dirty.deleted = loaded.deleted
                            THEN stored.deleted ELSE dirty.deleted
           /\ new.version = IF dirty.version = loaded.version
                            THEN stored.version ELSE dirty.version
           /\ new.active  = IF dirty.active = loaded.active
                            THEN stored.active ELSE dirty.active
           /\ new.error   = IF dirty.error = loaded.error
                            THEN stored.error ELSE dirty.error
<1>1. DOMAIN stored = {"status", "deleted", "version", "active", "error"}
  BY DEF Row
<1>2. Flush(stored, loaded, dirty) =
        [a \in {"status", "deleted", "version", "active", "error"} |->
            IF dirty[a] = loaded[a] THEN stored[a] ELSE dirty[a]]
  BY <1>1 DEF Flush
<1>3. Flush(stored, loaded, dirty) =
        [status  |-> IF dirty.status = loaded.status
                     THEN stored.status ELSE dirty.status,
         deleted |-> IF dirty.deleted = loaded.deleted
                     THEN stored.deleted ELSE dirty.deleted,
         version |-> IF dirty.version = loaded.version
                     THEN stored.version ELSE dirty.version,
         active  |-> IF dirty.active = loaded.active
                     THEN stored.active ELSE dirty.active,
         error   |-> IF dirty.error = loaded.error
                     THEN stored.error ELSE dirty.error]
  BY <1>2
<1>4. QED BY <1>3 DEF Row

-----------------------------------------------------------------------------
(* The inductive invariant: what a session in progress may rely on.  It may *)
(* not rely on the row being as it has seen it.                             *)

\* The file id of an upload is not in the table and is no other request's.
UploadsFresh ==
    \A r \in Requests : req[r].pc \in {"upload_store", "upload_commit"} =>
        /\ req[r].file \in Files
        /\ row[req[r].file] = Absent
        /\ \A q \in Requests : q # r => req[q].file # req[r].file

\* A request that has loaded a row works on a row of the table; if it has seen
\* a tombstone, the tombstone is there.
RequestsHold ==
    \A r \in Requests :
        /\ req[r].pc \in {"upload_enqueue", "delete_mark", "delete_erase", "delete_finish",
                          "reprocess_commit", "reprocess_enqueue"} =>
             /\ req[r].file \in Files
             /\ Exists(req[r].file)
             /\ req[r].seen.deleted => row[req[r].file].deleted
        /\ req[r].pc = "reprocess_commit" => req[r].seen.version < MaxVersion
        /\ \A f \in req[r].files : Exists(f)

\* A worker works on a row of the table that it has seen without a tombstone,
\* indexes a file that it has made "processing", and the good generation that it
\* has seen is there, if perhaps no longer the last.
WorkersHold ==
    \A w \in Workers : wrk[w].pc # "idle" =>
        /\ wrk[w].msg \in Message
        /\ Exists(wrk[w].msg.file)
        /\ ~wrk[w].seen.deleted
        /\ wrk[w].pc \in {"work", "store"} => wrk[w].seen.status = "processing"
        /\ wrk[w].seen.active > 0 =>
             /\ row[wrk[w].msg.file].active > 0
             /\ <<wrk[w].msg.file, wrk[w].seen.active>> \in chunks

NothingAbsentStored == \A f \in Files : ~Exists(f) => row[f] = Absent

Sessions == /\ UploadsFresh /\ RequestsHold /\ WorkersHold
            /\ NothingAbsentStored /\ ActiveGenerationStored

-----------------------------------------------------------------------------
(* What a step may do to the tables files and document_chunks.  The theorems *)
(* follow from this alone; that every step is one of these is lemma RowStep. *)

Inserts(f) ==
    /\ row[f] = Absent /\ ~Duplicate(f)
    /\ row' = [row EXCEPT ![f] = Inserted]
    /\ chunks' = chunks

Edits(f, new) ==
    /\ Exists(f)
    /\ row' = [row EXCEPT ![f] = new]
    /\ chunks' = chunks
    /\ new.status # "absent"
    /\ new.status = "deleted" => new.deleted \/ row[f].status = "deleted"
    /\ row[f].deleted => new.deleted
    /\ new.active = row[f].active
    /\ new.version = row[f].version \/ VersionsValid(new)

Activates(f, new, v) ==
    /\ Exists(f)
    /\ row' = [row EXCEPT ![f] = new]
    /\ chunks' = chunks \cup {<<f, v>>}
    /\ new.status = "ready"
    /\ new.deleted = row[f].deleted
    /\ \/ new.active = v
       \/ new.active = row[f].active /\ row[f].active > 0 /\ <<f, v>> \in chunks
    /\ VersionsValid(new)

Tombstones(F) ==
    /\ \A f \in F : Exists(f)
    /\ row' = [f \in Files |-> IF f \in F
                               THEN [row[f] EXCEPT !.status = "deleted", !.deleted = TRUE]
                               ELSE row[f]]
    /\ chunks' = chunks

RowChange ==
    \/ UNCHANGED <<row, chunks>>
    \/ \E f \in Files, new \in Row : Edits(f, new)
    \/ \E f \in Files, new \in Row, v \in Versions : Activates(f, new, v)
    \/ \E F \in SUBSET Files : Tombstones(F)

RowStep == RowChange \/ \E f \in Files : Inserts(f)

LEMMA AbsentIsRow == Absent \in Row /\ Inserted \in Row
<1>1. Absent \in Row
  BY IngestionAssumption DEF Absent, Row, Statuses, Versions
<1>2. QED BY <1>1 DEF Inserted, Row, Statuses

\* A commit that leaves active_ingestion_version alone edits a row, if the
\* session has loaded it and has seen no tombstone that is not there.
LEMMA CommitEdits ==
    ASSUME TypeOK, NEW f \in Files, Exists(f),
           NEW loaded \in Row, loaded.deleted => row[f].deleted,
           NEW dirty \in Row, dirty.status # "absent", dirty.active = loaded.active,
           loaded.deleted => dirty.deleted,
           dirty.status = "deleted" /\ loaded.status # "deleted" => dirty.deleted,
           \/ dirty.version = loaded.version
           \/ VersionsValid(Flush(row[f], loaded, dirty)),
           row' = [row EXCEPT ![f] = Flush(@, loaded, dirty)],
           UNCHANGED chunks
    PROVE  RowChange
<1> DEFINE new == Flush(row[f], loaded, dirty)
<1>1. row[f] \in Row
  BY DEF TypeOK
<1>2. new \in Row
  BY <1>1, FlushedRow
<1>3. Edits(f, new)
  <2>1. row' = [row EXCEPT ![f] = new]
    OBVIOUS
  <2>2. new.status # "absent" /\ (new.status = "deleted" => new.deleted \/ row[f].status = "deleted")
    BY <1>1, FlushedRow DEF Exists, Row
  <2>3. row[f].deleted => new.deleted
    BY <1>1, FlushedRow DEF Row
  <2>4. new.active = row[f].active /\ (new.version = row[f].version \/ VersionsValid(new))
    BY <1>1, FlushedRow
  <2>5. QED BY <2>1, <2>2, <2>3, <2>4 DEF Edits
<1>4. QED BY <1>2, <1>3 DEF RowChange

\* Every step of the specification is a RowStep, and only uploads insert.
LEMMA StepsAreRowSteps ==
    ASSUME TypeOK, Sessions, Next
    PROVE  RowChange \/ \E r \in Requests : UploadCommit(r) /\ Inserts(req[r].file)
<1> USE DEF RowChange
<1>1. ASSUME NEW r \in Requests, UploadCommit(r)
      PROVE  RowChange \/ Inserts(req[r].file)
  <2> DEFINE f == req[r].file
  <2>1. f \in Files /\ row[f] = Absent
    BY <1>1 DEF UploadCommit, Sessions, UploadsFresh
  <2>2. CASE ~Duplicate(f) /\ row' = [row EXCEPT ![f] = Inserted]
    BY <1>1, <2>1, <2>2 DEF UploadCommit, Inserts
  <2>3. CASE UNCHANGED row
    BY <1>1, <2>3 DEF UploadCommit
  <2>4. QED BY <1>1, <2>2, <2>3 DEF UploadCommit
<1>2. ASSUME NEW r \in Requests, DeleteMark(r)
      PROVE  RowChange
  <2> DEFINE dirty == [req[r].seen EXCEPT !.status = "deleting"]
  <2>1. /\ req[r].file \in Files /\ Exists(req[r].file)
        /\ req[r].seen.deleted => row[req[r].file].deleted
    BY <1>2 DEF DeleteMark, Sessions, RequestsHold
  <2>2. req[r].seen \in Row
    BY DEF TypeOK
  <2>3. /\ dirty \in Row /\ dirty.status = "deleting" /\ dirty.active = req[r].seen.active
        /\ dirty.version = req[r].seen.version /\ dirty.deleted = req[r].seen.deleted
    BY <2>2 DEF Row, Statuses
  <2>4. row' = [row EXCEPT ![req[r].file] = Flush(@, req[r].seen, dirty)] /\ UNCHANGED chunks
    BY <1>2 DEF DeleteMark, Commit
  <2> HIDE DEF dirty, RowChange
  <2>5. dirty.status # "absent" /\ dirty.status # "deleted"
    BY <2>3
  <2>6. QED BY <2>1, <2>2, <2>3, <2>4, <2>5, CommitEdits
<1>3. ASSUME NEW r \in Requests, DeleteFinish(r)
      PROVE  RowChange
  <2> DEFINE dirty == [req[r].seen EXCEPT !.status = "deleted", !.deleted = TRUE]
  <2>1. /\ req[r].file \in Files /\ Exists(req[r].file)
        /\ req[r].seen.deleted => row[req[r].file].deleted
    BY <1>3 DEF DeleteFinish, Sessions, RequestsHold
  <2>2. req[r].seen \in Row
    BY DEF TypeOK
  <2>3. /\ dirty \in Row /\ dirty.status = "deleted" /\ dirty.active = req[r].seen.active
        /\ dirty.version = req[r].seen.version /\ dirty.deleted
    BY <2>2 DEF Row, Statuses
  <2>4. row' = [row EXCEPT ![req[r].file] = Flush(@, req[r].seen, dirty)] /\ UNCHANGED chunks
    BY <1>3 DEF DeleteFinish
  <2> HIDE DEF dirty, RowChange
  <2>5. QED BY <2>1, <2>2, <2>3, <2>4, CommitEdits
<1>4. ASSUME NEW r \in Requests, ReprocessCommit(r)
      PROVE  RowChange
  <2> DEFINE dirty == [req[r].seen EXCEPT !.version = @ + 1, !.status = "pending",
                                          !.error = "none"]
             new == Flush(row[req[r].file], req[r].seen, dirty)
  <2>1. /\ req[r].file \in Files /\ Exists(req[r].file)
        /\ req[r].seen.deleted => row[req[r].file].deleted
        /\ req[r].seen.version < MaxVersion
    BY <1>4 DEF ReprocessCommit, Sessions, RequestsHold
  <2>2. req[r].seen \in Row
    BY DEF TypeOK
  <2>3. /\ dirty \in Row /\ dirty.status = "pending" /\ dirty.active = req[r].seen.active
        /\ dirty.deleted = req[r].seen.deleted
    <3>1. req[r].seen.version + 1 \in Versions
      BY <2>1, <2>2, IngestionAssumption DEF Row, Versions
    <3>2. QED BY <2>2, <3>1 DEF Row, Statuses
  <2>4. CASE VersionsValid(new) /\ Commit(r, dirty, "reprocess_enqueue")
    <3>1. row' = [row EXCEPT ![req[r].file] = Flush(@, req[r].seen, dirty)] /\ UNCHANGED chunks
      BY <1>4, <2>4 DEF ReprocessCommit, Commit
    <3> HIDE DEF dirty, RowChange
    <3>2. dirty.status # "absent" /\ dirty.status # "deleted"
      BY <2>3
    <3>3. QED BY <2>1, <2>2, <2>3, <2>4, <3>1, <3>2, CommitEdits
  <2>5. CASE UNCHANGED row
    BY <1>4, <2>5 DEF ReprocessCommit
  <2>6. QED BY <1>4, <2>4, <2>5 DEF ReprocessCommit
<1>5. ASSUME NEW r \in Requests, KbDeleteCommit(r)
      PROVE  RowChange
  <2>1. \A f \in req[r].files : Exists(f)
    BY DEF Sessions, RequestsHold
  <2>2. req[r].files \in SUBSET Files
    BY DEF TypeOK
  <2>3. Tombstones(req[r].files)
    BY <1>5, <2>1 DEF KbDeleteCommit, Tombstones
  <2>4. QED BY <2>2, <2>3
<1>6. ASSUME NEW w \in Workers, Begin(w) \/ NoteCommit(w)
      PROVE  RowChange
  <2> DEFINE f == wrk[w].msg.file
  <2>1. f \in Files /\ Exists(f) /\ ~wrk[w].seen.deleted
    BY <1>6 DEF Begin, NoteCommit, Sessions, WorkersHold, Message
  <2>2. wrk[w].seen \in Row /\ wrk[w].note \in {"none", "RETRY_PENDING", "code"}
    BY DEF TypeOK
  <2>3. CASE Begin(w)
    <3> DEFINE dirty == [wrk[w].seen EXCEPT !.status = "processing"]
    <3>1. /\ dirty \in Row /\ dirty.status = "processing" /\ dirty.active = wrk[w].seen.active
          /\ dirty.version = wrk[w].seen.version /\ dirty.deleted = wrk[w].seen.deleted
      BY <2>2 DEF Row, Statuses
    <3>2. row' = [row EXCEPT ![f] = Flush(@, wrk[w].seen, dirty)] /\ UNCHANGED chunks
      BY <2>3 DEF Begin, WorkerCommit, Target
    <3>3. QED BY <2>1, <2>2, <3>1, <3>2, CommitEdits
  <2>4. CASE NoteCommit(w)
    <3> DEFINE unserved == IF wrk[w].note = "code" THEN "failed" ELSE "pending"
               status == IF wrk[w].seen.active > 0 THEN "ready" ELSE unserved
               dirty == [wrk[w].seen EXCEPT !.status = status, !.error = wrk[w].note]
    <3>1. status \in {"ready", "failed", "pending"}
      OBVIOUS
    <3> HIDE DEF status
    <3>2. /\ dirty \in Row /\ dirty.status \in {"ready", "failed", "pending"}
          /\ dirty.active = wrk[w].seen.active
          /\ dirty.version = wrk[w].seen.version /\ dirty.deleted = wrk[w].seen.deleted
      BY <2>2, <3>1 DEF Row, Statuses
    <3>3. row' = [row EXCEPT ![f] = Flush(@, wrk[w].seen, dirty)] /\ UNCHANGED chunks
      BY <2>4 DEF NoteCommit, WorkerCommit, Target, status
    <3>4. QED BY <2>1, <2>2, <3>2, <3>3, CommitEdits
  <2>5. QED BY <1>6, <2>3, <2>4
<1>7. ASSUME NEW w \in Workers, Activate(w)
      PROVE  RowChange
  <2> DEFINE f == wrk[w].msg.file
             v == wrk[w].msg.version
             dirty == [wrk[w].seen EXCEPT !.status = "ready", !.active = v, !.error = "none"]
             new == Flush(row[f], wrk[w].seen, dirty)
  <2>1. f \in Files /\ v \in Versions /\ Exists(f) /\ ~wrk[w].seen.deleted
    BY <1>7 DEF Activate, Sessions, WorkersHold, Message
  <2>2. wrk[w].seen \in Row /\ row[f] \in Row
    BY <2>1 DEF TypeOK
  <2>3. /\ dirty \in Row /\ dirty.status = "ready" /\ dirty.active = v
        /\ dirty.version = wrk[w].seen.version /\ dirty.deleted = wrk[w].seen.deleted
    <3>1. v \in 0..MaxVersion
      BY <2>1 DEF Versions
    <3> HIDE DEF v
    <3>2. QED BY <2>2, <3>1 DEF Row, Statuses
  <2>4. CASE UNCHANGED <<row, chunks>>
    BY <2>4
  <2>5. CASE VersionsValid(new) /\ row' = [row EXCEPT ![f] = new] /\ chunks' = chunks \cup {<<f, v>>}
    <3> HIDE DEF dirty
    <3>0. /\ wrk[w].seen.status = "processing"
          /\ wrk[w].seen.active > 0 => /\ row[f].active > 0
                                       /\ <<f, wrk[w].seen.active>> \in chunks
      BY <1>7 DEF Activate, Sessions, WorkersHold
    <3>1. new \in Row /\ new.status = "ready"
      BY <2>2, <2>3, <3>0, FlushedRow
    <3>2. new.deleted = row[f].deleted
      BY <2>2, <2>3, FlushedRow
    <3>3. \/ new.active = v
          \/ new.active = row[f].active /\ row[f].active > 0 /\ <<f, v>> \in chunks
      <4>1. CASE wrk[w].seen.active = v
        <5>1. v > 0
          BY <2>1 DEF Versions
        <5>2. row[f].active > 0 /\ <<f, v>> \in chunks
          BY <3>0, <4>1, <5>1
        <5>3. new.active \in {row[f].active, v}
          BY <2>2, <2>3, FlushedRow
        <5>4. QED BY <5>2, <5>3
      <4>2. CASE wrk[w].seen.active # v
        BY <2>2, <2>3, <4>2, FlushedRow
      <4>3. QED BY <4>1, <4>2
    <3>5. Activates(f, new, v)
      BY <2>1, <2>5, <3>1, <3>2, <3>3 DEF Activates
    <3>6. QED BY <2>1, <3>1, <3>5
  <2>6. QED BY <1>7, <2>4, <2>5 DEF Activate, Reselect, Target
<1>8. QED
  <2>1. ASSUME NEW r \in Requests,
               \/ RequestStarts(r) \/ EnqueueFails(r) \/ RequestDies(r)
               \/ UploadStore(r) \/ UploadUndo(r) \/ Enqueue(r) \/ DeleteErase(r)
               \/ KbUpdateCommit(r) \/ KbErase(r)
        PROVE  UNCHANGED <<row, chunks>>
    BY <2>1 DEF RequestStarts, UploadAccept, DeleteLoad, ReprocessLoad, KbUpdateLoad,
                KbDeleteLoad,
                EnqueueFails, RequestDies, UploadStore, UploadUndo, Enqueue, DeleteErase,
                KbUpdateCommit, KbErase
  <2>2. ASSUME NEW w \in Workers,
               Receive(w) \/ Prepare(w) \/ NoteLoad(w) \/ Settle(w) \/ Interrupt(w) \/ Crash(w)
        PROVE  UNCHANGED <<row, chunks>>
    BY <2>2 DEF Receive, Prepare, NoteLoad, Settle, Interrupt, Crash
  <2>3. CASE Rest
    BY <2>3 DEF Rest, vars
  <2>4. QED
    BY <1>1, <1>2, <1>3, <1>4, <1>5, <1>6, <1>7, <2>1, <2>2, <2>3
    DEF Next, RequestContinues, WorkerContinues

-----------------------------------------------------------------------------
(* Type correctness.  The tables are typed by RowStep; what is left are the *)
(* stores of objects and messages and the states of requests and workers.   *)

LEMMA RowStepTypes ==
    ASSUME TypeOK, RowStep
    PROVE  row' \in [Files -> Row] /\ chunks' \subseteq Files \X Versions
<1>1. CASE UNCHANGED <<row, chunks>>
  BY <1>1 DEF TypeOK
<1>2. ASSUME NEW f \in Files, Inserts(f)
      PROVE  row' \in [Files -> Row] /\ chunks' \subseteq Files \X Versions
  BY <1>2, AbsentIsRow DEF TypeOK, Inserts
<1>3. ASSUME NEW f \in Files, NEW new \in Row, Edits(f, new)
      PROVE  row' \in [Files -> Row] /\ chunks' \subseteq Files \X Versions
  BY <1>3 DEF TypeOK, Edits
<1>4. ASSUME NEW f \in Files, NEW new \in Row, NEW v \in Versions, Activates(f, new, v)
      PROVE  row' \in [Files -> Row] /\ chunks' \subseteq Files \X Versions
  BY <1>4 DEF TypeOK, Activates
<1>5. ASSUME NEW F \in SUBSET Files, Tombstones(F)
      PROVE  row' \in [Files -> Row] /\ chunks' \subseteq Files \X Versions
  <2>1. ASSUME NEW f \in Files
        PROVE  [row[f] EXCEPT !.status = "deleted", !.deleted = TRUE] \in Row
    <3>1. row[f] \in Row
      BY DEF TypeOK
    <3>2. QED BY <3>1 DEF Row, Statuses
  <2>2. QED BY <1>5, <2>1 DEF TypeOK, Tombstones
<1>6. QED BY <1>1, <1>2, <1>3, <1>4, <1>5 DEF RowStep, RowChange

RequestRecord ==
    [pc : {"start", "upload_store", "upload_commit", "upload_undo", "upload_enqueue",
           "delete_mark", "delete_erase", "delete_finish", "reprocess_commit",
           "reprocess_enqueue", "kb_update", "kb_erase", "done"},
     file : Files \cup {NoFile}, seen : Row, files : SUBSET Files, todo : SUBSET Files,
     kbSeen : KbStatuses, kbNew : {"active", "inactive"}]

WorkerRecord ==
    [pc : {"idle", "begin", "work", "store", "note", "note_commit", "noted"},
     msg : Message \cup {NoMessage}, seen : Row, note : {"none", "RETRY_PENDING", "code"}]

LEMMA InitialRecords == Unstarted \in RequestRecord /\ Finished \in RequestRecord /\ Idle \in WorkerRecord
<1>1. Unstarted \in RequestRecord
  BY AbsentIsRow DEF Unstarted, RequestRecord, KbStatuses
<1>2. Finished \in RequestRecord
  BY <1>1 DEF Finished, RequestRecord
<1>3. Idle \in WorkerRecord
  BY AbsentIsRow DEF Idle, WorkerRecord
<1>4. QED BY <1>1, <1>2, <1>3

\* A request that takes a step has a request's record again.
LEMMA RequestsTyped ==
    ASSUME TypeOK, Sessions, NEW r \in Requests,
           RequestStarts(r) \/ RequestContinues(r) \/ EnqueueFails(r) \/ RequestDies(r)
    PROVE  \E new \in RequestRecord : req' = [req EXCEPT ![r] = new]
<1> DEFINE old == req[r]
<1>1. old \in RequestRecord
  BY DEF TypeOK, RequestRecord
<1> HIDE DEF old
<1>2. \A pc \in {"upload_store", "upload_commit", "upload_undo", "delete_finish"} :
         [old EXCEPT !.pc = pc] \in RequestRecord
  BY <1>1 DEF RequestRecord
<1>3. ASSUME NEW pc, req' = [req EXCEPT ![r].pc = pc],
             pc \in {"upload_store", "upload_commit", "upload_undo", "delete_finish"}
      PROVE  \E new \in RequestRecord : req' = [req EXCEPT ![r] = new]
  <2>1. req' = [req EXCEPT ![r] = [old EXCEPT !.pc = pc]]
    BY <1>3 DEF old
  <2>2. QED BY <1>2, <1>3, <2>1
<1>4. CASE Finish(r)
  BY <1>4, InitialRecords DEF Finish, Becomes
<1>5. CASE UploadAccept(r)
  <2>1. PICK f \in Files : Becomes(r, [old EXCEPT !.pc = "upload_store", !.file = f])
    BY <1>5 DEF UploadAccept, old
  <2>2. [old EXCEPT !.pc = "upload_store", !.file = f] \in RequestRecord
    BY <1>1 DEF RequestRecord
  <2>3. QED BY <2>1, <2>2 DEF Becomes
<1>6. CASE UploadStore(r)
  BY <1>3, <1>4, <1>6 DEF UploadStore, Goto
<1>7. CASE UploadCommit(r)
  <2>1. [old EXCEPT !.pc = "upload_enqueue", !.seen = Inserted] \in RequestRecord
    BY <1>1, AbsentIsRow DEF RequestRecord
  <2>2. QED BY <1>3, <1>7, <2>1 DEF UploadCommit, Goto, Becomes, old
<1>8. CASE DeleteLoad(r)
  <2>1. PICK f \in Files : Becomes(r, [old EXCEPT !.pc = "delete_mark", !.file = f, !.seen = row[f]])
    BY <1>8 DEF DeleteLoad, old
  <2>2. row[f] \in Row
    BY DEF TypeOK
  <2>3. [old EXCEPT !.pc = "delete_mark", !.file = f, !.seen = row[f]] \in RequestRecord
    BY <1>1, <2>2 DEF RequestRecord
  <2>4. QED BY <2>1, <2>3 DEF Becomes
<1>9. CASE DeleteMark(r)
  <2>1. old.seen \in Row
    BY <1>1 DEF RequestRecord
  <2>2. [old.seen EXCEPT !.status = "deleting"] \in Row
    BY <2>1 DEF Row, Statuses
  <2> DEFINE dirty == [old.seen EXCEPT !.status = "deleting"]
  <2>3. Becomes(r, [old EXCEPT !.pc = "delete_erase", !.seen = dirty])
    BY <1>9 DEF DeleteMark, Commit, old
  <2> HIDE DEF dirty
  <2>4. [old EXCEPT !.pc = "delete_erase", !.seen = dirty] \in RequestRecord
    BY <1>1, <2>2 DEF RequestRecord, dirty
  <2>5. QED BY <2>3, <2>4 DEF Becomes
<1>10. CASE DeleteErase(r)
  BY <1>3, <1>4, <1>10 DEF DeleteErase, Goto
<1>11. CASE ReprocessLoad(r)
  <2>1. PICK f \in Files :
          Becomes(r, [old EXCEPT !.pc = "reprocess_commit", !.file = f, !.seen = row[f]])
    BY <1>11 DEF ReprocessLoad, old
  <2>2. row[f] \in Row
    BY DEF TypeOK
  <2>3. [old EXCEPT !.pc = "reprocess_commit", !.file = f, !.seen = row[f]] \in RequestRecord
    BY <1>1, <2>2 DEF RequestRecord
  <2>4. QED BY <2>1, <2>3 DEF Becomes
<1>12. CASE ReprocessCommit(r)
  <2> DEFINE dirty == [old.seen EXCEPT !.version = @ + 1, !.status = "pending", !.error = "none"]
  <2>1. old.seen \in Row /\ old.seen.version + 1 \in Versions
    <3>1. old.seen \in Row /\ old.seen.version < MaxVersion
      BY <1>1, <1>12 DEF RequestRecord, ReprocessCommit, Sessions, RequestsHold, old
    <3>2. QED BY <3>1, IngestionAssumption DEF Row, Versions
  <2>2. dirty \in Row
    BY <2>1 DEF Row, Statuses
  <2>3. Finish(r) \/ Becomes(r, [old EXCEPT !.pc = "reprocess_enqueue", !.seen = dirty])
    BY <1>12 DEF ReprocessCommit, Commit, old
  <2> HIDE DEF dirty
  <2>4. [old EXCEPT !.pc = "reprocess_enqueue", !.seen = dirty] \in RequestRecord
    BY <1>1, <2>2 DEF RequestRecord
  <2>5. QED BY <1>4, <2>3, <2>4 DEF Becomes
<1>13. CASE KbUpdateLoad(r)
  <2>1. PICK new \in {"active", "inactive"} :
          Becomes(r, [old EXCEPT !.pc = "kb_update", !.kbSeen = kb, !.kbNew = new])
    BY <1>13 DEF KbUpdateLoad, old
  <2>2. [old EXCEPT !.pc = "kb_update", !.kbSeen = kb, !.kbNew = new] \in RequestRecord
    BY <1>1 DEF RequestRecord, TypeOK
  <2>3. QED BY <2>1, <2>2 DEF Becomes
<1>14. CASE KbDeleteLoad(r)
  <2> DEFINE live == {f \in Files : Live(f)}
  <2>1. Becomes(r, [old EXCEPT !.pc = "kb_erase", !.files = live, !.todo = live])
    BY <1>14 DEF KbDeleteLoad, old
  <2>2. live \in SUBSET Files
    OBVIOUS
  <2> HIDE DEF live
  <2>3. [old EXCEPT !.pc = "kb_erase", !.files = live, !.todo = live] \in RequestRecord
    BY <1>1, <2>2 DEF RequestRecord
  <2>4. QED BY <2>1, <2>3 DEF Becomes
<1>15. CASE KbErase(r)
  <2>1. PICK f \in old.todo : Finish(r) \/ Becomes(r, [old EXCEPT !.todo = @ \ {f}])
    BY <1>15 DEF KbErase, old
  <2>2. [old EXCEPT !.todo = @ \ {f}] \in RequestRecord
    BY <1>1 DEF RequestRecord
  <2>3. QED BY <1>4, <2>1, <2>2 DEF Becomes
<1>16. QED
  BY <1>4, <1>5, <1>6, <1>7, <1>8, <1>9, <1>10, <1>11, <1>12, <1>13, <1>14, <1>15
  DEF RequestStarts, RequestContinues, UploadUndo, Enqueue, DeleteFinish, KbUpdateCommit,
      KbDeleteCommit, EnqueueFails, RequestDies

\* So does a worker, and the message it sends again is a message.
LEMMA WorkersTyped ==
    ASSUME TypeOK, Sessions, NEW w \in Workers,
           WorkerContinues(w) \/ Interrupt(w) \/ Crash(w)
    PROVE  /\ UNCHANGED wrk \/ \E new \in WorkerRecord : wrk' = [wrk EXCEPT ![w] = new]
           /\ queue' \in [Message -> Nat]
<1> DEFINE old == wrk[w]
           OK == /\ UNCHANGED wrk \/ \E new \in WorkerRecord : wrk' = [wrk EXCEPT ![w] = new]
                 /\ queue' \in [Message -> Nat]
<1>1. old \in WorkerRecord /\ wrk \in [Workers -> WorkerRecord]
  BY DEF TypeOK, WorkerRecord
<1>2. queue \in [Message -> Nat]
  BY DEF TypeOK
<1>3. old.pc # "idle" => old.msg \in Message
  BY DEF Sessions, WorkersHold
<1> HIDE DEF old
<1>4. \A pc \in {"work", "store", "note", "note_commit", "noted"} :
         \A seen \in Row : \A note \in {"none", "RETRY_PENDING", "code"} :
           /\ [old EXCEPT !.pc = pc] \in WorkerRecord
           /\ [old EXCEPT !.pc = pc, !.seen = seen] \in WorkerRecord
           /\ [old EXCEPT !.pc = pc, !.note = note] \in WorkerRecord
  BY <1>1 DEF WorkerRecord
<1>5. ASSUME NEW m \in Message PROVE Send(m) => queue' \in [Message -> Nat]
  BY <1>2 DEF Send
<1>6. ASSUME NEW m \in Message, m.retries < MaxRetries
      PROVE  [m EXCEPT !.retries = @ + 1] \in Message
  BY <1>6, IngestionAssumption DEF Message
<1>7. ASSUME Acknowledge(w) PROVE \E new \in WorkerRecord : wrk' = [wrk EXCEPT ![w] = new]
  BY <1>7, InitialRecords DEF Acknowledge
<1>8. ASSUME NEW pc \in {"work", "store", "note", "note_commit", "noted"}, WorkerGoto(w, pc)
      PROVE  \E new \in WorkerRecord : wrk' = [wrk EXCEPT ![w] = new]
  <2>1. wrk' = [wrk EXCEPT ![w] = [old EXCEPT !.pc = pc]]
    BY <1>8 DEF WorkerGoto, old
  <2>2. [old EXCEPT !.pc = pc] \in WorkerRecord
    BY <1>1 DEF WorkerRecord
  <2>3. QED BY <2>1, <2>2
<1>9. ASSUME NEW dirty \in Row, NEW pc \in {"work", "noted"}, WorkerCommit(w, dirty, pc)
      PROVE  \E new \in WorkerRecord : wrk' = [wrk EXCEPT ![w] = new]
  <2>1. wrk' = [wrk EXCEPT ![w] = [old EXCEPT !.pc = pc, !.seen = dirty]]
    BY <1>9 DEF WorkerCommit, old
  <2>2. QED BY <1>4, <2>1
<1>10. ASSUME NEW note \in {"RETRY_PENDING", "code"},
              wrk' = [wrk EXCEPT ![w].pc = "note", ![w].note = note]
       PROVE  \E new \in WorkerRecord : wrk' = [wrk EXCEPT ![w] = new]
  <2>1. wrk' = [wrk EXCEPT ![w] = [old EXCEPT !.pc = "note", !.note = note]]
    BY <1>10 DEF old
  <2>2. [old EXCEPT !.pc = "note", !.note = note] \in WorkerRecord
    BY <1>1 DEF WorkerRecord
  <2>3. QED BY <2>1, <2>2
<1>11. CASE Receive(w)
  <2>1. PICK m \in Message :
          /\ queue[m] > 0
          /\ queue' = [queue EXCEPT ![m] = @ - 1]
          /\ \/ UNCHANGED wrk
             \/ wrk' = [wrk EXCEPT ![w] = [pc |-> "begin", msg |-> m, seen |-> row[m.file],
                                           note |-> "none"]]
    BY <1>11 DEF Receive
  <2>2. row[m.file] \in Row
    BY DEF TypeOK, Message
  <2>3. [pc |-> "begin", msg |-> m, seen |-> row[m.file], note |-> "none"] \in WorkerRecord
    BY <2>2 DEF WorkerRecord
  <2>4. queue' \in [Message -> Nat]
    BY <1>2, <2>1
  <2>5. QED BY <2>1, <2>3, <2>4
<1>12. CASE Begin(w)
  <2>1. [old.seen EXCEPT !.status = "processing"] \in Row
    <3>1. old.seen \in Row
      BY <1>1 DEF WorkerRecord
    <3>2. QED BY <3>1 DEF Row, Statuses
  <2>2. QED BY <1>2, <1>9, <1>12, <2>1 DEF Begin, old
<1>13. CASE NoteCommit(w)
  <2> DEFINE unserved == IF old.note = "code" THEN "failed" ELSE "pending"
             status == IF old.seen.active > 0 THEN "ready" ELSE unserved
             dirty == [old.seen EXCEPT !.status = status, !.error = old.note]
  <2>1. status \in {"ready", "failed", "pending"}
    OBVIOUS
  <2>2. WorkerCommit(w, dirty, "noted") /\ UNCHANGED queue
    BY <1>13 DEF NoteCommit, old
  <2> HIDE DEF status
  <2>3. dirty \in Row
    <3>1. old.seen \in Row /\ old.note \in {"none", "RETRY_PENDING", "code"}
      BY <1>1 DEF WorkerRecord
    <3>2. QED BY <2>1, <3>1 DEF Row, Statuses
  <2> HIDE DEF dirty
  <2>4. QED BY <1>2, <1>9, <2>2, <2>3
<1>14. CASE Activate(w)
  <2>1. WorkerGoto(w, "noted") \/ wrk' = [wrk EXCEPT ![w].pc = "note", ![w].note = "RETRY_PENDING"]
    BY <1>14 DEF Activate
  <2>2. QED BY <1>2, <1>8, <1>10, <1>14, <2>1 DEF Activate
<1>15. CASE Prepare(w)
  BY <1>2, <1>8, <1>10, <1>15 DEF Prepare
<1>16. CASE NoteLoad(w)
  <2>1. CASE WorkerGoto(w, "noted")
    BY <1>2, <1>8, <1>16, <2>1 DEF NoteLoad
  <2>2. CASE wrk' = [wrk EXCEPT ![w].pc = "note_commit", ![w].seen = row[old.msg.file]]
    <3>1. row[old.msg.file] \in Row
      BY <1>3, <1>16 DEF TypeOK, Message, NoteLoad, old
    <3>2. wrk' = [wrk EXCEPT ![w] = [old EXCEPT !.pc = "note_commit", !.seen = row[old.msg.file]]]
      BY <2>2 DEF old
    <3>3. [old EXCEPT !.pc = "note_commit", !.seen = row[old.msg.file]] \in WorkerRecord
      BY <1>1, <3>1 DEF WorkerRecord
    <3>4. QED BY <1>2, <1>16, <3>2, <3>3 DEF NoteLoad
  <2>3. QED BY <1>16, <2>1, <2>2 DEF NoteLoad, Target, old
<1>17. CASE Settle(w)
  <2>1. old.msg \in Message
    BY <1>3, <1>17 DEF Settle, old
  <2>2. CASE Acknowledge(w) /\ UNCHANGED queue
    BY <1>2, <1>7, <2>2
  <2>3. CASE old.msg.retries < MaxRetries /\ Send([old.msg EXCEPT !.retries = @ + 1]) /\ Acknowledge(w)
    <3>1. [old.msg EXCEPT !.retries = @ + 1] \in Message
      BY <1>6, <2>1, <2>3
    <3>2. queue' \in [Message -> Nat]
      BY <1>5, <2>3, <3>1
    <3>3. QED BY <1>7, <2>3, <3>2
  <2>4. CASE wrk' = [wrk EXCEPT ![w].pc = "note", ![w].note = "code"] /\ UNCHANGED queue
    BY <1>2, <1>10, <2>4
  <2>5. QED BY <1>17, <2>2, <2>3, <2>4 DEF Settle, old
<1>18. CASE Interrupt(w)
  <2>1. old.msg \in Message /\ Acknowledge(w)
    BY <1>3, <1>18 DEF Interrupt, old
  <2>2. CASE old.msg.retries < MaxRetries /\ Send([old.msg EXCEPT !.retries = @ + 1])
    <3>1. [old.msg EXCEPT !.retries = @ + 1] \in Message
      BY <1>6, <2>1, <2>2
    <3>2. QED BY <1>5, <1>7, <2>1, <2>2, <3>1
  <2>3. CASE UNCHANGED queue
    BY <1>2, <1>7, <2>1, <2>3
  <2>4. QED BY <1>18, <2>2, <2>3 DEF Interrupt, old
<1>19. CASE Crash(w)
  BY <1>3, <1>5, <1>7, <1>19 DEF Crash, old
<1>20. QED
  BY <1>11, <1>12, <1>13, <1>14, <1>15, <1>16, <1>17, <1>18, <1>19 DEF WorkerContinues

\* An insertion is of a file id that an upload has reserved.
LEMMA UploadsInsertFiles ==
    ASSUME Sessions, NEW r \in Requests, UploadCommit(r)
    PROVE  req[r].file \in Files
BY DEF Sessions, UploadsFresh, UploadCommit

\* Every step changes a row and the chunks in one of the five ways, or neither.
LEMMA NextIsRowStep ==
    ASSUME TypeOK, Sessions, [Next]_vars
    PROVE  RowStep
<1>1. CASE Next
  BY <1>1, StepsAreRowSteps, UploadsInsertFiles DEF RowStep
<1>2. CASE UNCHANGED vars
  BY <1>2 DEF vars, RowStep, RowChange
<1>3. QED BY <1>1, <1>2

LEMMA TypePreserved ==
    ASSUME TypeOK, Sessions, [Next]_vars
    PROVE  TypeOK'
<1>1. row' \in [Files -> Row] /\ chunks' \subseteq Files \X Versions
  BY NextIsRowStep, RowStepTypes
<1>2. /\ kb \in KbStatuses /\ objects \subseteq Files /\ queue \in [Message -> Nat]
      /\ req \in [Requests -> RequestRecord] /\ wrk \in [Workers -> WorkerRecord]
  BY DEF TypeOK, RequestRecord, WorkerRecord
<1> DEFINE Rest5 == /\ kb' \in KbStatuses /\ objects' \subseteq Files
                    /\ queue' \in [Message -> Nat]
                    /\ req' \in [Requests -> RequestRecord]
                    /\ wrk' \in [Workers -> WorkerRecord]
<1>3. ASSUME NEW r \in Requests,
             RequestStarts(r) \/ RequestContinues(r) \/ EnqueueFails(r) \/ RequestDies(r)
      PROVE  Rest5
  <2>1. req' \in [Requests -> RequestRecord]
    BY <1>2, <1>3, RequestsTyped
  <2>2. wrk' = wrk
    BY <1>3 DEF RequestStarts, RequestContinues, EnqueueFails, RequestDies, UploadAccept,
                DeleteLoad,
                ReprocessLoad, KbUpdateLoad, KbDeleteLoad, UploadStore, UploadCommit, UploadUndo,
                Enqueue, DeleteMark, DeleteErase, DeleteFinish, ReprocessCommit, KbUpdateCommit,
                KbErase, KbDeleteCommit
  <2>3. objects' \subseteq Files
    <3>1. CASE UploadStore(r)
      BY <1>2, <3>1 DEF UploadStore, Sessions, UploadsFresh
    <3>2. CASE UploadUndo(r) \/ DeleteErase(r) \/ KbErase(r)
      BY <1>2, <3>2 DEF UploadUndo, DeleteErase, KbErase, Erased
    <3>3. CASE UNCHANGED objects
      BY <1>2, <3>3
    <3>4. QED
      BY <1>3, <3>1, <3>2, <3>3 DEF RequestStarts, RequestContinues, EnqueueFails, RequestDies,
         UploadAccept, DeleteLoad, ReprocessLoad, KbUpdateLoad, KbDeleteLoad, UploadCommit, Enqueue,
         DeleteMark, DeleteFinish, ReprocessCommit, KbUpdateCommit, KbDeleteCommit
  <2>4. kb' \in KbStatuses
    <3>1. CASE KbUpdateCommit(r)
      <4>1. req[r].kbNew \in {"active", "inactive"}
        BY <1>2 DEF RequestRecord
      <4>2. QED BY <1>2, <3>1, <4>1 DEF KbUpdateCommit, KbStatuses
    <3>2. CASE KbDeleteCommit(r)
      BY <3>2 DEF KbDeleteCommit, KbStatuses
    <3>3. CASE UNCHANGED kb
      BY <1>2, <3>3
    <3>4. QED
      BY <1>3, <3>1, <3>2, <3>3 DEF RequestStarts, RequestContinues, EnqueueFails, RequestDies,
         UploadAccept, DeleteLoad, ReprocessLoad, KbUpdateLoad, KbDeleteLoad, UploadStore, UploadCommit,
         UploadUndo, Enqueue, DeleteMark, DeleteErase, DeleteFinish, ReprocessCommit, KbErase
  <2>5. queue' \in [Message -> Nat]
    <3>1. CASE Enqueue(r)
      <4> DEFINE m == [file |-> req[r].file, version |-> req[r].seen.version, retries |-> 0]
      <4>1. req[r].file \in Files /\ req[r].seen.version \in Versions
        BY <1>2, <3>1 DEF Enqueue, Sessions, RequestsHold, RequestRecord, Row
      <4>2. m \in Message
        BY <4>1, IngestionAssumption DEF Message
      <4>3. queue' = [queue EXCEPT ![m] = @ + 1]
        BY <3>1 DEF Enqueue, Send
      <4> HIDE DEF m
      <4>4. QED BY <1>2, <4>2, <4>3
    <3>2. CASE UNCHANGED queue
      BY <1>2, <3>2
    <3>3. QED
      BY <1>3, <3>1, <3>2 DEF RequestStarts, RequestContinues, EnqueueFails, RequestDies,
         UploadAccept, DeleteLoad, ReprocessLoad, KbUpdateLoad, KbDeleteLoad, UploadStore, UploadCommit,
         UploadUndo, DeleteMark, DeleteErase, DeleteFinish, ReprocessCommit, KbUpdateCommit, KbErase,
         KbDeleteCommit
  <2>6. QED BY <2>1, <1>2, <2>2, <2>3, <2>4, <2>5
<1>4. ASSUME NEW w \in Workers, WorkerContinues(w) \/ Interrupt(w) \/ Crash(w)
      PROVE  Rest5
  <2>1. UNCHANGED <<kb, objects, req>>
    BY <1>4 DEF WorkerContinues, Receive, Begin, Prepare, Activate, NoteLoad, NoteCommit,
                Settle,
                Interrupt, Crash
  <2>2. QED BY <1>2, <1>4, <2>1, WorkersTyped
<1>5. ASSUME UNCHANGED vars PROVE Rest5
  BY <1>2, <1>5 DEF vars
<1>6. Rest5
  BY <1>3, <1>4, <1>5 DEF Next, Rest
<1>7. QED BY <1>1, <1>6 DEF TypeOK, RequestRecord, WorkerRecord

-----------------------------------------------------------------------------
(* What sessions rely on is never taken from them: rows are not removed, and *)
(* tombstones are not taken away.                                            *)

\* A row stays, and so does its tombstone, whatever the step.
LEMMA RowStepKeeps ==
    ASSUME TypeOK, Sessions, RowStep, NEW f \in Files
    PROVE  /\ Exists(f) => Exists(f)'
           /\ row[f].deleted => row'[f].deleted
           /\ ~Exists(f)' => row'[f] = Absent
<1> USE DEF Exists
<1>1. row[f] \in Row /\ (~Exists(f) => row[f] = Absent)
  BY DEF TypeOK, Sessions, NothingAbsentStored
<1>2. Absent.status = "absent" /\ ~Absent.deleted
  BY DEF Absent
<1>3. CASE UNCHANGED <<row, chunks>>
  BY <1>1, <1>3
<1>4. ASSUME NEW g \in Files, Inserts(g)
      PROVE  /\ Exists(f) => Exists(f)'
             /\ row[f].deleted => row'[f].deleted
             /\ ~Exists(f)' => row'[f] = Absent
  <2>1. Inserted.status = "pending"
    BY DEF Inserted, Absent
  <2>2. row' = [row EXCEPT ![g] = Inserted] /\ row[g] = Absent
    BY <1>4 DEF Inserts
  <2>3. QED BY <1>1, <1>2, <2>1, <2>2 DEF TypeOK
<1>5. ASSUME NEW g \in Files, NEW new \in Row, Edits(g, new)
      PROVE  /\ Exists(f) => Exists(f)'
             /\ row[f].deleted => row'[f].deleted
             /\ ~Exists(f)' => row'[f] = Absent
  BY <1>1, <1>5 DEF Edits, TypeOK
<1>6. ASSUME NEW g \in Files, NEW new \in Row, NEW v \in Versions, Activates(g, new, v)
      PROVE  /\ Exists(f) => Exists(f)'
             /\ row[f].deleted => row'[f].deleted
             /\ ~Exists(f)' => row'[f] = Absent
  BY <1>1, <1>6 DEF Activates, TypeOK
<1>7. ASSUME NEW F \in SUBSET Files, Tombstones(F)
      PROVE  /\ Exists(f) => Exists(f)'
             /\ row[f].deleted => row'[f].deleted
             /\ ~Exists(f)' => row'[f] = Absent
  <2> DEFINE new == [row[f] EXCEPT !.status = "deleted", !.deleted = TRUE]
  <2>1. new.status = "deleted" /\ new.deleted
    BY <1>1 DEF Row
  <2>2. row'[f] = IF f \in F THEN new ELSE row[f]
    BY <1>7 DEF Tombstones
  <2> HIDE DEF new
  <2>3. QED BY <1>1, <2>1, <2>2
<1>8. QED BY <1>3, <1>4, <1>5, <1>6, <1>7 DEF RowStep, RowChange

\* Only an upload's INSERT brings a row to the table.
LEMMA ChangesKeepAbsent ==
    ASSUME TypeOK, RowChange, NEW f \in Files, row[f] = Absent
    PROVE  row'[f] = Absent
<1>1. ~Exists(f)
  BY DEF Exists, Absent
<1>2. QED BY <1>1 DEF RowChange, Edits, Activates, Tombstones, TypeOK

\* How the record of a request looks after a step of that request.
Outcome(r, new) ==
    LET old == req[r] IN
    \/ new = Finished
    \/ /\ new.pc = "upload_store" /\ new.files = old.files
       /\ new.file \in Files /\ ~Exists(new.file)
       /\ \A q \in Requests : req[q].file # new.file
    \/ /\ old.pc = "upload_store" /\ new.pc = "upload_commit"
       /\ new.file = old.file /\ new.files = old.files
    \/ /\ new.pc \in {"upload_undo", "kb_update"}
       /\ new.file = old.file /\ new.files = old.files
    \/ /\ UploadCommit(r) /\ row' = [row EXCEPT ![old.file] = Inserted]
       /\ new.pc = "upload_enqueue" /\ new.seen = Inserted
       /\ new.file = old.file /\ new.files = old.files
    \/ /\ new.pc \in {"delete_mark", "reprocess_commit"} /\ new.files = old.files
       /\ new.file \in Files /\ Exists(new.file) /\ new.seen = row[new.file]
       /\ new.pc = "reprocess_commit" => new.seen.version < MaxVersion
    \/ /\ old.pc \in {"delete_mark", "delete_erase", "reprocess_commit"}
       /\ new.pc \in {"delete_erase", "delete_finish", "reprocess_enqueue"}
       /\ new.file = old.file /\ new.files = old.files
       /\ new.seen.deleted = old.seen.deleted
    \/ /\ new.pc = "kb_erase" /\ new.file = old.file
       /\ new.files = old.files \/ new.files = {f \in Files : Live(f)}

LEMMA RequestOutcome ==
    ASSUME TypeOK, NEW r \in Requests,
           RequestStarts(r) \/ RequestContinues(r) \/ EnqueueFails(r) \/ RequestDies(r)
    PROVE  \E new : req' = [req EXCEPT ![r] = new] /\ Outcome(r, new)
<1> DEFINE old == req[r]
           Goal == \E new : req' = [req EXCEPT ![r] = new] /\ Outcome(r, new)
<1>1. old \in RequestRecord
  BY DEF TypeOK, RequestRecord
<1> HIDE DEF old
<1>2. \A f \in Files : row[f] \in Row
  BY DEF TypeOK
<1>3. ASSUME Finish(r) PROVE Goal
  BY <1>3 DEF Finish, Becomes, Outcome
<1>4. ASSUME UploadAccept(r) PROVE Goal
  <2>1. PICK f \in Files : /\ ~Exists(f) /\ \A q \in Requests : req[q].file # f
                           /\ Becomes(r, [old EXCEPT !.pc = "upload_store", !.file = f])
    BY <1>4 DEF UploadAccept, old
  <2> DEFINE new == [old EXCEPT !.pc = "upload_store", !.file = f]
  <2>2. new.pc = "upload_store" /\ new.file = f /\ new.files = old.files
    BY <1>1 DEF RequestRecord
  <2> HIDE DEF new
  <2>3. Outcome(r, new)
    BY <2>1, <2>2 DEF Outcome, old
  <2>4. QED BY <2>1, <2>3 DEF Becomes, new
<1>5. ASSUME NEW pc, Goto(r, pc),
             \/ old.pc = "upload_store" /\ pc = "upload_commit"
             \/ pc = "upload_undo"
             \/ old.pc = "delete_erase" /\ pc = "delete_finish"
      PROVE  Goal
  <2> DEFINE new == [old EXCEPT !.pc = pc]
  <2>1. req' = [req EXCEPT ![r] = new]
    BY <1>5 DEF Goto, old
  <2>2. new.pc = pc /\ new.file = old.file /\ new.files = old.files /\ new.seen = old.seen
    BY <1>1 DEF RequestRecord
  <2> HIDE DEF new
  <2>3. Outcome(r, new)
    BY <1>5, <2>2 DEF Outcome, old
  <2>4. QED BY <2>1, <2>3
<1>6. ASSUME UploadCommit(r) PROVE Goal
  <2>1. CASE Goto(r, "upload_undo")
    BY <1>5, <2>1
  <2>2. CASE /\ row' = [row EXCEPT ![old.file] = Inserted]
             /\ Becomes(r, [old EXCEPT !.pc = "upload_enqueue", !.seen = Inserted])
    <3> DEFINE new == [old EXCEPT !.pc = "upload_enqueue", !.seen = Inserted]
    <3>1. /\ new.pc = "upload_enqueue" /\ new.seen = Inserted
          /\ new.file = old.file /\ new.files = old.files
      BY <1>1 DEF RequestRecord
    <3> HIDE DEF new
    <3>2. Outcome(r, new)
      BY <1>6, <2>2, <3>1 DEF Outcome, old
    <3>3. QED BY <2>2, <3>2 DEF Becomes, new
  <2>3. QED BY <1>6, <2>1, <2>2 DEF UploadCommit, old
<1>7. ASSUME DeleteLoad(r) \/ ReprocessLoad(r) PROVE Goal
  <2>1. PICK f \in Files, pc \in {"delete_mark", "reprocess_commit"} :
          /\ Exists(f) /\ (pc = "reprocess_commit" => row[f].version < MaxVersion)
          /\ Becomes(r, [old EXCEPT !.pc = pc, !.file = f, !.seen = row[f]])
    BY <1>7 DEF DeleteLoad, ReprocessLoad, old
  <2> DEFINE new == [old EXCEPT !.pc = pc, !.file = f, !.seen = row[f]]
  <2>2. new.pc = pc /\ new.file = f /\ new.files = old.files /\ new.seen = row[f]
    BY <1>1 DEF RequestRecord
  <2> HIDE DEF new
  <2>3. Outcome(r, new)
    BY <2>1, <2>2 DEF Outcome, old
  <2>4. QED BY <2>1, <2>3 DEF Becomes, new
<1>8. ASSUME NEW dirty, NEW pc \in {"delete_erase", "reprocess_enqueue"},
             old.pc \in {"delete_mark", "reprocess_commit"},
             dirty.deleted = old.seen.deleted,
             Becomes(r, [old EXCEPT !.pc = pc, !.seen = dirty])
      PROVE  Goal
  <2> DEFINE new == [old EXCEPT !.pc = pc, !.seen = dirty]
  <2>1. new.pc = pc /\ new.file = old.file /\ new.files = old.files /\ new.seen = dirty
    BY <1>1 DEF RequestRecord
  <2> HIDE DEF new
  <2>2. Outcome(r, new)
    BY <1>8, <2>1 DEF Outcome, old
  <2>3. QED BY <1>8, <2>2 DEF Becomes, new
<1>9. ASSUME DeleteMark(r) PROVE Goal
  <2> DEFINE dirty == [old.seen EXCEPT !.status = "deleting"]
  <2>1. dirty.deleted = old.seen.deleted
    BY <1>1 DEF RequestRecord, Row
  <2>2. old.pc = "delete_mark" /\ Becomes(r, [old EXCEPT !.pc = "delete_erase", !.seen = dirty])
    BY <1>9 DEF DeleteMark, Commit, old
  <2> HIDE DEF dirty
  <2>3. QED BY <1>8, <2>1, <2>2
<1>10. ASSUME ReprocessCommit(r) PROVE Goal
  <2> DEFINE dirty == [old.seen EXCEPT !.version = @ + 1, !.status = "pending", !.error = "none"]
  <2>1. dirty.deleted = old.seen.deleted
    BY <1>1 DEF RequestRecord, Row
  <2>2. /\ old.pc = "reprocess_commit"
        /\ Finish(r) \/ Becomes(r, [old EXCEPT !.pc = "reprocess_enqueue", !.seen = dirty])
    BY <1>10 DEF ReprocessCommit, Commit, old
  <2> HIDE DEF dirty
  <2>3. QED BY <1>3, <1>8, <2>1, <2>2
<1>11. ASSUME KbUpdateLoad(r) PROVE Goal
  <2>1. PICK status \in {"active", "inactive"} :
          Becomes(r, [old EXCEPT !.pc = "kb_update", !.kbSeen = kb, !.kbNew = status])
    BY <1>11 DEF KbUpdateLoad, old
  <2> DEFINE new == [old EXCEPT !.pc = "kb_update", !.kbSeen = kb, !.kbNew = status]
  <2>2. new.pc = "kb_update" /\ new.file = old.file /\ new.files = old.files
    BY <1>1 DEF RequestRecord
  <2> HIDE DEF new
  <2>3. Outcome(r, new)
    BY <2>2 DEF Outcome, old
  <2>4. QED BY <2>1, <2>3 DEF Becomes, new
<1>12. ASSUME KbDeleteLoad(r) PROVE Goal
  <2> DEFINE live == {f \in Files : Live(f)}
             new == [old EXCEPT !.pc = "kb_erase", !.files = live, !.todo = live]
  <2>1. new.pc = "kb_erase" /\ new.file = old.file /\ new.files = live
    BY <1>1 DEF RequestRecord
  <2>2. Becomes(r, new)
    BY <1>12 DEF KbDeleteLoad, old
  <2> HIDE DEF new
  <2>3. Outcome(r, new)
    BY <2>1 DEF Outcome, old
  <2>4. QED BY <2>2, <2>3 DEF Becomes
<1>13. ASSUME KbErase(r) PROVE Goal
  <2>1. PICK f \in old.todo : Finish(r) \/ Becomes(r, [old EXCEPT !.todo = @ \ {f}])
    BY <1>13 DEF KbErase, old
  <2> DEFINE new == [old EXCEPT !.todo = @ \ {f}]
  <2>2. new.pc = old.pc /\ new.file = old.file /\ new.files = old.files
    BY <1>1 DEF RequestRecord
  <2>3. old.pc = "kb_erase"
    BY <1>13 DEF KbErase, old
  <2> HIDE DEF new
  <2>4. Outcome(r, new)
    BY <2>2, <2>3 DEF Outcome, old
  <2>5. QED BY <1>3, <2>1, <2>4 DEF Becomes, new
<1>14. ASSUME UploadStore(r) PROVE Goal
  BY <1>3, <1>5, <1>14 DEF UploadStore, old
<1>15. ASSUME DeleteErase(r) PROVE Goal
  BY <1>3, <1>5, <1>15 DEF DeleteErase, old
<1>16. QED
  BY <1>3, <1>4, <1>6, <1>7, <1>9, <1>10, <1>11, <1>12, <1>13, <1>14, <1>15
  DEF RequestStarts, RequestContinues, UploadUndo, Enqueue, DeleteFinish, KbUpdateCommit,
      KbDeleteCommit, EnqueueFails, RequestDies

\* No step gives an upload the file id of a row or of another upload.
LEMMA UploadsFreshPreserved ==
    ASSUME TypeOK, Sessions, Next
    PROVE  UploadsFresh'
<1>1. SUFFICES ASSUME NEW r \in Requests, req'[r].pc \in {"upload_store", "upload_commit"}
               PROVE  /\ req'[r].file \in Files
                      /\ row'[req'[r].file] = Absent
                      /\ \A q \in Requests : q # r => req'[q].file # req'[r].file
  BY DEF UploadsFresh
<1> DEFINE f == req'[r].file
<1>2. \A q \in Requests : req[q] \in RequestRecord
  BY DEF TypeOK, RequestRecord
<1>3. Finished.pc = "done" /\ Finished.file = NoFile
  BY DEF Finished, Unstarted
<1>4. Inserted # Absent
  BY DEF Inserted, Absent
<1>5. ASSUME NEW q \in Requests,
             RequestStarts(q) \/ RequestContinues(q) \/ EnqueueFails(q) \/ RequestDies(q)
      PROVE  /\ f \in Files
             /\ row'[f] = Absent
             /\ \A p \in Requests : p # r => req'[p].file # f
  <2>1. PICK new : req' = [req EXCEPT ![q] = new] /\ Outcome(q, new)
    BY <1>5, RequestOutcome
  <2>2. req'[q] = new /\ \A p \in Requests : p # q => req'[p] = req[p]
    BY <2>1 DEF TypeOK
  <2>3. CASE q = r /\ new.pc = "upload_store"
    <3>1. new.file \in Files /\ ~Exists(new.file) /\ \A p \in Requests : req[p].file # new.file
      BY <1>3, <2>1, <2>3 DEF Outcome
    <3>2. row[new.file] = Absent
      BY <3>1 DEF Sessions, NothingAbsentStored
    <3>3. row'[new.file] = Absent
      <4>1. CASE RowChange
        BY <3>1, <3>2, <4>1, ChangesKeepAbsent
      <4>2. ASSUME NEW p \in Requests, UploadCommit(p) /\ Inserts(req[p].file)
            PROVE  row'[new.file] = Absent
        BY <3>1, <3>2, <4>2 DEF Inserts, TypeOK
      <4>3. QED BY <4>1, <4>2, StepsAreRowSteps
    <3>4. QED BY <2>2, <2>3, <3>1, <3>3
  <2>4. CASE q = r /\ new.pc # "upload_store"
    <3>1. req[r].pc = "upload_store" /\ new.file = req[r].file /\ new.pc = "upload_commit"
      BY <1>1, <1>3, <2>1, <2>2, <2>4 DEF Outcome
    <3>2. /\ new.file \in Files /\ row[new.file] = Absent
          /\ \A p \in Requests : p # r => req[p].file # new.file
      BY <3>1 DEF Sessions, UploadsFresh
    <3>3. row'[new.file] = Absent
      <4>1. CASE RowChange
        BY <3>2, <4>1, ChangesKeepAbsent
      <4>2. ASSUME NEW p \in Requests, UploadCommit(p) /\ Inserts(req[p].file)
            PROVE  row'[new.file] = Absent
        BY <3>1, <3>2, <4>2 DEF Inserts, TypeOK, UploadCommit
      <4>3. QED BY <4>1, <4>2, StepsAreRowSteps
    <3>4. QED BY <2>2, <2>4, <3>2, <3>3
  <2>5. CASE q # r
    <3>1. /\ req'[r] = req[r] /\ f = req[r].file /\ f \in Files /\ row[f] = Absent
          /\ \A p \in Requests : p # r => req[p].file # f
      BY <1>1, <2>2, <2>5 DEF Sessions, UploadsFresh
    <3>2. ~Exists(f)
      BY <3>1 DEF Exists, Absent
    <3>3. row'[f] = Absent
      <4>1. CASE RowChange
        BY <3>1, <4>1, ChangesKeepAbsent
      <4>2. ASSUME NEW p \in Requests, UploadCommit(p) /\ Inserts(req[p].file)
            PROVE  row'[f] = Absent
        <5>1. CASE p = r
          \* The record of r has not changed, and a commit would have changed it.
          <6>1. PICK mine : req' = [req EXCEPT ![r] = mine] /\ mine.pc \in {"upload_enqueue", "upload_undo"}
            <7>1. req[r] \in RequestRecord
              BY <1>2
            <7>2. \A pc \in {"upload_undo", "upload_enqueue"} : [req[r] EXCEPT !.pc = pc].pc = pc
              BY <7>1 DEF RequestRecord
            <7>3. [req[r] EXCEPT !.pc = "upload_enqueue", !.seen = Inserted].pc = "upload_enqueue"
              BY <7>1 DEF RequestRecord
            <7>4. CASE Goto(r, "upload_undo")
              <8>1. req' = [req EXCEPT ![r] = [req[r] EXCEPT !.pc = "upload_undo"]]
                BY <7>4 DEF Goto
              <8>2. QED BY <7>2, <8>1
            <7>5. CASE Becomes(r, [req[r] EXCEPT !.pc = "upload_enqueue", !.seen = Inserted])
              BY <7>3, <7>5 DEF Becomes
            <7>6. QED BY <4>2, <5>1, <7>4, <7>5 DEF UploadCommit
          <6>2. req'[r] = mine
            BY <6>1 DEF TypeOK
          <6>3. QED BY <1>1, <6>1, <6>2
        <5>2. CASE p # r
          BY <3>1, <4>2, <5>2 DEF Inserts, TypeOK
        <5>3. QED BY <5>1, <5>2
      <4>3. QED BY <4>1, <4>2, StepsAreRowSteps
    <3>4. new.file # f
      <4>1. CASE new = Finished
        BY <1>3, <3>1, <4>1, IngestionAssumption
      <4>2. CASE new.file = req[q].file
        BY <2>5, <3>1, <4>2
      <4>3. CASE \A p \in Requests : req[p].file # new.file
        BY <3>1, <4>3
      <4>4. CASE Exists(new.file)
        BY <3>2, <4>4
      <4>5. QED BY <2>1, <4>1, <4>2, <4>3, <4>4 DEF Outcome
    <3>5. QED BY <2>2, <3>1, <3>3, <3>4
  <2>6. QED BY <2>3, <2>4, <2>5
<1>6. CASE UNCHANGED req
  <2>1. /\ f \in Files /\ row[f] = Absent
        /\ \A q \in Requests : q # r => req'[q].file # f
    BY <1>1, <1>6 DEF Sessions, UploadsFresh
  <2>2. CASE RowChange
    BY <2>1, <2>2, ChangesKeepAbsent
  <2>3. ASSUME NEW p \in Requests, UploadCommit(p)
        PROVE  FALSE
    <3>1. req[p] \in RequestRecord /\ req[p].pc = "upload_commit"
      BY <1>2, <2>3 DEF UploadCommit
    <3>2. \A pc \in {"upload_undo", "upload_enqueue"} : [req[p] EXCEPT !.pc = pc] # req[p]
      BY <3>1 DEF RequestRecord
    <3>3. [req[p] EXCEPT !.pc = "upload_enqueue", !.seen = Inserted] # req[p]
      BY <3>1 DEF RequestRecord
    <3>4. QED BY <1>6, <2>3, <3>2, <3>3 DEF UploadCommit, Goto, Becomes, TypeOK
  <2>4. QED BY <2>1, <2>2, <2>3, StepsAreRowSteps
<1>7. ASSUME NEW w \in Workers, WorkerContinues(w) \/ Interrupt(w) \/ Crash(w)
      PROVE  UNCHANGED req
  BY <1>7 DEF WorkerContinues, Receive, Begin, Prepare, Activate, NoteLoad, NoteCommit, Settle,
              Interrupt, Crash
<1>8. QED BY <1>5, <1>6, <1>7 DEF Next, Rest, vars

\* What sessions of requests hold stays possible for them, whoever commits.
LEMMA RequestsHoldPreserved ==
    ASSUME TypeOK, Sessions, Next
    PROVE  RequestsHold'
<1> DEFINE Holding == {"upload_enqueue", "delete_mark", "delete_erase", "delete_finish",
                       "reprocess_commit", "reprocess_enqueue"}
           Holds(p) == /\ req'[p].pc \in Holding =>
                            /\ req'[p].file \in Files
                            /\ row'[req'[p].file].status # "absent"
                            /\ req'[p].seen.deleted => row'[req'[p].file].deleted
                       /\ req'[p].pc = "reprocess_commit" => req'[p].seen.version < MaxVersion
                       /\ \A f \in req'[p].files : row'[f].status # "absent"
<1>1. \A f \in Files : /\ Exists(f) => row'[f].status # "absent"
                       /\ row[f].deleted => row'[f].deleted
  BY NextIsRowStep, RowStepKeeps DEF Exists
<1>2. \A p \in Requests : req[p].files \subseteq Files
  BY DEF TypeOK
<1>3. ASSUME NEW p \in Requests, req'[p] = req[p]
      PROVE  Holds(p)
  BY <1>1, <1>2, <1>3 DEF Sessions, RequestsHold
<1>4. ASSUME NEW r \in Requests, NEW p \in Requests,
             RequestStarts(r) \/ RequestContinues(r) \/ EnqueueFails(r) \/ RequestDies(r)
      PROVE  Holds(p)
  <2>1. PICK new : req' = [req EXCEPT ![r] = new] /\ Outcome(r, new)
    BY <1>4, RequestOutcome
  <2>2. req'[r] = new /\ \A q \in Requests : q # r => req'[q] = req[q]
    BY <2>1 DEF TypeOK
  <2>3. CASE p # r
    BY <1>3, <2>2, <2>3
  <2>4. CASE p = r
    <3>1. \A f \in new.files : row'[f].status # "absent"
      <4>1. CASE new.files = req[r].files
        BY <1>1, <1>2, <4>1 DEF Sessions, RequestsHold
      <4>2. CASE new.files = {f \in Files : Live(f)}
        BY <1>1, <4>2 DEF Live
      <4>3. CASE new = Finished
        BY <4>3 DEF Finished, Unstarted
      <4>4. QED BY <2>1, <4>1, <4>2, <4>3 DEF Outcome
    <3>2. CASE new = Finished
      BY <2>2, <2>4, <3>1, <3>2 DEF Finished, Unstarted
    <3>3. CASE new.pc \in {"upload_store", "upload_commit", "upload_undo", "kb_update", "kb_erase"}
      BY <2>2, <2>4, <3>1, <3>3
    <3>4. CASE UploadCommit(r) /\ new.pc = "upload_enqueue"
      <4>1. /\ row' = [row EXCEPT ![req[r].file] = Inserted]
            /\ new.seen = Inserted /\ new.file = req[r].file
        BY <2>1, <3>4 DEF Outcome, Finished, Unstarted
      <4>2. req[r].file \in Files
        BY <3>4 DEF UploadCommit, Sessions, UploadsFresh
      <4>3. Inserted.status = "pending" /\ ~Inserted.deleted
        BY DEF Inserted, Absent
      <4>4. QED BY <2>2, <2>4, <3>1, <3>4, <4>1, <4>2, <4>3 DEF TypeOK, Exists
    <3>5. CASE new.pc \in {"delete_mark", "reprocess_commit"}
      <4>1. /\ new.file \in Files /\ Exists(new.file) /\ new.seen = row[new.file]
            /\ new.pc = "reprocess_commit" => new.seen.version < MaxVersion
        BY <2>1, <3>5 DEF Outcome, Finished, Unstarted
      <4>2. QED BY <1>1, <2>2, <2>4, <3>1, <3>5, <4>1
    <3>6. CASE new.pc \in {"delete_erase", "delete_finish", "reprocess_enqueue"}
      <4>1. /\ req[r].pc \in {"delete_mark", "delete_erase", "reprocess_commit"}
            /\ new.file = req[r].file /\ new.seen.deleted = req[r].seen.deleted
        BY <2>1, <3>6 DEF Outcome, Finished, Unstarted
      <4>2. /\ new.file \in Files /\ Exists(new.file)
            /\ new.seen.deleted => row[new.file].deleted
        BY <4>1 DEF Sessions, RequestsHold
      <4>3. QED BY <1>1, <2>2, <2>4, <3>1, <3>6, <4>2
    <3>7. QED BY <2>1, <3>2, <3>3, <3>4, <3>5, <3>6 DEF Outcome
  <2>5. QED BY <2>3, <2>4
<1>5. ASSUME UNCHANGED req, NEW p \in Requests
      PROVE  Holds(p)
  BY <1>3, <1>5
<1>6. ASSUME NEW w \in Workers, WorkerContinues(w) \/ Interrupt(w) \/ Crash(w)
      PROVE  UNCHANGED req
  BY <1>6 DEF WorkerContinues, Receive, Begin, Prepare, Activate, NoteLoad, NoteCommit, Settle,
              Interrupt, Crash
<1>7. ASSUME NEW p \in Requests PROVE Holds(p)
  BY <1>4, <1>5, <1>6 DEF Next, Rest, vars
<1>8. QED BY <1>7 DEF RequestsHold, Exists

\* The generation served stays stored, in each of the five ways.
LEMMA ActiveStoredPreserved ==
    ASSUME TypeOK, ActiveGenerationStored, RowStep
    PROVE  ActiveGenerationStored'
<1>1. SUFFICES ASSUME NEW f \in Files, row'[f].active > 0
               PROVE  <<f, row'[f].active>> \in chunks' /\ row'[f].active <= row'[f].version
  BY DEF ActiveGenerationStored
<1>2. /\ row[f] \in Row
      /\ row[f].active > 0 => <<f, row[f].active>> \in chunks /\ row[f].active <= row[f].version
  BY DEF TypeOK, ActiveGenerationStored
<1>3. CASE UNCHANGED <<row, chunks>>
  BY <1>1, <1>2, <1>3
<1>4. ASSUME NEW g \in Files, Inserts(g)
      PROVE  <<f, row'[f].active>> \in chunks' /\ row'[f].active <= row'[f].version
  <2>1. Inserted.active = 0
    BY DEF Inserted, Absent
  <2>2. row'[f] = row[f]
    BY <1>1, <1>4, <2>1 DEF Inserts, TypeOK
  <2>3. QED BY <1>1, <1>2, <1>4, <2>2 DEF Inserts
<1>5. ASSUME NEW g \in Files, NEW new \in Row, Edits(g, new)
      PROVE  <<f, row'[f].active>> \in chunks' /\ row'[f].active <= row'[f].version
  <2>1. row'[f] = IF f = g THEN new ELSE row[f]
    BY <1>5 DEF Edits, TypeOK
  <2>2. new.active = row[g].active /\ (new.version = row[g].version \/ new.active <= new.version)
    BY <1>5 DEF Edits, VersionsValid
  <2>3. chunks' = chunks
    BY <1>5 DEF Edits
  <2>4. CASE f = g
    <3>1. row'[f] = new /\ new.active = row[f].active /\ new.active > 0
      BY <1>1, <2>1, <2>2, <2>4
    <3>2. new.active <= new.version
      BY <1>2, <2>2, <2>4, <3>1
    <3>3. QED BY <1>2, <2>3, <3>1, <3>2
  <2>5. CASE f # g
    BY <1>1, <1>2, <2>1, <2>3, <2>5
  <2>6. QED BY <2>4, <2>5
<1>6. ASSUME NEW g \in Files, NEW new \in Row, NEW v \in Versions, Activates(g, new, v)
      PROVE  <<f, row'[f].active>> \in chunks' /\ row'[f].active <= row'[f].version
  BY <1>1, <1>2, <1>6 DEF Activates, TypeOK, VersionsValid
<1>7. ASSUME NEW F \in SUBSET Files, Tombstones(F)
      PROVE  <<f, row'[f].active>> \in chunks' /\ row'[f].active <= row'[f].version
  <2> DEFINE new == [row[f] EXCEPT !.status = "deleted", !.deleted = TRUE]
  <2>1. new.active = row[f].active /\ new.version = row[f].version
    BY <1>2 DEF Row
  <2>2. row'[f] = IF f \in F THEN new ELSE row[f]
    BY <1>7 DEF Tombstones
  <2> HIDE DEF new
  <2>3. row'[f].active = row[f].active /\ row'[f].version = row[f].version /\ chunks' = chunks
    BY <1>7, <2>1, <2>2 DEF Tombstones
  <2>4. QED BY <1>1, <1>2, <2>3
<1>8. QED BY <1>3, <1>4, <1>5, <1>6, <1>7 DEF RowStep, RowChange

\* A file that has a good generation keeps one, and no generation is thrown away.
LEMMA GoodOnesKept ==
    ASSUME TypeOK, RowStep, NEW f \in Files
    PROVE  (row[f].active > 0 => row'[f].active > 0) /\ chunks \subseteq chunks'
<1>1. row[f] \in Row
  BY DEF TypeOK
<1>2. CASE UNCHANGED <<row, chunks>>
  BY <1>2
<1>3. ASSUME NEW g \in Files, Inserts(g)
      PROVE  (row[f].active > 0 => row'[f].active > 0) /\ chunks \subseteq chunks'
  <2>1. Absent.active = 0
    BY DEF Absent
  <2>2. QED BY <1>3, <2>1 DEF Inserts, TypeOK
<1>4. ASSUME NEW g \in Files, NEW new \in Row, Edits(g, new)
      PROVE  (row[f].active > 0 => row'[f].active > 0) /\ chunks \subseteq chunks'
  BY <1>4 DEF Edits, TypeOK
<1>5. ASSUME NEW g \in Files, NEW new \in Row, NEW v \in Versions, Activates(g, new, v)
      PROVE  (row[f].active > 0 => row'[f].active > 0) /\ chunks \subseteq chunks'
  BY <1>5 DEF Activates, TypeOK, Versions
<1>6. ASSUME NEW F \in SUBSET Files, Tombstones(F)
      PROVE  (row[f].active > 0 => row'[f].active > 0) /\ chunks \subseteq chunks'
  <2> DEFINE new == [row[f] EXCEPT !.status = "deleted", !.deleted = TRUE]
  <2>1. new.active = row[f].active
    BY <1>1 DEF Row
  <2>2. row'[f] = IF f \in F THEN new ELSE row[f]
    BY <1>6 DEF Tombstones
  <2> HIDE DEF new
  <2>3. QED BY <1>6, <2>1, <2>2 DEF Tombstones
<1>7. QED BY <1>2, <1>3, <1>4, <1>5, <1>6 DEF RowStep, RowChange

\* The same for the sessions of workers.
LEMMA WorkersHoldPreserved ==
    ASSUME TypeOK, Sessions, Next
    PROVE  WorkersHold'
<1> DEFINE Holds(p) == wrk'[p].pc # "idle" =>
                         /\ wrk'[p].msg \in Message
                         /\ row'[wrk'[p].msg.file].status # "absent"
                         /\ ~wrk'[p].seen.deleted
                         /\ wrk'[p].pc \in {"work", "store"} =>
                              wrk'[p].seen.status = "processing"
                         /\ wrk'[p].seen.active > 0 =>
                              /\ row'[wrk'[p].msg.file].active > 0
                              /\ <<wrk'[p].msg.file, wrk'[p].seen.active>> \in chunks'
<1>0. ASSUME NEW f \in Files
      PROVE  /\ Exists(f) => row'[f].status # "absent"
             /\ row[f].active > 0 => row'[f].active > 0 /\ <<f, row[f].active>> \in chunks
             /\ chunks \subseteq chunks'
  <2>1. RowStep
    BY NextIsRowStep
  <2>2. Exists(f) => row'[f].status # "absent"
    BY <2>1, RowStepKeeps DEF Exists
  <2>3. (row[f].active > 0 => row'[f].active > 0) /\ chunks \subseteq chunks'
    BY <2>1, GoodOnesKept
  <2>4. row[f].active > 0 => <<f, row[f].active>> \in chunks
    BY DEF Sessions, ActiveGenerationStored
  <2>5. QED BY <2>2, <2>3, <2>4
<1>1. \A f \in Files :
        /\ Exists(f) => row'[f].status # "absent"
        /\ row[f].active > 0 => row'[f].active > 0 /\ <<f, row[f].active>> \in chunks
        /\ chunks \subseteq chunks'
  BY <1>0
<1>2. ASSUME NEW p \in Workers, wrk'[p] = wrk[p]
      PROVE  Holds(p)
  BY <1>1, <1>2 DEF Sessions, WorkersHold, Message
<1>3. ASSUME NEW w \in Workers, WorkerContinues(w) \/ Interrupt(w) \/ Crash(w)
      PROVE  Holds(w) /\ \A p \in Workers : p # w => wrk'[p] = wrk[p]
  <2> DEFINE old == wrk[w]
  <2>1. old \in WorkerRecord /\ wrk \in [Workers -> WorkerRecord]
    BY DEF TypeOK, WorkerRecord
  <2>2. old.pc # "idle" =>
          /\ old.msg \in Message /\ Exists(old.msg.file) /\ ~old.seen.deleted
          /\ old.pc \in {"work", "store"} => old.seen.status = "processing"
          /\ old.seen.active > 0 => /\ row[old.msg.file].active > 0
                                    /\ <<old.msg.file, old.seen.active>> \in chunks
    BY DEF Sessions, WorkersHold
  <2> HIDE DEF old
  <2>3. ASSUME NEW new, wrk' = [wrk EXCEPT ![w] = new],
               \/ new.pc = "idle"
               \/ /\ old.pc # "idle" /\ new.msg = old.msg
                  /\ new.seen.deleted = old.seen.deleted /\ new.seen.active = old.seen.active
                  /\ new.pc \in {"work", "store"} => new.seen.status = "processing"
               \/ /\ new.msg \in Message /\ Exists(new.msg.file)
                  /\ new.seen = row[new.msg.file] /\ ~new.seen.deleted
                  /\ new.pc \notin {"work", "store"}
        PROVE  Holds(w) /\ \A p \in Workers : p # w => wrk'[p] = wrk[p]
    BY <1>1, <2>1, <2>2, <2>3 DEF Message
  <2>4. ASSUME Acknowledge(w)
        PROVE  Holds(w) /\ \A p \in Workers : p # w => wrk'[p] = wrk[p]
    BY <2>3, <2>4 DEF Acknowledge, Idle
  <2>5. ASSUME NEW pc, WorkerGoto(w, pc), old.pc # "idle",
               pc \in {"work", "store"} => old.pc \in {"work", "store"}
        PROVE  Holds(w) /\ \A p \in Workers : p # w => wrk'[p] = wrk[p]
    <3> DEFINE new == [old EXCEPT !.pc = pc]
    <3>1. wrk' = [wrk EXCEPT ![w] = new]
      BY <2>5 DEF WorkerGoto, old
    <3>2. new.msg = old.msg /\ new.seen = old.seen /\ new.pc = pc
      BY <2>1 DEF WorkerRecord
    <3> HIDE DEF new
    <3>3. QED BY <2>2, <2>3, <2>5, <3>1, <3>2
  <2>6. ASSUME NEW note, wrk' = [wrk EXCEPT ![w].pc = "note", ![w].note = note], old.pc # "idle"
        PROVE  Holds(w) /\ \A p \in Workers : p # w => wrk'[p] = wrk[p]
    <3> DEFINE new == [old EXCEPT !.pc = "note", !.note = note]
    <3>1. wrk' = [wrk EXCEPT ![w] = new]
      BY <2>6 DEF old
    <3>2. new.msg = old.msg /\ new.seen = old.seen /\ new.pc = "note"
      BY <2>1 DEF WorkerRecord
    <3> HIDE DEF new
    <3>3. QED BY <2>3, <2>6, <3>1, <3>2
  <2>7. ASSUME NEW dirty, NEW pc, wrk' = [wrk EXCEPT ![w].pc = pc, ![w].seen = dirty],
               old.pc # "idle", dirty.deleted = old.seen.deleted,
               dirty.active = old.seen.active,
               pc \in {"work", "store"} => dirty.status = "processing"
        PROVE  Holds(w) /\ \A p \in Workers : p # w => wrk'[p] = wrk[p]
    <3> DEFINE new == [old EXCEPT !.pc = pc, !.seen = dirty]
    <3>1. wrk' = [wrk EXCEPT ![w] = new]
      BY <2>7 DEF old
    <3>2. new.msg = old.msg /\ new.seen = dirty /\ new.pc = pc
      BY <2>1 DEF WorkerRecord
    <3> HIDE DEF new
    <3>3. QED BY <2>3, <2>7, <3>1, <3>2
  <2>8. CASE Receive(w)
    <3>1. PICK m \in Message :
            \/ UNCHANGED wrk
            \/ /\ Live(m.file)
               /\ wrk' = [wrk EXCEPT ![w] = [pc |-> "begin", msg |-> m, seen |-> row[m.file],
                                             note |-> "none"]]
      BY <2>8 DEF Receive
    <3>2. CASE UNCHANGED wrk
      BY <1>2, <3>2
    <3>3. CASE /\ Live(m.file)
               /\ wrk' = [wrk EXCEPT ![w] = [pc |-> "begin", msg |-> m, seen |-> row[m.file],
                                             note |-> "none"]]
      BY <2>3, <3>3 DEF Live
    <3>4. QED BY <3>1, <3>2, <3>3
  <2>9. CASE Begin(w)
    <3> DEFINE dirty == [old.seen EXCEPT !.status = "processing"]
    <3>1. /\ old.pc # "idle" /\ dirty.deleted = old.seen.deleted
          /\ dirty.active = old.seen.active /\ dirty.status = "processing"
      BY <2>1, <2>9 DEF Begin, WorkerRecord, Row, old
    <3>2. wrk' = [wrk EXCEPT ![w].pc = "work", ![w].seen = dirty]
      BY <2>9 DEF Begin, WorkerCommit, old
    <3> HIDE DEF dirty
    <3>3. QED BY <2>7, <3>1, <3>2
  <2>10. CASE NoteCommit(w)
    <3> DEFINE unserved == IF old.note = "code" THEN "failed" ELSE "pending"
               status == IF old.seen.active > 0 THEN "ready" ELSE unserved
               dirty == [old.seen EXCEPT !.status = status, !.error = old.note]
    <3>1. old.pc # "idle"
      BY <2>10 DEF NoteCommit, old
    <3>2. wrk' = [wrk EXCEPT ![w].pc = "noted", ![w].seen = dirty]
      BY <2>10 DEF NoteCommit, WorkerCommit, old
    <3> HIDE DEF status
    <3>3. dirty.deleted = old.seen.deleted /\ dirty.active = old.seen.active
      BY <2>1 DEF WorkerRecord, Row
    <3> HIDE DEF dirty
    <3>4. "noted" \notin {"work", "store"}
      OBVIOUS
    <3>5. QED BY <2>7, <3>1, <3>2, <3>3, <3>4
  <2>11. CASE NoteLoad(w)
    <3>1. old.pc # "idle"
      BY <2>11 DEF NoteLoad, old
    <3>2. CASE /\ Live(old.msg.file)
               /\ wrk' = [wrk EXCEPT ![w].pc = "note_commit", ![w].seen = row[old.msg.file]]
      <4> DEFINE new == [old EXCEPT !.pc = "note_commit", !.seen = row[old.msg.file]]
      <4>1. wrk' = [wrk EXCEPT ![w] = new]
        BY <3>2 DEF old
      <4>2. new.msg = old.msg /\ new.seen = row[old.msg.file] /\ new.pc = "note_commit"
        BY <2>1 DEF WorkerRecord
      <4> HIDE DEF new
      <4>3. QED BY <2>2, <2>3, <3>1, <3>2, <4>1, <4>2 DEF Live
    <3>3. CASE WorkerGoto(w, "noted")
      BY <2>5, <3>1, <3>3
    <3>4. QED BY <2>11, <3>2, <3>3 DEF NoteLoad, Target, old
  <2>12. CASE Prepare(w)
    BY <2>5, <2>6, <2>12 DEF Prepare, old
  <2>13. CASE Activate(w)
    BY <2>5, <2>6, <2>13 DEF Activate, old
  <2>14. CASE Settle(w)
    BY <2>4, <2>6, <2>14 DEF Settle, old
  <2>15. QED
    BY <1>3, <2>4, <2>8, <2>9, <2>10, <2>11, <2>12, <2>13, <2>14
    DEF WorkerContinues, Interrupt, Crash
<1>4. ASSUME NEW r \in Requests,
             RequestStarts(r) \/ RequestContinues(r) \/ EnqueueFails(r) \/ RequestDies(r)
      PROVE  UNCHANGED wrk
  BY <1>4 DEF RequestStarts, RequestContinues, EnqueueFails, RequestDies, UploadAccept,
              DeleteLoad,
              ReprocessLoad, KbUpdateLoad, KbDeleteLoad, UploadStore, UploadCommit, UploadUndo,
              Enqueue, DeleteMark, DeleteErase, DeleteFinish, ReprocessCommit, KbUpdateCommit,
              KbErase, KbDeleteCommit
<1>5. ASSUME NEW p \in Workers PROVE Holds(p)
  <2>1. CASE UNCHANGED wrk
    BY <1>2, <2>1
  <2>2. ASSUME NEW w \in Workers, WorkerContinues(w) \/ Interrupt(w) \/ Crash(w)
        PROVE  Holds(p)
    BY <1>2, <1>3, <2>2
  <2>3. QED BY <1>4, <2>1, <2>2 DEF Next, Rest, vars
<1>6. QED BY <1>5 DEF WorkersHold, Exists

LEMMA SessionsPreserved ==
    ASSUME TypeOK, Sessions, [Next]_vars
    PROVE  Sessions'
<1>1. CASE Next
  <2>1. NothingAbsentStored'
    BY <1>1, NextIsRowStep, RowStepKeeps DEF NothingAbsentStored
  <2>2. ActiveGenerationStored'
    BY <1>1, NextIsRowStep, ActiveStoredPreserved DEF Sessions
  <2>3. QED
    BY <1>1, <2>1, <2>2, UploadsFreshPreserved, RequestsHoldPreserved, WorkersHoldPreserved
       DEF Sessions
<1>2. CASE UNCHANGED vars
  BY <1>2 DEF vars, Sessions, UploadsFresh, RequestsHold, WorkersHold,
              NothingAbsentStored, Exists, ActiveGenerationStored
<1>3. QED BY <1>1, <1>2

LEMMA InitiallyTyped == Init => TypeOK /\ Sessions
<1>1. SUFFICES ASSUME Init PROVE TypeOK /\ Sessions
  OBVIOUS
<1>2. /\ Absent \in Row /\ Unstarted \in RequestRecord /\ Idle \in WorkerRecord
  BY AbsentIsRow, InitialRecords
<1>3. TypeOK
  BY <1>1, <1>2 DEF Init, TypeOK, KbStatuses, RequestRecord, WorkerRecord
<1>4. /\ Unstarted.pc = "start" /\ Unstarted.files = {} /\ Idle.pc = "idle"
      /\ Absent.active = 0
  BY DEF Unstarted, Idle, Absent
<1>5. Sessions
  BY <1>1, <1>4 DEF Init, Sessions, UploadsFresh, RequestsHold, WorkersHold, NothingAbsentStored,
                    ActiveGenerationStored
<1>6. QED BY <1>3, <1>5

\* What a session in progress may rely on holds throughout.
LEMMA SessionsCorrect == Spec => [](TypeOK /\ Sessions)
<1>1. Init => TypeOK /\ Sessions
  BY InitiallyTyped
<1>2. TypeOK /\ Sessions /\ [Next]_vars => (TypeOK /\ Sessions)'
  BY TypePreserved, SessionsPreserved
<1>3. QED BY <1>1, <1>2, PTL DEF Spec

\* Every variable keeps its type: the flushes of stale sessions, the retries and
\* the redeliveries never leave the tables in a state their columns cannot hold.
THEOREM TypeCorrect == Spec => []TypeOK
BY SessionsCorrect, PTL

-----------------------------------------------------------------------------
(* The index: what a file serves is stored, and a removed file serves nothing. *)

\* The generation a file serves is stored in full and is not newer than the
\* file's generation, in every interleaving of any number of requests and workers.
THEOREM ActiveGenerationCorrect == Spec => []ActiveGenerationStored
<1>1. Sessions => ActiveGenerationStored
  BY DEF Sessions
<1>2. QED BY <1>1, SessionsCorrect, PTL

\* No step of a stale session, of a retry or of a redelivered message takes a
\* tombstone away or makes a deleted file retrievable.
THEOREM DeletionIsForGood == Spec => DeletedForGood
<1>1. TypeOK /\ Sessions /\ [Next]_vars =>
        [\A f \in Files : row[f].deleted => row'[f].deleted /\ ~Retrievable(f)']_vars
  <2>1. SUFFICES ASSUME TypeOK, Sessions, [Next]_vars, NEW f \in Files, row[f].deleted
                 PROVE  row'[f].deleted /\ ~Retrievable(f)'
    OBVIOUS
  <2>2. row'[f].deleted
    BY <2>1, NextIsRowStep, RowStepKeeps
  <2>3. QED BY <2>2 DEF Retrievable
<1>2. QED BY <1>1, SessionsCorrect, PTL DEF Spec, DeletedForGood

-----------------------------------------------------------------------------
(* Uniqueness of the bytes of live files. *)

\* A file becomes live only by an INSERT.
LEMMA LiveStep ==
    ASSUME TypeOK, RowStep, NEW f \in Files, Live(f)'
    PROVE  Live(f) \/ Inserts(f)
<1> USE DEF Live, Exists
<1>1. row[f] \in Row
  BY DEF TypeOK
<1>2. CASE UNCHANGED <<row, chunks>>
  BY <1>2
<1>3. ASSUME NEW g \in Files, Inserts(g)
      PROVE  Live(f) \/ Inserts(f)
  BY <1>3 DEF Inserts, TypeOK
<1>4. ASSUME NEW g \in Files, NEW new \in Row, Edits(g, new)
      PROVE  Live(f)
  BY <1>4 DEF Edits, TypeOK
<1>5. ASSUME NEW g \in Files, NEW new \in Row, NEW v \in Versions, Activates(g, new, v)
      PROVE  Live(f)
  BY <1>5 DEF Activates, TypeOK
<1>6. ASSUME NEW F \in SUBSET Files, Tombstones(F)
      PROVE  Live(f)
  <2> DEFINE new == [row[f] EXCEPT !.status = "deleted", !.deleted = TRUE]
  <2>1. new.deleted
    BY <1>1 DEF Row
  <2>2. row'[f] = IF f \in F THEN new ELSE row[f]
    BY <1>6 DEF Tombstones
  <2> HIDE DEF new
  <2>3. QED BY <2>1, <2>2
<1>7. QED BY <1>2, <1>3, <1>4, <1>5, <1>6 DEF RowStep, RowChange

\* Two live files never hold the same bytes, however many uploads of them race:
\* what find_duplicate misses, the unique index refuses.
THEOREM LiveChecksumsAreUnique == Spec => []LiveChecksumsUnique
<1>1. Init => LiveChecksumsUnique
  <2>1. Absent.status = "absent"
    BY DEF Absent
  <2>2. QED BY <2>1 DEF Init, LiveChecksumsUnique, Live, Exists
<1>2. LiveChecksumsUnique /\ TypeOK /\ Sessions /\ [Next]_vars => LiveChecksumsUnique'
  <2>1. SUFFICES ASSUME LiveChecksumsUnique, TypeOK, RowStep,
                        NEW f \in Files, NEW g \in Files, Live(f)', Live(g)',
                        Checksum[f] = Checksum[g]
                 PROVE  f = g
    BY NextIsRowStep DEF LiveChecksumsUnique
  <2>2. (Live(f) \/ Inserts(f)) /\ (Live(g) \/ Inserts(g))
    BY <2>1, LiveStep
  <2>3. CASE Live(f) /\ Live(g)
    BY <2>1, <2>3 DEF LiveChecksumsUnique
  <2>4. CASE Inserts(f) /\ Live(g)
    BY <2>1, <2>4 DEF Inserts, Duplicate
  <2>5. CASE Live(f) /\ Inserts(g)
    BY <2>1, <2>5 DEF Inserts, Duplicate
  <2>6. CASE Inserts(f) /\ Inserts(g)
    \* One step inserts one row: the row of the other would still be absent.
    <3>1. Absent.status = "absent" /\ Inserted.status # "absent"
      BY DEF Absent, Inserted
    <3>2. QED BY <2>1, <2>6, <3>1 DEF Inserts, TypeOK, Live, Exists
  <2>7. QED BY <2>2, <2>3, <2>4, <2>5, <2>6
<1>3. QED BY <1>1, <1>2, SessionsCorrect, PTL DEF Spec

\* A file has the status "deleted" only when it has its tombstone: this is what
\* lets KbDeleteCommit write both columns of every file it has found live.
THEOREM TombstonesAgree == Spec => []TombstoneMeansDeleted
<1>1. Init => TombstoneMeansDeleted
  <2>1. Absent.status = "absent"
    BY DEF Absent
  <2>2. QED BY <2>1 DEF Init, TombstoneMeansDeleted
<1>2. TombstoneMeansDeleted /\ TypeOK /\ Sessions /\ [Next]_vars => TombstoneMeansDeleted'
  <2>1. SUFFICES ASSUME TypeOK, RowStep, NEW f \in Files,
                        row[f].status = "deleted" => row[f].deleted,
                        row'[f].status = "deleted"
                 PROVE  row'[f].deleted
    BY NextIsRowStep DEF TombstoneMeansDeleted
  <2>2. CASE UNCHANGED <<row, chunks>>
    BY <2>1, <2>2
  <2>3. ASSUME NEW g \in Files, Inserts(g)
        PROVE  row'[f].deleted
    <3>1. Inserted.status = "pending"
      BY DEF Inserted, Absent
    <3>2. QED BY <2>1, <2>3, <3>1 DEF Inserts, TypeOK
  <2>4. ASSUME NEW g \in Files, NEW new \in Row, Edits(g, new)
        PROVE  row'[f].deleted
    BY <2>1, <2>4 DEF Edits, TypeOK
  <2>5. ASSUME NEW g \in Files, NEW new \in Row, NEW v \in Versions, Activates(g, new, v)
        PROVE  row'[f].deleted
    BY <2>1, <2>5 DEF Activates, TypeOK
  <2>6. ASSUME NEW F \in SUBSET Files, Tombstones(F)
        PROVE  row'[f].deleted
    <3> DEFINE new == [row[f] EXCEPT !.status = "deleted", !.deleted = TRUE]
    <3>1. row[f] \in Row
      BY <2>1 DEF TypeOK
    <3>2. new.deleted
      BY <3>1 DEF Row
    <3>3. row'[f] = IF f \in F THEN new ELSE row[f]
      BY <2>6 DEF Tombstones
    <3> HIDE DEF new
    <3>4. QED BY <2>1, <3>2, <3>3
  <2>7. QED BY <2>1, <2>2, <2>3, <2>4, <2>5, <2>6 DEF RowStep, RowChange
<1>3. QED BY <1>1, <1>2, SessionsCorrect, PTL DEF Spec

-----------------------------------------------------------------------------
(* The refinement: retrieval sees the index that DocumentIndex specifies. *)

GoodOnes == [f \in Files |-> row[f].active]
OpenOnes == {f \in Files : Retrievable(f)}
RemovedOnes == {f \in Files : row[f].deleted}

\* A step that changes only the row of f opens or closes f and no other file.
LEMMA OnlyOneChanges ==
    ASSUME TypeOK, NEW f \in Files, NEW new, row' = [row EXCEPT ![f] = new],
           chunks \subseteq chunks', \A c \in chunks' \ chunks : c[1] = f
    PROVE  /\ GoodOnes' = [GoodOnes EXCEPT ![f] = new.active]
           /\ OpenOnes' = IF Retrievable(f)' THEN OpenOnes \cup {f} ELSE OpenOnes \ {f}
<1>1. ASSUME NEW g \in Files, g # f
      PROVE  row'[g] = row[g] /\ (Retrievable(g)' <=> Retrievable(g))
  <2>1. row'[g] = row[g]
    BY <1>1 DEF TypeOK
  <2>2. \A v : <<g, v>> \in chunks' <=> <<g, v>> \in chunks
    BY <1>1
  <2>3. QED BY <2>1, <2>2 DEF Retrievable
<1>2. row'[f] = new
  BY DEF TypeOK
<1>3. GoodOnes' = [GoodOnes EXCEPT ![f] = new.active]
  <2>1. GoodOnes' = [g \in Files |-> row'[g].active]
    BY DEF GoodOnes
  <2>2. \A g \in Files : row'[g].active = IF g = f THEN new.active ELSE row[g].active
    BY <1>1, <1>2
  <2>3. QED BY <2>1, <2>2 DEF GoodOnes
<1>4. OpenOnes' = IF Retrievable(f)' THEN OpenOnes \cup {f} ELSE OpenOnes \ {f}
  BY <1>1 DEF OpenOnes
<1>5. QED BY <1>3, <1>4

\* Each of the five ways is a step of the index or none.
LEMMA StepRefines ==
    ASSUME TypeOK, TypeOK', ActiveGenerationStored, RowStep
    PROVE  [Index!Next]_(Index!vars)
<1> USE DEF GoodOnes, OpenOnes, RemovedOnes
<1>1. CASE UNCHANGED <<row, chunks>>
  BY <1>1 DEF Index!vars, Retrievable
<1> HIDE DEF GoodOnes, OpenOnes, RemovedOnes
<1>2. ASSUME NEW f \in Files, Inserts(f)
      PROVE  UNCHANGED <<chunks, GoodOnes, OpenOnes, RemovedOnes>>
  <2>1. /\ Absent.active = 0 /\ ~Absent.deleted
        /\ Inserted.active = 0 /\ ~Inserted.deleted
    BY DEF Absent, Inserted
  <2>2. row'[f] = Inserted /\ row[f] = Absent /\ chunks' = chunks
    BY <1>2 DEF Inserts, TypeOK
  <2>3. ~Retrievable(f) /\ ~Retrievable(f)'
    BY <2>1, <2>2 DEF Retrievable
  <2>4. /\ GoodOnes' = [GoodOnes EXCEPT ![f] = 0]
        /\ OpenOnes' = OpenOnes \ {f}
    BY <1>2, <2>1, <2>3, OnlyOneChanges DEF Inserts
  <2>5. RemovedOnes' = RemovedOnes
    BY <1>2, <2>1, <2>2 DEF Inserts, TypeOK, RemovedOnes
  <2>6. GoodOnes[f] = 0 /\ f \notin OpenOnes
    BY <2>1, <2>2, <2>3 DEF GoodOnes, OpenOnes
  <2>7. GoodOnes' = GoodOnes
    BY <2>4, <2>6 DEF GoodOnes
  <2>8. QED BY <2>2, <2>4, <2>5, <2>6, <2>7
<1>3. ASSUME NEW f \in Files, NEW new \in Row, Edits(f, new)
      PROVE  Index!Next
  <2>1. row'[f] = new /\ chunks' = chunks /\ (row[f].deleted => new.deleted)
    BY <1>3 DEF Edits, TypeOK
  <2>2. /\ GoodOnes' = [GoodOnes EXCEPT ![f] = new.active]
        /\ OpenOnes' = IF Retrievable(f)' THEN OpenOnes \cup {f} ELSE OpenOnes \ {f}
    BY <1>3, OnlyOneChanges DEF Edits
  <2>3. GoodOnes' = GoodOnes /\ new.active = GoodOnes[f]
    BY <1>3, <2>2 DEF Edits, GoodOnes
  <2>4. RemovedOnes' = IF new.deleted THEN RemovedOnes \cup {f} ELSE RemovedOnes
    BY <1>3, <2>1 DEF Edits, TypeOK, RemovedOnes
  <2>5. CASE new.deleted
    <3>1. ~Retrievable(f)'
      BY <2>1, <2>5 DEF Retrievable
    <3>2. Index!Remove({f})
      BY <2>1, <2>2, <2>3, <2>4, <2>5, <3>1
         DEF Index!Remove, GoodOnes, OpenOnes, RemovedOnes
    <3>3. QED BY <3>2 DEF Index!Next
  <2>6. CASE ~new.deleted /\ ~Retrievable(f)'
    <3>1. Index!Suspend(f)
      BY <2>1, <2>2, <2>3, <2>4, <2>6 DEF Index!Suspend, GoodOnes, OpenOnes, RemovedOnes
    <3>2. QED BY <3>1 DEF Index!Next
  <2>7. CASE ~new.deleted /\ Retrievable(f)'
    <3>1. GoodOnes[f] # 0
      BY <2>1, <2>3, <2>7 DEF Retrievable
    <3>2. f \notin RemovedOnes
      BY <2>1, <2>7 DEF RemovedOnes
    <3>3. Index!Resume(f)
      BY <2>1, <2>2, <2>3, <2>4, <2>7, <3>1, <3>2
         DEF Index!Resume, GoodOnes, OpenOnes, RemovedOnes
    <3>4. QED BY <3>3 DEF Index!Next
  <2>8. QED BY <2>5, <2>6, <2>7
<1>4. ASSUME NEW f \in Files, NEW new \in Row, NEW v \in Versions, Activates(f, new, v)
      PROVE  Index!Next
  <2>1. row'[f] = new /\ chunks' = chunks \cup {<<f, v>>} /\ new.deleted = row[f].deleted
    BY <1>4 DEF Activates, TypeOK
  <2>2. /\ GoodOnes' = [GoodOnes EXCEPT ![f] = new.active]
        /\ OpenOnes' = IF Retrievable(f)' THEN OpenOnes \cup {f} ELSE OpenOnes \ {f}
    <3>1. chunks \subseteq chunks' /\ \A c \in chunks' \ chunks : c[1] = f
      BY <2>1
    <3>2. row' = [row EXCEPT ![f] = new]
      BY <1>4 DEF Activates
    <3>3. QED BY <3>1, <3>2, OnlyOneChanges
  <2>3. RemovedOnes' = RemovedOnes
    BY <1>4, <2>1 DEF Activates, TypeOK, RemovedOnes
  <2>4. \/ GoodOnes' = [GoodOnes EXCEPT ![f] = v]
        \/ GoodOnes[f] # 0 /\ <<f, v>> \in chunks /\ GoodOnes' = GoodOnes
    <3>1. CASE new.active = v
      BY <2>2, <3>1
    <3>2. CASE new.active = row[f].active /\ row[f].active > 0 /\ <<f, v>> \in chunks
      <4>1. GoodOnes[f] = row[f].active /\ DOMAIN GoodOnes = Files
        BY DEF GoodOnes
      <4>2. GoodOnes' = GoodOnes
        BY <2>2, <3>2, <4>1 DEF GoodOnes
      <4>3. row[f].active # 0
        BY <3>2
      <4>4. QED BY <3>2, <4>1, <4>2, <4>3
    <3>3. QED BY <1>4, <3>1, <3>2 DEF Activates
  <2>5. new.active > 0 /\ <<f, new.active>> \in chunks'
    <3>1. row[f].active > 0 => <<f, row[f].active>> \in chunks
      BY DEF ActiveGenerationStored
    <3>2. QED BY <1>4, <2>1, <3>1 DEF Activates, Versions
  <2>6. Retrievable(f)' <=> f \notin RemovedOnes
    BY <1>4, <2>1, <2>5 DEF Activates, Retrievable, RemovedOnes
  <2>7. OpenOnes \cap RemovedOnes = {}
    BY DEF OpenOnes, RemovedOnes, Retrievable
  <2>8. OpenOnes' = (OpenOnes \cup {f}) \ RemovedOnes
    BY <2>2, <2>6, <2>7
  <2>9. Index!Publish(f, v)
    BY <2>1, <2>3, <2>4, <2>8 DEF Index!Publish, GoodOnes, OpenOnes, RemovedOnes
  <2>10. QED BY <2>9 DEF Index!Next, Versions
<1>5. ASSUME NEW F \in SUBSET Files, Tombstones(F)
      PROVE  Index!Next
  <2>1. ASSUME NEW f \in Files
        PROVE  /\ row'[f].active = row[f].active
               /\ row'[f].deleted <=> row[f].deleted \/ f \in F
               /\ Retrievable(f)' <=> Retrievable(f) /\ f \notin F
    <3> DEFINE new == [row[f] EXCEPT !.status = "deleted", !.deleted = TRUE]
    <3>1. row[f] \in Row
      BY DEF TypeOK
    <3>2. new.deleted /\ new.active = row[f].active
      BY <3>1 DEF Row
    <3>3. row'[f] = IF f \in F THEN new ELSE row[f]
      BY <1>5 DEF Tombstones
    <3> HIDE DEF new
    <3>4. QED BY <1>5, <3>2, <3>3 DEF Tombstones, Retrievable
  <2>2. RemovedOnes' = RemovedOnes \cup F
    BY <2>1 DEF RemovedOnes
  <2>3. OpenOnes' = OpenOnes \ F
    BY <2>1 DEF OpenOnes
  <2>4. GoodOnes' = GoodOnes
    BY <2>1 DEF GoodOnes
  <2>5. Index!Remove(F)
    BY <1>5, <2>2, <2>3, <2>4
       DEF Index!Remove, Tombstones, GoodOnes, OpenOnes, RemovedOnes
  <2>6. QED BY <2>5 DEF Index!Next
<1>6. UNCHANGED <<chunks, GoodOnes, OpenOnes, RemovedOnes>> => UNCHANGED Index!vars
  BY DEF Index!vars, GoodOnes, OpenOnes, RemovedOnes
<1>7. QED BY <1>1, <1>2, <1>3, <1>4, <1>5, <1>6 DEF RowStep, RowChange

\* Whatever requests, workers and faults do, a file keeps its last good
\* generation, retrieval sees that one or none, never one that is not stored in
\* full, and nothing of a file that was removed.
THEOREM IndexImplemented == Spec => ImplementsDocumentIndex
<1>1. Init => Index!Init
  <2>1. Absent.active = 0 /\ ~Absent.deleted
    BY DEF Absent
  <2>2. QED BY <2>1 DEF Init, Index!Init, Retrievable
<1>2. (TypeOK /\ Sessions) /\ (TypeOK /\ Sessions)' /\ [Next]_vars => [Index!Next]_(Index!vars)
  BY NextIsRowStep, StepRefines DEF Sessions
<1>3. QED BY <1>1, <1>2, SessionsCorrect, PTL DEF Spec, Index!Spec, ImplementsDocumentIndex

-----------------------------------------------------------------------------
(* Postgres and MinIO.  Between the steps of an upload an object has no row *)
(* yet, and between those of a deletion a row has lost its object: Stores   *)
(* says which request each of these belongs to.                             *)

Listed == {f \in Files : Live(f)}

\* The object that a request has stored without a row, and the objects that it
\* has removed from under live rows.
Stored(q) == IF q.pc \in {"upload_commit", "upload_undo"} THEN {q.file} ELSE {}
Removed(q) == IF q.pc = "delete_finish" THEN {q.file}
              ELSE IF q.pc = "kb_erase" THEN q.files \ q.todo ELSE {}

Stores ==
    /\ \A r \in Requests : req[r].pc = "kb_erase" => req[r].todo \subseteq req[r].files
    /\ \A r \in Requests : Stored(req[r]) \cap Listed = {}
    /\ \A r \in Requests : Removed(req[r]) \cap objects = {}
    /\ \A r \in Requests : req[r].pc = "upload_commit" => req[r].file \in objects
    /\ \A f \in objects : f \in Listed \/ \E r \in Requests : f \in Stored(req[r])
    /\ \A f \in Listed : f \in objects \/ \E r \in Requests : f \in Removed(req[r])

\* A flush that leaves the tombstone as the session has loaded it.
LEMMA FlushKeepsListed ==
    ASSUME TypeOK, NEW f \in Files, Exists(f),
           NEW loaded \in Row, NEW dirty \in Row,
           dirty.deleted = loaded.deleted, dirty.status # "absent",
           row' = [row EXCEPT ![f] = Flush(@, loaded, dirty)]
    PROVE  Listed' = Listed
<1> DEFINE new == Flush(row[f], loaded, dirty)
<1>1. row[f] \in Row
  BY DEF TypeOK
<1>2. new.deleted = row[f].deleted /\ new.status # "absent"
  BY <1>1, FlushedRow DEF Exists, Row
<1>3. row' = [row EXCEPT ![f] = new]
  OBVIOUS
<1> HIDE DEF new
<1>4. \A g \in Files : Live(g)' <=> Live(g)
  BY <1>2, <1>3 DEF Live, Exists, TypeOK
<1>5. QED BY <1>4 DEF Listed

\* What a worker does to the row of its file leaves the file live or removed.
LEMMA WorkersKeepListed ==
    ASSUME TypeOK, Sessions, NEW w \in Workers,
           WorkerContinues(w) \/ Interrupt(w) \/ Crash(w)
    PROVE  Listed' = Listed
<1> DEFINE f == wrk[w].msg.file
           loaded == wrk[w].seen
<1>1. loaded \in Row /\ wrk[w].note \in {"none", "RETRY_PENDING", "code"}
  BY DEF TypeOK
<1>2. CASE UNCHANGED row
  BY <1>2 DEF Listed, Live, Exists
<1>3. wrk[w].pc # "idle" => f \in Files /\ Exists(f) /\ wrk[w].msg.version \in Versions
  BY DEF Sessions, WorkersHold, Message
<1>4. CASE Begin(w)
  <2> DEFINE dirty == [loaded EXCEPT !.status = "processing"]
  <2>1. dirty \in Row /\ dirty.status = "processing" /\ dirty.deleted = loaded.deleted
    BY <1>1 DEF Row, Statuses
  <2>2. /\ row' = [row EXCEPT ![f] = Flush(@, loaded, dirty)]
        /\ f \in Files /\ Exists(f)
    BY <1>3, <1>4 DEF Begin, WorkerCommit, Target
  <2> HIDE DEF dirty, loaded, f
  <2>3. dirty.status # "absent"
    BY <2>1
  <2>4. QED BY <1>1, <2>1, <2>2, <2>3, FlushKeepsListed
<1>5. CASE NoteCommit(w)
  <2> DEFINE unserved == IF wrk[w].note = "code" THEN "failed" ELSE "pending"
             status == IF loaded.active > 0 THEN "ready" ELSE unserved
             dirty == [loaded EXCEPT !.status = status, !.error = wrk[w].note]
  <2>1. status \in {"ready", "failed", "pending"}
    OBVIOUS
  <2>2. /\ row' = [row EXCEPT ![f] = Flush(@, loaded, dirty)]
        /\ f \in Files /\ Exists(f)
    BY <1>3, <1>5 DEF NoteCommit, WorkerCommit, Target
  <2> HIDE DEF status
  <2>3. dirty \in Row /\ dirty.status = status /\ dirty.deleted = loaded.deleted
    BY <1>1, <2>1 DEF Row, Statuses
  <2> HIDE DEF dirty, loaded, f
  <2>4. dirty.status # "absent"
    BY <2>1, <2>3
  <2>5. QED BY <1>1, <2>2, <2>3, <2>4, FlushKeepsListed
<1>6. CASE Activate(w)
  <2> DEFINE v == wrk[w].msg.version
             dirty == [loaded EXCEPT !.status = "ready", !.active = v, !.error = "none"]
  <2>1. f \in Files /\ Exists(f) /\ v \in 0..MaxVersion
    BY <1>3, <1>6 DEF Activate, Versions
  <2>2. dirty \in Row /\ dirty.status = "ready" /\ dirty.deleted = loaded.deleted
    <3> HIDE DEF v
    <3>1. QED BY <1>1, <2>1 DEF Row, Statuses
  <2>3. UNCHANGED row \/ row' = [row EXCEPT ![f] = Flush(@, loaded, dirty)]
    BY <1>6 DEF Activate, Reselect, Target
  <2> HIDE DEF dirty, loaded, f
  <2>4. dirty.status # "absent"
    BY <2>2
  <2>5. QED BY <1>1, <1>2, <2>1, <2>2, <2>3, <2>4, FlushKeepsListed
<1>7. QED
  BY <1>2, <1>4, <1>5, <1>6 DEF WorkerContinues, Interrupt, Crash, Receive, Prepare,
                                NoteLoad, Settle

\* What a step of request r does to the stores, if it leaves the record `new`
\* and neither MinIO nor the request fails: nothing, or one of five changes.
StoresChange(r, new) ==
    LET old == req[r]
        f   == old.file IN
    /\ new.pc = "kb_erase" => new.todo \subseteq new.files
    /\ \/ /\ Stored(new) = Stored(old) /\ Removed(new) = Removed(old)
          /\ new.pc = "upload_commit" => old.pc = "upload_commit" /\ new.file = f
          /\ objects' = objects /\ Listed' = Listed
       \/ /\ old.pc = "upload_store" /\ new.pc = "upload_commit" /\ new.file = f
          /\ objects' = objects \cup {f} /\ Listed' = Listed
       \/ /\ old.pc = "upload_commit"
          /\ new.pc # "upload_commit" /\ Stored(new) = {} /\ Removed(new) = {}
          /\ objects' = objects /\ Listed' = Listed \cup {f}
       \/ /\ old.pc = "upload_undo" /\ new = Finished
          /\ objects' = objects \ {f} /\ Listed' = Listed
       \/ /\ new.pc \in {"delete_finish", "kb_erase"} /\ Stored(old) = {}
          /\ \E g \in Files : /\ Exists(g) /\ Removed(new) = Removed(old) \cup {g}
                              /\ objects' = objects \ {g}
          /\ Listed' = Listed
       \/ /\ Stored(old) = {} /\ new = Finished
          /\ objects' = objects /\ Listed' = Listed \ Removed(old)

\* What a request does to the objects and the rows, and what it then owes.
LEMMA RequestsChangeStores ==
    ASSUME TypeOK, Sessions, Stores, NEW r \in Requests,
           Faults \cap {"put", "erase", "request"} = {},
           RequestStarts(r) \/ RequestContinues(r) \/ EnqueueFails(r) \/ RequestDies(r)
    PROVE  \E new : req' = [req EXCEPT ![r] = new] /\ StoresChange(r, new)
<1> DEFINE old == req[r]
           f == old.file
           Goal == \E new : req' = [req EXCEPT ![r] = new] /\ StoresChange(r, new)
<1>1. old \in RequestRecord
  BY DEF TypeOK, RequestRecord
<1>2. /\ Finished.pc = "done" /\ Stored(Finished) = {} /\ Removed(Finished) = {}
  BY DEF Finished, Unstarted, Stored, Removed
<1>3. UNCHANGED row => Listed' = Listed
  BY DEF Listed, Live, Exists
<1> HIDE DEF old
\* The steps that only move between points where a request holds no object back.
<1>4. ASSUME NEW new, req' = [req EXCEPT ![r] = new],
             \/ old.pc \notin {"upload_commit", "upload_undo", "delete_finish", "kb_erase"}
             \/ Stored(old) = {} /\ Removed(old) = {},
             new.pc \notin {"upload_commit", "upload_undo", "delete_finish", "kb_erase"},
             UNCHANGED objects, Listed' = Listed
      PROVE  Goal
  <2>1. Stored(new) = {} /\ Removed(new) = {} /\ Stored(old) = {} /\ Removed(old) = {}
    BY <1>4 DEF Stored, Removed
  <2>2. StoresChange(r, new)
    BY <1>4, <2>1 DEF StoresChange, old
  <2>3. QED BY <1>4, <2>2
<1>5. ASSUME UploadAccept(r) \/ DeleteLoad(r) \/ ReprocessLoad(r) \/ KbUpdateLoad(r)
      PROVE  Goal
  <2>1. /\ old.pc = "start" /\ UNCHANGED objects /\ UNCHANGED row
        /\ \E new : /\ req' = [req EXCEPT ![r] = new]
                    /\ new.pc \in {"upload_store", "delete_mark", "reprocess_commit", "kb_update"}
    <3>1. CASE UploadAccept(r)
      <4>1. PICK g \in Files : req' = [req EXCEPT ![r] = [old EXCEPT !.pc = "upload_store", !.file = g]]
        BY <3>1 DEF UploadAccept, Becomes, old
      <4>2. [old EXCEPT !.pc = "upload_store", !.file = g].pc = "upload_store"
        BY <1>1 DEF RequestRecord
      <4>3. QED BY <3>1, <4>1, <4>2 DEF UploadAccept, Starts, old
    <3>2. CASE DeleteLoad(r)
      <4>1. PICK g \in Files : req' = [req EXCEPT ![r] =
                                  [old EXCEPT !.pc = "delete_mark", !.file = g, !.seen = row[g]]]
        BY <3>2 DEF DeleteLoad, Becomes, old
      <4>2. [old EXCEPT !.pc = "delete_mark", !.file = g, !.seen = row[g]].pc = "delete_mark"
        BY <1>1 DEF RequestRecord
      <4>3. QED BY <3>2, <4>1, <4>2 DEF DeleteLoad, Starts, old
    <3>3. CASE ReprocessLoad(r)
      <4>1. PICK g \in Files : req' = [req EXCEPT ![r] =
                                  [old EXCEPT !.pc = "reprocess_commit", !.file = g, !.seen = row[g]]]
        BY <3>3 DEF ReprocessLoad, Becomes, old
      <4>2. [old EXCEPT !.pc = "reprocess_commit", !.file = g, !.seen = row[g]].pc = "reprocess_commit"
        BY <1>1 DEF RequestRecord
      <4>3. QED BY <3>3, <4>1, <4>2 DEF ReprocessLoad, Starts, old
    <3>4. CASE KbUpdateLoad(r)
      <4>1. PICK status \in {"active", "inactive"} : req' = [req EXCEPT ![r] =
                                  [old EXCEPT !.pc = "kb_update", !.kbSeen = kb, !.kbNew = status]]
        BY <3>4 DEF KbUpdateLoad, Becomes, old
      <4>2. [old EXCEPT !.pc = "kb_update", !.kbSeen = kb, !.kbNew = status].pc = "kb_update"
        BY <1>1 DEF RequestRecord
      <4>3. QED BY <3>4, <4>1, <4>2 DEF KbUpdateLoad, Starts, old
    <3>5. QED BY <1>5, <3>1, <3>2, <3>3, <3>4
  <2>2. QED BY <1>3, <1>4, <2>1
<1>6. ASSUME Enqueue(r) \/ EnqueueFails(r) \/ KbUpdateCommit(r)
      PROVE  Goal
  <2>1. /\ old.pc \in {"upload_enqueue", "reprocess_enqueue", "kb_update"}
        /\ UNCHANGED objects /\ UNCHANGED row /\ req' = [req EXCEPT ![r] = Finished]
    BY <1>6 DEF Enqueue, EnqueueFails, KbUpdateCommit, Finish, Becomes, old
  <2>2. QED BY <1>2, <1>3, <1>4, <2>1
<1>7. ASSUME KbDeleteLoad(r) PROVE Goal
  <2> DEFINE live == {g \in Files : Live(g)}
             new == [old EXCEPT !.pc = "kb_erase", !.files = live, !.todo = live]
  <2>1. /\ old.pc = "start" /\ UNCHANGED objects /\ UNCHANGED row
        /\ req' = [req EXCEPT ![r] = new]
    BY <1>7 DEF KbDeleteLoad, Becomes, Starts, old
  <2>2. new.pc = "kb_erase" /\ new.files = live /\ new.todo = live
    BY <1>1 DEF RequestRecord
  <2> HIDE DEF new
  <2>3. Stored(new) = {} /\ Removed(new) = {} /\ Stored(old) = {} /\ Removed(old) = {}
    BY <2>1, <2>2 DEF Stored, Removed
  <2>4. StoresChange(r, new)
    BY <1>3, <2>1, <2>2, <2>3 DEF StoresChange, old
  <2>5. QED BY <2>1, <2>4
<1>8. ASSUME UploadStore(r) PROVE Goal
  <2>1. old.pc = "upload_store" /\ UNCHANGED row /\ "put" \notin Faults
    BY <1>8 DEF UploadStore, old
  <2>2. CASE Finish(r) /\ UNCHANGED objects
    BY <1>2, <1>3, <1>4, <2>1, <2>2 DEF Finish, Becomes
  <2>3. CASE Goto(r, "upload_commit") /\ objects' = objects \cup {f}
    <3> DEFINE new == [old EXCEPT !.pc = "upload_commit"]
    <3>1. new.pc = "upload_commit" /\ new.file = f
      BY <1>1 DEF RequestRecord
    <3>2. req' = [req EXCEPT ![r] = new]
      BY <2>3 DEF Goto, old
    <3> HIDE DEF new
    <3>3. StoresChange(r, new)
      BY <1>3, <2>1, <2>3, <3>1 DEF StoresChange, old
    <3>4. QED BY <3>2, <3>3
  <2>4. QED BY <1>8, <2>1, <2>2, <2>3 DEF UploadStore, old
<1>9. ASSUME UploadCommit(r) PROVE Goal
  <2>1. old.pc = "upload_commit" /\ UNCHANGED objects /\ f \in Files
    BY <1>9 DEF UploadCommit, Sessions, UploadsFresh, old
  <2>2. CASE Goto(r, "upload_undo") /\ UNCHANGED row
    <3> DEFINE new == [old EXCEPT !.pc = "upload_undo"]
    <3>1. new.pc = "upload_undo" /\ new.file = f
      BY <1>1 DEF RequestRecord
    <3>2. req' = [req EXCEPT ![r] = new]
      BY <2>2 DEF Goto, old
    <3> HIDE DEF new
    <3>3. Stored(new) = Stored(old) /\ Removed(new) = Removed(old)
      BY <2>1, <3>1 DEF Stored, Removed
    <3>4. StoresChange(r, new)
      BY <1>3, <2>1, <2>2, <3>1, <3>3 DEF StoresChange, old
    <3>5. QED BY <3>2, <3>4
  <2>3. CASE /\ row' = [row EXCEPT ![f] = Inserted]
             /\ Becomes(r, [old EXCEPT !.pc = "upload_enqueue", !.seen = Inserted])
    <3> DEFINE new == [old EXCEPT !.pc = "upload_enqueue", !.seen = Inserted]
    <3>1. new.pc = "upload_enqueue"
      BY <1>1 DEF RequestRecord
    <3>2. req' = [req EXCEPT ![r] = new]
      BY <2>3 DEF Becomes
    <3> HIDE DEF new
    <3>3. Stored(new) = {} /\ Removed(new) = {}
      BY <3>1 DEF Stored, Removed
    <3>4. Inserted.status = "pending" /\ ~Inserted.deleted
      BY DEF Inserted, Absent
    <3>5. \A g \in Files : Live(g)' <=> Live(g) \/ g = f
      BY <2>1, <2>3, <3>4 DEF Live, Exists, TypeOK
    <3>6. Listed' = Listed \cup {f}
      BY <2>1, <3>5 DEF Listed
    <3>7. StoresChange(r, new)
      BY <2>1, <3>1, <3>3, <3>6 DEF StoresChange, old
    <3>8. QED BY <3>2, <3>7
  <2>4. QED BY <1>9, <2>2, <2>3 DEF UploadCommit, old
<1>10. ASSUME UploadUndo(r) PROVE Goal
  <2>1. /\ old.pc = "upload_undo" /\ UNCHANGED row /\ objects' = objects \ {f}
        /\ req' = [req EXCEPT ![r] = Finished]
    BY <1>10 DEF UploadUndo, Erased, Finish, Becomes, old
  <2>2. StoresChange(r, Finished)
    BY <1>2, <1>3, <2>1 DEF StoresChange, old
  <2>3. QED BY <2>1, <2>2
<1>11. ASSUME DeleteMark(r) \/ ReprocessCommit(r) PROVE Goal
  <2> DEFINE loaded == old.seen
             marked == [loaded EXCEPT !.status = "deleting"]
             again == [loaded EXCEPT !.version = @ + 1, !.status = "pending", !.error = "none"]
  <2>1. /\ old.pc \in {"delete_mark", "reprocess_commit"} /\ UNCHANGED objects
        /\ f \in Files /\ Exists(f) /\ loaded \in Row
        /\ old.pc = "reprocess_commit" => loaded.version < MaxVersion
    <3>1. old.pc \in {"delete_mark", "reprocess_commit"} /\ UNCHANGED objects
      BY <1>11 DEF DeleteMark, ReprocessCommit, old
    <3>2. loaded \in Row
      BY <1>1 DEF RequestRecord
    <3>3. QED BY <3>1, <3>2 DEF Sessions, RequestsHold, old
  <2>2. CASE DeleteMark(r)
    <3>1. marked \in Row /\ marked.status = "deleting" /\ marked.deleted = loaded.deleted
      BY <2>1 DEF Row, Statuses
    <3>2. /\ row' = [row EXCEPT ![f] = Flush(@, loaded, marked)]
          /\ req' = [req EXCEPT ![r] = [old EXCEPT !.pc = "delete_erase", !.seen = marked]]
      BY <2>2 DEF DeleteMark, Commit, Becomes, old
    <3> HIDE DEF marked, loaded
    <3>3. Listed' = Listed
      <4>1. marked.status # "absent"
        BY <3>1
      <4>2. QED BY <2>1, <3>1, <3>2, <4>1, FlushKeepsListed
    <3>4. [old EXCEPT !.pc = "delete_erase", !.seen = marked].pc = "delete_erase"
      BY <1>1 DEF RequestRecord
    <3>5. QED BY <1>4, <2>1, <3>2, <3>3, <3>4
  <2>3. CASE Commit(r, again, "reprocess_enqueue") /\ old.pc = "reprocess_commit"
    <3>1. again \in Row /\ again.status = "pending" /\ again.deleted = loaded.deleted
      <4>1. loaded.version + 1 \in Versions
        BY <2>1, <2>3, IngestionAssumption DEF Row, Versions
      <4>2. QED BY <2>1, <4>1 DEF Row, Statuses
    <3>2. /\ row' = [row EXCEPT ![f] = Flush(@, loaded, again)]
          /\ req' = [req EXCEPT ![r] = [old EXCEPT !.pc = "reprocess_enqueue", !.seen = again]]
      BY <2>3 DEF Commit, Becomes, old
    <3> HIDE DEF again, loaded
    <3>3. Listed' = Listed
      <4>1. again.status # "absent"
        BY <3>1
      <4>2. QED BY <2>1, <3>1, <3>2, <4>1, FlushKeepsListed
    <3>4. [old EXCEPT !.pc = "reprocess_enqueue", !.seen = again].pc = "reprocess_enqueue"
      BY <1>1 DEF RequestRecord
    <3>5. QED BY <1>4, <2>1, <3>2, <3>3, <3>4
  <2>4. CASE Finish(r) /\ UNCHANGED row
    BY <1>2, <1>3, <1>4, <2>1, <2>4 DEF Finish, Becomes
  <2>5. ReprocessCommit(r) => \/ Commit(r, again, "reprocess_enqueue") /\ old.pc = "reprocess_commit"
                              \/ Finish(r) /\ UNCHANGED row
    BY DEF ReprocessCommit, old
  <2>6. QED BY <1>11, <2>2, <2>3, <2>4, <2>5
<1>12. ASSUME DeleteErase(r) PROVE Goal
  <2> DEFINE new == [old EXCEPT !.pc = "delete_finish"]
  <2>1. /\ old.pc = "delete_erase" /\ UNCHANGED row /\ objects' = objects \ {f}
        /\ req' = [req EXCEPT ![r] = new]
    BY <1>12 DEF DeleteErase, Goto, old
  <2>2. f \in Files /\ Exists(f)
    BY <2>1 DEF Sessions, RequestsHold, old
  <2>3. new.pc = "delete_finish" /\ new.file = f
    BY <1>1 DEF RequestRecord
  <2> HIDE DEF new
  <2>4. Stored(old) = {} /\ Removed(new) = Removed(old) \cup {f}
    BY <2>1, <2>3 DEF Stored, Removed
  <2>5. StoresChange(r, new)
    BY <1>3, <2>1, <2>2, <2>3, <2>4 DEF StoresChange, old
  <2>6. QED BY <2>1, <2>5
<1>13. ASSUME KbErase(r) PROVE Goal
  <2>1. PICK g \in old.todo : /\ objects' = objects \ {g}
                              /\ Becomes(r, [old EXCEPT !.todo = @ \ {g}])
    BY <1>13 DEF KbErase, old
  <2> DEFINE new == [old EXCEPT !.todo = @ \ {g}]
  <2>2. old.pc = "kb_erase" /\ UNCHANGED row /\ req' = [req EXCEPT ![r] = new]
    BY <1>13, <2>1 DEF KbErase, Becomes, old
  <2>3. new.pc = "kb_erase" /\ new.files = old.files /\ new.todo = old.todo \ {g}
    BY <1>1, <2>2 DEF RequestRecord
  <2>4. old.todo \subseteq old.files
    BY <2>2 DEF Stores, old
  <2> HIDE DEF new
  <2>5. g \in Files /\ Exists(g)
    BY <1>1, <2>1, <2>4 DEF Sessions, RequestsHold, RequestRecord, old
  <2>6. Stored(old) = {} /\ Removed(new) = Removed(old) \cup {g}
    BY <2>1, <2>2, <2>3, <2>4 DEF Stored, Removed
  <2>7. StoresChange(r, new)
    BY <1>3, <2>1, <2>2, <2>3, <2>4, <2>5, <2>6 DEF StoresChange, old
  <2>8. QED BY <2>2, <2>7
<1>14. ASSUME DeleteFinish(r) PROVE Goal
  <2> DEFINE loaded == old.seen
             dirty == [loaded EXCEPT !.status = "deleted", !.deleted = TRUE]
             new == Flush(row[f], loaded, dirty)
  <2>1. /\ old.pc = "delete_finish" /\ UNCHANGED objects
        /\ row' = [row EXCEPT ![f] = new] /\ req' = [req EXCEPT ![r] = Finished]
    BY <1>14 DEF DeleteFinish, Finish, Becomes, old
  <2>2. /\ f \in Files /\ Exists(f) /\ row[f] \in Row
        /\ loaded.deleted => row[f].deleted
    BY <2>1 DEF Sessions, RequestsHold, TypeOK, old
  <2>3. loaded \in Row
    BY <1>1 DEF RequestRecord
  <2>4. dirty \in Row /\ dirty.deleted = TRUE
    BY <2>3 DEF Row, Statuses
  <2>5. new.deleted
    <3> HIDE DEF dirty, loaded, f
    <3>1. row[f] \in Row /\ dirty \in Row
      BY <2>2, <2>4
    <3>2. loaded.deleted \in BOOLEAN /\ dirty.deleted = TRUE
      BY <2>3, <2>4 DEF Row
    <3>3. new.deleted = IF dirty.deleted = loaded.deleted THEN row[f].deleted ELSE dirty.deleted
      BY <2>3, <3>1, FlushedRow
    <3>4. QED BY <2>2, <3>2, <3>3
  <2> HIDE DEF new
  <2>6. Listed' = Listed \ {f}
    <3>1. \A g \in Files : Live(g)' <=> Live(g) /\ g # f
      BY <2>1, <2>2, <2>5 DEF Live, Exists, TypeOK
    <3>2. QED BY <3>1 DEF Listed
  <2>7. Stored(old) = {} /\ Removed(old) = {f}
    BY <2>1 DEF Stored, Removed
  <2>8. StoresChange(r, Finished)
    BY <1>2, <2>1, <2>6, <2>7 DEF StoresChange, old
  <2>9. QED BY <2>1, <2>8
<1>15. ASSUME KbDeleteCommit(r) PROVE Goal
  <2>1. /\ old.pc = "kb_erase" /\ old.todo = {} /\ UNCHANGED objects
        /\ req' = [req EXCEPT ![r] = Finished]
        /\ row' = [g \in Files |-> IF g \in old.files
                                  THEN [row[g] EXCEPT !.status = "deleted", !.deleted = TRUE]
                                  ELSE row[g]]
    BY <1>15 DEF KbDeleteCommit, Finish, Becomes, old
  <2>2. Stored(old) = {} /\ Removed(old) = old.files
    BY <2>1 DEF Stored, Removed
  <2>3. ASSUME NEW g \in Files PROVE Live(g)' <=> Live(g) /\ g \notin old.files
    <3> DEFINE new == [row[g] EXCEPT !.status = "deleted", !.deleted = TRUE]
    <3>1. new.deleted
      BY DEF TypeOK, Row
    <3>2. row'[g] = IF g \in old.files THEN new ELSE row[g]
      BY <2>1
    <3> HIDE DEF new
    <3>3. QED BY <3>1, <3>2 DEF Live, Exists
  <2>4. Listed' = Listed \ old.files
    BY <2>3 DEF Listed
  <2>5. StoresChange(r, Finished)
    BY <1>2, <2>1, <2>2, <2>4 DEF StoresChange, old
  <2>6. QED BY <2>1, <2>5
<1>16. QED
  BY <1>5, <1>6, <1>7, <1>8, <1>9, <1>10, <1>11, <1>12, <1>13, <1>14, <1>15
  DEF RequestStarts, RequestContinues, RequestDies

\* Nobody undoes what another one owes the stores.
LEMMA StoresPreserved ==
    ASSUME TypeOK, Sessions, Stores, [Next]_vars,
           Faults \cap {"put", "erase", "request"} = {}
    PROVE  Stores'
<1>1. ASSUME UNCHANGED req, UNCHANGED objects, Listed' = Listed
      PROVE  Stores'
  BY <1>1 DEF Stores
<1>2. ASSUME NEW r \in Requests, NEW new, req' = [req EXCEPT ![r] = new], StoresChange(r, new)
      PROVE  Stores'
  <2> DEFINE old == req[r]
             f == old.file
  <2>1. req'[r] = new /\ \A q \in Requests : q # r => req'[q] = req[q]
    BY <1>2 DEF TypeOK
  <2>2. Finished.pc = "done" /\ Stored(Finished) = {} /\ Removed(Finished) = {}
    BY DEF Finished, Unstarted, Stored, Removed
  \* A file that an upload is about to insert is none of another request's.
  <2>3. \A q \in Requests : req[q].pc = "upload_commit" =>
          /\ Stored(req[q]) = {req[q].file}
          /\ ~Exists(req[q].file)
          /\ \A p \in Requests : p # q => req[p].file # req[q].file
    BY DEF Sessions, UploadsFresh, Stored, Exists, Absent
  <2>4. \A q \in Requests : \A g \in Removed(req[q]) : Exists(g)
    BY DEF Sessions, RequestsHold, Removed
  <2>5. \A q \in Requests : Stored(req[q]) \subseteq {req[q].file}
    BY DEF Stored
  <2>6. \A q \in Requests : req'[q].pc = "kb_erase" => req'[q].todo \subseteq req'[q].files
    BY <1>2, <2>1 DEF Stores, StoresChange
  <2> HIDE DEF old, f
  <2>7. CASE /\ Stored(new) = Stored(old) /\ Removed(new) = Removed(old)
             /\ new.pc = "upload_commit" => old.pc = "upload_commit" /\ new.file = f
             /\ objects' = objects /\ Listed' = Listed
    BY <2>1, <2>6, <2>7 DEF Stores, old, f
  <2>8. CASE /\ old.pc = "upload_store" /\ new.pc = "upload_commit" /\ new.file = f
             /\ objects' = objects \cup {f} /\ Listed' = Listed
    <3>1. row[f] = Absent /\ ~Exists(f)
      BY <2>8 DEF Sessions, UploadsFresh, Exists, Absent, old, f
    <3>2. Stored(new) = {f} /\ Removed(new) = {} /\ Stored(old) = {} /\ Removed(old) = {}
      BY <2>8 DEF Stored, Removed
    <3>3. f \notin Listed
      BY <3>1 DEF Listed, Live
    <3>4. QED BY <2>1, <2>4, <2>6, <2>8, <3>1, <3>2, <3>3 DEF Stores, old, f
  <2>9. CASE /\ old.pc = "upload_commit"
             /\ new.pc # "upload_commit" /\ Stored(new) = {} /\ Removed(new) = {}
             /\ objects' = objects /\ Listed' = Listed \cup {f}
    <3>1. Removed(old) = {} /\ Stored(old) = {f}
      BY <2>9 DEF Removed, Stored, f
    <3>2. f \in objects /\ \A q \in Requests : q # r => f \notin Stored(req[q])
      BY <2>3, <2>5, <2>9 DEF Stores, old, f
    <3>3. QED BY <2>1, <2>6, <2>9, <3>1, <3>2 DEF Stores, old
  <2>10. CASE /\ old.pc = "upload_undo" /\ new = Finished
              /\ objects' = objects \ {f} /\ Listed' = Listed
    <3>1. Removed(old) = {} /\ Stored(old) = {f}
      BY <2>10 DEF Removed, Stored, f
    <3>2. f \notin Listed /\ \A q \in Requests : req[q].pc = "upload_commit" => req[q].file # f
      BY <2>3, <2>10, <3>1 DEF Stores, old, f
    <3>3. QED BY <2>1, <2>2, <2>6, <2>10, <3>1, <3>2 DEF Stores, old
  <2>11. CASE /\ new.pc \in {"delete_finish", "kb_erase"} /\ Stored(old) = {}
              /\ \E g \in Files : /\ Exists(g) /\ Removed(new) = Removed(old) \cup {g}
                                  /\ objects' = objects \ {g}
              /\ Listed' = Listed
    <3>1. PICK g \in Files : /\ Exists(g) /\ Removed(new) = Removed(old) \cup {g}
                             /\ objects' = objects \ {g}
      BY <2>11
    <3>2. Stored(new) = {} /\ new.pc # "upload_commit"
      BY <2>11 DEF Stored
    <3>3. QED BY <2>1, <2>3, <2>6, <2>11, <3>1, <3>2 DEF Stores, old
  <2>12. CASE /\ Stored(old) = {} /\ new = Finished
              /\ objects' = objects /\ Listed' = Listed \ Removed(old)
    BY <2>1, <2>2, <2>6, <2>12 DEF Stores, old
  <2>13. QED BY <1>2, <2>7, <2>8, <2>9, <2>10, <2>11, <2>12 DEF StoresChange, old, f
<1>3. ASSUME NEW w \in Workers, WorkerContinues(w) \/ Interrupt(w) \/ Crash(w)
      PROVE  Stores'
  <2>1. UNCHANGED req /\ UNCHANGED objects
    BY <1>3 DEF WorkerContinues, Receive, Begin, Prepare, Activate, NoteLoad, NoteCommit,
                Settle,
                Interrupt, Crash
  <2>2. QED BY <1>1, <1>3, <2>1, WorkersKeepListed
<1>4. CASE UNCHANGED vars
  BY <1>1, <1>4 DEF vars, Listed, Live, Exists
<1>5. QED
  BY <1>2, <1>3, <1>4, RequestsChangeStores DEF Next, Rest

\* Between requests the live files are those whose object is in MinIO, if MinIO
\* answers and no request dies: whatever uploads, deletions, deletions of the
\* whole knowledge base and workers interleave, and with a database that refuses
\* commits, no object is left without a row and no live row without its object.
THEOREM StoresDoAgree ==
    ASSUME Faults \cap {"put", "erase", "request"} = {}
    PROVE  Spec => []StoresAgree
<1>1. Init => Stores
  <2>1. /\ Absent.status = "absent" /\ Unstarted.pc = "start"
    BY DEF Absent, Unstarted
  <2>2. ASSUME Init PROVE Stores
    <3>1. Listed = {} /\ objects = {}
      BY <2>1, <2>2 DEF Init, Listed, Live, Exists
    <3>2. \A r \in Requests : req[r].pc = "start"
      BY <2>1, <2>2 DEF Init
    <3>3. QED BY <3>1, <3>2 DEF Stores
  <2>3. QED BY <2>2
<1>2. Stores /\ TypeOK /\ Sessions /\ [Next]_vars => Stores'
  BY StoresPreserved
<1>3. Stores => StoresAgree
  <2>1. ASSUME Stores, \A r \in Requests : req[r].pc \in {"start", "done"}
        PROVE  Listed = objects
    <3>1. \A r \in Requests : Stored(req[r]) = {} /\ Removed(req[r]) = {}
      BY <2>1 DEF Stored, Removed
    <3>2. QED BY <2>1, <3>1 DEF Stores
  <2>2. QED BY <2>1 DEF StoresAgree, Listed
<1>4. QED BY <1>1, <1>2, <1>3, SessionsCorrect, PTL DEF Spec

-----------------------------------------------------------------------------
(* Messages.  A file that is busy has its generation in Redis, in a request *)
(* about to send it, or in the hands of the worker; and the worker, before  *)
(* it lets go of its message, has settled the file or knows it superseded.  *)

\* Redis has, or a request is about to send, a message of f's generation.
Sent(f) == \E m \in Message : m.file = f /\ m.version = row[f].version /\ queue[m] > 0
Sending(f) == \E r \in Requests : /\ req[r].pc \in {"upload_enqueue", "reprocess_enqueue"}
                                  /\ req[r].file = f /\ req[r].seen.version = row[f].version
Awaited(f) == Sent(f) \/ Sending(f)

Holder(f) == \E w \in Workers : /\ wrk[w].pc # "idle"
                                /\ Target(w) = f /\ wrk[w].msg.version = row[f].version

BusyFilesCarried == \A f \in Files : Busy(f) => Awaited(f) \/ Holder(f)

\* A message that is no longer of its file's generation has been superseded by
\* one that still waits.
SupersededAwaited ==
    \A w \in Workers :
        /\ wrk[w].pc # "idle" /\ Live(Target(w))
        /\ row[Target(w)].version # wrk[w].msg.version
        => Awaited(Target(w))

\* What a worker that is about to let go of its message must not leave busy; it
\* is the same for a note that will leave the status as it is.
Leaving(x) ==
    \/ x.pc = "noted" /\ x.note \in {"none", "code"}
    \/ x.pc = "note_commit" /\ x.seen.status \notin {"pending", "processing"}

LeftFilesAwaited ==
    \A w \in Workers : Leaving(wrk[w]) => (Busy(Target(w)) => Awaited(Target(w)))

\* A worker's session up to its last commit, and the note that goes with its pc.
Current(x) ==
    /\ x.pc \in {"begin", "work", "store"} => x.seen.version = x.msg.version
    /\ x.pc \in {"work", "store"} => x.seen.status = "processing"
    /\ x.pc \in {"note", "note_commit"} => x.note \in {"RETRY_PENDING", "code"}

SessionsCurrent == \A w \in Workers : Current(wrk[w])

Carrying == BusyFilesCarried /\ SupersededAwaited /\ LeftFilesAwaited /\ SessionsCurrent

\* What a flush makes of the status and of the generation of a row.
LEMMA FlushEffects ==
    ASSUME TypeOK, NEW f \in Files, NEW loaded \in Row, NEW dirty \in Row,
           row'[f] = Flush(row[f], loaded, dirty)
    PROVE  /\ row'[f].status = IF dirty.status = loaded.status
                               THEN row[f].status ELSE dirty.status
           /\ row'[f].version = IF dirty.version = loaded.version
                                THEN row[f].version ELSE dirty.version
<1>1. row[f] \in Row
  BY DEF TypeOK
<1>2. QED BY <1>1, FlushedRow

\* No step brings a removed file back.
LEMMA LiveBefore ==
    ASSUME TypeOK, Sessions, RowStep, NEW f \in Files, Exists(f), Live(f)'
    PROVE  Live(f)
BY RowStepKeeps DEF Live

\* A message that waits, or that a request is about to send, is still there
\* after a step of a request that does not send.
LEMMA AwaitedKept ==
    ASSUME TypeOK, NEW r \in Requests, NEW new, req' = [req EXCEPT ![r] = new],
           req[r].pc \notin {"upload_enqueue", "reprocess_enqueue"},
           UNCHANGED queue,
           NEW f \in Files, row'[f].version = row[f].version, Awaited(f)
    PROVE  Awaited(f)'
<1>1. Sent(f) => Sent(f)'
  BY DEF Sent
<1>2. Sending(f) => Sending(f)'
  <2>1. \A q \in Requests : q # r => req'[q] = req[q]
    BY DEF TypeOK
  <2>2. QED BY <2>1 DEF Sending
<1>3. QED BY <1>1, <1>2 DEF Awaited

\* For every file, a step of a request keeps its message waiting, and neither
\* makes it busy nor changes its generation; or the request will send for it.
RequestSteady(f) ==
    \/ Awaited(f)'
    \/ /\ row'[f].version = row[f].version
       /\ Busy(f)' => Busy(f)
       /\ Live(f)' => Live(f)
       /\ ~Awaited(f)

\* No request takes a message away, and one that makes a file busy awaits it.
LEMMA RequestsSteady ==
    ASSUME TypeOK, Sessions, Next, NEW r \in Requests,
           Faults \cap {"enqueue", "request"} = {},
           RequestStarts(r) \/ RequestContinues(r) \/ EnqueueFails(r) \/ RequestDies(r),
           NEW g \in Files
    PROVE  RequestSteady(g)
<1> DEFINE old == req[r]
           f == old.file
<1>1. old \in RequestRecord /\ row[g] \in Row
  BY DEF TypeOK, RequestRecord
<1>2. PICK new : req' = [req EXCEPT ![r] = new] /\ Outcome(r, new)
  BY RequestOutcome
<1>3. req'[r] = new
  BY <1>2 DEF TypeOK
<1>4. RowStep
  BY NextIsRowStep
<1> HIDE DEF old
<1>5. ASSUME old.pc \notin {"upload_enqueue", "reprocess_enqueue"}, UNCHANGED queue,
             row'[g].version = row[g].version,
             row'[g].status = row[g].status \/ row'[g].status \notin {"pending", "processing"},
             Exists(g) \/ row'[g] = row[g]
      PROVE  RequestSteady(g)
  <2>1. Awaited(g) => Awaited(g)'
    BY <1>2, <1>5, AwaitedKept DEF old
  <2>2. Live(g)' => Live(g)
    <3>1. CASE row'[g] = row[g]
      BY <3>1 DEF Live, Exists
    <3>2. CASE Exists(g)
      BY <1>4, <3>2, LiveBefore
    <3>3. QED BY <1>5, <3>1, <3>2
  <2>3. Busy(g)' => Busy(g)
    BY <1>5, <2>2 DEF Busy
  <2>4. QED BY <1>5, <2>1, <2>2, <2>3 DEF RequestSteady
<1>6. ASSUME old.pc \notin {"upload_enqueue", "reprocess_enqueue"}, UNCHANGED <<queue, row>>
      PROVE  RequestSteady(g)
  BY <1>5, <1>6
<1>7. ASSUME \/ RequestStarts(r) \/ UploadStore(r) \/ UploadUndo(r) \/ DeleteErase(r)
             \/ KbUpdateCommit(r) \/ KbErase(r)
      PROVE  RequestSteady(g)
  BY <1>6, <1>7 DEF RequestStarts, Starts, UploadAccept, DeleteLoad, ReprocessLoad,
                    KbUpdateLoad,
     KbDeleteLoad, UploadStore, UploadUndo, DeleteErase, KbUpdateCommit, KbErase, old
<1>8. ASSUME Enqueue(r) PROVE RequestSteady(g)
  <2> DEFINE m == [file |-> f, version |-> old.seen.version, retries |-> 0]
  <2>1. /\ old.pc \in {"upload_enqueue", "reprocess_enqueue"} /\ UNCHANGED row
        /\ queue' = [queue EXCEPT ![m] = @ + 1]
    BY <1>8 DEF Enqueue, Send, old
  <2>2. f \in Files /\ old.seen.version \in Versions
    BY <1>1, <2>1 DEF Sessions, RequestsHold, RequestRecord, Row, old
  <2>3. m \in Message /\ m.file = f /\ m.version = old.seen.version
    BY <2>2, IngestionAssumption DEF Message
  <2> HIDE DEF m
  <2>4. queue'[m] > 0 /\ \A k \in Message : queue[k] > 0 => queue'[k] > 0
    BY <2>1, <2>3 DEF TypeOK
  <2>5. Sent(g) => Sent(g)'
    BY <2>1, <2>4 DEF Sent
  <2>6. Sending(g) => Awaited(g)'
    <3>1. PICK q \in Requests : /\ req[q].pc \in {"upload_enqueue", "reprocess_enqueue"}
                                /\ req[q].file = g /\ req[q].seen.version = row[g].version
                      \/ ~Sending(g)
      BY DEF Sending
    <3>2. CASE q = r
      BY <2>1, <2>3, <2>4, <3>1, <3>2 DEF Sent, Awaited, old
    <3>3. CASE q # r
      <4>1. req'[q] = req[q]
        BY <1>2, <3>3 DEF TypeOK
      <4>2. QED BY <2>1, <3>1, <4>1 DEF Sending, Awaited
    <3>4. QED BY <3>2, <3>3
  <2>7. QED BY <2>1, <2>5, <2>6 DEF RequestSteady, Awaited, Busy, Live, Exists
<1>9. ASSUME UploadCommit(r) PROVE RequestSteady(g)
  <2>1. old.pc = "upload_commit" /\ UNCHANGED queue
    BY <1>9 DEF UploadCommit, old
  <2>2. CASE UNCHANGED row
    BY <1>6, <2>1, <2>2
  <2>3. CASE /\ row' = [row EXCEPT ![f] = Inserted]
             /\ Becomes(r, [old EXCEPT !.pc = "upload_enqueue", !.seen = Inserted])
    <3>1. CASE g = f
      <4>1. row'[g] = Inserted
        BY <2>3, <3>1 DEF TypeOK
      <4>2. req' = [req EXCEPT ![r] = [old EXCEPT !.pc = "upload_enqueue", !.seen = Inserted]]
        BY <2>3 DEF Becomes
      <4>3. /\ req'[r].pc = "upload_enqueue" /\ req'[r].file = g
            /\ req'[r].seen = Inserted
        BY <1>1, <3>1, <4>2 DEF TypeOK, RequestRecord
      <4>4. QED BY <4>1, <4>3 DEF RequestSteady, Awaited, Sending
    <3>2. CASE g # f
      <4>1. row'[g] = row[g]
        BY <2>3, <3>2 DEF TypeOK
      <4>2. QED BY <1>5, <2>1, <4>1
    <3>3. QED BY <3>1, <3>2
  <2>4. QED BY <1>9, <2>2, <2>3 DEF UploadCommit, old
<1>10. ASSUME DeleteMark(r) \/ DeleteFinish(r) PROVE RequestSteady(g)
  <2> DEFINE loaded == old.seen
             marked == [loaded EXCEPT !.status = "deleting"]
             removed == [loaded EXCEPT !.status = "deleted", !.deleted = TRUE]
  <2>1. old.pc \in {"delete_mark", "delete_finish"} /\ UNCHANGED queue
    BY <1>10 DEF DeleteMark, DeleteFinish, old
  <2>2. f \in Files /\ Exists(f) /\ loaded \in Row
    BY <1>1, <2>1 DEF Sessions, RequestsHold, RequestRecord, old
  <2>3. /\ marked \in Row /\ marked.status = "deleting" /\ marked.version = loaded.version
        /\ removed \in Row /\ removed.status = "deleted" /\ removed.version = loaded.version
    BY <2>2 DEF Row, Statuses
  <2>4. /\ \E dirty \in {marked, removed} : row'[f] = Flush(row[f], loaded, dirty)
        /\ \A h \in Files : h # f => row'[h] = row[h]
    BY <1>10, <2>2 DEF DeleteMark, DeleteFinish, Commit, TypeOK, old
  <2> HIDE DEF marked, removed, loaded, f
  <2>5. PICK dirty \in Row : /\ row'[f] = Flush(row[f], loaded, dirty)
                             /\ dirty.status \in {"deleting", "deleted"}
                             /\ dirty.version = loaded.version
    BY <2>3, <2>4
  <2>6. /\ row'[f].status = row[f].status \/ row'[f].status = dirty.status
        /\ row'[f].version = row[f].version
    BY <2>2, <2>5, FlushEffects
  <2>7. CASE g = f
    BY <1>5, <2>1, <2>2, <2>5, <2>6, <2>7
  <2>8. CASE g # f
    BY <1>5, <2>1, <2>4, <2>8
  <2>9. QED BY <2>7, <2>8
<1>11. ASSUME ReprocessCommit(r) PROVE RequestSteady(g)
  <2> DEFINE loaded == old.seen
             dirty == [loaded EXCEPT !.version = @ + 1, !.status = "pending", !.error = "none"]
  <2>1. old.pc = "reprocess_commit" /\ UNCHANGED queue
    BY <1>11 DEF ReprocessCommit, old
  <2>2. f \in Files /\ Exists(f) /\ loaded \in Row /\ loaded.version < MaxVersion
    BY <1>1, <2>1 DEF Sessions, RequestsHold, RequestRecord, old
  <2>3. CASE UNCHANGED row
    BY <1>6, <2>1, <2>3
  <2>4. CASE Commit(r, dirty, "reprocess_enqueue")
    <3>1. dirty \in Row /\ dirty.version # loaded.version
      <4>1. /\ loaded.version + 1 \in Versions
            /\ loaded.version # loaded.version + 1
        BY <2>2, IngestionAssumption DEF Row, Versions
      <4>2. dirty \in Row /\ dirty.version = loaded.version + 1
        BY <2>2, <4>1 DEF Row, Statuses
      <4>3. QED BY <4>1, <4>2
    <3>2. /\ row'[f] = Flush(row[f], loaded, dirty)
          /\ \A h \in Files : h # f => row'[h] = row[h]
          /\ req' = [req EXCEPT ![r] = [old EXCEPT !.pc = "reprocess_enqueue", !.seen = dirty]]
      BY <2>2, <2>4 DEF Commit, Becomes, TypeOK, old
    <3> HIDE DEF dirty, loaded
    <3>3. /\ req'[r].pc = "reprocess_enqueue" /\ req'[r].file = f
          /\ req'[r].seen = dirty
      BY <1>1, <3>2 DEF TypeOK, RequestRecord
    <3> HIDE DEF f
    <3>4. row'[f].version = dirty.version
      BY <2>2, <3>1, <3>2, FlushEffects
    <3>5. CASE g = f
      BY <3>3, <3>4, <3>5 DEF RequestSteady, Awaited, Sending
    <3>6. CASE g # f
      BY <1>5, <2>1, <3>2, <3>6
    <3>7. QED BY <3>5, <3>6
  <2>5. QED BY <1>11, <2>3, <2>4 DEF ReprocessCommit, old
<1>12. ASSUME KbDeleteCommit(r) PROVE RequestSteady(g)
  <2> DEFINE gone == [row[g] EXCEPT !.status = "deleted", !.deleted = TRUE]
  <2>1. /\ old.pc = "kb_erase" /\ UNCHANGED queue
        /\ row'[g] = IF g \in old.files THEN gone ELSE row[g]
    BY <1>12 DEF KbDeleteCommit, old
  <2>2. gone.status = "deleted" /\ gone.version = row[g].version
    BY <1>1 DEF Row
  <2>3. g \in old.files => Exists(g)
    BY DEF Sessions, RequestsHold, old
  <2> HIDE DEF gone
  <2>4. QED BY <1>5, <2>1, <2>2, <2>3
<1>13. QED
  BY <1>7, <1>8, <1>9, <1>10, <1>11, <1>12 DEF RequestContinues, EnqueueFails, RequestDies

\* What a worker does with the message it holds, apart from an interrupt: it
\* goes on with it, or lets go of it when its file f is settled, or is awaited.
WorkerChange(w, f, new) ==
    /\ wrk[w].pc # "idle" /\ Target(w) = f
    /\ wrk' = [wrk EXCEPT ![w] = new]
    /\ UNCHANGED req
    /\ \A m \in Message : queue[m] > 0 => queue'[m] > 0
    /\ \A g \in Files : g # f => row'[g] = row[g]
    /\ row'[f].version = row[f].version
    /\ Live(f)' => Live(f)
    /\ \/ new = Idle /\ (Busy(f)' => Awaited(f)')
       \/ /\ new.pc # "idle" /\ new.msg = wrk[w].msg
          /\ Current(new)
          /\ Leaving(new) => (Busy(f)' => Awaited(f)')

\* What a worker does to the file of its message, up to letting go of it.
LEMMA WorkersCarry ==
    ASSUME TypeOK, Sessions, Carrying, NEW w \in Workers, Next,
           WorkerContinues(w) \/ Crash(w), ~Receive(w),
           NEW f, f = Target(w)
    PROVE  \E new : WorkerChange(w, f, new)
<1> DEFINE old == wrk[w]
           v == old.msg.version
           loaded == old.seen
           Goal == \E new : WorkerChange(w, f, new)
<1>1. old \in WorkerRecord
  BY DEF TypeOK, WorkerRecord
<1>2. old.pc # "idle"
  BY DEF WorkerContinues, Crash, Begin, Prepare, Activate, NoteLoad, NoteCommit, Settle
<1>3. /\ old.msg \in Message /\ old.msg.file = f /\ f \in Files /\ v \in Versions
      /\ Exists(f) /\ ~loaded.deleted
  BY <1>2 DEF Sessions, WorkersHold, Message, Target
<1>4. loaded \in Row /\ row[f] \in Row
  BY <1>1, <1>3 DEF WorkerRecord, TypeOK
<1>5. Current(old)
  BY DEF Carrying, SessionsCurrent
<1>6. Live(f) /\ row[f].version # v => Awaited(f)
  BY <1>2 DEF Carrying, SupersededAwaited, Target
<1>7. Leaving(old) => (Busy(f) => Awaited(f))
  BY DEF Carrying, LeftFilesAwaited, Target
<1>8. UNCHANGED req
  BY DEF WorkerContinues, Crash, Begin, Prepare, Activate, NoteLoad, NoteCommit, Settle
<1>9. Live(f)' => Live(f)
  BY <1>3, NextIsRowStep, LiveBefore
<1>10. Idle.pc = "idle"
  BY DEF Idle
<1>11. ASSUME \A m \in Message : queue[m] > 0 => queue'[m] > 0,
              row'[f].version = row[f].version, Awaited(f)
       PROVE  Awaited(f)'
  BY <1>8, <1>11 DEF Awaited, Sent, Sending
<1> HIDE DEF old, v, loaded
\* The steps that change one worker and at most the row of its file.
<1>12. ASSUME NEW new, wrk' = [wrk EXCEPT ![w] = new],
              new.pc # "idle", new.msg = old.msg, Current(new),
              UNCHANGED queue,
              \A g \in Files : g # f => row'[g] = row[g],
              row'[f].version = row[f].version,
              Leaving(new) => (Busy(f)' => Awaited(f)')
       PROVE  Goal
  <2>1. WorkerChange(w, f, new)
    BY <1>2, <1>8, <1>9, <1>12 DEF WorkerChange, Target, old
  <2>2. QED BY <2>1
<1>13. CASE Begin(w)
  <2> DEFINE dirty == [loaded EXCEPT !.status = "processing"]
             new == [old EXCEPT !.pc = "work", !.seen = dirty]
  <2>1. /\ old.pc = "begin" /\ UNCHANGED queue
        /\ wrk' = [wrk EXCEPT ![w] = new]
        /\ row'[f] = Flush(row[f], loaded, dirty)
        /\ \A g \in Files : g # f => row'[g] = row[g]
    BY <1>3, <1>13 DEF Begin, WorkerCommit, Target, TypeOK, old, loaded
  <2>2. dirty \in Row /\ dirty.status = "processing" /\ dirty.version = loaded.version
    BY <1>4 DEF Row, Statuses
  <2>3. new.pc = "work" /\ new.seen = dirty /\ new.msg = old.msg
    BY <1>1 DEF WorkerRecord
  <2> HIDE DEF new, dirty
  <2>4. row'[f].version = row[f].version
    BY <1>3, <1>4, <2>1, <2>2, FlushEffects
  <2>5. Current(new) /\ ~Leaving(new)
    BY <1>5, <2>1, <2>2, <2>3 DEF Current, Leaving, loaded
  <2>6. QED BY <1>12, <2>1, <2>3, <2>4, <2>5
<1>14. CASE Prepare(w)
  <2> DEFINE store == [old EXCEPT !.pc = "store"]
             Note(note) == [old EXCEPT !.pc = "note", !.note = note]
  <2>1. /\ old.pc = "work" /\ UNCHANGED <<queue, row>>
        /\ \/ wrk' = [wrk EXCEPT ![w] = store]
           \/ \E note \in {"RETRY_PENDING", "code"} : wrk' = [wrk EXCEPT ![w] = Note(note)]
    BY <1>14 DEF Prepare, WorkerGoto, old
  <2>2. /\ store.pc = "store" /\ store.msg = old.msg /\ store.seen = loaded
        /\ \A note : Note(note).pc = "note" /\ Note(note).msg = old.msg /\ Note(note).note = note
    BY <1>1 DEF WorkerRecord, loaded
  <2> HIDE DEF store, Note
  <2>3. Current(store) /\ ~Leaving(store)
    BY <1>5, <2>1, <2>2 DEF Current, Leaving, loaded
  <2>4. \A note \in {"RETRY_PENDING", "code"} : Current(Note(note)) /\ ~Leaving(Note(note))
    BY <2>2 DEF Current, Leaving
  <2>5. QED BY <1>12, <2>1, <2>2, <2>3, <2>4
<1>15. CASE Activate(w)
  <2> DEFINE dirty == [loaded EXCEPT !.status = "ready", !.active = v, !.error = "none"]
             done == [old EXCEPT !.pc = "noted"]
             again == [old EXCEPT !.pc = "note", !.note = "RETRY_PENDING"]
  \* The session is not stale: the worker is alone to write its row's generation.
  <2>1. old.pc = "store" /\ loaded.version = v /\ loaded.status = "processing"
    BY <1>5, <1>15 DEF Activate, Current, old, v, loaded
  <2>2. /\ UNCHANGED queue
        /\ \/ /\ row'[f] = Flush(row[f], loaded, dirty)
              /\ \A g \in Files : g # f => row'[g] = row[g]
              /\ wrk' = [wrk EXCEPT ![w] = done]
           \/ UNCHANGED row /\ wrk' = [wrk EXCEPT ![w] = again]
    <3>1. ~(loaded.deleted \/ loaded.version # v) /\ Target(w) = f
      BY <1>3, <2>1
    <3>2. /\ UNCHANGED queue
          /\ \/ row' = [row EXCEPT ![f] = Flush(row[f], loaded, dirty)] /\ WorkerGoto(w, "noted")
             \/ UNCHANGED row /\ wrk' = [wrk EXCEPT ![w] = again]
      BY <1>15, <3>1 DEF Activate, Reselect, old, v, loaded
    <3> HIDE DEF dirty, again
    <3>3. QED BY <1>3, <3>2 DEF WorkerGoto, TypeOK, old
  <2>3. dirty \in Row /\ dirty.status = "ready" /\ dirty.version = loaded.version
    <3>1. v \in 0..MaxVersion
      BY <1>3 DEF Versions
    <3>2. QED BY <1>4, <3>1 DEF Row, Statuses
  <2>4. /\ done.pc = "noted" /\ done.msg = old.msg
        /\ again.pc = "note" /\ again.msg = old.msg /\ again.note = "RETRY_PENDING"
    BY <1>1 DEF WorkerRecord
  <2> HIDE DEF dirty, done, again
  <2>5. Current(done) /\ Current(again) /\ ~Leaving(again)
    BY <2>4 DEF Current, Leaving
  <2>6. CASE UNCHANGED row /\ wrk' = [wrk EXCEPT ![w] = again]
    BY <1>12, <2>2, <2>4, <2>5, <2>6
  <2>7. CASE /\ row'[f] = Flush(row[f], loaded, dirty)
             /\ \A g \in Files : g # f => row'[g] = row[g]
             /\ wrk' = [wrk EXCEPT ![w] = done]
    <3>1. row'[f].status = "ready" /\ row'[f].version = row[f].version
      BY <1>3, <1>4, <2>1, <2>3, <2>7, FlushEffects
    <3>2. ~Busy(f)'
      BY <3>1 DEF Busy
    <3>3. QED BY <1>12, <2>2, <2>4, <2>5, <2>7, <3>1, <3>2
  <2>8. QED BY <2>2, <2>6, <2>7
<1>16. CASE NoteLoad(w)
  <2> DEFINE new == [old EXCEPT !.pc = "note_commit", !.seen = row[f]]
             done == [old EXCEPT !.pc = "noted"]
  <2>1. /\ old.pc = "note" /\ UNCHANGED <<queue, row>>
        /\ IF Live(f) /\ row[f].version = v
           THEN wrk' = [wrk EXCEPT ![w] = new]
           ELSE wrk' = [wrk EXCEPT ![w] = done]
    BY <1>16 DEF NoteLoad, WorkerGoto, Target, old, v
  <2>2. /\ new.pc = "note_commit" /\ new.msg = old.msg /\ new.seen = row[f]
        /\ new.note = old.note
        /\ done.pc = "noted" /\ done.msg = old.msg
    BY <1>1 DEF WorkerRecord
  <2> HIDE DEF new, done
  <2>3. Current(new) /\ Current(done)
    BY <1>5, <2>1, <2>2 DEF Current
  <2>4. Awaited(f) => Awaited(f)'
    BY <1>11, <2>1
  <2>5. Busy(f)' => Busy(f)
    BY <2>1 DEF Busy, Live, Exists
  <2>6. CASE wrk' = [wrk EXCEPT ![w] = new]
    <3>1. Leaving(new) => ~Busy(f)
      BY <2>2 DEF Leaving, Busy
    <3>2. QED BY <1>12, <2>1, <2>2, <2>3, <2>5, <2>6, <3>1
  <2>7. CASE ~(Live(f) /\ row[f].version = v) /\ wrk' = [wrk EXCEPT ![w] = done]
    <3>1. Busy(f) => Awaited(f)
      BY <1>6, <2>7 DEF Busy
    <3>2. QED BY <1>12, <2>1, <2>2, <2>3, <2>4, <2>5, <2>7, <3>1
  <2>8. QED BY <2>1, <2>6, <2>7
<1>17. CASE NoteCommit(w)
  <2> DEFINE unserved == IF old.note = "code" THEN "failed" ELSE "pending"
             status == IF loaded.active > 0 THEN "ready" ELSE unserved
             dirty == [loaded EXCEPT !.status = status, !.error = old.note]
             new == [old EXCEPT !.pc = "noted", !.seen = dirty]
  <2>1. /\ old.pc = "note_commit" /\ UNCHANGED queue
        /\ wrk' = [wrk EXCEPT ![w] = new]
        /\ row'[f] = Flush(row[f], loaded, dirty)
        /\ \A g \in Files : g # f => row'[g] = row[g]
    BY <1>3, <1>17 DEF NoteCommit, WorkerCommit, Target, TypeOK, old, loaded
  <2>2. /\ status \in {"ready", "failed", "pending"}
        /\ old.note = "code" => status \in {"ready", "failed"}
    OBVIOUS
  <2> HIDE DEF status
  <2>3. dirty \in Row /\ dirty.status = status /\ dirty.version = loaded.version
    BY <1>1, <1>4, <2>2 DEF Row, Statuses, WorkerRecord
  <2>4. new.pc = "noted" /\ new.msg = old.msg /\ new.note = old.note
    BY <1>1 DEF WorkerRecord
  <2> HIDE DEF dirty, new
  <2>5. /\ row'[f].version = row[f].version
        /\ row'[f].status = IF status = loaded.status THEN row[f].status ELSE status
    BY <1>3, <1>4, <2>1, <2>3, FlushEffects
  <2>6. Current(new)
    BY <2>4 DEF Current
  <2>7. ASSUME Leaving(new), Busy(f)' PROVE Awaited(f)'
    <3>1. old.note = "code"
      BY <1>5, <2>1, <2>4, <2>7 DEF Leaving, Current
    <3>2. status = loaded.status /\ row'[f].status = row[f].status
      BY <2>2, <2>5, <2>7, <3>1 DEF Busy
    <3>3. Leaving(old)
      BY <2>1, <2>2, <3>1, <3>2 DEF Leaving, loaded
    <3>4. Busy(f)
      BY <1>9, <2>7, <3>2 DEF Busy
    <3>5. QED BY <1>7, <1>11, <2>1, <2>5, <3>3, <3>4
  <2>8. QED BY <1>12, <2>1, <2>4, <2>5, <2>6, <2>7
<1>18. CASE Settle(w) \/ Crash(w)
  <2> DEFINE retried == [old.msg EXCEPT !.retries = @ + 1]
             failed == [old EXCEPT !.pc = "note", !.note = "code"]
  <2>1. UNCHANGED row
    BY <1>18 DEF Settle, Crash
  <2>2. row'[f].version = row[f].version /\ (Busy(f)' => Busy(f))
    BY <2>1 DEF Busy, Live, Exists
  <2>3. ASSUME wrk' = [wrk EXCEPT ![w] = Idle],
               \A m \in Message : queue[m] > 0 => queue'[m] > 0,
               Busy(f)' => Awaited(f)'
        PROVE  Goal
    <3>1. WorkerChange(w, f, Idle)
      BY <1>2, <1>8, <1>9, <2>1, <2>2, <2>3 DEF WorkerChange, Target, old
    <3>2. QED BY <3>1
  \* A message that is sent again makes the file awaited, or was superseded.
  <2>4. ASSUME NEW m \in Message, m.file = f, m.version = v, Send(m), Acknowledge(w)
        PROVE  Goal
    <3>1. queue'[m] > 0 /\ \A k \in Message : queue[k] > 0 => queue'[k] > 0
      BY <2>4 DEF Send, TypeOK
    <3>2. ASSUME Busy(f)' PROVE Awaited(f)'
      <4>1. CASE row[f].version = v
        BY <2>2, <2>4, <3>1, <4>1 DEF Awaited, Sent
      <4>2. CASE row[f].version # v
        BY <1>6, <1>11, <2>2, <3>1, <3>2, <4>2 DEF Busy
      <4>3. QED BY <4>1, <4>2
    <3>3. QED BY <2>3, <2>4, <3>1, <3>2 DEF Acknowledge
  <2>5. CASE old.pc = "noted" /\ old.note \in {"none", "code"} /\ Acknowledge(w) /\ UNCHANGED queue
    <3>1. Leaving(old)
      BY <2>5 DEF Leaving
    <3>2. Busy(f)' => Awaited(f)'
      BY <1>7, <1>11, <2>2, <2>5, <3>1
    <3>3. QED BY <2>3, <2>5, <3>2 DEF Acknowledge
  <2>6. CASE old.msg.retries < MaxRetries /\ Send(retried) /\ Acknowledge(w)
    <3>1. retried \in Message /\ retried.file = f /\ retried.version = v
      <4>1. old.msg.retries + 1 \in 0..MaxRetries
        BY <1>3, <2>6, IngestionAssumption DEF Message
      <4>2. QED BY <1>3, <4>1 DEF Message, v
    <3> HIDE DEF retried
    <3>2. QED BY <2>4, <2>6, <3>1
  <2>7. CASE wrk' = [wrk EXCEPT ![w] = failed] /\ UNCHANGED queue
    <3>1. failed.pc = "note" /\ failed.msg = old.msg /\ failed.note = "code"
      BY <1>1 DEF WorkerRecord
    <3> HIDE DEF failed
    <3>2. Current(failed) /\ ~Leaving(failed)
      BY <3>1 DEF Current, Leaving
    <3>3. QED BY <1>12, <2>1, <2>7, <3>1, <3>2
  <2>8. CASE Crash(w)
    BY <1>3, <2>4, <2>8 DEF Crash, old, v
  <2>9. CASE Settle(w)
    BY <2>5, <2>6, <2>7, <2>9 DEF Settle, old
  <2>10. QED BY <1>18, <2>8, <2>9
<1>19. QED
  BY <1>13, <1>14, <1>15, <1>16, <1>17, <1>18 DEF WorkerContinues

\* With one worker, no step leaves a busy file to nobody.
LEMMA CarryingPreserved ==
    ASSUME TypeOK, Sessions, Carrying, [Next]_vars,
           \A v, w \in Workers : v = w,
           Faults \cap {"enqueue", "request", "interrupt"} = {}
    PROVE  Carrying'
<1>1. ASSUME NEW r \in Requests, Next,
             RequestStarts(r) \/ RequestContinues(r) \/ EnqueueFails(r) \/ RequestDies(r)
      PROVE  Carrying'
  <2>1. UNCHANGED wrk
    BY <1>1 DEF RequestStarts, RequestContinues, EnqueueFails, RequestDies, UploadAccept,
                DeleteLoad,
                ReprocessLoad, KbUpdateLoad, KbDeleteLoad, UploadStore, UploadCommit, UploadUndo,
                Enqueue, DeleteMark, DeleteErase, DeleteFinish, ReprocessCommit, KbUpdateCommit,
                KbErase, KbDeleteCommit
  <2>2. \A f \in Files : RequestSteady(f)
    BY <1>1, RequestsSteady
  <2>3. ASSUME NEW f \in Files, Busy(f)' PROVE Awaited(f)' \/ Holder(f)'
    <3>1. CASE Awaited(f)'
      BY <3>1
    <3>2. CASE row'[f].version = row[f].version /\ Busy(f) /\ ~Awaited(f)
      <4>1. Holder(f)
        BY <3>2 DEF Carrying, BusyFilesCarried
      <4>2. QED BY <2>1, <3>2, <4>1 DEF Holder, Target
    <3>3. QED BY <2>2, <2>3, <3>1, <3>2 DEF RequestSteady
  <2>4. ASSUME NEW w \in Workers, NEW f \in Files, f = Target(w), wrk[w].pc # "idle", Live(f)',
               row'[f].version # wrk[w].msg.version
        PROVE  Awaited(f)'
    BY <2>2, <2>4 DEF RequestSteady, Carrying, SupersededAwaited
  <2>5. ASSUME NEW w \in Workers, NEW f \in Files, f = Target(w), Leaving(wrk[w]), Busy(f)'
        PROVE  Awaited(f)'
    BY <2>2, <2>5 DEF RequestSteady, Carrying, LeftFilesAwaited
  <2>6. \A w \in Workers : wrk[w].pc # "idle" => Target(w) \in Files
    BY DEF Sessions, WorkersHold, Message, Target
  <2>7. \A w \in Workers : Leaving(wrk[w]) => wrk[w].pc # "idle"
    BY DEF Leaving
  <2>8. BusyFilesCarried'
    BY <2>3 DEF BusyFilesCarried
  <2>9. SupersededAwaited'
    BY <2>1, <2>4, <2>6 DEF SupersededAwaited, Target
  <2>10. LeftFilesAwaited'
    BY <2>1, <2>5, <2>6, <2>7 DEF LeftFilesAwaited, Target
  <2>11. SessionsCurrent'
    BY <2>1 DEF SessionsCurrent, Carrying
  <2>12. QED BY <2>8, <2>9, <2>10, <2>11 DEF Carrying
<1>2. ASSUME NEW w \in Workers, Next, WorkerContinues(w) \/ Crash(w), ~Receive(w)
      PROVE  Carrying'
  <2>1. PICK f : f = Target(w)
    OBVIOUS
  <2>2. PICK new : WorkerChange(w, f, new)
    BY <1>2, <2>1, WorkersCarry
  <2>3. /\ wrk[w].pc # "idle" /\ Target(w) = f /\ f \in Files
        /\ wrk'[w] = new /\ UNCHANGED req
        /\ \A p \in Workers : p = w
    BY <2>2 DEF WorkerChange, TypeOK, Sessions, WorkersHold, Message, Target
  <2>4. \A g \in Files : row'[g].version = row[g].version /\ (Awaited(g) => Awaited(g)')
    BY <2>2, <2>3 DEF WorkerChange, Awaited, Sent, Sending
  <2>5. ASSUME NEW g \in Files, g # f, Busy(g)' PROVE Awaited(g)'
    <3>1. Busy(g)
      BY <2>2, <2>5 DEF WorkerChange, Busy, Live, Exists
    <3>2. ~Holder(g)
      BY <2>3, <2>5 DEF Holder
    <3>3. QED BY <2>4, <3>1, <3>2 DEF Carrying, BusyFilesCarried
  <2>6. Live(f)' /\ row'[f].version # wrk[w].msg.version => Awaited(f)'
    BY <2>2, <2>3, <2>4 DEF WorkerChange, Carrying, SupersededAwaited
  <2>7. CASE new = Idle /\ (Busy(f)' => Awaited(f)')
    <3>1. Idle.pc = "idle"
      BY DEF Idle
    <3>2. \A p \in Workers : wrk'[p].pc = "idle"
      BY <2>3, <2>7, <3>1
    <3>3. BusyFilesCarried'
      BY <2>5, <2>7 DEF BusyFilesCarried
    <3>4. SupersededAwaited' /\ LeftFilesAwaited' /\ SessionsCurrent'
      BY <3>2 DEF SupersededAwaited, LeftFilesAwaited, SessionsCurrent, Leaving, Current
    <3>5. QED BY <3>3, <3>4 DEF Carrying
  <2>8. CASE /\ new.pc # "idle" /\ new.msg = wrk[w].msg
             /\ Current(new)
             /\ Leaving(new) => (Busy(f)' => Awaited(f)')
    <3>1. wrk'[w].pc # "idle" /\ Target(w)' = f /\ wrk'[w].msg.version = wrk[w].msg.version
      BY <2>3, <2>8 DEF Target
    <3>2. ASSUME Busy(f)' PROVE Awaited(f)' \/ Holder(f)'
      BY <2>6, <3>1, <3>2 DEF Holder, Busy
    <3>3. BusyFilesCarried'
      BY <2>5, <3>2 DEF BusyFilesCarried
    <3>4. SupersededAwaited'
      BY <2>3, <2>6, <3>1 DEF SupersededAwaited
    <3>5. LeftFilesAwaited' /\ SessionsCurrent'
      BY <2>3, <2>8, <3>1 DEF LeftFilesAwaited, SessionsCurrent
    <3>6. QED BY <3>3, <3>4, <3>5 DEF Carrying
  <2>9. QED BY <2>2, <2>7, <2>8 DEF WorkerChange
<1>3. ASSUME NEW w \in Workers, Receive(w)
      PROVE  Carrying'
  <2>1. PICK m \in Message :
          /\ queue[m] > 0 /\ queue' = [queue EXCEPT ![m] = @ - 1]
          /\ IF Live(m.file) /\ row[m.file].version = m.version
             THEN wrk' = [wrk EXCEPT ![w] = [pc |-> "begin", msg |-> m,
                                             seen |-> row[m.file], note |-> "none"]]
             ELSE UNCHANGED wrk
    BY <1>3 DEF Receive
  <2> DEFINE new == [pc |-> "begin", msg |-> m, seen |-> row[m.file], note |-> "none"]
  <2>2. /\ UNCHANGED <<row, req>> /\ m.file \in Files
        /\ \A p \in Workers : p = w /\ wrk[p].pc = "idle"
    BY <1>3 DEF Receive, Message
  <2>3. \A k \in Message : k # m => queue'[k] = queue[k]
    BY <2>1 DEF TypeOK
  <2>4. ASSUME NEW g \in Files, Awaited(g), ~(m.file = g /\ m.version = row[g].version)
        PROVE  Awaited(g)'
    BY <2>2, <2>3, <2>4 DEF Awaited, Sent, Sending
  <2>5. ASSUME NEW g \in Files, Busy(g)' PROVE Busy(g) /\ Live(g) /\ Awaited(g)
    <3>1. Busy(g) /\ Live(g)
      BY <2>2, <2>5 DEF Busy, Live, Exists
    <3>2. ~Holder(g)
      BY <2>2 DEF Holder
    <3>3. QED BY <3>1, <3>2 DEF Carrying, BusyFilesCarried
  <2>6. CASE ~(Live(m.file) /\ row[m.file].version = m.version)
    <3>1. BusyFilesCarried'
      BY <2>4, <2>5, <2>6 DEF BusyFilesCarried
    <3>2. SupersededAwaited' /\ LeftFilesAwaited' /\ SessionsCurrent'
      BY <2>1, <2>2, <2>6 DEF SupersededAwaited, LeftFilesAwaited, SessionsCurrent,
                              Leaving, Current
    <3>3. QED BY <3>1, <3>2 DEF Carrying
  <2>7. CASE /\ Live(m.file) /\ row[m.file].version = m.version
             /\ wrk' = [wrk EXCEPT ![w] = new]
    <3>1. new.pc = "begin" /\ new.msg = m /\ new.seen = row[m.file]
      OBVIOUS
    <3>2. wrk'[w] = new
      BY <2>7 DEF TypeOK
    <3> HIDE DEF new
    <3>3. Target(w)' = m.file /\ wrk'[w].msg.version = row'[m.file].version
      BY <2>2, <2>7, <3>1, <3>2 DEF Target
    <3>4. Holder(m.file)'
      <4>1. PICK f : f = m.file
        OBVIOUS
      <4>2. Holder(f)'
        BY <3>1, <3>2, <3>3, <4>1 DEF Holder
      <4>3. QED BY <4>1, <4>2
    <3>5. BusyFilesCarried'
      BY <2>4, <2>5, <3>4 DEF BusyFilesCarried
    <3>6. SupersededAwaited'
      BY <2>2, <3>3 DEF SupersededAwaited
    <3>7. LeftFilesAwaited' /\ SessionsCurrent'
      <4>1. ~Leaving(new) /\ Current(new)
        BY <2>7, <3>1 DEF Leaving, Current
      <4>2. QED BY <2>2, <3>2, <4>1 DEF LeftFilesAwaited, SessionsCurrent
    <3>8. QED BY <3>5, <3>6, <3>7 DEF Carrying
  <2>8. QED BY <2>1, <2>6, <2>7
<1>4. CASE UNCHANGED vars
  BY <1>4 DEF vars, Carrying, BusyFilesCarried, SupersededAwaited, LeftFilesAwaited,
              SessionsCurrent,
     Busy, Live, Exists, Awaited, Sent, Sending, Holder, Target
<1>5. QED
  BY <1>1, <1>2, <1>3, <1>4 DEF Next, Rest, Interrupt, WorkerContinues

\* With one worker, as docker-compose.yml runs it, a file that the API reports as
\* pending or processing is being worked on or will be, if Redis takes every
\* message, no request dies and no outcome is lost: whatever transient and final
\* failures, crashes of the worker, deletions and reprocessings interleave.
THEOREM NoFileIsStranded ==
    ASSUME \A v, w \in Workers : v = w,
           Faults \cap {"enqueue", "request", "interrupt"} = {}
    PROVE  Spec => []NoStrandedFile
<1>1. Init => Carrying
  <2>1. ASSUME Init PROVE Carrying
    <3>1. Absent.status = "absent" /\ Idle.pc = "idle"
      BY DEF Absent, Idle
    <3>2. \A w \in Workers : wrk[w].pc = "idle"
      BY <2>1, <3>1 DEF Init
    <3>3. \A f \in Files : ~Busy(f)
      BY <2>1, <3>1 DEF Init, Busy, Live, Exists
    <3>4. QED BY <3>2, <3>3 DEF Carrying, BusyFilesCarried, SupersededAwaited, LeftFilesAwaited,
                                SessionsCurrent, Leaving, Current
  <2>2. QED BY <2>1
<1>2. Carrying /\ TypeOK /\ Sessions /\ [Next]_vars => Carrying'
  BY CarryingPreserved
<1>3. Carrying => NoStrandedFile
  BY DEF Carrying, BusyFilesCarried, NoStrandedFile, Carried, Awaited, Sent, Sending, Holder
<1>4. QED BY <1>1, <1>2, <1>3, SessionsCorrect, PTL DEF Spec
=============================================================================
