------------------------------- MODULE ChatTurn -------------------------------
(***************************************************************************)
(* One conversation and the chat turns of its owner: the agent graph       *)
(* (agents/graph.py), the service around it (services/chat_service.py),    *)
(* the audited execution of a query (services/database/query_executor.py)  *)
(* and the retries of the LLM client (services/llm/groq_provider.py).      *)
(*                                                                         *)
(* Every turn is a request of its own with its own database session; the   *)
(* turns meet in the conversation, which can be deleted meanwhile, and in  *)
(* the customer connection, which an administrator can deactivate or lose. *)
(* Whatever the model, the customer database or the documents may answer   *)
(* is a choice; what the graph does with the answer is not.                *)
(***************************************************************************)
EXTENDS Integers, Sequences, FiniteSets, UnitOfWork

CONSTANTS Turns,        \* chat requests
          MaxRetries    \* groq_max_retries

ASSUME MaxRetriesAssumption == MaxRetries \in Nat

VARIABLES conversation, \* its status and the kinds of sources it was created with
          connection,   \* the customer connection, as the services see it
          turn,         \* the graph state of each request, and where it is
          message,      \* the assistant message of each turn, as committed
          executions    \* the query_executions rows of each turn, as committed

vars == <<conversation, connection, turn, message, executions>>
-----------------------------------------------------------------------------
Kinds == {"database", "documents"}
ConnectionStates == {"connected", "inactive", "lost"}
MessageStatuses == {"none", "pending", "completed", "clarification", "failed", "cancelled"}
Intents == {"general", "clarification", "database", "documents", "hybrid"}

Messages == [status : MessageStatuses, sources : SUBSET Kinds,
             cites : SUBSET Kinds, execution : Nat]

Conversations == [status : {"none", "active", "deleted"}, sources : SUBSET Kinds]

Executions == [accepted : BOOLEAN, syntax : BOOLEAN,
               status : {"pending", "succeeded", "failed", "timeout", "rejected"}]

Nodes == {"load_context", "classify_request", "select_source", "retrieve_schema",
          "generate_sql", "validate_execute", "execute_query", "repair_sql",
          "generate_answer", "rewrite_document_query", "retrieve_documents",
          "generate_document_answer", "hybrid_answer", "clarification_answer",
          "general_answer", "persist_result", "respond"}

\* `open` says that the session has a transaction open; `attempt` counts the
\* retries of the provider call the turn is waiting for.
TurnStates ==
    [pc : Nodes \cup {"idle", "accepted", "ended"},
     end : {"none", "refused", "answered", "error", "cancelled", "crashed"},
     stream : BOOLEAN, chosen : SUBSET Kinds, intent : Intents,
     open : BOOLEAN, attempt : 0 .. MaxRetries,
     sql : BOOLEAN, repaired : BOOLEAN, syntax : BOOLEAN, execution : Nat,
     rows : {"none", "empty", "scalar", "many"}, tables : BOOLEAN,
     evidence : BOOLEAN, documents : BOOLEAN,
     sources : SUBSET Kinds, status : MessageStatuses]

Fresh ==
    [pc |-> "idle", end |-> "none", stream |-> FALSE, chosen |-> {}, intent |-> "general",
     open |-> FALSE, attempt |-> 0, sql |-> FALSE, repaired |-> FALSE, syntax |-> FALSE,
     execution |-> 0, rows |-> "none", tables |-> FALSE, evidence |-> FALSE,
     documents |-> FALSE, sources |-> {}, status |-> "none"]

NoMessage == [status |-> "none", sources |-> {}, cites |-> {}, execution |-> 0]

Init ==
    /\ conversation = [status |-> "none", sources |-> {}]
    /\ connection = "connected"
    /\ turn = [t \in Turns |-> Fresh]
    /\ message = [t \in Turns |-> NoMessage]
    /\ executions = [t \in Turns |-> <<>>]
-----------------------------------------------------------------------------
(* The conversation and the connection.                                    *)

CreateConversation ==
    /\ conversation.status = "none"
    /\ \E sources \in SUBSET Kinds :
         /\ "database" \in sources => connection = "connected"
         /\ conversation' = [status |-> "active", sources |-> sources]
    /\ UNCHANGED <<connection, turn, message, executions>>

DeleteConversation ==
    /\ conversation.status = "active"
    /\ conversation' = [conversation EXCEPT !.status = "deleted"]
    /\ UNCHANGED <<connection, turn, message, executions>>

\* Connection tests and administrators change the connection at any time.
ConnectionChanges ==
    /\ connection' \in ConnectionStates \ {connection}
    /\ UNCHANGED <<conversation, turn, message, executions>>
-----------------------------------------------------------------------------
(* Steps of a turn.                                                        *)

Step(t, next) ==
    /\ turn' = [turn EXCEPT ![t] = next]
    /\ UNCHANGED <<conversation, connection>>

\* A node that only computes a new graph state.
Node(t, next) == Step(t, next) /\ UNCHANGED <<message, executions>>

\* An exception leaves the graph.  run() passes an ApplicationError on and marks
\* the message for any other; stream() marks it for both.  Marking begins with a
\* rollback and then reads the tenant's id.
Raise(t, application, open) ==
    /\ Step(t, [turn[t] EXCEPT !.pc = "ended", !.end = "error", !.open = FALSE])
    /\ message' = IF (turn[t].stream \/ ~application) /\ UsableAfterRollback(open)
                  THEN [message EXCEPT ![t].status = "failed"]
                  ELSE message

Accept(t) ==
    /\ turn[t].pc = "idle"
    /\ conversation.status # "none"
    /\ \E stream \in BOOLEAN, payload \in SUBSET Kinds :
         LET chosen == payload \cup conversation.sources
             found == /\ conversation.status = "active"
                      /\ "database" \in chosen => connection = "connected"
         IN  Node(t, IF found
                     THEN [turn[t] EXCEPT !.pc = "accepted", !.stream = stream,
                                          !.chosen = chosen]
                     ELSE [turn[t] EXCEPT !.pc = "ended", !.end = "refused"])

Start(t) ==
    /\ turn[t].pc = "accepted"
    /\ Step(t, [turn[t] EXCEPT !.pc = "load_context"])
    /\ message' = [message EXCEPT ![t].status = "pending"]
    /\ UNCHANGED executions

LoadContext(t) ==
    /\ turn[t].pc = "load_context"
    /\ Node(t, [turn[t] EXCEPT !.pc = "classify_request", !.open = TRUE])

\* What the model makes of the request matters only when no source was chosen.
ResolveClassification(chosen, proposed, confident) ==
    CASE chosen = Kinds -> "hybrid"
      [] chosen = {"documents"} -> "documents"
      [] chosen = {"database"} -> "database"
      [] chosen = {} /\ proposed = "general" /\ confident -> "general"
      [] OTHER -> "clarification"

RouteIntent(intent) ==
    CASE intent = "database" -> "select_source"
      [] intent = "documents" -> "rewrite_document_query"
      [] intent = "hybrid" -> "retrieve_schema"
      [] intent = "general" -> "general_answer"
      [] OTHER -> "clarification_answer"

ClassifyRequest(t) ==
    /\ turn[t].pc = "classify_request"
    /\ \E proposed \in Intents, confident \in BOOLEAN :
         LET intent == ResolveClassification(turn[t].chosen, proposed, confident)
         IN  Node(t, [turn[t] EXCEPT !.pc = RouteIntent(intent), !.intent = intent,
                                     !.attempt = 0])

SelectSource(t) ==
    /\ turn[t].pc = "select_source"
    /\ Node(t, [turn[t] EXCEPT !.pc = "retrieve_schema"])

\* A clarification ends the graph through its own node, or, inside
\* hybrid_chat, by returning early.
Clarify(state) ==
    IF state.intent = "hybrid"
    THEN [state EXCEPT !.pc = "persist_result", !.status = "clarification"]
    ELSE [state EXCEPT !.pc = "clarification_answer"]

\* Permissions are resolved against the connection as it is now; the question
\* may match none of the tables they allow.
RetrieveSchema(t) ==
    /\ turn[t].pc = "retrieve_schema"
    /\ \E found \in BOOLEAN :
         LET read == [turn[t] EXCEPT !.open = TRUE]
         IN  /\ found => connection # "inactive"
             /\ Node(t, IF found THEN [read EXCEPT !.pc = "generate_sql"] ELSE Clarify(read))

\* The proposal carries SQL, or asks for clarification and carries none.
GenerateSql(t) ==
    /\ turn[t].pc = "generate_sql"
    /\ \E sql \in BOOLEAN :
         LET proposal == [turn[t] EXCEPT !.sql = sql, !.attempt = 0]
         IN  Node(t, IF sql THEN [proposal EXCEPT !.pc = "validate_execute"]
                     ELSE Clarify(proposal))

\* The proposal of a repair is executed whatever its action says.
RepairSql(t) ==
    /\ turn[t].pc = "repair_sql"
    /\ \E sql \in BOOLEAN :
         Node(t, [turn[t] EXCEPT !.pc = "validate_execute", !.sql = sql,
                                 !.repaired = TRUE, !.attempt = 0])

\* Mutant: repair_count is not looked at.
RouteExecutionAgain(state) ==
    CASE state.intent = "hybrid" -> "rewrite_document_query"
      [] state.intent # "hybrid" /\ state.rows # "none" -> "generate_answer"
      [] state.intent # "hybrid" /\ state.rows = "none" /\ state.syntax -> "repair_sql"
      [] OTHER -> "persist_result"

RouteExecution(state) ==
    CASE state.intent = "hybrid" -> "rewrite_document_query"
      [] state.intent # "hybrid" /\ state.rows # "none" -> "generate_answer"
      [] state.intent # "hybrid" /\ state.rows = "none" /\ ~state.repaired /\ state.syntax
            -> "repair_sql"
      [] OTHER -> "persist_result"

\* SafeQueryRejectedError is caught by the node, which reads the execution it
\* was raised for and goes on with the codes of its validation errors.
Rejected(t, syntax) ==
    LET state == [turn[t] EXCEPT !.open = TRUE, !.syntax = syntax,
                                 !.execution = Len(executions'[t]), !.status = "failed"]
    IN  [state EXCEPT !.pc = RouteExecution(state)]

\* Validation writes the audit row and commits it, whatever its verdict.
ValidateExecute(t) ==
    /\ turn[t].pc = "validate_execute"
    /\ \/ /\ connection # "connected"
          /\ Raise(t, TRUE, TRUE)
          /\ UNCHANGED executions
       \/ /\ connection = "connected" /\ turn[t].sql
          /\ executions' = [executions EXCEPT ![t] =
                Append(@, [accepted |-> TRUE, syntax |-> FALSE, status |-> "pending"])]
          /\ Step(t, [turn[t] EXCEPT !.pc = "execute_query", !.open = FALSE])
          /\ UNCHANGED message
       \/ /\ connection = "connected"
          /\ \E syntax \in BOOLEAN :
               /\ executions' = [executions EXCEPT ![t] =
                     Append(@, [accepted |-> FALSE, syntax |-> syntax, status |-> "rejected"])]
               /\ Step(t, Rejected(t, syntax))
          /\ UNCHANGED message

\* The outcome of the adapter's call is committed over the row of the audit.
Audit(t, status) == executions' = [executions EXCEPT ![t][Len(executions[t])].status = status]

\* Mutant: rows are handed on although the commit of their audit has failed.
ExecuteQueryUnaudited(t) ==
    /\ turn[t].pc = "execute_query"
    /\ LET state == [turn[t] EXCEPT !.rows = "many", !.tables = TRUE,
                        !.execution = Len(executions[t]),
                        !.sources = {"database"}, !.status = "completed"]
       IN  Step(t, [state EXCEPT !.pc = RouteExecution(state)])
    /\ UNCHANGED <<message, executions>>

ExecuteQuery(t) ==
    /\ turn[t].pc = "execute_query"
    /\ \/ /\ Audit(t, "succeeded")
          /\ \E rows \in {"empty", "scalar", "many"}, tables \in BOOLEAN :
               LET state == [turn[t] EXCEPT !.rows = rows, !.tables = tables,
                                !.execution = Len(executions[t]), !.syntax = FALSE,
                                !.sources = {"database"}, !.status = "completed"]
               IN  Step(t, [state EXCEPT !.pc = RouteExecution(state)])
          /\ UNCHANGED message
       \/ /\ \E status \in {"failed", "timeout"} : Audit(t, status)
          /\ Step(t, Rejected(t, FALSE))
          /\ UNCHANGED message
       \/ \* the commit of the success fails: its rollback expires the execution
          /\ Raise(t, FALSE, TRUE)
          /\ UNCHANGED executions

\* No rows and a single cell are answered without the model.
GenerateAnswer(t) ==
    /\ turn[t].pc = "generate_answer"
    /\ Node(t, [turn[t] EXCEPT !.pc = "persist_result", !.status = "completed",
                               !.attempt = 0])

RewriteDocumentQuery(t) ==
    /\ turn[t].pc = "rewrite_document_query"
    /\ Node(t, [turn[t] EXCEPT !.pc = "retrieve_documents", !.attempt = 0])

RetrieveDocuments(t) ==
    /\ turn[t].pc = "retrieve_documents"
    /\ \E evidence \in BOOLEAN :
         Node(t, [turn[t] EXCEPT !.open = TRUE, !.evidence = evidence,
                    !.pc = IF turn[t].intent = "hybrid" THEN "hybrid_answer"
                           ELSE "generate_document_answer"])

\* The evidence an answer may cite; a model may cite anything, and nothing when
\* it says that the evidence is insufficient.
Evidence(state) ==
    (IF state.rows # "none" THEN {"DB1"} ELSE {}) \cup
    (IF state.evidence THEN {"DOC"} ELSE {})

Cited == SUBSET {"DB1", "DOC", "UNKNOWN"}

GenerateDocumentAnswer(t) ==
    /\ turn[t].pc = "generate_document_answer"
    /\ LET done == [turn[t] EXCEPT !.pc = "persist_result", !.attempt = 0,
                                   !.sources = {}, !.documents = FALSE]
       IN  IF ~turn[t].evidence
           THEN Node(t, [done EXCEPT !.status = "completed"])
           ELSE \E cited \in Cited :
                  IF ~(cited \subseteq {"DOC"})
                  THEN Node(t, [done EXCEPT !.status = "failed"])
                  ELSE Node(t, [done EXCEPT !.status = "completed",
                                  !.documents = (cited # {}),
                                  !.sources = IF cited # {} THEN {"documents"} ELSE {}])

\* Mutant: an execution that is not cited is forgotten, its tables are not.
HybridAnswerKeepsTables(t) ==
    /\ turn[t].pc = "hybrid_answer"
    /\ \E cited \in SUBSET Evidence(turn[t]) :
         Node(t, [turn[t] EXCEPT !.pc = "persist_result", !.status = "completed",
                    !.documents = ("DOC" \in cited),
                    !.sources = IF "DB1" \in cited THEN @ ELSE {},
                    !.execution = IF "DB1" \in cited THEN @ ELSE 0])

\* The last part of hybrid_chat.  Returning `**current` keeps the tables and the
\* execution of the query in the graph state unless they are cleared here.
HybridAnswer(t) ==
    /\ turn[t].pc = "hybrid_answer"
    /\ LET done == [turn[t] EXCEPT !.pc = "persist_result", !.attempt = 0,
                                   !.sources = {}, !.documents = FALSE]
       IN  IF Evidence(turn[t]) = {}
           THEN Node(t, [done EXCEPT !.status = "completed"])
           ELSE \E cited \in Cited :
                  IF ~(cited \subseteq Evidence(turn[t]))
                  THEN Node(t, [done EXCEPT !.status = "failed"])
                  ELSE Node(t, [done EXCEPT !.status = "completed",
                                  !.documents = ("DOC" \in cited),
                                  !.tables = @ /\ "DB1" \in cited,
                                  !.sources = {k \in Kinds :
                                      IF k = "database" THEN "DB1" \in cited
                                      ELSE "DOC" \in cited}])

ClarificationAnswer(t) ==
    /\ turn[t].pc = "clarification_answer"
    /\ Node(t, [turn[t] EXCEPT !.pc = "persist_result", !.sources = {},
                               !.status = "clarification"])

GeneralAnswer(t) ==
    /\ turn[t].pc = "general_answer"
    /\ Node(t, [turn[t] EXCEPT !.pc = "persist_result", !.sources = {},
                               !.status = "completed"])

\* _document_citations: one per cited chunk of a file that still has a row, and
\* rows of files are never removed.
DocumentCitations(state) == IF state.documents THEN {"documents"} ELSE {}

\* The citations of an answer: those of its chunks, and one per table of the
\* execution.
Citations(state) ==
    DocumentCitations(state) \cup
    (IF state.execution # 0 /\ state.tables THEN {"database"} ELSE {})

PersistResult(t) ==
    /\ turn[t].pc = "persist_result"
    /\ message' = [message EXCEPT ![t] =
          [status |-> turn[t].status, sources |-> turn[t].sources,
           cites |-> Citations(turn[t]), execution |-> turn[t].execution]]
    /\ Step(t, [turn[t] EXCEPT !.pc = "respond", !.open = FALSE])
    /\ UNCHANGED executions

\* What the caller is told comes from the graph state and not from the row.
Reply(state) ==
    [status |-> state.status, sources |-> state.sources,
     cites |-> DocumentCitations(state) \cup
               (IF state.tables THEN {"database"} ELSE {}),
     execution |-> state.execution]

Respond(t) ==
    /\ turn[t].pc = "respond"
    /\ Node(t, [turn[t] EXCEPT !.pc = "ended", !.end = "answered"])
-----------------------------------------------------------------------------
(* Failures.                                                               *)

\* The calls that go to the model.
AsksProvider(state) ==
    \/ state.pc \in {"classify_request", "generate_sql", "repair_sql",
                     "rewrite_document_query"}
    \/ state.pc = "generate_answer" /\ state.rows = "many"
    \/ state.pc = "generate_document_answer" /\ state.evidence
    \/ state.pc = "hybrid_answer" /\ Evidence(state) # {}

\* Mutant: when the attempts are used up they are counted anew.
ProviderRetryForEver(t) ==
    /\ AsksProvider(turn[t])
    /\ Node(t, [turn[t] EXCEPT !.attempt = (@ + 1) % (MaxRetries + 1)])

\* Mutant: one attempt too many.
ProviderRetryOnceMore(t) ==
    /\ AsksProvider(turn[t])
    /\ turn[t].attempt <= MaxRetries
    /\ Node(t, [turn[t] EXCEPT !.attempt = @ + 1])

\* A timeout or a transient error is retried while attempts are left.
ProviderRetry(t) ==
    /\ AsksProvider(turn[t])
    /\ turn[t].attempt < MaxRetries
    /\ Node(t, [turn[t] EXCEPT !.attempt = @ + 1])

\* The last attempt fails, or the model refuses or breaks its schema.
ProviderFails(t) ==
    /\ AsksProvider(turn[t])
    /\ Raise(t, FALSE, turn[t].open)
    /\ UNCHANGED executions

\* A statement or a commit on the application's database fails.
StatementFails(t) ==
    /\ turn[t].pc \in {"load_context", "retrieve_schema", "validate_execute",
                       "retrieve_documents", "generate_document_answer",
                       "hybrid_answer", "persist_result"}
    /\ Raise(t, FALSE, TRUE)
    /\ UNCHANGED executions

\* Mutant: a cancellation does not look whether the turn is over.
CancelUnconditionally(t) ==
    /\ turn[t].pc \in Nodes
    /\ turn[t].stream
    /\ Step(t, [turn[t] EXCEPT !.pc = "ended", !.end = "cancelled", !.open = FALSE])
    /\ message' = IF UsableAfterRollback(turn[t].open)
                  THEN [message EXCEPT ![t].status = "cancelled"]
                  ELSE message
    /\ UNCHANGED executions

\* The client of a stream goes away: _mark_cancelled.
Cancel(t) ==
    /\ turn[t].pc \in Nodes
    /\ turn[t].stream
    /\ Step(t, [turn[t] EXCEPT !.pc = "ended", !.end = "cancelled", !.open = FALSE])
    /\ message' = IF UsableAfterRollback(turn[t].open) /\ message[t].status = "pending"
                  THEN [message EXCEPT ![t].status = "cancelled"]
                  ELSE message
    /\ UNCHANGED executions

\* The process dies with whatever it has not committed.
Crash(t) ==
    /\ turn[t].pc \in Nodes \cup {"accepted"}
    /\ Node(t, [turn[t] EXCEPT !.pc = "ended", !.end = "crashed", !.open = FALSE])
-----------------------------------------------------------------------------
Progress(t) ==
    \/ Start(t) \/ LoadContext(t) \/ ClassifyRequest(t) \/ SelectSource(t)
    \/ RetrieveSchema(t) \/ GenerateSql(t) \/ RepairSql(t) \/ ValidateExecute(t)
    \/ ExecuteQuery(t) \/ GenerateAnswer(t) \/ RewriteDocumentQuery(t)
    \/ RetrieveDocuments(t) \/ GenerateDocumentAnswer(t) \/ HybridAnswer(t)
    \/ ClarificationAnswer(t) \/ GeneralAnswer(t) \/ PersistResult(t) \/ Respond(t)
    \/ ProviderRetry(t) \/ ProviderFails(t) \/ StatementFails(t)

Next ==
    \/ CreateConversation \/ DeleteConversation \/ ConnectionChanges
    \/ \E t \in Turns : Accept(t) \/ Progress(t) \/ Cancel(t) \/ Crash(t)

\* Every await of a turn is bounded by a timeout of its own, and the event loop
\* resumes a coroutine whose await is over.
Spec == Init /\ [][Next]_vars /\ \A t \in Turns : WF_vars(Progress(t))
-----------------------------------------------------------------------------
(* Properties.                                                             *)

\* Every variable keeps its type; in particular a call to the model is tried at
\* most MaxRetries + 1 times (groq_provider.py:61).
TypeOK ==
    /\ conversation \in Conversations
    /\ connection \in ConnectionStates
    /\ turn \in [Turns -> TurnStates]
    /\ message \in [Turns -> Messages]
    /\ executions \in [Turns -> Seq(Executions)]

\* A message that names the database as a source or cites one of its tables
\* points to an audit row of its own turn that says the query was accepted and
\* succeeded, whatever failed or was repaired on the way.
AnswerRestsOnAudit ==
    \A t \in Turns :
        "database" \in message[t].sources \cup message[t].cites =>
            /\ message[t].execution \in 1 .. Len(executions[t])
            /\ executions[t][message[t].execution].accepted
            /\ executions[t][message[t].execution].status = "succeeded"

\* A turn sends SQL to validation at most twice, and the second time only after
\* the first was rejected as unparsable: no permission error, no failure of the
\* customer database and no success is ever followed by another attempt.
RepairsSyntaxOnly ==
    \A t \in Turns :
        /\ Len(executions[t]) <= 2
        /\ Len(executions[t]) = 2 => /\ executions[t][1].status = "rejected"
                                     /\ executions[t][1].syntax

\* An answered turn was told what its message says, although the reply is built
\* from the graph state and the message was written by another node.
ReplyIsStored ==
    \A t \in Turns : turn[t].end = "answered" => message[t] = Reply(turn[t])

\* Once a message has an outcome no late cancellation, error or commit of its
\* turn changes it.
OutcomeIsFinal ==
    [][\A t \in Turns :
         message[t].status \notin {"none", "pending"} => message'[t] = message[t]]_vars

\* Every turn that was accepted comes to an end, whatever the model, the
\* customer database and the administrators do.
EveryTurnEnds ==
    \A t \in Turns : turn[t].pc = "accepted" ~> turn[t].pc = "ended"
-----------------------------------------------------------------------------
(* What a test and a comment of the code say, and the code does not do.     *)

\* A turn that failed or was cancelled does not leave its message pending.
NoTurnLeftPending ==
    \A t \in Turns : turn[t].end \in {"error", "cancelled"} => message[t].status # "pending"
=============================================================================
