---------------------------- MODULE ChatTurnProofs ----------------------------
(* Theorems about ChatTurn, for any number of turns and provider retries. *)
EXTENDS ChatTurn, SequenceTheorems, TLAPS

-----------------------------------------------------------------------------
(* The inductive invariant relates a turn's graph state s to its committed  *)
(* message m and audit rows e, node by node.                                *)

BeforeSql == {"idle", "accepted", "load_context", "classify_request",
              "select_source", "retrieve_schema", "generate_sql"}
BeforeRows == BeforeSql \cup {"validate_execute", "execute_query", "repair_sql"}

Unparsed(e) == Len(e) = 1 /\ e[1].status = "rejected" /\ e[1].syntax

Rests(s, e) ==
    /\ s.execution \in 1 .. Len(e)
    /\ e[s.execution].accepted
    /\ e[s.execution].status = "succeeded"

\* Where a turn may send SQL, and what it has sent by then.
Queries(s, e) ==
    /\ s.pc \in BeforeRows => s.rows = "none" /\ ~s.tables /\ s.sources = {}
    /\ s.pc \in BeforeSql => e = <<>> /\ ~s.repaired
    /\ s.pc = "repair_sql" => ~s.repaired /\ Unparsed(e)
    /\ s.pc = "validate_execute" => IF s.repaired THEN Unparsed(e) ELSE e = <<>>
    /\ s.pc = "execute_query" =>
          /\ e # <<>> /\ e[Len(e)].accepted
          /\ IF s.repaired THEN Len(e) = 2 /\ e[1].status = "rejected" /\ e[1].syntax
             ELSE Len(e) = 1

\* Rows, tables and the source of the graph state come from a succeeded query.
Audited(s, e) ==
    s.rows # "none" \/ s.tables \/ "database" \in s.sources => Rests(s, e)

Bounded(e) == Len(e) <= 2 /\ (Len(e) = 2 => e[1].status = "rejected" /\ e[1].syntax)

\* The message is pending until it is persisted, and then says what is replied.
Told(s, m) ==
    /\ s.pc \in {"idle", "accepted"} => m = NoMessage
    /\ s.pc \in Nodes \ {"respond"} => m.status = "pending" /\ m.sources = {} /\ m.cites = {}
    /\ s.pc = "respond" \/ s.end = "answered" => m = Reply(s)
    /\ s.pc # "ended" => s.end = "none"

Founded(m, e) ==
    "database" \in m.sources \cup m.cites =>
        /\ m.execution \in 1 .. Len(e)
        /\ e[m.execution].accepted
        /\ e[m.execution].status = "succeeded"

TurnInv(s, m, e) ==
    Queries(s, e) /\ Audited(s, e) /\ Bounded(e) /\ Told(s, m) /\ Founded(m, e)

Inv == TypeOK /\ \A t \in Turns : TurnInv(turn[t], message[t], executions[t])

\* What one turn t has become.
Advances(t) ==
    /\ turn' = [turn EXCEPT ![t] = turn'[t]]
    /\ message' = [message EXCEPT ![t] = message'[t]]
    /\ executions' = [executions EXCEPT ![t] = executions'[t]]
    /\ UNCHANGED <<conversation, connection>>
    /\ turn'[t] \in TurnStates
    /\ message'[t] \in Messages
    /\ executions'[t] \in Seq(Executions)
    /\ TurnInv(turn'[t], message'[t], executions'[t])
-----------------------------------------------------------------------------
\* The other turns are untouched.
LEMMA AdvancesKeepsInv ==
    ASSUME Inv, NEW t \in Turns, Advances(t) PROVE Inv'
<1>1. TypeOK'
  BY DEF Inv, TypeOK, Advances
<1>2. ASSUME NEW x \in Turns PROVE TurnInv(turn'[x], message'[x], executions'[x])
  <2>1. CASE x = t
    BY <2>1 DEF Advances
  <2>2. CASE x # t
    <3>1. /\ turn'[x] = turn[x] /\ message'[x] = message[x]
          /\ executions'[x] = executions[x]
      BY <2>2 DEF Advances, Inv, TypeOK
    <3>2. TurnInv(turn[x], message[x], executions[x])
      BY DEF Inv
    <3> QED BY <3>1, <3>2
  <2> QED BY <2>1, <2>2
<1> QED BY <1>1, <1>2 DEF Inv

LEMMA Names ==
    /\ "load_context" \in Nodes /\ "classify_request" \in Nodes
    /\ "select_source" \in Nodes /\ "retrieve_schema" \in Nodes
    /\ "generate_sql" \in Nodes /\ "validate_execute" \in Nodes
    /\ "execute_query" \in Nodes /\ "repair_sql" \in Nodes
    /\ "generate_answer" \in Nodes /\ "rewrite_document_query" \in Nodes
    /\ "retrieve_documents" \in Nodes /\ "generate_document_answer" \in Nodes
    /\ "hybrid_answer" \in Nodes /\ "clarification_answer" \in Nodes
    /\ "general_answer" \in Nodes /\ "persist_result" \in Nodes
    /\ "respond" \in Nodes
    /\ "pending" \in MessageStatuses /\ "completed" \in MessageStatuses
    /\ "clarification" \in MessageStatuses /\ "failed" \in MessageStatuses
    /\ "cancelled" \in MessageStatuses
    /\ "ended" \notin Nodes /\ "idle" \notin Nodes /\ "accepted" \notin Nodes
    /\ {} \in SUBSET Kinds /\ 0 \in 0 .. MaxRetries
BY MaxRetriesAssumption DEF Nodes, MessageStatuses

LEMMA Typed ==
    ASSUME Inv, NEW t \in Turns
    PROVE  /\ turn[t] \in TurnStates /\ message[t] \in Messages
           /\ executions[t] \in Seq(Executions)
           /\ TurnInv(turn[t], message[t], executions[t])
BY DEF Inv, TypeOK

LEMMA AnswerTyped ==
    ASSUME NEW s \in TurnStates, NEW pc \in Nodes, NEW sources \in SUBSET Kinds,
           NEW status \in MessageStatuses
    PROVE  [s EXCEPT !.pc = pc, !.sources = sources, !.status = status] \in TurnStates
BY DEF TurnStates

\* A node that commits nothing only has to keep the relation to what is committed.
LEMMA NodeAdvances ==
    ASSUME Inv, NEW t \in Turns, NEW next \in TurnStates, Node(t, next),
           TurnInv(next, message[t], executions[t])
    PROVE  Advances(t)
<1>1. turn'[t] = next /\ message'[t] = message[t] /\ executions'[t] = executions[t]
  BY DEF Node, Step, Inv, TypeOK
<1>2. message[t] \in Messages /\ executions[t] \in Seq(Executions)
  BY Typed
<1>3. /\ turn' = [turn EXCEPT ![t] = turn'[t]]
      /\ message' = [message EXCEPT ![t] = message'[t]]
      /\ executions' = [executions EXCEPT ![t] = executions'[t]]
  BY <1>1 DEF Node, Step, Inv, TypeOK
<1> QED BY <1>1, <1>2, <1>3 DEF Advances, Node, Step

LEMMA AcceptAdvances ==
    ASSUME Inv, NEW t \in Turns, Accept(t) PROVE Advances(t)
<1>1. PICK stream \in BOOLEAN, payload \in SUBSET Kinds :
         LET chosen == payload \cup conversation.sources
             found == /\ conversation.status = "active"
                      /\ "database" \in chosen => connection = "connected"
         IN  Node(t, IF found
                     THEN [turn[t] EXCEPT !.pc = "accepted", !.stream = stream,
                                          !.chosen = chosen]
                     ELSE [turn[t] EXCEPT !.pc = "ended", !.end = "refused"])
  BY DEF Accept
<1> DEFINE found == /\ conversation.status = "active"
                    /\ "database" \in payload \cup conversation.sources => connection = "connected"
           next == IF found
                     THEN [turn[t] EXCEPT !.pc = "accepted", !.stream = stream,
                                          !.chosen = payload \cup conversation.sources]
                     ELSE [turn[t] EXCEPT !.pc = "ended", !.end = "refused"]
<1>2. Node(t, next)
  BY <1>1
<1>3. conversation.sources \in SUBSET Kinds
  BY DEF Inv, TypeOK, Conversations
<1>4. next \in TurnStates
  <2>1. payload \cup conversation.sources \in SUBSET Kinds
    BY <1>3
  <2>2. turn[t] \in TurnStates
    BY Typed
  <2> QED BY <2>1, <2>2 DEF TurnStates
<1>5. TurnInv(next, message[t], executions[t])
  BY Typed, <1>3 DEF TurnInv, Queries, Audited, Told, Rests, BeforeRows, BeforeSql,
                     Nodes, TurnStates, Accept
<1> HIDE DEF next
<1> QED BY <1>2, <1>4, <1>5, NodeAdvances

\* A node whose next state is a function of the state.
LEMMA PlainAdvances ==
    ASSUME Inv, NEW t \in Turns,
           \/ LoadContext(t) \/ SelectSource(t) \/ GenerateAnswer(t)
           \/ RewriteDocumentQuery(t) \/ ClarificationAnswer(t) \/ GeneralAnswer(t)
           \/ ProviderRetry(t) \/ Respond(t)
    PROVE  Advances(t)
<1>1. CASE LoadContext(t)
  <2> DEFINE next == [turn[t] EXCEPT !.pc = "classify_request", !.open = TRUE]
  <2>1. Node(t, next)
    BY <1>1 DEF LoadContext
  <2>2. next \in TurnStates
    <3>1. turn[t] \in TurnStates
      BY Typed
    <3> QED BY <3>1, Names DEF TurnStates
  <2>3. TurnInv(next, message[t], executions[t])
    BY Typed, <1>1 DEF LoadContext, TurnInv, Queries, Audited, Told, Founded, Rests,
                       Unparsed, BeforeRows, BeforeSql, Nodes, TurnStates
  <2> HIDE DEF next
  <2> QED BY <2>1, <2>2, <2>3, NodeAdvances
<1>2. CASE SelectSource(t)
  <2> DEFINE next == [turn[t] EXCEPT !.pc = "retrieve_schema"]
  <2>1. Node(t, next)
    BY <1>2 DEF SelectSource
  <2>2. next \in TurnStates
    <3>1. turn[t] \in TurnStates
      BY Typed
    <3> QED BY <3>1, Names DEF TurnStates
  <2>3. TurnInv(next, message[t], executions[t])
    BY Typed, <1>2 DEF SelectSource, TurnInv, Queries, Audited, Told, Founded, Rests,
                       Unparsed, BeforeRows, BeforeSql, Nodes, TurnStates
  <2> HIDE DEF next
  <2> QED BY <2>1, <2>2, <2>3, NodeAdvances
<1>3. CASE GenerateAnswer(t)
  <2> DEFINE next == [turn[t] EXCEPT !.pc = "persist_result", !.status = "completed",
                                      !.attempt = 0]
  <2>1. Node(t, next)
    BY <1>3 DEF GenerateAnswer
  <2>2. next \in TurnStates
    <3>1. turn[t] \in TurnStates
      BY Typed
    <3> QED BY <3>1, Names DEF TurnStates
  <2>3. TurnInv(next, message[t], executions[t])
    BY Typed, <1>3 DEF GenerateAnswer, TurnInv, Queries, Audited, Told, Founded, Rests,
                       Unparsed, BeforeRows, BeforeSql, Nodes, TurnStates
  <2> HIDE DEF next
  <2> QED BY <2>1, <2>2, <2>3, NodeAdvances
<1>4. CASE RewriteDocumentQuery(t)
  <2> DEFINE next == [turn[t] EXCEPT !.pc = "retrieve_documents", !.attempt = 0]
  <2>1. Node(t, next)
    BY <1>4 DEF RewriteDocumentQuery
  <2>2. next \in TurnStates
    <3>1. turn[t] \in TurnStates
      BY Typed
    <3> QED BY <3>1, Names DEF TurnStates
  <2>3. TurnInv(next, message[t], executions[t])
    BY Typed, <1>4 DEF RewriteDocumentQuery, TurnInv, Queries, Audited, Told, Founded,
                       Rests, Unparsed, BeforeRows, BeforeSql, Nodes, TurnStates
  <2> HIDE DEF next
  <2> QED BY <2>1, <2>2, <2>3, NodeAdvances
<1>5. CASE ClarificationAnswer(t)
  <2> DEFINE next == [turn[t] EXCEPT !.pc = "persist_result", !.sources = {},
                                      !.status = "clarification"]
  <2>1. Node(t, next)
    BY <1>5 DEF ClarificationAnswer
  <2>2. next \in TurnStates
    <3>1. turn[t] \in TurnStates
      BY Typed
    <3> QED BY <3>1, Names, AnswerTyped
  <2>3. TurnInv(next, message[t], executions[t])
    BY Typed, <1>5 DEF ClarificationAnswer, TurnInv, Queries, Audited, Told, Founded,
                       Rests, Unparsed, BeforeRows, BeforeSql, Nodes, TurnStates
  <2> HIDE DEF next
  <2> QED BY <2>1, <2>2, <2>3, NodeAdvances
<1>6. CASE GeneralAnswer(t)
  <2> DEFINE next == [turn[t] EXCEPT !.pc = "persist_result", !.sources = {},
                                      !.status = "completed"]
  <2>1. Node(t, next)
    BY <1>6 DEF GeneralAnswer
  <2>2. next \in TurnStates
    <3>1. turn[t] \in TurnStates
      BY Typed
    <3> QED BY <3>1, Names, AnswerTyped
  <2>3. TurnInv(next, message[t], executions[t])
    BY Typed, <1>6 DEF GeneralAnswer, TurnInv, Queries, Audited, Told, Founded, Rests,
                       Unparsed, BeforeRows, BeforeSql, Nodes, TurnStates
  <2> HIDE DEF next
  <2> QED BY <2>1, <2>2, <2>3, NodeAdvances
<1>7. CASE ProviderRetry(t)
  <2> DEFINE next == [turn[t] EXCEPT !.attempt = @ + 1]
  <2>1. Node(t, next)
    BY <1>7 DEF ProviderRetry
  <2>2. next \in TurnStates
    <3>1. turn[t] \in TurnStates
      BY Typed
    <3>2. turn[t].attempt + 1 \in 0 .. MaxRetries
      BY <3>1, <1>7, MaxRetriesAssumption DEF TurnStates, ProviderRetry
    <3> QED BY <3>1, <3>2 DEF TurnStates
<2>3. TurnInv(next, message[t], executions[t])
    BY Typed, <1>7 DEF ProviderRetry, AsksProvider, Reply, DocumentCitations, TurnInv,
                       Queries, Audited, Told, Founded, Rests, Unparsed, BeforeRows,
                       BeforeSql, Nodes, TurnStates
  <2> HIDE DEF next
  <2> QED BY <2>1, <2>2, <2>3, NodeAdvances
<1>8. CASE Respond(t)
  <2> DEFINE next == [turn[t] EXCEPT !.pc = "ended", !.end = "answered"]
  <2>1. Node(t, next)
    BY <1>8 DEF Respond
  <2>2. next \in TurnStates
    <3>1. turn[t] \in TurnStates
      BY Typed
    <3> QED BY <3>1, Names DEF TurnStates
  <2>3. TurnInv(next, message[t], executions[t])
    BY Typed, <1>8 DEF Respond, Reply, DocumentCitations, TurnInv, Queries, Audited,
                       Told, Founded, Rests, Unparsed, BeforeRows, BeforeSql, Nodes,
                       TurnStates
  <2> HIDE DEF next
  <2> QED BY <2>1, <2>2, <2>3, NodeAdvances
<1> QED BY <1>1, <1>2, <1>3, <1>4, <1>5, <1>6, <1>7, <1>8

\* A turn that ends without an answer keeps what it has found, and its message
\* what it says of its sources.
LEMMA EndKeepsTurnInv ==
    ASSUME NEW s \in TurnStates, NEW m \in Messages, NEW e \in Seq(Executions),
           TurnInv(s, m, e), s.pc # "ended",
           NEW end \in {"error", "cancelled", "crashed"}, NEW m2 \in Messages,
           m2.sources = m.sources, m2.cites = m.cites, m2.execution = m.execution
    PROVE  LET next == [s EXCEPT !.pc = "ended", !.end = end, !.open = FALSE]
           IN  next \in TurnStates /\ TurnInv(next, m2, e)
<1> DEFINE next == [s EXCEPT !.pc = "ended", !.end = end, !.open = FALSE]
<1>1. next \in TurnStates
  BY DEF TurnStates
<1>2. /\ next.pc = "ended" /\ next.end = end /\ next.execution = s.execution
      /\ next.rows = s.rows /\ next.tables = s.tables /\ next.sources = s.sources
  BY DEF TurnStates
<1> HIDE DEF next
<1>3. Queries(next, e) /\ Told(next, m2)
  BY <1>2, Names DEF Queries, Told, BeforeRows, BeforeSql
<1>4. Audited(next, e) /\ Bounded(e) /\ Founded(m2, e)
  BY <1>2 DEF TurnInv, Audited, Founded, Rests
<1>5. next \in TurnStates /\ TurnInv(next, m2, e)
  BY <1>1, <1>3, <1>4 DEF TurnInv
<1> QED BY <1>5 DEF next

LEMMA CrashAdvances ==
    ASSUME Inv, NEW t \in Turns, Crash(t) PROVE Advances(t)
<1> DEFINE next == [turn[t] EXCEPT !.pc = "ended", !.end = "crashed", !.open = FALSE]
<1>1. Node(t, next) /\ turn[t].pc # "ended"
  BY Names DEF Crash
<1>2. next \in TurnStates /\ TurnInv(next, message[t], executions[t])
  BY <1>1, Typed, EndKeepsTurnInv
<1> HIDE DEF next
<1> QED BY <1>1, <1>2, NodeAdvances

\* An exception leaves the message as it is or gives it a status.
LEMMA RaiseAdvances ==
    ASSUME Inv, NEW t \in Turns, turn[t].pc # "ended",
           NEW application \in BOOLEAN, NEW open \in BOOLEAN,
           Raise(t, application, open), UNCHANGED executions
    PROVE  Advances(t)
<1> DEFINE next == [turn[t] EXCEPT !.pc = "ended", !.end = "error", !.open = FALSE]
<1>1. turn' = [turn EXCEPT ![t] = next] /\ turn'[t] = next
  BY DEF Raise, Step, Inv, TypeOK
<1>2. /\ message' = [message EXCEPT ![t] = message'[t]] /\ message'[t] \in Messages
      /\ message'[t].sources = message[t].sources /\ message'[t].cites = message[t].cites
      /\ message'[t].execution = message[t].execution
  BY Names DEF Raise, Inv, TypeOK, Messages
<1>3. next \in TurnStates /\ TurnInv(next, message'[t], executions[t])
  BY <1>2, Typed, EndKeepsTurnInv
<1>4. /\ executions' = [executions EXCEPT ![t] = executions'[t]]
      /\ executions'[t] = executions[t]
  BY DEF Inv, TypeOK
<1> HIDE DEF next
<1> QED BY <1>1, <1>2, <1>3, <1>4, Typed DEF Advances, Raise, Step

LEMMA CancelAdvances ==
    ASSUME Inv, NEW t \in Turns, Cancel(t) PROVE Advances(t)
<1> DEFINE next == [turn[t] EXCEPT !.pc = "ended", !.end = "cancelled", !.open = FALSE]
<1>1. turn' = [turn EXCEPT ![t] = next] /\ turn'[t] = next /\ turn[t].pc # "ended"
  BY Names DEF Cancel, Step, Inv, TypeOK
<1>2. /\ message' = [message EXCEPT ![t] = message'[t]] /\ message'[t] \in Messages
      /\ message'[t].sources = message[t].sources /\ message'[t].cites = message[t].cites
      /\ message'[t].execution = message[t].execution
  BY Names DEF Cancel, Inv, TypeOK, Messages
<1>3. next \in TurnStates /\ TurnInv(next, message'[t], executions[t])
  BY <1>1, <1>2, Typed, EndKeepsTurnInv
<1>4. /\ executions' = [executions EXCEPT ![t] = executions'[t]]
      /\ executions'[t] = executions[t]
  BY DEF Cancel, Inv, TypeOK
<1> HIDE DEF next
<1> QED BY <1>1, <1>2, <1>3, <1>4, Typed DEF Advances, Cancel, Step

\* The nodes that choose.
LEMMA ClassifyAdvances ==
    ASSUME Inv, NEW t \in Turns, ClassifyRequest(t) PROVE Advances(t)
<1>1. PICK proposed \in Intents, confident \in BOOLEAN :
         LET intent == ResolveClassification(turn[t].chosen, proposed, confident)
         IN  Node(t, [turn[t] EXCEPT !.pc = RouteIntent(intent), !.intent = intent,
                                     !.attempt = 0])
  BY DEF ClassifyRequest
<1> DEFINE intent == ResolveClassification(turn[t].chosen, proposed, confident)
<1>2. intent \in Intents
  BY DEF ResolveClassification, Intents
<1>3. RouteIntent(intent) \in {"select_source", "rewrite_document_query", "retrieve_schema",
                              "general_answer", "clarification_answer"}
  BY DEF RouteIntent
<1> HIDE DEF intent
<1> DEFINE next == [turn[t] EXCEPT !.pc = RouteIntent(intent), !.intent = intent,
                                   !.attempt = 0]
<1>4. Node(t, next)
  BY <1>1 DEF intent
<1>5. next \in TurnStates
  <2>1. turn[t] \in TurnStates /\ RouteIntent(intent) \in Nodes
    BY Typed, <1>3, Names
  <2> QED BY <2>1, <1>2, Names DEF TurnStates
<1>6. TurnInv(next, message[t], executions[t])
  BY Typed, <1>3 DEF ClassifyRequest, TurnInv, Queries, Audited, Told, Founded, Rests,
                     Unparsed, BeforeRows, BeforeSql, Nodes, TurnStates
<1> HIDE DEF next
<1> QED BY <1>4, <1>5, <1>6, NodeAdvances

LEMMA ClarifyKeeps ==
    ASSUME NEW s \in TurnStates, NEW m \in Messages, NEW e \in Seq(Executions),
           TurnInv(s, m, e), s.pc \in BeforeSql \cap Nodes
    PROVE  Clarify(s) \in TurnStates /\ TurnInv(Clarify(s), m, e)
<1>1. Clarify(s) \in TurnStates
  BY Names DEF Clarify, TurnStates
<1>2. TurnInv(Clarify(s), m, e)
  BY DEF Clarify, TurnInv, Queries, Audited, Told, Founded, Rests, Unparsed, BeforeRows,
         BeforeSql, Nodes, TurnStates
<1> QED BY <1>1, <1>2

LEMMA RetrieveSchemaAdvances ==
    ASSUME Inv, NEW t \in Turns, RetrieveSchema(t) PROVE Advances(t)
<1>1. PICK found \in BOOLEAN :
         LET read == [turn[t] EXCEPT !.open = TRUE]
         IN  /\ found => connection # "inactive"
             /\ Node(t, IF found THEN [read EXCEPT !.pc = "generate_sql"] ELSE Clarify(read))
  BY DEF RetrieveSchema
<1> DEFINE read == [turn[t] EXCEPT !.open = TRUE]
           next == [read EXCEPT !.pc = "generate_sql"]
<1>2. read \in TurnStates /\ next \in TurnStates
  <2>1. turn[t] \in TurnStates
    BY Typed
  <2> QED BY <2>1, Names DEF TurnStates
<1>3. read.pc \in BeforeSql \cap Nodes /\ TurnInv(read, message[t], executions[t])
  BY Typed DEF RetrieveSchema, Reply, DocumentCitations, TurnInv, Queries, Audited, Told,
               Founded, Rests, Unparsed, BeforeRows, BeforeSql, Nodes, TurnStates
<1>4. TurnInv(next, message[t], executions[t])
  BY Typed DEF RetrieveSchema, TurnInv, Queries, Audited, Told, Founded, Rests, Unparsed,
               BeforeRows, BeforeSql, Nodes, TurnStates
<1>5. Node(t, next) \/ Node(t, Clarify(read))
  BY <1>1
<1> HIDE DEF read, next
<1>6. Clarify(read) \in TurnStates /\ TurnInv(Clarify(read), message[t], executions[t])
  BY <1>2, <1>3, ClarifyKeeps, Typed
<1> QED BY <1>2, <1>4, <1>5, <1>6, NodeAdvances

LEMMA GenerateSqlAdvances ==
    ASSUME Inv, NEW t \in Turns, GenerateSql(t) PROVE Advances(t)
<1>1. PICK sql \in BOOLEAN :
         LET proposal == [turn[t] EXCEPT !.sql = sql, !.attempt = 0]
         IN  Node(t, IF sql THEN [proposal EXCEPT !.pc = "validate_execute"]
                     ELSE Clarify(proposal))
  BY DEF GenerateSql
<1> DEFINE proposal == [turn[t] EXCEPT !.sql = sql, !.attempt = 0]
           next == [proposal EXCEPT !.pc = "validate_execute"]
<1>2. proposal \in TurnStates /\ next \in TurnStates
  <2>1. turn[t] \in TurnStates
    BY Typed
  <2> QED BY <2>1, Names DEF TurnStates
<1>3. proposal.pc \in BeforeSql \cap Nodes /\ TurnInv(proposal, message[t], executions[t])
  BY Typed DEF GenerateSql, Reply, DocumentCitations, TurnInv, Queries, Audited, Told,
               Founded, Rests, Unparsed, BeforeRows, BeforeSql, Nodes, TurnStates
<1>4. TurnInv(next, message[t], executions[t])
  BY Typed DEF GenerateSql, TurnInv, Queries, Audited, Told, Founded, Rests, Unparsed,
               BeforeRows, BeforeSql, Nodes, TurnStates
<1>5. Node(t, next) \/ Node(t, Clarify(proposal))
  BY <1>1
<1> HIDE DEF proposal, next
<1>6. Clarify(proposal) \in TurnStates /\ TurnInv(Clarify(proposal), message[t], executions[t])
  BY <1>2, <1>3, ClarifyKeeps, Typed
<1> QED BY <1>2, <1>4, <1>5, <1>6, NodeAdvances

LEMMA RepairSqlAdvances ==
    ASSUME Inv, NEW t \in Turns, RepairSql(t) PROVE Advances(t)
<1>1. PICK sql \in BOOLEAN :
         Node(t, [turn[t] EXCEPT !.pc = "validate_execute", !.sql = sql,
                                 !.repaired = TRUE, !.attempt = 0])
  BY DEF RepairSql
<1> DEFINE next == [turn[t] EXCEPT !.pc = "validate_execute", !.sql = sql,
                                   !.repaired = TRUE, !.attempt = 0]
<1>2. next \in TurnStates
  <2>1. turn[t] \in TurnStates
    BY Typed
  <2> QED BY <2>1, Names DEF TurnStates
<1>3. TurnInv(next, message[t], executions[t])
  BY Typed DEF RepairSql, TurnInv, Queries, Audited, Told, Founded, Rests, Unparsed,
               BeforeRows, BeforeSql, Nodes, TurnStates
<1>4. Node(t, next)
  BY <1>1
<1> HIDE DEF next
<1> QED BY <1>2, <1>3, <1>4, NodeAdvances

LEMMA RetrieveDocumentsAdvances ==
    ASSUME Inv, NEW t \in Turns, RetrieveDocuments(t) PROVE Advances(t)
<1>1. PICK evidence \in BOOLEAN :
         Node(t, [turn[t] EXCEPT !.open = TRUE, !.evidence = evidence,
                    !.pc = IF turn[t].intent = "hybrid" THEN "hybrid_answer"
                           ELSE "generate_document_answer"])
  BY DEF RetrieveDocuments
<1> DEFINE pc == IF turn[t].intent = "hybrid" THEN "hybrid_answer"
                 ELSE "generate_document_answer"
           next == [turn[t] EXCEPT !.open = TRUE, !.evidence = evidence, !.pc = pc]
<1>2. next \in TurnStates
  <2>1. turn[t] \in TurnStates /\ pc \in Nodes
    BY Typed, Names
  <2> QED BY <2>1 DEF TurnStates
<1>3. TurnInv(next, message[t], executions[t])
  BY Typed DEF RetrieveDocuments, TurnInv, Queries, Audited, Told, Founded, Rests,
               Unparsed, BeforeRows, BeforeSql, Nodes, TurnStates
<1>4. Node(t, next)
  BY <1>1
<1> HIDE DEF next
<1> QED BY <1>2, <1>3, <1>4, NodeAdvances

\* An answer may drop tables and sources; it names the database only for rows.
LEMMA AnswerKeeps ==
    ASSUME NEW s \in TurnStates, NEW m \in Messages, NEW e \in Seq(Executions),
           TurnInv(s, m, e), s.pc \in {"generate_document_answer", "hybrid_answer"},
           NEW next \in TurnStates, next.pc = "persist_result", next.end = s.end,
           next.rows = s.rows, next.execution = s.execution,
           next.tables => s.tables, "database" \in next.sources => s.rows # "none"
    PROVE  TurnInv(next, m, e)
BY DEF TurnInv, Queries, Audited, Told, Founded, Rests, BeforeRows, BeforeSql, Nodes

LEMMA GenerateDocumentAnswerAdvances ==
    ASSUME Inv, NEW t \in Turns, GenerateDocumentAnswer(t) PROVE Advances(t)
<1> DEFINE done == [turn[t] EXCEPT !.pc = "persist_result", !.attempt = 0,
                                   !.sources = {}, !.documents = FALSE]
           plain(status) == [done EXCEPT !.status = status]
           cites(cited) == [done EXCEPT !.status = "completed",
                              !.documents = (cited # {}),
                              !.sources = IF cited # {} THEN {"documents"} ELSE {}]
<1>1. turn[t] \in TurnStates /\ turn[t].pc = "generate_document_answer"
  BY Typed DEF GenerateDocumentAnswer
<1>2. \/ Node(t, plain("completed")) \/ Node(t, plain("failed"))
      \/ \E cited \in Cited : Node(t, cites(cited))
  BY DEF GenerateDocumentAnswer
<1>3. done \in TurnStates
  BY <1>1, Names DEF TurnStates
<1>4. ASSUME NEW status \in MessageStatuses
      PROVE  plain(status) \in TurnStates /\ TurnInv(plain(status), message[t], executions[t])
  <2>1. plain(status) \in TurnStates
    BY <1>3 DEF TurnStates
  <2>2. /\ plain(status).pc = "persist_result" /\ plain(status).end = turn[t].end
        /\ plain(status).rows = turn[t].rows /\ plain(status).execution = turn[t].execution
        /\ plain(status).tables = turn[t].tables /\ plain(status).sources = {}
    BY <1>1 DEF TurnStates
  <2> HIDE DEF plain
  <2> QED BY <1>1, <2>1, <2>2, Typed, AnswerKeeps
<1>5. ASSUME NEW cited \in Cited
      PROVE  cites(cited) \in TurnStates /\ TurnInv(cites(cited), message[t], executions[t])
  <2>1. (IF cited # {} THEN {"documents"} ELSE {}) \in SUBSET Kinds
    BY DEF Kinds
  <2>2. cites(cited) \in TurnStates
    BY <1>3, <2>1, Names DEF TurnStates
  <2>3. /\ cites(cited).pc = "persist_result" /\ cites(cited).end = turn[t].end
        /\ cites(cited).rows = turn[t].rows /\ cites(cited).execution = turn[t].execution
        /\ cites(cited).tables = turn[t].tables /\ "database" \notin cites(cited).sources
    BY <1>1 DEF TurnStates
  <2> HIDE DEF cites
  <2> QED BY <1>1, <2>2, <2>3, Typed, AnswerKeeps
<1> HIDE DEF plain, cites
<1> QED BY <1>2, <1>4, <1>5, Names, NodeAdvances

LEMMA CitingTyped ==
    ASSUME NEW s \in TurnStates, NEW documents \in BOOLEAN, NEW tables \in BOOLEAN,
           NEW sources \in SUBSET Kinds
    PROVE  [s EXCEPT !.status = "completed", !.documents = documents,
                     !.tables = tables, !.sources = sources] \in TurnStates
BY Names DEF TurnStates

LEMMA HybridAnswerAdvances ==
    ASSUME Inv, NEW t \in Turns, HybridAnswer(t) PROVE Advances(t)
<1> DEFINE done == [turn[t] EXCEPT !.pc = "persist_result", !.attempt = 0,
                                   !.sources = {}, !.documents = FALSE]
           plain(status) == [done EXCEPT !.status = status]
           from(cited) == {k \in Kinds : IF k = "database" THEN "DB1" \in cited
                                         ELSE "DOC" \in cited}
           cites(cited) == [done EXCEPT !.status = "completed",
                              !.documents = ("DOC" \in cited),
                              !.tables = @ /\ "DB1" \in cited,
                              !.sources = from(cited)]
<1>1. turn[t] \in TurnStates /\ turn[t].pc = "hybrid_answer"
  BY Typed DEF HybridAnswer
<1>2. \/ Node(t, plain("completed")) \/ Node(t, plain("failed"))
      \/ \E cited \in Cited : cited \subseteq Evidence(turn[t]) /\ Node(t, cites(cited))
  BY DEF HybridAnswer
<1>3. done \in TurnStates
  BY <1>1, Names DEF TurnStates
<1>4. ASSUME NEW status \in MessageStatuses
      PROVE  plain(status) \in TurnStates /\ TurnInv(plain(status), message[t], executions[t])
  <2>1. plain(status) \in TurnStates
    BY <1>3 DEF TurnStates
  <2>2. /\ plain(status).pc = "persist_result" /\ plain(status).end = turn[t].end
        /\ plain(status).rows = turn[t].rows /\ plain(status).execution = turn[t].execution
        /\ plain(status).tables = turn[t].tables /\ plain(status).sources = {}
    BY <1>1 DEF TurnStates
  <2> HIDE DEF plain
  <2> QED BY <1>1, <2>1, <2>2, Typed, AnswerKeeps
<1>5. ASSUME NEW cited \in Cited, cited \subseteq Evidence(turn[t])
      PROVE  cites(cited) \in TurnStates /\ TurnInv(cites(cited), message[t], executions[t])
  <2>1. from(cited) \in SUBSET Kinds /\ ("database" \in from(cited) => turn[t].rows # "none")
    BY <1>5 DEF Kinds, Evidence
  <2> HIDE DEF from
  <2>2. cites(cited) \in TurnStates
    <3> DEFINE tables == turn[t].tables /\ "DB1" \in cited
               documents == "DOC" \in cited
    <3>1. tables \in BOOLEAN /\ documents \in BOOLEAN
      BY <1>1 DEF TurnStates
    <3>2. cites(cited) = [done EXCEPT !.status = "completed", !.documents = documents,
                                      !.tables = tables, !.sources = from(cited)]
      BY <1>1 DEF TurnStates
    <3> HIDE DEF tables, documents, cites, done
    <3>3. [done EXCEPT !.status = "completed", !.documents = documents,
                       !.tables = tables, !.sources = from(cited)] \in TurnStates
      BY ONLY <1>3, <2>1, <3>1, CitingTyped
    <3> QED BY <3>2, <3>3
  <2>3. /\ cites(cited).pc = "persist_result" /\ cites(cited).end = turn[t].end
        /\ cites(cited).rows = turn[t].rows /\ cites(cited).execution = turn[t].execution
        /\ cites(cited).tables => turn[t].tables
        /\ cites(cited).sources = from(cited)
    BY <1>1 DEF TurnStates
  <2> HIDE DEF cites
  <2> QED BY <1>1, <2>1, <2>2, <2>3, Typed, AnswerKeeps
<1> HIDE DEF plain, cites
<1> QED BY <1>2, <1>4, <1>5, Names, NodeAdvances

\* The steps that commit.
LEMMA StartAdvances ==
    ASSUME Inv, NEW t \in Turns, Start(t) PROVE Advances(t)
<1> DEFINE next == [turn[t] EXCEPT !.pc = "load_context"]
           row == [message[t] EXCEPT !.status = "pending"]
<1>1. /\ turn' = [turn EXCEPT ![t] = next] /\ turn'[t] = next
      /\ message' = [message EXCEPT ![t] = row] /\ message'[t] = row
      /\ executions' = [executions EXCEPT ![t] = executions'[t]]
      /\ executions'[t] = executions[t]
  BY DEF Start, Step, Inv, TypeOK
<1>2. next \in TurnStates
  <2>1. turn[t] \in TurnStates
    BY Typed
  <2> QED BY <2>1, Names DEF TurnStates
<1>3. row \in Messages /\ row = [NoMessage EXCEPT !.status = "pending"]
  BY Typed, Names DEF Messages, Start, TurnInv, Told
<1>4. row.status = "pending" /\ row.sources = {} /\ row.cites = {}
  BY <1>3 DEF NoMessage
<1>5. TurnInv(next, row, executions[t])
  BY Typed, <1>4 DEF Start, TurnInv, Queries, Audited, Told, Founded, Rests, Unparsed,
                     BeforeRows, BeforeSql, Nodes, TurnStates
<1> HIDE DEF next, row
<1> QED BY <1>1, <1>2, <1>3, <1>5, Typed DEF Advances, Start, Step

LEMMA PersistResultAdvances ==
    ASSUME Inv, NEW t \in Turns, PersistResult(t) PROVE Advances(t)
<1> DEFINE next == [turn[t] EXCEPT !.pc = "respond", !.open = FALSE]
           row == [status |-> turn[t].status, sources |-> turn[t].sources,
                   cites |-> Citations(turn[t]), execution |-> turn[t].execution]
<1>1. /\ turn' = [turn EXCEPT ![t] = next] /\ turn'[t] = next
      /\ message' = [message EXCEPT ![t] = row] /\ message'[t] = row
      /\ executions' = [executions EXCEPT ![t] = executions'[t]]
      /\ executions'[t] = executions[t]
  BY DEF PersistResult, Step, Inv, TypeOK
<1>2. next \in TurnStates
  <2>1. turn[t] \in TurnStates
    BY Typed
  <2> QED BY <2>1, Names DEF TurnStates
<1>3. row \in Messages
  <2>1. Citations(turn[t]) \in SUBSET Kinds
    BY DEF Citations, DocumentCitations, Kinds
  <2>2. /\ turn[t].status \in MessageStatuses /\ turn[t].sources \in SUBSET Kinds
        /\ turn[t].execution \in Nat
    BY Typed DEF TurnStates
  <2> QED BY <2>1, <2>2 DEF Messages
<1>4. Audited(turn[t], executions[t]) /\ Bounded(executions[t])
      /\ turn[t].pc = "persist_result" /\ turn[t].end = "none"
  BY Typed DEF TurnInv, PersistResult, Told
<1>5. /\ next.pc = "respond" /\ next.end = "none" /\ next.rows = turn[t].rows
      /\ next.tables = turn[t].tables /\ next.sources = turn[t].sources
      /\ next.execution = turn[t].execution /\ next.status = turn[t].status
      /\ next.documents = turn[t].documents
  BY Typed, <1>4 DEF TurnStates
<1> HIDE DEF next
<1>6. row = Reply(next)
  <2>1. turn[t].tables => turn[t].execution # 0
    BY <1>4 DEF Audited, Rests
  <2>2. turn[t].tables \in BOOLEAN /\ turn[t].documents \in BOOLEAN
    BY Typed DEF TurnStates
  <2> QED BY <1>5, <2>1, <2>2 DEF Reply, Citations, DocumentCitations
<1>7. Founded(row, executions[t])
  <2>1. "database" \in row.sources \cup row.cites =>
            turn[t].tables \/ "database" \in turn[t].sources
    BY DEF Citations, DocumentCitations
  <2> QED BY <2>1, <1>4 DEF Founded, Audited, Rests
<1>8. Queries(next, executions[t]) /\ Audited(next, executions[t]) /\ Told(next, row)
  BY <1>4, <1>5, <1>6 DEF Queries, Audited, Rests, Told, BeforeRows, BeforeSql, Nodes
<1>9. TurnInv(next, row, executions[t])
  BY <1>4, <1>7, <1>8 DEF TurnInv
<1> HIDE DEF row
<1> QED BY <1>1, <1>2, <1>3, <1>9, Typed DEF Advances, PersistResult, Step

\* The state after a rejection, and where it leads.
LEMMA RejectedKeeps ==
    ASSUME Inv, NEW t \in Turns, NEW syntax \in BOOLEAN,
           turn[t].pc \in {"validate_execute", "execute_query"},
           executions'[t] \in Seq(Executions), Len(executions'[t]) >= 1,
           Bounded(executions'[t]),
           syntax /\ ~turn[t].repaired => Unparsed(executions'[t])
    PROVE  /\ Rejected(t, syntax) \in TurnStates
           /\ TurnInv(Rejected(t, syntax), message[t], executions'[t])
<1> DEFINE state == [turn[t] EXCEPT !.open = TRUE, !.syntax = syntax,
                                    !.execution = Len(executions'[t]), !.status = "failed"]
           next == [state EXCEPT !.pc = RouteExecution(state)]
<1>1. state \in TurnStates
  <2>1. turn[t] \in TurnStates /\ Len(executions'[t]) \in Nat
    BY Typed, LenProperties
  <2> QED BY <2>1, Names DEF TurnStates
<1>2. /\ state.rows = "none" /\ ~state.tables /\ state.sources = {} /\ state.end = "none"
      /\ state.syntax = syntax /\ state.repaired = turn[t].repaired
  BY Typed DEF TurnInv, Queries, Told, BeforeRows, TurnStates
<1> HIDE DEF state
<1>3. RouteExecution(state) \in {"rewrite_document_query", "repair_sql", "persist_result"}
      /\ (RouteExecution(state) = "repair_sql" => ~state.repaired /\ state.syntax)
  BY <1>2 DEF RouteExecution
<1>4. next \in TurnStates
  <2>1. RouteExecution(state) \in Nodes
    BY <1>3, Names
  <2> QED BY <1>1, <2>1 DEF TurnStates
<1>5. /\ next.pc = RouteExecution(state) /\ next.rows = "none" /\ ~next.tables
      /\ next.sources = {} /\ next.end = "none" /\ next.repaired = state.repaired
  BY <1>1, <1>2 DEF TurnStates
<1>6. message[t].status = "pending" /\ message[t].sources = {} /\ message[t].cites = {}
  BY Typed, Names DEF TurnInv, Told
<1>7. Rejected(t, syntax) = next
  BY DEF Rejected, state
<1> HIDE DEF next
<1>8. TurnInv(next, message[t], executions'[t])
  BY <1>2, <1>3, <1>5, <1>6 DEF TurnInv, Queries, Audited, Told, Founded, BeforeRows,
                                BeforeSql, Nodes
<1> QED BY <1>4, <1>7, <1>8

LEMMA ValidateExecuteAdvances ==
    ASSUME Inv, NEW t \in Turns, ValidateExecute(t) PROVE Advances(t)
<1> DEFINE e == executions[t]
           audit(accepted, syntax, status) ==
               [accepted |-> accepted, syntax |-> syntax, status |-> status]
<1>1. /\ turn[t].pc = "validate_execute" /\ turn[t].pc # "ended" /\ e \in Seq(Executions)
      /\ IF turn[t].repaired THEN Unparsed(e) ELSE e = <<>>
  BY Typed DEF ValidateExecute, TurnInv, Queries
<1>2. message[t].status = "pending" /\ message[t].sources = {} /\ message[t].cites = {}
  BY Typed, <1>1, Names DEF TurnInv, Told
<1>3. CASE Raise(t, TRUE, TRUE) /\ UNCHANGED executions
  BY <1>1, <1>3, RaiseAdvances
<1>4. ASSUME NEW accepted \in BOOLEAN, NEW syntax \in BOOLEAN,
             NEW status \in {"pending", "rejected"},
             status = "rejected" => ~accepted
      PROVE  LET e2 == Append(e, audit(accepted, syntax, status))
             IN  /\ e2 \in Seq(Executions) /\ e2 # <<>> /\ Len(e2) >= 1 /\ Bounded(e2)
                 /\ e2[Len(e2)] = audit(accepted, syntax, status)
                 /\ IF turn[t].repaired
                    THEN Len(e2) = 2 /\ e2[1].status = "rejected" /\ e2[1].syntax
                    ELSE Len(e2) = 1
  <2> DEFINE row == audit(accepted, syntax, status)
             e2 == Append(e, row)
  <2>1. row \in Executions
    BY DEF Executions
  <2> HIDE DEF row
  <2>2. /\ e2 \in Seq(Executions) /\ e2 # <<>> /\ Len(e2) = Len(e) + 1
        /\ \A i \in 1 .. Len(e) : e2[i] = e[i]
        /\ e2[Len(e) + 1] = row
    BY <1>1, <2>1, AppendProperties
  <2>3. Len(e) = IF turn[t].repaired THEN 1 ELSE 0
    BY <1>1 DEF Unparsed
  <2> HIDE DEF e2
  <2>4. IF turn[t].repaired
        THEN Len(e2) = 2 /\ e2[1].status = "rejected" /\ e2[1].syntax
        ELSE Len(e2) = 1
    BY <1>1, <2>2, <2>3 DEF Unparsed
  <2>5. e2 \in Seq(Executions) /\ e2 # <<>> /\ Len(e2) >= 1 /\ Bounded(e2) /\ e2[Len(e2)] = row
    BY <2>2, <2>3, <2>4 DEF Bounded
  <2> QED BY <2>4, <2>5 DEF e2, row
<1>5. CASE /\ executions' = [executions EXCEPT ![t] = Append(@, audit(TRUE, FALSE, "pending"))]
           /\ Step(t, [turn[t] EXCEPT !.pc = "execute_query", !.open = FALSE])
           /\ UNCHANGED message
  <2> DEFINE next == [turn[t] EXCEPT !.pc = "execute_query", !.open = FALSE]
             e2 == Append(e, audit(TRUE, FALSE, "pending"))
  <2>1. /\ turn' = [turn EXCEPT ![t] = next] /\ turn'[t] = next
        /\ executions' = [executions EXCEPT ![t] = e2] /\ executions'[t] = e2
        /\ message' = [message EXCEPT ![t] = message'[t]] /\ message'[t] = message[t]
    BY <1>5 DEF Step, Inv, TypeOK
  <2>2. next \in TurnStates
    <3>1. turn[t] \in TurnStates
      BY Typed
    <3> QED BY <3>1, Names DEF TurnStates
  <2>3. /\ e2 \in Seq(Executions) /\ e2 # <<>> /\ Bounded(e2) /\ e2[Len(e2)].accepted
        /\ IF turn[t].repaired
           THEN Len(e2) = 2 /\ e2[1].status = "rejected" /\ e2[1].syntax
           ELSE Len(e2) = 1
    <3>1. /\ e2 \in Seq(Executions) /\ e2 # <<>> /\ Bounded(e2)
          /\ e2[Len(e2)] = audit(TRUE, FALSE, "pending")
          /\ IF turn[t].repaired
             THEN Len(e2) = 2 /\ e2[1].status = "rejected" /\ e2[1].syntax
             ELSE Len(e2) = 1
      BY <1>4
    <3>2. audit(TRUE, FALSE, "pending").accepted
      OBVIOUS
    <3> HIDE DEF e2, audit
    <3> QED BY <3>1, <3>2
  <2>4. /\ next.pc = "execute_query" /\ next.rows = "none" /\ ~next.tables
        /\ next.sources = {} /\ next.end = "none" /\ next.repaired = turn[t].repaired
    BY Typed, <1>1 DEF TurnStates, TurnInv, Queries, Told, BeforeRows
  <2> HIDE DEF next, e2
  <2>5. TurnInv(next, message[t], e2)
    BY <1>2, <2>3, <2>4 DEF TurnInv, Queries, Audited, Told, Founded, BeforeRows,
                            BeforeSql, Nodes
  <2> QED BY <1>5, <2>1, <2>2, <2>3, <2>5, Typed DEF Advances, Step
<1>6. CASE \E syntax \in BOOLEAN :
             /\ executions' = [executions EXCEPT ![t] =
                   Append(@, audit(FALSE, syntax, "rejected"))]
             /\ Step(t, Rejected(t, syntax))
             /\ UNCHANGED message
  <2>1. PICK syntax \in BOOLEAN :
             /\ executions' = [executions EXCEPT ![t] =
                   Append(@, audit(FALSE, syntax, "rejected"))]
             /\ Step(t, Rejected(t, syntax))
             /\ UNCHANGED message
    BY <1>6
  <2> DEFINE next == Rejected(t, syntax)
             e2 == Append(e, audit(FALSE, syntax, "rejected"))
  <2>2. /\ turn' = [turn EXCEPT ![t] = next] /\ turn'[t] = next
        /\ executions' = [executions EXCEPT ![t] = e2] /\ executions'[t] = e2
        /\ message' = [message EXCEPT ![t] = message'[t]] /\ message'[t] = message[t]
    BY <2>1 DEF Step, Inv, TypeOK
  <2>3. /\ e2 \in Seq(Executions) /\ Len(e2) >= 1 /\ Bounded(e2)
        /\ e2[Len(e2)] = audit(FALSE, syntax, "rejected")
        /\ ~turn[t].repaired => Len(e2) = 1
    BY <1>4
  <2>4. syntax /\ ~turn[t].repaired => Unparsed(e2)
    BY <2>3 DEF Unparsed
  <2> HIDE DEF next, e2
  <2>5. next \in TurnStates /\ TurnInv(next, message[t], e2)
    BY <1>1, <2>2, <2>3, <2>4, RejectedKeeps DEF next
  <2> QED BY <2>1, <2>2, <2>3, <2>5, Typed DEF Advances, Step
<1> QED BY <1>3, <1>5, <1>6 DEF ValidateExecute

LEMMA ExecuteQueryAdvances ==
    ASSUME Inv, NEW t \in Turns, ExecuteQuery(t) PROVE Advances(t)
<1> DEFINE e == executions[t]
           audited(status) == [e EXCEPT ![Len(e)].status = status]
<1>1. /\ turn[t].pc = "execute_query" /\ turn[t].pc # "ended" /\ e \in Seq(Executions)
      /\ e # <<>> /\ e[Len(e)].accepted
      /\ IF turn[t].repaired THEN Len(e) = 2 /\ e[1].status = "rejected" /\ e[1].syntax
         ELSE Len(e) = 1
  BY Typed DEF ExecuteQuery, TurnInv, Queries
<1>2. message[t].status = "pending" /\ message[t].sources = {} /\ message[t].cites = {}
  BY Typed, <1>1, Names DEF TurnInv, Told
<1>3. CASE Raise(t, FALSE, TRUE) /\ UNCHANGED executions
  BY <1>1, <1>3, RaiseAdvances
<1>4. ASSUME NEW status \in {"succeeded", "failed", "timeout"}
      PROVE  /\ audited(status) \in Seq(Executions) /\ Len(audited(status)) = Len(e)
             /\ Len(e) \in Nat /\ Len(e) >= 1 /\ Bounded(audited(status))
             /\ audited(status)[Len(e)].accepted
             /\ audited(status)[Len(e)].status = status
  <2> DEFINE e2 == audited(status)
  <2>1. Len(e) \in 1 .. 2 /\ e \in [1 .. Len(e) -> Executions]
    BY <1>1, LenProperties
  <2>2. e[Len(e)] \in Executions
    <3> HIDE DEF e
    <3>1. Len(e) \in 1 .. Len(e)
      BY <2>1
    <3> QED BY <2>1, <3>1
  <2>3. [e[Len(e)] EXCEPT !.status = status] \in Executions
    BY <2>2 DEF Executions
  <2>4. e2 \in [1 .. Len(e) -> Executions]
    BY <2>1, <2>3
  <2>5. e2 \in Seq(Executions) /\ Len(e2) = Len(e)
    BY <2>1, <2>4, LenProperties, SeqDef
  <2>6. e2[Len(e)] = [e[Len(e)] EXCEPT !.status = status]
    BY <2>1
  <2>7. e2[Len(e)].accepted /\ e2[Len(e)].status = status
    BY <1>1, <2>2, <2>6 DEF Executions
  <2>8. Len(e) = 2 => e2[1] = e[1]
    BY <2>1
  <2> HIDE DEF e2
  <2>9. Len(e) = 2 => e[1].status = "rejected" /\ e[1].syntax
    BY <1>1
  <2>10. Bounded(e2)
    <3>1. Len(e2) <= 2
      <4>1. Len(e) <= 2
        BY <1>1
      <4> QED BY <2>5, <4>1, Zenon
    <3>2. Len(e2) = 2 => e2[1].status = "rejected" /\ e2[1].syntax
      BY <2>5, <2>8, <2>9, Zenon
    <3> QED BY <3>1, <3>2 DEF Bounded
  <2> QED BY <2>1, <2>5, <2>7, <2>10 DEF e2
<1>5. CASE /\ Audit(t, "succeeded")
           /\ \E rows \in {"empty", "scalar", "many"}, tables \in BOOLEAN :
                LET state == [turn[t] EXCEPT !.rows = rows, !.tables = tables,
                                 !.execution = Len(executions[t]), !.syntax = FALSE,
                                 !.sources = {"database"}, !.status = "completed"]
                IN  Step(t, [state EXCEPT !.pc = RouteExecution(state)])
           /\ UNCHANGED message
  <2>1. PICK rows \in {"empty", "scalar", "many"}, tables \in BOOLEAN :
                LET state == [turn[t] EXCEPT !.rows = rows, !.tables = tables,
                                 !.execution = Len(executions[t]), !.syntax = FALSE,
                                 !.sources = {"database"}, !.status = "completed"]
                IN  Step(t, [state EXCEPT !.pc = RouteExecution(state)])
    BY <1>5
  <2> DEFINE state == [turn[t] EXCEPT !.rows = rows, !.tables = tables,
                         !.execution = Len(executions[t]), !.syntax = FALSE,
                         !.sources = {"database"}, !.status = "completed"]
             next == [state EXCEPT !.pc = RouteExecution(state)]
             e2 == audited("succeeded")
  <2>2. /\ turn' = [turn EXCEPT ![t] = next] /\ turn'[t] = next
        /\ executions' = [executions EXCEPT ![t] = e2] /\ executions'[t] = e2
        /\ message' = [message EXCEPT ![t] = message'[t]] /\ message'[t] = message[t]
    BY <1>5, <2>1 DEF Audit, Step, Inv, TypeOK
  <2>3. state \in TurnStates
    <3>1. turn[t] \in TurnStates /\ Len(executions[t]) \in Nat
      BY Typed, <1>4
    <3>2. {"database"} \in SUBSET Kinds
      BY DEF Kinds
    <3> QED BY <3>1, <3>2, Names DEF TurnStates
  <2>4. /\ state.rows = rows /\ state.execution = Len(e) /\ state.end = "none"
    BY Typed, <1>1 DEF TurnStates, TurnInv, Told
  <2> HIDE DEF state
  <2>5. RouteExecution(state) \in {"rewrite_document_query", "generate_answer"}
    BY <2>4 DEF RouteExecution
  <2>6. next \in TurnStates
    <3>1. RouteExecution(state) \in Nodes
      BY <2>5, Names
    <3> QED BY <2>3, <3>1 DEF TurnStates
  <2>7. /\ next.pc = RouteExecution(state) /\ next.rows = rows
        /\ next.execution = Len(e) /\ next.end = "none"
    BY <2>3, <2>4 DEF TurnStates
  <2> HIDE DEF next
  <2>8. TurnInv(next, message[t], e2)
    <3>1. Bounded(e2) /\ Rests(next, e2)
      BY <1>4, <2>7 DEF Rests
    <3> HIDE DEF e2
    <3> QED BY <1>2, <2>5, <2>7, <3>1
         DEF TurnInv, Queries, Audited, Told, Founded, BeforeRows, BeforeSql, Nodes
  <2> QED BY <1>4, <1>5, <2>1, <2>2, <2>6, <2>8, Typed DEF Advances, Step
<1>6. CASE /\ \E status \in {"failed", "timeout"} : Audit(t, status)
           /\ Step(t, Rejected(t, FALSE))
           /\ UNCHANGED message
  <2>1. PICK status \in {"failed", "timeout"} : Audit(t, status)
    BY <1>6
  <2> DEFINE next == Rejected(t, FALSE)
             e2 == audited(status)
  <2>2. /\ turn' = [turn EXCEPT ![t] = next] /\ turn'[t] = next
        /\ executions' = [executions EXCEPT ![t] = e2] /\ executions'[t] = e2
        /\ message' = [message EXCEPT ![t] = message'[t]] /\ message'[t] = message[t]
    BY <1>6, <2>1 DEF Audit, Step, Inv, TypeOK
  <2>3. e2 \in Seq(Executions) /\ Len(e2) >= 1 /\ Bounded(e2)
    BY <1>4
  <2> HIDE DEF next, e2
  <2>4. next \in TurnStates /\ TurnInv(next, message[t], e2)
    BY <1>1, <2>2, <2>3, RejectedKeeps DEF next
  <2> QED BY <1>6, <2>2, <2>3, <2>4, Typed DEF Advances, Step
<1> QED BY <1>3, <1>5, <1>6 DEF ExecuteQuery

-----------------------------------------------------------------------------
(* The theorems.                                                            *)

LEMMA ProgressAdvances ==
    ASSUME Inv, NEW t \in Turns, Progress(t) PROVE Advances(t)
<1>1. CASE ProviderFails(t)
  <2>1. turn[t].pc # "ended" /\ turn[t].open \in BOOLEAN
    BY <1>1, Typed, Names DEF ProviderFails, AsksProvider, TurnStates
  <2> QED BY <1>1, <2>1, RaiseAdvances DEF ProviderFails
<1>2. CASE StatementFails(t)
  <2>1. turn[t].pc # "ended"
    BY <1>2 DEF StatementFails
  <2> QED BY <1>2, <2>1, RaiseAdvances DEF StatementFails
<1> QED BY <1>1, <1>2, StartAdvances, PlainAdvances, ClassifyAdvances,
           RetrieveSchemaAdvances, GenerateSqlAdvances, RepairSqlAdvances,
           ValidateExecuteAdvances, ExecuteQueryAdvances, RetrieveDocumentsAdvances,
           GenerateDocumentAnswerAdvances, HybridAnswerAdvances, PersistResultAdvances
        DEF Progress

\* A step of Next is one of a turn, or one that leaves every turn as it is.
LEMMA NextAdvances ==
    ASSUME Inv, [Next]_vars
    PROVE  \/ \E t \in Turns : Advances(t)
           \/ UNCHANGED <<turn, message, executions>> /\ TypeOK'
<1>1. CASE CreateConversation
  BY <1>1 DEF CreateConversation, Inv, TypeOK, Conversations
<1>2. CASE DeleteConversation
  BY <1>2 DEF DeleteConversation, Inv, TypeOK, Conversations
<1>3. CASE ConnectionChanges
  BY <1>3 DEF ConnectionChanges, Inv, TypeOK
<1>4. CASE UNCHANGED vars
  BY <1>4 DEF vars, Inv, TypeOK
<1>5. ASSUME NEW t \in Turns, Accept(t) \/ Progress(t) \/ Cancel(t) \/ Crash(t)
      PROVE  Advances(t)
  BY <1>5, AcceptAdvances, ProgressAdvances, CancelAdvances, CrashAdvances
<1> QED BY <1>1, <1>2, <1>3, <1>4, <1>5 DEF Next

LEMMA InvInit == Init => Inv
<1> SUFFICES ASSUME Init PROVE Inv
  OBVIOUS
<1>1. Fresh \in TurnStates
  BY Names DEF Fresh, TurnStates, Intents, MessageStatuses
<1>2. NoMessage \in Messages
  BY DEF NoMessage, Messages, MessageStatuses
<1>3. TypeOK
  BY <1>1, <1>2 DEF Init, TypeOK, Conversations, ConnectionStates
<1>4. TurnInv(Fresh, NoMessage, <<>>)
  BY DEF TurnInv, Queries, Audited, Bounded, Told, Founded, Fresh, NoMessage, BeforeRows,
         BeforeSql, Nodes
<1> QED BY <1>3, <1>4 DEF Init, Inv

THEOREM InvHolds == Spec => []Inv
<1>1. Inv /\ [Next]_vars => Inv'
  <2> SUFFICES ASSUME Inv, [Next]_vars PROVE Inv'
    OBVIOUS
  <2>1. CASE UNCHANGED <<turn, message, executions>> /\ TypeOK'
    BY <2>1 DEF Inv
  <2> QED BY <2>1, NextAdvances, AdvancesKeepsInv
<1> QED BY <1>1, InvInit, PTL DEF Spec

\* Every variable keeps its type: no call to the model is tried more than
\* MaxRetries + 1 times.
THEOREM TypeCorrect == Spec => []TypeOK
<1>1. Inv => TypeOK
  BY DEF Inv
<1> QED BY <1>1, InvHolds, PTL

\* What a message says of the database rests on an accepted and succeeded
\* execution of its own turn.
THEOREM AnswersRestOnAudits == Spec => []AnswerRestsOnAudit
<1>1. Inv => AnswerRestsOnAudit
  BY DEF Inv, TurnInv, Founded, AnswerRestsOnAudit
<1> QED BY <1>1, InvHolds, PTL

\* At most one repair, and only of a query that could not be parsed.
THEOREM OnlySyntaxIsRepaired == Spec => []RepairsSyntaxOnly
<1>1. Inv => RepairsSyntaxOnly
  BY DEF Inv, TurnInv, Bounded, RepairsSyntaxOnly
<1> QED BY <1>1, InvHolds, PTL

\* The reply of an answered turn is what its message says.
THEOREM RepliesAreStored == Spec => []ReplyIsStored
<1>1. Inv => ReplyIsStored
  BY DEF Inv, TurnInv, Told, ReplyIsStored
<1> QED BY <1>1, InvHolds, PTL

\* A message with an outcome keeps it: a turn whose message is no longer
\* pending has only its reply left to give.
THEOREM OutcomesAreFinal == Spec => OutcomeIsFinal
<1>1. ASSUME Inv, [Next]_vars, NEW t \in Turns,
             message[t].status \notin {"none", "pending"}
      PROVE  message'[t] = message[t]
  <2>1. turn[t].pc \in {"respond", "ended"}
    <3>1. turn[t].pc \in Nodes \cup {"idle", "accepted", "ended"}
      BY <1>1, Typed DEF TurnStates
    <3>2. NoMessage.status = "none"
      BY DEF NoMessage
    <3> QED BY <1>1, <3>1, <3>2, Typed DEF TurnInv, Told
  <2>2. ASSUME NEW x \in Turns, Accept(x) \/ Progress(x) \/ Cancel(x) \/ Crash(x), x # t
        PROVE  message'[t] = message[t]
    <3>1. Advances(x)
      BY <1>1, <2>2, AcceptAdvances, ProgressAdvances, CancelAdvances, CrashAdvances
    <3> QED BY <1>1, <2>2, <3>1 DEF Advances, Inv, TypeOK
  <2>3. CASE Accept(t) \/ Progress(t) \/ Crash(t)
    <3>1. CASE Progress(t)
      <4>1. Respond(t)
        BY <2>1, <3>1 DEF Progress, Start, LoadContext, ClassifyRequest, SelectSource,
           RetrieveSchema, GenerateSql, RepairSql, ValidateExecute, ExecuteQuery,
           GenerateAnswer, RewriteDocumentQuery, RetrieveDocuments,
           GenerateDocumentAnswer, HybridAnswer, ClarificationAnswer, GeneralAnswer,
           PersistResult, ProviderRetry, ProviderFails, StatementFails, AsksProvider
      <4> QED BY <4>1 DEF Respond, Node
    <3> QED BY <2>1, <2>3, <3>1, Names DEF Accept, Crash, Node
  <2>4. CASE Cancel(t)
    BY <1>1, <2>4 DEF Cancel
  <2>5. CASE CreateConversation \/ DeleteConversation \/ ConnectionChanges \/ UNCHANGED vars
    BY <2>5 DEF CreateConversation, DeleteConversation, ConnectionChanges, vars
  <2> QED BY <1>1, <2>2, <2>3, <2>4, <2>5 DEF Next
<1>2. Inv /\ [Next]_vars =>
        [\A t \in Turns :
           message[t].status \notin {"none", "pending"} => message'[t] = message[t]]_vars
  BY <1>1
<1> QED BY <1>2, InvHolds, PTL DEF Spec, OutcomeIsFinal
=============================================================================
