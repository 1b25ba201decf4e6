----------------------------- MODULE MCChatTurn ------------------------------
(***************************************************************************)
(* The turns of ChatTurn for TLC, and the selections whose results a turn  *)
(* passes to the model, evaluated for every input within small bounds.     *)
(***************************************************************************)
EXTENDS ChatTurn

Retrieved == INSTANCE Retrieval

\* Elements of up to 9 tokens, windows of up to 4, every overlap that may be set.
ASSUME WindowsAssumption ==
    \A n \in 0 .. 9, target \in 1 .. 4, overlap \in 0 .. 5 :
        Retrieved!WindowsCover(n, target, overlap)

\* Documents of up to three elements, on either side of the limit of chunks.
ASSUME ChunksAssumption ==
    \A elements \in [1 .. 3 -> 0 .. 4], max \in 1 .. 4 :
        LET chunks == Retrieved!Chunks(elements, 2, 1, max)
            needed == [e \in 1 .. 3 |-> IF elements[e] <= 2 THEN Retrieved!Least(elements[e], 1)
                                        ELSE elements[e] - 1]
            total == needed[1] + needed[2] + needed[3]
        IN  CASE total = 0 -> chunks = "PARSING_FAILED"
              [] total > max -> chunks = "CONTENT_LIMIT_EXCEEDED"
              [] OTHER -> Len(chunks) = total

MCCandidates == [hash : 1 .. 3, page : {1, 2}, size : {1, 2}, relevant : BOOLEAN]

\* Up to three candidates, so that every condition is once the one that leaves
\* a candidate out.
ASSUME EvidenceAssumption ==
    \A length \in 0 .. 3 : \A candidates \in [1 .. length -> MCCandidates], topK \in {1, 3} :
        Retrieved!EvidenceIsMaximal(candidates, topK, 4)

ASSUME MergedAssumption ==
    \A dense, lexical \in {<<>>, <<1>>, <<1, 2>>, <<2, 3>>, <<3, 1>>} :
        LET merged == Retrieved!Merged(dense, lexical)
        IN  /\ \A m \in merged : m.dense > 0 \/ m.lexical > 0
            /\ \A m, o \in merged : m.chunk = o.chunk => m = o

\* Three tables in every ranking, with every visible or hidden neighbour.
ASSUME SchemaAssumption ==
    \A ranked \in {<<>>, <<1>>, <<2, 1>>, <<1, 2, 3>>},
       references \in [1 .. 3 -> {<<>>, <<3>>, <<4, 2>>}],
       readable \in [1 .. 3 -> {1, 3}], maxTables \in 1 .. 3, maxColumns \in {1, 4} :
        Retrieved!SchemaIsBounded(ranked, 1 .. 3, references, readable, maxTables, maxColumns)
=============================================================================
