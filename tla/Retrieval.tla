------------------------------ MODULE Retrieval ------------------------------
(***************************************************************************)
(* What is cut from documents and metadata for the language model: the     *)
(* windows of the chunker (services/documents/chunker.py), the evidence    *)
(* of a question (services/documents/retrieval.py) and the part of the     *)
(* effective schema a question gets (services/database/schema_retriever.py).*)
(*                                                                         *)
(* Texts are counts of tokens and characters, and rankings are given:      *)
(* scores, embeddings and the matching of words are left out.  Settings    *)
(* are parameters, with the names of app/config.py.                        *)
(***************************************************************************)
EXTENDS Integers, FiniteSets, SequencesExt

Least(m, n) == IF m < n THEN m ELSE n
Total(counts) == FoldLeft(LAMBDA sum, n : sum + n, 0, counts)
-----------------------------------------------------------------------------
(* chunk_document *)

\* The windows of an element of n tokens, each [from + 1 .. to].
Windows(n, target, overlap) ==
    LET stride == target - Least(overlap, target - 1)
        after[start \in 0 .. n] ==
            IF start >= n THEN <<>>
            ELSE IF start + target >= n THEN <<[from |-> start, to |-> n]>>
            ELSE <<[from |-> start, to |-> start + target]>> \o after[start + stride]
    IN  after[0]

\* The chunks of a document, given the tokens of its elements.  Both errors make
\* the file fail; the limit is looked at after every chunk.
Chunks(elements, target, overlap, max) ==
    LET all == FlattenSeq([e \in DOMAIN elements |-> Windows(elements[e], target, overlap)])
    IN  IF Len(all) > max THEN "CONTENT_LIMIT_EXCEEDED"
        ELSE IF all = <<>> THEN "PARSING_FAILED"
        ELSE all
-----------------------------------------------------------------------------
(* DocumentRetrievalService.retrieve *)

Characters(chosen) == Total([i \in DOMAIN chosen |-> chosen[i].size])

\* A candidate has a content hash, a page (of one file), a size in characters,
\* and is relevant or not.
Fits(chosen, c, topK, maxCharacters) ==
    /\ c.relevant
    /\ Len(chosen) < topK
    /\ \A d \in ToSet(chosen) : d.hash # c.hash
    /\ Cardinality({i \in DOMAIN chosen : chosen[i].page = c.page}) < 2
    /\ Characters(chosen) + c.size <= maxCharacters

\* The candidates in the order of their scores, taken while they fit; topK is at
\* least 1 (config.py:95).
Evidence(candidates, topK, maxCharacters) ==
    FoldLeft(LAMBDA chosen, c : IF Fits(chosen, c, topK, maxCharacters)
                                THEN Append(chosen, c) ELSE chosen,
             <<>>, candidates)

\* A chunk that both searches found is one candidate, with both of its ranks.
Merged(dense, lexical) ==
    LET rank(c, found) == IF c \in ToSet(found)
                          THEN CHOOSE i \in DOMAIN found : found[i] = c ELSE 0
    IN  {[chunk |-> c, dense |-> rank(c, dense), lexical |-> rank(c, lexical)] :
            c \in ToSet(dense) \cup ToSet(lexical)}
-----------------------------------------------------------------------------
(* AllowedSchemaRetriever.retrieve *)

\* `ranked` are the tables with a score; `references` are the tables the
\* readable columns of a table refer to, in their order.  Neighbours of the best
\* tables follow them while there is room; neighbours of neighbours do not.  No
\* tables is the code's None (schema_retriever.py:68), at which the graph asks back.
Tables(ranked, allowed, references, maxTables) ==
    LET best == SubSeq(ranked, 1, Least(Len(ranked), maxTables))
        wanted == FlattenSeq([i \in DOMAIN best |-> references[best[i]]])
    IN  FoldLeft(LAMBDA chosen, t :
                    IF /\ Len(chosen) < maxTables
                       /\ t \in allowed
                       /\ t \notin ToSet(chosen)
                    THEN Append(chosen, t) ELSE chosen,
                 best, wanted)

\* How many of its readable columns each chosen table may show.
Columns(chosen, readable, maxColumns) ==
    LET shown[i \in 0 .. Len(chosen)] ==
            IF i = 0 THEN <<>>
            ELSE LET before == shown[i - 1]
                     left == maxColumns - Total(before)
                 IN  Append(before, Least(readable[chosen[i]], left))
    IN  shown[Len(chosen)]
-----------------------------------------------------------------------------
(* What the callers rely on, for given inputs.                             *)

\* Every token is in a window, a window begins where the overlap with the one
\* before it does, none is longer than the target, and each has a token that
\* no window before it has.
WindowsCover(n, target, overlap) ==
    LET w == Windows(n, target, overlap)
    IN  /\ UNION {w[i].from + 1 .. w[i].to : i \in DOMAIN w} = 1 .. n
        /\ \A i \in DOMAIN w :
             /\ w[i].to - w[i].from \in 1 .. target
             /\ i > 1 => /\ w[i].from = w[i - 1].to - Least(overlap, target - 1)
                         /\ w[i].to > w[i - 1].to

\* The evidence keeps the order of the candidates and every bound, and leaves no
\* candidate out that would still fit.
EvidenceIsMaximal(candidates, topK, maxCharacters) ==
    LET chosen == Evidence(candidates, topK, maxCharacters)
    IN  /\ Len(chosen) <= topK
        /\ Characters(chosen) <= maxCharacters
        /\ Cardinality({c.hash : c \in ToSet(chosen)}) = Len(chosen)
        /\ \A page \in {c.page : c \in ToSet(chosen)} :
             Cardinality({i \in DOMAIN chosen : chosen[i].page = page}) <= 2
        /\ \E at \in [DOMAIN chosen -> DOMAIN candidates] :
             /\ \A i, j \in DOMAIN chosen : i < j => at[i] < at[j]
             /\ \A i \in DOMAIN chosen : chosen[i] = candidates[at[i]]
        /\ \A c \in ToSet(candidates) : ~Fits(chosen, c, topK, maxCharacters)

\* The schema holds allowed tables only, the best ones first and each once, and
\* no more tables and columns than it may.
SchemaIsBounded(ranked, allowed, references, readable, maxTables, maxColumns) ==
    LET chosen == Tables(ranked, allowed, references, maxTables)
        columns == Columns(chosen, readable, maxColumns)
    IN  /\ ToSet(chosen) \subseteq allowed
        /\ Cardinality(ToSet(chosen)) = Len(chosen)
        /\ Len(chosen) <= maxTables
        /\ IsPrefix(SubSeq(ranked, 1, Least(Len(ranked), maxTables)), chosen)
        /\ \A t \in ToSet(chosen) \ ToSet(ranked) :
             \E u \in ToSet(ranked) : t \in ToSet(references[u])
        /\ Total(columns) <= maxColumns
        /\ \A i \in DOMAIN columns : columns[i] \in 0 .. readable[chosen[i]]
=============================================================================
