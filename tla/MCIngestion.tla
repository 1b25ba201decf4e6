----------------------------- MODULE MCIngestion -----------------------------
(* Constants of the TLC runs of Ingestion. *)
EXTENDS Ingestion, TLC

CONSTANTS f1, f2, r1, r2, r3

OneFile == (f1 :> "bytes")
SameBytes == (f1 :> "bytes" @@ f2 :> "bytes")

\* An upload, and two requests of which one may upload the same bytes.  What is
\* told apart by its operations needs no symmetry, which liveness forbids.
UploadAndTwo ==
    (r1 :> {"upload"} @@ r2 :> {"upload", "reprocess", "kb_update"}
       @@ r3 :> {"delete", "reprocess", "kb_delete"})

\* Any request may upload, delete or reprocess.
FileRequests == [r \in Requests |-> {"upload", "delete", "reprocess"}]

Processes == Permutations(Requests) \cup Permutations(Workers)
=============================================================================
