-------------------------- MODULE IngestionClaims --------------------------
(* What the documentation says of files and what the code does not do. *)
EXTENDS MCIngestion

\* A deleted file stays deleted.  The worker that holds a session on the file
\* overwrites the status: it is listed again, and can be reprocessed.
DeletedStaysDeleted ==
    [][\A f \in Files : row[f].status = "deleted" => row'[f].status = "deleted"]_vars
=============================================================================
