----------------------------- MODULE QueryClaims -----------------------------
(* What SECURITY.md:159-163 says of masks, to be compared with the code. *)
EXTENDS MCQueryPipeline

\* Masks follow the final output position through nested subqueries and common table
\* expressions: whatever the query, the mask of an output covers the columns it depends
\* on.  The analyzer looks up a column of a scalar subquery in the sources of the scope
\* around it (column_lineage.py:122), and may find another one of the same name there.
MasksFollowProvenance ==
    stage \in {"accepted", "done"} => \A p \in DOMAIN OutputNames(Root) : Covered(p)
=============================================================================
