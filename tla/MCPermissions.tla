---------------------------- MODULE MCPermissions ----------------------------
(* Constants of the runs on the permissions of one table. *)
EXTENDS Permissions, TLC

CONSTANTS c1, c2

\* Columns are given as they are or hashed; one without a row is withheld.
MCCapabilities == {Everything, [Everything EXCEPT !.mask = 2]}
MCFilters == {{}, {c1}}
Symmetric == Permutations(Requests) \cup Permutations(Subjects)
=============================================================================
