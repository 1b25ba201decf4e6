--------------------------- MODULE MCQueryPipeline ---------------------------
(* Constants of the runs on queries over a table of two columns. *)
EXTENDS QueryPipeline, TLC

CONSTANTS m, n

\* Open, hashed and not to be filtered by, nulled and not to be aggregated, hidden.
MCCapabilities ==
    {Everything, Nothing,
     [Everything EXCEPT !.mask = 2, !.filter = FALSE],
     [Everything EXCEPT !.mask = 4, !.aggregate = FALSE]}

\* The whole table, or the rows that meet one of two filters.
MCRowFilters == {{}, {{m}, {n}}}
NoRowFilters == {{}}

Columns == Permutations({m, n})
=============================================================================
