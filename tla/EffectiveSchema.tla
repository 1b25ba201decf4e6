--------------------------- MODULE EffectiveSchema ---------------------------
(***************************************************************************)
(* What the permissions of one user make of one table: the pure part of    *)
(* services/database/permission_resolver.py and of row_filter.py.          *)
(*                                                                         *)
(* A column permission is a record of capabilities, and the column rows of *)
(* a table permission a function from the columns that have one.  A row    *)
(* filter is the set of the columns its clauses test, {} for no filter.    *)
(***************************************************************************)
EXTENDS Naturals

\* MASK_STRENGTH: none, partial, hash, redact, null.
Masks == 0 .. 4
Unmasked == 0

Capability == [read : BOOLEAN, filter : BOOLEAN, aggregate : BOOLEAN, mask : Masks]
Nothing == [read |-> FALSE, filter |-> FALSE, aggregate |-> FALSE, mask |-> Unmasked]
Everything == [read |-> TRUE, filter |-> TRUE, aggregate |-> TRUE, mask |-> Unmasked]

Strongest(masks) == IF masks = {} THEN Unmasked ELSE CHOOSE m \in masks : \A n \in masks : n <= m

\* What one table permission says of a column: column rows are an allowlist, and
\* without any the columns that are not sensitive are inherited.
Gives(rows, sensitive, c) ==
    IF DOMAIN rows = {} THEN (IF sensitive THEN {} ELSE {Everything})
    ELSE IF c \in DOMAIN rows THEN {rows[c]} ELSE {}

\* _merge_columns, for one column and what the selected permissions give of it.
MergeColumn(given) ==
    [read      |-> \E x \in given : x.read,
     filter    |-> \E x \in given : x.filter,
     aggregate |-> \E x \in given : x.aggregate,
     mask      |-> Strongest({x.mask : x \in {y \in given : y.read}})]

\* Mutant: a permission without a filter adds nothing to the filters of others.
MergeFiltersOfAll(filters) == filters \ {{}}

\* _merge_filters: a permission without a filter gives the whole table, and so
\* the result is {}, no filter at all; otherwise one filter has to be met.
MergeFilters(filters) == IF {} \in filters THEN {} ELSE filters

\* A row, known by the clauses it satisfies, passes the merged filters.
Passes(row, merged) == merged = {} \/ \E f \in merged : f \subseteq row

\* validate_row_filter: every clause is on a column of the table, and on one that
\* may be filtered.  The operator of a clause suits the type of its column: one that
\* does not is refused as well (row_filter.py:55-65).
FilterValid(filter, rows, live, sensitive) ==
    \A c \in filter :
        /\ c \in live
        /\ IF DOMAIN rows = {} THEN c \notin sensitive
           ELSE c \in DOMAIN rows /\ rows[c].filter
=============================================================================
