---------------------------- MODULE QueryPipeline ----------------------------
(***************************************************************************)
(* What SafeQueryService makes of one SELECT over one table of the user's  *)
(* effective schema: validation of every scope (query_validator.py),       *)
(* lineage of the output columns (column_lineage.py), row filters and the  *)
(* limit (query_rewriter.py), the fetch (adapters/postgresql.py) and the   *)
(* masks (result_masking.py).                                              *)
(*                                                                         *)
(* A query is a sequence of scopes, the last one its root: common table    *)
(* expressions, derived tables, subqueries of an expression and branches   *)
(* of set operations come before the scope whose text they are part of or  *)
(* that reads them.  Expressions are the sets of column references and of  *)
(* subqueries in them; functions, syntax and complexity limits, which      *)
(* reject a query whatever it reads, are left out.  Sources of a scope     *)
(* have names of their own, and a WITH clause stands at the root only.     *)
(***************************************************************************)
EXTENDS EffectiveSchema, Integers, Sequences, FiniteSets

CONSTANTS Names,            \* the columns of the table, and the names of outputs
          Capabilities,     \* what the user may hold of a column
          RowFilters,       \* the merged row filters the table may come with
          MaxScopes,        \* bound on the scopes of a query
          MaxReferences,    \* on the column references in it
          MaxReads,         \* and on the sources that its scopes read
          MaxRows,          \* SAFE_QUERY_MAX_ROWS
          MaxTable          \* bound on the rows the database has for a query

ASSUME CapabilitiesAssumption == Capabilities \subseteq Capability
ASSUME MaxRowsAssumption == MaxRows \in Nat \ {0}
ASSUME BoundsAssumption == MaxScopes \in Nat /\ MaxTable \in Nat

VARIABLES allowed,          \* the effective columns of the table
          filters,          \* and its row filters
          query, stage, plan, result

vars == <<allowed, filters, query, stage, plan, result>>
-----------------------------------------------------------------------------
\* Sources of a scope: 0 is the table, i > 0 the i-th scope.
Table == 0
Unqualified == -1

Ref == [of : Unqualified .. MaxScopes, name : Names]

\* A scope is part of the text of another one, or a common table expression, which
\* may have the name of the table.
Namings == {"inline", "cte", "table"}

\* A select has no branches, and a set operation has nothing else.  An output is
\* [name, refs, nested] with the scalar subqueries of its expression, and `tests`
\* are the subqueries in the conditions.
Select(named, from, outputs, conditions, tests, aggregated) ==
    [named |-> named, branches |-> <<>>, from |-> from, outputs |-> outputs,
     conditions |-> conditions, tests |-> tests, aggregated |-> aggregated]
SetOperation(named, i, j) ==
    [Select(named, {}, <<>>, {}, {}, FALSE) EXCEPT !.branches = <<i, j>>]

Root == Len(query)
Named(naming) == {i \in DOMAIN query : query[i].named = naming}
CommonTables == DOMAIN query \ Named("inline")

Branches(i) == {query[i].branches[b] : b \in DOMAIN query[i].branches}
Nested(i) == UNION {query[i].outputs[p].nested : p \in DOMAIN query[i].outputs}
Subqueries(i) == Nested(i) \cup query[i].tests
Parts(i) == Branches(i) \cup (query[i].from \cap Named("inline")) \cup Subqueries(i)

OutputRefs(i) == UNION {query[i].outputs[p].refs : p \in DOMAIN query[i].outputs}
OwnRefs(i) == OutputRefs(i) \cup query[i].conditions

\* The least set of scopes that holds `start` and is closed under `next`.
Reach(start, next) ==
    {i \in DOMAIN query : \A S \in SUBSET DOMAIN query :
        (start \subseteq S /\ \A j \in S : next[j] \subseteq S) => i \in S}

\* find_all(exp.Column): every reference in the text of an output, in whatever
\* scope of it.
TextRefs(i, p) ==
    query[i].outputs[p].refs \cup
        UNION {OwnRefs(j) : j \in Reach(query[i].outputs[p].nested,
                                        [k \in DOMAIN query |-> Parts(k)])}

\* scope.sources: what a scope reads, and the common table expressions before it.
Visible(i) == query[i].from \cup {j \in CommonTables : j < i}

\* The sources that a reference may mean.
Sources(ref, from) == {f \in from : ref.of \in {Unqualified, f}}
-----------------------------------------------------------------------------
(* ColumnLineageAnalyzer *)

StrongestMask(sources) == Strongest({allowed[c].mask : c \in sources})

\* _source_column: what a source contributes to a name.
SourceColumn(done, from, name) ==
    IF from = Table THEN {c \in {name} : allowed[c].read}
    ELSE UNION {done[from].outputs[p].sources :
                    p \in {q \in DOMAIN done[from].outputs : done[from].outputs[q].name = name}}

\* _resolve_column: exactly one of the sources has to contribute, and the outputs
\* of those that are asked have to be known.
Origins(done, from, ref) ==
    {f \in Sources(ref, from) : SourceColumn(done, f, ref.name) # {}}
Resolved(done, from, ref) ==
    UNION {SourceColumn(done, f, ref.name) : f \in Sources(ref, from)}
Resolves(done, from, ref) ==
    /\ \A f \in Sources(ref, from) \ {Table} : done[f].ok
    /\ Cardinality(Origins(done, from, ref)) = 1

Distinct(outputs) == \A p, q \in DOMAIN outputs : outputs[p].name = outputs[q].name => p = q

\* _projection_lineage: every reference in the text of an output is looked up in
\* the sources of the scope, those of a subquery too.
SelectLineage(done, i) ==
    [ok |-> \A p \in DOMAIN query[i].outputs : \A ref \in TextRefs(i, p) :
                Resolves(done, Visible(i), ref),
     outputs |-> [p \in DOMAIN query[i].outputs |->
                    [name |-> query[i].outputs[p].name,
                     sources |-> UNION {Resolved(done, Visible(i), ref) :
                                           ref \in TextRefs(i, p)}]]]

\* Mutant: the columns of a set operation are those of its first branch.
SetLineageFirst(done, branches) ==
    [done[branches[1]] EXCEPT !.ok = @ /\ done[branches[2]].ok /\
        Len(done[branches[1]].outputs) = Len(done[branches[2]].outputs)]

\* _set_operation_outputs.
SetLineage(done, branches) ==
    LET left == done[branches[1]]
        right == done[branches[2]]
    IN  [ok |-> left.ok /\ right.ok /\ Len(left.outputs) = Len(right.outputs),
         outputs |-> [p \in DOMAIN left.outputs |->
                        [name |-> left.outputs[p].name,
                         sources |-> left.outputs[p].sources \cup
                             (IF p \in DOMAIN right.outputs THEN right.outputs[p].sources
                              ELSE {})]]]

\* Mutant: a scope may have several outputs of one name.
WithoutDuplicatesUnchecked(lineage) == lineage

\* _reject_duplicate_names.
WithoutDuplicates(lineage) == [lineage EXCEPT !.ok = @ /\ Distinct(lineage.outputs)]

\* _scope_outputs, for every scope in turn: `ok` is FALSE where it would raise.
Lineage ==
    LET done[n \in 0 .. Len(query)] ==
            IF n = 0 THEN <<>>
            ELSE Append(done[n - 1], WithoutDuplicates(
                     IF query[n].branches = <<>> THEN SelectLineage(done[n - 1], n)
                     ELSE SetLineage(done[n - 1], query[n].branches)))
    IN  done[Len(query)]

MaskingPlan ==
    LET outputs == Lineage[Root].outputs
    IN  [p \in DOMAIN outputs |-> StrongestMask(outputs[p].sources)]
-----------------------------------------------------------------------------
(* QueryValidator *)

\* table_by_qualified_name holds the tables with a readable column.
TableAllowed == \E c \in Names : allowed[c].read

\* scope.columns: the references of a scope, and of its subqueries those without
\* a qualifier, which might mean a source of the scope.
Inner == [k \in DOMAIN query |-> Subqueries(k) \cup Branches(k)]
Below(i) == Reach(Subqueries(i), Inner)
UnderTests(i) == Reach(UNION {query[j].tests : j \in {i} \cup Below(i)}, Inner)

\* Of the references of scope j, the columns of the table that scope i takes them for.
OfTable(i, j, refs) ==
    {ref.name : ref \in {x \in refs : x.of = Unqualified \/ (i = j /\ x.of = Table)}}

\* _validate_scope looks at the references to the table only.
ScopeValid(i) ==
    Table \in query[i].from =>
        /\ TableAllowed
        /\ \A j \in {i} \cup Below(i) :
              /\ \A c \in OfTable(i, j, OwnRefs(j)) : allowed[c].read
              /\ \A c \in OfTable(i, j, IF j \in UnderTests(i) THEN OwnRefs(j)
                                        ELSE query[j].conditions) : allowed[c].filter
              /\ query[j].aggregated =>
                    \A c \in OfTable(i, j, OutputRefs(j)) : allowed[c].aggregate

\* QueryValidator.validate: every scope is validated, and the lineage of the root,
\* with all it asks for, has to resolve.
Accepted == (\A i \in DOMAIN query : ScopeValid(i)) /\ Lineage[Root].ok
-----------------------------------------------------------------------------
(* QueryRewriter *)

\* Mutant: subqueries in conditions are not rewritten.
ContainedWithoutTests(i) ==
    Branches(i) \cup (query[i].from \cap Named("inline")) \cup Nested(i)
        \cup (IF i = Root THEN CommonTables ELSE {})

\* The scopes whose text stands in the text of a scope; WITH is in that of the root.
Contained(i) == Parts(i) \cup (IF i = Root THEN CommonTables ELSE {})

\* tree.transform visits the whole text of the root.
Visited == Reach({Root}, [k \in DOMAIN query |-> Contained(k)])

\* A table node is known by its name, which a common table expression may have too,
\* and becomes a filtered subquery over the table.
Wrapped(i, f) ==
    /\ filters # {} /\ i \in Visited
    /\ f \in query[i].from /\ f \in {Table} \cup Named("table")

\* The predicate of that subquery: a row has to meet all clauses of some filter.
Met(row) == \E f \in filters : \A c \in f : c \in row

NoLimit == -1
Limits == NoLimit .. MaxRows + 2

\* Mutant: as many rows are fetched as may be returned.
FetchLimitExact(limit) == IF limit = NoLimit \/ limit > MaxRows THEN MaxRows ELSE limit

\* _apply_limit: one row more than may be returned is asked for.
FetchLimit(limit) == IF limit = NoLimit \/ limit > MaxRows + 1 THEN MaxRows + 1 ELSE limit

Least(m, n) == IF m <= n THEN m ELSE n

\* execute_query fetches the sentinel but does not return it, and mask_rows stops
\* at the first row that exceeds the byte limit, after `fit` rows.
Fetched(available, limit) == Least(Least(available, FetchLimit(limit)), MaxRows + 1)

\* Mutant: the sentinel is returned with the rows.
ReturnedWithSentinel(available, limit, fit) == Least(Fetched(available, limit), fit)

Returned(available, limit, fit) == Least(Least(Fetched(available, limit), MaxRows), fit)

\* A row was left in the database, or did not fit.
Truncated(available, limit, fit) ==
    \/ Fetched(available, limit) > MaxRows
    \/ fit < Least(Fetched(available, limit), MaxRows)
-----------------------------------------------------------------------------
(* What PostgreSQL makes of the rewritten query, apart from what the code thinks. *)

\* The scopes that a scope reads or has evaluated: not a common table expression
\* that was replaced by the table.
Runs(i) == {f \in query[i].from : f # Table /\ ~Wrapped(i, f)} \cup Branches(i) \cup Subqueries(i)
Evaluated == Reach({Root}, [k \in DOMAIN query |-> Runs(k)])

\* The rows of the table, known by the clauses they satisfy, that a source yields.
RowsRead(i, f) == IF Wrapped(i, f) THEN {row \in SUBSET Names : Met(row)} ELSE SUBSET Names

\* Every output has a name or an alias: of one without, the analyzer takes the kind of
\* its expression for the name (column_lineage.py:108) and PostgreSQL ?column?, and the
\* adapter refuses a result in which two have the same (postgresql.py:272-273).
OutputNames(i) ==
    LET names[n \in 1 .. Len(query)] ==
            IF query[n].branches = <<>>
            THEN [p \in DOMAIN query[n].outputs |-> query[n].outputs[p].name]
            ELSE names[query[n].branches[1]]
    IN  names[i]

\* The columns <<source, column or position>> that a name of a source stands for,
\* and those that an output is made from.
Means(i, f, name) ==
    IF f = Table \/ Wrapped(i, f) THEN {<<Table, name>>}
    ELSE {<<f, q>> : q \in {x \in DOMAIN OutputNames(f) : OutputNames(f)[x] = name}}
MadeFrom(i, p) ==
    IF query[i].branches # <<>>
    THEN {<<b, p>> : b \in {x \in Branches(i) : p \in DOMAIN OutputNames(x)}}
    ELSE (UNION {{<<j, q>> : q \in DOMAIN OutputNames(j)} : j \in query[i].outputs[p].nested})
         \cup (UNION {UNION {Means(i, f, ref.name) : f \in Sources(ref, query[i].from)} :
                         ref \in query[i].outputs[p].refs})

\* All that an output of the root depends on, and the columns of the table among it.
Reached(p) ==
    LET reached[n \in 0 .. MaxScopes] ==
            IF n = 0 THEN {<<Root, p>>}
            ELSE reached[n - 1] \cup
                 UNION {MadeFrom(x[1], x[2]) : x \in {y \in reached[n - 1] : y[1] # Table}}
    IN  reached[MaxScopes]
DependsOn(p) == {x[2] : x \in {y \in Reached(p) : y[1] = Table}}
-----------------------------------------------------------------------------
NoResult == [available |-> 0, limit |-> NoLimit, rows |-> 0, truncated |-> FALSE]

Init ==
    /\ allowed \in [Names -> Capabilities]
    /\ filters \in RowFilters
    /\ query = <<>> /\ stage = "posed" /\ plan = <<>> /\ result = NoResult

\* The scopes that are not yet part of another one.
Pending == Named("inline") \ UNION {Parts(i) : i \in DOMAIN query}

Reads == UNION {{i} \X query[i].from : i \in DOMAIN query}
References ==
    UNION {({0} \X {i} \X query[i].conditions) \cup
              UNION {{p} \X {i} \X query[i].outputs[p].refs : p \in DOMAIN query[i].outputs} :
                 i \in DOMAIN query}

\* Of the pending scopes, those of `taken` become part of the next one.  A common table
\* expression takes all of them, and one may have the name of the table; the last scope
\* there is room for is the root.
MayPose(named, taken) ==
    /\ stage = "posed" /\ Len(query) < MaxScopes
    /\ named # "inline" \/ Len(query) = MaxScopes - 1 => Pending \subseteq taken
    /\ Len(query) = MaxScopes - 1 => named = "inline"
    /\ named = "table" => Named("table") = {}

\* The model writes the query, scope by scope.
Pose(scope) ==
    /\ query' = Append(query, scope)
    /\ UNCHANGED <<allowed, filters, stage, plan, result>>

\* SafeQueryService.execute up to the audit row, with the plan it will mask by.
Validate ==
    /\ stage = "posed" /\ query # <<>> /\ Pending = {Root}
    /\ IF Accepted THEN stage' = "accepted" /\ plan' = MaskingPlan
       ELSE stage' = "rejected" /\ UNCHANGED plan
    /\ UNCHANGED <<allowed, filters, query, result>>

\* The rewritten query runs and its rows are masked.  Rows are counted for queries
\* of one scope: the limit is that of the root.
Execute(available, limit, fit) ==
    /\ stage = "accepted" /\ Len(query) = 1
    /\ stage' = "done"
    /\ result' = [available |-> available, limit |-> limit,
                  rows |-> Returned(available, limit, fit),
                  truncated |-> Truncated(available, limit, fit)]
    /\ UNCHANGED <<allowed, filters, query, plan>>

\* References of a scope; with a single source a qualified one says the same.
Refs(from) ==
    {ref \in Ref : ref.of \in (IF Cardinality(from) = 1 THEN {} ELSE from)
                              \cup (IF from = {} THEN {} ELSE {Unqualified})}
\* One output of at most two references and the subqueries, or two of one reference.
Outputs(from, nested, room) ==
    {<<[name |-> u, refs |-> refs, nested |-> nested]>> :
        u \in Names,
        refs \in {r \in {{x, y} : x \in Refs(from), y \in Refs(from)} \cup {{}} :
                    Cardinality(r) <= room /\ (r # {} \/ nested # {})}}
    \cup (IF nested # {} \/ room < 2 THEN {}
          ELSE {<<[name |-> u, refs |-> {x}, nested |-> {}], [name |-> v, refs |-> {y}, nested |-> {}]>> :
                   u \in Names, v \in Names, x \in Refs(from), y \in Refs(from)})
\* At most one reference.
Conditions(from, outputs, room) ==
    {{}} \cup {{ref} : ref \in {x \in Refs(from) :
                  Cardinality(UNION {{p} \X outputs[p].refs : p \in DOMAIN outputs}) < room}}

\* A scope reads at most two sources, an aggregate is the whole query, and a subquery
\* of an expression has one output.
PoseSelect ==
    LET room == MaxReferences - Cardinality(References) IN
    /\ \A i \in DOMAIN query : ~query[i].aggregated
    /\ \E named \in Namings, from \in SUBSET (Pending \cup CommonTables \cup {Table}),
          nested \in SUBSET Pending, tests \in SUBSET Pending :
        /\ MayPose(named, from \cup nested \cup tests)
        /\ Cardinality(from) <= 2 /\ Cardinality(Reads) + Cardinality(from) <= MaxReads
        /\ from \cap nested = {} /\ from \cap tests = {} /\ nested \cap tests = {}
        /\ \A j \in nested \cup tests : Len(OutputNames(j)) = 1
        /\ \E outputs \in Outputs(from, nested, room) :
           \E conditions \in Conditions(from, outputs, room), aggregated \in {FALSE} \cup {query = <<>>} :
              Pose(Select(named, from, outputs, conditions, tests, aggregated))
PoseSetOperation ==
    \E named \in Namings, i \in Pending, j \in Pending :
        i < j /\ MayPose(named, {i, j}) /\ Pose(SetOperation(named, i, j))

Next ==
    \/ PoseSelect \/ PoseSetOperation \/ Validate
    \/ \E available \in 0 .. MaxTable, limit \in Limits, fit \in 0 .. MaxRows + 1 :
          Execute(available, limit, fit)

Spec == Init /\ [][Next]_vars
-----------------------------------------------------------------------------
\* The types; in particular the row that is fetched beyond the limit to notice that
\* there are more is never returned.
TypeOK ==
    /\ allowed \in [Names -> Capabilities] /\ filters \in RowFilters
    /\ stage \in {"posed", "accepted", "rejected", "done"}
    /\ \A p \in DOMAIN plan : plan[p] \in Masks
    /\ result \in [available : 0 .. MaxTable, limit : Limits, rows : 0 .. MaxRows,
                   truncated : BOOLEAN]

\* An output is masked at least as strongly as every column of the table it depends
\* on, and the user may read each of them.
Covered(p) == \A c \in DependsOn(p) : allowed[c].read /\ allowed[c].mask <= plan[p]

\* Two cases in which the analyzer looks names up where PostgreSQL does not: a scalar
\* subquery that reads other sources than the scope around it, and a common table
\* expression of the table's name that the rewriter replaces by the table.
LooksElsewhere(p) ==
    \E x \in {y \in Reached(p) : y[1] # Table} :
        \/ filters # {} /\ query[x[1]].from \cap Named("table") # {}
        \/ query[x[1]].branches = <<>> /\
              \E j \in query[x[1]].outputs[x[2]].nested :
                  query[j].branches # <<>> \/ query[j].from # query[x[1]].from

\* Through whatever names, scopes and branches a value has come, its mask covers the
\* columns it depends on, but for the two cases above.
OutputsAreMasked ==
    stage \in {"accepted", "done"} =>
        \A p \in DOMAIN OutputNames(Root) : LooksElsewhere(p) \/ Covered(p)

\* mask_rows never meets a result it cannot mask: one entry of the plan for every
\* output, and no two outputs that would overwrite each other in a row.
PlanFitsResult ==
    stage \in {"accepted", "done"} =>
        /\ DOMAIN plan = DOMAIN OutputNames(Root)
        /\ \A p, q \in DOMAIN plan : OutputNames(Root)[p] = OutputNames(Root)[q] => p = q

\* Whatever scope of the rewritten query reads the table, in a common table
\* expression, a derived table, a branch or a subquery, by its own name or through
\* one that was taken for it, gets the rows that pass the row filters, and all of them.
RowsAreAuthorized ==
    stage \in {"accepted", "done"} =>
        \A i \in Evaluated : \A f \in query[i].from :
            f = Table \/ Wrapped(i, f) =>
                RowsRead(i, f) = {row \in SUBSET Names : Passes(row, filters)}

\* No more rows are returned than allowed, and the answer is marked as truncated
\* exactly when the query has rows that are not returned.
TruncationIsHonest ==
    stage = "done" =>
        LET asked == IF result.limit = NoLimit THEN result.available
                     ELSE Least(result.available, result.limit)
        IN  result.rows <= MaxRows /\ (result.truncated <=> result.rows < asked)
=============================================================================
