------------------------- MODULE QueryPipelineProofs -------------------------
(* Theorems about QueryPipeline, for a table of any columns, a user of any *)
(* capabilities and filters, queries of any number of scopes, any limit    *)
(* and any number of rows.                                                 *)
(*                                                                         *)
(* Lineage, OutputNames and Reached are functions defined by recursion     *)
(* over the scopes of the query.  Each is unfolded first: by LeastNat      *)
(* there is no least bound below which such a function exists and at which *)
(* it does not.  Then what holds of every scope has no first scope that it *)
(* fails for.  Reach, the text of a scope and the scopes that are run, is  *)
(* a least closed set: what holds at its start and along each step holds   *)
(* of all of it.                                                           *)
EXTENDS QueryPipeline, WellFoundedInduction, TLAPS
-----------------------------------------------------------------------------
(* Induction over the scopes of a query: a set of naturals that is not empty *)
(* has a least element, so what holds of a scope whenever it holds of those  *)
(* before it has no first scope that it fails for.                          *)

LEMMA LeastNat ==
    ASSUME NEW T, T \subseteq Nat, T # {}
    PROVE  \E x \in T : \A y \in T : x <= y
<1> DEFINE R == OpToRel(<, Nat)
<1>1. IsWellFoundedOn(R, Nat)
  BY NatLessThanWellFounded DEF OpToRel
<1> HIDE DEF R
<1>2. PICK x \in T : \A y \in T : ~ (<<y, x>> \in R)
  BY <1>1, WFMin
<1>3. \A y \in T : ~(y < x)
  BY <1>2 DEF R, OpToRel
<1>4. QED BY <1>3

-----------------------------------------------------------------------------
(* The queries of the model: a scope reads the table or scopes before it, and *)
(* its branches and subqueries stand before it.                              *)

Projection == [name : Names, refs : SUBSET Ref, nested : SUBSET Nat]
Scope == [named : Namings, branches : Seq(Nat), from : SUBSET Nat, outputs : Seq(Projection),
          conditions : SUBSET Ref, tests : SUBSET Nat, aggregated : BOOLEAN]

ScopeWell(scope, i) ==
    /\ scope.from \subseteq 0 .. i - 1
    /\ scope.tests \subseteq 1 .. i - 1
    /\ \A p \in DOMAIN scope.outputs : scope.outputs[p].nested \subseteq 1 .. i - 1
    /\ \/ scope.branches = <<>>
       \/ \E a, b \in 1 .. i - 1 : scope.branches = <<a, b>>

QueryWell ==
    /\ query \in Seq(Scope)
    /\ Len(query) <= MaxScopes
    /\ \A i \in DOMAIN query : ScopeWell(query[i], i)

\* A scope that keeps to what stands before it keeps the query well formed.
LEMMA PosedWell ==
    ASSUME QueryWell, Len(query) < MaxScopes,
           NEW scope \in Scope, ScopeWell(scope, Len(query) + 1), Pose(scope)
    PROVE  QueryWell'
<1>1. /\ query \in Seq(Scope) /\ Len(query) \in Nat /\ Len(query) < MaxScopes
      /\ query' = Append(query, scope)
  BY DEF QueryWell, Pose
<1>2. /\ query' \in Seq(Scope) /\ Len(query') = Len(query) + 1
      /\ DOMAIN query' = 1 .. Len(query) + 1 /\ DOMAIN query = 1 .. Len(query)
      /\ \A i \in 1 .. Len(query) : query'[i] = query[i]
      /\ query'[Len(query) + 1] = scope
  BY <1>1
<1>3. Len(query) + 1 <= MaxScopes
  BY <1>1, BoundsAssumption
<1>4. \A i \in DOMAIN query' : ScopeWell(query'[i], i)
  BY <1>1, <1>2 DEF QueryWell
<1>5. QED BY <1>2, <1>3, <1>4 DEF QueryWell

LEMMA ScopesPosed ==
    ASSUME QueryWell
    PROVE  /\ Len(query) \in Nat /\ DOMAIN query = 1 .. Len(query)
           /\ Pending \subseteq 1 .. Len(query) /\ CommonTables \subseteq 1 .. Len(query)
BY DEF QueryWell, Pending, CommonTables, Named

\* The outputs that a SELECT may be posed with.
LEMMA OutputsWell ==
    ASSUME NEW from, NEW nested \in SUBSET Nat, NEW room, NEW outputs \in Outputs(from, nested, room)
    PROVE  /\ outputs \in Seq(Projection)
           /\ \A p \in DOMAIN outputs : outputs[p].nested \subseteq nested
<1>1. Refs(from) \subseteq Ref
  BY DEF Refs
<1>2. \/ \E o \in Projection : outputs = <<o>> /\ o.nested = nested
      \/ \E o, q \in Projection : outputs = <<o, q>> /\ o.nested = {} /\ q.nested = {}
  <2>1. CASE \E u \in Names :
                \E refs \in {r \in {{x, y} : x \in Refs(from), y \in Refs(from)} \cup {{}} :
                               Cardinality(r) <= room /\ (r # {} \/ nested # {})} :
                    outputs = <<[name |-> u, refs |-> refs, nested |-> nested]>>
    <3>1. PICK u \in Names, refs \in {{x, y} : x \in Refs(from), y \in Refs(from)} \cup {{}} :
            outputs = <<[name |-> u, refs |-> refs, nested |-> nested]>>
      BY <2>1
    <3>2. refs \in SUBSET Ref
      BY <1>1
    <3>3. [name |-> u, refs |-> refs, nested |-> nested] \in Projection
      BY <3>2 DEF Projection
    <3>4. QED BY <3>1, <3>3
  <2>2. CASE \E u, v \in Names, x, y \in Refs(from) :
                outputs = <<[name |-> u, refs |-> {x}, nested |-> {}],
                            [name |-> v, refs |-> {y}, nested |-> {}]>>
    <3>1. PICK u \in Names, v \in Names, x \in Refs(from), y \in Refs(from) :
             outputs = <<[name |-> u, refs |-> {x}, nested |-> {}],
                         [name |-> v, refs |-> {y}, nested |-> {}]>>
      BY <2>2
    <3>2. /\ [name |-> u, refs |-> {x}, nested |-> {}] \in Projection
          /\ [name |-> v, refs |-> {y}, nested |-> {}] \in Projection
      BY <1>1 DEF Projection
    <3>3. QED BY <3>1, <3>2
  <2>3. QED BY <2>1, <2>2 DEF Outputs
<1>3. CASE \E o \in Projection : outputs = <<o>> /\ o.nested = nested
  BY <1>3
<1>4. CASE \E o, q \in Projection : outputs = <<o, q>> /\ o.nested = {} /\ q.nested = {}
  BY <1>4
<1>5. QED BY <1>2, <1>3, <1>4

\* Whatever is posed, the query stays well formed.
LEMMA PoseKeepsWell ==
    ASSUME QueryWell, PoseSelect \/ PoseSetOperation
    PROVE  QueryWell'
<1>1. /\ Len(query) \in Nat
      /\ Pending \subseteq 1 .. Len(query) /\ CommonTables \subseteq 1 .. Len(query)
  BY ScopesPosed
<1>2. CASE PoseSelect
  <2> DEFINE room == MaxReferences - Cardinality(References)
  <2>1. PICK named \in Namings, from \in SUBSET (Pending \cup CommonTables \cup {Table}),
             nested \in SUBSET Pending, tests \in SUBSET Pending :
          /\ Len(query) < MaxScopes
          /\ \E outputs \in Outputs(from, nested, room) :
             \E conditions \in Conditions(from, outputs, room), aggregated \in {FALSE} \cup {query = <<>>} :
                Pose(Select(named, from, outputs, conditions, tests, aggregated))
    BY <1>2, ZenonT(60) DEF PoseSelect, MayPose
  <2>2. PICK outputs \in Outputs(from, nested, room) :
          \E conditions \in Conditions(from, outputs, room), aggregated \in {FALSE} \cup {query = <<>>} :
                Pose(Select(named, from, outputs, conditions, tests, aggregated))
    BY <2>1
  <2>3. Conditions(from, outputs, room) \subseteq SUBSET Ref
    BY DEF Conditions, Refs
  <2>4. PICK conditions \in SUBSET Ref, aggregated \in BOOLEAN :
          Pose(Select(named, from, outputs, conditions, tests, aggregated))
    BY <2>2, <2>3
  <2> DEFINE scope == Select(named, from, outputs, conditions, tests, aggregated)
  <2>5. /\ from \subseteq 0 .. Len(query) /\ from \in SUBSET Nat
        /\ tests \subseteq 1 .. Len(query) /\ tests \in SUBSET Nat
        /\ nested \subseteq 1 .. Len(query) /\ nested \in SUBSET Nat
    BY <1>1 DEF Table
  <2>6. /\ outputs \in Seq(Projection)
        /\ \A p \in DOMAIN outputs : outputs[p].nested \subseteq nested
    BY <2>5, OutputsWell
  <2>7. /\ scope.branches = <<>> /\ scope.from = from /\ scope.outputs = outputs
        /\ scope.tests = tests /\ scope \in Scope
    <3>1. /\ scope = [named |-> named, branches |-> <<>>, from |-> from, outputs |-> outputs,
                      conditions |-> conditions, tests |-> tests, aggregated |-> aggregated]
      BY DEF Select
    <3> HIDE DEF scope
    <3>2. <<>> \in Seq(Nat)
      OBVIOUS
    <3>3. QED BY <2>5, <2>6, <3>1, <3>2 DEF Scope
  <2> HIDE DEF scope
  <2>8. \A p \in DOMAIN scope.outputs : scope.outputs[p].nested \subseteq 1 .. Len(query)
    BY <2>5, <2>6, <2>7
  <2>9. ScopeWell(scope, Len(query) + 1)
    <3>1. Len(query) + 1 - 1 = Len(query)
      BY <1>1
    <3>2. QED BY <2>5, <2>7, <2>8, <3>1 DEF ScopeWell
  <2>10. Pose(scope)
    BY <2>4 DEF scope
  <2>11. QED BY <2>1, <2>7, <2>9, <2>10, PosedWell
<1>3. CASE PoseSetOperation
  <2>1. PICK named \in Namings, i \in Pending, j \in Pending :
          Len(query) < MaxScopes /\ Pose(SetOperation(named, i, j))
    BY <1>3 DEF PoseSetOperation, MayPose
  <2> DEFINE scope == SetOperation(named, i, j)
  <2>2. /\ i \in 1 .. Len(query) /\ j \in 1 .. Len(query) /\ i \in Nat /\ j \in Nat
    BY <1>1
  <2> DEFINE none == Select(named, {}, <<>>, {}, {}, FALSE)
  <2>3. none \in Scope /\ none.from = {} /\ none.outputs = <<>> /\ none.tests = {}
    <3>1. <<>> \in Seq(Nat) /\ <<>> \in Seq(Projection)
      OBVIOUS
    <3>2. QED BY <3>1 DEF Select, Scope
  <2>4. <<i, j>> \in Seq(Nat)
    BY <2>2
  <2>5. /\ scope \in Scope /\ scope.branches = <<i, j>>
        /\ scope.from = {} /\ scope.outputs = <<>> /\ scope.tests = {}
    <3>1. scope = [none EXCEPT !.branches = <<i, j>>]
      BY DEF SetOperation
    <3> HIDE DEF none, scope
    <3>2. QED BY <2>3, <2>4, <3>1 DEF Scope
  <2> HIDE DEF scope
  <2>6. ScopeWell(scope, Len(query) + 1)
    BY <1>1, <2>2, <2>5 DEF ScopeWell
  <2>7. Pose(scope)
    BY <2>1 DEF scope
  <2>8. QED BY <2>1, <2>5, <2>6, <2>7, PosedWell
<1>4. QED BY <1>2, <1>3

-----------------------------------------------------------------------------
(* The text of a scope. *)

\* What is reached is a set of scopes that holds the start and every next one.
LEMMA ReachClosed ==
    ASSUME NEW start \in SUBSET DOMAIN query, NEW next,
           \A i \in DOMAIN query : next[i] \subseteq DOMAIN query
    PROVE  /\ start \subseteq Reach(start, next) /\ Reach(start, next) \subseteq DOMAIN query
           /\ \A i \in Reach(start, next) : next[i] \subseteq Reach(start, next)
BY DEF Reach

\* And it is the least one.
LEMMA ReachLeast ==
    ASSUME NEW start, NEW next, NEW S \in SUBSET DOMAIN query,
           start \subseteq S, \A i \in S : next[i] \subseteq S
    PROVE  Reach(start, next) \subseteq S
BY DEF Reach

\* Of a well-formed query, the parts of every scope are scopes before it.
LEMMA PartsBefore ==
    ASSUME QueryWell, NEW i \in DOMAIN query
    PROVE  /\ Branches(i) \subseteq 1 .. i - 1 /\ Nested(i) \subseteq 1 .. i - 1
           /\ Subqueries(i) \subseteq 1 .. i - 1 /\ Parts(i) \subseteq 1 .. i - 1
           /\ Visible(i) \subseteq 0 .. i - 1
           /\ 1 .. i - 1 \subseteq DOMAIN query
<1>1. ScopeWell(query[i], i) /\ i \in Nat /\ DOMAIN query = 1 .. Len(query) /\ Len(query) \in Nat
  BY DEF QueryWell
<1>2. Branches(i) \subseteq 1 .. i - 1
  BY <1>1 DEF ScopeWell, Branches
<1>3. Nested(i) \subseteq 1 .. i - 1
  BY <1>1 DEF ScopeWell, Nested
<1>4. Subqueries(i) \subseteq 1 .. i - 1
  BY <1>1, <1>3 DEF ScopeWell, Subqueries
<1>5. query[i].from \cap Named("inline") \subseteq 1 .. i - 1
  BY <1>1 DEF ScopeWell, Named
<1>6. Visible(i) \subseteq 0 .. i - 1
  BY <1>1 DEF ScopeWell, Visible, CommonTables
<1>7. 1 .. i - 1 \subseteq DOMAIN query
  BY <1>1
<1>8. QED BY <1>2, <1>3, <1>4, <1>5, <1>6, <1>7 DEF Parts

\* The scopes in the text of an output.
InText(i, p) == Reach(query[i].outputs[p].nested, [k \in DOMAIN query |-> Parts(k)])

LEMMA TextClosed ==
    ASSUME QueryWell, NEW i \in DOMAIN query, NEW p \in DOMAIN query[i].outputs
    PROVE  /\ query[i].outputs[p].nested \subseteq InText(i, p)
           /\ InText(i, p) \subseteq DOMAIN query
           /\ \A j \in InText(i, p) : Parts(j) \subseteq InText(i, p)
<1> DEFINE next == [k \in DOMAIN query |-> Parts(k)]
<1>1. \A k \in DOMAIN query : next[k] = Parts(k) /\ Parts(k) \subseteq DOMAIN query
  BY PartsBefore
<1>2. query[i].outputs[p].nested \in SUBSET DOMAIN query
  BY PartsBefore DEF Nested
<1>3. InText(i, p) = Reach(query[i].outputs[p].nested, next)
  BY DEF InText
<1> HIDE DEF next
<1>4. QED BY <1>1, <1>2, <1>3, ReachClosed

\* The references in the text of an output are references.
LEMMA TextTyped ==
    ASSUME QueryWell, NEW i \in DOMAIN query, NEW p \in DOMAIN query[i].outputs
    PROVE  /\ query[i].outputs[p].name \in Names /\ query[i].outputs[p].refs \subseteq Ref
           /\ TextRefs(i, p) = query[i].outputs[p].refs \cup UNION {OwnRefs(j) : j \in InText(i, p)}
           /\ TextRefs(i, p) \subseteq Ref
<1>1. ASSUME NEW j \in DOMAIN query
      PROVE  /\ query[j].conditions \subseteq Ref
             /\ \A q \in DOMAIN query[j].outputs :
                   query[j].outputs[q].name \in Names /\ query[j].outputs[q].refs \subseteq Ref
  <2>1. query[j] \in Scope
    BY DEF QueryWell
  <2>2. query[j].outputs \in Seq(Projection) /\ query[j].conditions \subseteq Ref
    BY <2>1 DEF Scope
  <2>3. \A q \in DOMAIN query[j].outputs : query[j].outputs[q] \in Projection
    BY <2>2
  <2>4. QED BY <2>2, <2>3 DEF Projection
<1>2. \A j \in DOMAIN query : OwnRefs(j) \subseteq Ref
  BY <1>1 DEF OwnRefs, OutputRefs
<1>3. TextRefs(i, p) = query[i].outputs[p].refs \cup UNION {OwnRefs(j) : j \in InText(i, p)}
  BY DEF TextRefs, InText
<1>4. QED BY <1>1, <1>2, <1>3, TextClosed

\* The text of a subquery of an output is part of the text of the output.
LEMMA NestedText ==
    ASSUME QueryWell, NEW i \in DOMAIN query, NEW p \in DOMAIN query[i].outputs,
           NEW j \in query[i].outputs[p].nested, NEW q \in DOMAIN query[j].outputs
    PROVE  TextRefs(j, q) \subseteq TextRefs(i, p)
<1>1. j \in DOMAIN query /\ j \in InText(i, p)
  BY TextClosed
<1>2. query[j].outputs[q].refs \subseteq OwnRefs(j)
  BY DEF OwnRefs, OutputRefs
<1>3. InText(j, q) \subseteq InText(i, p)
  <2> DEFINE next == [k \in DOMAIN query |-> Parts(k)]
  <2>1. query[j].outputs[q].nested \subseteq InText(i, p)
    BY <1>1, TextClosed DEF Parts, Subqueries, Nested
  <2>2. \A k \in InText(i, p) : next[k] \subseteq InText(i, p)
    BY TextClosed
  <2>3. InText(i, p) \in SUBSET DOMAIN query
    BY TextClosed
  <2>4. InText(j, q) = Reach(query[j].outputs[q].nested, next)
    BY DEF InText
  <2> HIDE DEF next
  <2>5. QED BY <2>1, <2>2, <2>3, <2>4, ReachLeast
<1>4. QED BY <1>1, <1>2, <1>3, TextTyped

-----------------------------------------------------------------------------
(* Lineage, unfolded: the lineage of a scope is made from that of the scopes *)
(* before it.                                                               *)

Traced == [name : Names, sources : SUBSET Names]
ScopeLineage == [ok : BOOLEAN, outputs : Seq(Traced)]

LineageStep(done, n) ==
    WithoutDuplicates(IF query[n].branches = <<>> THEN SelectLineage(done, n)
                      ELSE SetLineage(done, query[n].branches))

\* What a name refers to are columns of the table.
LEMMA SourcesTyped ==
    ASSUME NEW done \in Seq(ScopeLineage), NEW from \in 0 .. Len(done), NEW name \in Names
    PROVE  SourceColumn(done, from, name) \in SUBSET Names
<1>1. CASE from = Table
  BY <1>1 DEF SourceColumn
<1>2. CASE from # Table
  <2>1. done[from] \in ScopeLineage
    BY <1>2 DEF Table
  <2>2. done[from].outputs \in Seq(Traced)
    BY <2>1 DEF ScopeLineage
  <2>3. \A p \in DOMAIN done[from].outputs : done[from].outputs[p] \in Traced
    BY <2>2
  <2>4. \A p \in DOMAIN done[from].outputs : done[from].outputs[p].sources \in SUBSET Names
    BY <2>3 DEF Traced
  <2>5. QED BY <1>2, <2>4 DEF SourceColumn
<1>3. QED BY <1>1, <1>2

\* The lineage of a scope has the form the analyzer returns, accepted or not.
LEMMA LineageStepTyped ==
    ASSUME QueryWell, NEW n \in DOMAIN query, NEW done \in Seq(ScopeLineage), Len(done) = n - 1
    PROVE  LineageStep(done, n) \in ScopeLineage
<1> DEFINE scope == query[n]
<1>1. scope \in Scope /\ ScopeWell(scope, n) /\ n \in Nat
  BY DEF QueryWell
<1>2. ASSUME NEW lineage \in ScopeLineage
      PROVE  WithoutDuplicates(lineage) \in ScopeLineage
  BY <1>2 DEF WithoutDuplicates, ScopeLineage
<1>3. CASE scope.branches = <<>>
  <2> DEFINE outputs == SelectLineage(done, n).outputs
             ok == SelectLineage(done, n).ok
  <2>1. /\ outputs = [p \in DOMAIN scope.outputs |->
                        [name |-> scope.outputs[p].name,
                         sources |-> UNION {Resolved(done, Visible(n), ref) :
                                               ref \in TextRefs(n, p)}]]
        /\ SelectLineage(done, n) = [ok |-> ok, outputs |-> outputs]
        /\ ok \in BOOLEAN
    BY DEF SelectLineage
  <2>2. ASSUME NEW p \in DOMAIN scope.outputs, NEW ref \in TextRefs(n, p)
        PROVE  Resolved(done, Visible(n), ref) \in SUBSET Names
    <3>1. ref.name \in Names
      BY <2>2, TextTyped DEF Ref
    <3>2. \A f \in Sources(ref, Visible(n)) : f \in 0 .. Len(done)
      BY PartsBefore DEF Sources
    <3>3. \A f \in Sources(ref, Visible(n)) : SourceColumn(done, f, ref.name) \in SUBSET Names
      BY <3>1, <3>2, SourcesTyped
    <3>4. QED BY <3>3 DEF Resolved
  <2>3. \A p \in DOMAIN scope.outputs : outputs[p] \in Traced
    BY <2>1, <2>2, TextTyped DEF Traced
  <2>4. outputs \in Seq(Traced)
    <3>1. PICK k \in Nat : DOMAIN scope.outputs = 1 .. k
      BY <1>1 DEF Scope
    <3>2. outputs \in [1 .. k -> Traced]
      BY <2>1, <2>3, <3>1
    <3>3. QED BY <3>2
  <2>5. SelectLineage(done, n) \in ScopeLineage
    <3> HIDE DEF ok, outputs
    <3>1. QED BY <2>1, <2>4 DEF ScopeLineage
  <2>6. QED BY <1>2, <1>3, <2>5 DEF LineageStep
<1>4. CASE \E a, b \in 1 .. n - 1 : scope.branches = <<a, b>>
  <2>1. PICK a \in 1 .. n - 1, b \in 1 .. n - 1 : scope.branches = <<a, b>>
    BY <1>4
  <2> DEFINE left == done[a].outputs
             right == done[b].outputs
             outputs == [p \in DOMAIN left |->
                           [name |-> left[p].name,
                            sources |-> left[p].sources \cup
                                (IF p \in DOMAIN right THEN right[p].sources ELSE {})]]
             ok == done[a].ok /\ done[b].ok /\ Len(left) = Len(right)
  <2>2. left \in Seq(Traced) /\ right \in Seq(Traced)
    <3>1. done[a] \in ScopeLineage /\ done[b] \in ScopeLineage
      BY <1>1
    <3>2. QED BY <3>1 DEF ScopeLineage
  <2>3. SetLineage(done, <<a, b>>) = [ok |-> ok, outputs |-> outputs]
    BY DEF SetLineage
  <2> HIDE DEF left, right
  <2>4. \A p \in DOMAIN left : outputs[p] \in Traced
    <3>1. /\ \A p \in DOMAIN left : left[p] \in Traced
          /\ \A p \in DOMAIN right : right[p] \in Traced
      BY <2>2
    <3>2. QED BY <3>1 DEF Traced
  <2>5. outputs \in Seq(Traced)
    <3>1. PICK k \in Nat : DOMAIN left = 1 .. k
      BY <2>2
    <3>2. outputs \in [1 .. k -> Traced]
      BY <2>4, <3>1
    <3>3. QED BY <3>2
  <2> HIDE DEF outputs
  <2>6. SetLineage(done, <<a, b>>) \in ScopeLineage
    <3>1. ok \in BOOLEAN
      OBVIOUS
    <3> HIDE DEF ok
    <3>2. QED BY <2>3, <2>5, <3>1 DEF ScopeLineage
  <2>7. scope.branches # <<>>
    BY <2>1
  <2>8. QED BY <1>2, <2>1, <2>6, <2>7 DEF LineageStep
<1>5. QED BY <1>1, <1>3, <1>4 DEF ScopeWell

\* The recursion of Lineage is well-defined.
LEMMA LineageDefined ==
    ASSUME QueryWell
    PROVE  \E done :
              /\ done = [n \in 0 .. Len(query) |->
                            IF n = 0 THEN <<>>
                            ELSE Append(done[n - 1], LineageStep(done[n - 1], n))]
              /\ Lineage = done[Len(query)]
<1> DEFINE Body(g, n) == IF n = 0 THEN <<>> ELSE Append(g[n - 1], LineageStep(g[n - 1], n))
           Upto(k) == \E g : g = [n \in 0 .. k |-> Body(g, n)]
           Undefined == {k \in 0 .. Len(query) : ~Upto(k)}
<1>1. Len(query) \in Nat
  BY DEF QueryWell
<1>2. Undefined = {}
  <2>1. SUFFICES ASSUME Undefined # {} PROVE FALSE
    OBVIOUS
  <2>2. PICK k \in Undefined : \A l \in Undefined : k <= l
    <3>1. Undefined \subseteq Nat
      OBVIOUS
    <3> HIDE DEF Undefined
    <3>2. QED BY <2>1, <3>1, LeastNat
  <2>3. k \in 0 .. Len(query) /\ ~Upto(k)
    OBVIOUS
  <2>4. k # 0
    <3>1. ASSUME k = 0 PROVE Upto(k)
      <4> DEFINE g == [n \in 0 .. k |-> <<>>]
      <4>1. \A n \in 0 .. k : Body(g, n) = <<>>
        BY <3>1
      <4>2. g = [n \in 0 .. k |-> Body(g, n)]
        BY <4>1
      <4>3. QED BY <4>2
    <3>2. QED BY <2>3, <3>1
  <2>5. k - 1 \in 0 .. Len(query) /\ Upto(k - 1)
    <3>1. k - 1 \in 0 .. Len(query) /\ ~(k <= k - 1)
      BY <1>1, <2>3, <2>4
    <3>2. k - 1 \notin Undefined
      BY <2>2, <3>1
    <3> HIDE DEF Upto
    <3>3. QED BY <3>1, <3>2
  <2>6. PICK g : g = [n \in 0 .. k - 1 |-> Body(g, n)]
    BY <2>5
  <2> DEFINE h == [n \in 0 .. k |-> Body(g, n)]
  <2>7. \A n \in 0 .. k - 1 : h[n] = g[n]
    <3> HIDE DEF Body
    <3>1. \A n \in 0 .. k - 1 : n \in 0 .. k
      BY <2>3
    <3>2. QED BY <2>6, <3>1
  <2>8. \A n \in 0 .. k : Body(h, n) = Body(g, n)
    <3>1. \A n \in 0 .. k : n # 0 => n - 1 \in 0 .. k - 1
      BY <2>3
    <3> HIDE DEF h
    <3>2. QED BY <2>7, <3>1
  <2>9. h = [n \in 0 .. k |-> Body(h, n)]
    BY <2>8
  <2>10. Upto(k)
    BY <2>9
  <2>11. QED BY <2>3, <2>10
<1>3. Upto(Len(query))
  BY <1>1, <1>2
<1>4. PICK built : built = [n \in 0 .. Len(query) |-> Body(built, n)]
  BY <1>3
<1> DEFINE done == CHOOSE g : g = [n \in 0 .. Len(query) |-> Body(g, n)]
<1>5. done = [n \in 0 .. Len(query) |-> Body(done, n)]
  BY <1>4
<1>6. Lineage = done[Len(query)]
  BY DEF Lineage, LineageStep
<1> HIDE DEF done
<1>7. QED BY <1>5, <1>6

\* What a scope contributes depends only on the lineage of its sources.
LEMMA LineageStepAgrees ==
    ASSUME QueryWell, NEW n \in DOMAIN query, NEW d, NEW e,
           \A i \in 1 .. n - 1 : d[i] = e[i]
    PROVE  LineageStep(d, n) = LineageStep(e, n)
<1> DEFINE scope == query[n]
<1>1. ScopeWell(scope, n) /\ n \in Nat
  BY DEF QueryWell
<1>2. CASE scope.branches = <<>>
  <2>1. \A f \in Visible(n) : f = Table \/ d[f] = e[f]
    BY <1>1, PartsBefore DEF Table
  <2>2. ASSUME NEW p \in DOMAIN scope.outputs, NEW ref \in TextRefs(n, p)
        PROVE  /\ Resolves(d, Visible(n), ref) <=> Resolves(e, Visible(n), ref)
               /\ Resolved(d, Visible(n), ref) = Resolved(e, Visible(n), ref)
    <3>1. \A f \in Sources(ref, Visible(n)) : f = Table \/ d[f] = e[f]
      BY <2>1 DEF Sources
    <3>2. \A f \in Sources(ref, Visible(n)) :
             SourceColumn(d, f, ref.name) = SourceColumn(e, f, ref.name)
      BY <3>1 DEF SourceColumn
    <3>3. Origins(d, Visible(n), ref) = Origins(e, Visible(n), ref)
      BY <3>2 DEF Origins
    <3>4. Resolved(d, Visible(n), ref) = Resolved(e, Visible(n), ref)
      BY <3>2 DEF Resolved
    <3>5. QED BY <3>1, <3>3, <3>4 DEF Resolves
  <2> HIDE DEF scope
  <2>3. \A p \in DOMAIN scope.outputs :
           UNION {Resolved(d, Visible(n), ref) : ref \in TextRefs(n, p)}
              = UNION {Resolved(e, Visible(n), ref) : ref \in TextRefs(n, p)}
    BY <2>2
  <2>4. SelectLineage(d, n).ok <=> SelectLineage(e, n).ok
    BY <2>2 DEF SelectLineage, scope
  <2>5. SelectLineage(d, n) = SelectLineage(e, n)
    BY <2>2, <2>3 DEF SelectLineage, scope
  <2>6. QED BY <1>2, <2>5 DEF LineageStep, scope
<1>3. CASE \E a, b \in 1 .. n - 1 : scope.branches = <<a, b>>
  <2>1. PICK a \in 1 .. n - 1, b \in 1 .. n - 1 : scope.branches = <<a, b>>
    BY <1>3
  <2>2. SetLineage(d, <<a, b>>) = SetLineage(e, <<a, b>>)
    BY DEF SetLineage
  <2>3. QED BY <2>1, <2>2 DEF LineageStep
<1>4. QED BY <1>1, <1>2, <1>3 DEF ScopeWell

\* The lineage of a query is one of every scope, made from those before it.
LEMMA LineageUnfolds ==
    ASSUME QueryWell
    PROVE  /\ Lineage \in Seq(ScopeLineage) /\ Len(Lineage) = Len(query)
           /\ \A i \in DOMAIN query : Lineage[i] = LineageStep(Lineage, i)
<1>1. PICK done :
        /\ done = [n \in 0 .. Len(query) |->
                      IF n = 0 THEN <<>>
                      ELSE Append(done[n - 1], LineageStep(done[n - 1], n))]
        /\ Lineage = done[Len(query)]
  BY LineageDefined
<1>2. Len(query) \in Nat /\ DOMAIN query = 1 .. Len(query)
  BY DEF QueryWell
<1>3. done[0] = <<>>
  BY <1>1, <1>2
<1>4. \A n \in 1 .. Len(query) : done[n] = Append(done[n - 1], LineageStep(done[n - 1], n))
  <2>1. SUFFICES ASSUME NEW n \in 1 .. Len(query)
                 PROVE  done[n] = Append(done[n - 1], LineageStep(done[n - 1], n))
    OBVIOUS
  <2>2. n \in 0 .. Len(query) /\ n # 0
    BY <1>2
  <2>3. QED BY <1>1, <2>2
<1> DEFINE Typed(n) == done[n] \in Seq(ScopeLineage) /\ Len(done[n]) = n
           Untyped == {n \in 0 .. Len(query) : ~Typed(n)}
<1>5. Untyped = {}
  <2>1. SUFFICES ASSUME Untyped # {} PROVE FALSE
    OBVIOUS
  <2>2. PICK n \in Untyped : \A l \in Untyped : n <= l
    <3>1. Untyped \subseteq Nat
      OBVIOUS
    <3> HIDE DEF Untyped
    <3>2. QED BY <2>1, <3>1, LeastNat
  <2>3. n \in 0 .. Len(query) /\ ~Typed(n)
    OBVIOUS
  <2>4. n # 0
    <3>1. <<>> \in Seq(ScopeLineage) /\ Len(<<>>) = 0
      OBVIOUS
    <3>2. Typed(0)
      BY <1>3, <3>1
    <3>3. QED BY <2>3, <3>2
  <2>5. n - 1 \in 0 .. Len(query) /\ Typed(n - 1)
    <3>1. n - 1 \in 0 .. Len(query) /\ ~(n <= n - 1)
      BY <1>2, <2>3, <2>4
    <3>2. n - 1 \notin Untyped
      BY <2>2, <3>1
    <3> HIDE DEF Typed
    <3>3. QED BY <3>1, <3>2
  <2>6. n \in DOMAIN query
    BY <1>2, <2>3, <2>4
  <2>7. LineageStep(done[n - 1], n) \in ScopeLineage
    BY <2>5, <2>6, LineageStepTyped
  <2>8. done[n] = Append(done[n - 1], LineageStep(done[n - 1], n))
    BY <1>2, <1>4, <2>6
  <2>9. Typed(n)
    BY <2>3, <2>5, <2>7, <2>8
  <2>10. QED BY <2>3, <2>9
<1>6. \A n \in 0 .. Len(query) : Typed(n)
  <2> HIDE DEF Typed
  <2>1. QED BY <1>5
\* A scope keeps the lineage it was given.
<1>7. \A n \in 1 .. Len(query) : done[n][n] = LineageStep(done[n - 1], n)
                                 /\ \A i \in 1 .. n - 1 : done[n][i] = done[n - 1][i]
  <2>1. SUFFICES ASSUME NEW n \in 1 .. Len(query)
                 PROVE  /\ done[n][n] = LineageStep(done[n - 1], n)
                        /\ \A i \in 1 .. n - 1 : done[n][i] = done[n - 1][i]
    OBVIOUS
  <2>2. n - 1 \in 0 .. Len(query) /\ n \in DOMAIN query
    BY <1>2
  <2>3. done[n - 1] \in Seq(ScopeLineage) /\ Len(done[n - 1]) = n - 1
    BY <1>6, <2>2
  <2>4. LineageStep(done[n - 1], n) \in ScopeLineage
    BY <2>2, <2>3, LineageStepTyped
  <2>5. QED BY <1>4, <2>3, <2>4
<1> DEFINE Kept(n) == \A i \in 1 .. n : done[n][i] = done[i][i]
           Lost == {n \in 0 .. Len(query) : ~Kept(n)}
<1>8. Lost = {}
  <2>1. SUFFICES ASSUME Lost # {} PROVE FALSE
    OBVIOUS
  <2>2. PICK n \in Lost : \A l \in Lost : n <= l
    <3>1. Lost \subseteq Nat
      OBVIOUS
    <3> HIDE DEF Lost
    <3>2. QED BY <2>1, <3>1, LeastNat
  <2>3. n \in 0 .. Len(query) /\ ~Kept(n)
    OBVIOUS
  <2>4. n # 0
    BY <2>3
  <2>5. n - 1 \in 0 .. Len(query) /\ Kept(n - 1)
    <3>1. n - 1 \in 0 .. Len(query) /\ ~(n <= n - 1)
      BY <1>2, <2>3, <2>4
    <3>2. n - 1 \notin Lost
      BY <2>2, <3>1
    <3> HIDE DEF Kept
    <3>3. QED BY <3>1, <3>2
  <2>6. Kept(n)
    <3>1. n \in 1 .. Len(query)
      BY <2>3, <2>4
    <3>2. \A i \in 1 .. n : i = n \/ i \in 1 .. n - 1
      BY <3>1
    <3>3. QED BY <1>7, <2>5, <3>1, <3>2
  <2>7. QED BY <2>3, <2>6
<1>9. \A n \in 0 .. Len(query) : Kept(n)
  <2> HIDE DEF Kept
  <2>1. QED BY <1>8
<1>10. ASSUME NEW i \in DOMAIN query PROVE Lineage[i] = LineageStep(Lineage, i)
  <2>1. i \in 1 .. Len(query) /\ i - 1 \in 0 .. Len(query)
    BY <1>2
  <2>2. Lineage[i] = LineageStep(done[i - 1], i)
    <3>1. Kept(Len(query))
      BY <1>2, <1>9
    <3>2. Lineage[i] = done[i][i]
      BY <1>1, <2>1, <3>1
    <3>3. QED BY <1>7, <2>1, <3>2
  <2>3. \A j \in 1 .. i - 1 : done[i - 1][j] = Lineage[j]
    <3>1. SUFFICES ASSUME NEW j \in 1 .. i - 1 PROVE done[i - 1][j] = Lineage[j]
      OBVIOUS
    <3>2. Kept(Len(query)) /\ Kept(i - 1)
      BY <1>2, <1>9, <2>1
    <3>3. j \in 1 .. Len(query)
      BY <1>2, <2>1
    <3>4. Lineage[j] = done[j][j] /\ done[i - 1][j] = done[j][j]
      BY <1>1, <3>2, <3>3
    <3>5. QED BY <3>4
  <2>4. LineageStep(done[i - 1], i) = LineageStep(Lineage, i)
    BY <2>3, LineageStepAgrees
  <2>5. QED BY <2>2, <2>4
<1>11. Len(query) \in 0 .. Len(query)
  BY <1>2
<1>12. QED BY <1>1, <1>6, <1>10, <1>11

-----------------------------------------------------------------------------
(* The names of the outputs are those of the lineage. *)

\* A set operation has the names of its left branch.
LEMMA NamesUnfold ==
    ASSUME QueryWell, NEW i \in DOMAIN query
    PROVE  OutputNames(i) =
              IF query[i].branches = <<>>
              THEN [p \in DOMAIN query[i].outputs |-> query[i].outputs[p].name]
              ELSE OutputNames(query[i].branches[1])
<1> DEFINE Body(g, n) == IF query[n].branches = <<>>
                         THEN [p \in DOMAIN query[n].outputs |-> query[n].outputs[p].name]
                         ELSE g[query[n].branches[1]]
           Upto(k) == \E g : g = [n \in 1 .. k |-> Body(g, n)]
           Undefined == {k \in 0 .. Len(query) : ~Upto(k)}
<1>1. Len(query) \in Nat /\ DOMAIN query = 1 .. Len(query)
  BY DEF QueryWell
<1>2. ASSUME NEW n \in 1 .. Len(query), query[n].branches # <<>>
      PROVE  query[n].branches[1] \in 1 .. n - 1
  BY <1>1, <1>2 DEF QueryWell, ScopeWell
<1>3. Undefined = {}
  <2>1. SUFFICES ASSUME Undefined # {} PROVE FALSE
    OBVIOUS
  <2>2. PICK k \in Undefined : \A l \in Undefined : k <= l
    <3>1. Undefined \subseteq Nat
      OBVIOUS
    <3> HIDE DEF Undefined
    <3>2. QED BY <2>1, <3>1, LeastNat
  <2>3. k \in 0 .. Len(query) /\ ~Upto(k)
    OBVIOUS
  <2>4. k # 0
    <3>1. ASSUME k = 0 PROVE Upto(k)
      <4>1. 1 .. k = {}
        BY <3>1
      <4>2. <<>> = [n \in 1 .. k |-> Body(<<>>, n)]
        BY <4>1
      <4>3. QED BY <4>2
    <3>2. QED BY <2>3, <3>1
  <2>5. k - 1 \in 0 .. Len(query) /\ Upto(k - 1)
    <3>1. k - 1 \in 0 .. Len(query) /\ ~(k <= k - 1)
      BY <1>1, <2>3, <2>4
    <3>2. k - 1 \notin Undefined
      BY <2>2, <3>1
    <3> HIDE DEF Upto
    <3>3. QED BY <3>1, <3>2
  <2>6. PICK g : g = [n \in 1 .. k - 1 |-> Body(g, n)]
    BY <2>5
  <2> DEFINE h == [n \in 1 .. k |-> Body(g, n)]
  <2>7. \A n \in 1 .. k - 1 : h[n] = g[n]
    <3> HIDE DEF Body
    <3>1. \A n \in 1 .. k - 1 : n \in 1 .. k
      BY <2>3
    <3>2. QED BY <2>6, <3>1
  <2>8. \A n \in 1 .. k : Body(h, n) = Body(g, n)
    <3>1. \A n \in 1 .. k : query[n].branches = <<>> \/ query[n].branches[1] \in 1 .. k - 1
      BY <1>1, <1>2, <2>3
    <3> HIDE DEF h
    <3>2. QED BY <2>7, <3>1
  <2>9. h = [n \in 1 .. k |-> Body(h, n)]
    BY <2>8
  <2>10. Upto(k)
    BY <2>9
  <2>11. QED BY <2>3, <2>10
<1>4. Upto(Len(query))
  BY <1>1, <1>3
<1> DEFINE names == CHOOSE g : g = [n \in 1 .. Len(query) |-> Body(g, n)]
<1>5. names = [n \in 1 .. Len(query) |-> Body(names, n)]
  BY <1>4
<1>6. \A n : OutputNames(n) = names[n]
  BY DEF OutputNames
<1> HIDE DEF names
<1>7. names[i] = Body(names, i)
  BY <1>1, <1>5
<1>8. QED BY <1>6, <1>7

\* The outputs of a scope, by the kind of the scope.
LEMMA LineageOutputs ==
    ASSUME QueryWell, NEW i \in DOMAIN query
    PROVE  /\ query[i].branches = <<>> =>
                Lineage[i].outputs = SelectLineage(Lineage, i).outputs
           /\ query[i].branches # <<>> =>
                Lineage[i].outputs = SetLineage(Lineage, query[i].branches).outputs
<1>1. Lineage[i] = LineageStep(Lineage, i)
  BY LineageUnfolds
<1> DEFINE lineage == IF query[i].branches = <<>> THEN SelectLineage(Lineage, i)
                      ELSE SetLineage(Lineage, query[i].branches)
<1>2. WithoutDuplicates(lineage).outputs = lineage.outputs
  BY DEF WithoutDuplicates, SelectLineage, SetLineage
<1>3. QED BY <1>1, <1>2 DEF LineageStep

\* The outputs of a set operation: the left names, the sources of both branches.
LEMMA SetOutputs ==
    ASSUME NEW done, NEW branches
    PROVE  LET outputs == SetLineage(done, branches).outputs
               left    == done[branches[1]].outputs
               right   == done[branches[2]].outputs
           IN  /\ DOMAIN outputs = DOMAIN left
               /\ \A p \in DOMAIN left :
                     /\ outputs[p].name = left[p].name
                     /\ outputs[p].sources = left[p].sources \cup
                                              (IF p \in DOMAIN right THEN right[p].sources ELSE {})
<1> DEFINE left  == done[branches[1]].outputs
           right == done[branches[2]].outputs
           traced == [p \in DOMAIN left |->
                        [name |-> left[p].name,
                         sources |-> left[p].sources \cup
                             (IF p \in DOMAIN right THEN right[p].sources ELSE {})]]
<1>1. SetLineage(done, branches).outputs = traced
  BY DEF SetLineage
<1> HIDE DEF left, right
<1>2. /\ DOMAIN traced = DOMAIN left
      /\ \A p \in DOMAIN left :
            /\ traced[p].name = left[p].name
            /\ traced[p].sources = left[p].sources \cup
                                     (IF p \in DOMAIN right THEN right[p].sources ELSE {})
  OBVIOUS
<1> HIDE DEF traced
<1>3. QED BY <1>1, <1>2 DEF left, right

\* The names found from the outside, branch by branch, are those of the lineage,
\* which is found scope by scope: a plan by positions of one fits the other.
LEMMA NamesOfLineage ==
    ASSUME QueryWell, NEW i \in DOMAIN query
    PROVE  OutputNames(i) =
              [p \in DOMAIN Lineage[i].outputs |-> Lineage[i].outputs[p].name]
<1> DEFINE NamedAlike(n) == OutputNames(n) =
                           [p \in DOMAIN Lineage[n].outputs |-> Lineage[n].outputs[p].name]
           Unnamed == {n \in 1 .. Len(query) : ~NamedAlike(n)}
<1>1. Len(query) \in Nat /\ DOMAIN query = 1 .. Len(query)
  BY DEF QueryWell
<1>2. Unnamed = {}
  <2>1. SUFFICES ASSUME Unnamed # {} PROVE FALSE
    OBVIOUS
  <2>2. PICK n \in Unnamed : \A l \in Unnamed : n <= l
    <3>1. Unnamed \subseteq Nat
      OBVIOUS
    <3> HIDE DEF Unnamed
    <3>2. QED BY <2>1, <3>1, LeastNat
  <2>3. n \in DOMAIN query /\ ~NamedAlike(n)
    BY <1>1
  <2>4. CASE query[n].branches = <<>>
    <3>1. Lineage[n].outputs = SelectLineage(Lineage, n).outputs
      BY <2>3, <2>4, LineageOutputs
    <3>2. /\ DOMAIN Lineage[n].outputs = DOMAIN query[n].outputs
          /\ \A p \in DOMAIN query[n].outputs :
                Lineage[n].outputs[p].name = query[n].outputs[p].name
      BY <3>1 DEF SelectLineage
    <3>3. OutputNames(n) = [p \in DOMAIN query[n].outputs |-> query[n].outputs[p].name]
      BY <2>3, <2>4, NamesUnfold
    <3>4. QED BY <2>3, <3>2, <3>3
  <2>5. CASE query[n].branches # <<>>
    <3> DEFINE a == query[n].branches[1]
    <3>1. a \in 1 .. n - 1
      BY <1>1, <2>3, <2>5 DEF QueryWell, ScopeWell
    <3>2. NamedAlike(a)
      <4>1. a \in 1 .. Len(query) /\ ~(n <= a)
        BY <1>1, <2>3, <3>1
      <4>2. a \notin Unnamed
        BY <2>2, <4>1
      <4> HIDE DEF NamedAlike
      <4>3. QED BY <4>1, <4>2
    <3>3. Lineage[n].outputs = SetLineage(Lineage, query[n].branches).outputs
      BY <2>3, <2>5, LineageOutputs
    <3>4. OutputNames(n) = OutputNames(a)
      BY <2>3, <2>5, NamesUnfold
    <3>5. /\ DOMAIN Lineage[n].outputs = DOMAIN Lineage[a].outputs
          /\ \A p \in DOMAIN Lineage[a].outputs :
                Lineage[n].outputs[p].name = Lineage[a].outputs[p].name
      BY <3>3, SetOutputs
    <3>6. QED BY <2>3, <3>2, <3>4, <3>5
  <2>6. QED BY <2>4, <2>5
<1>3. QED
  <2> HIDE DEF NamedAlike
  <2>1. NamedAlike(i)
    BY <1>1, <1>2
  <2>2. QED BY <2>1 DEF NamedAlike

-----------------------------------------------------------------------------------------------------------------------------------------------
(* The rows: the rewriter visits every scope that is run. *)

\* A scope that is run stands in the text of the root, or is a common table
\* expression, and those stand in its WITH clause.
LEMMA EvaluatedVisited ==
    ASSUME QueryWell, query # <<>>
    PROVE  Evaluated \subseteq Visited /\ Visited \subseteq DOMAIN query
<1> DEFINE next == [k \in DOMAIN query |-> Contained(k)]
           runs == [k \in DOMAIN query |-> Runs(k)]
<1>1. {Root} \in SUBSET DOMAIN query
  BY DEF QueryWell, Root
<1>2. \A k \in DOMAIN query : next[k] = Contained(k) /\ Contained(k) \subseteq DOMAIN query
  BY PartsBefore DEF Contained, CommonTables
<1>3. Visited = Reach({Root}, next) /\ Evaluated = Reach({Root}, runs)
  BY DEF Visited, Evaluated
<1>4. \A k \in DOMAIN query : runs[k] = Runs(k)
  OBVIOUS
<1> HIDE DEF next, runs
<1>5. /\ {Root} \subseteq Visited /\ Visited \subseteq DOMAIN query
      /\ \A k \in Visited : Contained(k) \subseteq Visited
  BY <1>1, <1>2, <1>3, ReachClosed, ZenonT(60)
<1>6. CommonTables \subseteq Visited
  BY <1>5 DEF Contained
<1>7. ASSUME NEW k \in Visited PROVE Runs(k) \subseteq Visited
  <2>1. k \in DOMAIN query /\ Parts(k) \subseteq Visited
    BY <1>5 DEF Contained
  <2>2. \A f \in query[k].from : f # Table => f \in DOMAIN query
    BY <2>1 DEF QueryWell, ScopeWell, Table
  <2>3. \A f \in query[k].from : f # Table => f \in Named("inline") \/ f \in CommonTables
    BY <2>2 DEF CommonTables
  <2>4. \A f \in query[k].from : f # Table => f \in Visited
    BY <1>6, <2>1, <2>3 DEF Parts
  <2>5. QED BY <2>1, <2>4 DEF Runs, Parts
<1>8. \A k \in Visited : runs[k] \subseteq Visited
  BY <1>4, <1>5, <1>7
<1>9. Visited \in SUBSET DOMAIN query /\ {Root} \subseteq Visited
  BY <1>5
<1>10. Reach({Root}, runs) \subseteq Visited
  <2> HIDE DEF Visited
  <2>1. QED BY <1>8, <1>9, ReachLeast
<1>11. QED BY <1>3, <1>5, <1>10

\* What was wrapped yields the rows that pass, and what was not had no filter.
LEMMA WrappedPasses ==
    ASSUME QueryWell, query # <<>>, NEW i \in Evaluated, NEW f \in query[i].from,
           f = Table \/ Wrapped(i, f)
    PROVE  RowsRead(i, f) = {row \in SUBSET Names : Passes(row, filters)}
<1>1. i \in Visited
  BY EvaluatedVisited
<1>2. CASE filters = {}
  BY <1>2 DEF RowsRead, Wrapped, Passes
<1>3. CASE filters # {}
  <2>1. Wrapped(i, f)
    BY <1>1, <1>3 DEF Wrapped
  <2>2. \A row \in SUBSET Names : Met(row) <=> Passes(row, filters)
    BY <1>3 DEF Met, Passes
  <2>3. QED BY <2>1, <2>2 DEF RowsRead
<1>4. QED BY <1>2, <1>3

-----------------------------------------------------------------------------
(* What an accepted query may show: each column that an output is made from, *)
(* in SQL's reading of the names, is among the sources the analyzer has found, *)
(* and those are readable.                                                  *)

SourcesOf(i, p) == Lineage[i].outputs[p].sources

\* The sources of an output of a SELECT are those of the references in its text.
LEMMA SelectSources ==
    ASSUME QueryWell, NEW i \in DOMAIN query, query[i].branches = <<>>,
           NEW p \in DOMAIN Lineage[i].outputs
    PROVE  /\ p \in DOMAIN query[i].outputs
           /\ SourcesOf(i, p) = UNION {Resolved(Lineage, Visible(i), ref) : ref \in TextRefs(i, p)}
<1>1. Lineage[i].outputs = SelectLineage(Lineage, i).outputs
  BY LineageOutputs
<1>2. QED BY <1>1 DEF SelectLineage, SourcesOf

\* A pair that MadeFrom may lead to is within the sources of what it came from.
Within(x, sources) ==
    IF x[1] = Table THEN x[2] \in sources
    ELSE /\ x[1] \in DOMAIN query /\ x[2] \in DOMAIN Lineage[x[1]].outputs
         /\ SourcesOf(x[1], x[2]) \subseteq sources

\* The analyzer and PostgreSQL look the names of an output up in the same sources.
LooksAlike(i, p) ==
    /\ filters = {} \/ query[i].from \cap Named("table") = {}
    /\ query[i].branches = <<>> =>
          \A j \in query[i].outputs[p].nested :
              query[j].branches = <<>> /\ query[j].from = query[i].from

\* The lineage that the analyzer ends with is typed, for every scope.
LEMMA OutputsTyped ==
    ASSUME QueryWell, NEW i \in DOMAIN query
    PROVE  /\ Lineage[i].outputs \in Seq(Traced)
           /\ \A p \in DOMAIN Lineage[i].outputs : SourcesOf(i, p) \subseteq Names
<1>1. Lineage[i] \in ScopeLineage
  <2>1. Lineage \in Seq(ScopeLineage) /\ Len(Lineage) = Len(query)
    BY LineageUnfolds
  <2>2. query \in Seq(Scope)
    BY DEF QueryWell
  <2>3. i \in 1 .. Len(Lineage)
    BY <2>1, <2>2
  <2>4. QED BY <2>1, <2>3
<1>2. Lineage[i].outputs \in Seq(Traced)
  BY <1>1 DEF ScopeLineage
<1>3. \A p \in DOMAIN Lineage[i].outputs : Lineage[i].outputs[p] \in Traced
  BY <1>2
<1>4. QED BY <1>2, <1>3 DEF Traced, SourcesOf

\* The root of an accepted query has outputs of different names.
LEMMA RootDistinct ==
    ASSUME QueryWell, query # <<>>, Accepted
    PROVE  Distinct(Lineage[Root].outputs)
<1> DEFINE lineage == IF query[Root].branches = <<>> THEN SelectLineage(Lineage, Root)
                      ELSE SetLineage(Lineage, query[Root].branches)
<1>1. Root \in DOMAIN query /\ Lineage[Root].ok
  BY DEF QueryWell, Root, Accepted
<1>2. Lineage[Root] = WithoutDuplicates(lineage)
  BY <1>1, LineageUnfolds DEF LineageStep
<1>3. /\ WithoutDuplicates(lineage).outputs = lineage.outputs
      /\ WithoutDuplicates(lineage).ok => Distinct(lineage.outputs)
  BY DEF WithoutDuplicates, SelectLineage, SetLineage
<1> HIDE DEF lineage
<1>4. QED BY <1>1, <1>2, <1>3

\* What an output is made from directly has no source the output has not: through
\* a qualified or a bare name, a subquery, an alias and either branch.
LEMMA MadeWithin ==
    ASSUME QueryWell, Accepted, NEW i \in DOMAIN query,
           NEW p \in DOMAIN Lineage[i].outputs, LooksAlike(i, p), NEW x \in MadeFrom(i, p)
    PROVE  Within(x, SourcesOf(i, p))
<1> DEFINE scope == query[i]
<1>1. ScopeWell(scope, i) /\ i \in 1 .. Len(query) /\ Len(query) \in Nat
      /\ DOMAIN query = 1 .. Len(query)
  BY DEF QueryWell
<1>2. CASE scope.branches = <<>>
  <2>1. /\ p \in DOMAIN scope.outputs
        /\ SourcesOf(i, p) = UNION {Resolved(Lineage, Visible(i), ref) : ref \in TextRefs(i, p)}
    BY <1>2, SelectSources
  <2>2. ASSUME NEW j \in scope.outputs[p].nested, NEW q \in DOMAIN OutputNames(j), x = <<j, q>>
        PROVE  Within(x, SourcesOf(i, p))
    <3>1. j \in 1 .. i - 1 /\ j \in DOMAIN query /\ j # Table
      BY <1>1, <2>1 DEF ScopeWell, Table
    <3>2. query[j].branches = <<>> /\ query[j].from = scope.from
      BY <1>2, <2>2 DEF LooksAlike
    <3>3. q \in DOMAIN Lineage[j].outputs
      BY <2>2, <3>1, NamesOfLineage
    <3>4. /\ q \in DOMAIN query[j].outputs
          /\ SourcesOf(j, q) = UNION {Resolved(Lineage, Visible(j), ref) : ref \in TextRefs(j, q)}
      BY <3>1, <3>2, <3>3, SelectSources
    <3>5. TextRefs(j, q) \subseteq TextRefs(i, p)
      BY <2>1, <3>4, NestedText
    <3>6. Visible(j) \subseteq Visible(i)
      BY <1>1, <3>1, <3>2 DEF Visible, CommonTables
    <3>7. \A ref : Resolved(Lineage, Visible(j), ref) \subseteq Resolved(Lineage, Visible(i), ref)
      BY <3>6 DEF Resolved, Sources
    <3>8. SourcesOf(j, q) \subseteq SourcesOf(i, p)
      BY <2>1, <3>4, <3>5, <3>7
    <3>9. QED BY <2>2, <3>1, <3>3, <3>8 DEF Within
  <2>3. ASSUME NEW ref \in scope.outputs[p].refs, NEW f \in Sources(ref, scope.from),
               x \in Means(i, f, ref.name)
        PROVE  Within(x, SourcesOf(i, p))
    <3>1. f \in scope.from /\ ref.of \in {Unqualified, f}
      BY DEF Sources
    <3>2. ref \in TextRefs(i, p) /\ f \in Sources(ref, Visible(i))
      BY <2>1, <3>1, TextTyped DEF Sources, Visible
    <3>3. SourceColumn(Lineage, f, ref.name) \subseteq SourcesOf(i, p)
      BY <2>1, <3>2 DEF Resolved
    <3>4. CASE f = Table
      \* The validator has looked at every reference that may be to the table.
      <4>1. ref \in OwnRefs(i)
        BY <2>1 DEF OwnRefs, OutputRefs
      <4>2. ref.name \in OfTable(i, i, OwnRefs(i))
        BY <3>1, <3>4, <4>1 DEF OfTable
      <4>3. allowed[ref.name].read
        BY <3>1, <3>4, <4>2 DEF Accepted, ScopeValid
      <4>4. ref.name \in SourceColumn(Lineage, f, ref.name)
        BY <3>4, <4>3 DEF SourceColumn
      <4>5. x = <<Table, ref.name>>
        BY <2>3, <3>4 DEF Means
      <4>6. QED BY <3>3, <4>4, <4>5 DEF Within
    <3>5. CASE f # Table
      <4>1. f \in DOMAIN query
        BY <1>1, <3>1, <3>5 DEF ScopeWell, Table
      <4>2. ~Wrapped(i, f)
        BY <3>1, <3>5 DEF Wrapped, LooksAlike
      <4>3. PICK q \in DOMAIN OutputNames(f) : OutputNames(f)[q] = ref.name /\ x = <<f, q>>
        BY <2>3, <3>5, <4>2 DEF Means
      <4>4. q \in DOMAIN Lineage[f].outputs /\ Lineage[f].outputs[q].name = ref.name
        BY <4>1, <4>3, NamesOfLineage
      <4>5. SourcesOf(f, q) \subseteq SourceColumn(Lineage, f, ref.name)
        BY <3>5, <4>4 DEF SourceColumn, SourcesOf
      <4>6. x[1] = f /\ x[2] = q
        BY <4>3
      <4>7. QED BY <3>3, <3>5, <4>1, <4>4, <4>5, <4>6 DEF Within
    <3>6. QED BY <3>4, <3>5
  <2>4. \/ \E j \in scope.outputs[p].nested : \E q \in DOMAIN OutputNames(j) : x = <<j, q>>
        \/ \E ref \in scope.outputs[p].refs : \E f \in Sources(ref, scope.from) :
              x \in Means(i, f, ref.name)
    <3> DEFINE ofNested == {{<<j, q>> : q \in DOMAIN OutputNames(j)} : j \in scope.outputs[p].nested}
               ofRefs == {UNION {Means(i, f, ref.name) : f \in Sources(ref, scope.from)} :
                             ref \in scope.outputs[p].refs}
    <3>1. x \in (UNION ofNested) \cup (UNION ofRefs)
      BY <1>2 DEF MadeFrom
    <3>2. CASE \E s \in ofNested : x \in s
      BY <3>2
    <3>3. CASE \E s \in ofRefs : x \in s
      <4>1. PICK ref \in scope.outputs[p].refs :
              x \in UNION {Means(i, f, ref.name) : f \in Sources(ref, scope.from)}
        BY <3>3
      <4>2. QED BY <4>1
    <3>4. (\E s \in ofNested : x \in s) \/ (\E s \in ofRefs : x \in s)
      <4> HIDE DEF ofNested, ofRefs
      <4>1. QED BY <3>1
    <3>5. QED BY <3>2, <3>3, <3>4
  <2>5. QED BY <2>2, <2>3, <2>4
<1>3. CASE \E a, b \in 1 .. i - 1 : scope.branches = <<a, b>>
  <2>1. PICK a \in 1 .. i - 1, b \in 1 .. i - 1 : scope.branches = <<a, b>>
    BY <1>3
  <2>2. /\ scope.branches # <<>> /\ scope.branches[1] = a /\ scope.branches[2] = b
        /\ DOMAIN scope.branches = {1, 2}
        /\ a \in DOMAIN query /\ b \in DOMAIN query /\ a # Table /\ b # Table
    BY <1>1, <2>1 DEF Table
  <2>3. Lineage[i].outputs = SetLineage(Lineage, scope.branches).outputs
    BY <2>2, LineageOutputs
  <2>4. PICK c \in {a, b} : p \in DOMAIN OutputNames(c) /\ x = <<c, p>>
    BY <2>2 DEF MadeFrom, Branches
  <2>5. c \in DOMAIN query /\ c # Table /\ p \in DOMAIN Lineage[c].outputs
    BY <2>2, <2>4, NamesOfLineage
  <2>6. SourcesOf(c, p) \subseteq SourcesOf(i, p)
    BY <2>2, <2>3, <2>5, SetOutputs DEF SourcesOf
  <2>7. QED BY <2>4, <2>5, <2>6 DEF Within
<1>4. QED BY <1>1, <1>2, <1>3 DEF ScopeWell

\* Every source the analyzer has found is readable.
LEMMA SourcesReadable ==
    ASSUME QueryWell, NEW i \in DOMAIN query, NEW p \in DOMAIN Lineage[i].outputs,
           NEW c \in SourcesOf(i, p)
    PROVE  allowed[c].read
<1> DEFINE Open(n) == \A q \in DOMAIN Lineage[n].outputs :
                         \A d \in SourcesOf(n, q) : allowed[d].read
           Shut == {n \in 1 .. Len(query) : ~Open(n)}
<1>1. Len(query) \in Nat /\ DOMAIN query = 1 .. Len(query)
  BY DEF QueryWell
<1>2. Shut = {}
  <2>1. SUFFICES ASSUME Shut # {} PROVE FALSE
    OBVIOUS
  <2>2. PICK n \in Shut : \A l \in Shut : n <= l
    <3>1. Shut \subseteq Nat
      OBVIOUS
    <3> HIDE DEF Shut
    <3>2. QED BY <2>1, <3>1, LeastNat
  <2>3. n \in DOMAIN query /\ ~Open(n)
    BY <1>1
  <2> DEFINE scope == query[n]
  <2>4. ScopeWell(scope, n) /\ n \in Nat
    BY <1>1, <2>3 DEF QueryWell
  <2>5. ASSUME NEW j \in 1 .. n - 1 PROVE Open(j)
    <3>1. j \in 1 .. Len(query) /\ ~(n <= j)
      BY <1>1, <2>3
    <3>2. j \notin Shut
      BY <2>2, <3>1
    <3> HIDE DEF Open
    <3>3. QED BY <3>1, <3>2
  <2>6. CASE scope.branches = <<>>
    <3>1. SUFFICES ASSUME NEW q \in DOMAIN Lineage[n].outputs, NEW d \in SourcesOf(n, q)
                   PROVE  allowed[d].read
      BY <2>3
    <3>2. SourcesOf(n, q) = UNION {Resolved(Lineage, Visible(n), ref) : ref \in TextRefs(n, q)}
      BY <2>3, <2>6, SelectSources
    <3>3. PICK ref \in TextRefs(n, q) : d \in Resolved(Lineage, Visible(n), ref)
      BY <3>2
    <3>4. PICK f \in Sources(ref, Visible(n)) : d \in SourceColumn(Lineage, f, ref.name)
      BY <3>3 DEF Resolved
    <3>5. f \in 0 .. n - 1
      BY <2>3, PartsBefore DEF Sources
    <3>6. CASE f = Table
      BY <3>4, <3>6 DEF SourceColumn
    <3>7. CASE f # Table
      <4>1. PICK r \in DOMAIN Lineage[f].outputs : d \in SourcesOf(f, r)
        BY <3>4, <3>7 DEF SourceColumn, SourcesOf
      <4>2. f \in 1 .. n - 1
        BY <2>4, <3>5, <3>7 DEF Table
      <4>3. QED BY <2>5, <4>1, <4>2
    <3>8. QED BY <3>6, <3>7
  <2>7. CASE \E a, b \in 1 .. n - 1 : scope.branches = <<a, b>>
    <3>1. PICK a \in 1 .. n - 1, b \in 1 .. n - 1 : scope.branches = <<a, b>>
      BY <2>7
    <3>2. scope.branches # <<>> /\ scope.branches[1] = a /\ scope.branches[2] = b
      BY <3>1
    <3>3. Lineage[n].outputs = SetLineage(Lineage, scope.branches).outputs
      BY <2>3, <3>2, LineageOutputs
    <3>4. \A q \in DOMAIN Lineage[n].outputs :
             /\ q \in DOMAIN Lineage[a].outputs
             /\ SourcesOf(n, q) = SourcesOf(a, q) \cup
                   (IF q \in DOMAIN Lineage[b].outputs THEN SourcesOf(b, q) ELSE {})
      BY <3>2, <3>3, SetOutputs DEF SourcesOf
    <3>5. Open(a) /\ Open(b)
      BY <2>5
    <3>6. Open(n)
      BY <3>4, <3>5
    <3>7. QED BY <2>3, <3>6
  <2>8. QED BY <2>4, <2>6, <2>7 DEF ScopeWell
<1>3. Open(i)
  <2> HIDE DEF Open
  <2>1. QED BY <1>1, <1>2
<1>4. QED BY <1>3

\* The recursion of Reached is well-defined.
LEMMA ReachedDefined ==
    ASSUME NEW p
    PROVE  \E reached :
              /\ reached = [n \in 0 .. MaxScopes |->
                    IF n = 0 THEN {<<Root, p>>}
                    ELSE reached[n - 1] \cup
                         UNION {MadeFrom(x[1], x[2]) : x \in {y \in reached[n - 1] : y[1] # Table}}]
              /\ Reached(p) = reached[MaxScopes]
<1> DEFINE Further(s) == s \cup UNION {MadeFrom(x[1], x[2]) : x \in {y \in s : y[1] # Table}}
           Body(g, n) == IF n = 0 THEN {<<Root, p>>} ELSE Further(g[n - 1])
           Upto(k) == \E g : g = [n \in 0 .. k |-> Body(g, n)]
           Undefined == {k \in 0 .. MaxScopes : ~Upto(k)}
<1>1. MaxScopes \in Nat
  BY BoundsAssumption
<1> HIDE DEF Further
<1>2. Undefined = {}
  <2>1. SUFFICES ASSUME Undefined # {} PROVE FALSE
    OBVIOUS
  <2>2. PICK k \in Undefined : \A l \in Undefined : k <= l
    <3>1. Undefined \subseteq Nat
      OBVIOUS
    <3> HIDE DEF Undefined
    <3>2. QED BY <2>1, <3>1, LeastNat
  <2>3. k \in 0 .. MaxScopes /\ ~Upto(k)
    OBVIOUS
  <2>4. k # 0
    <3>1. ASSUME k = 0 PROVE Upto(k)
      <4> DEFINE g == [n \in 0 .. k |-> {<<Root, p>>}]
      <4>1. \A n \in 0 .. k : Body(g, n) = {<<Root, p>>}
        BY <3>1
      <4>2. g = [n \in 0 .. k |-> Body(g, n)]
        BY <4>1
      <4>3. QED BY <4>2
    <3>2. QED BY <2>3, <3>1
  <2>5. k - 1 \in 0 .. MaxScopes /\ Upto(k - 1)
    <3>1. k - 1 \in 0 .. MaxScopes /\ ~(k <= k - 1)
      BY <1>1, <2>3, <2>4
    <3>2. k - 1 \notin Undefined
      BY <2>2, <3>1
    <3> HIDE DEF Upto
    <3>3. QED BY <3>1, <3>2
  <2>6. PICK g : g = [n \in 0 .. k - 1 |-> Body(g, n)]
    BY <2>5
  <2> DEFINE h == [n \in 0 .. k |-> Body(g, n)]
  <2>7. \A n \in 0 .. k - 1 : h[n] = g[n]
    <3> HIDE DEF Body
    <3>1. \A n \in 0 .. k - 1 : n \in 0 .. k
      BY <2>3
    <3>2. QED BY <2>6, <3>1
  <2>8. \A n \in 0 .. k : Body(h, n) = Body(g, n)
    <3>1. \A n \in 0 .. k : n # 0 => n - 1 \in 0 .. k - 1
      BY <2>3
    <3> HIDE DEF h
    <3>2. QED BY <2>7, <3>1
  <2>9. h = [n \in 0 .. k |-> Body(h, n)]
    BY <2>8
  <2>10. Upto(k)
    BY <2>9
  <2>11. QED BY <2>3, <2>10
<1>3. Upto(MaxScopes)
  <2>1. MaxScopes \in 0 .. MaxScopes
    BY <1>1
  <2> HIDE DEF Upto
  <2>2. QED BY <1>2, <2>1
<1>4. PICK built : built = [n \in 0 .. MaxScopes |-> Body(built, n)]
  BY <1>3
<1> DEFINE reached == CHOOSE g : g = [n \in 0 .. MaxScopes |-> Body(g, n)]
<1>5. reached = [n \in 0 .. MaxScopes |-> Body(reached, n)]
  BY <1>4
<1>6. Reached(p) = reached[MaxScopes]
  BY DEF Reached, Further
<1> HIDE DEF reached
<1>7. QED BY <1>5, <1>6 DEF Further

\* What an output of the root depends on is among the sources found for it.
LEMMA DependsOnSources ==
    ASSUME QueryWell, Accepted, query # <<>>, NEW p \in DOMAIN Lineage[Root].outputs,
           ~LooksElsewhere(p)
    PROVE  DependsOn(p) \subseteq SourcesOf(Root, p)
<1> DEFINE sources == SourcesOf(Root, p)
<1>1. Root \in DOMAIN query /\ Root # Table /\ MaxScopes \in Nat
  BY BoundsAssumption DEF QueryWell, Root, Table
<1>2. PICK reached :
        /\ reached = [n \in 0 .. MaxScopes |->
              IF n = 0 THEN {<<Root, p>>}
              ELSE reached[n - 1] \cup
                   UNION {MadeFrom(x[1], x[2]) : x \in {y \in reached[n - 1] : y[1] # Table}}]
        /\ Reached(p) = reached[MaxScopes]
  BY ReachedDefined
<1>3. reached[0] = {<<Root, p>>}
  BY <1>1, <1>2
<1>4. \A n \in 1 .. MaxScopes :
         reached[n] = reached[n - 1] \cup
            UNION {MadeFrom(x[1], x[2]) : x \in {y \in reached[n - 1] : y[1] # Table}}
  <2>1. SUFFICES ASSUME NEW n \in 1 .. MaxScopes
                 PROVE  reached[n] = reached[n - 1] \cup
                           UNION {MadeFrom(x[1], x[2]) : x \in {y \in reached[n - 1] : y[1] # Table}}
    OBVIOUS
  <2>2. n \in 0 .. MaxScopes /\ n # 0
    BY <1>1
  <2>3. QED BY <1>2, <2>2
\* What is reached early stays reached, and so the assumption covers it.
<1> DEFINE Lasts(n) == reached[MaxScopes - n] \subseteq Reached(p)
           Passing == {n \in 0 .. MaxScopes : ~Lasts(n)}
<1>5. Passing = {}
  <2>1. SUFFICES ASSUME Passing # {} PROVE FALSE
    OBVIOUS
  <2>2. PICK n \in Passing : \A l \in Passing : n <= l
    <3>1. Passing \subseteq Nat
      OBVIOUS
    <3> HIDE DEF Passing
    <3>2. QED BY <2>1, <3>1, LeastNat
  <2>3. n \in 0 .. MaxScopes /\ ~Lasts(n)
    OBVIOUS
  <2>4. n # 0
    BY <1>1, <1>2, <2>3
  <2>5. n - 1 \in 0 .. MaxScopes /\ Lasts(n - 1)
    <3>1. n - 1 \in 0 .. MaxScopes /\ ~(n <= n - 1)
      BY <1>1, <2>3, <2>4
    <3>2. n - 1 \notin Passing
      BY <2>2, <3>1
    <3> HIDE DEF Lasts
    <3>3. QED BY <3>1, <3>2
  <2>6. reached[MaxScopes - n] \subseteq reached[MaxScopes - n + 1]
    <3> DEFINE m == MaxScopes - n + 1
    <3>1. m \in 1 .. MaxScopes /\ m - 1 = MaxScopes - n
      BY <1>1, <2>3, <2>4
    <3> HIDE DEF m
    <3>2. reached[m - 1] \subseteq reached[m]
      BY <1>4, <3>1
    <3>3. QED BY <3>1, <3>2 DEF m
  <2>7. MaxScopes - (n - 1) = MaxScopes - n + 1
    BY <1>1, <2>3
  <2>8. QED BY <2>3, <2>5, <2>6, <2>7
<1>6. ASSUME NEW n \in 0 .. MaxScopes PROVE reached[n] \subseteq Reached(p)
  <2>1. MaxScopes - n \in 0 .. MaxScopes /\ MaxScopes - (MaxScopes - n) = n
    BY <1>1
  <2>2. Lasts(MaxScopes - n)
    <3> HIDE DEF Lasts
    <3>1. QED BY <1>5, <2>1
  <2>3. QED BY <2>1, <2>2
<1> DEFINE Inside(n) == \A x \in reached[n] : Within(x, sources)
           Outside == {n \in 0 .. MaxScopes : ~Inside(n)}
<1>7. Outside = {}
  <2>1. SUFFICES ASSUME Outside # {} PROVE FALSE
    OBVIOUS
  <2>2. PICK n \in Outside : \A l \in Outside : n <= l
    <3>1. Outside \subseteq Nat
      OBVIOUS
    <3> HIDE DEF Outside
    <3>2. QED BY <2>1, <3>1, LeastNat
  <2>3. n \in 0 .. MaxScopes /\ ~Inside(n)
    OBVIOUS
  <2>4. n # 0
    <3>1. Within(<<Root, p>>, sources)
      BY <1>1 DEF Within
    <3>2. Inside(0)
      BY <1>3, <3>1
    <3>3. QED BY <2>3, <3>2
  <2>5. n - 1 \in 0 .. MaxScopes /\ Inside(n - 1)
    <3>1. n - 1 \in 0 .. MaxScopes /\ ~(n <= n - 1)
      BY <1>1, <2>3, <2>4
    <3>2. n - 1 \notin Outside
      BY <2>2, <3>1
    <3> HIDE DEF Inside
    <3>3. QED BY <3>1, <3>2
  <2>6. ASSUME NEW y \in reached[n - 1], y[1] # Table, NEW x \in MadeFrom(y[1], y[2])
        PROVE  Within(x, sources)
    <3>1. /\ y[1] \in DOMAIN query /\ y[2] \in DOMAIN Lineage[y[1]].outputs
          /\ SourcesOf(y[1], y[2]) \subseteq sources
      BY <2>5, <2>6 DEF Within
    <3>2. LooksAlike(y[1], y[2])
      <4>1. y \in Reached(p)
        BY <1>6, <2>5, <2>6
      <4>2. QED BY <2>6, <4>1 DEF LooksElsewhere, LooksAlike
    <3>3. Within(x, SourcesOf(y[1], y[2]))
      BY <2>6, <3>1, <3>2, MadeWithin
    <3> HIDE DEF sources
    <3>4. QED BY <3>1, <3>3 DEF Within
  <2>7. Inside(n)
    <3>1. reached[n] = reached[n - 1] \cup
             UNION {MadeFrom(x[1], x[2]) : x \in {y \in reached[n - 1] : y[1] # Table}}
      BY <1>4, <2>3, <2>4
    <3>2. QED BY <2>5, <2>6, <3>1
  <2>8. QED BY <2>3, <2>7
<1>8. Inside(MaxScopes)
  <2>1. MaxScopes \in 0 .. MaxScopes
    BY <1>1
  <2> HIDE DEF Inside
  <2>2. QED BY <1>7, <2>1
<1>9. \A x \in Reached(p) : x[1] = Table => x[2] \in sources
  BY <1>2, <1>8 DEF Within
<1>10. QED BY <1>9 DEF DependsOn

-----------------------------------------------------------------------------
(* The plan: an output is masked at least as strongly as each of its sources. *)

\* The strongest of some masks is at least as strong as each.
LEMMA StrongestOfMasks ==
    ASSUME NEW masks \in SUBSET Masks
    PROVE  /\ Strongest(masks) \in Masks
           /\ \A n \in masks : n <= Strongest(masks)
<1>1. CASE masks = {}
  BY <1>1 DEF Strongest, Masks, Unmasked
<1>2. CASE masks # {}
  <2>1. masks \subseteq 0 .. 4
    BY DEF Masks
  <2>2. PICK k \in 0 .. 4 : k \in masks /\ \A n \in k + 1 .. 4 : n \notin masks
    <3>1. CASE 4 \in masks
      BY <3>1
    <3>2. CASE 4 \notin masks /\ 3 \in masks
      BY <3>2
    <3>3. CASE 4 \notin masks /\ 3 \notin masks /\ 2 \in masks
      BY <3>3
    <3>4. CASE 4 \notin masks /\ 3 \notin masks /\ 2 \notin masks /\ 1 \in masks
      BY <3>4
    <3>5. CASE \A n \in 1 .. 4 : n \notin masks
      <4>1. PICK n \in masks : n \in 0 .. 4
        BY <1>2, <2>1
      <4>2. n = 0
        BY <3>5, <4>1
      <4>3. QED BY <3>5, <4>1, <4>2
    <3>6. QED BY <3>1, <3>2, <3>3, <3>4, <3>5
  <2>3. \A n \in masks : n <= k
    BY <2>1, <2>2
  <2>4. Strongest(masks) \in masks /\ \A n \in masks : n <= Strongest(masks)
    BY <1>2, <2>2, <2>3 DEF Strongest
  <2>5. QED BY <2>4
<1>3. QED BY <1>1, <1>2

\* An entry of the plan is at least as strong as the mask of every source.
LEMMA PlanMasks ==
    ASSUME allowed \in [Names -> Capabilities], QueryWell, query # <<>>
    PROVE  /\ DOMAIN MaskingPlan = DOMAIN Lineage[Root].outputs
           /\ \A p \in DOMAIN MaskingPlan :
                 /\ MaskingPlan[p] \in Masks
                 /\ \A c \in SourcesOf(Root, p) : allowed[c].mask <= MaskingPlan[p]
<1>1. Root \in DOMAIN query
  BY DEF QueryWell, Root
<1>2. /\ DOMAIN MaskingPlan = DOMAIN Lineage[Root].outputs
      /\ \A p \in DOMAIN MaskingPlan : MaskingPlan[p] = StrongestMask(SourcesOf(Root, p))
  BY DEF MaskingPlan, SourcesOf
<1>3. ASSUME NEW sources \in SUBSET Names
      PROVE  /\ StrongestMask(sources) \in Masks
             /\ \A c \in sources : allowed[c].mask <= StrongestMask(sources)
  <2> DEFINE masks == {allowed[c].mask : c \in sources}
  <2>1. \A c \in sources : allowed[c] \in Capability
    BY CapabilitiesAssumption
  <2>2. masks \in SUBSET Masks
    BY <2>1 DEF Capability
  <2>3. \A c \in sources : allowed[c].mask \in masks
    OBVIOUS
  <2>4. StrongestMask(sources) = Strongest(masks)
    BY DEF StrongestMask
  <2> HIDE DEF masks
  <2>5. QED BY <2>2, <2>3, <2>4, StrongestOfMasks
<1>4. \A p \in DOMAIN MaskingPlan : SourcesOf(Root, p) \in SUBSET Names
  BY <1>1, <1>2, OutputsTyped
<1>5. QED BY <1>2, <1>3, <1>4

-----------------------------------------------------------------------------
(* The inductive invariant: a query that may run has been accepted as it     *)
(* stands, with the plan of its lineage, and what a finished one returned is *)
(* a function of the rows there were.                                       *)

Planned ==
    /\ stage \in {"accepted", "done"} => query # <<>> /\ Accepted /\ plan = MaskingPlan
    /\ stage \in {"posed", "rejected"} => plan = <<>>

Answered ==
    IF stage = "done"
    THEN \E available \in 0 .. MaxTable, limit \in Limits, fit \in 0 .. MaxRows + 1 :
            result = [available |-> available, limit |-> limit,
                      rows |-> Returned(available, limit, fit),
                      truncated |-> Truncated(available, limit, fit)]
    ELSE result = NoResult

Inv ==
    /\ allowed \in [Names -> Capabilities] /\ filters \in RowFilters
    /\ stage \in {"posed", "accepted", "rejected", "done"}
    /\ QueryWell
    /\ Planned
    /\ Answered

LEMMA InitInv == Init => Inv
<1> SUFFICES ASSUME Init PROVE Inv
  OBVIOUS
<1>1. QueryWell
  BY BoundsAssumption DEF Init, QueryWell
<1>2. Planned /\ Answered
  BY DEF Init, Planned, Answered
<1>3. QED BY <1>1, <1>2 DEF Init, Inv

\* The verdict and the plan depend on the query and on what the user may do.
LEMMA VerdictStands ==
    UNCHANGED <<query, allowed>> => (Accepted' <=> Accepted) /\ MaskingPlan' = MaskingPlan
<1> SUFFICES ASSUME query' = query, allowed' = allowed
             PROVE  (Accepted' <=> Accepted) /\ MaskingPlan' = MaskingPlan
  OBVIOUS
<1> USE DEF Subqueries, Nested, Branches, Named
<1>1. Lineage' = Lineage
  BY DEF Lineage, WithoutDuplicates, SelectLineage, SetLineage, Resolves, Resolved, Origins,
         SourceColumn, Sources, Distinct, TextRefs, Visible, CommonTables, OutputRefs, OwnRefs,
         Parts, Reach
<1>2. (\A i \in DOMAIN query : ScopeValid(i))' <=> \A i \in DOMAIN query : ScopeValid(i)
  BY DEF ScopeValid, TableAllowed, OfTable, OutputRefs, OwnRefs, Below, UnderTests, Inner, Reach
<1>3. QED BY <1>1, <1>2 DEF Accepted, MaskingPlan, Root, StrongestMask, Strongest

\* A query that is still posed has no plan and no answer.
LEMMA PoseInv ==
    ASSUME Inv, PoseSelect \/ PoseSetOperation
    PROVE  Inv'
<1>1. stage = "posed" /\ \E scope : Pose(scope)
  BY ZenonT(60) DEF PoseSelect, PoseSetOperation, MayPose
<1>2. stage = "posed" /\ UNCHANGED <<allowed, filters, stage, plan, result>>
  BY <1>1 DEF Pose
<1>3. QueryWell'
  BY PoseKeepsWell DEF Inv
<1>4. Planned' /\ Answered'
  BY <1>2 DEF Inv, Planned, Answered
<1>5. QED BY <1>2, <1>3, <1>4 DEF Inv

\* The plan of a query is made when the query is accepted and not otherwise.
LEMMA ValidateInv ==
    ASSUME Inv, Validate
    PROVE  Inv'
<1>1. /\ stage = "posed" /\ query # <<>> /\ UNCHANGED <<allowed, filters, query, result>>
      /\ \/ Accepted /\ stage' = "accepted" /\ plan' = MaskingPlan
         \/ stage' = "rejected" /\ plan' = plan
  BY DEF Validate
<1>2. QueryWell'
  BY <1>1 DEF Inv, QueryWell, ScopeWell
<1>3. Planned'
  BY <1>1, VerdictStands DEF Inv, Planned
<1>4. Answered'
  BY <1>1 DEF Inv, Answered
<1>5. QED BY <1>1, <1>2, <1>3, <1>4 DEF Inv

\* An answer is what some number of rows, a limit and a byte limit give.
LEMMA ExecuteInv ==
    ASSUME Inv, NEW available \in 0 .. MaxTable, NEW limit \in Limits, NEW fit \in 0 .. MaxRows + 1,
           Execute(available, limit, fit)
    PROVE  Inv'
<1>1. /\ stage = "accepted" /\ stage' = "done" /\ UNCHANGED <<allowed, filters, query, plan>>
      /\ result' = [available |-> available, limit |-> limit,
                    rows |-> Returned(available, limit, fit),
                    truncated |-> Truncated(available, limit, fit)]
  BY DEF Execute
<1>2. QueryWell'
  BY <1>1 DEF Inv, QueryWell, ScopeWell
<1>3. Planned'
  BY <1>1, VerdictStands DEF Inv, Planned
<1>4. Answered'
  BY <1>1 DEF Answered
<1>5. QED BY <1>1, <1>2, <1>3, <1>4 DEF Inv

LEMMA StutterInv == Inv /\ UNCHANGED vars => Inv'
<1> SUFFICES ASSUME Inv, UNCHANGED vars PROVE Inv'
  OBVIOUS
<1>1. UNCHANGED <<allowed, filters, query, stage, plan, result>>
  BY DEF vars
<1>2. QueryWell'
  BY <1>1 DEF Inv, QueryWell, ScopeWell
<1>3. Planned'
  BY <1>1, VerdictStands DEF Inv, Planned
<1>4. Answered'
  BY <1>1 DEF Inv, Answered
<1>5. QED BY <1>1, <1>2, <1>3, <1>4 DEF Inv

\* Whatever query is posed, it keeps to the invariant up to its answer.
THEOREM InvHolds == Spec => []Inv
<1>1. Inv /\ [Next]_vars => Inv'
  BY PoseInv, ValidateInv, ExecuteInv, StutterInv DEF Next
<1>2. QED BY <1>1, InitInv, PTL DEF Spec

-----------------------------------------------------------------------------
(* The properties of SafeQueryService. *)

\* The arithmetic of the limit: one row more than the limit is fetched to see that
\* rows are missing, and masking may stop before.
LEMMA AnswerBounds ==
    ASSUME NEW available \in 0 .. MaxTable, NEW limit \in Limits, NEW fit \in 0 .. MaxRows + 1
    PROVE  /\ Returned(available, limit, fit) \in 0 .. MaxRows
           /\ Truncated(available, limit, fit) \in BOOLEAN
           /\ Truncated(available, limit, fit) <=>
                 Returned(available, limit, fit)
                    < (IF limit = NoLimit THEN available ELSE Least(available, limit))
<1>1. MaxRows \in Nat \ {0} /\ MaxTable \in Nat
  BY MaxRowsAssumption, BoundsAssumption
<1>2. QED BY <1>1 DEF Returned, Truncated, Fetched, FetchLimit, Least, Limits, NoLimit

\* Types: in particular every mask of the plan is one, and the row that is fetched
\* beyond the limit is never returned.
THEOREM TypeCorrect == Spec => []TypeOK
<1>1. ASSUME Inv PROVE TypeOK
  <2>1. \A p \in DOMAIN plan : plan[p] \in Masks
    BY <1>1, PlanMasks DEF Inv, Planned
  <2>2. result \in [available : 0 .. MaxTable, limit : Limits, rows : 0 .. MaxRows,
                    truncated : BOOLEAN]
    <3>1. CASE stage = "done"
      <4>1. PICK available \in 0 .. MaxTable, limit \in Limits, fit \in 0 .. MaxRows + 1 :
              result = [available |-> available, limit |-> limit,
                        rows |-> Returned(available, limit, fit),
                        truncated |-> Truncated(available, limit, fit)]
        BY <1>1, <3>1 DEF Inv, Answered
      <4>2. Returned(available, limit, fit) \in 0 .. MaxRows
            /\ Truncated(available, limit, fit) \in BOOLEAN
        BY AnswerBounds
      <4>3. QED BY <4>1, <4>2
    <3>2. CASE stage # "done"
      <4>1. 0 \in 0 .. MaxTable /\ NoLimit \in Limits /\ 0 \in 0 .. MaxRows
        BY MaxRowsAssumption, BoundsAssumption DEF Limits, NoLimit
      <4>2. result = [available |-> 0, limit |-> NoLimit, rows |-> 0, truncated |-> FALSE]
        BY <1>1, <3>2 DEF Inv, Answered, NoResult
      <4>3. QED BY <4>1, <4>2
    <3>3. QED BY <3>1, <3>2
  <2>3. QED BY <1>1, <2>1, <2>2 DEF Inv, TypeOK
<1>2. QED BY <1>1, InvHolds, PTL

\* However many rows there are, whatever the limit of the query and wherever the
\* byte limit stops the masking, the answer says truncated exactly when it is.
THEOREM TruncationIsReported == Spec => []TruncationIsHonest
<1>1. ASSUME Inv PROVE TruncationIsHonest
  <2>1. SUFFICES ASSUME stage = "done"
                 PROVE  LET asked == IF result.limit = NoLimit THEN result.available
                                     ELSE Least(result.available, result.limit)
                        IN  result.rows <= MaxRows /\ (result.truncated <=> result.rows < asked)
    BY DEF TruncationIsHonest
  <2>2. PICK available \in 0 .. MaxTable, limit \in Limits, fit \in 0 .. MaxRows + 1 :
          result = [available |-> available, limit |-> limit,
                    rows |-> Returned(available, limit, fit),
                    truncated |-> Truncated(available, limit, fit)]
    BY <1>1, <2>1 DEF Inv, Answered
  <2>3. /\ result.available = available /\ result.limit = limit
        /\ result.rows = Returned(available, limit, fit)
        /\ result.truncated = Truncated(available, limit, fit)
    BY <2>2
  <2>4. result.rows <= MaxRows
    BY <2>3, AnswerBounds, MaxRowsAssumption
  <2>5. QED BY <2>3, <2>4, AnswerBounds
<1>2. QED BY <1>1, InvHolds, PTL

\* Whatever the query, every place at which it reads the table, in a common table
\* expression, a derived table, a branch or a subquery, at any depth, yields the rows
\* that pass the filters: the rewriter visits all text that is run.
THEOREM FiltersAreApplied == Spec => []RowsAreAuthorized
<1>1. ASSUME Inv PROVE RowsAreAuthorized
  <2>1. SUFFICES ASSUME stage \in {"accepted", "done"}, NEW i \in Evaluated, NEW f \in query[i].from,
                        f = Table \/ Wrapped(i, f)
                 PROVE  RowsRead(i, f) = {row \in SUBSET Names : Passes(row, filters)}
    BY DEF RowsAreAuthorized
  <2>2. QueryWell /\ query # <<>>
    BY <1>1, <2>1 DEF Inv, Planned
  <2>3. QED BY <2>1, <2>2, WrappedPasses
<1>2. QED BY <1>1, InvHolds, PTL

\* The plan has one mask for every column of the result, and these have names of
\* their own.
THEOREM EveryOutputHasAMask == Spec => []PlanFitsResult
<1>1. ASSUME Inv PROVE PlanFitsResult
  <2>1. SUFFICES ASSUME stage \in {"accepted", "done"}
                 PROVE  /\ DOMAIN plan = DOMAIN OutputNames(Root)
                        /\ \A p, q \in DOMAIN plan :
                              OutputNames(Root)[p] = OutputNames(Root)[q] => p = q
    BY DEF PlanFitsResult
  <2>2. QueryWell /\ query # <<>> /\ Accepted /\ plan = MaskingPlan
    BY <1>1, <2>1 DEF Inv, Planned
  <2>3. Root \in DOMAIN query
    BY <2>2 DEF QueryWell, Root
  <2>4. OutputNames(Root) = [p \in DOMAIN Lineage[Root].outputs |-> Lineage[Root].outputs[p].name]
    BY <2>2, <2>3, NamesOfLineage
  <2>5. Distinct(Lineage[Root].outputs)
    BY <2>2, RootDistinct
  <2>6. DOMAIN plan = DOMAIN Lineage[Root].outputs
    BY <1>1, <2>2, PlanMasks DEF Inv
  <2>7. QED BY <2>4, <2>5, <2>6 DEF Distinct
<1>2. QED BY <1>1, InvHolds, PTL

\* Whatever scopes, names, branches and subqueries a value comes through, the user may
\* read every column of the table it is made from, and it is masked as strongly, as long
\* as the analyzer looks names up where PostgreSQL does.
THEOREM MasksFollowTheLineage == Spec => []OutputsAreMasked
<1>1. ASSUME Inv PROVE OutputsAreMasked
  <2>1. SUFFICES ASSUME stage \in {"accepted", "done"}, NEW p \in DOMAIN OutputNames(Root),
                        ~LooksElsewhere(p), NEW c \in DependsOn(p)
                 PROVE  allowed[c].read /\ allowed[c].mask <= plan[p]
    BY DEF OutputsAreMasked, Covered
  <2>2. QueryWell /\ query # <<>> /\ Accepted /\ plan = MaskingPlan
    BY <1>1, <2>1 DEF Inv, Planned
  <2>3. Root \in DOMAIN query
    BY <2>2 DEF QueryWell, Root
  <2>4. p \in DOMAIN Lineage[Root].outputs
    BY <2>2, <2>3, NamesOfLineage
  <2>5. c \in SourcesOf(Root, p)
    BY <2>1, <2>2, <2>4, DependsOnSources
  <2>6. allowed[c].read
    BY <2>2, <2>3, <2>4, <2>5, SourcesReadable
  <2>7. allowed[c].mask <= plan[p]
    BY <1>1, <2>2, <2>4, <2>5, PlanMasks DEF Inv
  <2>8. QED BY <2>6, <2>7
<1>2. QED BY <1>1, InvHolds, PTL
=============================================================================
