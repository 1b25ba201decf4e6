-------------------------- MODULE PermissionsProofs --------------------------
(* Theorems about Permissions, for any number of subjects, columns and     *)
(* requests, and whatever capabilities and filters they ask for.           *)
EXTENDS Permissions, TLAPS

USE SensitiveAssumption, CapabilitiesAssumption, FiltersAssumption
-----------------------------------------------------------------------------
(* The inductive invariant: the mask is checked before the rows are        *)
(* written, so it is the rows of the requests that have to be masked too.  *)

Masked(rows) == \A c \in DOMAIN rows \cap Sensitive : rows[c].read => rows[c].mask # Unmasked

Inv ==
    /\ TypeOK
    /\ RowsAreReferenced
    /\ \A s \in Subjects : Masked(grant[s].rows)
    /\ \A r \in Requests : Masked(req[r].rows)
-----------------------------------------------------------------------------
(* Column rows. *)

LEMMA RowsTyped ==
    ASSUME NEW rows \in ColumnRows
    PROVE  DOMAIN rows \subseteq Columns /\ rows \in [DOMAIN rows -> Capabilities]
BY DEF ColumnRows

LEMMA AreRows ==
    ASSUME NEW C \in SUBSET Columns, NEW rows \in [C -> Capabilities]
    PROVE  rows \in ColumnRows
BY DEF ColumnRows

LEMMA NoRowsAreRows == NoRows \in ColumnRows /\ DOMAIN NoRows = {} /\ Masked(NoRows)
<1>1. NoRows \in [{} -> Capabilities]
  BY DEF NoRows
<1>2. QED
  BY <1>1, AreRows DEF NoRows, Masked

LEMMA WithoutKeeps ==
    ASSUME NEW rows \in ColumnRows, NEW C \in SUBSET Columns
    PROVE  /\ Without(rows, C) \in ColumnRows
           /\ DOMAIN Without(rows, C) = DOMAIN rows \ C
           /\ Masked(rows) => Masked(Without(rows, C))
<1>1. Without(rows, C) \in [DOMAIN rows \ C -> Capabilities]
  BY RowsTyped DEF Without
<1>2. QED
  BY <1>1, AreRows, RowsTyped DEF Without, Masked

LEMMA Doings ==
    ASSUME NEW pc \in {"idle", "create", "update", "delete", "remove", "insert"},
           NEW s \in Subjects
    PROVE  /\ Doing(pc, s) \in Request /\ Doing(pc, s).of = s /\ Doing(pc, s).pc = pc
           /\ Masked(Doing(pc, s).rows)
BY NoRowsAreRows DEF Doing, Request, Object, NoObject

LEMMA NoGrants ==
    ASSUME NEW status \in {"unused", "live", "deleted"}
    PROVE  /\ NoGrant(status) \in Grant /\ NoGrant(status).rows = NoRows
           /\ ~NoGrant(status).object.read /\ NoGrant(status).status = status
BY NoRowsAreRows DEF NoGrant, Grant, Object, NoObject

LEMMA Flushed ==
    ASSUME NEW stored \in Object, NEW loaded \in Object, NEW object \in Object
    PROVE  /\ Flush(stored, loaded, object) \in Object
           /\ Flush(stored, loaded, object).read
                = (IF object.read = loaded.read THEN stored.read ELSE object.read)
<1>1. DOMAIN stored = {"read", "filter"}
  BY DEF Object
<1>2. Flush(stored, loaded, object)
         = [read   |-> IF object.read = loaded.read THEN stored.read ELSE object.read,
            filter |-> IF object.filter = loaded.filter THEN stored.filter ELSE object.filter]
  BY <1>1 DEF Flush
<1>3. QED
  BY <1>2 DEF Object
-----------------------------------------------------------------------------
(* What a step of a request does: to its own record, and to one permission. *)

LEMMA Typed ==
    ASSUME Inv, NEW r \in Requests
    PROVE  /\ req[r] \in Request /\ req[r].of \in Subjects
           /\ req[r].loaded \in Object /\ req[r].object \in Object
           /\ req[r].rows \in ColumnRows /\ req[r].gone \in SUBSET Columns
BY DEF Inv, TypeOK, Request

LEMMA GrantTyped ==
    ASSUME Inv, NEW s \in Subjects
    PROVE  /\ grant[s] \in Grant /\ grant[s].object \in Object
           /\ grant[s].rows \in ColumnRows /\ Masked(grant[s].rows)
           /\ grant[s].status \in {"unused", "live", "deleted"}
           /\ grant[s].status # "live" => DOMAIN grant[s].rows = {}
           /\ DOMAIN grant[s].rows \subseteq Live
BY DEF Inv, TypeOK, Grant, RowsAreReferenced

\* The request of r becomes x and nothing else changes.
LEMMA RequestStep ==
    ASSUME Inv, NEW r \in Requests, NEW x \in Request, Masked(x.rows),
           req' = [req EXCEPT ![r] = x], UNCHANGED <<column, grant>>
    PROVE  Inv'
<1>1. TypeOK'
  BY DEF Inv, TypeOK
<1>2. RowsAreReferenced'
  BY DEF Inv, RowsAreReferenced, Live
<1>3. \A s \in Subjects : Masked(grant'[s].rows)
  BY DEF Inv
<1>4. \A q \in Requests : Masked(req'[q].rows)
  BY DEF Inv, TypeOK
<1>5. QED
  BY <1>1, <1>2, <1>3, <1>4 DEF Inv, Masked

\* The permission of s becomes g, and every request keeps its rows or drops them.
LEMMA GrantStep ==
    ASSUME Inv, NEW s \in Subjects, NEW g \in Grant, Masked(g.rows),
           g.status # "live" => DOMAIN g.rows = {},
           DOMAIN g.rows \subseteq Live,
           grant' = [grant EXCEPT ![s] = g], column' = column,
           req' \in [Requests -> Request],
           \A q \in Requests : Masked(req'[q].rows)
    PROVE  Inv'
<1>1. TypeOK'
  BY DEF Inv, TypeOK
<1>2. Live' = Live
  BY DEF Live
<1>3. RowsAreReferenced'
  BY <1>2 DEF Inv, TypeOK, RowsAreReferenced
<1>4. \A t \in Subjects : Masked(grant'[t].rows)
  BY DEF Inv, TypeOK
<1>5. QED
  BY <1>1, <1>3, <1>4 DEF Inv, Masked

LEMMA AnswerKeeps ==
    ASSUME Inv, NEW r \in Requests, Answer(r)
    PROVE  /\ req' \in [Requests -> Request]
           /\ \A q \in Requests : Masked(req'[q].rows)
<1>1. Doing("idle", req[r].of) \in Request /\ Masked(Doing("idle", req[r].of).rows)
  BY Typed, Doings
<1>2. QED
  BY <1>1 DEF Answer, Inv, TypeOK
-----------------------------------------------------------------------------
LEMMA InitInv == Init => Inv
<1> SUFFICES ASSUME Init PROVE Inv
  OBVIOUS
<1>1. column \in [Columns -> {"absent", "live", "dropped"}]
  BY DEF Init
<1>2. grant \in [Subjects -> Grant] /\ \A s \in Subjects : grant[s].rows = NoRows
  BY NoGrants DEF Init
<1>3. PICK s \in Subjects : req = [r \in Requests |-> Doing("idle", s)]
  BY DEF Init
<1>4. req \in [Requests -> Request] /\ \A r \in Requests : Masked(req[r].rows)
  BY <1>3, Doings
<1>5. RowsAreReferenced
  BY <1>2, NoRowsAreRows DEF RowsAreReferenced
<1>6. QED
  BY <1>1, <1>2, <1>4, <1>5, NoRowsAreRows DEF Inv, TypeOK

LEMMA CreateInv ==
    ASSUME Inv, NEW r \in Requests, NEW s \in Subjects, NEW object \in Object,
           Create(r, s, object)
    PROVE  Inv'
<1> DEFINE x == [Doing("create", s) EXCEPT !.object = object]
<1>0. Doing("create", s) \in Request /\ Masked(Doing("create", s).rows)
  BY Doings
<1>1. x \in Request /\ x.rows = Doing("create", s).rows
  BY <1>0 DEF Request
<1>2. req' = [req EXCEPT ![r] = x] /\ UNCHANGED <<column, grant>>
  BY DEF Create
<1> HIDE DEF x
<1>3. Masked(x.rows)
  BY <1>0, <1>1
<1>4. QED
  BY <1>1, <1>2, <1>3, RequestStep

LEMMA UpdateInv ==
    ASSUME Inv, NEW r \in Requests, NEW s \in Subjects, NEW object \in Object,
           Update(r, s, object)
    PROVE  Inv'
<1> DEFINE x == [Doing("update", s) EXCEPT !.loaded = grant[s].object, !.object = object]
<1>0. /\ Doing("update", s) \in Request /\ Masked(Doing("update", s).rows)
      /\ grant[s].object \in Object
  BY Doings, GrantTyped
<1>1. x \in Request /\ x.rows = Doing("update", s).rows
  BY <1>0 DEF Request
<1>2. req' = [req EXCEPT ![r] = x] /\ UNCHANGED <<column, grant>>
  BY DEF Update
<1> HIDE DEF x
<1>3. Masked(x.rows)
  BY <1>0, <1>1
<1>4. QED
  BY <1>1, <1>2, <1>3, RequestStep

LEMMA DeleteInv ==
    ASSUME Inv, NEW r \in Requests, NEW s \in Subjects, Delete(r, s)
    PROVE  Inv'
<1> DEFINE x == Doing("delete", s)
<1>1. x \in Request /\ Masked(x.rows)
  BY Doings
<1>2. req' = [req EXCEPT ![r] = x] /\ UNCHANGED <<column, grant>>
  BY DEF Delete
<1> HIDE DEF x
<1>3. QED
  BY <1>1, <1>2, RequestStep

LEMMA ReplaceInv ==
    ASSUME Inv, NEW r \in Requests, NEW s \in Subjects, NEW rows \in ColumnRows,
           Replace(r, s, rows)
    PROVE  Inv'
<1> DEFINE x == [Doing("remove", s) EXCEPT !.rows = rows]
<1>1. x \in Request /\ x.rows = rows
  BY Doings DEF Request
<1>2. Masked(rows)
  BY DEF Replace, Masked
<1>3. req' = [req EXCEPT ![r] = x] /\ UNCHANGED <<column, grant>>
  BY DEF Replace
<1>4. QED
  BY <1>1, <1>2, <1>3, RequestStep

LEMMA RemoveInv ==
    ASSUME Inv, NEW r \in Requests, Remove(r)
    PROVE  Inv'
<1> DEFINE x == [req[r] EXCEPT !.pc = "insert", !.gone = DOMAIN grant[req[r].of].rows]
<1>0. req[r] \in Request /\ grant[req[r].of].rows \in ColumnRows
  BY Typed, GrantTyped
<1>1. DOMAIN grant[req[r].of].rows \in SUBSET Columns
  BY <1>0, RowsTyped
<1>2. x \in Request /\ x.rows = req[r].rows
  BY <1>0, <1>1 DEF Request
<1>3. req' = [req EXCEPT ![r] = x] /\ UNCHANGED <<column, grant>>
  BY DEF Remove
<1>4. Masked(req[r].rows)
  BY DEF Inv
<1>5. QED
  BY <1>2, <1>3, <1>4, RequestStep

LEMMA InsertFailsInv ==
    ASSUME Inv, NEW r \in Requests, InsertFails(r)
    PROVE  Inv'
<1> DEFINE x == Doing("idle", req[r].of)
<1>1. x \in Request /\ Masked(x.rows)
  BY Typed, Doings
<1>2. req' = [req EXCEPT ![r] = x] /\ UNCHANGED <<column, grant>>
  BY DEF InsertFails, Answer
<1> HIDE DEF x
<1>3. QED
  BY <1>1, <1>2, RequestStep
-----------------------------------------------------------------------------
LEMMA CommitCreateInv ==
    ASSUME Inv, NEW r \in Requests, CommitCreate(r)
    PROVE  Inv'
<1> DEFINE s == req[r].of
           g == IF grant[s].status = "unused"
                THEN [status |-> "live", rows |-> NoRows, object |-> req[r].object]
                ELSE grant[s]
<1>1. s \in Subjects /\ g \in Grant
  BY Typed, GrantTyped, NoRowsAreRows DEF Grant
<1>2. grant' = [grant EXCEPT ![s] = g]
  BY <1>1 DEF CommitCreate, Inv, TypeOK
<1>3. /\ Masked(g.rows) /\ DOMAIN g.rows \subseteq Live
      /\ g.status # "live" => DOMAIN g.rows = {}
  BY Typed, GrantTyped, NoRowsAreRows
<1>4. QED
  BY <1>1, <1>2, <1>3, AnswerKeeps, GrantStep DEF CommitCreate

LEMMA CommitUpdateInv ==
    ASSUME Inv, NEW r \in Requests, CommitUpdate(r)
    PROVE  Inv'
<1> DEFINE s == req[r].of
           o == IF grant[s].status = "live"
                THEN Flush(grant[s].object, req[r].loaded, req[r].object)
                ELSE grant[s].object
           g == [grant[s] EXCEPT !.object = o]
<1>1. s \in Subjects /\ o \in Object
  BY Typed, GrantTyped, Flushed
<1>2. g \in Grant /\ g.rows = grant[s].rows /\ g.status = grant[s].status
  BY <1>1, GrantTyped DEF Grant
<1>3. grant' = [grant EXCEPT ![s] = g]
  BY <1>1, GrantTyped DEF CommitUpdate, Inv, TypeOK, Grant
<1>4. /\ Masked(g.rows) /\ DOMAIN g.rows \subseteq Live
      /\ g.status # "live" => DOMAIN g.rows = {}
  BY <1>1, <1>2, GrantTyped
<1>5. /\ req' \in [Requests -> Request] /\ column' = column
      /\ \A q \in Requests : Masked(req'[q].rows)
  BY AnswerKeeps DEF CommitUpdate
<1> HIDE DEF g, s
<1>6. s \in Subjects
  BY <1>1
<1>7. QED
  BY <1>2, <1>3, <1>4, <1>5, <1>6, GrantStep

LEMMA CommitDeleteInv ==
    ASSUME Inv, NEW r \in Requests, CommitDelete(r)
    PROVE  Inv'
<1> DEFINE g == NoGrant("deleted")
<1>1. /\ g \in Grant /\ Masked(g.rows)
      /\ DOMAIN g.rows = {} /\ DOMAIN g.rows \subseteq Live
  BY NoGrants, NoRowsAreRows
<1>2. grant' = [grant EXCEPT ![req[r].of] = g] /\ column' = column
  BY DEF CommitDelete
<1>3. req' \in [Requests -> Request] /\ \A q \in Requests : Masked(req'[q].rows)
  BY AnswerKeeps DEF CommitDelete
<1>4. req[r].of \in Subjects
  BY Typed
<1> DEFINE s == req[r].of
<1> HIDE DEF g, s
<1>5. grant' = [grant EXCEPT ![s] = g] /\ s \in Subjects
  BY <1>2, <1>4 DEF s
<1>6. QED
  BY <1>1, <1>2, <1>3, <1>5, GrantStep

LEMMA InsertInv ==
    ASSUME Inv, NEW r \in Requests, Insert(r)
    PROVE  Inv'
<1> DEFINE s == req[r].of
           old == grant[s].rows
           new == req[r].rows
           g == [grant[s] EXCEPT !.rows = WithInserted(r)]
<1>1. /\ s \in Subjects /\ old \in ColumnRows /\ new \in ColumnRows
      /\ Masked(old) /\ Masked(new)
      /\ DOMAIN old \subseteq Live /\ DOMAIN new \subseteq Live /\ Live \subseteq Columns
      /\ DOMAIN new # {} => grant[s].status = "live"
      /\ grant[s].status # "live" => DOMAIN old = {}
  BY Typed, GrantTyped DEF Insert, MayInsert, Inv, Live
<1>2. DOMAIN WithInserted(r) = DOMAIN new \cup (DOMAIN old \ req[r].gone)
  BY DEF WithInserted, Kept
<1>3. WithInserted(r) \in [DOMAIN WithInserted(r) -> Capabilities]
  BY <1>1, RowsTyped DEF WithInserted, Kept
<1>4. WithInserted(r) \in ColumnRows
  BY <1>1, <1>2, <1>3, AreRows
<1>5. Masked(WithInserted(r))
  BY <1>1 DEF Masked, WithInserted, Kept
<1>6. g \in Grant /\ g.rows = WithInserted(r) /\ g.status = grant[s].status
  BY <1>1, <1>4, GrantTyped DEF Grant
<1>7. grant' = [grant EXCEPT ![s] = g]
  BY <1>1 DEF Insert, Inv, TypeOK
<1>8. ASSUME NEW q \in Requests
      PROVE  req'[q] \in Request /\ Masked(req'[q].rows)
  <2> DEFINE x == [req[q] EXCEPT !.gone = @ \ req[r].gone]
  <2>1. x \in Request /\ x.rows = req[q].rows
    BY Typed DEF Request
  <2>2. Masked(req[q].rows) /\ req[q] \in Request
    BY Typed DEF Inv
  <2>3. Doing("idle", s) \in Request /\ Masked(Doing("idle", s).rows)
    BY <1>1, Doings
  <2>4. req'[q] \in {Doing("idle", s), x, req[q]}
    BY DEF Insert, Forget
  <2>5. QED
    BY <2>1, <2>2, <2>3, <2>4
<1>9. req' \in [Requests -> Request]
  BY <1>8 DEF Insert, Forget
<1>10. column' = column
  BY DEF Insert
<1>11. QED
  BY <1>1, <1>2, <1>5, <1>6, <1>7, <1>8, <1>9, <1>10, GrantStep

LEMMA SynchronizeInv ==
    ASSUME Inv, NEW seen \in SUBSET Columns, Synchronize(seen)
    PROVE  Inv'
<1>1. Columns \ seen \in SUBSET Columns
  OBVIOUS
<1>2. Live' = seen
  BY DEF Synchronize, Live, Inv, TypeOK
<1>3. ASSUME NEW s \in Subjects
      PROVE  /\ grant'[s] \in Grant /\ Masked(grant'[s].rows)
             /\ DOMAIN grant'[s].rows \subseteq seen
             /\ grant'[s].status # "live" => DOMAIN grant'[s].rows = {}
  <2> DEFINE left == Without(grant[s].rows, Columns \ seen)
  <2>1. left \in ColumnRows /\ Masked(left) /\ DOMAIN left = DOMAIN grant[s].rows \ (Columns \ seen)
    BY <1>1, GrantTyped, WithoutKeeps
  <2>2. grant'[s] = [grant[s] EXCEPT !.rows = left]
    BY DEF Synchronize
  <2>3. grant'[s] \in Grant /\ grant'[s].rows = left /\ grant'[s].status = grant[s].status
    BY <2>1, <2>2, GrantTyped DEF Grant
  <2>4. DOMAIN grant[s].rows \subseteq Columns
    BY GrantTyped, RowsTyped
  <2>5. QED
    BY <2>1, <2>3, <2>4, GrantTyped
<1>4. TypeOK'
  BY <1>3 DEF Synchronize, Inv, TypeOK
<1>5. RowsAreReferenced'
  BY <1>2, <1>3 DEF RowsAreReferenced
<1>6. QED
  BY <1>3, <1>4, <1>5 DEF Inv, Synchronize, Masked

LEMMA StutterInv == Inv /\ UNCHANGED vars => Inv'
BY DEF Inv, TypeOK, RowsAreReferenced, Live, Masked, vars

LEMMA NextInv == Inv /\ [Next]_vars => Inv'
BY CreateInv, UpdateInv, DeleteInv, ReplaceInv, CommitCreateInv, CommitUpdateInv,
   CommitDeleteInv, RemoveInv, InsertInv, InsertFailsInv, SynchronizeInv, StutterInv
   DEF Next

THEOREM InvHolds == Spec => []Inv
BY InitInv, NextInv, PTL DEF Spec

(* Type correctness. *)
THEOREM TypeCorrect == Spec => []TypeOK
BY InvHolds, PTL DEF Inv

(* However requests and synchronisations overlap, a column row belongs to a *)
(* table permission and to a column that exist.                            *)
THEOREM RowsBelong == Spec => []RowsAreReferenced
BY InvHolds, PTL DEF Inv
-----------------------------------------------------------------------------
(* What the resolver makes of the rows. *)

LEMMA StrongestIsAMask ==
    ASSUME NEW masks \in SUBSET Masks, masks # {}
    PROVE  Strongest(masks) \in masks
<1>1. PICK m \in 0 .. 4 : m \in masks /\ \A n \in m + 1 .. 4 : n \notin masks
  <2>1. masks \subseteq 0 .. 4
    BY DEF Masks
  <2>2. CASE 4 \in masks
    BY <2>2
  <2>3. CASE 4 \notin masks /\ 3 \in masks
    BY <2>3
  <2>4. CASE 4 \notin masks /\ 3 \notin masks /\ 2 \in masks
    BY <2>4
  <2>5. CASE 4 \notin masks /\ 3 \notin masks /\ 2 \notin masks /\ 1 \in masks
    BY <2>5
  <2>6. CASE \A n \in 1 .. 4 : n \notin masks
    <3>1. PICK n \in masks : n \in 0 .. 4
      BY <2>1
    <3>2. n = 0
      BY <2>6, <3>1
    <3>3. QED
      BY <2>6, <3>1, <3>2
  <2>7. QED
    BY <2>2, <2>3, <2>4, <2>5, <2>6
<1>2. \A n \in masks : n <= m
  BY <1>1 DEF Masks
<1>3. QED
  BY <1>1, <1>2 DEF Strongest

LEMMA SensitiveIsMasked ==
    ASSUME Inv, NEW selected \in SUBSET Subjects, NEW c \in Sensitive,
           Effective(selected, c).read
    PROVE  Effective(selected, c).mask # Unmasked
<1> DEFINE given == UNION {Gives(grant[s].rows, c \in Sensitive, c) : s \in selected}
           masks == {x.mask : x \in {y \in given : y.read}}
<1>1. ASSUME NEW x \in given
      PROVE  x \in Capability /\ (x.read => x.mask # Unmasked)
  <2>1. PICK s \in selected : x \in Gives(grant[s].rows, c \in Sensitive, c)
    BY <1>1
  <2>2. c \in DOMAIN grant[s].rows /\ x = grant[s].rows[c]
    BY <2>1 DEF Gives
  <2>3. x \in Capabilities /\ Masked(grant[s].rows)
    BY <2>2, GrantTyped, RowsTyped
  <2>4. QED
    BY <2>2, <2>3 DEF Masked
<1>2. masks \in SUBSET Masks /\ Unmasked \notin masks
  BY <1>1 DEF Capability
<1>3. /\ Effective(selected, c).read <=> \E x \in given : x.read
      /\ Effective(selected, c).mask = Strongest(masks)
  BY DEF Effective, MergeColumn
<1>4. masks # {}
  BY <1>3
<1>5. QED
  BY <1>2, <1>3, <1>4, StrongestIsAMask

(* Whatever permissions a user is given, a sensitive column is masked. *)
THEOREM SensitiveIsAlwaysMasked == Spec => []SensitiveMasked
<1>1. Inv => SensitiveMasked
  BY SensitiveIsMasked DEF SensitiveMasked, Readable
<1>2. QED
  BY <1>1, InvHolds, PTL
-----------------------------------------------------------------------------
(* Steps that may not happen. *)

Revoked(s) == grant[s].status = "live" /\ ~grant[s].object.read
AsksToRead(s) ==
    \E r \in Requests : /\ req[r].pc = "update" /\ req[r].of = s
                        /\ ~req[r].loaded.read /\ req[r].object.read

LEMMA OnlyUpdatesGiveBack ==
    ASSUME Inv, [Next]_vars, NEW s \in Subjects, Revoked(s), grant'[s].object.read
    PROVE  AsksToRead(s)
<1> USE DEF Revoked
<1>1. grant'[s].object # grant[s].object
  OBVIOUS
<1>2. ASSUME NEW r \in Requests, CommitUpdate(r) PROVE AsksToRead(s)
  <2>1. req[r].of = s
    BY <1>1, <1>2 DEF CommitUpdate, Inv, TypeOK
  <2>2. grant'[s].object = Flush(grant[s].object, req[r].loaded, req[r].object)
    BY <1>2, <2>1, GrantTyped DEF CommitUpdate, Inv, TypeOK, Grant
  <2> DEFINE stored == grant[s].object
             loaded == req[r].loaded
             object == req[r].object
  <2>3. stored \in Object /\ loaded \in Object /\ object \in Object
    BY Typed, GrantTyped
  <2>4. Flush(stored, loaded, object).read
          = (IF object.read = loaded.read THEN stored.read ELSE object.read)
    BY ONLY <2>3, Flushed
  <2>5. object.read \in BOOLEAN /\ loaded.read \in BOOLEAN
    BY <2>3 DEF Object
  <2>6. ~loaded.read /\ object.read
    BY <2>2, <2>4, <2>5
  <2>7. QED
    BY <1>2, <2>1, <2>6 DEF CommitUpdate, AsksToRead
<1>3. ASSUME NEW r \in Requests,
             CommitCreate(r) \/ CommitDelete(r) \/ Remove(r) \/ Insert(r) \/ InsertFails(r)
      PROVE  FALSE
  <2>1. CASE CommitCreate(r)
    BY <1>1, <2>1 DEF CommitCreate, Inv, TypeOK
  <2>2. CASE CommitDelete(r)
    BY <1>1, <2>2, NoGrants DEF CommitDelete, Inv, TypeOK
  <2>3. CASE Remove(r) \/ InsertFails(r)
    BY <1>1, <2>3 DEF Remove, InsertFails
  <2>4. CASE Insert(r)
    BY <1>1, <2>4, GrantTyped DEF Insert, Inv, TypeOK, Grant
  <2>5. QED
    BY <1>3, <2>1, <2>2, <2>3, <2>4
<1>4. ASSUME NEW seen \in SUBSET Columns, Synchronize(seen) PROVE FALSE
  BY <1>1, <1>4, GrantTyped DEF Synchronize, Grant
<1>5. CASE UNCHANGED vars
  BY <1>1, <1>5 DEF vars
<1>6. ASSUME NEW r \in Requests, NEW t \in Subjects,
             \/ \E object \in Object : Create(r, t, object) \/ Update(r, t, object)
             \/ Delete(r, t)
             \/ \E rows \in ColumnRows : Replace(r, t, rows)
      PROVE  FALSE
  BY <1>1, <1>6 DEF Create, Update, Delete, Replace
<1>7. QED
  BY <1>2, <1>3, <1>4, <1>5, <1>6 DEF Next

(* A permission that was made unreadable stays so until a request that asks *)
(* for the opposite commits.                                               *)
THEOREM RevocationsHold == Spec => RevocationsStay
<1>1. Inv /\ [Next]_vars =>
        [\A s \in Subjects :
          grant[s].status = "live" /\ ~grant[s].object.read /\ grant'[s].object.read
          => \E r \in Requests : /\ req[r].pc = "update" /\ req[r].of = s
                                 /\ ~req[r].loaded.read /\ req[r].object.read]_vars
  BY OnlyUpdatesGiveBack DEF Revoked, AsksToRead
<1>2. QED
  BY <1>1, InvHolds, PTL DEF Spec, RevocationsStay
-----------------------------------------------------------------------------
(* Merging one more permission. *)

ReadableRole(s) == grant[s].status = "live" /\ grant[s].object.read

LEMMA SelectedRoles ==
    ASSUME NEW roles \in SUBSET Subjects
    PROVE  Selected({}, roles) = {s \in roles : ReadableRole(s)}
BY DEF Selected, ReadableRole

LEMMA ReadableIf ==
    ASSUME NEW selected, NEW c
    PROVE  c \in Readable(selected)
              <=> /\ c \in Live
                  /\ \E s \in selected :
                        \E x \in Gives(grant[s].rows, c \in Sensitive, c) : x.read
BY DEF Readable, Effective, MergeColumn

LEMMA VisibleIf ==
    ASSUME NEW selected, NEW row
    PROVE  row \in Visible(selected)
              <=> /\ Readable(selected) # {} /\ row \in SUBSET Columns
                  /\ Compiles(selected)
                  /\ \E s \in selected : \/ grant[s].object.filter = {}
                                         \/ grant[s].object.filter \subseteq row
<1> DEFINE filters == {grant[s].object.filter : s \in selected}
<1>1. CASE Readable(selected) = {} \/ ~Compiles(selected)
  BY <1>1 DEF Visible
<1>2. CASE Readable(selected) # {} /\ Compiles(selected)
  <2>1. filters # {}
    <3>1. PICK c : c \in Readable(selected)
      BY <1>2
    <3>2. PICK s \in selected : TRUE
      BY <3>1, ReadableIf
    <3>3. QED
      BY <3>2
  <2>2. Passes(row, MergeFilters(filters))
          <=> {} \in filters \/ \E f \in filters : f \subseteq row
    BY <2>1 DEF Passes, MergeFilters
  <2>3. row \in Visible(selected)
          <=> row \in SUBSET Columns /\ Passes(row, MergeFilters(filters))
    BY <1>2 DEF Visible, RowFilters
  <2>4. QED
    BY <1>2, <2>2, <2>3
<1>3. QED
  BY <1>1, <1>2

LEMMA ColumnsStay ==
    ASSUME Inv, [Next]_vars, NEW s \in Subjects, ~ReadableRole(s), ReadableRole(s)'
    PROVE  column' = column
<1>1. ASSUME NEW seen \in SUBSET Columns, Synchronize(seen) PROVE FALSE
  BY <1>1, GrantTyped DEF Synchronize, ReadableRole, Grant
<1>2. CASE UNCHANGED vars
  BY <1>2 DEF vars
<1>3. ASSUME NEW r \in Requests,
             \/ CommitCreate(r) \/ CommitUpdate(r) \/ CommitDelete(r)
             \/ Remove(r) \/ Insert(r) \/ InsertFails(r)
      PROVE  column' = column
  BY <1>3 DEF CommitCreate, CommitUpdate, CommitDelete, Remove, Insert, InsertFails
<1>4. ASSUME NEW r \in Requests, NEW t \in Subjects,
             \/ \E object \in Object : Create(r, t, object) \/ Update(r, t, object)
             \/ Delete(r, t)
             \/ \E rows \in ColumnRows : Replace(r, t, rows)
      PROVE  column' = column
  BY <1>4 DEF Create, Update, Delete, Replace
<1>5. QED
  BY <1>1, <1>2, <1>3, <1>4 DEF Next

LEMMA RoleWidens ==
    ASSUME Inv, [Next]_vars, NEW s \in Subjects, NEW others \in SUBSET Subjects,
           s \notin Selected({}, {s}), s \in Selected({}, {s})',
           grant'[s].object.filter \subseteq Live',
           \A t \in others \ {s} : grant'[t] = grant[t]
    PROVE  /\ Readable(Selected({}, others)) \subseteq
                  Readable(Selected({}, others \cup {s}))'
           /\ Visible(Selected({}, others)) \subseteq
                  Visible(Selected({}, others \cup {s}))'
<1> DEFINE before == Selected({}, others)
           after == Selected({}, others \cup {s})'
<1>1. ~ReadableRole(s) /\ ReadableRole(s)'
  BY DEF Selected, ReadableRole
<1>2. Live' = Live
  BY <1>1, ColumnsStay DEF Live
<1>3. before = {t \in others : ReadableRole(t)}
  BY SelectedRoles
<1>4. after = {t \in others \cup {s} : ReadableRole(t)'}
  BY DEF Selected, ReadableRole
<1>5. \A t \in before : t \in after /\ grant'[t] = grant[t]
  BY <1>1, <1>3, <1>4 DEF ReadableRole
<1>6. ASSUME NEW c
      PROVE  c \in Readable(Selected({}, others \cup {s}))'
                <=> /\ c \in Live'
                    /\ \E t \in after :
                          \E x \in Gives(grant'[t].rows, c \in Sensitive, c) : x.read
  <2> DEFINE given == UNION {Gives(grant'[t].rows, c \in Sensitive, c) : t \in after}
  <2>1. Effective(Selected({}, others \cup {s}), c)' = MergeColumn(given)
    BY DEF Effective
  <2>2. MergeColumn(given).read <=> \E x \in given : x.read
    BY DEF MergeColumn
  <2>3. c \in Readable(Selected({}, others \cup {s}))'
          <=> c \in Live' /\ Effective(Selected({}, others \cup {s}), c)'.read
    BY DEF Readable
  <2>4. c \in Readable(Selected({}, others \cup {s}))'
          <=> c \in Live' /\ \E x \in given : x.read
    BY ONLY <2>1, <2>2, <2>3
  <2> HIDE DEF after
  <2>5. QED
    BY ONLY <2>4
<1>7. Readable(before) \subseteq Readable(Selected({}, others \cup {s}))'
  BY <1>2, <1>5, <1>6, ReadableIf
<1>8. ASSUME NEW row, row \in Visible(before)
      PROVE  row \in Visible(Selected({}, others \cup {s}))'
  <2>1. /\ row \in SUBSET Columns /\ Readable(before) # {} /\ Compiles(before)
        /\ \E t \in before : \/ grant[t].object.filter = {}
                             \/ grant[t].object.filter \subseteq row
    BY <1>8, VisibleIf
  <2>2. PICK t \in after : \/ grant'[t].object.filter = {}
                          \/ grant'[t].object.filter \subseteq row
    BY <1>5, <2>1
  <2> DEFINE filters == {grant'[u].object.filter : u \in after}
  <2>3. Passes(row, MergeFilters(filters))
    BY <2>2 DEF Passes, MergeFilters
  <2>4. Readable(Selected({}, others \cup {s}))' # {}
    BY <1>7, <2>1
  <2>5. \A f \in MergeFilters(filters) : f \subseteq Live'
    <3>1. ASSUME {} \notin filters, NEW t1 \in after PROVE grant'[t1].object.filter \subseteq Live'
      <4>1. CASE t1 = s
        BY <4>1
      <4>2. CASE t1 # s
        <5>1. t1 \in before /\ grant'[t1] = grant[t1]
          BY <1>3, <1>4, <4>2 DEF ReadableRole
        <5>2. {} \notin {grant[u].object.filter : u \in before}
          BY <1>5, <3>1
        <5>3. grant[t1].object.filter \in RowFilters(before)
          BY <5>1, <5>2 DEF RowFilters, MergeFilters
        <5>4. QED
          BY <1>2, <2>1, <5>1, <5>3 DEF Compiles
      <4>3. QED
        BY <4>1, <4>2
    <3>2. QED
      BY <3>1 DEF MergeFilters
  <2>6. Compiles(Selected({}, others \cup {s}))'
    BY <2>5 DEF Compiles, RowFilters
  <2>7. QED
    BY <2>1, <2>3, <2>4, <2>6 DEF Visible, RowFilters
<1>9. QED
  BY <1>7, <1>8

(* A further role never takes a column or a row from a user, unless its     *)
(* filter is on a column that was dropped.                                 *)
THEOREM FurtherRolesWiden == Spec => RolesOnlyWiden
<1>1. Inv /\ [Next]_vars =>
        [\A s \in Subjects, others \in SUBSET Subjects :
          /\ s \notin Selected({}, {s}) /\ s \in Selected({}, {s})'
          /\ grant'[s].object.filter \subseteq Live'
          /\ \A t \in others \ {s} : grant'[t] = grant[t]
          => /\ Readable(Selected({}, others)) \subseteq
                    Readable(Selected({}, others \cup {s}))'
             /\ Visible(Selected({}, others)) \subseteq
                    Visible(Selected({}, others \cup {s}))']_vars
  BY RoleWidens
<1>2. QED
  BY <1>1, InvHolds, PTL DEF Spec, RolesOnlyWiden
-----------------------------------------------------------------------------
(* A synchronisation. *)

LEMMA RequestsMove ==
    ASSUME Inv, Next, req' = req
    PROVE  \E seen \in SUBSET Columns : Synchronize(seen)
<1>1. ASSUME NEW r \in Requests, NEW s \in Subjects, NEW object \in Object,
             Create(r, s, object) \/ Update(r, s, object)
      PROVE  FALSE
  <2>1. req'[r].pc \in {"create", "update"}
    BY <1>1 DEF Create, Update, Doing, Inv, TypeOK
  <2>2. QED
    BY <1>1, <2>1 DEF Create, Update
<1>2. ASSUME NEW r \in Requests, NEW s \in Subjects,
             Delete(r, s) \/ \E rows \in ColumnRows : Replace(r, s, rows)
      PROVE  FALSE
  <2>1. req'[r].pc \in {"delete", "remove"}
    BY <1>2 DEF Delete, Replace, Doing, Inv, TypeOK
  <2>2. QED
    BY <1>2, <2>1 DEF Delete, Replace
<1>3. ASSUME NEW r \in Requests,
             CommitCreate(r) \/ CommitUpdate(r) \/ CommitDelete(r) \/ Insert(r) \/ InsertFails(r)
      PROVE  FALSE
  <2>1. req'[r].pc = "idle"
    BY <1>3, Doings, Typed DEF CommitCreate, CommitUpdate, CommitDelete, Insert, InsertFails,
                               Answer, Forget, Inv, TypeOK
  <2>2. QED
    BY <1>3, <2>1 DEF CommitCreate, CommitUpdate, CommitDelete, Insert, InsertFails
<1>4. ASSUME NEW r \in Requests, Remove(r) PROVE FALSE
  BY <1>4, Typed DEF Remove, Inv, TypeOK, Request
<1>5. QED
  BY <1>1, <1>2, <1>3, <1>4 DEF Next

LEMMA SyncGivesNothing ==
    ASSUME Inv, NEW seen \in SUBSET Columns, Synchronize(seen), NEW s \in Subjects,
           DOMAIN grant[s].rows # {} => DOMAIN grant[s].rows \cap Live' # {}
    PROVE  Readable(Selected({s}, {}))' \cap Live \subseteq Readable(Selected({s}, {}))
<1> DEFINE rows == grant[s].rows
           selected == Selected({s}, {})
<1>1. rows \in ColumnRows /\ rows \in [DOMAIN rows -> Capabilities]
  BY GrantTyped, RowsTyped
<1>2. /\ grant'[s].rows = Without(rows, Columns \ seen)
      /\ grant'[s].status = grant[s].status /\ grant'[s].object = grant[s].object
  BY GrantTyped DEF Synchronize, Grant
<1>3. DOMAIN grant'[s].rows = DOMAIN rows \ (Columns \ seen)
  BY <1>1, <1>2, WithoutKeeps
<1>4. Live' = seen
  BY DEF Synchronize, Live
<1>5. \A c \in DOMAIN grant'[s].rows : c \in DOMAIN rows /\ grant'[s].rows[c] = rows[c]
  BY <1>2, <1>3 DEF Without
<1>6. DOMAIN grant'[s].rows = {} <=> DOMAIN rows = {}
  BY <1>1, <1>3, <1>4, RowsTyped
<1>7. selected = {t \in {s} : ReadableRole(t)}
  BY DEF Selected, ReadableRole
<1>8. Selected({s}, {})' = selected
  BY <1>2 DEF Selected
<1>9. ASSUME NEW c \in Live, c \in Readable(Selected({s}, {}))'
      PROVE  c \in Readable(selected)
  <2> DEFINE given == UNION {Gives(grant'[t].rows, c \in Sensitive, c) : t \in selected}
  <2>1. Effective(Selected({s}, {}), c)' = MergeColumn(given)
    BY <1>8 DEF Effective
  <2>2. MergeColumn(given).read <=> \E x \in given : x.read
    BY DEF MergeColumn
  <2>3. \E x \in given : x.read
    BY <1>9, <2>1, <2>2 DEF Readable
  <2>4. PICK x \in Gives(grant'[s].rows, c \in Sensitive, c) : x.read /\ s \in selected
    BY <1>7, <2>3
  <2>5. x \in Gives(rows, c \in Sensitive, c)
    BY <1>5, <1>6, <2>4 DEF Gives
  <2>6. QED
    BY <2>4, <2>5, ReadableIf
<1>10. QED
  BY <1>9

(* A synchronisation never makes a column readable that was there and was   *)
(* not, unless it takes the last row of an allowlist away.                  *)
THEOREM SynchronizationGivesNothing == Spec => SyncWidensOnlyEmptied
<1>1. Inv /\ [Next]_vars =>
        [req' = req =>
          \A s \in Subjects :
              \/ Readable(Selected({s}, {}))' \cap Live \subseteq Readable(Selected({s}, {}))
              \/ DOMAIN grant[s].rows # {} /\ DOMAIN grant[s].rows \cap Live' = {}]_vars
  BY RequestsMove, SyncGivesNothing
<1>2. QED
  BY <1>1, InvHolds, PTL DEF Spec, SyncWidensOnlyEmptied
=============================================================================
