---------------------------- MODULE RefreshProofs ----------------------------
(* Theorems about RefreshTokens, for any number of tokens and calls. *)
EXTENDS RefreshTokens, TLAPS

-----------------------------------------------------------------------------
(* The inductive invariant: what the row locks give a call. *)

CallRecord == [pc : {"start", "issue", "select", "identity", "rotate", "revoke",
                     "revoking", "done", "lost"},
               arg : Tokens \cup {NoToken},
               chosen : SUBSET Tokens, hold : SUBSET Tokens]

Presenting == {"select", "identity", "rotate", "revoke", "revoking"}

\* Two transactions never hold the same row.
LocksExclusive == \A c, d \in Calls : c # d => Locks(c) \cap Locks(d) = {}

\* A call works on a token that was issued; between the SELECT ... FOR UPDATE and
\* the commit of a rotation the token stays usable; only rows of its family are
\* chosen and changed by a revocation.
CallsHold ==
    \A c \in Calls :
        /\ call[c].pc \in Presenting => call[c].arg \in Issued
        /\ call[c].pc \in {"identity", "rotate"} => Live(call[c].arg)
        /\ call[c].pc = "revoking" =>
             call[c].chosen \cup call[c].hold \subseteq Members(token[call[c].arg].family)
        /\ call[c].pc # "revoking" => call[c].hold = {}

\* Families and replacements are tokens that were issued.
LinksIssued ==
    \A t \in Issued : /\ token[t].family \in Issued
                      /\ token[t].next # NoToken => token[t].next \in Issued

Inv == TypeOK /\ LocksExclusive /\ CallsHold /\ LinksIssued

-----------------------------------------------------------------------------
(* What a step may do to the table. *)

Adds(t) ==
    /\ t \in Tokens \ Issued
    /\ token' = [token EXCEPT ![t] = [state |-> "live", family |-> t, next |-> NoToken]]

Replaces(old, t) ==
    /\ old \in Issued /\ Live(old)
    /\ t \in Tokens \ Issued
    /\ token' = [token EXCEPT
                   ![t] = [state |-> "live", family |-> token[old].family, next |-> NoToken],
                   ![old].state = "revoked",
                   ![old].next = t]

Revokes(T) ==
    /\ T \subseteq Issued
    /\ token' = [t \in Tokens |-> IF t \in T THEN [token[t] EXCEPT !.state = "revoked"]
                                              ELSE token[t]]

\* ... attribute by attribute.
LEMMA AfterAdds ==
    ASSUME TypeOK, NEW t, Adds(t)
    PROVE  /\ token' \in [Tokens -> Row]
           /\ token'[t] = [state |-> "live", family |-> t, next |-> NoToken]
           /\ \A u \in Tokens : u # t => token'[u] = token[u]
           /\ Issued' = Issued \cup {t}
<1>1. token' \in [Tokens -> Row] /\ token'[t] = [state |-> "live", family |-> t, next |-> NoToken]
  BY DEF Adds, TypeOK, Row
<1>2. \A u \in Tokens : u # t => token'[u] = token[u]
  BY DEF Adds, TypeOK
<1>3. QED BY <1>1, <1>2 DEF Issued, Adds

LEMMA AfterReplaces ==
    ASSUME TypeOK, NEW old, NEW t, Replaces(old, t)
    PROVE  /\ token' \in [Tokens -> Row] /\ old # t
           /\ token'[t] = [state |-> "live", family |-> token[old].family, next |-> NoToken]
           /\ token'[old].state = "revoked" /\ token'[old].next = t
           /\ token'[old].family = token[old].family
           /\ \A u \in Tokens : u # t /\ u # old => token'[u] = token[u]
           /\ Issued' = Issued \cup {t}
<1> DEFINE new == [state |-> "live", family |-> token[old].family, next |-> NoToken]
           gone == [token[old] EXCEPT !.state = "revoked", !.next = t]
<1>1. old \in Tokens /\ t \in Tokens /\ old # t /\ token[old] \in Row
  BY DEF Replaces, Issued, TypeOK
<1>2. gone.state = "revoked" /\ gone.family = token[old].family /\ gone.next = t /\ gone \in Row
  BY <1>1 DEF Row
<1>3. token' = [token EXCEPT ![t] = new, ![old] = gone]
  BY <1>1 DEF Replaces, TypeOK
<1>4. new \in Row /\ new.state = "live"
  BY <1>1 DEF Row
<1> HIDE DEF gone, new
<1>5. /\ token'[t] = new /\ token'[old] = gone
      /\ \A u \in Tokens : u # t /\ u # old => token'[u] = token[u]
  BY <1>1, <1>3 DEF TypeOK
<1>6. token' \in [Tokens -> Row]
  BY <1>2, <1>3, <1>4 DEF TypeOK
<1>7. Issued' = Issued \cup {t}
  BY <1>1, <1>2, <1>4, <1>5 DEF Issued, Replaces
<1>8. QED BY <1>1, <1>2, <1>5, <1>6, <1>7 DEF new

LEMMA AfterRevokes ==
    ASSUME TypeOK, NEW T, Revokes(T)
    PROVE  /\ token' \in [Tokens -> Row]
           /\ \A u \in T : token'[u].state = "revoked"
           /\ \A u \in Tokens : /\ token'[u].family = token[u].family
                                /\ token'[u].next = token[u].next
           /\ \A u \in Tokens \ T : token'[u] = token[u]
           /\ Issued' = Issued
<1>1. ASSUME NEW u \in T
      PROVE  token'[u] = [state |-> "revoked", family |-> token[u].family, next |-> token[u].next]
  <2>1. u \in Tokens /\ token[u] \in Row
    BY DEF Revokes, Issued, TypeOK
  <2>2. [token[u] EXCEPT !.state = "revoked"]
          = [state |-> "revoked", family |-> token[u].family, next |-> token[u].next]
    BY <2>1 DEF Row
  <2>3. token'[u] = [token[u] EXCEPT !.state = "revoked"]
    BY <2>1 DEF Revokes
  <2>4. QED BY <2>2, <2>3
<1>2. \A u \in Tokens \ T : token'[u] = token[u]
  BY DEF Revokes
<1>3. T \subseteq Tokens
  BY DEF Revokes, Issued
<1>4. ASSUME NEW u \in Tokens PROVE token'[u] \in Row
  <2>1. token[u] \in Row
    BY DEF TypeOK
  <2>2. CASE u \in T
    <3>1. token[u].family \in Tokens \cup {NoToken} /\ token[u].next \in Tokens \cup {NoToken}
      BY <2>1 DEF Row
    <3>2. token'[u] = [state |-> "revoked", family |-> token[u].family, next |-> token[u].next]
      BY <1>1, <2>2
    <3>3. QED BY <3>1, <3>2 DEF Row
  <2>3. CASE u \notin T
    BY <1>2, <2>1, <2>3
  <2>4. QED BY <2>2, <2>3
<1>5. token' \in [Tokens -> Row]
  BY <1>4 DEF Revokes
<1>6. Issued' = Issued
  BY <1>1, <1>2, <1>3 DEF Revokes, Issued
<1>7. ASSUME NEW u \in T
      PROVE  /\ token'[u].state = "revoked"
             /\ token'[u].family = token[u].family /\ token'[u].next = token[u].next
  <2> DEFINE gone == [state |-> "revoked", family |-> token[u].family, next |-> token[u].next]
  <2>1. gone.state = "revoked" /\ gone.family = token[u].family /\ gone.next = token[u].next
    OBVIOUS
  <2>2. token'[u] = gone
    BY <1>1
  <2> HIDE DEF gone
  <2>3. QED BY <2>1, <2>2
<1>8. QED BY <1>2, <1>3, <1>5, <1>6, <1>7

-----------------------------------------------------------------------------
(* What a step of a call makes of its record and, with it, of the table. *)

Step(c) == Login(c) \/ Refresh(c) \/ CallContinues(c) \/ CallDies(c)

Outcome(c, new) ==
    LET old == call[c] IN
    \/ new.pc \in {"issue", "done", "lost"} /\ new.hold = {} /\ token' = token
    \/ new.pc = "done" /\ new.hold = {} /\ \E t \in Tokens : Adds(t)
    \/ /\ old.pc = "select" /\ new.pc = "done" /\ new.hold = {}
       /\ Free(c, old.arg) /\ Revokes({old.arg})
    \/ /\ old.pc = "rotate" /\ new.pc = "done" /\ new.hold = {}
       /\ \E t \in Tokens : Replaces(old.arg, t)
    \/ old.pc = "revoking" /\ new.pc = "done" /\ new.hold = {} /\ Revokes(old.hold)
    \/ new.pc = "select" /\ new.arg \in Issued /\ new.hold = {} /\ token' = token
    \/ /\ old.pc = "select" /\ new.pc \in {"identity", "revoke"} /\ Free(c, old.arg)
       /\ new.arg = old.arg /\ new.hold = old.hold /\ token' = token
       /\ new.pc = "identity" => Live(old.arg)
    \/ /\ old.pc = "identity" /\ new.pc \in {"rotate", "revoke"}
       /\ new.arg = old.arg /\ new.hold = old.hold /\ token' = token
    \/ /\ old.pc = "revoke" /\ new.pc = "revoking"
       /\ new.arg = old.arg /\ new.hold = old.hold /\ token' = token
       /\ new.chosen \subseteq Members(token[old.arg].family)
    \/ /\ old.pc = "revoking" /\ new.pc = "revoking"
       /\ new.arg = old.arg /\ token' = token
       /\ new.chosen \subseteq old.chosen
       /\ new.hold = old.hold \/ \E t \in old.chosen : Free(c, t) /\ new.hold = old.hold \cup {t}

LEMMA InitialCall ==
    /\ NotCalled \in CallRecord /\ NotCalled.pc = "start" /\ NotCalled.hold = {}
BY DEF NotCalled, CallRecord

LEMMA FinishedCall ==
    ASSUME NEW pc \in {"done", "lost"}
    PROVE  LET new == [NotCalled EXCEPT !.pc = pc] IN
           new \in CallRecord /\ new.pc = pc /\ new.hold = {}
BY InitialCall DEF CallRecord

LEMMA CallOutcome ==
    ASSUME Inv, NEW c \in Calls, Step(c)
    PROVE  \E new \in CallRecord : call' = [call EXCEPT ![c] = new] /\ Outcome(c, new)
<1> DEFINE old == call[c]
           Goal == \E new \in CallRecord : call' = [call EXCEPT ![c] = new] /\ Outcome(c, new)
<1>1. old \in CallRecord /\ token \in [Tokens -> Row]
  BY DEF Inv, TypeOK, CallRecord
<1>2. /\ old.pc \in Presenting => old.arg \in Issued
      /\ old.pc \in {"identity", "rotate"} => Live(old.arg)
      /\ old.pc = "revoking" => old.chosen \cup old.hold \subseteq Members(token[old.arg].family)
      /\ old.pc # "revoking" => old.hold = {}
  BY DEF Inv, CallsHold
<1>3. Issued \subseteq Tokens /\ \A f : Members(f) \subseteq Issued
  BY DEF Issued, Members
<1> HIDE DEF old
<1>4. ASSUME NEW new \in CallRecord, call' = [call EXCEPT ![c] = new], Outcome(c, new)
      PROVE  Goal
  BY <1>4
<1>5. ASSUME NEW pc \in {"issue", "select", "identity", "rotate", "revoke", "revoking"}
      PROVE  LET new == [old EXCEPT !.pc = pc] IN
             /\ new \in CallRecord /\ new.pc = pc
             /\ new.arg = old.arg /\ new.hold = old.hold /\ new.chosen = old.chosen
  BY <1>1 DEF CallRecord
<1>6. CASE Login(c)
  <2> DEFINE new == [old EXCEPT !.pc = "issue"]
  <2>1. call' = [call EXCEPT ![c] = new] /\ token' = token /\ old.pc = "start"
    BY <1>6 DEF Login, Goto, old
  <2>2. new \in CallRecord /\ new.pc = "issue" /\ new.hold = {}
    BY <1>2, <1>5, <2>1
  <2> HIDE DEF new
  <2>3. QED BY <1>4, <2>1, <2>2 DEF Outcome
<1>7. ASSUME NEW pc \in {"done", "lost"}, call' = [call EXCEPT ![c] = [NotCalled EXCEPT !.pc = pc]],
             \/ token' = token
             \/ pc = "done" /\ \E t \in Tokens : Adds(t)
             \/ pc = "done" /\ old.pc = "select" /\ Free(c, old.arg) /\ Revokes({old.arg})
             \/ pc = "done" /\ old.pc = "rotate" /\ \E t \in Tokens : Replaces(old.arg, t)
             \/ pc = "done" /\ old.pc = "revoking" /\ Revokes(old.hold)
      PROVE  Goal
  <2> DEFINE new == [NotCalled EXCEPT !.pc = pc]
  <2>1. new \in CallRecord /\ new.pc = pc /\ new.hold = {}
    BY <1>7, FinishedCall
  <2> HIDE DEF new
  <2>2. Outcome(c, new)
    BY <1>7, <2>1 DEF Outcome, old
  <2>3. call' = [call EXCEPT ![c] = new]
    BY <1>7 DEF new
  <2>4. QED BY <2>1, <2>2, <2>3
<1>8. CASE Refresh(c)
  <2>1. PICK t \in Issued :
          IF t \in expired THEN Finish(c)
          ELSE call' = [call EXCEPT ![c].pc = "select", ![c].arg = t]
    BY <1>8 DEF Refresh
  <2>2. token' = token /\ old.pc = "start"
    BY <1>8 DEF Refresh, old
  <2>3. CASE t \in expired
    BY <1>7, <2>1, <2>2, <2>3 DEF Finish
  <2>4. CASE t \notin expired
    <3> DEFINE new == [old EXCEPT !.pc = "select", !.arg = t]
    <3>1. call' = [call EXCEPT ![c] = new]
      BY <2>1, <2>4 DEF old
    <3>2. new \in CallRecord /\ new.pc = "select" /\ new.arg = t /\ new.hold = {}
      BY <1>1, <1>2, <1>3, <2>2 DEF CallRecord
    <3> HIDE DEF new
    <3>3. QED BY <1>4, <2>2, <3>1, <3>2 DEF Outcome
  <2>5. QED BY <2>3, <2>4
<1>9. CASE IssuePair(c)
  BY <1>7, <1>9 DEF IssuePair, Finish, Adds
<1>10. CASE Lock(c)
  <2>1. old.pc = "select" /\ Free(c, old.arg) /\ old.arg \in Issued
    BY <1>2, <1>10 DEF Lock, Presenting, old
  <2>2. CASE Goto(c, "revoke") /\ UNCHANGED token
    <3> DEFINE new == [old EXCEPT !.pc = "revoke"]
    <3>1. call' = [call EXCEPT ![c] = new] /\ token' = token
      BY <2>2 DEF Goto, old
    <3>2. new \in CallRecord /\ new.pc = "revoke" /\ new.arg = old.arg /\ new.hold = old.hold
      BY <1>5
    <3> HIDE DEF new
    <3>3. QED BY <1>4, <2>1, <3>1, <3>2 DEF Outcome, old
  <2>3. CASE Live(old.arg) /\ Goto(c, "identity") /\ UNCHANGED token
    <3> DEFINE new == [old EXCEPT !.pc = "identity"]
    <3>1. call' = [call EXCEPT ![c] = new] /\ token' = token
      BY <2>3 DEF Goto, old
    <3>2. new \in CallRecord /\ new.pc = "identity" /\ new.arg = old.arg /\ new.hold = old.hold
      BY <1>5
    <3> HIDE DEF new
    <3>3. QED BY <1>4, <2>1, <2>3, <3>1, <3>2 DEF Outcome, old
  <2>4. CASE token' = [token EXCEPT ![old.arg].state = "revoked"] /\ Finish(c)
    <3>1. Revokes({old.arg})
      BY <1>1, <1>3, <2>1, <2>4 DEF Revokes
    <3>2. QED BY <1>7, <2>1, <2>4, <3>1 DEF Finish
  <2>5. QED BY <1>10, <2>2, <2>3, <2>4 DEF Lock, old
<1>11. CASE ReadIdentity(c)
  <2>1. PICK pc \in {"rotate", "revoke"} : Goto(c, pc)
    BY <1>11 DEF ReadIdentity
  <2>2. token' = token /\ old.pc = "identity"
    BY <1>11 DEF ReadIdentity, old
  <2> DEFINE new == [old EXCEPT !.pc = pc]
  <2>3. call' = [call EXCEPT ![c] = new]
    BY <2>1 DEF Goto, old
  <2>4. new \in CallRecord /\ new.pc = pc /\ new.arg = old.arg /\ new.hold = old.hold
    BY <1>5
  <2> HIDE DEF new
  <2>5. QED BY <1>4, <2>2, <2>3, <2>4 DEF Outcome, old
<1>12. CASE Rotate(c)
  <2>1. old.pc = "rotate" /\ old.arg \in Issued /\ Live(old.arg)
    BY <1>2, <1>12 DEF Rotate, Presenting, old
  <2>2. \E t \in Tokens : Replaces(old.arg, t)
    BY <1>12, <2>1 DEF Rotate, Replaces, old
  <2>3. QED BY <1>7, <1>12, <2>1, <2>2 DEF Rotate, Finish
<1>13. CASE RevokeStart(c)
  <2> DEFINE live == {t \in Members(token[old.arg].family) : Live(t)}
             new == [old EXCEPT !.pc = "revoking", !.chosen = live]
  <2>1. old.pc = "revoke" /\ token' = token
    BY <1>13 DEF RevokeStart, old
  <2>2. call' = [call EXCEPT ![c] = new]
    BY <1>13 DEF RevokeStart, old
  <2>3. live \subseteq Members(token[old.arg].family) /\ live \subseteq Tokens
    BY <1>3
  <2> HIDE DEF live
  <2>4. /\ new \in CallRecord /\ new.pc = "revoking" /\ new.arg = old.arg
        /\ new.hold = old.hold /\ new.chosen = live
    BY <1>1, <2>3 DEF CallRecord
  <2> HIDE DEF new
  <2>5. QED BY <1>4, <2>1, <2>2, <2>3, <2>4 DEF Outcome, old
<1>14. CASE RevokeRow(c)
  <2>1. PICK t \in old.chosen :
          /\ Free(c, t)
          /\ call' = [call EXCEPT ![c].chosen = @ \ {t},
                                  ![c].hold = IF Live(t) THEN @ \cup {t} ELSE @]
    BY <1>14 DEF RevokeRow, old
  <2> DEFINE hold == IF Live(t) THEN old.hold \cup {t} ELSE old.hold
             new == [old EXCEPT !.chosen = @ \ {t}, !.hold = hold]
  <2>2. old.pc = "revoking" /\ token' = token
    BY <1>14 DEF RevokeRow, old
  <2>3. call' = [call EXCEPT ![c] = new]
    BY <2>1 DEF old
  <2>4. hold = old.hold \/ hold = old.hold \cup {t}
    OBVIOUS
  <2>5. hold \subseteq Tokens /\ old.chosen \ {t} \subseteq old.chosen
    BY <1>1 DEF CallRecord
  <2> HIDE DEF hold
  <2>6. /\ new \in CallRecord /\ new.pc = "revoking" /\ new.arg = old.arg
        /\ new.hold = hold /\ new.chosen = old.chosen \ {t}
    BY <1>1, <2>2, <2>5 DEF CallRecord
  <2> HIDE DEF new
  <2>7. QED BY <1>4, <2>1, <2>2, <2>3, <2>4, <2>5, <2>6 DEF Outcome, old
<1>15. CASE RevokeCommit(c)
  <2>1. old.pc = "revoking" /\ Finish(c)
    BY <1>15 DEF RevokeCommit, old
  <2>2. Revokes(old.hold)
    BY <1>2, <1>3, <1>15, <2>1 DEF RevokeCommit, Revokes, old
  <2>3. QED BY <1>7, <2>1, <2>2 DEF Finish
<1>16. CASE CallDies(c)
  BY <1>7, <1>16 DEF CallDies
<1>17. QED
  BY <1>6, <1>8, <1>9, <1>10, <1>11, <1>12, <1>13, <1>14, <1>15, <1>16
  DEF Step, CallContinues

-----------------------------------------------------------------------------
(* Every step of the system is one of four changes of the table. *)

TableStep ==
    \/ token' = token
    \/ \E t \in Tokens : Adds(t)
    \/ \E old \in Issued, t \in Tokens : Replaces(old, t)
    \/ \E T \in SUBSET Issued : Revokes(T)

LEMMA StepChangesTable ==
    ASSUME Inv, [Next]_vars
    PROVE  TableStep
<1>1. ASSUME NEW c \in Calls, Step(c) PROVE TableStep
  <2>1. PICK new \in CallRecord : Outcome(c, new)
    BY <1>1, CallOutcome
  <2>2. call[c].pc \in Presenting => call[c].arg \in Issued
    BY DEF Inv, CallsHold
  <2>3. call[c].pc = "revoking" => call[c].hold \subseteq Issued
    BY DEF Inv, CallsHold, Members
  <2>4. QED BY <2>1, <2>2, <2>3 DEF Outcome, TableStep, Presenting
<1>2. CASE UNCHANGED token
  BY <1>2 DEF TableStep
<1>3. QED
  BY <1>1, <1>2 DEF Next, Step, ChangeStatus, Expire, Rest, vars

\* A row that was inserted stays, in its family; the links stay within the table.
LEMMA TableEffect ==
    ASSUME TypeOK, LinksIssued, TableStep
    PROVE  /\ token' \in [Tokens -> Row]
           /\ \A u \in Issued : u \in Issued' /\ token'[u].family = token[u].family
           /\ \A t \in Tokens : /\ token'[t].state = "unused" <=> token'[t].family = NoToken
                                /\ token'[t].next # NoToken => token'[t].state = "revoked"
           /\ LinksIssued'
<1> DEFINE Fits(r) == /\ r.state = "unused" <=> r.family = NoToken
                      /\ r.next # NoToken => r.state = "revoked"
<1>1. /\ token \in [Tokens -> Row] /\ Issued \subseteq Tokens
      /\ \A t \in Tokens : Fits(token[t])
  BY DEF TypeOK, Issued
<1>2. \A t \in Issued : /\ token[t].family \in Issued
                        /\ token[t].next # NoToken => token[t].next \in Issued
  BY DEF LinksIssued
<1>3. \A t \in Tokens : t # NoToken
  BY TokensAssumption
<1> DEFINE Goal ==
             /\ token' \in [Tokens -> Row]
             /\ \A u \in Issued : u \in Issued' /\ token'[u].family = token[u].family
             /\ \A t \in Tokens : Fits(token'[t])
             /\ \A t \in Issued' : /\ token'[t].family \in Issued'
                                   /\ token'[t].next # NoToken => token'[t].next \in Issued'
<1>4. SUFFICES Goal
  BY DEF LinksIssued
<1>5. CASE token' = token
  BY <1>1, <1>2, <1>5 DEF Issued
<1>6. ASSUME NEW t \in Tokens, Adds(t) PROVE Goal
  <2>1. t \notin Issued
    BY <1>6 DEF Adds
  <2>2. /\ token' \in [Tokens -> Row] /\ Issued' = Issued \cup {t}
        /\ token'[t] = [state |-> "live", family |-> t, next |-> NoToken]
        /\ \A u \in Tokens : u # t => token'[u] = token[u]
    BY <1>6, AfterAdds
  <2>3. QED BY <1>1, <1>2, <1>3, <2>1, <2>2
<1>7. ASSUME NEW old \in Issued, NEW t \in Tokens, Replaces(old, t) PROVE Goal
  <2>1. Live(old) /\ t \notin Issued
    BY <1>7 DEF Replaces
  <2>2. /\ token' \in [Tokens -> Row] /\ old # t /\ Issued' = Issued \cup {t}
        /\ token'[t] = [state |-> "live", family |-> token[old].family, next |-> NoToken]
        /\ token'[old].state = "revoked" /\ token'[old].next = t
        /\ token'[old].family = token[old].family
        /\ \A u \in Tokens : u # t /\ u # old => token'[u] = token[u]
    BY <1>7, AfterReplaces
  <2>3. token[old].family \in Issued
    BY <1>2
  <2>4. \A u \in Issued : token'[u].family = token[u].family
    BY <1>1, <2>1, <2>2
  <2>5. ASSUME NEW u \in Tokens PROVE Fits(token'[u])
    BY <1>1, <1>3, <2>2, <2>3
  <2>6. ASSUME NEW u \in Issued'
        PROVE  /\ token'[u].family \in Issued'
               /\ token'[u].next # NoToken => token'[u].next \in Issued'
    BY <1>1, <1>2, <2>2, <2>3
  <2>7. QED BY <2>2, <2>4, <2>5, <2>6
<1>8. ASSUME NEW T \in SUBSET Issued, Revokes(T) PROVE Goal
  <2>1. /\ token' \in [Tokens -> Row] /\ Issued' = Issued
        /\ \A u \in T : token'[u].state = "revoked"
        /\ \A u \in Tokens \ T : token'[u] = token[u]
        /\ \A u \in Tokens : token'[u].family = token[u].family /\ token'[u].next = token[u].next
    BY <1>8, AfterRevokes
  <2>3. \A u \in T : token[u].state # "unused"
    BY DEF Issued
  <2>4. ASSUME NEW u \in Tokens PROVE Fits(token'[u])
    <3>1. CASE u \in T
      <4>1. token'[u].state = "revoked"
        BY <2>1, <3>1
      <4>2. token'[u].family # NoToken
        BY <1>1, <2>1, <2>3, <3>1
      <4>3. QED BY <4>1, <4>2
    <3>2. CASE u \notin T
      BY <1>1, <2>1, <3>2
    <3>3. QED BY <3>1, <3>2
  <2>5. QED BY <1>1, <1>2, <2>1, <2>4
<1>9. QED BY <1>5, <1>6, <1>7, <1>8 DEF TableStep

-----------------------------------------------------------------------------
(* The invariant is inductive. *)

LEMMA InitInv == Init => Inv
<1> SUFFICES ASSUME Init PROVE Inv
  OBVIOUS
<1>1. Unissued \in Row /\ Unissued.state = "unused" /\ Unissued.family = NoToken
      /\ Unissued.next = NoToken
  BY DEF Unissued, Row
<1>2. /\ token \in [Tokens -> Row] /\ \A t \in Tokens : token[t] = Unissued
      /\ call \in [Calls -> CallRecord] /\ \A c \in Calls : call[c] = NotCalled
  BY <1>1, InitialCall DEF Init
<1>3. TypeOK
  BY <1>1, <1>2 DEF Init, TypeOK, CallRecord
<1>4. Issued = {}
  BY <1>1, <1>2 DEF Issued
<1>5. \A c \in Calls : call[c].pc = "start" /\ call[c].hold = {} /\ Locks(c) = {}
  BY <1>2, InitialCall DEF Locks
<1>6. QED BY <1>3, <1>4, <1>5 DEF Inv, LocksExclusive, CallsHold, LinksIssued, Presenting

\* A token that stops to be usable was locked by the call that changed it, or free.
LEMMA LostTokenWasFree ==
    ASSUME Inv, NEW c \in Calls, NEW new, Outcome(c, new),
           NEW u \in Issued, Live(u), token'[u].state # "live"
    PROVE  Free(c, u)
<1>1. TypeOK /\ u \in Tokens
  BY DEF Inv, Issued
<1>2. ASSUME u \in Locks(c) PROVE Free(c, u)
  BY <1>2 DEF Inv, LocksExclusive, Free
<1>3. token' # token
  BY DEF Live
<1>4. ASSUME NEW t \in Tokens, Adds(t) PROVE FALSE
  BY <1>1, <1>4, AfterAdds DEF Live, Adds
<1>5. CASE call[c].pc = "select" /\ Free(c, call[c].arg) /\ Revokes({call[c].arg})
  <2>1. \A v \in Tokens \ {call[c].arg} : token'[v] = token[v]
    BY <1>1, <1>5, AfterRevokes
  <2>2. u = call[c].arg
    BY <1>1, <2>1 DEF Live
  <2>3. QED BY <1>5, <2>2
<1>6. ASSUME NEW t \in Tokens, NEW old, old = call[c].arg, call[c].pc = "rotate",
             Replaces(old, t)
      PROVE  Free(c, u)
  <2>1. Replaces(old, t)
    BY <1>6
  <2>2. t # u
    BY <2>1 DEF Replaces
  <2>3. \A v \in Tokens : v # t /\ v # old => token'[v] = token[v]
    BY <1>1, <2>1, AfterReplaces DEF Replaces
  <2>4. u = old
    BY <1>1, <2>2, <2>3 DEF Live
  <2>5. QED BY <1>2, <1>6, <2>4 DEF Locks
<1>7. CASE call[c].pc = "revoking" /\ Revokes(call[c].hold)
  <2>1. u \in call[c].hold
    BY <1>1, <1>7, AfterRevokes DEF Live
  <2>2. QED BY <1>2, <1>7, <2>1 DEF Locks
<1>8. QED BY <1>3, <1>4, <1>5, <1>6, <1>7 DEF Outcome

LEMMA StepInv ==
    ASSUME Inv, NEW c \in Calls, Step(c), UNCHANGED status, UNCHANGED expired
    PROVE  Inv'
<1>1. PICK new \in CallRecord : call' = [call EXCEPT ![c] = new] /\ Outcome(c, new)
  BY CallOutcome
<1>2. /\ call' \in [Calls -> CallRecord] /\ call'[c] = new
      /\ \A d \in Calls : d # c => call'[d] = call[d]
  BY <1>1 DEF Inv, TypeOK, CallRecord
<1>3. TableStep
  BY StepChangesTable DEF Next, Step
<1>4. /\ token' \in [Tokens -> Row]
      /\ \A u \in Issued : u \in Issued' /\ token'[u].family = token[u].family
      /\ \A t \in Tokens : /\ token'[t].state = "unused" <=> token'[t].family = NoToken
                           /\ token'[t].next # NoToken => token'[t].state = "revoked"
      /\ LinksIssued'
  BY <1>3, TableEffect DEF Inv
<1>5. TypeOK'
  BY <1>2, <1>4 DEF Inv, TypeOK, CallRecord
<1>6. /\ call[c].pc \in Presenting => call[c].arg \in Issued
      /\ call[c].pc \in {"identity", "rotate"} => Live(call[c].arg)
      /\ call[c].pc = "revoking" =>
           call[c].chosen \cup call[c].hold \subseteq Members(token[call[c].arg].family)
      /\ call[c].pc # "revoking" => call[c].hold = {}
  BY DEF Inv, CallsHold
\* A call only ever locks what no other call holds.
<1>7. ASSUME NEW u \in Locks(c)' PROVE Free(c, u)
  <2>1. ASSUME u \in Locks(c) PROVE Free(c, u)
    BY <2>1 DEF Inv, LocksExclusive, Free
  <2>2. u \in {new.arg} \cup new.hold
        /\ new.pc \in {"identity", "rotate", "revoke", "revoking"}
    BY <1>2 DEF Locks
  <2>3. QED BY <1>1, <1>6, <2>1, <2>2 DEF Outcome, Locks
<1>8. \A d \in Calls \ {c} : Locks(d)' = Locks(d)
  BY <1>2 DEF Locks
<1>9. LocksExclusive'
  BY <1>7, <1>8 DEF LocksExclusive, Free, Inv
<1>10. \A f : Members(f) \subseteq Members(f)'
  BY <1>4 DEF Members
<1>11. ASSUME NEW d \in Calls
       PROVE  /\ call'[d].pc \in Presenting => call'[d].arg \in Issued'
              /\ call'[d].pc \in {"identity", "rotate"} => token'[call'[d].arg].state = "live"
              /\ call'[d].pc = "revoking" =>
                   call'[d].chosen \cup call'[d].hold \subseteq Members(token[call'[d].arg].family)
              /\ call'[d].pc # "revoking" => call'[d].hold = {}
  <2>1. CASE d = c
    BY <1>1, <1>2, <1>4, <1>6, <2>1 DEF Outcome, Presenting, Live
  <2>2. CASE d # c
    <3>1. /\ call'[d] = call[d]
          /\ call[d].pc \in Presenting => call[d].arg \in Issued
          /\ call[d].pc \in {"identity", "rotate"} => Live(call[d].arg)
          /\ call[d].pc = "revoking" =>
               call[d].chosen \cup call[d].hold \subseteq Members(token[call[d].arg].family)
          /\ call[d].pc # "revoking" => call[d].hold = {}
      BY <1>2, <2>2 DEF Inv, CallsHold
    <3>2. ASSUME call[d].pc \in {"identity", "rotate"}, token'[call[d].arg].state # "live"
          PROVE  FALSE
      <4>1. call[d].arg \in Issued /\ Live(call[d].arg) /\ call[d].arg \in Locks(d)
        BY <3>1, <3>2 DEF Presenting, Locks
      <4>2. Free(c, call[d].arg)
        BY <1>1, <3>2, <4>1, LostTokenWasFree
      <4>3. QED BY <2>2, <4>1, <4>2 DEF Free
    <3>3. QED BY <1>4, <3>1, <3>2 DEF Presenting
  <2>3. QED BY <2>1, <2>2
<1>12. ASSUME NEW d \in Calls, call'[d].pc = "revoking"
       PROVE  call'[d].chosen \cup call'[d].hold
                \subseteq {u \in Issued' : token'[u].family = token'[call'[d].arg].family}
  <2>1. call'[d].chosen \cup call'[d].hold \subseteq Members(token[call'[d].arg].family)
    BY <1>11, <1>12
  <2>2. token'[call'[d].arg].family = token[call'[d].arg].family
    <3>1. call[d].pc \in Presenting /\ call'[d].arg = call[d].arg
      BY <1>1, <1>2, <1>12 DEF Outcome, Presenting
    <3>2. QED BY <1>4, <3>1 DEF Inv, CallsHold
  <2>3. QED BY <1>4, <2>1, <2>2 DEF Members
<1>13. CallsHold'
  BY <1>11, <1>12 DEF CallsHold, Live, Members
<1>14. QED BY <1>4, <1>5, <1>9, <1>13 DEF Inv

LEMMA NextInv == Inv /\ [Next]_vars => Inv'
<1> SUFFICES ASSUME Inv, [Next]_vars PROVE Inv'
  OBVIOUS
<1>1. ASSUME NEW c \in Calls, Step(c) PROVE Inv'
  <2>1. UNCHANGED status /\ UNCHANGED expired
    BY <1>1 DEF Step, CallContinues, Login, Refresh, CallDies, IssuePair, Lock, ReadIdentity,
                Rotate, RevokeStart, RevokeRow, RevokeCommit
  <2>2. QED BY <1>1, <2>1, StepInv
<1>2. ASSUME UNCHANGED token, UNCHANGED call, TypeOK' PROVE Inv'
  BY <1>2 DEF Inv, LocksExclusive, Locks, CallsHold, Members, Live, LinksIssued, Issued
<1>3. CASE ChangeStatus
  <2>1. TypeOK'
    BY <1>3 DEF ChangeStatus, Inv, TypeOK
  <2>2. QED BY <1>2, <1>3, <2>1 DEF ChangeStatus
<1>4. CASE \E t \in Tokens : Expire(t)
  <2>1. TypeOK'
    BY <1>4 DEF Expire, Inv, TypeOK
  <2>2. QED BY <1>2, <1>4, <2>1 DEF Expire
<1>5. CASE UNCHANGED vars
  <2>1. TypeOK'
    BY <1>5 DEF vars, Inv, TypeOK
  <2>2. QED BY <1>2, <1>5, <2>1 DEF vars
<1>6. QED BY <1>1, <1>3, <1>4, <1>5 DEF Next, Step, Rest

\* What the row locks give a call holds in every interleaving.
THEOREM InvHolds == Spec => []Inv
<1>1. QED BY InitInv, NextInv, PTL DEF Spec

\* Every variable keeps its type, and in every row an unused token has no family
\* and only a revoked one a replacement.
THEOREM TypeCorrect == Spec => []TypeOK
<1>1. Inv => TypeOK
  BY DEF Inv
<1>2. QED BY <1>1, InvHolds, PTL

-----------------------------------------------------------------------------
(* The properties of a family. *)

\* However many calls present its tokens, a login has one usable token at most.
THEOREM OneLiveTokenPerFamily == Spec => []OneLivePerFamily
<1>1. Init => OneLivePerFamily
  <2>1. Init => Issued = {}
    BY DEF Init, Issued, Unissued
  <2>2. QED BY <2>1 DEF OneLivePerFamily
<1>2. ASSUME Inv, OneLivePerFamily, [Next]_vars PROVE OneLivePerFamily'
  <2>1. TypeOK /\ LinksIssued /\ Issued \subseteq Tokens /\ TableStep
    BY <1>2, StepChangesTable DEF Inv, Issued
  <2>2. \A t, u \in Issued : token[t].family = token[u].family /\ token[t].state = "live"
                               /\ token[u].state = "live" => t = u
    BY <1>2 DEF OneLivePerFamily, Live
  <2>3. \A t \in Issued : token[t].family \in Issued
    BY <2>1 DEF LinksIssued
  <2>4. SUFFICES ASSUME NEW t \in Issued', NEW u \in Issued',
                        token'[t].family = token'[u].family,
                        token'[t].state = "live", token'[u].state = "live"
                 PROVE  t = u
    BY DEF OneLivePerFamily, Live
  <2>5. CASE token' = token
    BY <2>2, <2>4, <2>5 DEF Issued
  <2>6. ASSUME NEW new \in Tokens, Adds(new) PROVE t = u
    <3>1. /\ Issued' = Issued \cup {new} /\ token'[new].family = new /\ new \notin Issued
          /\ \A v \in Tokens : v # new => token'[v] = token[v]
      BY <2>1, <2>6, AfterAdds DEF Adds
    <3>2. QED BY <2>1, <2>2, <2>3, <2>4, <3>1
  <2>7. ASSUME NEW old \in Issued, NEW new \in Tokens, Replaces(old, new) PROVE t = u
    <3>1. /\ Issued' = Issued \cup {new} /\ token'[new].family = token[old].family
          /\ token'[old].state = "revoked" /\ token[old].state = "live"
          /\ \A v \in Tokens : v # new /\ v # old => token'[v] = token[v]
      BY <2>1, <2>7, AfterReplaces DEF Replaces, Live
    <3>2. QED BY <2>1, <2>2, <2>4, <3>1
  <2>8. ASSUME NEW T \in SUBSET Issued, Revokes(T) PROVE t = u
    <3>1. /\ Issued' = Issued /\ \A v \in T : token'[v].state = "revoked"
          /\ \A v \in Tokens \ T : token'[v] = token[v]
      BY <2>1, <2>8, AfterRevokes
    <3>2. QED BY <2>1, <2>2, <2>4, <3>1
  <2>9. QED BY <2>1, <2>5, <2>6, <2>7, <2>8 DEF TableStep
<1>3. QED BY <1>1, <1>2, InvHolds, PTL DEF Spec

\* The replacements of a login are a chain: no gap, no fork.
THEOREM RotationChains == Spec => []RotationIsAChain
<1>1. Init => RotationIsAChain
  <2>1. Init => Issued = {}
    BY DEF Init, Issued, Unissued
  <2>2. QED BY <2>1 DEF RotationIsAChain
<1>2. ASSUME Inv, RotationIsAChain, [Next]_vars PROVE RotationIsAChain'
  <2>1. /\ TypeOK /\ LinksIssued /\ TableStep /\ Issued \subseteq Tokens
        /\ \A t \in Tokens : t # NoToken
    BY <1>2, StepChangesTable, TokensAssumption DEF Inv, Issued
  <2>2. /\ \A s \in Issued : token[s].family \in Issued
        /\ \A s \in Issued : token[s].next \in Issued \cup {NoToken}
        /\ \A s \in Issued : token[s].next # NoToken => token[s].state = "revoked"
    BY <2>1 DEF LinksIssued, TypeOK
  <2>3. ASSUME NEW t \in Issued, token[t].family = t, NEW p \in Issued PROVE token[p].next # t
    BY <1>2, <2>3 DEF RotationIsAChain
  <2>4. ASSUME NEW t \in Issued, token[t].family # t
        PROVE  \E p \in Issued : /\ token[p].next = t /\ token[p].state = "revoked"
                                 /\ token[p].family = token[t].family
                                 /\ \A q \in Issued : token[q].next = t => q = p
    BY <1>2, <2>4 DEF RotationIsAChain
  <2> DEFINE Goal(t) ==
               /\ token'[t].family = t => \A p \in Issued' : token'[p].next # t
               /\ token'[t].family # t =>
                    \E p \in Issued' : /\ token'[p].next = t /\ token'[p].state = "revoked"
                                       /\ token'[p].family = token'[t].family
                                       /\ \A q \in Issued' : token'[q].next = t => q = p
  <2>5. SUFFICES ASSUME NEW t \in Issued' PROVE Goal(t)
    <3>1. ASSUME NEW t \in Issued', Goal(t)
          PROVE  LET before == {p \in Issued' : token'[p].next = t} IN
                 IF token'[t].family = t THEN before = {}
                 ELSE \E p \in before : /\ before = {p}
                                        /\ token'[p].state = "revoked"
                                        /\ token'[p].family = token'[t].family
      <4>1. CASE token'[t].family = t
        BY <3>1, <4>1
      <4>2. CASE token'[t].family # t
        <5>1. PICK p \in Issued' : /\ token'[p].next = t /\ token'[p].state = "revoked"
                                   /\ token'[p].family = token'[t].family
                                   /\ \A q \in Issued' : token'[q].next = t => q = p
          BY <3>1, <4>2
        <5>2. {q \in Issued' : token'[q].next = t} = {p}
          BY <5>1
        <5>3. QED BY <4>2, <5>1, <5>2
      <4>3. QED BY <4>1, <4>2
    <3>2. QED BY <3>1 DEF RotationIsAChain
  <2>6. CASE token' = token
    <3>1. Issued' = Issued
      BY <2>6 DEF Issued
    <3>2. QED BY <2>3, <2>4, <2>5, <2>6, <3>1
  <2>7. ASSUME NEW new \in Tokens, Adds(new) PROVE Goal(t)
    <3>1. /\ Issued' = Issued \cup {new} /\ new \notin Issued
          /\ token'[new].family = new /\ token'[new].next = NoToken
          /\ \A v \in Tokens : v # new => token'[v] = token[v]
      BY <2>1, <2>7, AfterAdds DEF Adds
    <3>2. CASE t = new
      BY <2>1, <2>2, <3>1, <3>2
    <3>3. CASE t # new
      <4>1. t \in Issued /\ token'[t].family = token[t].family
        BY <2>1, <2>5, <3>1, <3>3
      <4>2. CASE token[t].family = t
        BY <2>1, <2>3, <3>1, <4>1, <4>2
      <4>3. CASE token[t].family # t
        BY <2>1, <2>4, <3>1, <4>1, <4>3
      <4>4. QED BY <4>2, <4>3
    <3>4. QED BY <3>2, <3>3
  <2>8. ASSUME NEW old \in Issued, NEW new \in Tokens, Replaces(old, new) PROVE Goal(t)
    <3>1. /\ Issued' = Issued \cup {new} /\ new \notin Issued
          /\ token'[new].family = token[old].family /\ token'[new].next = NoToken
          /\ token'[old].state = "revoked" /\ token'[old].next = new
          /\ token'[old].family = token[old].family
          /\ \A v \in Tokens : v # new /\ v # old => token'[v] = token[v]
      BY <2>1, <2>8, AfterReplaces DEF Replaces
    <3>2. token[old].next = NoToken
      BY <2>2, <2>8 DEF Replaces, Live
    <3>3. CASE t = new
      <4>1. token'[new].family # new
        BY <2>2, <3>1
      <4>2. \A q \in Issued' : token'[q].next = new => q = old
        BY <2>1, <2>2, <3>1
      <4>3. QED BY <3>1, <3>3, <4>1, <4>2
    <3>4. CASE t # new
      <4>1. t \in Issued /\ token'[t].family = token[t].family
        BY <2>1, <2>5, <3>1, <3>4
      <4>2. \A q \in Issued' : token'[q].next = t => q \in Issued /\ token[q].next = t
        BY <2>1, <3>1, <3>4, <4>1
      <4>3. CASE token[t].family = t
        BY <2>3, <4>1, <4>2, <4>3
      <4>4. CASE token[t].family # t
        <5>1. PICK p \in Issued : /\ token[p].next = t /\ token[p].state = "revoked"
                                  /\ token[p].family = token[t].family
                                  /\ \A q \in Issued : token[q].next = t => q = p
          BY <2>4, <4>1, <4>4
        <5>2. p # old /\ p # new
          BY <2>1, <3>1, <3>2, <4>1, <5>1
        <5>3. p \in Issued' /\ token'[p] = token[p]
          BY <2>1, <3>1, <5>2
        <5>4. QED BY <4>1, <4>2, <4>4, <5>1, <5>3
      <4>5. QED BY <4>3, <4>4
    <3>5. QED BY <3>3, <3>4
  <2>9. ASSUME NEW T \in SUBSET Issued, Revokes(T) PROVE Goal(t)
    <3>1. /\ Issued' = Issued /\ \A v \in T : token'[v].state = "revoked"
          /\ \A v \in Tokens \ T : token'[v] = token[v]
          /\ \A v \in Tokens : /\ token'[v].family = token[v].family
                               /\ token'[v].next = token[v].next
      BY <2>1, <2>9, AfterRevokes
    <3>2. CASE token[t].family = t
      BY <2>1, <2>3, <2>5, <3>1, <3>2
    <3>3. CASE token[t].family # t
      BY <2>1, <2>4, <2>5, <3>1, <3>3
    <3>4. QED BY <3>2, <3>3
  <2>10. QED BY <2>1, <2>6, <2>7, <2>8, <2>9 DEF TableStep
<1>3. QED BY <1>1, <1>2, InvHolds, PTL DEF Spec

\* A login loses its last usable token only to a call that rejects one of its own.
THEOREM SessionKept == Spec => RotationKeepsSession
<1> DEFINE Loses(f) == (\E t \in Members(f) : Live(t)) /\ ~(\E t \in Members(f) : Live(t))'
           Rejected(f) == \E c \in Calls : /\ call[c].pc \in {"select", "revoking"}
                                           /\ call'[c].pc = "done"
                                           /\ token[call[c].arg].family = f
<1>1. ASSUME Inv, [Next]_vars, NEW f \in Tokens, Loses(f) PROVE Rejected(f)
  <2>1. TypeOK /\ Issued \subseteq Tokens /\ call \in [Calls -> CallRecord]
    BY <1>1 DEF Inv, TypeOK, Issued, CallRecord
  <2>2. PICK t \in Issued : token[t].family = f /\ token[t].state = "live"
    BY <1>1 DEF Members, Live
  <2>3. \A u \in Issued' : ~(token'[u].family = f /\ token'[u].state = "live")
    BY <1>1 DEF Members, Live
  <2>4. token' # token
    BY <2>2, <2>3 DEF Issued
  <2>5. PICK c \in Calls : Step(c)
    BY <1>1, <2>4 DEF Next, Step, ChangeStatus, Expire, Rest, vars
  <2>6. PICK new \in CallRecord : call' = [call EXCEPT ![c] = new] /\ Outcome(c, new)
    BY <1>1, <2>5, CallOutcome
  <2>7. call'[c] = new
    BY <2>1, <2>6
  <2>8. ASSUME NEW n \in Tokens, Adds(n) PROVE FALSE
    <3>1. /\ Issued' = Issued \cup {n} /\ n \notin Issued
          /\ \A v \in Tokens : v # n => token'[v] = token[v]
      BY <2>1, <2>8, AfterAdds DEF Adds
    <3>2. QED BY <2>1, <2>2, <2>3, <3>1
  <2>9. ASSUME NEW old, NEW n \in Tokens, Replaces(old, n) PROVE FALSE
    <3>1. /\ Issued' = Issued \cup {n} /\ n \notin Issued
          /\ token'[n].family = token[old].family /\ token'[n].state = "live"
          /\ \A v \in Tokens : v # n /\ v # old => token'[v] = token[v]
      BY <2>1, <2>9, AfterReplaces DEF Replaces
    <3>2. token'[n].family # f
      BY <2>3, <3>1
    <3>3. t \in Issued' /\ t # n /\ t # old
      BY <2>2, <3>1, <3>2
    <3>4. token'[t] = token[t]
      BY <2>1, <3>1, <3>3
    <3>5. QED BY <2>2, <2>3, <3>3, <3>4
  <2>10. ASSUME NEW T, Revokes(T) PROVE t \in T
    <3>1. Issued' = Issued /\ \A v \in Tokens \ T : token'[v] = token[v]
      BY <2>1, <2>10, AfterRevokes
    <3>2. QED BY <2>1, <2>2, <2>3, <3>1
  <2>11. CASE call[c].pc = "select" /\ new.pc = "done" /\ Revokes({call[c].arg})
    <3>1. t = call[c].arg
      BY <2>10, <2>11
    <3>2. QED BY <2>2, <2>7, <2>11, <3>1
  <2>12. CASE call[c].pc = "revoking" /\ new.pc = "done" /\ Revokes(call[c].hold)
    <3>1. t \in call[c].hold
      BY <2>10, <2>12
    <3>2. t \in Members(token[call[c].arg].family)
      BY <1>1, <2>12, <3>1 DEF Inv, CallsHold
    <3>3. token[call[c].arg].family = f
      BY <2>2, <3>2 DEF Members
    <3>4. QED BY <2>7, <2>12, <3>3
  <2>13. QED BY <2>4, <2>6, <2>8, <2>9, <2>11, <2>12 DEF Outcome
<1>2. Inv /\ [Next]_vars => [\A f \in Tokens : Loses(f) => Rejected(f)]_vars
  BY <1>1
<1>3. QED BY <1>2, InvHolds, PTL DEF Spec, RotationKeepsSession
=============================================================================
