---------------------------- MODULE RefreshTokens ----------------------------
(***************************************************************************)
(* The refresh tokens of one user: login and rotation, as concurrent       *)
(* transactions on the table refresh_tokens (services/auth_service.py,     *)
(* repositories/identity.py).  Tokens of one login form a family; each     *)
(* rotation revokes a token and adds its replacement to the family.        *)
(*                                                                         *)
(* Postgres runs at READ COMMITTED: a SELECT ... FOR UPDATE waits for the  *)
(* row and then sees what was committed; an UPDATE of many rows chooses    *)
(* them when it starts, waits for each and leaves out the rows that have   *)
(* stopped to satisfy its WHERE, but never sees a row inserted meanwhile.  *)
(***************************************************************************)
EXTENDS Naturals, FiniteSets

CONSTANTS
    Tokens,     \* the jtis that uuid4 may mint: one for every call is enough
    Calls,      \* calls of /api/auth/login and /api/auth/refresh
    NoToken

ASSUME TokensAssumption == NoToken \notin Tokens

VARIABLES
    token,      \* refresh_tokens: one row per jti, "unused" until it is inserted
    status,     \* users.status
    expired,    \* the tokens whose lifetime is over
    call        \* the calls, each with its transaction

vars == <<token, status, expired, call>>

\* A row; `family` is the first token of the login, `next` replaced_by_jti.
Row == [state  : {"unused", "live", "revoked"},
        family : Tokens \cup {NoToken},
        next   : Tokens \cup {NoToken}]

Unissued == [state |-> "unused", family |-> NoToken, next |-> NoToken]

\* `chosen` are the rows an UPDATE has chosen, `hold` those it has changed: the
\* change is visible, and the rows are free again, when the call commits.
NotCalled == [pc |-> "start", arg |-> NoToken, chosen |-> {}, hold |-> {}]

Init ==
    /\ token = [t \in Tokens |-> Unissued]
    /\ status = "active"
    /\ expired = {}
    /\ call = [c \in Calls |-> NotCalled]

Issued == {t \in Tokens : token[t].state # "unused"}
Live(t) == token[t].state = "live"
Members(f) == {t \in Issued : token[t].family = f}

\* The row locks of a call, and whether another call's keep c from a row.
Locks(c) == IF call[c].pc \in {"identity", "rotate", "revoke", "revoking"}
            THEN {call[c].arg} \cup call[c].hold ELSE {}
Free(c, t) == \A d \in Calls \ {c} : t \notin Locks(d)

Goto(c, pc) == call' = [call EXCEPT ![c].pc = pc]
Finish(c) == call' = [call EXCEPT ![c] = [NotCalled EXCEPT !.pc = "done"]]

-----------------------------------------------------------------------------
(* AuthService.login *)

\* The identity is read and the password verified; nothing is locked.
Login(c) ==
    /\ call[c].pc = "start"
    /\ status = "active"
    /\ Goto(c, "issue")
    /\ UNCHANGED <<token, status, expired>>

IssuePair(c) ==
    /\ call[c].pc = "issue"
    /\ \E t \in Tokens \ Issued :
         token' = [token EXCEPT ![t] = [state |-> "live", family |-> t, next |-> NoToken]]
    /\ Finish(c)
    /\ UNCHANGED <<status, expired>>

-----------------------------------------------------------------------------
(* AuthService.rotate_refresh_token *)

\* decode_token refuses an expired token before the table is read.
Refresh(c) ==
    /\ call[c].pc = "start"
    /\ \E t \in Issued :
         IF t \in expired THEN Finish(c)
         ELSE call' = [call EXCEPT ![c].pc = "select", ![c].arg = t]
    /\ UNCHANGED <<token, status, expired>>

LockUnawaited(c) ==
    /\ call[c].pc = "select"
    /\ Goto(c, IF Live(call[c].arg) THEN "identity" ELSE "revoke")
    /\ UNCHANGED <<token, status, expired>>

\* SELECT ... FOR UPDATE and the checks of the row.  The wait for the lock can
\* outlast the token's lifetime: it is then revoked and the call rejected.
Lock(c) ==
    /\ call[c].pc = "select"
    /\ Free(c, call[c].arg)
    /\ \/ ~Live(call[c].arg) /\ Goto(c, "revoke") /\ UNCHANGED token
       \/ /\ Live(call[c].arg) /\ call[c].arg \in expired
          /\ token' = [token EXCEPT ![call[c].arg].state = "revoked"]
          /\ Finish(c)
       \/ /\ Live(call[c].arg) /\ call[c].arg \notin expired
          /\ Goto(c, "identity")
          /\ UNCHANGED token
    /\ UNCHANGED <<status, expired>>

\* get_identity: the user's status, read without a lock.
ReadIdentity(c) ==
    /\ call[c].pc = "identity"
    /\ Goto(c, IF status = "active" THEN "rotate" ELSE "revoke")
    /\ UNCHANGED <<token, status, expired>>

RotateUnlinked(c) ==
    /\ call[c].pc = "rotate"
    /\ \E t \in Tokens \ Issued :
         token' = [token EXCEPT
                     ![t] = [state |-> "live", family |-> token[call[c].arg].family,
                             next |-> NoToken],
                     ![call[c].arg].state = "revoked"]
    /\ Finish(c)
    /\ UNCHANGED <<status, expired>>

RotateUnrevoked(c) ==
    /\ call[c].pc = "rotate"
    /\ \E t \in Tokens \ Issued :
         token' = [token EXCEPT
                     ![t] = [state |-> "live", family |-> token[call[c].arg].family,
                             next |-> NoToken],
                     ![call[c].arg].next = t]
    /\ Finish(c)
    /\ UNCHANGED <<status, expired>>

RotateUninserted(c) ==
    /\ call[c].pc = "rotate"
    /\ token' = [token EXCEPT ![call[c].arg].state = "revoked"]
    /\ Finish(c)
    /\ UNCHANGED <<status, expired>>

\* The replacement is flushed, then the old row changed; both commit at once.
Rotate(c) ==
    /\ call[c].pc = "rotate"
    /\ LET old == call[c].arg IN
       \E t \in Tokens \ Issued :
         token' = [token EXCEPT
                     ![t] = [state |-> "live", family |-> token[old].family, next |-> NoToken],
                     ![old].state = "revoked",
                     ![old].next = t]
    /\ Finish(c)
    /\ UNCHANGED <<status, expired>>

RevokeStartUnfiltered(c) ==
    /\ call[c].pc = "revoke"
    /\ call' = [call EXCEPT ![c].pc = "revoking",
                            ![c].chosen = Members(token[call[c].arg].family)]
    /\ UNCHANGED <<token, status, expired>>

\* revoke_refresh_family: UPDATE ... WHERE family_id = ... AND revoked_at IS NULL.
RevokeStart(c) ==
    /\ call[c].pc = "revoke"
    /\ call' = [call EXCEPT
                  ![c].pc = "revoking",
                  ![c].chosen = {t \in Members(token[call[c].arg].family) : Live(t)}]
    /\ UNCHANGED <<token, status, expired>>

RevokeRow(c) ==
    /\ call[c].pc = "revoking"
    /\ \E t \in call[c].chosen :
         /\ Free(c, t)
         /\ call' = [call EXCEPT ![c].chosen = @ \ {t},
                                 ![c].hold = IF Live(t) THEN @ \cup {t} ELSE @]
    /\ UNCHANGED <<token, status, expired>>

RevokeCommit(c) ==
    /\ call[c].pc = "revoking"
    /\ call[c].chosen = {}
    /\ token' = [t \in Tokens |-> IF t \in call[c].hold
                                  THEN [token[t] EXCEPT !.state = "revoked"] ELSE token[t]]
    /\ Finish(c)
    /\ UNCHANGED <<status, expired>>

\* The process, or the connection to Postgres, dies: the transaction is undone.
CallDies(c) ==
    /\ call[c].pc \notin {"start", "done", "lost"}
    /\ call' = [call EXCEPT ![c] = [NotCalled EXCEPT !.pc = "lost"]]
    /\ UNCHANGED <<token, status, expired>>

-----------------------------------------------------------------------------
(* What happens around the calls *)

\* TenantAdminService.update_user.
ChangeStatus ==
    /\ status' \in {"active", "inactive"} \ {status}
    /\ UNCHANGED <<token, expired, call>>

Expire(t) ==
    /\ t \in Issued \ expired
    /\ expired' = expired \cup {t}
    /\ UNCHANGED <<token, status, call>>

CallContinues(c) ==
    \/ IssuePair(c) \/ Lock(c) \/ ReadIdentity(c) \/ Rotate(c)
    \/ RevokeStart(c) \/ RevokeRow(c) \/ RevokeCommit(c)

Rest ==
    /\ \A c \in Calls : call[c].pc \in {"start", "done", "lost"}
    /\ UNCHANGED vars

Next ==
    \/ \E c \in Calls : Login(c) \/ Refresh(c) \/ CallContinues(c) \/ CallDies(c)
    \/ ChangeStatus
    \/ \E t \in Tokens : Expire(t)
    \/ Rest

Spec == Init /\ [][Next]_vars

\* A call that has begun is served; nobody is obliged to call.
FairSpec == Spec /\ \A c \in Calls : WF_vars(CallContinues(c))

-----------------------------------------------------------------------------
(* Properties *)

\* The types, and that the columns of a row fit together.
TypeOK ==
    /\ token \in [Tokens -> Row]
    /\ \A t \in Tokens : /\ token[t].state = "unused" <=> token[t].family = NoToken
                         /\ token[t].next # NoToken => token[t].state = "revoked"
    /\ status \in {"active", "inactive"}
    /\ expired \subseteq Tokens
    /\ call \in [Calls -> [pc : {"start", "issue", "select", "identity", "rotate", "revoke",
                                 "revoking", "done", "lost"},
                           arg : Tokens \cup {NoToken},
                           chosen : SUBSET Tokens, hold : SUBSET Tokens]]

\* However many calls present the same token at once, a login never has two
\* tokens that can be used: the row lock lets one of them rotate it.
OneLivePerFamily ==
    \A t, u \in Issued :
        token[t].family = token[u].family /\ Live(t) /\ Live(u) => t = u

\* Every token but the first of a login is the replacement of exactly one token,
\* a revoked one of the same login: the audit trail has no gap and no fork.
RotationIsAChain ==
    \A t \in Issued :
        LET before == {p \in Issued : token[p].next = t} IN
        IF token[t].family = t THEN before = {}
        ELSE \E p \in before : /\ before = {p}
                               /\ token[p].state = "revoked"
                               /\ token[p].family = token[t].family

\* A login loses its last usable token only when a call for one of its tokens is
\* rejected; a rotation that dies half way, or overtakes another, costs nothing.
RotationKeepsSession ==
    [][\A f \in Tokens :
         (\E t \in Members(f) : Live(t)) /\ ~(\E t \in Members(f) : Live(t))' =>
             \E c \in Calls : /\ call[c].pc \in {"select", "revoking"}
                              /\ call'[c].pc = "done"
                              /\ token[call[c].arg].family = f]_vars

\* No call waits for ever for the rows of another.
EveryCallEnds ==
    \A c \in Calls : call[c].pc # "start" ~> call[c].pc \in {"done", "lost"}
=============================================================================
