---------------------------- MODULE RefreshClaims ----------------------------
(* What SECURITY.md says of a replayed refresh token, for a run that shows *)
(* the interleaving in which the code does not do it.                      *)
EXTENDS RefreshTokens, TLC

Interchangeable == Permutations(Tokens) \cup Permutations(Calls)

\* When a call that has presented a revoked token is answered, no token of that
\* login is usable.  The UPDATE of revoke_refresh_family does not see the
\* replacement that a rotation inserts while the UPDATE waits for its row.
ReplayRevokesFamily ==
    [][\A c \in Calls :
         call[c].pc = "revoking" /\ ~Live(call[c].arg) /\ call'[c].pc = "done" =>
             \A t \in Members(token[call[c].arg].family) : ~Live(t)']_vars
=============================================================================
