----------------------------- MODULE UnitOfWork -----------------------------
(***************************************************************************)
(* The SQLAlchemy session every service works through, as configured in    *)
(* database/session.py: autoflush and expire_on_commit are off, Postgres   *)
(* runs at its default READ COMMITTED.                                     *)
(*                                                                         *)
(* Two consequences shape every module of this project:                    *)
(*  - a row that a session has loaded is not loaded again.  A later SELECT *)
(*    of the same key, with FOR UPDATE or without, returns the object of   *)
(*    the identity map with the attributes it already has;                 *)
(*  - a flush writes the attributes whose value differs from the one that  *)
(*    was loaded, and nothing else, whatever the row holds by then.        *)
(***************************************************************************)

\* A flush of an object: `loaded` is what the session read (or last wrote),
\* `dirty` what the service has made of it, `stored` what the table holds now.
Flush(stored, loaded, dirty) ==
    [a \in DOMAIN stored |-> IF dirty[a] = loaded[a] THEN stored[a] ELSE dirty[a]]

\* What a SELECT gives a session that holds the object already: the object it
\* holds, and not the row `stored` it has just read, and perhaps just locked.
Reselect(stored, loaded) == loaded

\* rollback() of an open transaction expires every object of the session, the
\* caller's context included.  The next attribute that is read outside a query
\* asks for IO where an AsyncSession cannot do any, and raises MissingGreenlet;
\* without an open transaction rollback() does nothing.
UsableAfterRollback(open) == ~open
=============================================================================
