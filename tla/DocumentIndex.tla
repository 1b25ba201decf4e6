---------------------------- MODULE DocumentIndex ----------------------------
(***************************************************************************)
(* What retrieval is promised of the files of a knowledge base, without a  *)
(* word on queues, workers, sessions or objects.  A file has a last good   *)
(* generation from the first one that is completed until for ever: nothing *)
(* but a generation that is stored in full takes its place, in one step.   *)
(* A file serves that generation or nothing, a completed generation makes  *)
(* it serve, and a file that has been removed serves nothing ever again.   *)
(*                                                                         *)
(* The promise is the one of SECURITY.md:226-227 and 240-242 and of the    *)
(* technical reference:1115-1117 ("cannot expose partial chunks or remove  *)
(* the last good generation"), except for one thing: Suspend.  A file may  *)
(* stop serving for a while, which the reference rules out and the code    *)
(* does: reprocess sets the status to pending (file_service.py:109), and   *)
(* retrieval wants ready or processing (documents.py:125).  That the file  *)
(* serves again in the end is Ingestion!GoodGenerationsReturn.             *)
(***************************************************************************)
EXTENDS Naturals

CONSTANTS Files, MaxVersion

VARIABLES
    stored,   \* the <<file, generation>> pairs stored in full
    good,     \* the last good generation of each file, 0 before the first
    open,     \* the files whose last good generation retrieval sees
    removed   \* the files that were removed

vars == <<stored, good, open, removed>>

Init ==
    /\ stored = {}
    /\ good = [f \in Files |-> 0]
    /\ open = {}
    /\ removed = {}

\* A generation is completed.  It becomes the good one, unless it is a copy of
\* an earlier one and the file has a good one already.
Publish(f, v) ==
    /\ stored' = stored \cup {<<f, v>>}
    /\ \/ good' = [good EXCEPT ![f] = v]
       \/ good[f] # 0 /\ <<f, v>> \in stored /\ UNCHANGED good
    /\ open' = (open \cup {f}) \ removed
    /\ UNCHANGED removed

Suspend(f) ==
    /\ open' = open \ {f}
    /\ UNCHANGED <<stored, good, removed>>

Resume(f) ==
    /\ f \notin removed /\ good[f] # 0
    /\ open' = open \cup {f}
    /\ UNCHANGED <<stored, good, removed>>

\* One file or, with its knowledge base, many are removed at once.
Remove(F) ==
    /\ removed' = removed \cup F
    /\ open' = open \ F
    /\ UNCHANGED <<stored, good>>

Next ==
    \/ \E f \in Files : Suspend(f) \/ Resume(f) \/ \E v \in 1..MaxVersion : Publish(f, v)
    \/ \E F \in SUBSET Files : Remove(F)

Spec == Init /\ [][Next]_vars
=============================================================================
