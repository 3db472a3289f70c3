---------------------------- MODULE MCCompaction ----------------------------
(***************************************************************************)
(* Compaction for TLC.  A first turn fits into the window, and a second    *)
(* one behind its answer does not; a summary makes room again.             *)
(***************************************************************************)
EXTENDS Compaction

MCTokens == [message |-> 2, answer |-> 1, summary |-> 1, unavailable |-> 1]

\* A configuration that resumes a session.
MCConfig == [f \in CLI!Fields |-> IF f = "SessionID" THEN 9 ELSE CLI!Unset]
=============================================================================
