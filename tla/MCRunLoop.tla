----------------------------- MODULE MCRunLoop ------------------------------
(***************************************************************************)
(* RunLoop for TLC: the bounds are in the .cfg files.                      *)
(***************************************************************************)
EXTENDS RunLoop
=============================================================================
