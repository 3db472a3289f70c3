----------------------------- MODULE MCAdapter ------------------------------
(***************************************************************************)
(* Adapter for TLC: the bounds are in the .cfg files.                      *)
(***************************************************************************)
EXTENDS Adapter
=============================================================================
