---------------------------- MODULE MCEventRelay ----------------------------
(***************************************************************************)
(* EventRelay for TLC: two producers, bounds in the .cfg file.             *)
(***************************************************************************)
EXTENDS EventRelay
=============================================================================
