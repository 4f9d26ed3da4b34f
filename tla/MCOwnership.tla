---------------------------- MODULE MCOwnership ----------------------------
(***************************************************************************)
(* Ownership for a few frames and writes.                                  *)
(***************************************************************************)
EXTENDS Ownership
============================================================================
