----------------------------- MODULE MCSending -----------------------------
(***************************************************************************)
(* Sending for buffers that do not hold two frames.                        *)
(***************************************************************************)
EXTENDS Sending
============================================================================
