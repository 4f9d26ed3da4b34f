------------------------------ MODULE MCClient ------------------------------
(***************************************************************************)
(* Client for a server that sends short text, binary, ping, pong and close *)
(* frames.                                                                 *)
(***************************************************************************)
EXTENDS Client

F(fin, opcode, len) ==
  [fin |-> fin, rsv |-> 0, opcode |-> opcode, mask |-> 0, len |-> len]

(* Messages of one frame, and a fragment.  The loop leaves after it, so that *)
(* no frame behind it is read.                                               *)
MCFrames ==
  { F(1, OPCODE_TEXT, 1), F(1, OPCODE_BIN, 1), F(1, OPCODE_PING, 1),
    F(1, OPCODE_PONG, 1), F(1, OPCODE_CLOSE, 2), F(0, OPCODE_TEXT, 1) }

(* What matters to the two threads. *)
MCFramesFew ==
  { F(1, OPCODE_TEXT, 1), F(1, OPCODE_PING, 1), F(1, OPCODE_CLOSE, 2) }
=============================================================================
