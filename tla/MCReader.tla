------------------------------ MODULE MCReader ------------------------------
(***************************************************************************)
(* Reader for a server that sends text, binary, ping and close frames with *)
(* a short payload, fragmented or not.                                     *)
(***************************************************************************)
EXTENDS Reader

F(fin, opcode, len) ==
  [fin |-> fin, rsv |-> 0, opcode |-> opcode, mask |-> 0, len |-> len]

(* Payloads of one byte: frames of three bytes. *)
MCFrames ==
  { F(1, OPCODE_TEXT, 1), F(0, OPCODE_TEXT, 1), F(0, OPCODE_CONT, 1),
    F(1, OPCODE_CONT, 1), F(1, OPCODE_PING, 1), F(1, OPCODE_CLOSE, 1) }

MCFramesFaults == MCFrames \cup { F(1, OPCODE_PING, 0) }

(* Also every length encoding, and messages of another type. *)
MCFramesLong ==
  { F(1, OPCODE_TEXT, 126), F(0, OPCODE_BIN, 65536), F(0, OPCODE_CONT, 125),
    F(1, OPCODE_CONT, 65535), F(1, OPCODE_PONG, 1), F(1, OPCODE_CLOSE, 2) }
=============================================================================
