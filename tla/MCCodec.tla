------------------------------ MODULE MCCodec ------------------------------
(***************************************************************************)
(* Codec on the lengths around every boundary of the length encoding.      *)
(***************************************************************************)
EXTENDS Codec

MCLens == {0, 1, 125, 126, 127, 128, 255, 256, 257, 65535, 65536, 65537,
           16777215, 16777216, 2147483000}

MCFrames ==
  [fin: 0..1, rsv: {0, 5}, opcode: {0, 1, 9}, mask: 0..1, len: MCLens]

============================================================================
