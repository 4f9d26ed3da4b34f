------------------------------- MODULE Codec -------------------------------
(***************************************************************************)
(* One frame through src/src/protocol.c: ws_frame_write fills a buffer,    *)
(* then either ws_frame_read_header and ws_frame_read_body read it back,   *)
(* the way ws_reader_handle uses them (a header peeked from at most        *)
(* PeekMax bytes, possibly several times, then the body), or ws_frame_read *)
(* reads the whole buffer in one call.                                     *)
(***************************************************************************)
EXTENDS Frame

CONSTANT Frames  \* the frames that are written

ASSUME FramesAssumption == Frames \subseteq FrameType

ASSUME FramesFit == \A f \in Frames : Fits64(f.len)

VARIABLES
  pc,     \* "new", "written", "failed", "header", "read" or "whole"
  frame,  \* the frame being written
  out,    \* what ws_frame_write returned
  hd,     \* what the last header read returned
  body    \* what the body read returned

vars == <<pc, frame, out, hd, body>>

(* The header buffer of ws_reader_handle. *)
PeekMax == 10

NotRead == [err |-> "none"]

Init ==
  /\ pc = "new"
  /\ frame \in Frames
  /\ out = NotRead
  /\ hd = NotRead
  /\ body = NotRead

Write ==
  /\ pc = "new"
  /\ out' = ws_frame_write(frame)
  /\ pc' = IF out'.err = WS_FRAME_SUCCESS THEN "written" ELSE "failed"
  /\ UNCHANGED <<frame, hd, body>>

(* A peek that returns n bytes; too few of them leave the frame unread. *)
ReadHeader(n) ==
  /\ pc = "written"
  /\ n <= out.size
  /\ hd' = ws_frame_read_header(out.bytes, n)
  /\ pc' = IF hd'.err = WS_FRAME_SUCCESS THEN "header" ELSE pc
  /\ UNCHANGED <<frame, out, body>>

(* The caller skips the header and its extended length. *)
ReadBody ==
  LET payload_offset == 2 + ws_frame_payload_byte_len(hd.p7)
  IN /\ pc = "header"
     /\ body' = ws_frame_read_body(hd, payload_offset, out.size - payload_offset)
     /\ pc' = "read"
     /\ UNCHANGED <<frame, out, hd>>

ReadWhole ==
  /\ pc = "written"
  /\ hd' = ws_frame_read_header(out.bytes, out.size)
  /\ body' = ws_frame_read(out.bytes, out.size)
  /\ pc' = "whole"
  /\ UNCHANGED <<frame, out>>

Next ==
  \/ Write
  \/ \E n \in 0..PeekMax : ReadHeader(n)
  \/ ReadBody
  \/ ReadWhole

Spec == Init /\ [][Next]_vars

----------------------------------------------------------------------------
(* Every header byte that ws_frame_write produces is a byte. *)
TypeOK ==
  /\ pc \in {"new", "written", "failed", "header", "read", "whole"}
  /\ frame \in Frames
  /\ pc # "new" => out.bytes \in Seq(0..255)

(* ws_frame_write stores nothing behind the buffer it allocated: header,     *)
(* extended length and key always fit, and the payload does when the call    *)
(* succeeds.  This is what its final length check is for.                    *)
StoresInBounds ==
  pc # "new" =>
    /\ out.payAt <= out.size
    /\ pc # "failed" => out.payAt + frame.len <= out.size

(* The header and body that are read back are the ones that were written,    *)
(* however few bytes the peeks returned: flags, opcode and length survive,   *)
(* and key and payload are found where ws_frame_write put them.  A frame     *)
(* with neither key nor payload is left out: ws_frame_read_body refuses it.  *)
(* ws_frame_read, which starts the body at byte 2, agrees when there is no   *)
(* extended length.                                                          *)
SameHeader ==
  /\ hd.fin = frame.fin
  /\ hd.rsv = frame.rsv
  /\ hd.opcode = frame.opcode
  /\ hd.mask = frame.mask
  /\ hd.len = frame.len

SamePlace ==
  /\ body.err = WS_FRAME_SUCCESS
  /\ body.payAt = out.payAt
  /\ frame.mask = 1 => body.keyAt = out.keyAt

RoundTrip ==
  /\ pc \in {"header", "read", "whole"} => SameHeader
  /\ pc = "read" /\ frame.len + KeyLen(frame) > 0 => SamePlace
  /\ pc = "whole" /\ frame.len <= 125 /\ frame.len + KeyLen(frame) > 0 => SamePlace

(* ws_frame_output_size and ws_frame_write decide on the extended length by  *)
(* tests of their own.  They agree, to the byte, on every length but 65536,  *)
(* and that is the one length that cannot be written.                        *)
SizeExact ==
  pc # "new" =>
    IF frame.len = 65536 THEN pc = "failed"
                         ELSE pc # "failed" /\ out.size = out.payAt + frame.len
============================================================================
