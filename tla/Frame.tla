------------------------------- MODULE Frame -------------------------------
(***************************************************************************)
(* The frame codec of src/src/protocol.c as operators.                     *)
(*                                                                         *)
(* A frame is a record [fin, rsv, opcode, mask, len].  Payload bytes and   *)
(* masking keys are abstracted to WHERE they lie in a buffer: a buffer is  *)
(* the sequence of its header bytes (the two fixed bytes and the extended  *)
(* length) together with the offset of the key, the offset of the payload  *)
(* and its size.  Header bytes keep their width; what the masking does to  *)
(* payload bytes is the subject of module Masking.                         *)
(***************************************************************************)
EXTENDS Integers, Sequences

(* enum ws_opcode_t.  Opcodes from OPCODE_CLOSE on are control opcodes. *)
OPCODE_CONT  == 0
OPCODE_TEXT  == 1
OPCODE_BIN   == 2
OPCODE_CLOSE == 8
OPCODE_PING  == 9
OPCODE_PONG  == 10

(* The two members of enum ws_frame_error_t that this code path returns. *)
WS_FRAME_SUCCESS   == "WS_FRAME_SUCCESS"
WS_FRAME_ERROR_LEN == "WS_FRAME_ERROR_LEN"

(* struct ws_frame_t: both unions' bit fields and the payload length. *)
FrameType == [fin: 0..1, rsv: 0..7, opcode: 0..15, mask: 0..1, len: Nat]

(* Room taken by the masking key. *)
KeyLen(f) == IF f.mask = 1 THEN 4 ELSE 0

----------------------------------------------------------------------------
(* A 64 bit length shifted right by k bytes, and the lengths that fit. *)
Shr8(n)  == n \div 256
Shr56(n) == Shr8(Shr8(Shr8(Shr8(Shr8(Shr8(Shr8(n)))))))
Fits64(n) == n \in Nat /\ Shr56(n) < 256

(* The length field of a header byte by byte, most significant first. *)
Bytes2(n) == <<Shr8(n) % 256, n % 256>>

Bytes8(n) ==
  LET q1 == Shr8(n)
      q2 == Shr8(q1)
      q3 == Shr8(q2)
      q4 == Shr8(q3)
      q5 == Shr8(q4)
      q6 == Shr8(q5)
      q7 == Shr8(q6)
  IN <<q7 % 256, q6 % 256, q5 % 256, q4 % 256,
       q3 % 256, q2 % 256, q1 % 256, n % 256>>

(* Bytes i and i+1, or i .. i+7, of a buffer put together again. *)
Join2(b, i) == b[i] * 256 + b[i + 1]

Join8(b, i) ==
  ((((((b[i] * 256 + b[i + 1]) * 256 + b[i + 2]) * 256 + b[i + 3]) * 256
       + b[i + 4]) * 256 + b[i + 5]) * 256 + b[i + 6]) * 256 + b[i + 7]

----------------------------------------------------------------------------
(* Bytes the extended length takes, from the 7 bit length field. *)
ws_frame_payload_byte_len(p7) ==
  IF p7 = 126 THEN 2 ELSE IF p7 = 127 THEN 8 ELSE 0

OutputSizeNoKey(f) ==
  2 + f.len + (IF f.len <= 125 THEN 0 ELSE IF f.len <= 65536 THEN 2 ELSE 8)

OutputSizeLate(f) ==
  2 + f.len + KeyLen(f) +
    (IF f.len <= 126 THEN 0 ELSE IF f.len <= 65536 THEN 2 ELSE 8)

(* Size of the buffer ws_frame_write allocates. *)
ws_frame_output_size(f) ==
  2 + f.len + KeyLen(f) +
    (IF f.len <= 125 THEN 0 ELSE IF f.len <= 65536 THEN 2 ELSE 8)

PayloadLen7Wide(len) == IF len < 256 THEN len ELSE IF len < 65536 THEN 126 ELSE 127
PayloadLen7AsSize(len) == IF len <= 125 THEN len ELSE IF len <= 65536 THEN 126 ELSE 127

(* The 7 bit length field ws_frame_write chooses. *)
PayloadLen7(len) ==
  IF len <= 125 THEN len ELSE IF len < 65536 THEN 126 ELSE 127

(* The extended length, none when the 7 bit field holds the length. *)
ws_frame_write_len(len) ==
  IF PayloadLen7(len) = 126 THEN Bytes2(len)
  ELSE IF PayloadLen7(len) = 127 THEN Bytes8(len) ELSE <<>>

(* The bit fields of struct ws_frame_t laid out in the two fixed bytes. *)
CodesValue(f) == f.fin * 128 + f.rsv * 16 + f.opcode
InfoValue(f)  == f.mask * 128 + PayloadLen7(f.len)

HeaderBytes(f) == <<CodesValue(f), InfoValue(f)>> \o ws_frame_write_len(f.len)

(* Bytes from the start of the frame to its payload. *)
PayloadOffset(f) == 2 + ws_frame_payload_byte_len(PayloadLen7(f.len)) + KeyLen(f)

(* The buffer is filled up to the payload, then the payload must fit. *)
ws_frame_write(f) ==
  LET out_len == ws_frame_output_size(f)
      offset  == PayloadOffset(f)
  IN [err   |-> IF out_len < offset + f.len THEN WS_FRAME_ERROR_LEN
                                            ELSE WS_FRAME_SUCCESS,
      bytes |-> HeaderBytes(f),
      keyAt |-> offset - KeyLen(f),
      payAt |-> offset,
      size  |-> out_len]

----------------------------------------------------------------------------
(* What the header decoder returns when the buffer is too short. *)
HeaderTooShort == [err |-> WS_FRAME_ERROR_LEN]

(* ws_frame_extended_len: the length announced by the header. *)
ws_frame_extended_len(b) ==
  LET p7 == b[2] % 128
  IN IF p7 = 126 THEN Join2(b, 3)
     ELSE IF p7 = 127 THEN Join8(b, 3) ELSE p7

(* Header of the frame whose bytes b start the buffer, n of them at hand. *)
ws_frame_read_header(b, n) ==
  IF n < 2 \/ n < 2 + ws_frame_payload_byte_len(b[2] % 128)
  THEN HeaderTooShort
  ELSE [err    |-> WS_FRAME_SUCCESS,
        fin    |-> b[1] \div 128,
        rsv    |-> (b[1] \div 16) % 8,
        opcode |-> b[1] % 16,
        mask   |-> b[2] \div 128,
        p7     |-> b[2] % 128,
        len    |-> ws_frame_extended_len(b)]

(* Key and payload of the frame with header h, read from the n bytes that   *)
(* start at offset at of the frame's buffer.                                *)
ws_frame_read_body(h, at, n) ==
  IF n = 0 \/ n < KeyLen(h) + h.len
  THEN [err |-> WS_FRAME_ERROR_LEN]
  ELSE [err   |-> WS_FRAME_SUCCESS,
        keyAt |-> at,
        payAt |-> at + KeyLen(h)]

(* ws_frame_read: header and body of a buffer that holds a whole frame.     *)
ws_frame_read(b, n) ==
  LET h == ws_frame_read_header(b, n)
  IN IF n = 0 \/ h.err # WS_FRAME_SUCCESS
     THEN [err |-> WS_FRAME_ERROR_LEN]
     ELSE ws_frame_read_body(h, 2, n - 2)
============================================================================
