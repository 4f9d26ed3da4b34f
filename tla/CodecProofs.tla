---------------------------- MODULE CodecProofs ----------------------------
(***************************************************************************)
(* The properties of module Codec for every set of frames whose lengths    *)
(* fit in 64 bits.                                                         *)
(***************************************************************************)
EXTENDS Codec, FrameProofs

(* The header that the decoder returns for frame f. *)
HeaderFor(f) ==
  [err    |-> WS_FRAME_SUCCESS,
   fin    |-> f.fin,
   rsv    |-> f.rsv,
   opcode |-> f.opcode,
   mask   |-> f.mask,
   p7     |-> PayloadLen7(f.len),
   len    |-> f.len]

(* Bytes in front of the key, and the body that is read from an offset. *)
ExtOffset(f) == 2 + ws_frame_payload_byte_len(PayloadLen7(f.len))

BodyFor(f, at) ==
  ws_frame_read_body(HeaderFor(f), at, ws_frame_output_size(f) - at)

(* The inductive invariant: what the variables hold is a function of the     *)
(* frame and of how far its processing got.                                  *)
IInv ==
  /\ pc \in {"new", "written", "failed", "header", "read", "whole"}
  /\ frame \in Frames
  /\ pc # "new" => out = ws_frame_write(frame)
  /\ pc \in {"written", "header", "read", "whole"}
       => ws_frame_write(frame).err = WS_FRAME_SUCCESS
  /\ pc = "failed" => ws_frame_write(frame).err # WS_FRAME_SUCCESS
  /\ pc \in {"header", "read", "whole"} => hd = HeaderFor(frame)
  /\ pc = "read" => body = BodyFor(frame, ExtOffset(frame))
  /\ pc = "whole" => body = BodyFor(frame, 2)

(* A frame of the model is a frame whose length fits. *)
LEMMA FrameFacts ==
  ASSUME NEW f \in Frames
  PROVE  f \in FrameType /\ Fits64(f.len)
BY FramesAssumption, FramesFit

(* A header peek that succeeds returns the frame's header. *)
LEMMA PeekFacts ==
  ASSUME NEW f \in Frames, NEW n \in Nat,
         ws_frame_read_header(HeaderBytes(f), n).err = WS_FRAME_SUCCESS
  PROVE  ws_frame_read_header(HeaderBytes(f), n) = HeaderFor(f)
<1>1. f \in FrameType /\ Fits64(f.len)
  BY FrameFacts
<1>2. ws_frame_read_header(HeaderBytes(f), n) =
        IF n < 2 + ws_frame_payload_byte_len(PayloadLen7(f.len))
        THEN HeaderTooShort ELSE HeaderFor(f)
  BY <1>1, HeaderRoundTrip DEF HeaderFor
<1>3. HeaderTooShort.err # WS_FRAME_SUCCESS
  BY DEF HeaderTooShort, WS_FRAME_SUCCESS, WS_FRAME_ERROR_LEN
<1> QED BY <1>2, <1>3

(* The sizes: the buffer always has room for header and key, and for the     *)
(* payload as well when ws_frame_write succeeds.                             *)
LEMMA SizeFacts ==
  ASSUME NEW f \in Frames
  PROVE  /\ PayloadOffset(f) \in Nat /\ ws_frame_output_size(f) \in Nat
         /\ f.len \in Nat /\ KeyLen(f) \in {0, 4}
         /\ ExtOffset(f) \in Nat
         /\ PayloadOffset(f) = ExtOffset(f) + KeyLen(f)
         /\ PayloadOffset(f) <= ws_frame_output_size(f)
         /\ ws_frame_write(f).err = WS_FRAME_SUCCESS
              => PayloadOffset(f) + f.len <= ws_frame_output_size(f)
<1>1. f.len \in Nat
  BY FrameFacts DEF FrameType
<1>2. KeyLen(f) \in {0, 4}
  BY DEF KeyLen
<1>3. PICK n \in Nat, k \in {0, 4} : n = f.len /\ k = KeyLen(f)
  BY <1>1, <1>2
<1> DEFINE e == ws_frame_payload_byte_len(PayloadLen7(n))
           x == IF n <= 125 THEN 0 ELSE IF n <= 65536 THEN 2 ELSE 8
<1>4. e \in {0, 2, 8} /\ x \in {0, 2, 8} /\ e <= x + n
  BY DEF ws_frame_payload_byte_len, PayloadLen7
<1>5. /\ PayloadOffset(f) = 2 + e + k
      /\ ExtOffset(f) = 2 + e
      /\ ws_frame_output_size(f) = 2 + n + k + x
  BY <1>3 DEF PayloadOffset, ExtOffset, ws_frame_output_size
<1> HIDE DEF e, x
<1>6. /\ PayloadOffset(f) \in Nat /\ ws_frame_output_size(f) \in Nat
      /\ ExtOffset(f) \in Nat
      /\ PayloadOffset(f) = ExtOffset(f) + k
      /\ PayloadOffset(f) <= ws_frame_output_size(f)
  BY <1>4, <1>5
<1>7. ws_frame_write(f).err = WS_FRAME_SUCCESS
        => PayloadOffset(f) + n <= ws_frame_output_size(f)
  BY <1>3, <1>6 DEF ws_frame_write, WS_FRAME_SUCCESS, WS_FRAME_ERROR_LEN
<1> QED BY <1>1, <1>2, <1>3, <1>6, <1>7

LEMMA Invariance == Spec => []IInv
<1>1. Init => IInv
  BY DEF Init, IInv
<1>2. IInv /\ [Next]_vars => IInv'
  <2> SUFFICES ASSUME IInv, [Next]_vars PROVE IInv'
    OBVIOUS
  <2>1. CASE Write
    BY <2>1 DEF IInv, Write, ws_frame_write, WS_FRAME_SUCCESS, WS_FRAME_ERROR_LEN
  <2>2. ASSUME NEW n \in 0..PeekMax, ReadHeader(n) PROVE IInv'
    <3>1. n \in Nat
      BY DEF PeekMax
    <3>2. out.bytes = HeaderBytes(frame) /\ frame \in Frames
      BY <2>2 DEF IInv, ReadHeader, ws_frame_write
    <3>3. hd' = ws_frame_read_header(HeaderBytes(frame), n)
      BY <2>2, <3>2 DEF ReadHeader
    <3>4. CASE hd'.err = WS_FRAME_SUCCESS
      <4>1. hd' = HeaderFor(frame)
        BY <3>1, <3>2, <3>3, <3>4, PeekFacts
      <4> QED BY <2>2, <3>4, <4>1 DEF IInv, ReadHeader
    <3>5. CASE hd'.err # WS_FRAME_SUCCESS
      BY <2>2, <3>5 DEF IInv, ReadHeader
    <3> QED BY <3>4, <3>5
  <2>3. CASE ReadBody
    <3>1. hd = HeaderFor(frame) /\ out = ws_frame_write(frame)
      BY <2>3 DEF IInv, ReadBody
    <3>2. hd.p7 = PayloadLen7(frame.len) /\ out.size = ws_frame_output_size(frame)
      BY <3>1 DEF HeaderFor, ws_frame_write
    <3>3. body' = BodyFor(frame, ExtOffset(frame))
      BY <2>3, <3>1, <3>2 DEF ReadBody, BodyFor, ExtOffset
    <3> QED BY <2>3, <3>3 DEF IInv, ReadBody
  <2>4. CASE ReadWhole
    <3> DEFINE n == ws_frame_output_size(frame)
    <3>1. frame \in Frames /\ out = ws_frame_write(frame)
      BY <2>4 DEF IInv, ReadWhole
    <3>2. out.bytes = HeaderBytes(frame) /\ out.size = n
      BY <3>1 DEF ws_frame_write
    <3>3. n \in Nat /\ n >= ExtOffset(frame) /\ ExtOffset(frame) \in Nat /\ n # 0
      <4>1. ExtOffset(frame) >= 2
        BY DEF ExtOffset, ws_frame_payload_byte_len
      <4> QED BY <3>1, <4>1, SizeFacts
    <3>4. ws_frame_read_header(HeaderBytes(frame), n) = HeaderFor(frame)
      <4>1. frame \in FrameType /\ Fits64(frame.len)
        BY <3>1, FrameFacts
      <4>2. ws_frame_read_header(HeaderBytes(frame), n) =
              IF n < ExtOffset(frame) THEN HeaderTooShort ELSE HeaderFor(frame)
        BY <3>3, <4>1, HeaderRoundTrip DEF HeaderFor, ExtOffset
      <4> HIDE DEF n
      <4> QED BY <3>3, <4>2
    <3>5. hd' = HeaderFor(frame)
      BY <2>4, <3>2, <3>4 DEF ReadWhole
    <3>6. HeaderFor(frame).err = WS_FRAME_SUCCESS
      BY DEF HeaderFor
    <3>7. body' = BodyFor(frame, 2)
      BY <2>4, <3>2, <3>3, <3>4, <3>6 DEF ReadWhole, ws_frame_read, BodyFor
    <3> QED BY <2>4, <3>5, <3>7 DEF IInv, ReadWhole
  <2>5. CASE UNCHANGED vars
    BY <2>5 DEF IInv, vars
  <2> QED BY <2>1, <2>2, <2>3, <2>4, <2>5 DEF Next
<1> QED BY <1>1, <1>2, PTL DEF Spec

(* Every header byte ws_frame_write produces is a byte, for every frame. *)
THEOREM TypeCorrect == Spec => []TypeOK
<1>1. IInv => TypeOK
  <2> SUFFICES ASSUME IInv PROVE TypeOK
    OBVIOUS
  <2>1. HeaderBytes(frame) \in Seq(0..255)
    <3>1. frame \in FrameType /\ Fits64(frame.len)
      BY FrameFacts DEF IInv
    <3> QED BY <3>1, HeaderFields
  <2>2. pc # "new" => out.bytes = HeaderBytes(frame)
    BY DEF IInv, ws_frame_write
  <2> QED BY <2>1, <2>2 DEF IInv, TypeOK
<1> QED BY <1>1, Invariance, PTL

(* ws_frame_write never stores behind its buffer, whatever the length. *)
THEOREM BoundsCorrect == Spec => []StoresInBounds
<1>1. IInv => StoresInBounds
  <2> SUFFICES ASSUME IInv, pc # "new" PROVE
                 /\ out.payAt <= out.size
                 /\ pc # "failed" => out.payAt + frame.len <= out.size
    BY DEF StoresInBounds
  <2>1. frame \in Frames /\ out = ws_frame_write(frame)
    BY DEF IInv
  <2>2. out.payAt = PayloadOffset(frame) /\ out.size = ws_frame_output_size(frame)
    BY <2>1 DEF ws_frame_write
  <2>3. pc # "failed" => ws_frame_write(frame).err = WS_FRAME_SUCCESS
    BY DEF IInv
  <2> QED BY <2>1, <2>2, <2>3, SizeFacts
<1> QED BY <1>1, Invariance, PTL

(* The two tests on the length differ in one place. *)
LEMMA ExactFacts ==
  ASSUME NEW f \in Frames
  PROVE  IF f.len = 65536
         THEN ws_frame_write(f).err # WS_FRAME_SUCCESS
         ELSE /\ ws_frame_write(f).err = WS_FRAME_SUCCESS
              /\ ws_frame_output_size(f) = PayloadOffset(f) + f.len
<1>1. PICK n \in Nat, k \in {0, 4} : n = f.len /\ k = KeyLen(f)
  BY SizeFacts
<1> DEFINE e == ws_frame_payload_byte_len(PayloadLen7(n))
           x == IF n <= 125 THEN 0 ELSE IF n <= 65536 THEN 2 ELSE 8
<1>2. IF n = 65536 THEN e = 8 /\ x = 2 ELSE e = x /\ x \in {0, 2, 8}
  BY DEF ws_frame_payload_byte_len, PayloadLen7
<1>3. PayloadOffset(f) = 2 + e + k /\ ws_frame_output_size(f) = 2 + n + k + x
  BY <1>1 DEF PayloadOffset, ws_frame_output_size
<1> HIDE DEF e, x
<1>4. IF n = 65536 THEN ws_frame_output_size(f) < PayloadOffset(f) + n
                   ELSE ws_frame_output_size(f) = PayloadOffset(f) + n
  BY <1>2, <1>3
<1>5. PayloadOffset(f) + n \in Nat
  BY <1>1, SizeFacts
<1> QED
  BY <1>1, <1>4, <1>5 DEF ws_frame_write, WS_FRAME_SUCCESS, WS_FRAME_ERROR_LEN

(* The buffer is filled to its last byte, and no length but 65536 fails. *)
THEOREM SizeCorrect == Spec => []SizeExact
<1>1. IInv => SizeExact
  <2> SUFFICES ASSUME IInv, pc # "new" PROVE
                 IF frame.len = 65536
                 THEN pc = "failed"
                 ELSE pc # "failed" /\ out.size = out.payAt + frame.len
    BY DEF SizeExact
  <2>1. frame \in Frames /\ out = ws_frame_write(frame)
    BY DEF IInv
  <2>2. out.payAt = PayloadOffset(frame) /\ out.size = ws_frame_output_size(frame)
    BY <2>1 DEF ws_frame_write
  <2>3. pc = "failed" <=> ws_frame_write(frame).err # WS_FRAME_SUCCESS
    BY DEF IInv
  <2> QED BY <2>1, <2>2, <2>3, ExactFacts
<1> QED BY <1>1, Invariance, PTL

(* Behind the extended length lie key and payload. *)
LEMMA BodyFacts ==
  ASSUME NEW f \in Frames, f.len + KeyLen(f) > 0,
         ws_frame_write(f).err = WS_FRAME_SUCCESS
  PROVE  BodyFor(f, ExtOffset(f)) = [err   |-> WS_FRAME_SUCCESS,
                                     keyAt |-> PayloadOffset(f) - KeyLen(f),
                                     payAt |-> PayloadOffset(f)]
<1> DEFINE h == HeaderFor(f)
           at == ExtOffset(f)
           n == ws_frame_output_size(f) - at
<1>1. h.len = f.len /\ KeyLen(h) = KeyLen(f)
  BY DEF HeaderFor, KeyLen
<1>2. /\ f.len \in Nat /\ KeyLen(f) \in {0, 4} /\ at \in Nat
      /\ ws_frame_output_size(f) \in Nat /\ PayloadOffset(f) \in Nat
      /\ PayloadOffset(f) = at + KeyLen(f)
      /\ PayloadOffset(f) + f.len <= ws_frame_output_size(f)
  BY SizeFacts
<1> HIDE DEF h, at
<1>3. ~(n = 0 \/ n < KeyLen(h) + h.len)
  BY <1>1, <1>2
<1>4. BodyFor(f, ExtOffset(f)) = [err |-> WS_FRAME_SUCCESS, keyAt |-> at,
                                  payAt |-> at + KeyLen(h)]
  BY <1>3 DEF BodyFor, ws_frame_read_body, h, at
<1>5. at = PayloadOffset(f) - KeyLen(f) /\ at + KeyLen(h) = PayloadOffset(f)
  BY <1>1, <1>2
<1> QED BY <1>4, <1>5

(* The header and the body that are read back are the ones written, for      *)
(* every frame, however few bytes the peeks return, and by ws_frame_read for *)
(* every frame without an extended length.                                   *)
THEOREM RoundTripCorrect == Spec => []RoundTrip
<1>1. IInv => RoundTrip
  <2> SUFFICES ASSUME IInv PROVE RoundTrip
    OBVIOUS
  <2>1. pc \in {"header", "read", "whole"} => SameHeader
    BY DEF IInv, SameHeader, HeaderFor
  <2>2. ASSUME pc \in {"read", "whole"}, frame.len + KeyLen(frame) > 0,
               body = BodyFor(frame, ExtOffset(frame))
        PROVE  SamePlace
    <3>1. /\ frame \in Frames /\ out = ws_frame_write(frame)
          /\ ws_frame_write(frame).err = WS_FRAME_SUCCESS
      BY <2>2 DEF IInv
    <3>2. /\ out.payAt = PayloadOffset(frame)
          /\ out.keyAt = PayloadOffset(frame) - KeyLen(frame)
      BY <3>1 DEF ws_frame_write
    <3>3. body = [err   |-> WS_FRAME_SUCCESS,
                  keyAt |-> PayloadOffset(frame) - KeyLen(frame),
                  payAt |-> PayloadOffset(frame)]
      BY <2>2, <3>1, BodyFacts
    <3> QED BY <3>2, <3>3 DEF SamePlace
  <2>3. ASSUME frame.len <= 125 PROVE ExtOffset(frame) = 2
    <3>1. frame.len \in Nat
      BY SizeFacts DEF IInv
    <3> QED BY <2>3, <3>1 DEF ExtOffset, PayloadLen7, ws_frame_payload_byte_len
  <2> QED BY <2>1, <2>2, <2>3 DEF RoundTrip, IInv
<1> QED BY <1>1, Invariance, PTL
============================================================================
