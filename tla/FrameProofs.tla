---------------------------- MODULE FrameProofs ----------------------------
(***************************************************************************)
(* What the codec operators of module Frame compute, for every frame.      *)
(***************************************************************************)
EXTENDS Frame, TLAPS

(* A length and its quotient by 256 are naturals that determine each other. *)
LEMMA Shr8Def ==
  ASSUME NEW n \in Nat
  PROVE  Shr8(n) \in Nat /\ n % 256 \in 0..255 /\ n = Shr8(n) * 256 + (n % 256)
BY DEF Shr8

(* The eight byte encoding of a length that fits is undone by Join8. *)
LEMMA Bytes8Join ==
  ASSUME NEW n, Fits64(n), NEW c1, NEW c2
  PROVE  /\ Bytes8(n) \in Seq(0..255)
         /\ Len(Bytes8(n)) = 8
         /\ Join8(<<c1, c2>> \o Bytes8(n), 3) = n
<1> DEFINE q1 == Shr8(n)
           q2 == Shr8(q1)
           q3 == Shr8(q2)
           q4 == Shr8(q3)
           q5 == Shr8(q4)
           q6 == Shr8(q5)
           q7 == Shr8(q6)
<1>0. n \in Nat /\ q7 < 256
  BY DEF Fits64, Shr56
<1>1. q1 \in Nat /\ n % 256 \in 0..255 /\ n = q1 * 256 + (n % 256)
  BY <1>0, Shr8Def
<1>2. q2 \in Nat /\ q1 % 256 \in 0..255 /\ q1 = q2 * 256 + (q1 % 256)
  BY <1>1, Shr8Def, ZenonT(40)
<1>3. q3 \in Nat /\ q2 % 256 \in 0..255 /\ q2 = q3 * 256 + (q2 % 256)
  BY <1>2, Shr8Def, ZenonT(40)
<1>4. q4 \in Nat /\ q3 % 256 \in 0..255 /\ q3 = q4 * 256 + (q3 % 256)
  BY <1>3, Shr8Def, ZenonT(40)
<1>5. q5 \in Nat /\ q4 % 256 \in 0..255 /\ q4 = q5 * 256 + (q4 % 256)
  BY <1>4, Shr8Def, ZenonT(40)
<1>6. q6 \in Nat /\ q5 % 256 \in 0..255 /\ q5 = q6 * 256 + (q5 % 256)
  BY <1>5, Shr8Def, ZenonT(40)
<1>7. q7 \in Nat /\ q6 % 256 \in 0..255 /\ q6 = q7 * 256 + (q6 % 256)
  BY <1>6, Shr8Def, ZenonT(40)
<1>8. q7 % 256 = q7 /\ q7 \in 0..255
  <2> HIDE DEF q7
  <2> QED BY <1>0, <1>7
<1>9. Bytes8(n) = <<q7 % 256, q6 % 256, q5 % 256, q4 % 256,
                    q3 % 256, q2 % 256, q1 % 256, n % 256>>
  BY DEF Bytes8
<1> HIDE DEF q1, q2, q3, q4, q5, q6, q7
<1>10. Bytes8(n) \in Seq(0..255) /\ Len(Bytes8(n)) = 8
  BY <1>1, <1>2, <1>3, <1>4, <1>5, <1>6, <1>7, <1>8, <1>9
<1> DEFINE b == <<c1, c2>> \o Bytes8(n)
<1>11. /\ b[3] = q7 /\ b[4] = q6 % 256 /\ b[5] = q5 % 256 /\ b[6] = q4 % 256
       /\ b[7] = q3 % 256 /\ b[8] = q2 % 256 /\ b[9] = q1 % 256
       /\ b[10] = n % 256
  BY <1>8, <1>9
<1>12. /\ 3 + 1 = 4 /\ 3 + 2 = 5 /\ 3 + 3 = 6 /\ 3 + 4 = 7
       /\ 3 + 5 = 8 /\ 3 + 6 = 9 /\ 3 + 7 = 10
  OBVIOUS
<1> HIDE DEF b
<1>13. Join8(b, 3) =
         ((((((q7 * 256 + (q6 % 256)) * 256 + (q5 % 256)) * 256 + (q4 % 256)) * 256
            + (q3 % 256)) * 256 + (q2 % 256)) * 256 + (q1 % 256)) * 256 + (n % 256)
  BY <1>11, <1>12 DEF Join8
<1>14. Join8(b, 3) = n
  BY <1>1, <1>2, <1>3, <1>4, <1>5, <1>6, <1>7, <1>13
<1> QED
  BY <1>10, <1>14 DEF b

(* The byte c is made of a flag, three reserved bits and an opcode. *)
FirstByteOf(c, fin, r, o) ==
  c \in 0..255 /\ c \div 128 = fin /\ (c \div 16) % 8 = r /\ c % 16 = o

(* The byte c is made of a flag and seven bits. *)
SecondByteOf(c, mask, p) == c \in 0..255 /\ c \div 128 = mask /\ c % 128 = p

(* The bit fields are recovered from the first byte. *)
LEMMA FirstByte ==
  ASSUME NEW fin \in 0..1, NEW r \in 0..7, NEW o \in 0..15,
         NEW c, c = fin * 128 + r * 16 + o
  PROVE  FirstByteOf(c, fin, r, o)
<1>1. CASE fin = 0
  BY <1>1 DEF FirstByteOf
<1>2. CASE fin = 1
  BY <1>2 DEF FirstByteOf
<1> QED BY <1>1, <1>2

(* The mask flag and the 7 bit length are recovered from the second byte. *)
LEMMA SecondByte ==
  ASSUME NEW mask \in 0..1, NEW p \in 0..127, NEW c, c = mask * 128 + p
  PROVE  SecondByteOf(c, mask, p)
<1>1. CASE mask = 0
  BY <1>1 DEF SecondByteOf
<1>2. CASE mask = 1
  BY <1>2 DEF SecondByteOf
<1> QED BY <1>1, <1>2

(* A byte is its own remainder. *)
LEMMA SmallMod ==
  ASSUME NEW x \in 0..255
  PROVE  x % 256 = x
OBVIOUS

(* The 7 bit length field is one of three kinds. *)
LEMMA PayloadLen7Cases ==
  ASSUME NEW n \in Nat
  PROVE  /\ PayloadLen7(n) \in 0..127
         /\ PayloadLen7(n) = 126 => n < 65536
         /\ PayloadLen7(n) # 126 /\ PayloadLen7(n) # 127 => PayloadLen7(n) = n
BY DEF PayloadLen7

(* The bytes b are a header with the fixed bytes c and d and the length n. *)
HeaderOf(b, c, d, n) ==
  /\ b \in Seq(0..255)
  /\ b[1] = c
  /\ b[2] = d
  /\ ws_frame_extended_len(b) = n

(* The extended length is made of bytes, and gives the length back when it   *)
(* follows two fixed bytes of which the second holds the 7 bit field.        *)
LEMMA LengthRoundTrip ==
  ASSUME NEW n \in Nat, NEW c \in 0..255, NEW d \in 0..255, NEW b,
         Fits64(n), d % 128 = PayloadLen7(n),
         b = <<c, d>> \o ws_frame_write_len(n)
  PROVE  HeaderOf(b, c, d, n)
<1>1. CASE PayloadLen7(n) = 126
  <2>1. ws_frame_write_len(n) = <<Shr8(n) % 256, n % 256>>
    BY <1>1 DEF ws_frame_write_len, Bytes2
  <2>2. /\ Shr8(n) \in Nat /\ n % 256 \in 0..255
        /\ n = Shr8(n) * 256 + (n % 256)
    BY Shr8Def
  <2>3. n < 65536
    BY <1>1, PayloadLen7Cases
  <2> DEFINE q == Shr8(n)
             m == n % 256
  <2>4. q \in 0..255 /\ m \in 0..255 /\ n = q * 256 + m
    <3>1. q \in Nat /\ m \in 0..255 /\ n = q * 256 + m
      BY <2>2
    <3> HIDE DEF q, m
    <3> QED BY <2>3, <3>1
  <2>5. q % 256 = q
    BY <2>4, SmallMod, ZenonT(40)
  <2> HIDE DEF q, m
  <2>6. /\ b \in Seq(0..255) /\ b[1] = c /\ b[2] = d /\ b[3] = q /\ b[4] = m
    BY <2>1, <2>4, <2>5 DEF q, m
  <2>7. ws_frame_extended_len(b) = Join2(b, 3)
    BY <1>1, <2>6 DEF ws_frame_extended_len
  <2>8. Join2(b, 3) = n
    <3>1. Join2(b, 3) = b[3] * 256 + b[3 + 1]
      BY DEF Join2
    <3>2. 3 + 1 = 4
      OBVIOUS
    <3> QED BY <2>4, <2>6, <3>1, <3>2, ZenonT(40)
  <2> QED BY <2>6, <2>7, <2>8 DEF HeaderOf
<1>2. CASE PayloadLen7(n) = 127
  <2>1. ws_frame_write_len(n) = Bytes8(n)
    BY <1>2 DEF ws_frame_write_len
  <2>2. Bytes8(n) \in Seq(0..255) /\ Join8(<<c, d>> \o Bytes8(n), 3) = n
    BY Bytes8Join
  <2>3. b \in Seq(0..255) /\ b[1] = c /\ b[2] = d
    BY <2>1, <2>2
  <2>4. ws_frame_extended_len(b) = Join8(b, 3)
    BY <1>2, <2>3 DEF ws_frame_extended_len
  <2> QED BY <2>1, <2>2, <2>3, <2>4 DEF HeaderOf
<1>3. CASE PayloadLen7(n) # 126 /\ PayloadLen7(n) # 127
  <2>1. ws_frame_write_len(n) = <<>> /\ PayloadLen7(n) = n
    BY <1>3, PayloadLen7Cases DEF ws_frame_write_len
  <2>2. b \in Seq(0..255) /\ b[1] = c /\ b[2] = d
    BY <2>1
  <2>3. ws_frame_extended_len(b) = n
    BY <1>3, <2>1, <2>2 DEF ws_frame_extended_len
  <2> QED BY <2>2, <2>3 DEF HeaderOf
<1> QED BY <1>1, <1>2, <1>3

(* The header bytes of a frame and what they hold. *)
LEMMA HeaderFields ==
  ASSUME NEW f \in FrameType, Fits64(f.len)
  PROVE  LET b == HeaderBytes(f)
         IN /\ b \in Seq(0..255)
            /\ b[1] \div 128 = f.fin
            /\ (b[1] \div 16) % 8 = f.rsv
            /\ b[1] % 16 = f.opcode
            /\ b[2] \div 128 = f.mask
            /\ b[2] % 128 = PayloadLen7(f.len)
            /\ ws_frame_extended_len(b) = f.len
<1>1. PICK fin \in 0..1, r \in 0..7, o \in 0..15, mask \in 0..1, n \in Nat :
        /\ fin = f.fin /\ r = f.rsv /\ o = f.opcode /\ mask = f.mask
        /\ n = f.len
  BY DEF FrameType
<1>2. PICK p \in 0..127 : p = PayloadLen7(n)
  BY PayloadLen7Cases
<1>3. PICK c : c = fin * 128 + r * 16 + o
  OBVIOUS
<1>4. PICK d : d = mask * 128 + p
  OBVIOUS
<1>5. PICK b : b = <<c, d>> \o ws_frame_write_len(n)
  OBVIOUS
<1>6. c \in 0..255 /\ c \div 128 = fin /\ (c \div 16) % 8 = r /\ c % 16 = o
  <2>1. FirstByteOf(c, fin, r, o)
    BY ONLY <1>3, fin \in 0..1, r \in 0..7, o \in 0..15, FirstByte
  <2> QED
    BY ONLY <2>1 DEF FirstByteOf
<1>7. d \in 0..255 /\ d \div 128 = mask /\ d % 128 = p
  <2>1. SecondByteOf(d, mask, p)
    BY ONLY <1>4, mask \in 0..1, p \in 0..127, SecondByte
  <2> QED
    BY ONLY <2>1 DEF SecondByteOf
<1>8. Fits64(n) /\ d % 128 = PayloadLen7(n)
  BY <1>1, <1>2, <1>7
<1>9. /\ b \in Seq(0..255) /\ b[1] = c /\ b[2] = d
      /\ ws_frame_extended_len(b) = n
  <2>1. c \in 0..255 /\ d \in 0..255
    BY <1>6, <1>7
  <2>2. HeaderOf(b, c, d, n)
    BY <1>5, <1>8, <2>1, LengthRoundTrip, ZenonT(40)
  <2> QED BY <2>2 DEF HeaderOf
<1>10. HeaderBytes(f) = b
  BY <1>1, <1>2, <1>3, <1>4, <1>5 DEF HeaderBytes, CodesValue, InfoValue
<1> QED BY Zenon, <1>1, <1>2, <1>6, <1>7, <1>9, <1>10

(* What ws_frame_read_header makes of the first n bytes of a frame's header: *)
(* either too few of them, and nothing is learned, or the frame's own        *)
(* header.  A short peek is never taken for a different header.              *)
THEOREM HeaderRoundTrip ==
  ASSUME NEW f \in FrameType, Fits64(f.len), NEW n \in Nat
  PROVE  ws_frame_read_header(HeaderBytes(f), n) =
           IF n < 2 + ws_frame_payload_byte_len(PayloadLen7(f.len))
           THEN HeaderTooShort
           ELSE [err    |-> WS_FRAME_SUCCESS,
                 fin    |-> f.fin,
                 rsv    |-> f.rsv,
                 opcode |-> f.opcode,
                 mask   |-> f.mask,
                 p7     |-> PayloadLen7(f.len),
                 len    |-> f.len]
<1> DEFINE b == HeaderBytes(f)
           m == ws_frame_payload_byte_len(PayloadLen7(f.len))
<1>1. /\ b[1] \div 128 = f.fin
      /\ (b[1] \div 16) % 8 = f.rsv
      /\ b[1] % 16 = f.opcode
      /\ b[2] \div 128 = f.mask
      /\ b[2] % 128 = PayloadLen7(f.len)
      /\ ws_frame_extended_len(b) = f.len
  BY HeaderFields
<1>2. m \in Nat
  BY DEF ws_frame_payload_byte_len
<1>3. (n < 2 \/ n < 2 + ws_frame_payload_byte_len(b[2] % 128)) <=> n < 2 + m
  <2> HIDE DEF b
  <2>1. ws_frame_payload_byte_len(b[2] % 128) = m
    BY <1>1
  <2> HIDE DEF m
  <2> QED BY <1>2, <2>1
<1>4. ws_frame_read_header(b, n) =
        IF n < 2 + m THEN HeaderTooShort
        ELSE [err    |-> WS_FRAME_SUCCESS,
              fin    |-> b[1] \div 128,
              rsv    |-> (b[1] \div 16) % 8,
              opcode |-> b[1] % 16,
              mask   |-> b[2] \div 128,
              p7     |-> b[2] % 128,
              len    |-> ws_frame_extended_len(b)]
  <2> HIDE DEF b, m
  <2> QED BY <1>3 DEF ws_frame_read_header
<1> QED BY <1>1, <1>4
============================================================================
