---------------------------- MODULE ClientProofs ----------------------------
(***************************************************************************)
(* Proofs about the modules Reader and Client, for any set of frames whose *)
(* lengths fit 64 bits, any number of them, any faults of the connection   *)
(* and any number of lines the main thread writes.                         *)
(*                                                                         *)
(* The reader: messages come out as they were sent, in the call that       *)
(* consumed their last frame, and the reader implements the channel.       *)
(*                                                                         *)
(* The client: the listener never meets a pointer that is gone, and leaves *)
(* nothing behind, because it alone takes the pointer and gives the memory *)
(* back, and nothing opens a descriptor again.  The reader keeps its       *)
(* invariant inside the client, and on top of it what the loop has         *)
(* answered and given to the callback belongs to the messages it has taken *)
(* (Answers), and whatever ended the loop is one of the reasons it should  *)
(* have (Listening).                                                       *)
(***************************************************************************)
EXTENDS Client, FrameProofs, SequenceTheorems, WellFoundedInduction

(* A frame of the frame queue, and a frame of the stream. *)
Fragment == [id: Nat, opcode: 0..15]
Sent == [f: Frames, at: Nat, done: Nat, rest: Seq(Fragment)]

(* Where frame n ends in the stream. *)
EndOf(n) == IF n = 0 THEN 0 ELSE sent[n].at + WireLen(sent[n].f)

(* The header ws_frame_read_header returns for frame f. *)
Announced(f) ==
  [err    |-> WS_FRAME_SUCCESS,
   fin    |-> f.fin,
   rsv    |-> f.rsv,
   opcode |-> f.opcode,
   mask   |-> f.mask,
   p7     |-> PayloadLen7(f.len),
   len    |-> f.len]

----------------------------------------------------------------------------
(* The inductive invariant *)

(* The fragments of a message: all but the first are continuations. *)
Fragments(r) ==
  /\ r \in Seq(Fragment)
  /\ \A j \in 1..Len(r) : r[j].opcode = OPCODE_CONT <=> j > 1

(* What frame i does to the messages and to the unfinished one. *)
Linked(i) ==
  LET s == sent[i]
      r == RestAfter(i - 1)
      d == DoneAfter(i - 1)
      e == [id |-> i, opcode |-> s.f.opcode]
  IN IF s.f.opcode >= OPCODE_CLOSE
     THEN s.f.fin = 1 /\ s.rest = r /\ s.done = d + 1 /\ completed[d + 1] = PeerMsg(<<e>>)
     ELSE /\ s.f.opcode = OPCODE_CONT <=> r # <<>>
          /\ IF s.f.fin = 1
             THEN s.rest = <<>> /\ s.done = d + 1 /\ completed[d + 1] = PeerMsg(Append(r, e))
             ELSE s.rest = Append(r, e) /\ s.done = d

(* The peer's stream: its frames follow each other without a gap, and its    *)
(* messages are made of them.                                                *)
Stream ==
  /\ sent \in Seq(Sent) /\ completed \in Seq(MsgType)
  /\ open = RestAfter(Len(sent))
  /\ Len(completed) = DoneAfter(Len(sent))
  /\ total = EndOf(Len(sent))
  /\ \A i \in 1..Len(sent) :
       /\ sent[i].at = EndOf(i - 1) /\ sent[i].at < total
       /\ sent[i].done <= Len(completed)
       /\ Fragments(sent[i].rest) /\ Linked(i)
  /\ \A i, j \in 1..Len(sent) : i < j => sent[i].at < sent[j].at

(* The caller holds at most one message back, and only between               *)
(* ws_reader_handle and ws_reader_next_msg; a header it holds is a frame's.  *)
Caller ==
  /\ msg_queue # <<>> => rpc = "next"
  /\ Len(msg_queue) <= 1
  /\ ~is_open => rpc = "idle"
  /\ rpc = "read" => hdr \in [h: {Announced(f) : f \in Frames}, id: Nat]

(* Without a loss the reader stands between two frames, and what it has made *)
(* of the frames in front is what the peer meant by them.                    *)
Aligned ==
  /\ nread <= Len(sent) /\ pos = EndOf(nread)
  /\ rpc = "read" =>
       /\ nread < Len(sent)
       /\ hdr = [h |-> Announced(sent[nread + 1].f), id |-> nread + 1]
  /\ Len(delivered) + Len(msg_queue) <= Len(completed)
  /\ \A i \in 1..Len(delivered) : delivered[i] = completed[i]
  /\ \A i \in 1..Len(msg_queue) : msg_queue[i] = completed[Len(delivered) + i]
  /\ is_open =>
       /\ Len(delivered) + Len(msg_queue) = DoneAfter(nread)
       /\ frame_queue = RestAfter(nread)

ReaderInv == TypeOK /\ Stream /\ Caller /\ (~lost => Aligned)

----------------------------------------------------------------------------
(* The codec, from the reader's side *)

LEMMA FrameFacts ==
  ASSUME NEW f \in Frames
  PROVE  /\ f \in FrameType /\ Fits64(f.len)
         /\ KeyLen(f) \in {0, 4} /\ ws_frame_payload_byte_len(PayloadLen7(f.len)) \in {0, 2, 8}
         /\ WireLen(f) \in Nat /\ WireLen(f) >= 2
<1>1. f \in FrameType /\ Fits64(f.len)
  BY FramesAssumption
<1>2. KeyLen(f) \in {0, 4} /\ ws_frame_payload_byte_len(PayloadLen7(f.len)) \in {0, 2, 8}
  BY DEF KeyLen, ws_frame_payload_byte_len
<1> QED
  BY <1>1, <1>2 DEF WireLen, PayloadOffset, FrameType

(* The announced length is the length on the wire. *)
LEMMA LengthFacts ==
  ASSUME NEW f \in Frames
  PROVE  /\ msg_len(Announced(f)) = WireLen(f)
         /\ msg_len(Announced(f)) - payload_offset(Announced(f)) = KeyLen(f) + f.len
         /\ KeyLen(Announced(f)) = KeyLen(f)
<1>1. f \in FrameType /\ KeyLen(f) \in {0, 4}
      /\ ws_frame_payload_byte_len(PayloadLen7(f.len)) \in {0, 2, 8}
  BY FrameFacts
<1>2. KeyLen(Announced(f)) = KeyLen(f)
  BY DEF KeyLen, Announced
<1>3. payload_offset(Announced(f)) = 2 + ws_frame_payload_byte_len(PayloadLen7(f.len))
  BY DEF payload_offset, Announced
<1>4. Announced(f).len = f.len
  BY DEF Announced
<1> QED
  BY <1>1, <1>2, <1>3, <1>4 DEF msg_len, WireLen, PayloadOffset, FrameType

(* A header is decoded once its bytes are at hand, and not before. *)
LEMMA PeekFacts ==
  ASSUME NEW f \in Frames, NEW n \in Nat, NEW h,
         h = ws_frame_read_header(HeaderBytes(f), n)
  PROVE  /\ h.err = WS_FRAME_SUCCESS => h = Announced(f)
         /\ n >= 10 \/ n >= WireLen(f) => h.err = WS_FRAME_SUCCESS
<1>1. /\ f \in FrameType /\ Fits64(f.len) /\ KeyLen(f) \in {0, 4}
      /\ ws_frame_payload_byte_len(PayloadLen7(f.len)) \in {0, 2, 8}
  BY FrameFacts
<1>2. h = IF n < 2 + ws_frame_payload_byte_len(PayloadLen7(f.len))
          THEN HeaderTooShort ELSE Announced(f)
  BY <1>1, HeaderRoundTrip DEF Announced
<1>3. HeaderTooShort.err # WS_FRAME_SUCCESS /\ Announced(f).err = WS_FRAME_SUCCESS
  BY DEF HeaderTooShort, Announced, WS_FRAME_SUCCESS, WS_FRAME_ERROR_LEN
<1>4. WireLen(f) >= 2 + ws_frame_payload_byte_len(PayloadLen7(f.len))
  BY <1>1 DEF WireLen, PayloadOffset, FrameType
<1> QED
  BY <1>1, <1>2, <1>3, <1>4 DEF WireLen, PayloadOffset, FrameType

(* A body is refused only when it is empty. *)
LEMMA BodyFacts ==
  ASSUME NEW f \in Frames
  PROVE  Body(Announced(f)).err = WS_FRAME_SUCCESS <=> KeyLen(f) + f.len > 0
<1>1. f.len \in Nat /\ KeyLen(f) \in {0, 4} /\ Announced(f).len = f.len
  BY FrameFacts DEF Announced, FrameType
<1> QED
  BY <1>1, LengthFacts DEF Body, ws_frame_read_body, WS_FRAME_SUCCESS, WS_FRAME_ERROR_LEN

----------------------------------------------------------------------------
(* Messages *)

LEMMA FragmentsAppend ==
  ASSUME NEW r, Fragments(r), NEW e \in Fragment, e.opcode = OPCODE_CONT <=> r # <<>>
  PROVE  Fragments(Append(r, e))
<1>1. r \in Seq(Fragment)
  BY DEF Fragments
<1>2. /\ Append(r, e) \in Seq(Fragment) /\ Len(Append(r, e)) = Len(r) + 1
      /\ \A j \in 1..Len(r) : Append(r, e)[j] = r[j]
      /\ Append(r, e)[Len(r) + 1] = e
  BY <1>1, AppendProperties
<1>3. r # <<>> <=> Len(r) + 1 > 1
  BY <1>1, EmptySeq
<1> QED
  BY <1>1, <1>2, <1>3 DEF Fragments

LEMMA PeerMsgType ==
  ASSUME NEW r, r \in Seq(Fragment), r # <<>>
  PROVE  PeerMsg(r) \in MsgType
<1>1. Len(r) \in Nat /\ 1 \in 1..Len(r) /\ \A j \in 1..Len(r) : r[j] \in Fragment
  BY EmptySeq
<1>2. Bodies(r) \in Seq(Nat)
  BY <1>1 DEF Bodies, Fragment
<1> QED
  BY <1>1, <1>2 DEF PeerMsg, MsgType, Fragment

(* construct_msg_from_frames gives the message the type of its first frame. *)
LEMMA ConstructFacts ==
  ASSUME NEW r, Fragments(r), r # <<>>
  PROVE  construct_msg(r) = PeerMsg(r)
<1>1. 1 \in 1..Len(r)
  BY EmptySeq DEF Fragments
<1>2. {i \in 1..Len(r) : r[i].opcode # OPCODE_CONT} = {1}
  BY <1>1 DEF Fragments
<1>3. (CHOOSE i \in {1} : \A j \in {1} : j <= i) = 1
  OBVIOUS
<1>4. LastOpcode(r) = r[1].opcode
  BY <1>2, <1>3 DEF LastOpcode
<1> QED
  BY <1>4 DEF construct_msg, PeerMsg

(* Induction on the naturals, for a property given as a set. *)
LEMMA NatSetInduction ==
  ASSUME NEW S, 0 \in S, \A n \in Nat : n \in S => n + 1 \in S
  PROVE  Nat \subseteq S
<1> SUFFICES ASSUME Nat \ S # {} PROVE FALSE
  OBVIOUS
<1>1. PICK x \in Nat \ S : \A y \in Nat \ S : ~ (<<y, x>> \in OpToRel(<, Nat))
  <2>1. Nat \ S \subseteq Nat
    OBVIOUS
  <2> QED
    BY Zenon, <2>1, NatLessThanWellFounded, WFMin
<1>2. x # 0 /\ x - 1 \in Nat /\ x - 1 < x /\ (x - 1) + 1 = x
  OBVIOUS
<1>3. <<x - 1, x>> \in OpToRel(<, Nat)
  BY <1>2 DEF OpToRel
<1>4. x - 1 \in S
  BY Zenon, <1>1, <1>2, <1>3
<1> QED
  BY <1>2, <1>4

(* A set of positions has a last one. *)
LEMMA LastPosition ==
  ASSUME NEW n \in Nat, NEW S, S \subseteq 1..n, S # {}
  PROVE  \E i \in S : \A j \in S : j <= i
<1> DEFINE T == {n - i : i \in S}
<1>1. T \subseteq Nat /\ T # {}
  <2>1. \A i \in S : n - i \in Nat
    OBVIOUS
  <2> QED
    BY <2>1
<1>2. PICK x \in T : \A y \in T : ~ (<<y, x>> \in OpToRel(<, Nat))
  <2> HIDE DEF T
  <2> QED
    BY <1>1, NatLessThanWellFounded, WFMin
<1>3. \A y \in T : ~(y < x)
  <2>1. \A y \in T : y < x => <<y, x>> \in OpToRel(<, Nat)
    BY <1>1 DEF OpToRel
  <2> QED
    BY <1>2, <2>1
<1>4. PICK i \in S : x = n - i
  BY <1>2
<1>5. \A j \in S : ~(n - j < n - i)
  BY <1>3, <1>4
<1>6. \A j \in S : j <= i
  BY <1>5
<1> QED
  BY <1>6

LEMMA ConstructType ==
  ASSUME NEW r, r \in Seq(Fragment)
  PROVE  construct_msg(r) \in MsgType
<1>1. Len(r) \in Nat /\ \A j \in 1..Len(r) : r[j] \in Fragment
  OBVIOUS
<1>2. Bodies(r) \in Seq(Nat)
  BY <1>1 DEF Bodies, Fragment
<1>3. LastOpcode(r) \in 0..15
  <2> DEFINE named == {i \in 1..Len(r) : r[i].opcode # OPCODE_CONT}
  <2>1. CASE named = {}
    BY <2>1 DEF LastOpcode, OPCODE_CONT
  <2>2. CASE named # {}
    <3>1. \E i \in named : \A j \in named : j <= i
      BY <1>1, <2>2, LastPosition
    <3>2. (CHOOSE i \in named : \A j \in named : j <= i) \in 1..Len(r)
      BY <3>1
    <3> QED
      BY <1>1, <2>2, <3>2 DEF LastOpcode, Fragment
  <2> QED
    BY <2>1, <2>2
<1> QED
  BY <1>2, <1>3 DEF construct_msg, MsgType

----------------------------------------------------------------------------
(* The steps *)

LEMMA ReaderInitInv == Init => ReaderInv
<1> SUFFICES ASSUME Init PROVE ReaderInv
  OBVIOUS
<1>1. TypeOK /\ Caller
  <2>1. <<>> \in Seq(MsgType) /\ <<>> \in Seq(Fragment) /\ Len(<<>>) = 0
    OBVIOUS
  <2>2. fd \in BOOLEAN /\ is_open \in BOOLEAN /\ lost \in BOOLEAN
        /\ (~is_open => rpc = "idle")
    BY Zenon DEF Init
  <2>3. /\ total \in Nat /\ arrived \in 0..total /\ pos \in 0..arrived /\ nread \in Nat
        /\ \A i \in 1..Len(sent) : sent[i].f \in Frames
    BY DEF Init
  <2>4. /\ conn \in {"up", "eof", "reset", "dead"} /\ rpc \in {"idle", "peek", "read", "next"}
        /\ ret \in {"none", "true", "false"}
    BY DEF Init, NoRet
  <2>5. TypeOK
    BY Zenon, <2>1, <2>2, <2>3, <2>4 DEF Init, TypeOK, Fragment
  <2> QED
    BY <2>1, <2>2, <2>5 DEF Init, Caller
<1>2. Stream
  BY DEF Init, Stream, RestAfter, DoneAfter, EndOf
<1>3. Aligned
  BY DEF Init, Aligned, RestAfter, DoneAfter, EndOf
<1> QED
  BY <1>1, <1>2, <1>3 DEF ReaderInv

(* What the invariant says of the stream up to frame k. *)
LEMMA StreamFacts ==
  ASSUME Stream, NEW k \in 0..Len(sent)
  PROVE  /\ Fragments(RestAfter(k)) /\ DoneAfter(k) \in 0..Len(completed)
         /\ EndOf(k) \in 0..total
         /\ k < Len(sent) => sent[k + 1].at = EndOf(k) /\ EndOf(k) < total
         /\ k < Len(sent) => EndOf(k + 1) <= total
<1>1. Len(sent) \in Nat /\ Len(completed) \in Nat
      /\ \A j \in 1..Len(sent) : sent[j] \in Sent
  BY DEF Stream
<1>2. Fragments(<<>>)
  BY DEF Fragments
<1>3. \A j \in 1..Len(sent) : WireLen(sent[j].f) \in Nat /\ sent[j].at \in Nat
  BY <1>1, FrameFacts DEF Sent
<1>4. EndOf(k) \in Nat
  BY <1>3 DEF EndOf
<1>5. k < Len(sent) => sent[k + 1].at = EndOf(k) /\ EndOf(k) < total
  BY <1>1 DEF Stream
<1>6. k = Len(sent) => EndOf(k) = total
  BY DEF Stream
<1>7. k < Len(sent) => EndOf(k + 1) <= total
  <2> SUFFICES ASSUME k < Len(sent) PROVE EndOf(k + 1) <= total
    OBVIOUS
  <2>1. CASE k + 1 = Len(sent)
    BY <1>1, <1>3, <2>1 DEF Stream, EndOf
  <2>2. CASE k + 1 < Len(sent)
    <3>1. k + 2 \in 1..Len(sent)
      BY <1>1, <2>2
    <3>2. sent[k + 2].at = EndOf(k + 1) /\ sent[k + 2].at < total
      BY <3>1, <1>1 DEF Stream
    <3> QED
      BY <3>1, <3>2, <1>3, <1>1 DEF Stream, EndOf
  <2> QED
    BY <1>1, <2>1, <2>2
<1>8. total \in Nat
  BY <1>1, <1>3 DEF Stream, EndOf
<1>9. Fragments(RestAfter(k)) /\ DoneAfter(k) \in 0..Len(completed)
  BY <1>1, <1>2 DEF Stream, RestAfter, DoneAfter, Sent
<1> QED
  BY <1>1, <1>4, <1>5, <1>6, <1>7, <1>8, <1>9

(* The peer appends a frame; nothing in front of it changes. *)
LEMMA PeerSendStream ==
  ASSUME ReaderInv, NEW f \in Frames, PeerSend(f)
  PROVE  /\ Stream' /\ total' > total
         /\ Len(sent') = Len(sent) + 1
         /\ \A i \in 1..Len(sent) : sent'[i] = sent[i]
         /\ Len(completed') \in {Len(completed), Len(completed) + 1}
         /\ \A i \in 1..Len(completed) : completed'[i] = completed[i]
         /\ \A k \in 0..Len(sent) :
              RestAfter(k)' = RestAfter(k) /\ DoneAfter(k)' = DoneAfter(k) /\ EndOf(k)' = EndOf(k)
<1>0. Len(sent) \in Nat
  BY DEF ReaderInv, Stream
<1> SUFFICES ASSUME NEW n \in Nat, n = Len(sent)
             PROVE  /\ Stream' /\ total' > total
                    /\ Len(sent') = n + 1
                    /\ \A i \in 1..n : sent'[i] = sent[i]
                    /\ Len(completed') \in {Len(completed), Len(completed) + 1}
                    /\ \A i \in 1..Len(completed) : completed'[i] = completed[i]
                    /\ \A k \in 0..n : /\ RestAfter(k)' = RestAfter(k)
                                       /\ DoneAfter(k)' = DoneAfter(k)
                                       /\ EndOf(k)' = EndOf(k)
  BY <1>0
<1> DEFINE e   == [id |-> n + 1, opcode |-> f.opcode]
           fs  == Append(open, e)
           cs  == IF f.opcode >= OPCODE_CLOSE THEN Append(completed, PeerMsg(<<e>>))
                  ELSE IF f.fin = 1 THEN Append(completed, PeerMsg(fs)) ELSE completed
           now == IF f.opcode >= OPCODE_CLOSE THEN open
                  ELSE IF f.fin = 1 THEN <<>> ELSE fs
           s   == [f |-> f, at |-> total, done |-> Len(cs), rest |-> now]
<1>1. /\ MaySend(f) /\ sent' = Append(sent, s) /\ completed' = cs /\ open' = now
      /\ total' = total + WireLen(f)
  BY DEF PeerSend
<1>2. /\ Stream /\ n \in Nat /\ sent \in Seq(Sent) /\ completed \in Seq(MsgType)
      /\ Len(completed) \in Nat /\ total \in Nat /\ WireLen(f) \in Nat /\ WireLen(f) >= 2
      /\ f.opcode \in 0..15
  BY FrameFacts DEF ReaderInv, Stream, TypeOK, FrameType
<1>3. Fragments(open) /\ open = RestAfter(n) /\ Len(completed) = DoneAfter(n)
  <2>1. open = RestAfter(n) /\ Len(completed) = DoneAfter(n)
    BY <1>2 DEF Stream
  <2>2. n \in 0..Len(sent)
    BY <1>0
  <2>3. Fragments(RestAfter(n))
    BY <1>2, <2>2, StreamFacts
  <2> QED
    BY <2>1, <2>3
<1>4. e \in Fragment
  BY <1>2 DEF Fragment
<1>5. /\ f.opcode >= OPCODE_CLOSE => f.fin = 1
      /\ f.opcode < OPCODE_CLOSE => (f.opcode = OPCODE_CONT <=> open # <<>>)
  <2>1. f.opcode < OPCODE_CLOSE => ~(f.opcode >= OPCODE_CLOSE)
    BY <1>2 DEF OPCODE_CLOSE
  <2> QED
    BY <1>1, <2>1 DEF MaySend
<1>6. f.opcode < OPCODE_CLOSE => Fragments(fs)
  BY <1>3, <1>4, <1>5, FragmentsAppend
<1>7. Fragments(now)
  <2>1. Fragments(<<>>)
    BY DEF Fragments
  <2> QED
    BY <2>1, <1>2, <1>3, <1>6 DEF OPCODE_CLOSE
<1>8. PeerMsg(<<e>>) \in MsgType /\ PeerMsg(fs) \in MsgType
  <2>1. <<e>> \in Seq(Fragment) /\ <<e>> # <<>>
    BY <1>4
  <2>2. fs \in Seq(Fragment) /\ fs # <<>>
    BY <1>3, <1>4, AppendProperties DEF Fragments
  <2> HIDE DEF e, fs
  <2> QED
    BY <2>1, <2>2, PeerMsgType
<1>9. /\ cs \in Seq(MsgType) /\ Len(cs) \in {Len(completed), Len(completed) + 1}
      /\ \A i \in 1..Len(completed) : cs[i] = completed[i]
      /\ f.opcode >= OPCODE_CLOSE =>
           Len(cs) = Len(completed) + 1 /\ cs[Len(completed) + 1] = PeerMsg(<<e>>)
      /\ f.opcode < OPCODE_CLOSE /\ f.fin = 1 =>
           Len(cs) = Len(completed) + 1 /\ cs[Len(completed) + 1] = PeerMsg(fs)
      /\ f.opcode < OPCODE_CLOSE /\ f.fin # 1 => Len(cs) = Len(completed)
  <2> HIDE DEF e, fs
  <2>1. \A m \in MsgType :
          /\ Append(completed, m) \in Seq(MsgType)
          /\ Len(Append(completed, m)) = Len(completed) + 1
          /\ \A i \in 1..Len(completed) : Append(completed, m)[i] = completed[i]
          /\ Append(completed, m)[Len(completed) + 1] = m
    BY <1>2, AppendProperties
  <2> QED
    BY <1>2, <1>8, <2>1 DEF OPCODE_CLOSE
<1>10. s \in Sent
  <2> HIDE DEF e, fs, cs, now
  <2>1. now \in Seq(Fragment) /\ Len(cs) \in Nat
    BY <1>7, <1>9, <1>2 DEF Fragments
  <2> QED
    BY <1>2, <2>1 DEF Sent
<1>11. /\ sent' \in Seq(Sent) /\ Len(sent') = n + 1 /\ sent'[n + 1] = s
       /\ \A i \in 1..n : sent'[i] = sent[i]
  <2> HIDE DEF s
  <2> QED
    BY <1>1, <1>2, <1>10, AppendProperties
<1>12. \A k \in 0..n :
         RestAfter(k)' = RestAfter(k) /\ DoneAfter(k)' = DoneAfter(k) /\ EndOf(k)' = EndOf(k)
  BY <1>2, <1>11 DEF RestAfter, DoneAfter, EndOf
<1>13. ASSUME NEW i \in 1..n PROVE Linked(i)'
  <2>0. Linked(i) /\ sent[i].done <= Len(completed)
    BY Zenon, <1>2 DEF Stream
  <2>1. sent[i].done \in Nat /\ sent'[i] = sent[i]
    <3>1. sent'[i] = sent[i]
      BY Zenon, <1>11
    <3>2. sent[i] \in Sent
      BY <1>2
    <3> QED
      BY <3>1, <3>2 DEF Sent
  <2>2. RestAfter(i - 1)' = RestAfter(i - 1) /\ DoneAfter(i - 1)' = DoneAfter(i - 1)
        /\ DoneAfter(i - 1) \in Nat
    BY <1>2, <1>12, StreamFacts
  <2>3. sent[i].done = DoneAfter(i - 1) + 1
          => completed'[DoneAfter(i - 1) + 1] = completed[DoneAfter(i - 1) + 1]
    BY <1>1, <1>2, <1>9, <2>0, <2>1, <2>2
  <2> QED
    BY <2>0, <2>1, <2>2, <2>3 DEF Linked
<1>14. Linked(n + 1)'
  <2>1. /\ RestAfter(n)' = open /\ DoneAfter(n)' = Len(completed)
        /\ sent'[n + 1] = s /\ (n + 1) - 1 = n /\ completed' = cs
    BY <1>1, <1>2, <1>3, <1>11, <1>12
  <2>2. s.f = f /\ s.rest = now /\ s.done = Len(cs)
    OBVIOUS
  <2> HIDE DEF s, cs
  <2>3. CASE f.opcode >= OPCODE_CLOSE
    BY <2>1, <2>2, <2>3, <1>5, <1>9 DEF Linked
  <2>4. CASE ~(f.opcode >= OPCODE_CLOSE)
    <3>1. f.opcode < OPCODE_CLOSE
      BY <2>4, <1>2 DEF OPCODE_CLOSE
    <3> QED
      BY <2>1, <2>2, <2>4, <3>1, <1>5, <1>9 DEF Linked
  <2> QED
    BY <2>3, <2>4
<1>15. /\ open' = RestAfter(n + 1)' /\ Len(completed') = DoneAfter(n + 1)'
       /\ total' = EndOf(n + 1)'
  BY <1>1, <1>2, <1>11 DEF RestAfter, DoneAfter, EndOf
<1>16. ASSUME NEW i \in 1..(n + 1)
       PROVE  /\ sent'[i].at = EndOf(i - 1)' /\ sent'[i].at < total'
              /\ sent'[i].done <= Len(completed')
              /\ Fragments(sent'[i].rest)
              /\ Linked(i)'
  <2>1. CASE i \in 1..n
    <3>1. sent'[i] = sent[i] /\ EndOf(i - 1)' = EndOf(i - 1) /\ sent[i] \in Sent
      BY <2>1, <1>2, <1>11, <1>12
    <3>2. sent[i].at = EndOf(i - 1) /\ sent[i].at < total /\ sent[i].done <= Len(completed)
          /\ Fragments(sent[i].rest) /\ sent[i].at \in Nat /\ sent[i].done \in Nat
      BY <2>1, <1>2, <3>1 DEF Stream, Sent
    <3>3. total < total' /\ Len(completed) <= Len(completed')
          /\ total' \in Nat /\ Len(completed') \in Nat
      BY <1>1, <1>2, <1>9
    <3> QED
      BY <2>1, <3>1, <3>2, <3>3, <1>2, <1>13
  <2>2. CASE i = n + 1
    <3>1. sent'[i].at = total /\ total = EndOf(n) /\ EndOf(n)' = EndOf(n)
      BY <2>2, <1>2, <1>11, <1>12 DEF Stream
    <3>2. sent'[i].done = Len(completed') /\ sent'[i].rest = now
      BY <2>2, <1>1, <1>11
    <3>3. i - 1 = n
      BY <2>2, <1>2
    <3>4. total < total' /\ Len(completed') \in Nat
      BY <1>1, <1>2, <1>9
    <3> HIDE DEF now
    <3> QED
      BY <2>2, <3>1, <3>2, <3>3, <3>4, <1>7, <1>14
  <2> QED
    BY <1>2, <2>1, <2>2
<1>17. ASSUME NEW i \in 1..(n + 1), NEW j \in 1..(n + 1), i < j
       PROVE  sent'[i].at < sent'[j].at
  <2>1. i \in 1..n /\ sent'[i] = sent[i] /\ sent[i].at < total
    BY <1>2, <1>11, <1>17 DEF Stream
  <2>2. CASE j \in 1..n
    BY <2>1, <2>2, <1>2, <1>11, <1>17 DEF Stream
  <2>3. CASE j = n + 1
    BY <2>1, <2>3, <1>11
  <2> QED
    BY <1>2, <2>2, <2>3
<1>18. Stream'
  <2>1. Len(sent') = n + 1 /\ sent' \in Seq(Sent) /\ completed' \in Seq(MsgType)
    BY <1>1, <1>9, <1>11
  <2> QED
    BY Zenon, <2>1, <1>15, <1>16, <1>17 DEF Stream
<1> QED
  BY <1>1, <1>2, <1>9, <1>11, <1>12, <1>18

LEMMA PeerSendStep ==
  ASSUME ReaderInv, NEW f \in Frames, PeerSend(f)
  PROVE  ReaderInv'
<1>1. /\ Stream' /\ total' > total /\ Len(sent') = Len(sent) + 1
      /\ \A i \in 1..Len(sent) : sent'[i] = sent[i]
      /\ Len(completed') \in {Len(completed), Len(completed) + 1}
      /\ \A i \in 1..Len(completed) : completed'[i] = completed[i]
      /\ \A k \in 0..Len(sent) :
           RestAfter(k)' = RestAfter(k) /\ DoneAfter(k)' = DoneAfter(k) /\ EndOf(k)' = EndOf(k)
  BY PeerSendStream
<1>2. /\ arrived' \in {arrived, total'} /\ total' = total + WireLen(f) /\ WireLen(f) \in Nat
      /\ UNCHANGED <<conn, fd, pos, readerVars, ghostVars>>
  BY FrameFacts DEF PeerSend
<1>3. TypeOK /\ Stream /\ Caller /\ Len(sent) \in Nat /\ Len(completed) \in Nat
  BY DEF ReaderInv, Stream
<1>4. TypeOK'
  <2>1. total' \in Nat /\ arrived' \in 0..total' /\ pos' \in 0..arrived'
    BY <1>2, <1>3 DEF TypeOK
  <2>2. completed' \in Seq(MsgType) /\ sent' \in Seq(Sent)
    BY Zenon, <1>1 DEF Stream
  <2>3. \A i \in 1..Len(sent') : sent'[i].f \in Frames
    <3>1. \A i \in 1..Len(sent') : sent'[i] \in Sent
      BY <2>2
    <3> QED
      BY <3>1 DEF Sent
  <2> QED
    BY Zenon, <1>2, <1>3, <2>1, <2>2, <2>3 DEF TypeOK, readerVars, ghostVars
<1>5. Caller'
  BY Zenon, <1>2, <1>3 DEF Caller, readerVars
<1>6. ASSUME ~lost PROVE Aligned'
  <2>1. Aligned /\ nread \in Nat /\ delivered \in Seq(MsgType) /\ msg_queue \in Seq(MsgType)
    BY <1>3, <1>6 DEF ReaderInv, TypeOK
  <2>2. /\ nread' <= Len(sent') /\ pos' = EndOf(nread)'
        /\ DoneAfter(nread)' = DoneAfter(nread) /\ RestAfter(nread)' = RestAfter(nread)
    BY <1>1, <1>2, <1>3, <2>1 DEF Aligned, ghostVars
  <2>3. /\ sent'[nread + 1] = sent[nread + 1] \/ rpc # "read"
        /\ nread < Len(sent) => nread < Len(sent')
    BY <1>1, <1>3, <2>1 DEF Aligned
  <2>4. /\ Len(delivered) + Len(msg_queue) <= Len(completed')
        /\ \A i \in 1..Len(delivered) : delivered[i] = completed'[i]
        /\ \A i \in 1..Len(msg_queue) : msg_queue[i] = completed'[Len(delivered) + i]
    BY <1>1, <1>3, <2>1 DEF Aligned
  <2> QED
    BY Zenon, <1>2, <2>1, <2>2, <2>3, <2>4 DEF Aligned, readerVars, ghostVars
<1> QED
  BY Zenon, <1>1, <1>2, <1>4, <1>5, <1>6 DEF ReaderInv, ghostVars

(* A step that leaves the peer alone leaves the stream alone. *)
LEMMA StreamKept ==
  ASSUME Stream, UNCHANGED peerVars
  PROVE  /\ Stream'
         /\ \A k : /\ RestAfter(k)' = RestAfter(k) /\ DoneAfter(k)' = DoneAfter(k)
                   /\ EndOf(k)' = EndOf(k)
<1>1. sent' = sent /\ open' = open /\ completed' = completed /\ total' = total
  BY DEF peerVars
<1>2. \A k : /\ RestAfter(k)' = RestAfter(k) /\ DoneAfter(k)' = DoneAfter(k)
             /\ EndOf(k)' = EndOf(k)
  BY Zenon, <1>1 DEF RestAfter, DoneAfter, EndOf
<1>3. \A i : Linked(i)' = Linked(i)
  BY Zenon, <1>1, <1>2 DEF Linked
<1> QED
  BY Zenon, <1>1, <1>2, <1>3 DEF Stream

(* The network, and other threads: bytes arrive or are dropped, the          *)
(* connection or the descriptor changes.                                     *)
LEMMA NetworkStep ==
  ASSUME ReaderInv, UNCHANGED <<peerVars, pos, readerVars, ghostVars>>,
         arrived' \in pos..total, conn' \in {"up", "eof", "reset", "dead"}, fd' \in BOOLEAN
  PROVE  ReaderInv'
<1>1. Stream' /\ \A k : /\ RestAfter(k)' = RestAfter(k) /\ DoneAfter(k)' = DoneAfter(k)
                        /\ EndOf(k)' = EndOf(k)
  BY StreamKept DEF ReaderInv
<1>2. TypeOK'
  <2>1. arrived' \in 0..total' /\ pos' \in 0..arrived'
    BY DEF ReaderInv, TypeOK, peerVars
  <2> QED
    BY Zenon, <2>1 DEF ReaderInv, TypeOK, peerVars, readerVars, ghostVars
<1>3. Caller'
  BY Zenon DEF ReaderInv, Caller, readerVars
<1>4. Aligned => Aligned'
  BY Zenon, <1>1 DEF Aligned, peerVars, readerVars, ghostVars
<1> QED
  BY Zenon, <1>1, <1>2, <1>3, <1>4 DEF ReaderInv, ghostVars

(* ws_reader_handle goes on, or returns, without having consumed anything. *)
LEMMA QuietStep ==
  ASSUME ReaderInv, is_open, msg_queue = <<>>,
         UNCHANGED <<peerVars, arrived, fd, pos, frame_queue, msg_queue, is_open, ghostVars>>,
         conn' \in {"up", "eof", "reset", "dead"}, ret' \in {"none", "true", "false"},
         rpc' \in {"idle", "peek", "read", "next"},
         rpc' = "read" =>
           /\ hdr' \in [h: {Announced(f) : f \in Frames}, id: Nat]
           /\ ~lost => /\ nread < Len(sent)
                       /\ hdr' = [h |-> Announced(sent[nread + 1].f), id |-> nread + 1]
  PROVE  ReaderInv'
<1>1. Stream' /\ \A k : /\ RestAfter(k)' = RestAfter(k) /\ DoneAfter(k)' = DoneAfter(k)
                        /\ EndOf(k)' = EndOf(k)
  BY StreamKept DEF ReaderInv
<1>2. TypeOK'
  BY Zenon DEF ReaderInv, TypeOK, peerVars, ghostVars
<1>3. Caller'
  BY Zenon DEF ReaderInv, Caller
<1>4. ASSUME ~lost PROVE Aligned'
  <2>1. Aligned
    BY Zenon, <1>4 DEF ReaderInv
  <2> QED
    BY Zenon, <1>1, <1>4, <2>1 DEF Aligned, peerVars, ghostVars
<1> QED
  BY Zenon, <1>1, <1>2, <1>3, <1>4 DEF ReaderInv, ghostVars

(* Once something is lost only the types and the caller's protocol matter. *)
LEMMA LostStep ==
  ASSUME ReaderInv, UNCHANGED <<peerVars, arrived, fd, is_open, delivered>>, lost' = TRUE,
         pos' \in 0..arrived, conn' \in {"up", "eof", "reset", "dead"},
         ret' \in {"none", "true", "false"}, rpc' \in {"idle", "next"}, nread' \in Nat,
         frame_queue' \in Seq(Fragment), msg_queue' \in Seq(MsgType), Len(msg_queue') <= 1,
         msg_queue' # <<>> => rpc' = "next", is_open
  PROVE  ReaderInv'
<1>1. Stream'
  BY StreamKept DEF ReaderInv
<1>2. TypeOK'
  BY Zenon DEF ReaderInv, TypeOK, peerVars, Fragment
<1>3. rpc' # "read"
  OBVIOUS
<1>4. Caller'
  BY Zenon, <1>3 DEF ReaderInv, Caller
<1> QED
  BY Zenon, <1>1, <1>2, <1>4 DEF ReaderInv

(* What the caller knows while it reads. *)
LEMMA ReadingFacts ==
  ASSUME ReaderInv, rpc = "read"
  PROVE  /\ is_open /\ msg_queue = <<>>
         /\ \E f \in Frames : hdr.h = Announced(f) /\ hdr.id \in Nat
         /\ msg_len(hdr.h) \in Nat
         /\ Entry \in Fragment
<1>1. is_open /\ msg_queue = <<>> /\ hdr \in [h: {Announced(f) : f \in Frames}, id: Nat]
  BY Zenon DEF ReaderInv, Caller
<1>2. PICK f \in Frames : hdr.h = Announced(f) /\ hdr.id \in Nat
  BY <1>1
<1>3. msg_len(hdr.h) \in Nat
  BY <1>2, LengthFacts, FrameFacts
<1>4. hdr.h.opcode = f.opcode /\ f.opcode \in 0..15
  BY <1>2, FrameFacts DEF Announced, FrameType
<1>5. Entry \in Fragment
  BY <1>2, <1>4 DEF Entry, Fragment
<1> QED
  BY <1>1, <1>2, <1>3, <1>5

LEMMA HandleCallStep ==
  ASSUME ReaderInv, HandleCall PROVE ReaderInv'
<1>1. is_open /\ msg_queue = <<>>
  BY Zenon DEF ReaderInv, Caller, HandleCall
<1>2. /\ rpc' \in {"idle", "peek"} /\ ret' \in {"none", "true", "false"}
      /\ conn' \in {"up", "eof", "reset", "dead"}
  BY DEF ReaderInv, TypeOK, HandleCall, Return
<1>3. rpc' \in {"idle", "peek", "read", "next"} /\ rpc' # "read"
  BY <1>2
<1> QED
  BY Zenon, <1>1, <1>2, <1>3, QuietStep DEF HandleCall

(* The reader peeks at a frame, and without a loss at the next of the stream. *)
LEMMA PeekedFrame ==
  ASSUME ReaderInv, arrived > pos, NEW e \in FramesAtPos
  PROVE  /\ e.f \in Frames /\ e.id \in Nat /\ Peeked \in Nat
         /\ ~lost => /\ nread + 1 \in 1..Len(sent)
                     /\ e.f = sent[nread + 1].f /\ e.id = nread + 1
<1>1. /\ sent \in Seq(Sent) /\ Len(sent) \in Nat /\ \A i \in 1..Len(sent) : sent[i] \in Sent
      /\ arrived \in Nat /\ pos \in Nat /\ arrived <= total /\ nread \in Nat /\ total \in Nat
  BY DEF ReaderInv, Stream, TypeOK
<1>2. e.f \in Frames /\ e.id \in Nat
  <2>1. \A i \in 1..Len(sent) : sent[i].f \in Frames
    BY <1>1 DEF Sent
  <2> QED
    BY <1>1, <2>1 DEF FramesAtPos
<1>3. Peeked \in Nat
  BY <1>1 DEF Peeked, PeekMax
<1>4. ASSUME ~lost
      PROVE  nread + 1 \in 1..Len(sent) /\ e.f = sent[nread + 1].f /\ e.id = nread + 1
  <2>1. nread <= Len(sent) /\ pos = EndOf(nread)
    BY Zenon, <1>4 DEF ReaderInv, Aligned
  <2>2. nread < Len(sent)
    BY <1>1, <2>1 DEF ReaderInv, Stream
  <2>3. nread + 1 \in 1..Len(sent) /\ sent[nread + 1].at = pos
    BY <1>1, <2>1, <2>2, StreamFacts DEF ReaderInv
  <2>4. \A i, j \in 1..Len(sent) : i < j => sent[i].at < sent[j].at
    BY Zenon DEF ReaderInv, Stream
  <2>5. \A i \in 1..Len(sent) : sent[i].at \in Nat
    BY <1>1 DEF Sent
  <2>6. {i \in 1..Len(sent) : sent[i].at = pos} = {nread + 1}
    <3>1. ASSUME NEW i \in 1..Len(sent), sent[i].at = pos, i # nread + 1 PROVE FALSE
      BY <1>1, <2>3, <2>4, <2>5, <3>1
    <3> QED
      BY <2>3, <3>1
  <2> QED
    BY <2>3, <2>6 DEF FramesAtPos
<1> QED
  BY <1>2, <1>3, <1>4

LEMMA PeekHeaderStep ==
  ASSUME ReaderInv, NEW e \in FramesAtPos, PeekHeader(e) PROVE ReaderInv'
<1>1. is_open /\ msg_queue = <<>> /\ rpc = "peek" /\ arrived > pos
  BY Zenon DEF ReaderInv, Caller, PeekHeader
<1>2. e.f \in Frames /\ e.id \in Nat /\ Peeked \in Nat
  BY <1>1, PeekedFrame
<1>3. ~lost => nread < Len(sent) /\ e.f = sent[nread + 1].f /\ e.id = nread + 1
  BY <1>1, PeekedFrame DEF ReaderInv, TypeOK, Stream
<1> DEFINE h == ws_frame_read_header(HeaderBytes(e.f), Peeked)
<1>4. h.err = WS_FRAME_SUCCESS => h = Announced(e.f)
  BY <1>2, PeekFacts
<1> HIDE DEF h
<1>5. /\ IF h.err = WS_FRAME_SUCCESS
         THEN rpc' = "read" /\ hdr' = [h |-> h, id |-> e.id] /\ UNCHANGED ret
         ELSE rpc' = "idle" /\ ret' = "false"
      /\ UNCHANGED <<peerVars, arrived, conn, fd, pos, frame_queue, msg_queue, is_open, ghostVars>>
  BY DEF PeekHeader, h, Return
<1>6. /\ rpc' \in {"idle", "peek", "read", "next"} /\ ret' \in {"none", "true", "false"}
      /\ conn' \in {"up", "eof", "reset", "dead"}
  BY <1>5 DEF ReaderInv, TypeOK
<1>7. rpc' = "read" => hdr' = [h |-> Announced(e.f), id |-> e.id]
  BY <1>4, <1>5
<1>8. rpc' = "read" => hdr' \in [h: {Announced(f) : f \in Frames}, id: Nat]
  BY <1>2, <1>7
<1> QED
  BY Zenon, <1>1, <1>3, <1>5, <1>6, <1>7, <1>8, QuietStep

LEMMA PeekNothingStep ==
  ASSUME ReaderInv, PeekNothing PROVE ReaderInv'
<1>1. is_open /\ msg_queue = <<>>
  BY Zenon DEF ReaderInv, Caller, PeekNothing
<1>2. /\ rpc' \in {"idle", "next"} /\ ret' \in {"none", "true", "false"}
      /\ conn' \in {"up", "eof", "reset", "dead"}
  BY DEF ReaderInv, TypeOK, PeekNothing, Return
<1>3. rpc' \in {"idle", "peek", "read", "next"} /\ rpc' # "read"
  BY <1>2
<1> QED
  BY Zenon, <1>1, <1>2, <1>3, QuietStep DEF PeekNothing

(* A read that consumes no whole frame. *)
LEMMA ReadPartStep ==
  ASSUME ReaderInv, ReadFails \/ ReadShort PROVE ReaderInv'
<1>1. rpc = "read"
  BY DEF ReadFails, ReadShort
<1>2. is_open /\ msg_queue = <<>>
  BY <1>1, ReadingFacts
<1>3. TypeOK /\ pos \in 0..arrived /\ arrived \in 0..arrived /\ nread \in Nat
      /\ frame_queue \in Seq(Fragment)
      /\ conn \in {"up", "eof", "reset", "dead"} /\ msg_queue \in Seq(MsgType)
  BY DEF ReaderInv, TypeOK, Fragment
<1>4. CASE ReadShort
  <2>1. rpc' \in {"idle", "next"} /\ ret' \in {"none", "true", "false"}
    BY <1>4 DEF ReadShort, Return
  <2>2. Len(msg_queue) <= 1
    BY <1>2
  <2> QED
    BY Zenon, <1>2, <1>3, <1>4, <2>1, <2>2, LostStep DEF ReadShort
<1>5. CASE ReadFails
  <2>1. /\ conn' \in {"up", "eof", "reset", "dead"}
        /\ UNCHANGED <<peerVars, arrived, fd, pos, frame_queue, is_open, delivered, nread>>
    BY <1>3, <1>5 DEF ReadFails
  <2> DEFINE m == [type |-> OPCODE_CLOSE, body |-> <<>>]
  <2>2. m \in MsgType
    BY DEF MsgType, OPCODE_CLOSE
  <2> HIDE DEF m
  <2>3. \/ msg_queue' = Append(msg_queue, m) /\ Return("true") /\ lost' = TRUE
        \/ Return("false") /\ UNCHANGED <<msg_queue, lost>>
    BY <1>5 DEF ReadFails, m
  <2>4. CASE msg_queue' = Append(msg_queue, m) /\ Return("true") /\ lost' = TRUE
    <3>1. rpc' = "next" /\ ret' = "true"
      BY <2>4 DEF Return
    <3>2. msg_queue' \in Seq(MsgType) /\ Len(msg_queue') <= 1
      BY <1>2, <2>2, <2>4
    <3>3. rpc' \in {"idle", "next"} /\ ret' \in {"none", "true", "false"}
      BY <3>1
    <3> QED
      BY Zenon, <1>2, <1>3, <2>1, <2>4, <3>1, <3>2, <3>3, LostStep
  <2>5. CASE Return("false") /\ UNCHANGED <<msg_queue, lost>>
    <3>1. /\ rpc' \in {"idle", "peek", "read", "next"} /\ rpc' # "read"
          /\ ret' \in {"none", "true", "false"}
      BY <2>5 DEF Return
    <3> QED
      BY Zenon, <1>2, <2>1, <2>5, <3>1, QuietStep DEF ghostVars
  <2> QED
    BY Zenon, <2>3, <2>4, <2>5
<1> QED
  BY <1>4, <1>5

(* A whole frame moves the reader to the end of the frame. *)
LEMMA WholeFacts ==
  ASSUME ReaderInv, ~lost, ReadWhole
  PROVE  /\ nread + 1 \in 1..Len(sent) /\ nread' = nread + 1
         /\ pos' = EndOf(nread + 1) /\ pos' \in 0..arrived
         /\ hdr = [h |-> Announced(sent[nread + 1].f), id |-> nread + 1]
         /\ hdr.h.fin = sent[nread + 1].f.fin /\ hdr.h.opcode = sent[nread + 1].f.opcode
         /\ sent[nread + 1].f \in FrameType
         /\ frame_queue = RestAfter(nread) /\ Len(delivered) = DoneAfter(nread)
         /\ Fragments(RestAfter(nread)) /\ DoneAfter(nread) \in Nat
         /\ Linked(nread + 1) /\ sent[nread + 1].done <= Len(completed)
<1>1. /\ rpc = "read" /\ arrived - pos >= msg_len(hdr.h) /\ pos' = pos + msg_len(hdr.h)
      /\ nread' = nread + 1
  BY DEF ReadWhole
<1>2. is_open /\ msg_queue = <<>> /\ msg_len(hdr.h) \in Nat
  BY <1>1, ReadingFacts
<1>3. /\ sent \in Seq(Sent) /\ Len(sent) \in Nat /\ \A i \in 1..Len(sent) : sent[i] \in Sent
      /\ arrived \in Nat /\ pos \in Nat /\ nread \in Nat /\ Len(delivered) \in Nat
  BY DEF ReaderInv, Stream, TypeOK
<1>4. /\ nread < Len(sent) /\ pos = EndOf(nread)
      /\ hdr = [h |-> Announced(sent[nread + 1].f), id |-> nread + 1]
      /\ Len(delivered) + Len(msg_queue) = DoneAfter(nread) /\ frame_queue = RestAfter(nread)
  BY Zenon, <1>1, <1>2 DEF ReaderInv, Aligned
<1>5. nread + 1 \in 1..Len(sent) /\ nread \in 0..Len(sent)
  BY <1>3, <1>4
<1>6. sent[nread + 1].at = EndOf(nread) /\ Fragments(RestAfter(nread)) /\ DoneAfter(nread) \in Nat
  BY <1>4, <1>5, StreamFacts DEF ReaderInv
<1>7. Linked(nread + 1) /\ sent[nread + 1].done <= Len(completed)
  BY Zenon, <1>5 DEF ReaderInv, Stream
<1>8. sent[nread + 1].f \in Frames
  BY <1>3, <1>5 DEF Sent
<1>9. msg_len(hdr.h) = WireLen(sent[nread + 1].f)
  BY <1>4, <1>8, LengthFacts
<1>10. pos' = EndOf(nread + 1) /\ pos' \in 0..arrived
  BY <1>1, <1>2, <1>3, <1>4, <1>6, <1>9 DEF EndOf
<1>11. Len(delivered) = DoneAfter(nread)
  BY <1>2, <1>3, <1>4, <1>6
<1>12. hdr.h.fin = sent[nread + 1].f.fin /\ hdr.h.opcode = sent[nread + 1].f.opcode
  BY <1>4 DEF Announced
<1> QED
  BY <1>1, <1>4, <1>5, <1>6, <1>7, <1>8, <1>10, <1>11, <1>12, FrameFacts

(* What it then made of the frame is what the peer meant by it. *)
LEMMA AlignStep ==
  ASSUME ReaderInv, ~lost, ReadWhole, UNCHANGED lost, Return("true"),
         frame_queue' = sent[nread + 1].rest,
         \/ msg_queue' = <<>> /\ sent[nread + 1].done = DoneAfter(nread)
         \/ /\ msg_queue' = <<completed[DoneAfter(nread) + 1]>>
            /\ sent[nread + 1].done = DoneAfter(nread) + 1
  PROVE  ReaderInv'
<1>1. /\ nread + 1 \in 1..Len(sent) /\ nread' = nread + 1
      /\ pos' = EndOf(nread + 1) /\ pos' \in 0..arrived
      /\ Len(delivered) = DoneAfter(nread) /\ DoneAfter(nread) \in Nat
      /\ sent[nread + 1].done <= Len(completed)
  BY WholeFacts
<1>2. /\ UNCHANGED <<peerVars, arrived, conn, fd, is_open, got, delivered, lost>>
      /\ rpc = "read" /\ rpc' = "next" /\ ret' = "true"
  BY DEF ReadWhole, Return
<1>3. /\ Stream /\ nread \in Nat /\ Len(completed) \in Nat
      /\ completed \in Seq(MsgType) /\ delivered \in Seq(MsgType)
  BY DEF ReaderInv, Stream, TypeOK
<1>4. Stream' /\ \A k : /\ RestAfter(k)' = RestAfter(k) /\ DoneAfter(k)' = DoneAfter(k)
                        /\ EndOf(k)' = EndOf(k)
  BY <1>2, <1>3, StreamKept
<1>5. frame_queue' \in Seq(Fragment) /\ frame_queue' = RestAfter(nread + 1)
  <2>1. Fragments(RestAfter(nread + 1))
    BY <1>1, <1>3, StreamFacts
  <2>2. nread + 1 # 0
    BY <1>3
  <2> QED
    BY Zenon, <2>1, <2>2 DEF RestAfter, Fragments
<1>6. /\ msg_queue' \in Seq(MsgType) /\ Len(msg_queue') <= 1 /\ Len(msg_queue') \in Nat
      /\ Len(delivered) + Len(msg_queue') = sent[nread + 1].done
      /\ \A i \in 1..Len(msg_queue') : msg_queue'[i] = completed[Len(delivered) + i]
  <2>1. CASE msg_queue' = <<>> /\ sent[nread + 1].done = DoneAfter(nread)
    BY <1>1, <1>3, <2>1
  <2>2. CASE /\ msg_queue' = <<completed[DoneAfter(nread) + 1]>>
             /\ sent[nread + 1].done = DoneAfter(nread) + 1
    <3>1. completed[DoneAfter(nread) + 1] \in MsgType
      BY <1>1, <1>3, <2>2
    <3> QED
      BY <1>1, <2>2, <3>1
  <2> QED
    BY <2>1, <2>2
<1>7. TypeOK'
  <2>1. nread' \in Nat /\ rpc' \in {"idle", "peek", "read", "next"} /\ ret' \in {"none", "true", "false"}
    BY <1>1, <1>2, <1>3
  <2> QED
    BY Zenon, <1>1, <1>2, <1>5, <1>6, <2>1 DEF ReaderInv, TypeOK, peerVars, Fragment
<1>8. rpc' # "read"
  BY <1>2
<1>9. Caller'
  BY Zenon, <1>2, <1>6, <1>8 DEF ReaderInv, Caller
<1>10. Aligned'
  <2>1. Aligned
    BY Zenon DEF ReaderInv
  <2>2. \A i \in 1..Len(delivered) : delivered[i] = completed[i]
    BY Zenon, <2>1 DEF Aligned
  <2>3. nread + 1 <= Len(sent) /\ nread + 1 # 0
    BY <1>1, <1>3
  <2>4. DoneAfter(nread + 1) = sent[nread + 1].done
    BY <2>3 DEF DoneAfter
  <2> QED
    BY Zenon, <1>1, <1>2, <1>4, <1>5, <1>6, <1>8, <2>2, <2>3, <2>4 DEF Aligned, peerVars
<1> QED
  BY Zenon, <1>4, <1>7, <1>9, <1>10 DEF ReaderInv

(* A whole frame is read when something has been lost, or will be. *)
LEMMA ReadLossyStep ==
  ASSUME ReaderInv, ReadWhole, lost' = TRUE, rpc' \in {"idle", "next"}, ret' \in {"true", "false"},
         frame_queue' \in Seq(Fragment),
         msg_queue' = <<>> \/ (rpc' = "next" /\ \E m \in MsgType : msg_queue' = <<m>>)
  PROVE  ReaderInv'
<1>1. is_open /\ msg_len(hdr.h) \in Nat
  BY ReadingFacts DEF ReadWhole
<1>2. /\ pos' \in 0..arrived /\ nread' \in Nat
      /\ conn' \in {"up", "eof", "reset", "dead"} /\ ret' \in {"none", "true", "false"}
  BY <1>1 DEF ReadWhole, ReaderInv, TypeOK
<1>3. msg_queue' \in Seq(MsgType) /\ Len(msg_queue') <= 1 /\ (msg_queue' # <<>> => rpc' = "next")
  <2>1. CASE msg_queue' = <<>>
    BY <2>1
  <2>2. ASSUME rpc' = "next", NEW m \in MsgType, msg_queue' = <<m>>
        PROVE  msg_queue' \in Seq(MsgType) /\ Len(msg_queue') <= 1
    BY <2>2
  <2> QED
    BY <2>1, <2>2
<1> QED
  BY Zenon, <1>1, <1>2, <1>3, LostStep DEF ReadWhole

LEMMA ReadControlStep ==
  ASSUME ReaderInv, ReadControl PROVE ReaderInv'
<1>1. /\ ReadWhole /\ hdr.h.fin = 1 /\ hdr.h.opcode >= OPCODE_CLOSE /\ UNCHANGED lost
      /\ msg_queue' = Append(msg_queue, [type |-> hdr.h.opcode, body |-> <<hdr.id>>])
      /\ Return("true") /\ frame_queue' = frame_queue /\ rpc = "read"
  BY DEF ReadControl, ReadWhole
<1>2. msg_queue = <<>> /\ Entry \in Fragment
  BY <1>1, ReadingFacts
<1>3. CASE lost
  <2>1. [type |-> hdr.h.opcode, body |-> <<hdr.id>>] \in MsgType
    BY <1>2 DEF Entry, Fragment, MsgType
  <2>2. \E m \in MsgType : msg_queue' = <<m>>
    BY <1>1, <1>2, <2>1
  <2>3. rpc' = "next" /\ rpc' \in {"idle", "next"} /\ ret' \in {"true", "false"}
    BY <1>1 DEF Return
  <2>4. frame_queue' \in Seq(Fragment) /\ lost' = TRUE
    BY Zenon, <1>1, <1>3 DEF ReaderInv, TypeOK, Fragment
  <2> QED
    BY Zenon, <1>1, <2>2, <2>3, <2>4, ReadLossyStep
<1>4. CASE ~lost
  <2> DEFINE s == sent[nread + 1]
             e == [id |-> nread + 1, opcode |-> s.f.opcode]
  <2>1. /\ hdr.id = nread + 1 /\ hdr.h.opcode = s.f.opcode
        /\ Linked(nread + 1) /\ frame_queue = RestAfter(nread) /\ nread \in Nat
    BY <1>1, <1>4, WholeFacts DEF ReaderInv, TypeOK
  <2>2. (nread + 1) - 1 = nread
    BY <2>1
  <2>3. /\ s.rest = RestAfter(nread) /\ s.done = DoneAfter(nread) + 1
        /\ completed[DoneAfter(nread) + 1] = PeerMsg(<<e>>)
    BY Zenon, <1>1, <2>1, <2>2 DEF Linked
  <2>4. PeerMsg(<<e>>) = [type |-> hdr.h.opcode, body |-> <<hdr.id>>]
    <3>1. <<e>>[1] = e /\ Len(<<e>>) = 1
      OBVIOUS
    <3>2. Bodies(<<e>>) = <<nread + 1>>
      BY <3>1 DEF Bodies
    <3> QED
      BY <2>1, <3>1, <3>2 DEF PeerMsg
  <2>5. msg_queue' = <<completed[DoneAfter(nread) + 1]>>
    BY <1>1, <1>2, <2>3, <2>4
  <2> HIDE DEF e
  <2> QED
    BY Zenon, <1>1, <1>4, <2>1, <2>3, <2>5, AlignStep
<1> QED
  BY <1>3, <1>4

LEMMA ReadLastStep ==
  ASSUME ReaderInv, ReadLast PROVE ReaderInv'
<1>1. /\ ReadWhole /\ hdr.h.fin = 1 /\ hdr.h.opcode < OPCODE_CLOSE /\ UNCHANGED lost
      /\ msg_queue' = Append(msg_queue, construct_msg(Append(frame_queue, Entry)))
      /\ Return("true") /\ frame_queue' = <<>> /\ rpc = "read"
  BY DEF ReadLast, ReadWhole
<1>2. msg_queue = <<>> /\ Entry \in Fragment /\ frame_queue \in Seq(Fragment)
  BY <1>1, ReadingFacts DEF ReaderInv, TypeOK, Fragment
<1>3. CASE lost
  <2>1. construct_msg(Append(frame_queue, Entry)) \in MsgType
    BY <1>2, ConstructType, AppendProperties
  <2>2. \E m \in MsgType : msg_queue' = <<m>>
    BY <1>1, <1>2, <2>1
  <2>3. rpc' = "next" /\ rpc' \in {"idle", "next"} /\ ret' \in {"true", "false"}
    BY <1>1 DEF Return
  <2>4. frame_queue' \in Seq(Fragment) /\ lost' = TRUE
    BY <1>1, <1>3
  <2> QED
    BY Zenon, <1>1, <2>2, <2>3, <2>4, ReadLossyStep
<1>4. CASE ~lost
  <2> DEFINE s == sent[nread + 1]
             e == [id |-> nread + 1, opcode |-> s.f.opcode]
             r == RestAfter(nread)
  <2>1. /\ hdr.id = nread + 1 /\ hdr.h.opcode = s.f.opcode /\ hdr.h.fin = s.f.fin
        /\ Linked(nread + 1) /\ frame_queue = r /\ Fragments(r) /\ nread \in Nat
        /\ s.f \in FrameType
    BY <1>1, <1>4, WholeFacts DEF ReaderInv, TypeOK
  <2>2. (nread + 1) - 1 = nread /\ ~(s.f.opcode >= OPCODE_CLOSE)
    <3>1. s.f.opcode < OPCODE_CLOSE /\ nread \in Nat
      BY Zenon, <1>1, <2>1
    <3>2. s.f.opcode \in 0..15
      BY ONLY <2>1 DEF FrameType
    <3> QED
      BY ONLY <3>1, <3>2 DEF OPCODE_CLOSE
  <2>3. /\ s.f.opcode = OPCODE_CONT <=> r # <<>>
        /\ s.rest = <<>> /\ s.done = DoneAfter(nread) + 1
        /\ completed[DoneAfter(nread) + 1] = PeerMsg(Append(r, e))
    BY Zenon, <1>1, <2>1, <2>2 DEF Linked
  <2>4. Entry = e /\ e.opcode = s.f.opcode
    BY <2>1 DEF Entry
  <2> HIDE DEF e, r, s
  <2>5. Fragments(Append(r, e)) /\ Append(r, e) # <<>>
    <3>1. Fragments(Append(r, e))
      BY <1>2, <2>1, <2>3, <2>4, FragmentsAppend
    <3>2. Append(r, e) # <<>>
      BY <1>2, <2>1, <2>4, AppendProperties
    <3> QED
      BY <3>1, <3>2
  <2>6. construct_msg(Append(frame_queue, Entry)) = PeerMsg(Append(r, e))
    BY <2>1, <2>4, <2>5, ConstructFacts
  <2>7. msg_queue' = <<completed[DoneAfter(nread) + 1]>>
    BY <1>1, <1>2, <2>3, <2>6
  <2> QED
    BY Zenon, <1>1, <1>4, <2>1, <2>3, <2>7, AlignStep DEF s
<1> QED
  BY <1>3, <1>4

LEMMA ReadFragmentStep ==
  ASSUME ReaderInv, ReadFragment PROVE ReaderInv'
<1>1. /\ ReadWhole /\ hdr.h.fin = 0 /\ UNCHANGED <<msg_queue, lost>>
      /\ Return("true") /\ frame_queue' = Append(frame_queue, Entry) /\ rpc = "read"
  BY DEF ReadFragment, ReadWhole
<1>2. msg_queue = <<>> /\ Entry \in Fragment /\ frame_queue \in Seq(Fragment)
  BY <1>1, ReadingFacts DEF ReaderInv, TypeOK, Fragment
<1>3. CASE lost
  <2>1. rpc' \in {"idle", "next"} /\ ret' \in {"true", "false"}
    BY <1>1 DEF Return
  <2>2. frame_queue' \in Seq(Fragment)
    BY <1>1, <1>2
  <2>3. lost' = TRUE
    BY <1>1, <1>3
  <2>4. msg_queue' = <<>> \/ (rpc' = "next" /\ \E m \in MsgType : msg_queue' = <<m>>)
    <3>1. msg_queue' = <<>>
      BY <1>1, <1>2
    <3> QED
      BY Zenon, <3>1
  <2> QED
    BY <1>1, <2>1, <2>2, <2>3, <2>4, ReadLossyStep
<1>4. CASE ~lost
  <2> DEFINE s == sent[nread + 1]
             e == [id |-> nread + 1, opcode |-> s.f.opcode]
             r == RestAfter(nread)
  <2>1. /\ hdr.id = nread + 1 /\ hdr.h.opcode = s.f.opcode /\ hdr.h.fin = s.f.fin
        /\ Linked(nread + 1) /\ frame_queue = r /\ nread \in Nat
    BY <1>1, <1>4, WholeFacts DEF ReaderInv, TypeOK
  <2>2. (nread + 1) - 1 = nread /\ s.f.fin # 1
    BY <1>1, <2>1
  <2>3. s.rest = Append(r, e) /\ s.done = DoneAfter(nread)
    BY Zenon, <1>1, <2>1, <2>2 DEF Linked
  <2>4. Entry = e
    BY <2>1 DEF Entry
  <2> HIDE DEF e, r
  <2> QED
    BY Zenon, <1>1, <1>2, <1>4, <2>1, <2>3, <2>4, AlignStep
<1> QED
  BY <1>3, <1>4

LEMMA ReadGoneStep ==
  ASSUME ReaderInv, ReadBodyFails \/ PushFails \/ ConstructFails PROVE ReaderInv'
<1>1. /\ ReadWhole /\ lost' = TRUE /\ msg_queue' = msg_queue /\ rpc = "read"
      /\ rpc' \in {"idle", "next"} /\ ret' \in {"true", "false"}
  BY DEF ReadBodyFails, PushFails, ConstructFails, ReadWhole, Return
<1>2. msg_queue = <<>> /\ Entry \in Fragment /\ frame_queue \in Seq(Fragment)
  BY <1>1, ReadingFacts DEF ReaderInv, TypeOK, Fragment
<1>3. frame_queue' \in Seq(Fragment)
  <2>1. CASE ReadBodyFails \/ PushFails
    BY <1>2, <2>1 DEF ReadBodyFails, PushFails
  <2>2. CASE ConstructFails
    <3> DEFINE fs == Append(frame_queue, Entry)
    <3>1. fs \in Seq(Fragment) /\ Len(fs) \in Nat
      BY <1>2
    <3>2. PICK k \in 0..Len(fs) : frame_queue' = SubSeq(fs, k + 1, Len(fs))
      BY <2>2 DEF ConstructFails
    <3> HIDE DEF fs
    <3>3. \A i \in (k + 1)..Len(fs) : fs[i] \in Fragment
      BY <3>1
    <3> QED
      BY <3>1, <3>2, <3>3, SubSeqProperties
  <2> QED
    BY <2>1, <2>2
<1>4. msg_queue' = <<>> \/ (rpc' = "next" /\ \E m \in MsgType : msg_queue' = <<m>>)
  <2>1. msg_queue' = <<>>
    BY <1>1, <1>2
  <2> QED
    BY Zenon, <2>1
<1> QED
  BY <1>1, <1>3, <1>4, ReadLossyStep

LEMMA AtMostOne ==
  ASSUME NEW n \in Nat, n <= 1 PROVE n = 0 \/ n = 1
OBVIOUS

LEMMA NextMsgStep ==
  ASSUME ReaderInv, NextMsg PROVE ReaderInv'
<1>1. /\ rpc = "next" /\ rpc' = "idle" /\ is_open
      /\ UNCHANGED <<peerVars, arrived, conn, fd, pos, frame_queue, is_open, hdr, ret, nread, lost>>
  BY DEF NextMsg
<1>2. /\ Stream /\ delivered \in Seq(MsgType) /\ msg_queue \in Seq(MsgType) /\ Len(msg_queue) <= 1
      /\ Len(msg_queue) \in Nat /\ Len(delivered) \in Nat /\ completed \in Seq(MsgType)
  BY DEF ReaderInv, TypeOK, Caller
<1>3. Stream' /\ \A k : /\ RestAfter(k)' = RestAfter(k) /\ DoneAfter(k)' = DoneAfter(k)
                        /\ EndOf(k)' = EndOf(k)
  BY <1>1, <1>2, StreamKept
<1>4. /\ msg_queue' = <<>> /\ delivered' \in Seq(MsgType)
      /\ Len(delivered') = Len(delivered) + Len(msg_queue)
      /\ \A i \in 1..Len(delivered) : delivered'[i] = delivered[i]
      /\ Len(msg_queue) = 1 => delivered'[Len(delivered) + 1] = msg_queue[1]
  <2>1. CASE msg_queue = <<>>
    BY <1>2, <2>1 DEF NextMsg
  <2>2. CASE msg_queue # <<>>
    <3>0. Len(msg_queue) = 1
      <4>1. Len(msg_queue) # 0
        BY <1>2, <2>2, EmptySeq
      <4> QED
        BY Zenon, <1>2, <4>1, AtMostOne
    <3>1. Len(msg_queue) = 1 /\ Head(msg_queue) = msg_queue[1] /\ Head(msg_queue) \in MsgType
      BY <1>2, <2>2, <3>0, HeadTailProperties
    <3>2. msg_queue' = Tail(msg_queue) /\ delivered' = Append(delivered, Head(msg_queue))
      BY <2>2 DEF NextMsg
    <3>3. Tail(msg_queue) = <<>>
      <4>1. Tail(msg_queue) \in Seq(MsgType) /\ Len(Tail(msg_queue)) = 0
        BY <1>2, <2>2, <3>0, HeadTailProperties
      <4> QED
        BY <4>1, EmptySeq
    <3> QED
      BY <1>2, <3>1, <3>2, <3>3, AppendProperties
  <2> QED
    BY <2>1, <2>2
<1>5. rpc' \in {"idle", "peek", "read", "next"} /\ rpc' # "read" /\ msg_queue' \in Seq(MsgType)
      /\ Len(msg_queue') = 0 /\ Len(msg_queue') <= 1
  BY <1>1, <1>4
<1>6. TypeOK'
  BY Zenon, <1>1, <1>4, <1>5 DEF ReaderInv, TypeOK, peerVars
<1>7. Caller'
  BY Zenon, <1>1, <1>4, <1>5 DEF ReaderInv, Caller
<1>8. ASSUME ~lost PROVE Aligned'
  <2>1. Aligned
    BY Zenon, <1>8 DEF ReaderInv
  <2>2. /\ Len(delivered') + Len(msg_queue') = Len(delivered) + Len(msg_queue)
        /\ \A i \in 1..Len(msg_queue') : msg_queue'[i] = completed[Len(delivered') + i]
    BY <1>2, <1>4, <1>5
  <2>3. ASSUME NEW i \in 1..Len(delivered') PROVE delivered'[i] = completed[i]
    <3>1. CASE i \in 1..Len(delivered)
      BY <1>4, <2>1, <3>1 DEF Aligned
    <3>2. CASE i = Len(delivered) + 1 /\ Len(msg_queue) = 1
      <4>1. msg_queue[1] = completed[Len(delivered) + 1]
        BY <2>1, <3>2 DEF Aligned
      <4> QED
        BY <1>4, <3>2, <4>1
    <3>3. Len(msg_queue) = 0 \/ Len(msg_queue) = 1
      BY Zenon, <1>2, AtMostOne
    <3>4. i \in 1..(Len(delivered) + Len(msg_queue))
      BY <1>4
    <3>5. i \in 1..Len(delivered) \/ (i = Len(delivered) + 1 /\ Len(msg_queue) = 1)
      BY <1>2, <3>3, <3>4
    <3> QED
      BY <3>1, <3>2, <3>5
  <2> QED
    BY Zenon, <1>1, <1>3, <1>5, <2>1, <2>2, <2>3 DEF Aligned, peerVars
<1> QED
  BY Zenon, <1>1, <1>3, <1>6, <1>7, <1>8 DEF ReaderInv

LEMMA DestroyStep ==
  ASSUME ReaderInv, Destroy PROVE ReaderInv'
<1>1. /\ rpc = "idle" /\ is_open' = FALSE /\ frame_queue' = <<>> /\ msg_queue' = <<>>
      /\ UNCHANGED <<peerVars, arrived, conn, fd, pos, rpc, hdr, ret, got, ghostVars>>
  BY DEF Destroy
<1>2. msg_queue = <<>>
  BY Zenon, <1>1 DEF ReaderInv, Caller
<1>3. Stream' /\ \A k : /\ RestAfter(k)' = RestAfter(k) /\ DoneAfter(k)' = DoneAfter(k)
                        /\ EndOf(k)' = EndOf(k)
  BY <1>1, StreamKept DEF ReaderInv
<1>4. /\ <<>> \in Seq(Fragment) /\ <<>> \in Seq(MsgType) /\ Len(<<>>) <= 1
      /\ rpc # "read"
  BY <1>1
<1>5. TypeOK'
  BY Zenon, <1>1, <1>4 DEF ReaderInv, TypeOK, peerVars, ghostVars, Fragment
<1>6. Caller'
  BY Zenon, <1>1, <1>4 DEF ReaderInv, Caller
<1>7. Aligned => Aligned'
  BY Zenon, <1>1, <1>2, <1>3, <1>4 DEF Aligned, peerVars, ghostVars
<1> QED
  BY Zenon, <1>1, <1>3, <1>5, <1>6, <1>7 DEF ReaderInv, ghostVars

LEMMA ReaderStepInv ==
  ASSUME ReaderInv, ReaderStep PROVE ReaderInv'
<1>1. CASE HandleCall
  BY <1>1, HandleCallStep
<1>2. ASSUME NEW e \in FramesAtPos, PeekHeader(e) PROVE ReaderInv'
  BY <1>2, PeekHeaderStep
<1>3. CASE PeekNothing
  BY <1>3, PeekNothingStep
<1>4. CASE ReadReturns
  <2>1. CASE ReadFails \/ ReadShort
    BY <2>1, ReadPartStep
  <2>2. CASE ReadBodyFails \/ PushFails \/ ConstructFails
    BY <2>2, ReadGoneStep
  <2> QED
    BY <1>4, <2>1, <2>2, ReadControlStep, ReadLastStep, ReadFragmentStep DEF ReadReturns
<1>5. CASE NextMsg
  BY <1>5, NextMsgStep
<1> QED
  BY <1>1, <1>2, <1>3, <1>4, <1>5 DEF ReaderStep

LEMMA ReaderNextInv ==
  ASSUME ReaderInv, [Next]_vars PROVE ReaderInv'
<1>1. ASSUME NEW f \in Frames, PeerSend(f) PROVE ReaderInv'
  BY <1>1, PeerSendStep
<1>2. /\ total \in Nat /\ arrived \in 0..total /\ pos \in 0..arrived /\ arrived \in pos..total
      /\ conn \in {"up", "eof", "reset", "dead"} /\ fd \in BOOLEAN
  BY DEF ReaderInv, TypeOK
<1>3. ASSUME NEW n \in 1..(total - arrived), Arrive(n) PROVE ReaderInv'
  <2>1. arrived' \in pos..total
    BY <1>2, <1>3 DEF Arrive
  <2> QED
    BY Zenon, <1>2, <1>3, <2>1, NetworkStep DEF Arrive
<1>4. CASE PeerClose
  <2>1. conn' \in {"up", "eof", "reset", "dead"}
    BY <1>4 DEF PeerClose
  <2> QED
    BY Zenon, <1>2, <1>4, <2>1, NetworkStep DEF PeerClose
<1>5. CASE Reset
  <2>1. conn' \in {"up", "eof", "reset", "dead"} /\ arrived' \in pos..total
    BY <1>2, <1>5 DEF Reset
  <2> QED
    BY Zenon, <1>2, <1>5, <2>1, NetworkStep DEF Reset
<1>6. CASE CloseFd
  <2>1. fd' \in BOOLEAN
    BY Zenon, <1>6 DEF CloseFd
  <2> QED
    BY Zenon, <1>2, <1>6, <2>1, NetworkStep DEF CloseFd
<1>7. CASE UNCHANGED vars
  BY Zenon, <1>2, <1>7, NetworkStep DEF vars
<1> QED
  BY <1>1, <1>3, <1>4, <1>5, <1>6, <1>7, ReaderStepInv, DestroyStep DEF Next

LEMMA ReaderInvariance == Spec => []ReaderInv
<1>1. Init => ReaderInv
  BY ReaderInitInv
<1>2. ReaderInv /\ [Next]_vars => ReaderInv'
  BY ReaderNextInv
<1> QED
  BY <1>1, <1>2, PTL DEF Spec

----------------------------------------------------------------------------
(* What follows from the invariant *)

LEMMA PrefixByIndex ==
  ASSUME NEW S, NEW s \in Seq(S), NEW t \in Seq(S), Len(s) <= Len(t),
         \A i \in 1..Len(s) : s[i] = t[i]
  PROVE  IsPrefix(s, t)
<1>1. /\ SubSeq(s, 1, Len(s)) \in Seq(S) /\ Len(SubSeq(s, 1, Len(s))) = Len(s)
      /\ \A i \in 1..Len(s) : SubSeq(s, 1, Len(s))[i] = s[i]
  OBVIOUS
<1>2. /\ SubSeq(t, 1, Len(s)) \in Seq(S) /\ Len(SubSeq(t, 1, Len(s))) = Len(s)
      /\ \A i \in 1..Len(s) : SubSeq(t, 1, Len(s))[i] = t[i]
  OBVIOUS
<1>3. SubSeq(s, 1, Len(s)) = SubSeq(t, 1, Len(s))
  BY <1>1, <1>2, SeqEqual
<1> QED
  BY <1>3 DEF IsPrefix

(* Type correctness, bounds of the stream positions included. *)
THEOREM ReaderTypeCorrect == Spec => []TypeOK
<1>1. ReaderInv => TypeOK
  BY DEF ReaderInv
<1> QED
  BY <1>1, ReaderInvariance, PTL

LEMMA ReaderInvIntegrity == ReaderInv => Integrity
<1> SUFFICES ASSUME ReaderInv, ~lost PROVE IsPrefix(Handed, completed)
  BY DEF Integrity
<1>1. /\ delivered \in Seq(MsgType) /\ msg_queue \in Seq(MsgType) /\ completed \in Seq(MsgType)
      /\ Aligned
  BY DEF ReaderInv, TypeOK
<1>2. /\ Handed \in Seq(MsgType) /\ Len(Handed) = Len(delivered) + Len(msg_queue)
      /\ \A i \in 1..Len(Handed) :
           Handed[i] = IF i <= Len(delivered) THEN delivered[i] ELSE msg_queue[i - Len(delivered)]
  BY <1>1, ConcatProperties DEF Handed
<1>3. ASSUME NEW i \in 1..Len(Handed) PROVE Handed[i] = completed[i]
  <2>1. CASE i <= Len(delivered)
    BY <1>1, <1>2, <2>1 DEF Aligned
  <2>2. CASE ~(i <= Len(delivered))
    <3>1. i - Len(delivered) \in 1..Len(msg_queue) /\ Len(delivered) + (i - Len(delivered)) = i
      BY <1>1, <1>2, <2>2
    <3> QED
      BY <1>1, <1>2, <2>2, <3>1 DEF Aligned
  <2> QED
    BY <2>1, <2>2
<1>4. Len(Handed) <= Len(completed)
  BY <1>1, <1>2 DEF Aligned
<1> QED
  BY <1>1, <1>2, <1>3, <1>4, PrefixByIndex

(* As long as nothing was lost, the messages handed over are the first ones  *)
(* the peer finished, in order, whole and with their types, whatever the     *)
(* fragmentation, the segmentation and the faults.                           *)
THEOREM IntegrityCorrect == Spec => []Integrity
<1>1. ReaderInv => Integrity
  BY ReaderInvIntegrity
<1> QED
  BY <1>1, ReaderInvariance, PTL

(* Between two calls nothing waits in the reader but the fragments of a      *)
(* message the peer has not finished.                                        *)
THEOREM NoBacklogCorrect == Spec => []NoBacklog
<1>1. ReaderInv => NoBacklog
  <2> SUFFICES ASSUME ReaderInv, rpc = "idle", is_open, ~lost
               PROVE  /\ msg_queue = <<>> /\ Len(delivered) = DoneAfter(nread)
                      /\ frame_queue = RestAfter(nread)
    BY DEF NoBacklog
  <2>1. msg_queue = <<>>
    BY Zenon DEF ReaderInv, Caller
  <2>2. /\ Len(delivered) + Len(msg_queue) = DoneAfter(nread)
        /\ frame_queue = RestAfter(nread) /\ nread \in 0..Len(sent)
    <3>1. Aligned /\ TypeOK
      BY Zenon DEF ReaderInv
    <3>2. nread \in 0..Len(sent)
      BY <3>1 DEF ReaderInv, Stream, TypeOK, Aligned
    <3> QED
      BY Zenon, <3>1, <3>2 DEF Aligned
  <2>3. Len(delivered) \in Nat /\ DoneAfter(nread) \in Nat
    BY <2>2, StreamFacts DEF ReaderInv, TypeOK
  <2> QED
    BY <2>1, <2>2, <2>3
<1> QED
  BY <1>1, ReaderInvariance, PTL

----------------------------------------------------------------------------
(* What a step may do *)

LossStep == ReadFails \/ ReadShort \/ ReadBodyFails \/ PushFails \/ ConstructFails

(* Only a read loses anything; only the peer finishes a message, and only    *)
(* ws_reader_next_msg hands one over.                                        *)
LEMMA StepKinds ==
  ASSUME [Next]_vars
  PROVE  \/ \E f \in Frames : PeerSend(f)
         \/ NextMsg
         \/ LossStep /\ UNCHANGED <<peerVars, delivered>>
         \/ UNCHANGED <<peerVars, ghostVars>>
         \/ UNCHANGED <<peerVars, delivered, lost>>
<1>1. CASE LossStep
  BY <1>1 DEF LossStep, ReadFails, ReadShort, ReadBodyFails, PushFails, ConstructFails, ReadWhole
<1>2. CASE ReadControl \/ ReadLast \/ ReadFragment
  BY <1>2 DEF ReadControl, ReadLast, ReadFragment, ReadWhole
<1>3. CASE HandleCall \/ (\E e \in FramesAtPos : PeekHeader(e)) \/ PeekNothing \/ Destroy
  BY <1>3 DEF HandleCall, PeekHeader, PeekNothing, Destroy
<1>4. CASE (\E n \in 1..(total - arrived) : Arrive(n)) \/ PeerClose \/ Reset \/ CloseFd
  BY <1>4 DEF Arrive, PeerClose, Reset, CloseFd
<1>5. CASE UNCHANGED vars
  BY <1>5 DEF vars
<1> QED
  BY <1>1, <1>2, <1>3, <1>4, <1>5 DEF Next, ReaderStep, ReadReturns, LossStep

(* Bytes that no message will contain never pass for a message: the call     *)
(* that lost them returns false, reports a CLOSE without a body, or leaves   *)
(* ws_reader_next_msg without one.                                           *)
THEOREM LossCorrect == Spec => LossReported
<1>1. ReaderInv /\ [Next]_vars =>
        [lost' # lost =>
           \/ ret' = "false"
           \/ msg_queue' = Append(msg_queue, [type |-> OPCODE_CLOSE, body |-> <<>>])
           \/ "alloc" \in Faults /\ nread' = nread + 1 /\ msg_queue' = <<>>]_vars
  <2> SUFFICES ASSUME ReaderInv, [Next]_vars, lost' # lost
               PROVE  \/ ret' = "false"
                      \/ msg_queue' = Append(msg_queue, [type |-> OPCODE_CLOSE, body |-> <<>>])
                      \/ "alloc" \in Faults /\ nread' = nread + 1 /\ msg_queue' = <<>>
    OBVIOUS
  <2>1. LossStep
    <3>1. \A f \in Frames : PeerSend(f) => lost' = lost
      BY DEF PeerSend, ghostVars
    <3>2. NextMsg => lost' = lost
      BY DEF NextMsg
    <3>3. UNCHANGED <<peerVars, ghostVars>> => lost' = lost
      BY DEF ghostVars
    <3> QED
      BY Zenon, <3>1, <3>2, <3>3, StepKinds
  <2>2. CASE ReadFails
    BY <2>2 DEF ReadFails, Return
  <2>3. CASE ReadShort \/ ReadBodyFails \/ PushFails
    BY <2>3 DEF ReadShort, ReadBodyFails, PushFails, Return
  <2>4. CASE ConstructFails
    <3>1. rpc = "read" /\ "alloc" \in Faults /\ nread' = nread + 1 /\ msg_queue' = msg_queue
      BY <2>4 DEF ConstructFails, ReadWhole
    <3>2. msg_queue = <<>>
      BY <3>1, ReadingFacts
    <3> QED
      BY <3>1, <3>2
  <2> QED
    BY <2>1, <2>2, <2>3, <2>4 DEF LossStep
<1> QED
  BY <1>1, ReaderInvariance, PTL DEF Spec, LossReported

----------------------------------------------------------------------------
(* The reader implements the channel *)

LEMMA SendRefines ==
  ASSUME ReaderInv, NEW f \in Frames, PeerSend(f)
  PROVE  C!Send \/ UNCHANGED C!vars
<1>1. /\ Len(completed') \in {Len(completed), Len(completed) + 1}
      /\ \A i \in 1..Len(completed) : completed'[i] = completed[i]
  BY PeerSendStream
<1>2. /\ completed \in Seq(MsgType) /\ completed' \in Seq(MsgType)
      /\ Len(completed) \in Nat /\ Len(completed') \in Nat
  <2>1. completed \in Seq(MsgType) /\ completed' \in Seq(MsgType)
    BY Zenon, PeerSendStep DEF ReaderInv, Stream
  <2> QED
    BY <2>1
<1>3. delivered' = delivered /\ lost' = lost
  BY DEF PeerSend, ghostVars
<1>4. CASE Len(completed') = Len(completed) + 1
  <2>1. IsPrefix(completed, completed')
    BY <1>1, <1>2, <1>4, PrefixByIndex
  <2> QED
    BY <1>3, <1>4, <2>1 DEF C!Send, C!IsPrefix, IsPrefix
<1>5. CASE Len(completed') = Len(completed)
  <2>1. completed' = completed
    BY <1>1, <1>2, <1>5, SeqEqual
  <2> QED
    BY <1>3, <2>1 DEF C!vars
<1> QED
  BY <1>1, <1>4, <1>5

LEMMA DeliverRefines ==
  ASSUME ReaderInv, NextMsg
  PROVE  C!Deliver \/ C!DeliverBroken \/ UNCHANGED C!vars
<1>1. /\ completed' = completed /\ lost' = lost
      /\ completed \in Seq(MsgType) /\ delivered \in Seq(MsgType) /\ msg_queue \in Seq(MsgType)
      /\ Len(delivered) \in Nat /\ Len(completed) \in Nat /\ Len(msg_queue) \in Nat
  BY DEF NextMsg, peerVars, ReaderInv, TypeOK
<1>2. CASE msg_queue = <<>>
  BY <1>1, <1>2 DEF NextMsg, C!vars
<1>3. CASE msg_queue # <<>>
  <2>1. delivered' = Append(delivered, Head(msg_queue)) /\ Head(msg_queue) = msg_queue[1]
    BY <1>3 DEF NextMsg
  <2>2. Head(msg_queue) \in MsgType /\ Len(msg_queue) # 0
    BY <1>1, <1>3, HeadTailProperties, EmptySeq
  <2>3. CASE lost
    <3>1. /\ delivered' \in Seq(MsgType) /\ Len(delivered') = Len(delivered) + 1
          /\ \A i \in 1..Len(delivered) : delivered'[i] = delivered[i]
      BY <1>1, <2>1, <2>2, AppendProperties
    <3>2. IsPrefix(delivered, delivered')
      BY <1>1, <3>1, PrefixByIndex
    <3> QED
      BY <1>1, <2>3, <3>1, <3>2 DEF C!DeliverBroken, C!IsPrefix, IsPrefix
  <2>4. CASE ~lost
    <3>1. Aligned
      BY Zenon, <2>4 DEF ReaderInv
    <3>2. 1 \in 1..Len(msg_queue) /\ Len(msg_queue) >= 1
      BY <1>1, <2>2
    <3>3. msg_queue[1] = completed[Len(delivered) + 1] /\ Len(delivered) < Len(completed)
      BY <1>1, <3>1, <3>2 DEF Aligned
    <3> QED
      BY <1>1, <2>1, <2>4, <3>3 DEF C!Deliver
  <2> QED
    BY <2>3, <2>4
<1> QED
  BY <1>2, <1>3

(* The reader is a channel: what the peer finished comes out one message at  *)
(* a time and in order until bytes are lost, and nothing is taken back.      *)
THEOREM ChannelCorrect == Spec => ImplementsChannel
<1>1. Init => C!Init
  BY DEF Init, C!Init
<1>2. ReaderInv /\ [Next]_vars => [C!Next]_(C!vars)
  <2> SUFFICES ASSUME ReaderInv, [Next]_vars PROVE C!Next \/ UNCHANGED C!vars
    OBVIOUS
  <2>1. ASSUME NEW f \in Frames, PeerSend(f) PROVE C!Next \/ UNCHANGED C!vars
    BY <2>1, SendRefines DEF C!Next
  <2>2. CASE NextMsg
    BY <2>2, DeliverRefines DEF C!Next
  <2>3. CASE LossStep /\ UNCHANGED <<peerVars, delivered>>
    <3>1. lost' = lost \/ (lost' = TRUE /\ ~lost)
      <4>1. lost \in BOOLEAN /\ lost' \in BOOLEAN
        BY Zenon, ReaderNextInv DEF ReaderInv, TypeOK
      <4>2. lost' = lost \/ lost' = TRUE
        BY <2>3 DEF LossStep, ReadFails, ReadShort, ReadBodyFails, PushFails, ConstructFails
      <4> QED
        BY Zenon, <4>1, <4>2
    <3> QED
      BY <2>3, <3>1 DEF C!Next, C!Break, C!vars, peerVars
  <2>4. CASE UNCHANGED <<peerVars, ghostVars>> \/ UNCHANGED <<peerVars, delivered, lost>>
    BY <2>4 DEF peerVars, ghostVars, C!vars
  <2> QED
    BY Zenon, <2>1, <2>2, <2>3, <2>4, StepKinds
<1> QED
  BY <1>1, <1>2, ReaderInvariance, PTL DEF Spec, ImplementsChannel, C!Spec

----------------------------------------------------------------------------
(* When ws_reader_handle may fail *)

(* The stream reaches the socket frame by frame, allocations succeed, and no *)
(* frame is without a payload: what headers/reader.h takes for granted.      *)
WholeDelivery ==
  /\ "segment" \notin Faults /\ "alloc" \notin Faults
  /\ \A f \in Frames : KeyLen(f) + f.len > 0

Down == ~fd \/ conn \in {"reset", "dead"}

(* On a sound connection every byte sent is at hand; a failure or a loss     *)
(* means that the connection is down.                                        *)
Sound ==
  /\ conn \in {"up", "eof"} => arrived = total
  /\ ret = "false" \/ lost => Down

(* A frame that was sent has arrived whole. *)
LEMMA WholeOnSocket ==
  ASSUME ReaderInv, Sound, ~Down, ~lost, nread + 1 \in 1..Len(sent)
  PROVE  /\ WireLen(sent[nread + 1].f) \in Nat /\ sent[nread + 1].f \in Frames
         /\ arrived - pos >= WireLen(sent[nread + 1].f)
<1>1. arrived = total /\ arrived \in Nat /\ pos \in Nat /\ nread \in Nat /\ Len(sent) \in Nat
  BY DEF ReaderInv, TypeOK, Sound, Down, Stream
<1>2. Aligned
  BY Zenon DEF ReaderInv
<1>3. nread \in 0..Len(sent) /\ nread < Len(sent)
  BY <1>1
<1>4. pos = EndOf(nread) /\ sent[nread + 1].at = EndOf(nread) /\ EndOf(nread + 1) <= total
  BY <1>2, <1>3, StreamFacts DEF ReaderInv, Aligned
<1>5. sent[nread + 1].f \in Frames
  BY DEF ReaderInv, TypeOK
<1>6. EndOf(nread + 1) = pos + WireLen(sent[nread + 1].f)
  BY <1>1, <1>4 DEF EndOf
<1> QED
  BY <1>1, <1>4, <1>5, <1>6, FrameFacts

LEMMA SoundStep ==
  ASSUME WholeDelivery, ReaderInv, Sound, [Next]_vars
  PROVE  Sound'
<1>1. ASSUME UNCHANGED <<total, arrived, conn, fd, lost>>, ret' = ret \/ ret' = "true"
      PROVE  Sound'
  <2>1. ret' = "false" => ret = "false"
    BY <1>1
  <2> QED
    BY Zenon, <1>1, <2>1 DEF Sound, Down
<1>2. ASSUME Down', conn' = conn /\ arrived' = arrived /\ total' = total
      PROVE  Sound'
  BY Zenon, <1>2 DEF Sound
<1>3. ASSUME conn' \in {"reset", "dead"} PROVE Sound'
  <2>1. ~(conn' \in {"up", "eof"})
    BY <1>3
  <2> QED
    BY Zenon, <1>3, <2>1 DEF Sound, Down
<1>4. ASSUME NEW f \in Frames, PeerSend(f) PROVE Sound'
  <2>1. arrived' = total' /\ UNCHANGED <<conn, fd, ret, lost>>
    BY <1>4 DEF PeerSend, WholeDelivery, readerVars, ghostVars
  <2> QED
    BY Zenon, <2>1 DEF Sound, Down
<1>5. ASSUME NEW n \in 1..(total - arrived), Arrive(n) PROVE Sound'
  BY <1>5 DEF Arrive, WholeDelivery
<1>6. CASE PeerClose
  <2>1. conn = "up" /\ conn' = "eof" /\ UNCHANGED <<total, arrived, fd, ret, lost>>
    BY <1>6 DEF PeerClose, peerVars, readerVars, ghostVars
  <2>2. conn \in {"up", "eof"} /\ ~(conn \in {"reset", "dead"})
    BY <2>1
  <2> QED
    BY Zenon, <2>1, <2>2 DEF Sound, Down
<1>7. CASE Reset
  <2>1. conn' \in {"reset", "dead"}
    BY <1>7 DEF Reset
  <2> QED
    BY <1>3, <2>1
<1>8. CASE CloseFd
  BY Zenon, <1>2, <1>8 DEF CloseFd, Down, peerVars
<1>9. CASE HandleCall
  <2>1. CASE fd
    BY <1>1, <1>9, <2>1 DEF HandleCall, peerVars, ghostVars
  <2>2. CASE ~fd
    BY Zenon, <1>2, <1>9, <2>2 DEF HandleCall, Down, peerVars
  <2> QED
    BY <2>1, <2>2
<1>10. ASSUME NEW e \in FramesAtPos, PeekHeader(e) PROVE Sound'
  <2> DEFINE h == ws_frame_read_header(HeaderBytes(e.f), Peeked)
  <2>1. /\ arrived > pos /\ UNCHANGED <<total, arrived, conn, fd, lost>>
        /\ h.err = WS_FRAME_SUCCESS => ret' = ret
    BY <1>10 DEF PeekHeader, peerVars, ghostVars
  <2>2. CASE Down
    BY Zenon, <1>2, <2>1, <2>2 DEF Down
  <2>3. CASE ~Down
    <3>1. ~lost
      BY Zenon, <2>3 DEF Sound
    <3>2. /\ e.f \in Frames /\ Peeked \in Nat /\ nread + 1 \in 1..Len(sent)
          /\ e.f = sent[nread + 1].f
      BY <2>1, <3>1, PeekedFrame
    <3>3. WireLen(e.f) \in Nat /\ arrived - pos >= WireLen(e.f)
      BY <2>3, <3>1, <3>2, WholeOnSocket
    <3>4. Peeked >= 10 \/ Peeked >= WireLen(e.f)
      BY <3>3 DEF Peeked, PeekMax, ReaderInv, TypeOK
    <3>5. h.err = WS_FRAME_SUCCESS
      BY <3>2, <3>4, PeekFacts
    <3> HIDE DEF h
    <3> QED
      BY Zenon, <1>1, <2>1, <3>5
  <2> QED
    BY <2>2, <2>3
<1>11. CASE PeekNothing
  <2>1. \/ conn' \in {"reset", "dead"}
        \/ ret' = "true" /\ conn' = conn
    BY <1>11 DEF PeekNothing, Return
  <2> QED
    BY <1>1, <1>3, <1>11, <2>1 DEF PeekNothing, peerVars, ghostVars
<1>12. CASE ReadFails
  <2>1. conn' = "dead" \/ (~fd' /\ conn' = conn)
    BY <1>12 DEF ReadFails
  <2>2. conn' = "dead" => conn' \in {"reset", "dead"}
    OBVIOUS
  <2> QED
    BY Zenon, <1>2, <1>3, <1>12, <2>1, <2>2 DEF ReadFails, Down, peerVars
<1>13. CASE ReadShort
  <2>1. /\ rpc = "read" /\ arrived - pos < msg_len(hdr.h)
        /\ UNCHANGED <<total, arrived, conn, fd>>
    BY <1>13 DEF ReadShort, peerVars
  <2>2. Down
    <3> SUFFICES ASSUME ~Down PROVE FALSE
      OBVIOUS
    <3>1. ~lost
      BY Zenon DEF Sound
    <3>2. Aligned
      BY Zenon, <3>1 DEF ReaderInv
    <3>3. nread < Len(sent) /\ hdr = [h |-> Announced(sent[nread + 1].f), id |-> nread + 1]
      BY Zenon, <2>1, <3>2 DEF Aligned
    <3>4. nread + 1 \in 1..Len(sent)
      BY <3>3 DEF ReaderInv, TypeOK, Stream
    <3>5. /\ WireLen(sent[nread + 1].f) \in Nat /\ sent[nread + 1].f \in Frames
          /\ arrived - pos >= WireLen(sent[nread + 1].f)
      BY <3>1, <3>4, WholeOnSocket
    <3>6. msg_len(hdr.h) = WireLen(sent[nread + 1].f)
      BY <3>3, <3>5, LengthFacts
    <3> QED
      BY <2>1, <3>5, <3>6 DEF ReaderInv, TypeOK
  <2> QED
    BY Zenon, <1>2, <2>1, <2>2 DEF Down
<1>14. CASE ReadBodyFails \/ PushFails \/ ConstructFails
  <2>1. rpc = "read" /\ Body(hdr.h).err # WS_FRAME_SUCCESS
    BY <1>14 DEF ReadBodyFails, PushFails, ConstructFails, ReadWhole, WholeDelivery
  <2>2. PICK f \in Frames : hdr.h = Announced(f)
    BY <2>1, ReadingFacts
  <2> QED
    BY <2>1, <2>2, BodyFacts DEF WholeDelivery
<1>15. CASE ReadControl \/ ReadLast \/ ReadFragment
  <2>1. UNCHANGED <<total, arrived, conn, fd, lost>> /\ ret' = "true"
    BY <1>15 DEF ReadControl, ReadLast, ReadFragment, ReadWhole, Return, peerVars
  <2> QED
    BY <1>1, <2>1
<1>16. CASE NextMsg \/ Destroy \/ UNCHANGED vars
  <2>1. UNCHANGED <<total, arrived, conn, fd, lost, ret>>
    BY <1>16 DEF NextMsg, Destroy, vars, peerVars, ghostVars, readerVars
  <2> QED
    BY <1>1, <2>1
<1> QED
  BY <1>4, <1>5, <1>6, <1>7, <1>8, <1>9, <1>10, <1>11, <1>12, <1>13, <1>14, <1>15, <1>16
     DEF Next, ReaderStep, ReadReturns

(* Where frames arrive whole ws_reader_handle fails only with the connection.*)
(* The segment run shows that the first assumption is needed.                *)
THEOREM FailsCorrect ==
  ASSUME WholeDelivery
  PROVE  Spec => []FailsOnlyWithConnection
<1>1. Init => Sound
  BY DEF Init, Sound, NoRet
<1>2. ReaderInv /\ Sound /\ [Next]_vars => Sound'
  BY SoundStep
<1>3. Sound => FailsOnlyWithConnection
  BY DEF Sound, Down, FailsOnlyWithConnection
<1> QED
  BY <1>1, <1>2, <1>3, ReaderInvariance, PTL DEF Spec

-----------------------------------------------------------------------------
(* The client: nothing is left behind, and nothing gone is met *)

(* Where the listener has not begun to free the client. *)
InLoop == {"start", "msg", "dispatch", "check"}

(* The pointer, the memory and the reader go together, up to the moment the  *)
(* listener takes the pointer.                                               *)
Owned == ptr = "set" /\ mem = "live" /\ is_open
Taken == ptr = "null" /\ mem = "live" /\ is_open
Gone  == ptr = "null" /\ mem = "freed" /\ ~is_open /\ ~fd

Ownership ==
  /\ lpc \in InLoop \cup {"free", "free_close", "free_mem", "done"}
  /\ lpc \in InLoop => Owned
  /\ lpc = "free" => Owned \/ Gone
  /\ lpc = "free_close" => Taken
  /\ lpc = "free_mem" => Taken /\ ~fd
  /\ lpc = "done" => Gone

IInv == Ownership /\ ListenerSafe

(* Which threads may have closed the descriptor. *)
ListenerClosed == IF lpc = "free_mem" \/ mem = "freed" THEN 1 ELSE 0
MainClosed == IF mpc \in {"join", "done"} THEN 1 ELSE 0

Closing == closes \in Nat /\ closes <= ListenerClosed + MainClosed

(* What Ownership speaks of, apart from the descriptor. *)
held == <<ptr, mem, is_open, lpc>>

(* A step that leaves these alone, and opens no descriptor, keeps Ownership. *)
LEMMA Kept ==
  ASSUME Ownership, UNCHANGED held, fd' => fd
  PROVE  Ownership'
  BY DEF Ownership, held, InLoop, Owned, Taken, Gone

(* ws_client_next_msg neither opens nor closes anything. *)
LEMMA ReaderKeeps ==
  ASSUME ReaderStep
  PROVE  UNCHANGED <<is_open, fd>>
<1>1. CASE HandleCall
  BY <1>1 DEF HandleCall
<1>2. ASSUME NEW e \in FramesAtPos, PeekHeader(e) PROVE UNCHANGED <<is_open, fd>>
  BY <1>2 DEF PeekHeader
<1>3. CASE PeekNothing
  BY <1>3 DEF PeekNothing
<1>4. CASE ReadReturns
  BY <1>4 DEF ReadReturns, ReadFails, ReadShort, ReadBodyFails, ReadControl,
              ReadLast, ReadFragment, PushFails, ConstructFails, ReadWhole
<1>5. CASE NextMsg
  BY <1>5 DEF NextMsg
<1> QED
  BY <1>1, <1>2, <1>3, <1>4, <1>5 DEF ReaderStep

LEMMA InitIInv == ClientInit => IInv
  BY DEF ClientInit, Init, IInv, Ownership, ListenerSafe, InLoop, Owned, NoFault

(* The loop of ws_client_on_msg. *)
LEMMA LoopStep ==
  ASSUME IInv,
         OnMsg \/ ReadMsg \/ NoMessage \/ OnClose \/ OnPing \/ PongFails \/ OnData
           \/ OnOther \/ CheckFlag
  PROVE  IInv'
<1> USE DEF IInv, Ownership, ListenerSafe, InLoop, Owned, Taken, Gone, Running,
            NoFault
<1>1. CASE OnMsg
  BY <1>1 DEF OnMsg, vars, readerVars
<1>2. CASE ReadMsg
  <2>1. Valid(ptr) /\ ReaderStep /\ lpc = "msg" /\ lpc' \in {"dispatch", "msg"}
        /\ UNCHANGED <<memVars, fault>> /\ fault = NoFault
    BY <1>2 DEF ReadMsg, Valid
  <2> QED
    BY <2>1, ReaderKeeps DEF memVars
<1>3. CASE NoMessage
  BY <1>3 DEF NoMessage, Leave, vars, readerVars, memVars
<1>4. CASE OnClose
  BY <1>4 DEF OnClose, Received, Leave, vars, readerVars, memVars
<1>5. CASE OnPing
  BY <1>5 DEF OnPing, Received, Leave, Valid, net_write, readerVars, memVars
<1>6. CASE OnData
  BY <1>6 DEF OnData, Received, Leave, vars, readerVars, memVars
<1>7. CASE OnOther
  BY <1>7 DEF OnOther, Received, vars, readerVars, memVars
<1>8. CASE CheckFlag
  BY <1>8 DEF CheckFlag, Valid, Leave, vars, readerVars, memVars
<1>9. CASE PongFails
  BY <1>9 DEF PongFails, Received, Leave, vars, readerVars, memVars
<1> QED
  BY <1>1, <1>2, <1>3, <1>4, <1>5, <1>6, <1>7, <1>8, <1>9

(* ws_client_free. *)
LEMMA FreeStep ==
  ASSUME IInv, FreeTake \/ FreeClose \/ FreeMem
  PROVE  IInv'
<1> USE DEF IInv, Ownership, ListenerSafe, InLoop, Owned, Taken, Gone, Running,
            NoFault
<1>1. CASE FreeTake
  BY <1>1 DEF FreeTake, vars, readerVars
<1>2. CASE FreeClose
  BY <1>2 DEF FreeClose, net_close, readerVars
<1>3. CASE FreeMem
  BY <1>3 DEF FreeMem, Destroy
<1> QED
  BY <1>1, <1>2, <1>3

(* The main thread touches neither the pointer nor the memory; whatever      *)
(* stops it, it is not the listener that is stopped.                         *)
LEMMA MainStep ==
  ASSUME IInv, Main \/ User
  PROVE  IInv'
<1> DEFINE Quiet == UNCHANGED held /\ (fd' => fd) /\ fault'.by # "listener"
<1>1. ASSUME NEW q \in BOOLEAN, TypeLine(q) PROVE Quiet
  BY <1>1 DEF TypeLine, held, memVars, vars, readerVars, listenerVars, Running, NoFault
<1>2. ASSUME WriteLoad PROVE Quiet
  BY <1>2 DEF WriteLoad, held, memVars, vars, readerVars, listenerVars, Running, NoFault
<1>3. ASSUME WriteSend PROVE Quiet
  BY <1>3 DEF WriteSend, Crash, net_write, held, memVars, readerVars, listenerVars,
              Running, NoFault
<1>4. ASSUME ShutdownCheck PROVE Quiet
  BY <1>4 DEF ShutdownCheck, held, memVars, vars, readerVars, listenerVars, Running,
              NoFault
<1>5. ASSUME ShutdownFlag PROVE Quiet
  BY <1>5 DEF ShutdownFlag, Crash, held, vars, readerVars, listenerVars, Running, NoFault
<1>6. ASSUME ShutdownClose PROVE Quiet
  BY <1>6 DEF ShutdownClose, Crash, net_close, held, readerVars, listenerVars, Running,
              NoFault
<1>7. ASSUME Join PROVE Quiet
  BY <1>7 DEF Join, held, memVars, vars, readerVars, listenerVars, Running, NoFault
<1>8. ASSUME WriteFails PROVE Quiet
  BY <1>8 DEF WriteFails, held, memVars, vars, readerVars, listenerVars, Running, NoFault
<1> HIDE DEF Quiet
<1>9. Quiet
  BY <1>1, <1>2, <1>3, <1>4, <1>5, <1>6, <1>7, <1>8 DEF Main, User
<1> QED
  BY <1>9, Kept DEF Quiet, IInv, ListenerSafe

(* The server and the network do not revive a dead connection. *)
LEMMA EnvStep ==
  ASSUME IInv, Env \/ Delivery
  PROVE  IInv'
<1> DEFINE Quiet == UNCHANGED <<held, fd, fault>> /\ (conn = "dead" => conn' = "dead")
<1>1. ASSUME NEW f \in Frames, PeerSend(f), UNCHANGED clientVars PROVE Quiet
  BY <1>1 DEF PeerSend, held, clientVars, memVars, listenerVars, readerVars
<1>2. ASSUME PeerClose /\ UNCHANGED clientVars PROVE Quiet
  BY <1>2 DEF PeerClose, held, clientVars, memVars, listenerVars, readerVars
<1>3. ASSUME Reset /\ UNCHANGED clientVars PROVE Quiet
  BY <1>3 DEF Reset, held, clientVars, memVars, listenerVars, readerVars
<1>4. ASSUME NEW n \in 1..(total - arrived), Arrive(n), UNCHANGED clientVars PROVE Quiet
  BY <1>4 DEF Arrive, held, clientVars, memVars, listenerVars, readerVars
<1> HIDE DEF Quiet
<1>5. Quiet
  BY <1>1, <1>2, <1>3, <1>4 DEF Env, Delivery
<1> QED
  BY <1>5, Kept DEF Quiet, held, IInv, ListenerSafe

LEMMA NextIInv == IInv /\ [ClientNext]_allVars => IInv'
<1> SUFFICES ASSUME IInv, [ClientNext]_allVars PROVE IInv'
  OBVIOUS
<1>1. CASE UNCHANGED allVars
  BY <1>1, Kept DEF IInv, ListenerSafe, allVars, vars, clientVars, memVars,
                    listenerVars, readerVars, held
<1>2. CASE ClientNext
  BY <1>2, LoopStep, FreeStep, MainStep, EnvStep DEF ClientNext, Listener
<1> QED
  BY <1>1, <1>2

LEMMA Invariance == ClientSpec => []IInv
  BY InitIInv, NextIInv, PTL DEF ClientSpec

(* Each thread comes by net_close once: the listener between taking the      *)
(* pointer and giving the memory back, the main thread before its join.      *)
LEMMA NextClosing == IInv /\ Closing /\ [ClientNext]_allVars => Closing'
<1> SUFFICES ASSUME IInv, Closing, [ClientNext]_allVars PROVE Closing'
  OBVIOUS
<1> DEFINE Quiet == /\ UNCHANGED <<closes, mem>> /\ (lpc = "free_mem" => lpc' = lpc)
                    /\ (mpc \in {"join", "done"} => mpc' \in {"join", "done"})
<1>1. CASE UNCHANGED allVars
  BY <1>1 DEF allVars, clientVars, memVars, listenerVars, mainVars,
              Closing, ListenerClosed, MainClosed
<1>2. ASSUME OnMsg \/ ReadMsg \/ NoMessage \/ OnClose \/ OnPing \/ PongFails \/ OnData
               \/ OnOther \/ CheckFlag \/ FreeTake
      PROVE  Quiet
  BY <1>2 DEF OnMsg, ReadMsg, NoMessage, OnClose, OnPing, PongFails, OnData, OnOther,
              CheckFlag, Leave, FreeTake, Received, memVars, mainVars
<1>3. CASE FreeClose
  BY <1>3 DEF FreeClose, net_close, mainVars, IInv, Ownership, Taken,
              Closing, ListenerClosed, MainClosed
<1>4. CASE FreeMem
  BY <1>4 DEF FreeMem, mainVars, Closing, ListenerClosed, MainClosed
<1>5. ASSUME User \/ WriteFails \/ WriteLoad \/ WriteSend \/ ShutdownCheck \/ ShutdownFlag \/ Join
      PROVE  Quiet
  BY <1>5 DEF User, TypeLine, WriteFails, WriteLoad, WriteSend, ShutdownCheck, ShutdownFlag, Join,
              memVars, listenerVars
<1>6. CASE ShutdownClose
  BY <1>6 DEF ShutdownClose, net_close, listenerVars, Closing, ListenerClosed, MainClosed
<1>7. ASSUME Env \/ Delivery PROVE Quiet
  BY <1>7 DEF Env, Delivery, clientVars, memVars, listenerVars, mainVars
<1>8. ASSUME Quiet PROVE Closing'
  BY <1>8 DEF Closing, ListenerClosed, MainClosed
<1> HIDE DEF Quiet
<1> QED
  BY <1>1, <1>2, <1>3, <1>4, <1>5, <1>6, <1>7, <1>8 DEF ClientNext, Listener, Main

(* Whatever ws_client_shutdown_loop and ws_client_write do in the other      *)
(* thread, and however the connection fails, ws_client_on_msg and            *)
(* ws_client_free never go through a pointer that is gone.                   *)
THEOREM ListenerCorrect == ClientSpec => []ListenerSafe
<1>1. IInv => ListenerSafe
  BY DEF IInv
<1> QED
  BY Invariance, <1>1, PTL

(* When the listener thread ends, the descriptor is closed and reader and    *)
(* memory are released, after one call of ws_client_free or two; the number  *)
(* is closed twice only if ws_client_shutdown_loop has closed it too.        *)
THEOREM CleanupCorrect == ClientSpec => []CleanedUp
<1>1. ClientInit => Closing
  BY DEF ClientInit, Closing, ListenerClosed, MainClosed
<1>2. IInv /\ Closing => CleanedUp
  BY DEF IInv, Ownership, Gone, CleanedUp, Closing, ListenerClosed, MainClosed
<1> QED
  BY Invariance, NextClosing, <1>1, <1>2, PTL DEF ClientSpec

----------------------------------------------------------------------------
(* Selecting the messages of some types *)

(* The recursion of OfType, for the first k messages. *)
SelectStep(ms, T, g, n) ==
  IF n = 0 THEN <<>>
  ELSE IF ms[n].type \in T THEN Append(g[n - 1], ms[n]) ELSE g[n - 1]

IsSelection(ms, T, k, g) == g = [n \in 0..k |-> SelectStep(ms, T, g, n)]

LEMMA SelectionExists ==
  ASSUME NEW ms, NEW T, NEW k \in Nat
  PROVE  \E g : IsSelection(ms, T, k, g)
<1> DEFINE S == {m \in Nat : \E g : IsSelection(ms, T, m, g)}
<1>1. 0 \in S
  <2>1. IsSelection(ms, T, 0, [n \in 0..0 |-> <<>>])
    BY DEF IsSelection, SelectStep
  <2> QED
    BY <2>1
<1>2. ASSUME NEW m \in Nat, m \in S PROVE m + 1 \in S
  <2>1. PICK g : IsSelection(ms, T, m, g)
    BY <1>2
  <2> DEFINE h == [n \in 0..(m + 1) |-> IF n = m + 1 THEN SelectStep(ms, T, g, n) ELSE g[n]]
  <2>2. \A n \in 0..m : h[n] = g[n] /\ g[n] = SelectStep(ms, T, g, n)
    BY <2>1 DEF IsSelection
  <2>3. \A n \in 0..(m + 1) : SelectStep(ms, T, h, n) = SelectStep(ms, T, g, n)
    <3>1. \A n \in 0..(m + 1) : n # 0 => n - 1 \in 0..m
      OBVIOUS
    <3> HIDE DEF h
    <3> QED
      BY <2>2, <3>1 DEF SelectStep
  <2>4. \A n \in 0..(m + 1) : h[n] = SelectStep(ms, T, h, n)
    <3>1. \A n \in 0..(m + 1) : n = m + 1 \/ n \in 0..m
      OBVIOUS
    <3> QED
      BY <2>2, <2>3, <3>1
  <2>5. IsSelection(ms, T, m + 1, h)
    BY <2>4 DEF IsSelection
  <2> QED
    BY <2>5
<1> HIDE DEF S
<1>3. Nat \subseteq S
  BY <1>1, <1>2, NatSetInduction
<1> QED
  BY <1>3 DEF S

LEMMA OfTypeSelects ==
  ASSUME NEW ms, NEW T, Len(ms) \in Nat
  PROVE  \E g : IsSelection(ms, T, Len(ms), g) /\ OfType(ms, T) = g[Len(ms)]
<1>1. OfType(ms, T) = (CHOOSE g : IsSelection(ms, T, Len(ms), g))[Len(ms)]
  BY DEF OfType, IsSelection, SelectStep
<1>2. IsSelection(ms, T, Len(ms), CHOOSE g : IsSelection(ms, T, Len(ms), g))
  BY Zenon, SelectionExists
<1> QED
  BY Zenon, <1>1, <1>2

(* Selections of two sequences agree as far as the sequences do. *)
LEMMA SelectionsAgree ==
  ASSUME NEW ms, NEW ns, NEW T, NEW k \in Nat, NEW l \in Nat, NEW g, NEW h,
         IsSelection(ms, T, k, g), IsSelection(ns, T, l, h), k <= l,
         \A i \in 1..k : ms[i] = ns[i]
  PROVE  \A i \in 0..k : g[i] = h[i]
<1> DEFINE S == {n \in Nat : n <= k => g[n] = h[n]}
<1>1. /\ \A i \in 0..k : g[i] = SelectStep(ms, T, g, i)
      /\ \A i \in 0..l : h[i] = SelectStep(ns, T, h, i)
  BY DEF IsSelection
<1>2. 0 \in S
  BY <1>1 DEF SelectStep
<1>3. ASSUME NEW n \in Nat, n \in S PROVE n + 1 \in S
  <2> SUFFICES ASSUME n + 1 <= k PROVE g[n + 1] = h[n + 1]
    OBVIOUS
  <2>1. /\ g[n] = h[n] /\ ms[n + 1] = ns[n + 1] /\ n + 1 # 0 /\ (n + 1) - 1 = n
        /\ n + 1 \in 0..k /\ n + 1 \in 0..l
    BY <1>3
  <2> QED
    BY Zenon, <1>1, <2>1 DEF SelectStep
<1>4. Nat \subseteq S
  <2> HIDE DEF S
  <2> QED
    BY <1>2, <1>3, NatSetInduction
<1> QED
  BY <1>4

LEMMA OfTypeEmpty ==
  ASSUME NEW T
  PROVE  OfType(<<>>, T) = <<>>
<1>1. Len(<<>>) = 0
  OBVIOUS
<1>2. PICK g : IsSelection(<<>>, T, 0, g) /\ OfType(<<>>, T) = g[0]
  BY <1>1, OfTypeSelects
<1> QED
  BY <1>2 DEF IsSelection, SelectStep

LEMMA OfTypeAppend ==
  ASSUME NEW S, NEW s \in Seq(S), NEW e \in S, NEW T
  PROVE  OfType(Append(s, e), T) =
           IF e.type \in T THEN Append(OfType(s, T), e) ELSE OfType(s, T)
<1> DEFINE t == Append(s, e)
           n == Len(s)
<1>1. /\ n \in Nat /\ Len(t) = n + 1 /\ t[n + 1] = e
      /\ \A i \in 1..n : s[i] = t[i]
  BY AppendProperties
<1> HIDE DEF t, n
<1>2. PICK g : IsSelection(s, T, n, g) /\ OfType(s, T) = g[n]
  BY <1>1, OfTypeSelects DEF n
<1>3. PICK h : IsSelection(t, T, n + 1, h) /\ OfType(t, T) = h[n + 1]
  BY <1>1, OfTypeSelects
<1>4. g[n] = h[n]
  <2>1. n + 1 \in Nat /\ n <= n + 1 /\ n \in 0..n
    BY <1>1
  <2>2. \A k \in Nat, l \in Nat :
          IsSelection(s, T, k, g) /\ IsSelection(t, T, l, h) /\ k <= l
              /\ (\A i \in 1..k : s[i] = t[i])
            => \A i \in 0..k : g[i] = h[i]
    BY SelectionsAgree
  <2> QED
    BY Zenon, <1>1, <1>2, <1>3, <2>1, <2>2
<1>5. h[n + 1] = SelectStep(t, T, h, n + 1)
  BY <1>1, <1>3 DEF IsSelection
<1>6. n + 1 # 0 /\ (n + 1) - 1 = n
  BY <1>1
<1>7. h[n + 1] = IF e.type \in T THEN Append(h[n], e) ELSE h[n]
  BY Zenon, <1>1, <1>5, <1>6 DEF SelectStep
<1> QED
  BY <1>2, <1>3, <1>4, <1>7 DEF t

(* The selection of a prefix is a prefix of the selection. *)
LEMMA SelectionGrows ==
  ASSUME NEW S, NEW t \in Seq(S), NEW T, NEW g, IsSelection(t, T, Len(t), g)
  PROVE  /\ \A n \in 0..Len(t) : g[n] \in Seq(S)
         /\ \A n \in 0..Len(t), m \in 0..Len(t) :
              n <= m => /\ Len(g[n]) <= Len(g[m])
                        /\ \A i \in 1..Len(g[n]) : g[n][i] = g[m][i]
<1>0. Len(t) \in Nat /\ \A i \in 1..Len(t) : t[i] \in S
  OBVIOUS
<1>1. \A i \in 0..Len(t) : g[i] = SelectStep(t, T, g, i)
  BY DEF IsSelection
<1>2. g[0] = <<>>
  BY <1>0, <1>1 DEF SelectStep
<1>3. ASSUME NEW n \in Nat, n + 1 \in 0..Len(t)
      PROVE  n \in 0..Len(t) /\ (g[n + 1] = g[n] \/ \E e \in S : g[n + 1] = Append(g[n], e))
  <2>1. n + 1 # 0 /\ (n + 1) - 1 = n /\ n \in 0..Len(t) /\ t[n + 1] \in S
    BY <1>0, <1>3
  <2>2. g[n + 1] = SelectStep(t, T, g, n + 1)
    BY Zenon, <1>1, <1>3
  <2>3. g[n + 1] = IF t[n + 1].type \in T THEN Append(g[n], t[n + 1]) ELSE g[n]
    BY Zenon, <2>1, <2>2 DEF SelectStep
  <2> QED
    BY <2>1, <2>3
<1> DEFINE P == {n \in Nat : n <= Len(t) => g[n] \in Seq(S)}
<1>4. Nat \subseteq P
  <2>1. 0 \in P
    <3>1. <<>> \in Seq(S)
      OBVIOUS
    <3> QED
      BY <1>2, <3>1
  <2>2. ASSUME NEW n \in Nat, n \in P PROVE n + 1 \in P
    <3> SUFFICES ASSUME n + 1 <= Len(t) PROVE g[n + 1] \in Seq(S)
      OBVIOUS
    <3>1. n + 1 \in 0..Len(t) /\ g[n] \in Seq(S)
      BY <1>0, <2>2
    <3> QED
      <4>1. g[n + 1] = g[n] \/ \E e \in S : g[n + 1] = Append(g[n], e)
        BY <1>3, <2>2, <3>1
      <4> QED
        <5>1. CASE g[n + 1] = g[n]
          BY ONLY <3>1, <5>1
        <5>2. CASE \E e \in S : g[n + 1] = Append(g[n], e)
          <6>1. PICK e \in S : g[n + 1] = Append(g[n], e)
            BY ONLY <5>2
          <6>2. Append(g[n], e) \in Seq(S)
            BY ONLY <3>1, e \in S, AppendProperties
          <6> QED
            BY ONLY <6>1, <6>2
        <5> QED
          BY ONLY <4>1, <5>1, <5>2
  <2> HIDE DEF P
  <2> QED
    BY <2>1, <2>2, NatSetInduction
<1>5. \A n \in 0..Len(t) : g[n] \in Seq(S)
  BY <1>0, <1>4
<1>6. ASSUME NEW n \in 0..Len(t), NEW m \in 0..Len(t), n <= m
      PROVE  Len(g[n]) <= Len(g[m]) /\ \A i \in 1..Len(g[n]) : g[n][i] = g[m][i]
  <2> DEFINE Ext(k) == Len(g[n]) <= Len(g[k]) /\ \A i \in 1..Len(g[n]) : g[n][i] = g[k][i]
             Q == {k \in Nat : n + k <= Len(t) => Ext(n + k)}
  <2>1. 0 \in Q
    <3>1. Len(g[n]) \in Nat /\ n + 0 = n
      BY <1>5
    <3> QED
      BY <3>1
  <2>2. ASSUME NEW k \in Nat, k \in Q PROVE k + 1 \in Q
    <3> SUFFICES ASSUME n + (k + 1) <= Len(t) PROVE Ext(n + (k + 1))
      OBVIOUS
    <3>1. n + k \in Nat /\ (n + k) + 1 \in 0..Len(t) /\ n + (k + 1) = (n + k) + 1
          /\ n + k \in 0..Len(t)
      BY <1>0
    <3>2. Ext(n + k)
      BY <2>2, <3>1
    <3>3. g[n + k] \in Seq(S) /\ g[n] \in Seq(S)
      BY <1>5, <3>1
    <3>4. CASE g[(n + k) + 1] = g[n + k]
      BY Zenon, <3>1, <3>2, <3>4
    <3>5. ASSUME NEW e \in S, g[(n + k) + 1] = Append(g[n + k], e) PROVE Ext((n + k) + 1)
      <4>1. /\ Len(Append(g[n + k], e)) = Len(g[n + k]) + 1
            /\ \A i \in 1..Len(g[n + k]) : Append(g[n + k], e)[i] = g[n + k][i]
        BY <3>3, AppendProperties
      <4> QED
        BY <3>2, <3>3, <3>5, <4>1
    <3> HIDE DEF Ext
    <3> QED
      BY <1>3, <3>1, <3>4, <3>5
  <2>3. Nat \subseteq Q
    <3> HIDE DEF Q
    <3> QED
      BY <2>1, <2>2, NatSetInduction
  <2>4. m - n \in Nat /\ n + (m - n) = m
    BY <1>0, <1>6
  <2>5. m - n \in Q /\ m <= Len(t)
    BY <1>0, <2>3, <2>4
  <2> QED
    BY <2>4, <2>5
<1> QED
  BY <1>5, <1>6

LEMMA OfTypeAgrees ==
  ASSUME NEW s, NEW t, NEW T, NEW h, Len(s) \in Nat, Len(t) \in Nat, Len(s) <= Len(t),
         \A i \in 1..Len(s) : s[i] = t[i], IsSelection(t, T, Len(t), h)
  PROVE  OfType(s, T) = h[Len(s)]
<1>1. PICK g : IsSelection(s, T, Len(s), g) /\ OfType(s, T) = g[Len(s)]
  BY OfTypeSelects
<1> DEFINE k == Len(s)
           l == Len(t)
<1>2. /\ k \in Nat /\ l \in Nat /\ k <= l /\ \A i \in 1..k : s[i] = t[i]
      /\ IsSelection(s, T, k, g) /\ IsSelection(t, T, l, h) /\ k \in 0..k
  BY <1>1
<1> HIDE DEF k, l
<1>3. \A i \in 0..k : g[i] = h[i]
  BY ONLY <1>2, SelectionsAgree
<1> QED
  BY Zenon, <1>1, <1>2, <1>3 DEF k

LEMMA OfTypePrefix ==
  ASSUME NEW S, NEW s \in Seq(S), NEW t \in Seq(S), NEW T,
         Len(s) <= Len(t), \A i \in 1..Len(s) : s[i] = t[i]
  PROVE  /\ OfType(s, T) \in Seq(S) /\ OfType(t, T) \in Seq(S)
         /\ Len(OfType(s, T)) <= Len(OfType(t, T))
         /\ \A i \in 1..Len(OfType(s, T)) : OfType(s, T)[i] = OfType(t, T)[i]
<1>1. Len(s) \in Nat /\ Len(t) \in Nat /\ Len(s) \in 0..Len(t) /\ Len(t) \in 0..Len(t)
  OBVIOUS
<1>3. PICK h : IsSelection(t, T, Len(t), h) /\ OfType(t, T) = h[Len(t)]
  BY <1>1, OfTypeSelects
<1>4. OfType(s, T) = h[Len(s)]
  BY <1>1, <1>3, OfTypeAgrees
<1>5. /\ \A n \in 0..Len(t) : h[n] \in Seq(S)
      /\ Len(h[Len(s)]) <= Len(h[Len(t)])
      /\ \A i \in 1..Len(h[Len(s)]) : h[Len(s)][i] = h[Len(t)][i]
  <2>1. /\ \A n \in 0..Len(t) : h[n] \in Seq(S)
        /\ \A n \in 0..Len(t), m \in 0..Len(t) :
             n <= m => /\ Len(h[n]) <= Len(h[m])
                       /\ \A i \in 1..Len(h[n]) : h[n][i] = h[m][i]
    BY <1>3, SelectionGrows
  <2> QED
    BY Zenon, <1>1, <2>1
<1> QED
  BY Zenon, <1>1, <1>3, <1>4, <1>5

----------------------------------------------------------------------------
(* The reader inside the client *)

LEMMA WriteKeepsReader ==
  ASSUME ReaderInv, NEW who, NEW m, NEW ok, net_write(who, m, ok),
         UNCHANGED <<peerVars, arrived, fd, pos, readerVars, ghostVars>>
  PROVE  ReaderInv'
<1>1. conn' \in {"up", "eof", "reset", "dead"}
  BY DEF net_write, ReaderInv, TypeOK
<1>2. arrived' \in pos..total /\ fd' \in BOOLEAN
  BY DEF ReaderInv, TypeOK
<1> QED
  BY Zenon, <1>1, <1>2, NetworkStep

(* Whatever the two threads do, the reader's invariant is kept. *)
LEMMA ClientReaderStep ==
  ASSUME ReaderInv, [ClientNext]_allVars
  PROVE  ReaderInv'
<1>1. ASSUME UNCHANGED vars PROVE ReaderInv'
  BY <1>1, ReaderNextInv
<1>2. /\ arrived \in pos..total /\ conn \in {"up", "eof", "reset", "dead"} /\ fd \in BOOLEAN
      /\ FALSE \in BOOLEAN
  BY DEF ReaderInv, TypeOK
<1>3. CASE ReadMsg
  BY Zenon, <1>1, <1>3, ReaderStepInv DEF ReadMsg
<1>4. CASE OnPing
  <2>1. CASE Valid(ptr)
    BY Zenon, <1>4, <2>1, WriteKeepsReader DEF OnPing
  <2>2. CASE ~Valid(ptr)
    BY <1>2, <1>4, <2>2, NetworkStep DEF OnPing
  <2> QED
    BY <2>1, <2>2
<1>5. CASE WriteSend
  <2>1. CASE Valid(mp)
    BY Zenon, <1>5, <2>1, WriteKeepsReader DEF WriteSend
  <2>2. CASE ~Valid(mp)
    BY <1>2, <1>5, <2>2, NetworkStep DEF WriteSend
  <2> QED
    BY <2>1, <2>2
<1>6. CASE FreeClose
  BY Zenon, <1>2, <1>6, NetworkStep DEF FreeClose, net_close
<1>7. CASE ShutdownClose
  <2>1. /\ UNCHANGED <<peerVars, arrived, conn, pos, readerVars, ghostVars>>
        /\ fd' = FALSE \/ fd' = fd
    BY <1>7 DEF ShutdownClose, net_close
  <2> QED
    BY Zenon, <1>2, <2>1, NetworkStep
<1>8. CASE FreeMem
  BY <1>8, DestroyStep DEF FreeMem
<1>9. CASE Env \/ Delivery
  <2>1. Next
    BY <1>9 DEF Env, Delivery, Next
  <2> QED
    BY <2>1, ReaderNextInv
<1>10. CASE OnMsg \/ NoMessage \/ OnClose \/ PongFails \/ OnData \/ OnOther \/ CheckFlag
               \/ FreeTake
  BY <1>1, <1>10 DEF OnMsg, NoMessage, OnClose, PongFails, OnData, OnOther, CheckFlag, FreeTake
<1>11. CASE User \/ WriteFails \/ WriteLoad \/ ShutdownCheck \/ ShutdownFlag \/ Join
  BY <1>1, <1>11 DEF User, TypeLine, WriteFails, WriteLoad, ShutdownCheck, ShutdownFlag, Join
<1>12. CASE UNCHANGED allVars
  BY <1>1, <1>12 DEF allVars
<1> QED
  BY <1>3, <1>4, <1>5, <1>6, <1>7, <1>8, <1>9, <1>10, <1>11, <1>12
     DEF ClientNext, Listener, Main

LEMMA ClientReader == ClientSpec => []ReaderInv
<1>1. ClientInit => ReaderInv
  BY ReaderInitInv DEF ClientInit
<1>2. ReaderInv /\ [ClientNext]_allVars => ReaderInv'
  BY ClientReaderStep
<1> QED
  BY <1>1, <1>2, PTL DEF ClientSpec

(* The steps of ws_client_next_msg, as its caller sees them: a call that     *)
(* returns false has failed, and a message is what ws_reader_next_msg took.  *)
LEMMA ReaderStepResult ==
  ASSUME ReaderInv, ReaderStep, rpc = "next" => ret = "true"
  PROVE  /\ rpc' = "next" => ret' = "true"
         /\ \/ delivered' = delivered /\ (rpc' = "idle" => ret' = "false" \/ got' = NoMsg)
            \/ /\ NextMsg /\ ret' = "true" /\ rpc' = "idle"
               /\ got' \in MsgType /\ got' # NoMsg /\ delivered' = Append(delivered, got')
<1>1. CASE HandleCall
  BY <1>1 DEF HandleCall, Return, ghostVars
<1>2. ASSUME NEW e \in FramesAtPos, PeekHeader(e)
      PROVE  delivered' = delivered /\ rpc' # "next" /\ (rpc' = "idle" => ret' = "false")
  BY <1>2 DEF PeekHeader, Return, ghostVars
<1>3. CASE PeekNothing
  BY <1>3 DEF PeekNothing, Return, ghostVars
<1>4. CASE ReadReturns
  <2>1. (Return("true") \/ Return("false")) /\ delivered' = delivered
    BY <1>4 DEF ReadReturns, ReadFails, ReadShort, ReadBodyFails, ReadControl,
                ReadLast, ReadFragment, PushFails, ConstructFails, ReadWhole
  <2> QED
    BY <2>1 DEF Return
<1>5. CASE NextMsg
  <2>1. rpc = "next" /\ rpc' = "idle" /\ ret' = "true"
    BY <1>5 DEF NextMsg
  <2>2. CASE msg_queue = <<>>
    BY <1>5, <2>1, <2>2 DEF NextMsg
  <2>3. CASE msg_queue # <<>>
    <3>1. got' = Head(msg_queue) /\ delivered' = Append(delivered, Head(msg_queue))
      BY <1>5, <2>3 DEF NextMsg
    <3>2. msg_queue \in Seq(MsgType)
      BY DEF ReaderInv, TypeOK
    <3>3. Head(msg_queue) \in MsgType
      BY <2>3, <3>2, HeadTailProperties
    <3>4. \A m \in MsgType : m # NoMsg
      BY DEF MsgType, NoMsg
    <3> QED
      BY <1>5, <2>1, <3>1, <3>3, <3>4
  <2> QED
    BY <2>2, <2>3
<1> QED
  BY <1>1, <1>2, <1>3, <1>4, <1>5 DEF ReaderStep

----------------------------------------------------------------------------
(* What the listener did with the messages *)

Data == {OPCODE_TEXT, OPCODE_BIN}
Pings(ms) == OfType(ms, {OPCODE_PING})
Pongs(ms) == [i \in 1..Len(Pings(ms)) |-> Pong(Pings(ms)[i])]
Answered == OfType(outbox, {OPCODE_PONG})

(* The last PING was not answered, and the loop is left. *)
Unanswered == why \in {"pong", "unwritten"}

(* The messages d have been dealt with: all that were delivered but the one  *)
(* being dispatched.  A PONG that could not be written is the last thing.    *)
Dealt(d) ==
  /\ d \in Seq(MsgType)
  /\ delivered = IF Received THEN Append(d, got) ELSE d
  /\ cbs = OfType(d, Data)
  /\ Answered = Pongs(d) \/ (Unanswered /\ IsPrefix(Answered, Pongs(d)))

Answers ==
  /\ outbox \in Seq(MsgType)
  /\ rpc = "next" => ret = "true"
  /\ Received => got \in MsgType
  /\ Unanswered => lpc \notin InLoop
  /\ \E d : Dealt(d)

LEMMA PongsType ==
  ASSUME NEW d \in Seq(MsgType)
  PROVE  /\ Pings(d) \in Seq(MsgType) /\ Pongs(d) \in Seq(MsgType)
         /\ Len(Pongs(d)) = Len(Pings(d))
         /\ \A i \in 1..Len(Pings(d)) : Pongs(d)[i] = Pong(Pings(d)[i])
<1>1. Len(d) <= Len(d)
  OBVIOUS
<1>2. Pings(d) \in Seq(MsgType)
  BY <1>1, OfTypePrefix DEF Pings
<1>3. \A m \in MsgType : Pong(m) \in MsgType
  BY DEF Pong, MsgType, OPCODE_PONG
<1>4. Len(Pings(d)) \in Nat /\ \A i \in 1..Len(Pings(d)) : Pong(Pings(d)[i]) \in MsgType
  BY <1>2, <1>3
<1> HIDE DEF Pings
<1> QED
  BY <1>2, <1>4 DEF Pongs

LEMMA PongsAppend ==
  ASSUME NEW d \in Seq(MsgType), NEW m \in MsgType
  PROVE  Pongs(Append(d, m)) = IF m.type = OPCODE_PING THEN Append(Pongs(d), Pong(m)) ELSE Pongs(d)
<1>1. Pings(Append(d, m)) = IF m.type = OPCODE_PING THEN Append(Pings(d), m) ELSE Pings(d)
  BY OfTypeAppend DEF Pings
<1>2. /\ Pings(d) \in Seq(MsgType) /\ Pongs(d) \in Seq(MsgType)
      /\ Len(Pongs(d)) = Len(Pings(d)) /\ Len(Pings(d)) \in Nat
      /\ \A i \in 1..Len(Pings(d)) : Pongs(d)[i] = Pong(Pings(d)[i])
  BY PongsType
<1>3. CASE m.type # OPCODE_PING
  BY Zenon, <1>1, <1>3 DEF Pongs
<1>4. CASE m.type = OPCODE_PING
  <2> DEFINE n == Len(Pings(d))
  <2>1. /\ Len(Append(Pings(d), m)) = n + 1
        /\ \A i \in 1..n : Append(Pings(d), m)[i] = Pings(d)[i]
        /\ Append(Pings(d), m)[n + 1] = m
    BY <1>2, AppendProperties
  <2>2. Pong(m) \in MsgType
    BY DEF Pong, MsgType, OPCODE_PONG
  <2>3. /\ Append(Pongs(d), Pong(m)) \in Seq(MsgType)
        /\ Len(Append(Pongs(d), Pong(m))) = n + 1
        /\ \A i \in 1..n : Append(Pongs(d), Pong(m))[i] = Pongs(d)[i]
        /\ Append(Pongs(d), Pong(m))[n + 1] = Pong(m)
    BY <1>2, <2>2, AppendProperties
  <2>4. Append(d, m) \in Seq(MsgType)
    OBVIOUS
  <2>5. /\ Pongs(Append(d, m)) \in Seq(MsgType) /\ Len(Pongs(Append(d, m))) = n + 1
        /\ \A i \in 1..(n + 1) : Pongs(Append(d, m))[i] = Pong(Append(Pings(d), m)[i])
    <3>1. /\ Pongs(Append(d, m)) \in Seq(MsgType)
          /\ Len(Pongs(Append(d, m))) = Len(Pings(Append(d, m)))
          /\ \A i \in 1..Len(Pings(Append(d, m))) :
               Pongs(Append(d, m))[i] = Pong(Pings(Append(d, m))[i])
      BY ONLY Zenon, <2>4, PongsType
    <3>2. Pings(Append(d, m)) = Append(Pings(d), m)
      BY ONLY <1>1, <1>4
    <3> QED
      BY ONLY Zenon, <2>1, <3>1, <3>2
  <2>6. ASSUME NEW i \in 1..(n + 1) PROVE Pongs(Append(d, m))[i] = Append(Pongs(d), Pong(m))[i]
    <3>1. CASE i \in 1..n
      BY Zenon, <1>2, <2>1, <2>3, <2>5, <3>1
    <3>2. CASE i = n + 1
      BY Zenon, <2>1, <2>3, <2>5, <3>2
    <3> QED
      BY <1>2, <3>1, <3>2
  <2>7. Pongs(Append(d, m)) = Append(Pongs(d), Pong(m))
    BY <2>3, <2>5, <2>6, SeqEqual
  <2> QED
    BY Zenon, <1>4, <2>7
<1> QED
  BY <1>3, <1>4

LEMMA InitAnswers == ClientInit => Answers
<1> SUFFICES ASSUME ClientInit PROVE Answers
  OBVIOUS
<1>1. /\ outbox = <<>> /\ cbs = <<>> /\ delivered = <<>> /\ why = "none" /\ lpc = "start"
      /\ rpc = "idle"
  BY DEF ClientInit, Init
<1>2. <<>> \in Seq(MsgType) /\ ~Received /\ ~Unanswered /\ rpc # "next"
  BY <1>1 DEF Received, Unanswered
<1>3. Pings(<<>>) = <<>> /\ OfType(<<>>, Data) = <<>> /\ Answered = <<>>
  BY <1>1, OfTypeEmpty DEF Pings, Answered
<1>4. Pongs(<<>>) = <<>>
  BY <1>3 DEF Pongs
<1>5. Dealt(<<>>)
  BY Zenon, <1>1, <1>2, <1>3, <1>4 DEF Dealt
<1> QED
  BY Zenon, <1>1, <1>2, <1>5 DEF Answers

(* Nothing the invariant speaks of changes. *)
LEMMA AnswersKept ==
  ASSUME Answers, UNCHANGED <<delivered, outbox, cbs, why, got, ret, rpc, lpc>>
  PROVE  Answers'
  BY Zenon DEF Answers, Dealt, Received, Answered, Unanswered

(* The listener goes on without a message in its hands. *)
LEMMA AnswersMoved ==
  ASSUME Answers, ~Received, UNCHANGED <<delivered, outbox, cbs, got, ret, rpc>>,
         lpc' # "dispatch",
         why' = why \/ (~Unanswered /\ ~Unanswered'), Unanswered' => lpc' \notin InLoop
  PROVE  Answers'
<1>1. ~Received'
  BY DEF Received
<1>2. PICK d : Dealt(d)
  BY DEF Answers
<1>3. Answered' = Answered
  BY Zenon DEF Answered
<1>4. Dealt(d)'
  BY Zenon, <1>1, <1>2, <1>3 DEF Dealt, Unanswered
<1> QED
  BY Zenon, <1>1, <1>4 DEF Answers

(* The listener is done with the message in its hands. *)
LEMMA AnswersDone ==
  ASSUME Answers, Received, UNCHANGED <<delivered, got, ret, rpc>>,
         lpc' # "dispatch", outbox' \in Seq(MsgType),
         cbs' = IF got.type \in Data THEN Append(cbs, got) ELSE cbs,
         \/ /\ Answered' = IF got.type = OPCODE_PING THEN Append(Answered, Pong(got)) ELSE Answered
            /\ ~Unanswered'
         \/ Answered' = Answered /\ Unanswered' /\ lpc' \notin InLoop,
         lpc \in InLoop
  PROVE  Answers'
<1>1. ~Received'
  BY DEF Received
<1>2. PICK d : Dealt(d)
  BY DEF Answers
<1>3. /\ d \in Seq(MsgType) /\ got \in MsgType /\ delivered = Append(d, got)
      /\ cbs = OfType(d, Data) /\ Answered = Pongs(d)
  BY Zenon, <1>2 DEF Dealt, Answers
<1>4. delivered \in Seq(MsgType)
  BY <1>3
<1>5. cbs' = OfType(delivered, Data)
  BY <1>3, OfTypeAppend
<1>6. Pongs(delivered) = IF got.type = OPCODE_PING THEN Append(Pongs(d), Pong(got)) ELSE Pongs(d)
  BY <1>3, PongsAppend
<1>7. Answered' = Pongs(delivered) \/ (Unanswered' /\ IsPrefix(Answered', Pongs(delivered)))
  <2>1. CASE Answered' = Answered /\ Unanswered'
    <3>1. /\ Pongs(d) \in Seq(MsgType) /\ Pongs(delivered) \in Seq(MsgType)
          /\ Len(Pongs(d)) \in Nat
      <4>1. Pongs(d) \in Seq(MsgType) /\ Pongs(delivered) \in Seq(MsgType)
        BY Zenon, <1>3, <1>4, PongsType
      <4> QED
        BY <4>1
    <3>2. /\ Len(Pongs(d)) <= Len(Pongs(delivered))
          /\ \A i \in 1..Len(Pongs(d)) : Pongs(d)[i] = Pongs(delivered)[i]
      <4>1. Pong(got) \in MsgType
        BY <1>3 DEF Pong, MsgType, OPCODE_PONG
      <4>2. /\ Len(Append(Pongs(d), Pong(got))) = Len(Pongs(d)) + 1
            /\ \A i \in 1..Len(Pongs(d)) : Append(Pongs(d), Pong(got))[i] = Pongs(d)[i]
        BY <3>1, <4>1, AppendProperties
      <4> QED
        BY <1>6, <3>1, <4>2
    <3>3. IsPrefix(Pongs(d), Pongs(delivered))
      BY <3>1, <3>2, PrefixByIndex
    <3> QED
      BY Zenon, <1>3, <2>1, <3>3
  <2> QED
    BY Zenon, <1>3, <1>6, <2>1
<1>8. Dealt(delivered)'
  <2>1. delivered' = delivered
    OBVIOUS
  <2> QED
    BY Zenon, <1>1, <1>4, <1>5, <1>7, <2>1 DEF Dealt, Pongs, Pings
<1> QED
  BY Zenon, <1>1, <1>8 DEF Answers

LEMMA ReadMsgAnswers ==
  ASSUME IInv, ReaderInv, Answers, ReadMsg PROVE Answers'
<1>1. lpc = "msg" /\ lpc \in InLoop /\ ptr = "set" /\ mem = "live"
  BY DEF ReadMsg, IInv, Ownership, Owned, InLoop
<1>2. /\ ReaderStep /\ lpc' = (IF rpc' = "idle" THEN "dispatch" ELSE "msg")
      /\ UNCHANGED <<outbox, cbs, why>>
  BY <1>1 DEF ReadMsg, Valid
<1>3. ~Received /\ ~Unanswered
  BY <1>1 DEF Received, Answers
<1>4. PICK d : Dealt(d)
  BY DEF Answers
<1>5. delivered = d /\ d \in Seq(MsgType) /\ cbs = OfType(d, Data) /\ Answered = Pongs(d)
  BY Zenon, <1>3, <1>4 DEF Dealt
<1>6. Answered' = Answered
  BY Zenon, <1>2 DEF Answered
<1>7. /\ rpc' = "next" => ret' = "true"
      /\ \/ delivered' = delivered /\ (rpc' = "idle" => ret' = "false" \/ got' = NoMsg)
         \/ /\ NextMsg /\ ret' = "true" /\ rpc' = "idle"
            /\ got' \in MsgType /\ got' # NoMsg /\ delivered' = Append(delivered, got')
  BY <1>2, ReaderStepResult DEF Answers
<1>8. CASE delivered' = delivered /\ (rpc' = "idle" => ret' = "false" \/ got' = NoMsg)
  <2>1. ~Received'
    BY <1>2, <1>8 DEF Received
  <2>2. Dealt(d)'
    BY Zenon, <1>2, <1>5, <1>6, <1>8, <2>1 DEF Dealt
  <2> QED
    BY Zenon, <1>2, <1>3, <1>7, <2>1, <2>2 DEF Answers, Unanswered
<1>9. CASE /\ NextMsg /\ ret' = "true" /\ rpc' = "idle"
           /\ got' \in MsgType /\ got' # NoMsg /\ delivered' = Append(delivered, got')
  <2>1. Received'
    BY <1>2, <1>9 DEF Received
  <2>2. Dealt(d)'
    BY Zenon, <1>2, <1>5, <1>6, <1>9, <2>1 DEF Dealt
  <2> QED
    BY Zenon, <1>2, <1>3, <1>7, <1>9, <2>1, <2>2 DEF Answers, Unanswered
<1> QED
  BY <1>7, <1>8, <1>9

LEMMA DispatchAnswers ==
  ASSUME IInv, Answers, OnClose \/ OnPing \/ PongFails \/ OnData \/ OnOther PROVE Answers'
<1>1. /\ Received /\ lpc \in InLoop /\ ptr = "set" /\ mem = "live" /\ ~Unanswered
      /\ outbox \in Seq(MsgType) /\ got \in MsgType
  BY DEF OnClose, OnPing, PongFails, OnData, OnOther, Received, IInv, Ownership, Owned, InLoop,
     Answers
<1>2. /\ UNCHANGED <<delivered, got, ret, rpc>> /\ lpc' \in {"dispatch", "check", "free"}
  BY DEF OnClose, OnPing, PongFails, OnData, OnOther, Leave, vars, readerVars, ghostVars,
         Received
<1>3. OPCODE_PING \notin Data /\ OPCODE_CLOSE \notin Data /\ OPCODE_CLOSE # OPCODE_PING
      /\ CallbackTypes = Data
  BY DEF Data, CallbackTypes, OPCODE_PING, OPCODE_CLOSE, OPCODE_TEXT, OPCODE_BIN
<1>4. UNCHANGED outbox => Answered' = Answered
  BY Zenon DEF Answered
<1>5. CASE OnClose
  <2>1. lpc' # "dispatch" /\ ~Unanswered' /\ UNCHANGED <<outbox, cbs>> /\ got.type = OPCODE_CLOSE
    BY <1>5 DEF OnClose, Leave, Unanswered
  <2> QED
    BY Zenon, <1>1, <1>2, <1>3, <1>4, <2>1, AnswersDone
<1>6. CASE OnOther
  <2>1. lpc' # "dispatch" /\ UNCHANGED <<outbox, cbs, why>>
        /\ got.type # OPCODE_PING /\ got.type \notin Data
    BY <1>3, <1>6 DEF OnOther
  <2> QED
    BY Zenon, <1>1, <1>2, <1>4, <2>1, AnswersDone DEF Unanswered
<1>7. CASE OnData
  <2>1. lpc' # "dispatch" /\ UNCHANGED outbox /\ cbs' = Append(cbs, got) /\ ~Unanswered'
        /\ got.type # OPCODE_PING /\ got.type \in Data
    BY <1>1, <1>3, <1>7 DEF OnData, Leave, Unanswered
  <2> QED
    BY Zenon, <1>1, <1>2, <1>4, <2>1, AnswersDone
<1>8. CASE OnPing
  <2>1. PICK ok \in BOOLEAN :
          /\ net_write("listener", Pong(got), ok)
          /\ IF ok THEN lpc' = "check" /\ UNCHANGED why ELSE Leave("pong")
    BY <1>1, <1>8 DEF OnPing, Valid
  <2>2. got.type = OPCODE_PING /\ got.type \notin Data /\ UNCHANGED cbs
    BY <1>3, <1>8 DEF OnPing
  <2>3. CASE ok
    <3>1. outbox' = Append(outbox, Pong(got)) /\ lpc' # "dispatch" /\ ~Unanswered'
      BY <1>1, <2>1, <2>3 DEF net_write, Unanswered
    <3>2. Pong(got) \in MsgType /\ Pong(got).type = OPCODE_PONG
      BY <1>1 DEF Pong, MsgType, OPCODE_PONG
    <3>3. outbox' \in Seq(MsgType)
      BY <1>1, <3>1, <3>2
    <3>4. Answered' = Append(Answered, Pong(got))
      BY <1>1, <3>1, <3>2, OfTypeAppend DEF Answered
    <3> QED
      BY Zenon, <1>1, <1>2, <2>2, <3>1, <3>3, <3>4, AnswersDone
  <2>4. CASE ~ok
    <3>1. UNCHANGED outbox /\ lpc' = "free" /\ Unanswered'
      BY <2>1, <2>4 DEF net_write, Leave, Unanswered
    <3>2. lpc' # "dispatch" /\ lpc' \notin InLoop
      BY <3>1 DEF InLoop
    <3> QED
      BY Zenon, <1>1, <1>2, <1>4, <2>2, <3>1, <3>2, AnswersDone
  <2> QED
    BY <2>3, <2>4
<1>9. CASE PongFails
  <2>1. /\ UNCHANGED <<outbox, cbs>> /\ lpc' = "free" /\ Unanswered'
        /\ got.type = OPCODE_PING /\ got.type \notin Data
    BY <1>3, <1>9 DEF PongFails, Leave, Unanswered
  <2>2. lpc' # "dispatch" /\ lpc' \notin InLoop
    BY <2>1 DEF InLoop
  <2> QED
    BY Zenon, <1>1, <1>2, <1>4, <2>1, <2>2, AnswersDone
<1> QED
  BY <1>5, <1>6, <1>7, <1>8, <1>9

LEMMA NextAnswers ==
  ASSUME IInv, ReaderInv, Answers, [ClientNext]_allVars PROVE Answers'
<1>1. CASE ReadMsg
  BY <1>1, ReadMsgAnswers
<1>2. CASE OnClose \/ OnPing \/ PongFails \/ OnData \/ OnOther
  BY <1>2, DispatchAnswers
<1>3. CASE OnMsg \/ NoMessage \/ CheckFlag
  <2>1. /\ ~Received /\ lpc \in InLoop /\ UNCHANGED <<delivered, outbox, cbs, got, ret, rpc>>
        /\ lpc' # "dispatch" /\ (why' = why \/ ~Unanswered')
    BY <1>3 DEF OnMsg, NoMessage, CheckFlag, Received, Leave, InLoop, vars, readerVars,
       ghostVars, Unanswered
  <2>2. ~Unanswered
    BY <2>1 DEF Answers
  <2> QED
    BY Zenon, <2>1, <2>2, AnswersMoved DEF Unanswered
<1>4. CASE FreeTake \/ FreeClose \/ FreeMem
  <2>1. /\ ~Received /\ UNCHANGED <<delivered, outbox, cbs, got, ret, rpc, why>>
        /\ lpc' # "dispatch" /\ lpc' \notin InLoop
    BY <1>4 DEF FreeTake, FreeClose, FreeMem, Destroy, Received, InLoop, vars, readerVars, ghostVars
  <2> QED
    BY Zenon, <2>1, AnswersMoved
<1>5. CASE \/ User \/ WriteFails \/ WriteLoad
           \/ ShutdownCheck \/ ShutdownFlag \/ ShutdownClose \/ Join
  BY <1>5, AnswersKept DEF User, TypeLine, WriteFails, WriteLoad, ShutdownCheck, ShutdownFlag,
     ShutdownClose, Join, vars, readerVars, ghostVars, listenerVars
<1>6. CASE Env \/ Delivery
  <2>1. UNCHANGED <<delivered, got, ret, rpc>>
    BY <1>6 DEF Env, Delivery, PeerSend, PeerClose, Reset, Arrive, readerVars, ghostVars
  <2> QED
    BY <1>6, <2>1, AnswersKept DEF Env, Delivery, clientVars, listenerVars
<1>7. CASE UNCHANGED allVars
  BY <1>7, AnswersKept DEF allVars, vars, readerVars, ghostVars, clientVars, listenerVars
<1>8. CASE WriteSend
  <2>1. UNCHANGED <<delivered, got, ret, rpc, cbs, lpc, why>>
    BY <1>8 DEF WriteSend, readerVars, ghostVars, listenerVars
  <2>2. CASE UNCHANGED outbox
    BY <2>1, <2>2, AnswersKept
  <2>3. CASE outbox' = Append(outbox, Line(quit))
    <3>1. outbox \in Seq(MsgType)
      BY DEF Answers
    <3>2. Line(quit) \in MsgType /\ Line(quit).type # OPCODE_PONG
      BY DEF Line, MsgType, OPCODE_TEXT, OPCODE_PONG
    <3>3. outbox' \in Seq(MsgType)
      BY <2>3, <3>1, <3>2
    <3>4. Answered' = Answered
      BY <2>3, <3>1, <3>2, OfTypeAppend DEF Answered
    <3>5. Received' = Received
      BY <2>1 DEF Received
    <3>6. PICK d : Dealt(d)
      BY DEF Answers
    <3>7. Dealt(d)'
      BY Zenon, <2>1, <3>4, <3>5, <3>6 DEF Dealt, Unanswered
    <3> QED
      BY Zenon, <2>1, <3>3, <3>5, <3>7 DEF Answers, Unanswered
  <2> QED
    BY <1>8, <2>2, <2>3 DEF WriteSend, net_write
<1> QED
  BY <1>1, <1>2, <1>3, <1>4, <1>5, <1>6, <1>7, <1>8 DEF ClientNext, Listener, Main

LEMMA AnswersInvariance == ClientSpec => []Answers
<1>1. ClientInit => Answers
  BY InitAnswers
<1>2. IInv /\ ReaderInv /\ Answers /\ [ClientNext]_allVars => Answers'
  BY NextAnswers
<1> QED
  BY <1>1, <1>2, Invariance, ClientReader, PTL DEF ClientSpec

LEMMA PrefixTrans ==
  ASSUME NEW S, NEW s \in Seq(S), NEW t \in Seq(S), NEW u \in Seq(S), IsPrefix(s, t),
         Len(t) <= Len(u), \A i \in 1..Len(t) : t[i] = u[i]
  PROVE  IsPrefix(s, u)
<1>1. Len(s) <= Len(t) /\ SubSeq(s, 1, Len(s)) = SubSeq(t, 1, Len(s))
  BY DEF IsPrefix
<1>2. \A i \in 1..Len(s) : SubSeq(s, 1, Len(s))[i] = s[i] /\ SubSeq(t, 1, Len(s))[i] = t[i]
  BY <1>1
<1>3. Len(s) <= Len(u) /\ \A i \in 1..Len(s) : s[i] = u[i]
  BY <1>1, <1>2
<1> QED
  BY <1>3, PrefixByIndex

(* What has been dealt with is a prefix of what the server finished. *)
LEMMA DealtInOrder ==
  ASSUME ReaderInv, ~lost, NEW d, Dealt(d), Received => got \in MsgType
  PROVE  /\ d \in Seq(MsgType) /\ completed \in Seq(MsgType) /\ Len(d) <= Len(completed)
         /\ \A i \in 1..Len(d) : d[i] = completed[i]
<1>1. d \in Seq(MsgType) /\ (delivered = IF Received THEN Append(d, got) ELSE d)
  BY Zenon DEF Dealt
<1>2. /\ completed \in Seq(MsgType) /\ delivered \in Seq(MsgType) /\ msg_queue \in Seq(MsgType)
      /\ Len(completed) \in Nat /\ Len(delivered) \in Nat /\ Len(msg_queue) \in Nat
      /\ Len(d) \in Nat
  BY <1>1 DEF ReaderInv, TypeOK
<1>3. Len(d) <= Len(delivered) /\ \A i \in 1..Len(d) : d[i] = delivered[i]
  <2>1. CASE Received
    BY <1>1, <1>2, <2>1, AppendProperties
  <2>2. CASE ~Received
    BY <1>1, <1>2, <2>2
  <2> QED
    BY <2>1, <2>2
<1>4. Aligned
  BY Zenon DEF ReaderInv
<1>5. Len(delivered) <= Len(completed) /\ \A i \in 1..Len(delivered) : delivered[i] = completed[i]
  BY <1>2, <1>4 DEF Aligned
<1> QED
  BY <1>1, <1>2, <1>3, <1>5

(* End to end, for every interleaving of the two threads and every fault of  *)
(* the connection: while nothing is lost the callback is given the server's  *)
(* data messages in order, and the PONGs on the wire answer its PINGs in     *)
(* order, whatever ws_client_write puts between them.                        *)
THEOREM AnswersCorrect == ClientSpec => []AnswersMatch
<1>1. ReaderInv /\ Answers => AnswersMatch
  <2> SUFFICES ASSUME ReaderInv, Answers, ~lost
               PROVE  /\ IsPrefix(cbs, OfType(completed, Data))
                      /\ IsPrefix(Answered, Pongs(completed))
    BY Zenon DEF AnswersMatch, Data, Answered, Pongs, Pings, Pong
  <2>1. PICK d : Dealt(d)
    BY DEF Answers
  <2>2. /\ d \in Seq(MsgType) /\ completed \in Seq(MsgType) /\ Len(d) <= Len(completed)
        /\ \A i \in 1..Len(d) : d[i] = completed[i]
    BY <2>1, DealtInOrder DEF Answers
  <2>3. IsPrefix(cbs, OfType(completed, Data))
    <3>1. /\ OfType(d, Data) \in Seq(MsgType) /\ OfType(completed, Data) \in Seq(MsgType)
          /\ Len(OfType(d, Data)) <= Len(OfType(completed, Data))
          /\ \A i \in 1..Len(OfType(d, Data)) : OfType(d, Data)[i] = OfType(completed, Data)[i]
      BY <2>2, OfTypePrefix
    <3>2. IsPrefix(OfType(d, Data), OfType(completed, Data))
      BY <3>1, PrefixByIndex
    <3> QED
      BY Zenon, <2>1, <3>2 DEF Dealt
  <2>4. /\ Pongs(d) \in Seq(MsgType) /\ Pongs(completed) \in Seq(MsgType)
        /\ Len(Pongs(d)) <= Len(Pongs(completed))
        /\ \A i \in 1..Len(Pongs(d)) : Pongs(d)[i] = Pongs(completed)[i]
    <3>1. /\ Pings(d) \in Seq(MsgType) /\ Pings(completed) \in Seq(MsgType)
          /\ Len(Pings(d)) <= Len(Pings(completed))
          /\ \A i \in 1..Len(Pings(d)) : Pings(d)[i] = Pings(completed)[i]
      BY <2>2, OfTypePrefix DEF Pings
    <3>2. /\ Pongs(d) \in Seq(MsgType) /\ Len(Pongs(d)) = Len(Pings(d))
          /\ \A i \in 1..Len(Pings(d)) : Pongs(d)[i] = Pong(Pings(d)[i])
      BY <2>2, PongsType
    <3>3. /\ Pongs(completed) \in Seq(MsgType) /\ Len(Pongs(completed)) = Len(Pings(completed))
          /\ \A i \in 1..Len(Pings(completed)) : Pongs(completed)[i] = Pong(Pings(completed)[i])
      BY <2>2, PongsType
    <3>4. 1..Len(Pings(d)) \subseteq 1..Len(Pings(completed))
      BY <3>1
    <3> HIDE DEF Pings, Pongs
    <3> QED
      BY Zenon, <3>1, <3>2, <3>3, <3>4
  <2>5. IsPrefix(Pongs(d), Pongs(completed))
    BY <2>4, PrefixByIndex
  <2>6. CASE Answered = Pongs(d)
    BY Zenon, <2>3, <2>5, <2>6
  <2>7. CASE IsPrefix(Answered, Pongs(d))
    <3>1. Answered \in Seq(MsgType)
      <4>1. outbox \in Seq(MsgType) /\ Len(outbox) <= Len(outbox)
        BY DEF Answers
      <4> QED
        BY <4>1, OfTypePrefix DEF Answered
    <3>2. IsPrefix(Answered, Pongs(completed))
      BY <2>4, <2>7, <3>1, PrefixTrans
    <3> QED
      BY <2>3, <3>2
  <2> QED
    BY Zenon, <2>1, <2>6, <2>7 DEF Dealt
<1> QED
  BY <1>1, AnswersInvariance, ClientReader, PTL

(* When the listener waits for the next message, every earlier one has been  *)
(* given to the callback, answered or passed over for its type.              *)
THEOREM NothingSkippedCorrect == ClientSpec => []NothingSkipped
<1>1. Answers => NothingSkipped
  <2> SUFFICES ASSUME Answers, lpc = "msg"
               PROVE  /\ cbs = OfType(delivered, Data)
                      /\ Len(Answered) = Len(Pings(delivered))
    BY Zenon DEF NothingSkipped, Data, Answered, Pings
  <2>1. PICK d : Dealt(d)
    BY DEF Answers
  <2>2. ~Received /\ ~Unanswered
    BY DEF Received, Answers, InLoop
  <2>3. delivered = d /\ d \in Seq(MsgType) /\ cbs = OfType(d, Data) /\ Answered = Pongs(d)
    BY Zenon, <2>1, <2>2 DEF Dealt
  <2>4. Len(Pongs(d)) = Len(Pings(d))
    BY <2>3, PongsType
  <2> QED
    BY Zenon, <2>3, <2>4
<1> QED
  BY <1>1, AnswersInvariance, PTL

(* The guarantee of module Reader holds inside the client too: neither the   *)
(* writes nor the closes of the two threads come between the reader and its  *)
(* stream.                                                                   *)
THEOREM ClientIntegrity == ClientSpec => []Integrity
<1>1. ReaderInv => Integrity
  BY ReaderInvIntegrity
<1> QED
  BY <1>1, ClientReader, PTL

----------------------------------------------------------------------------
(* When the loop ends without a message *)

(* Nothing more can come, a message has begun, or one could not be           *)
(* assembled.                                                                *)
Excused == conn # "up" \/ frame_queue # <<>> \/ lost

Listening ==
  /\ why # "none" => lpc \notin InLoop
  /\ rpc = "next" /\ msg_queue = <<>> => Excused
  /\ lpc = "dispatch" /\ ret = "true" /\ got = NoMsg => Excused
  /\ KeepsListening

LEMMA ListeningKept ==
  ASSUME Listening, UNCHANGED <<rpc, msg_queue, frame_queue, lost, ret, got, is_open>>,
         lpc' = "dispatch" => lpc = "dispatch",
         conn' # conn => conn' # "up", fd' => fd,
         why' = why \/ why' \notin {"null", "pong"}, why' # "none" => lpc' \notin InLoop
  PROVE  Listening'
<1>1. Excused => Excused'
  BY DEF Excused
<1>2. KeepsListening'
  BY DEF Listening, KeepsListening
<1> QED
  BY Zenon, <1>1, <1>2 DEF Listening

(* ws_reader_handle returns true without a message at the end of the stream, *)
(* with a fragment, or when it could not assemble the message.               *)
LEMMA EmptyHanded ==
  ASSUME ReaderInv, ReaderStep, ~NextMsg
  PROVE  /\ rpc' = "next" /\ msg_queue' = <<>> => Excused'
         /\ rpc' = "idle" => ret' = "false"
<1>1. CASE HandleCall
  BY <1>1 DEF HandleCall, Return
<1>2. ASSUME NEW e \in FramesAtPos, PeekHeader(e)
      PROVE  rpc' # "next" /\ (rpc' = "idle" => ret' = "false")
  BY <1>2 DEF PeekHeader, Return
<1>3. CASE PeekNothing
  BY <1>3 DEF PeekNothing, Return, Excused
<1>4. CASE ReadReturns
  <2>1. rpc = "read"
    BY <1>4 DEF ReadReturns, ReadFails, ReadShort, ReadBodyFails, ReadControl,
                ReadLast, ReadFragment, PushFails, ConstructFails, ReadWhole
  <2>2. /\ msg_queue = <<>> /\ msg_queue \in Seq(MsgType) /\ frame_queue \in Seq(Fragment)
        /\ Entry \in Fragment
    BY <2>1, ReadingFacts DEF ReaderInv, TypeOK, Fragment
  <2>3. \A m : Append(msg_queue, m) # <<>>
    BY <2>2
  <2>4. Append(frame_queue, Entry) # <<>>
    BY <2>2, AppendProperties
  <2>5. CASE ReadFails
    BY <2>3, <2>5 DEF ReadFails, Return
  <2>6. CASE ReadShort \/ ReadBodyFails \/ PushFails
    BY <2>6 DEF ReadShort, ReadBodyFails, PushFails, Return
  <2>7. CASE ReadControl \/ ReadLast
    BY <2>3, <2>7 DEF ReadControl, ReadLast, Return
  <2>8. CASE ReadFragment
    BY <2>4, <2>8 DEF ReadFragment, Return, Excused
  <2>9. CASE ConstructFails
    BY <2>9 DEF ConstructFails, Return, Excused
  <2> QED
    BY <1>4, <2>5, <2>6, <2>7, <2>8, <2>9 DEF ReadReturns
<1> QED
  BY <1>1, <1>2, <1>3, <1>4 DEF ReaderStep

LEMMA ReadMsgListening ==
  ASSUME IInv, ReaderInv, Answers, Listening, ReadMsg
  PROVE  Listening'
<1>1. lpc = "msg" /\ lpc \in InLoop /\ ptr = "set" /\ mem = "live" /\ why = "none"
  BY DEF ReadMsg, IInv, Ownership, Owned, InLoop, Listening
<1>2. /\ ReaderStep /\ lpc' = (IF rpc' = "idle" THEN "dispatch" ELSE "msg") /\ why' = "none"
  BY <1>1 DEF ReadMsg, Valid
<1>3. KeepsListening'
  BY <1>2 DEF KeepsListening
<1>4. CASE NextMsg
  <2>1. rpc = "next" /\ rpc' # "next" /\ UNCHANGED <<conn, frame_queue, lost>>
    BY <1>4 DEF NextMsg
  <2>2. CASE msg_queue = <<>>
    <3>1. Excused'
      BY <2>1, <2>2 DEF Listening, Excused
    <3> QED
      BY Zenon, <1>2, <1>3, <2>1, <3>1 DEF Listening
  <2>3. CASE msg_queue # <<>>
    <3>1. got' # NoMsg
      <4>1. msg_queue \in Seq(MsgType)
        BY DEF ReaderInv, TypeOK
      <4>2. Head(msg_queue) \in MsgType
        BY <2>3, <4>1, HeadTailProperties
      <4>3. \A m \in MsgType : m # NoMsg
        BY DEF MsgType, NoMsg
      <4> QED
        BY <1>4, <2>3, <4>2, <4>3 DEF NextMsg
    <3> QED
      BY Zenon, <1>2, <1>3, <2>1, <3>1 DEF Listening
  <2> QED
    BY <2>2, <2>3
<1>5. CASE ~NextMsg
  <2>1. /\ rpc' = "next" /\ msg_queue' = <<>> => Excused'
        /\ rpc' = "idle" => ret' = "false"
    BY <1>2, <1>5, EmptyHanded
  <2>2. lpc' = "dispatch" => ret' # "true"
    BY <1>2, <2>1
  <2> QED
    BY Zenon, <1>2, <1>3, <2>1, <2>2 DEF Listening
<1> QED
  BY <1>4, <1>5

LEMMA NextListening ==
  ASSUME IInv, ReaderInv, Answers, Listening, [ClientNext]_allVars
  PROVE  Listening'
<1>1. CASE ReadMsg
  BY <1>1, ReadMsgListening
<1>2. CASE NoMessage
  <2>1. /\ UNCHANGED <<conn, fd, rpc, msg_queue, frame_queue, lost, ret, got, is_open>>
        /\ lpc' = "free" /\ lpc = "dispatch" /\ why' \in {"failed", "null"}
        /\ why' = "null" => ret = "true" /\ got = NoMsg
    BY <1>2 DEF NoMessage, Leave, vars, readerVars, ghostVars
  <2>2. /\ lpc' # "dispatch" /\ lpc' \notin InLoop /\ why' # "pong"
    BY <2>1 DEF InLoop
  <2>3. Excused => Excused'
    BY <2>1 DEF Excused
  <2>4. why' = "null" => Excused'
    BY Zenon, <2>1, <2>3 DEF Listening
  <2>5. KeepsListening'
    BY <2>1, <2>4 DEF KeepsListening, Excused
  <2> QED
    BY Zenon, <2>1, <2>2, <2>3, <2>5 DEF Listening
<1>3. CASE OnPing
  <2>1. /\ UNCHANGED <<fd, rpc, msg_queue, frame_queue, lost, ret, got, is_open>>
        /\ lpc = "dispatch" /\ lpc \in InLoop /\ ptr = "set" /\ mem = "live"
        /\ got.type = OPCODE_PING
    BY <1>3 DEF OnPing, Received, readerVars, ghostVars, IInv, Ownership, Owned, InLoop
  <2>2. PICK ok \in BOOLEAN :
          /\ net_write("listener", Pong(got), ok)
          /\ IF ok THEN lpc' = "check" /\ UNCHANGED why ELSE Leave("pong")
    BY <1>3, <2>1 DEF OnPing, Valid
  <2>3. why = "none"
    BY <2>1 DEF Listening
  <2>4. CASE ok
    <3>1. /\ conn' = conn /\ lpc' # "dispatch" /\ why' = why
      BY <2>2, <2>4 DEF net_write
    <3> QED
      BY <2>1, <2>3, <3>1, ListeningKept
  <2>5. CASE ~ok
    <3>1. /\ (conn' # "up" \/ ~fd') /\ (conn' # conn => conn' # "up")
          /\ lpc' = "free" /\ why' = "pong"
      BY <2>1, <2>2, <2>5 DEF net_write, Leave
    <3>2. KeepsListening'
      BY <3>1 DEF KeepsListening
    <3>3. Excused => Excused'
      BY <2>1, <3>1 DEF Excused
    <3>4. lpc' \notin InLoop /\ lpc' # "dispatch"
      BY <3>1 DEF InLoop
    <3> QED
      BY Zenon, <2>1, <3>2, <3>3, <3>4 DEF Listening
  <2> QED
    BY <2>4, <2>5
<1>4. CASE OnMsg \/ OnClose \/ PongFails \/ OnData \/ OnOther \/ CheckFlag
  <2>1. /\ UNCHANGED <<conn, fd, rpc, msg_queue, frame_queue, lost, ret, got, is_open>>
        /\ lpc \in InLoop /\ lpc' # "dispatch"
        /\ why' = why \/ (lpc' = "free" /\ why' \notin {"null", "pong"})
    BY <1>4 DEF OnMsg, OnClose, PongFails, OnData, OnOther, CheckFlag, Received, Leave, vars,
       readerVars, ghostVars, InLoop
  <2>2. why = "none"
    BY <2>1 DEF Listening
  <2>3. why' # "none" => lpc' \notin InLoop
    BY <2>1, <2>2 DEF InLoop
  <2> QED
    BY <2>1, <2>3, ListeningKept
<1>5. CASE FreeTake \/ FreeClose
  <2>1. /\ UNCHANGED <<conn, rpc, msg_queue, frame_queue, lost, ret, got, is_open, why>>
        /\ (fd' => fd) /\ lpc' # "dispatch" /\ lpc' \notin InLoop
    BY <1>5 DEF FreeTake, FreeClose, net_close, vars, readerVars, ghostVars, InLoop
  <2> QED
    BY <2>1, ListeningKept
<1>6. CASE FreeMem
  <2>1. rpc' # "next" /\ lpc' # "dispatch" /\ lpc' \notin InLoop /\ ~is_open'
    BY <1>6 DEF FreeMem, Destroy, InLoop
  <2> QED
    BY Zenon, <2>1 DEF Listening, KeepsListening
<1>7. CASE User \/ Main
  <2>1. /\ UNCHANGED <<rpc, msg_queue, frame_queue, lost, ret, got, is_open, lpc, why>>
        /\ (fd' => fd) /\ (conn' # conn => conn' # "up")
    BY <1>7 DEF User, TypeLine, Main, WriteFails, WriteLoad, WriteSend, net_write,
       ShutdownCheck, ShutdownFlag, ShutdownClose, net_close, Join, vars, readerVars, ghostVars, listenerVars
  <2>2. why' # "none" => lpc' \notin InLoop
    BY <2>1 DEF Listening
  <2> QED
    BY <2>1, <2>2, ListeningKept
<1>8. CASE Env \/ Delivery \/ UNCHANGED allVars
  <2>1. /\ UNCHANGED <<rpc, msg_queue, frame_queue, lost, ret, got, is_open, fd>>
        /\ conn' # conn => conn' # "up"
    BY <1>8 DEF Env, Delivery, PeerSend, PeerClose, Reset, Arrive, allVars, vars, readerVars,
       ghostVars
  <2>2. UNCHANGED <<lpc, why>>
    BY <1>8 DEF Env, Delivery, allVars, clientVars, listenerVars
  <2>3. why' # "none" => lpc' \notin InLoop
    BY <2>2 DEF Listening
  <2> QED
    BY <2>1, <2>2, <2>3, ListeningKept
<1> QED
  BY <1>1, <1>2, <1>3, <1>4, <1>5, <1>6, <1>7, <1>8 DEF ClientNext, Listener

(* Taking a missing message or a PONG that cannot be sent for the end, the   *)
(* loop of ws_client_on_msg does not give up a connection that is up, except *)
(* over a fragment and over a message that could not be assembled.           *)
THEOREM KeepsListeningCorrect == ClientSpec => []KeepsListening
<1>1. ClientInit => Listening
  BY DEF ClientInit, Init, Listening, KeepsListening, Excused
<1>2. IInv /\ ReaderInv /\ Answers /\ Listening /\ [ClientNext]_allVars => Listening'
  BY NextListening
<1>3. Listening => KeepsListening
  BY DEF Listening
<1> QED
  BY <1>1, <1>2, <1>3, Invariance, ClientReader, AnswersInvariance, PTL DEF ClientSpec
=============================================================================
