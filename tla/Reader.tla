------------------------------- MODULE Reader -------------------------------
(***************************************************************************)
(* The message reader of src/src/reader.c on a TCP connection, driven the  *)
(* way ws_client_next_msg drives it: ws_reader_handle takes one frame off  *)
(* the socket, and when it returns true ws_reader_next_msg takes one       *)
(* message off the message queue.                                          *)
(*                                                                         *)
(* The peer is a server that follows the protocol: fragments of a message  *)
(* are not mixed with those of another, control frames may come between    *)
(* them, nothing follows a CLOSE.  What it sent is a stream of bytes in    *)
(* which frame i starts at offset sent[i].at; the socket holds the bytes   *)
(* pos .. arrived-1 of it.  A payload is abstracted to the number of the   *)
(* frame that carried it, and a message body to the sequence of these.     *)
(***************************************************************************)
EXTENDS Frame, SequencesExt

CONSTANTS
  Frames,    \* the frames the peer may send
  MaxFrames, \* how many it sends at most
  Faults     \* what may go wrong: a subset of AllFaults

(* "segment": TCP delivers the stream in arbitrary pieces instead of frame by *)
(* frame; "reset": the connection is reset; "close": another thread closes    *)
(* the descriptor; "alloc": an allocation behind a queue, an array or a frame *)
(* fails.                                                                     *)
AllFaults == {"segment", "reset", "close", "alloc"}

ASSUME FramesAssumption == \A f \in Frames : f \in FrameType /\ Fits64(f.len)
ASSUME MaxFramesAssumption == MaxFrames \in Nat
ASSUME FaultsAssumption == Faults \subseteq AllFaults

VARIABLES
  sent,        \* the peer's frames: records [f, at, done, rest]
  open,        \* the fragments of the message the peer has not finished
  completed,   \* the messages the peer has finished, in order
  total,       \* bytes the peer has sent
  arrived,     \* bytes of the stream that reached the socket
  conn,        \* "up", "eof" (closed by the peer), "reset" or "dead"
  fd,          \* the descriptor is open
  pos,         \* bytes of the stream that net_read consumed
  frame_queue, \* ws_reader_t.frame_queue
  msg_queue,   \* ws_reader_t.msg_queue
  is_open,     \* the reader exists
  rpc,         \* where the caller is: "idle", "peek", "read" or "next"
  hdr,         \* the header that was peeked
  ret,         \* what ws_reader_handle returned last
  got,         \* what ws_reader_next_msg returned last
  delivered,   \* all messages ws_reader_next_msg returned
  nread,       \* how many frames were consumed
  lost         \* something the peer sent will be missing from the messages

peerVars == <<sent, open, completed, total>>
readerVars == <<frame_queue, msg_queue, is_open, rpc, hdr, ret, got>>
ghostVars == <<delivered, nread, lost>>
vars == <<peerVars, arrived, conn, fd, pos, readerVars, ghostVars>>

NoHdr == [err |-> "none"]
NoMsg == [type |-> -1, body |-> <<>>]
NoRet == "none"

(* Bytes a frame takes on the wire, as the peer lays it out. *)
WireLen(f) == PayloadOffset(f) + f.len

----------------------------------------------------------------------------
(* Messages.  The peer gives a message the opcode of its first fragment. *)
Bodies(fs) == [i \in 1..Len(fs) |-> fs[i].id]

PeerMsg(fs) == [type |-> fs[1].opcode, body |-> Bodies(fs)]

(* construct_msg_from_frames: the last opcode that is not a continuation. *)
LastOpcodeAnyFrame(fs) == IF fs = <<>> THEN OPCODE_CONT ELSE fs[Len(fs)].opcode
LastOpcode(fs) ==
  LET named == {i \in 1..Len(fs) : fs[i].opcode # OPCODE_CONT}
  IN IF named = {} THEN OPCODE_CONT
     ELSE fs[CHOOSE i \in named : \A j \in named : j <= i].opcode

construct_msg(fs) == [type |-> LastOpcode(fs), body |-> Bodies(fs)]

----------------------------------------------------------------------------
Init ==
  /\ sent = <<>> /\ open = <<>> /\ completed = <<>> /\ total = 0
  /\ arrived = 0 /\ conn = "up" /\ fd = TRUE /\ pos = 0
  /\ frame_queue = <<>> /\ msg_queue = <<>> /\ is_open = TRUE
  /\ rpc = "idle" /\ hdr = NoHdr /\ ret = NoRet /\ got = NoMsg
  /\ delivered = <<>> /\ nread = 0 /\ lost = FALSE

----------------------------------------------------------------------------
(* The peer and the network. *)

(* A protocol-abiding choice of the next frame. *)
MaySend(f) ==
  /\ conn = "up"
  /\ Len(sent) < MaxFrames
  /\ \A i \in 1..Len(sent) : sent[i].f.opcode # OPCODE_CLOSE
  /\ IF f.opcode >= OPCODE_CLOSE
     THEN f.fin = 1
     ELSE f.opcode = OPCODE_CONT <=> open # <<>>

PeerSend(f) ==
  LET e   == [id |-> Len(sent) + 1, opcode |-> f.opcode]
      fs  == Append(open, e)
      cs  == IF f.opcode >= OPCODE_CLOSE THEN Append(completed, PeerMsg(<<e>>))
             ELSE IF f.fin = 1 THEN Append(completed, PeerMsg(fs)) ELSE completed
      now == IF f.opcode >= OPCODE_CLOSE THEN open
             ELSE IF f.fin = 1 THEN <<>> ELSE fs
  IN /\ MaySend(f)
     /\ sent' = Append(sent, [f |-> f, at |-> total, done |-> Len(cs), rest |-> now])
     /\ completed' = cs
     /\ open' = now
     /\ total' = total + WireLen(f)
     /\ arrived' = IF "segment" \in Faults THEN arrived ELSE total'
     /\ UNCHANGED <<conn, fd, pos, readerVars, ghostVars>>

Arrive(n) ==
  /\ "segment" \in Faults
  /\ conn \in {"up", "eof"}
  /\ arrived + n <= total
  /\ arrived' = arrived + n
  /\ UNCHANGED <<peerVars, conn, fd, pos, readerVars, ghostVars>>

PeerClose ==
  /\ conn = "up"
  /\ conn' = "eof"
  /\ UNCHANGED <<peerVars, arrived, fd, pos, readerVars, ghostVars>>

(* Some systems hand out the bytes received before a reset, some drop them. *)
Reset ==
  /\ "reset" \in Faults
  /\ conn \in {"up", "eof"}
  /\ conn' = "reset"
  /\ arrived' \in {pos, arrived}
  /\ UNCHANGED <<peerVars, fd, pos, readerVars, ghostVars>>

(* ws_client_shutdown_loop in another thread.  It does not end a recv that   *)
(* is already waiting; later calls on the descriptor fail.                   *)
CloseFd ==
  /\ "close" \in Faults
  /\ fd
  /\ fd' = FALSE
  /\ UNCHANGED <<peerVars, arrived, conn, pos, readerVars, ghostVars>>

----------------------------------------------------------------------------
(* ws_reader_handle *)

Return(b) ==
  /\ ret' = b
  /\ rpc' = IF b = "true" THEN "next" ELSE "idle"
  /\ hdr' = NoHdr

(* The call enters net_peek's recv, unless the descriptor is closed. *)
HandleCall ==
  /\ rpc = "idle" /\ is_open
  /\ IF fd THEN rpc' = "peek" /\ UNCHANGED <<ret, hdr>> ELSE Return("false")
  /\ UNCHANGED <<peerVars, arrived, conn, fd, pos, frame_queue, msg_queue,
                 is_open, got, ghostVars>>

(* The frame that starts at pos; in the middle of a frame, whatever its      *)
(* bytes happen to say.                                                      *)
FramesAtPos ==
  LET S == {i \in 1..Len(sent) : sent[i].at = pos}
  IN IF S # {} THEN {[f |-> sent[i].f, id |-> i] : i \in S}
               ELSE {[f |-> f, id |-> 0] : f \in Frames}

PeekMaxShort == 2
PeekMax == 10
Peeked == IF arrived - pos < PeekMax THEN arrived - pos ELSE PeekMax

PeekHeader(e) ==
  LET h == ws_frame_read_header(HeaderBytes(e.f), Peeked)
  IN /\ rpc = "peek" /\ arrived > pos
     /\ IF h.err = WS_FRAME_SUCCESS
        THEN rpc' = "read" /\ hdr' = [h |-> h, id |-> e.id] /\ UNCHANGED ret
        ELSE Return("false")
     /\ UNCHANGED <<peerVars, arrived, conn, fd, pos, frame_queue, msg_queue,
                    is_open, got, ghostVars>>

(* Nothing to read: an error, reported once, or the end of the stream, which *)
(* ws_reader_handle takes for a success.                                     *)
PeekNothing ==
  /\ rpc = "peek" /\ arrived = pos
  /\ \/ conn = "reset" /\ Return("false") /\ conn' = "dead"
     \/ conn = "dead" /\ Return("true") /\ UNCHANGED conn
     \/ conn = "eof" /\ pos = total /\ Return("true") /\ UNCHANGED conn
  /\ UNCHANGED <<peerVars, arrived, fd, pos, frame_queue, msg_queue, is_open,
                 got, ghostVars>>

(* payload_offset and msg_len *)
payload_offset(h) == 2 + ws_frame_payload_byte_len(h.p7)
msg_len(h) == payload_offset(h) + h.len + KeyLen(h)

HasRoom == fd /\ arrived > pos

(* net_read returns -1, or 0 on a connection whose error was reported. *)
ReadError == ~fd \/ conn = "reset"

(* Nothing is read: false, but after an error a CLOSE is reported all the    *)
(* same, without its body, if its message can be queued.                     *)
ReadFails ==
  /\ rpc = "read" /\ ~HasRoom
  /\ conn' = IF fd THEN "dead" ELSE conn
  /\ IF hdr.h.opcode = OPCODE_CLOSE /\ ReadError
     THEN \/ /\ msg_queue' = Append(msg_queue, [type |-> OPCODE_CLOSE, body |-> <<>>])
             /\ Return("true")
             /\ lost' = TRUE
          \/ "alloc" \in Faults /\ Return("false") /\ UNCHANGED <<msg_queue, lost>>
     ELSE Return("false") /\ UNCHANGED <<msg_queue, lost>>
  /\ UNCHANGED <<peerVars, arrived, fd, pos, frame_queue, is_open, got,
                 delivered, nread>>

ReadShortAsWhole ==
  /\ rpc = "read" /\ HasRoom
  /\ arrived - pos < msg_len(hdr.h)
  /\ pos' = pos + msg_len(hdr.h)
  /\ lost' = TRUE
  /\ Return("false")
  /\ UNCHANGED <<peerVars, arrived, conn, fd, frame_queue, msg_queue, is_open,
                 got, delivered, nread>>

ReadShortSilent ==
  /\ rpc = "read" /\ HasRoom
  /\ arrived - pos < msg_len(hdr.h)
  /\ pos' = arrived
  /\ lost' = TRUE
  /\ Return("true")
  /\ UNCHANGED <<peerVars, arrived, conn, fd, frame_queue, msg_queue, is_open,
                 got, delivered, nread>>

(* net_read returns fewer bytes than the frame has: they are gone. *)
ReadShort ==
  /\ rpc = "read" /\ HasRoom
  /\ arrived - pos < msg_len(hdr.h)
  /\ pos' = arrived
  /\ lost' = TRUE
  /\ Return("false")
  /\ UNCHANGED <<peerVars, arrived, conn, fd, frame_queue, msg_queue, is_open,
                 got, delivered, nread>>

(* The frame has been read whole, and its body has been decoded or not. *)
Body(h) == ws_frame_read_body(h, payload_offset(h), msg_len(h) - payload_offset(h))

ReadWhole ==
  /\ rpc = "read" /\ HasRoom
  /\ arrived - pos >= msg_len(hdr.h)
  /\ pos' = pos + msg_len(hdr.h)
  /\ nread' = nread + 1
  /\ UNCHANGED <<peerVars, arrived, conn, fd, is_open, got, delivered>>

Entry == [id |-> hdr.id, opcode |-> hdr.h.opcode]

ReadBodyFails ==
  /\ ReadWhole
  /\ Body(hdr.h).err # WS_FRAME_SUCCESS
  /\ lost' = TRUE
  /\ Return("false")
  /\ UNCHANGED <<frame_queue, msg_queue>>

(* A control frame becomes a message of its own, past the fragments. *)
ReadControl ==
  /\ ReadWhole
  /\ Body(hdr.h).err = WS_FRAME_SUCCESS
  /\ hdr.h.fin = 1 /\ hdr.h.opcode >= OPCODE_CLOSE
  /\ msg_queue' = Append(msg_queue, [type |-> hdr.h.opcode, body |-> <<hdr.id>>])
  /\ Return("true")
  /\ UNCHANGED <<frame_queue, lost>>

ReadLastUnqueued ==
  /\ ReadWhole
  /\ Body(hdr.h).err = WS_FRAME_SUCCESS
  /\ hdr.h.fin = 1 /\ hdr.h.opcode < OPCODE_CLOSE
  /\ frame_queue' = <<>>
  /\ Return("true")
  /\ UNCHANGED <<msg_queue, lost>>

(* The last fragment: construct_msg_from_frames empties the frame queue. *)
ReadLastKeepsFrames ==
  /\ ReadWhole
  /\ Body(hdr.h).err = WS_FRAME_SUCCESS
  /\ hdr.h.fin = 1 /\ hdr.h.opcode < OPCODE_CLOSE
  /\ frame_queue' = Append(frame_queue, Entry)
  /\ msg_queue' = Append(msg_queue, construct_msg(frame_queue'))
  /\ Return("true")
  /\ UNCHANGED lost

ReadLast ==
  /\ ReadWhole
  /\ Body(hdr.h).err = WS_FRAME_SUCCESS
  /\ hdr.h.fin = 1 /\ hdr.h.opcode < OPCODE_CLOSE
  /\ frame_queue' = <<>>
  /\ msg_queue' = Append(msg_queue, construct_msg(Append(frame_queue, Entry)))
  /\ Return("true")
  /\ UNCHANGED lost

ReadFragment ==
  /\ ReadWhole
  /\ Body(hdr.h).err = WS_FRAME_SUCCESS
  /\ hdr.h.fin = 0
  /\ frame_queue' = Append(frame_queue, Entry)
  /\ Return("true")
  /\ UNCHANGED <<msg_queue, lost>>

(* The payload array or a queue slot cannot be allocated: the frame is gone. *)
PushFails ==
  /\ "alloc" \in Faults
  /\ ReadWhole
  /\ Body(hdr.h).err = WS_FRAME_SUCCESS
  /\ lost' = TRUE
  /\ Return("false")
  /\ UNCHANGED <<frame_queue, msg_queue>>

(* construct_msg_from_frames gives up after popping k frames; its caller     *)
(* returns true.                                                             *)
ConstructFails ==
  LET fs == Append(frame_queue, Entry)
  IN /\ "alloc" \in Faults
     /\ ReadWhole
     /\ Body(hdr.h).err = WS_FRAME_SUCCESS
     /\ hdr.h.fin = 1 /\ hdr.h.opcode < OPCODE_CLOSE
     /\ \E k \in 0..Len(fs) : frame_queue' = SubSeq(fs, k + 1, Len(fs))
     /\ lost' = TRUE
     /\ Return("true")
     /\ UNCHANGED msg_queue

ReadReturns ==
  \/ ReadFails \/ ReadShort \/ ReadBodyFails \/ ReadControl
  \/ ReadLast \/ ReadFragment \/ PushFails \/ ConstructFails

----------------------------------------------------------------------------
(* ws_reader_next_msg, called once ws_reader_handle has returned true. *)
NextMsg ==
  /\ rpc = "next" /\ is_open
  /\ rpc' = "idle"
  /\ IF msg_queue = <<>>
     THEN got' = NoMsg /\ UNCHANGED <<msg_queue, delivered>>
     ELSE /\ got' = Head(msg_queue)
          /\ msg_queue' = Tail(msg_queue)
          /\ delivered' = Append(delivered, Head(msg_queue))
  /\ UNCHANGED <<peerVars, arrived, conn, fd, pos, frame_queue, is_open, hdr,
                 ret, nread, lost>>

(* ws_reader_destroy, between two calls of the owner. *)
Destroy ==
  /\ rpc = "idle" /\ is_open
  /\ is_open' = FALSE
  /\ frame_queue' = <<>>
  /\ msg_queue' = <<>>
  /\ UNCHANGED <<peerVars, arrived, conn, fd, pos, rpc, hdr, ret, got, ghostVars>>

ReaderStep ==
  HandleCall \/ (\E e \in FramesAtPos : PeekHeader(e)) \/ PeekNothing
             \/ ReadReturns \/ NextMsg

Next ==
  \/ \E f \in Frames : PeerSend(f)
  \/ \E n \in 1..(total - arrived) : Arrive(n)
  \/ PeerClose
  \/ Reset
  \/ CloseFd
  \/ ReaderStep
  \/ Destroy

Spec == Init /\ [][Next]_vars

(* The loop of ws_client_on_msg, and the one of the README, calls again      *)
(* after a message; it leaves on a failure, and also when there is no        *)
(* message, as after a fragment.                                             *)
LoopGoesOn == rpc = "idle" => ret = "none" \/ (ret = "true" /\ got # NoMsg)

(* A call in progress runs on, a recv with bytes at hand returns, and the    *)
(* loop calls again where it does.  Spec lets an owner call on regardless.   *)
FairSpec == Spec /\ WF_vars(LoopGoesOn /\ ReaderStep)

----------------------------------------------------------------------------
MsgType == [type: 0..15, body: Seq(Nat)]

TypeOK ==
  /\ \A i \in 1..Len(sent) : sent[i].f \in Frames
  /\ total \in Nat /\ arrived \in 0..total /\ pos \in 0..arrived
  /\ conn \in {"up", "eof", "reset", "dead"}
  /\ fd \in BOOLEAN /\ is_open \in BOOLEAN /\ lost \in BOOLEAN
  /\ rpc \in {"idle", "peek", "read", "next"}
  /\ ret \in {"none", "true", "false"}
  /\ nread \in Nat
  /\ frame_queue \in Seq([id: Nat, opcode: 0..15])
  /\ completed \in Seq(MsgType)
  /\ msg_queue \in Seq(MsgType)
  /\ delivered \in Seq(MsgType)

(* Messages come out as they were sent: complete, in order, each once, with  *)
(* the type of the first fragment, control frames that came between the      *)
(* fragments included.  Holds until bytes are consumed that no message will  *)
(* contain.                                                                  *)
Handed == delivered \o msg_queue

Integrity == ~lost => IsPrefix(Handed, completed)

(* The call of ws_client_next_msg that consumes the last frame of a message  *)
(* is the one that returns it: no message waits in the queue for a later     *)
(* call, and between two calls everything consumed has been handed over      *)
(* except the fragments of an unfinished message.                            *)
DoneAfter(n) == IF n = 0 THEN 0 ELSE sent[n].done
RestAfter(n) == IF n = 0 THEN <<>> ELSE sent[n].rest

NoBacklog ==
  rpc = "idle" /\ is_open /\ ~lost =>
    /\ msg_queue = <<>>
    /\ Len(delivered) = DoneAfter(nread)
    /\ frame_queue = RestAfter(nread)

(* A step that loses bytes never passes for a message: ws_reader_handle      *)
(* returns false, reports the CLOSE whose body it could not read or, when    *)
(* construct_msg_from_frames could not allocate, leaves ws_reader_next_msg   *)
(* without a message.  A frame that was read in part always gives false.     *)
LossReported ==
  [][lost' # lost =>
       \/ ret' = "false"
       \/ msg_queue' = Append(msg_queue, [type |-> OPCODE_CLOSE, body |-> <<>>])
       \/ "alloc" \in Faults /\ nread' = nread + 1 /\ msg_queue' = <<>>]_vars

(* headers/reader.h: ws_reader_handle "blocks while waiting for data from    *)
(* the server and handles fragmented frames": it fails only when the         *)
(* connection does.                                                          *)
FailsOnlyWithConnection ==
  ret = "false" => ~fd \/ conn \in {"reset", "dead"}

(* The reader implements the message channel: what the peer finished goes    *)
(* in, what ws_reader_next_msg returned comes out, and the channel breaks    *)
(* when bytes are lost.                                                      *)
C == INSTANCE Channel
       WITH sentMsgs <- completed, received <- delivered, broken <- lost
ImplementsChannel == C!Spec

(* Every message the peer finishes is returned in the end, unless the loop   *)
(* was left with a message begun: then a fragment made ws_client_next_msg    *)
(* return true without a message.                                            *)
LeftOnFragment ==
  rpc = "idle" /\ ret = "true" /\ got = NoMsg /\ frame_queue # <<>>

AllDelivered ==
  \A i \in 1..MaxFrames :
    Len(completed) >= i ~> (Len(delivered) >= i \/ ~is_open \/ LeftOnFragment)
============================================================================
