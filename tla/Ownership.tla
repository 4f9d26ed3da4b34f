----------------------------- MODULE Ownership -----------------------------
(***************************************************************************)
(* Who owns the memory behind the messages: what ws_reader_handle and      *)
(* construct_msg_from_frames of src/src/reader.c, ws_frame_free of         *)
(* src/src/protocol.c and the loop of ws_client_on_msg of                  *)
(* src/src/websocket.c allocate, pass on and give back, on every way out.  *)
(*                                                                         *)
(* Module Reader says which bytes make which message.  Here a frame is its *)
(* opcode and fin flag, and what the socket and the allocator answer is    *)
(* free.  An object is a pair of its kind and of the number of the call    *)
(* that allocated it; a pointer is a sequence, empty for NULL.             *)
(***************************************************************************)
EXTENDS Integers, SequencesExt

CONSTANTS
  MaxCalls,  \* frames ws_reader_handle meets
  MaxWrites, \* calls of ws_client_write
  Failing    \* whether byte_array_init, byte_array_insert and queues may fail

ASSUME OwnershipAssumption ==
  MaxCalls \in Nat /\ MaxWrites \in Nat /\ Failing \in BOOLEAN

VARIABLES
  pc,          \* where ws_client_on_msg is; "out" outside of it
  ptr,         \* client->__internal: "set" or "null"
  heap,        \* the objects that are allocated
  frame_queue, \* the frames of an unfinished message: records [id, opcode]
  msg_queue,   \* the messages: records [id, type, body]
  msg,         \* the message the loop holds
  calls,       \* frames so far
  writes,      \* writes so far
  freeing,     \* "callback" once a callback has freed the client, and went on
  fault        \* "null" or "freed": a pointer that was used

queueVars == <<frame_queue, msg_queue>>
countVars == <<calls, writes>>
vars == <<pc, ptr, heap, queueVars, msg, countVars, freeing, fault>>

NoFault == "none"
Running == fault = NoFault

Control == {"ping", "pong", "close"}
Opcodes == Control \cup {"text", "cont"}

(* The objects of call n of ws_reader_handle and of write n. *)
Frame(n) == <<"frame", n>>
Buffer(n) == <<"buffer", n>>
Payload(n) == <<"payload", n>>
Msg(n) == <<"msg", n>>
MsgBody(n) == <<"body", n>>
Copy(n) == <<"copy", n>>
Client == <<"client", 0>>
Reader == <<"reader", 0>>

Init ==
  /\ pc = "out" /\ ptr = "set" /\ heap = {Client, Reader}
  /\ frame_queue = <<>> /\ msg_queue = <<>> /\ msg = <<>>
  /\ calls = 0 /\ writes = 0 /\ freeing = "no" /\ fault = NoFault

(* malloc, use and free, in this order: only what is allocated may be used,  *)
(* and may be freed once.                                                    *)
Memory(new, used, freed) ==
  LET h == heap \cup new
  IN /\ heap' = h \ ToSet(freed)
     /\ fault' = IF used \subseteq h /\ ToSet(freed) \subseteq h /\ IsInjective(freed)
                 THEN fault ELSE "freed"

----------------------------------------------------------------------------
(* ws_frame_free clears the structure and then frees the payload that it no  *)
(* longer points to; ws_message_free frees the body, if there is one.        *)
ws_frame_free(payload) == <<>>

ws_message_free(m) == m.body

(* ws_reader_handle, on its next frame. *)
this == calls + 1

Handle ==
  /\ Running /\ pc = "loop"
  /\ calls < MaxCalls
  /\ calls' = this
  /\ UNCHANGED <<ptr, msg, writes, freeing>>

Return(b) == pc' = IF b THEN "next" ELSE "leave"

(* Nothing was peeked: an error, or the end of the stream. *)
HandleNothing ==
  /\ Running /\ pc = "loop"
  /\ \E b \in BOOLEAN : Return(b)
  /\ UNCHANGED <<ptr, heap, queueVars, msg, countVars, freeing, fault>>

HandleBadHeader ==
  /\ Handle
  /\ Memory({Frame(this)}, {}, ws_frame_free(<<>>) \o <<Frame(this)>>)
  /\ Return(FALSE)
  /\ UNCHANGED queueVars

(* net_read fails, or returns less than the frame has. *)
HandleMismatch ==
  /\ Handle
  /\ Memory({Frame(this), Buffer(this)}, {}, ws_frame_free(<<>>) \o <<Frame(this)>>)
  /\ Return(FALSE)
  /\ UNCHANGED queueVars

(* net_read fails on a CLOSE: its message has no body. *)
HandleCloseUnread ==
  /\ Handle
  /\ \/ /\ Memory({Frame(this), Buffer(this), Msg(this)}, {}, <<>>)
        /\ msg_queue' = Append(msg_queue, [id |-> this, type |-> "close", body |-> <<>>])
        /\ Return(TRUE)
     \/ /\ Failing
        /\ Memory({Frame(this), Buffer(this), Msg(this)}, {},
                  <<Msg(this)>> \o ws_frame_free(<<>>) \o <<Frame(this)>>)
        /\ Return(FALSE)
        /\ UNCHANGED msg_queue
  /\ UNCHANGED frame_queue

(* ws_frame_read_body fails: the frame itself is not freed. *)
HandleBadBody ==
  /\ Handle
  /\ Memory({Frame(this), Buffer(this)}, {}, ws_frame_free(<<>>))
  /\ Return(FALSE)
  /\ UNCHANGED queueVars

Decoded == {Frame(this), Buffer(this), Payload(this)}

(* The payload moves from the frame to the message. *)
HandleControl(opcode) ==
  /\ Handle
  /\ \/ /\ Memory(Decoded \cup {Msg(this)}, {}, <<>>)
        /\ msg_queue' =
             Append(msg_queue, [id |-> this, type |-> opcode, body |-> <<Payload(this)>>])
        /\ Return(TRUE)
     \/ /\ Failing
        /\ Memory(Decoded \cup {Msg(this)}, {}, <<Msg(this)>> \o ws_frame_free(<<>>) \o <<Frame(this)>>)
        /\ Return(FALSE)
        /\ UNCHANGED msg_queue
  /\ UNCHANGED frame_queue

Queued(opcode) == Append(frame_queue, [id |-> this, opcode |-> opcode])

HandleFragment(opcode) ==
  /\ Handle
  /\ Memory(Decoded, {}, <<>>)
  /\ frame_queue' = Queued(opcode)
  /\ Return(TRUE)
  /\ UNCHANGED msg_queue

(* The frame queue cannot take the frame, with or without fin. *)
HandlePushFails ==
  /\ Failing
  /\ Handle
  /\ Memory(Decoded, {}, ws_frame_free(<<Payload(this)>>) \o <<Frame(this)>>)
  /\ Return(FALSE)
  /\ UNCHANGED queueVars

(* construct_msg_from_frames: the frames fs are popped, copied and freed     *)
(* without their payloads.                                                   *)
Frames(fs) == [i \in 1..Len(fs) |-> Frame(fs[i].id)]
Copied(fs) == ToSet(Frames(fs)) \cup {Payload(fs[i].id) : i \in 1..Len(fs)}
Type(fs) == IF \E i \in 1..Len(fs) : fs[i].opcode = "text" THEN "text" ELSE "cont"

FreedNone(fs) == <<>>
Freed(fs) == Frames(fs)

PoppedNone(fs, k) == fs
Popped(fs, k) == SubSeq(fs, k + 1, Len(fs))

HandleLast(opcode) ==
  LET fs == Queued(opcode)
  IN /\ Handle
     /\ Memory(Decoded \cup {Msg(this), MsgBody(this)}, Copied(fs), Freed(fs))
     /\ frame_queue' = Popped(fs, Len(fs))
     /\ msg_queue' = Append(msg_queue, [id |-> this, type |-> Type(fs), body |-> <<MsgBody(this)>>])
     /\ Return(TRUE)

(* ... or fails: when there is no body, at the k-th frame, or at the queue.  *)
(* The frames behind the k-th stay in the queue.                             *)
HandleLastFails(opcode) ==
  LET fs == Queued(opcode)
  IN /\ Failing
     /\ Handle
     /\ \/ /\ Memory(Decoded \cup {Msg(this)}, {}, <<Msg(this)>>)
           /\ frame_queue' = fs
        \/ \E k \in 1..Len(fs) :
             LET done == SubSeq(fs, 1, k)
             IN /\ Memory(Decoded \cup {Msg(this), MsgBody(this)}, Copied(done),
                          Freed(done) \o <<MsgBody(this), Msg(this)>>)
                /\ frame_queue' = Popped(fs, k)
     /\ Return(TRUE)
     /\ UNCHANGED msg_queue

ws_reader_handle ==
  \/ HandleNothing \/ HandleBadHeader \/ HandleMismatch \/ HandleCloseUnread
  \/ HandleBadBody \/ HandlePushFails
  \/ \E o \in Control : HandleControl(o)
  \/ \E o \in Opcodes \ Control : HandleFragment(o) \/ HandleLast(o) \/ HandleLastFails(o)

(* ws_reader_next_msg: the message is the caller's. *)
NextMsg ==
  /\ Running /\ pc = "next"
  /\ \/ msg_queue = <<>> /\ pc' = "leave" /\ UNCHANGED <<msg, msg_queue>>
     \/ /\ msg_queue # <<>> /\ pc' = "msg"
        /\ msg' = <<Head(msg_queue)>> /\ msg_queue' = Tail(msg_queue)
  /\ UNCHANGED <<ptr, heap, frame_queue, countVars, freeing, fault>>

----------------------------------------------------------------------------
(* ws_client_write of a body: it is copied, the frame's bytes are freed; the *)
(* copy is left to ws_frame_free.                                            *)
Out == <<"out", writes + 1>>

ws_client_write(used) ==
  /\ writes < MaxWrites
  /\ writes' = writes + 1
  /\ Memory({Copy(writes'), Out}, used, <<Out>> \o ws_frame_free(<<Copy(writes')>>))

NoWrite(used) == Memory({}, used, <<>>) /\ UNCHANGED writes

(* ws_client_free, with the reader; the queues go without their contents. *)
Destroy ==
  /\ ptr' = "null"
  /\ frame_queue' = <<>> /\ msg_queue' = <<>>

OnMsg ==
  /\ Running /\ pc = "out" /\ ptr = "set"
  /\ pc' = "loop"
  /\ UNCHANGED <<ptr, heap, queueVars, msg, countVars, freeing, fault>>

Held == msg[1]
HeldObjects == {Msg(Held.id)} \cup ToSet(Held.body)

Dispatch ==
  /\ Running /\ pc = "msg"
  /\ UNCHANGED <<msg, calls>>

OnClose ==
  /\ Dispatch /\ Held.type = "close"
  /\ pc' = "leave"
  /\ UNCHANGED <<ptr, heap, queueVars, writes, freeing, fault>>

(* The PONG is written, or cannot be. *)
OnPing ==
  /\ Dispatch /\ Held.type = "ping"
  /\ pc' \in {"check", "leave"}
  /\ ws_client_write(HeldObjects \cup {Client}) \/ (Failing /\ NoWrite(HeldObjects))
  /\ UNCHANGED <<ptr, queueVars, freeing>>

(* The callback reads its message and may answer it. *)
OnData ==
  /\ Dispatch /\ Held.type = "text"
  /\ pc' \in {"check", "leave"}
  /\ ws_client_write(HeldObjects \cup {Client}) \/ NoWrite(HeldObjects)
  /\ UNCHANGED <<ptr, queueVars, freeing>>

(* It may also free the client. *)
OnDataFrees ==
  /\ Dispatch /\ Held.type = "text"
  /\ pc' \in {"check", "leave"}
  /\ Destroy
  /\ Memory({}, HeldObjects, <<Reader, Client>>)
  /\ freeing' = IF pc' = "check" THEN "callback" ELSE freeing
  /\ UNCHANGED writes

OnOther ==
  /\ Dispatch /\ Held.type \in {"pong", "cont"}
  /\ pc' = "check"
  /\ UNCHANGED <<ptr, heap, queueVars, writes, freeing, fault>>

(* free_ws_message, when msg goes out of scope. *)
free_ws_message == IF msg = <<>> THEN <<>> ELSE ws_message_free(Held) \o <<Msg(Held.id)>>

(* The loop flag is read through the pointer; ws_client_shutdown_loop may    *)
(* have cleared it.                                                          *)
CheckFlag ==
  /\ Running /\ pc = "check"
  /\ IF ptr = "null"
     THEN fault' = "null" /\ UNCHANGED <<pc, heap, msg>>
     ELSE /\ pc' \in {"loop", "out"}
          /\ Memory({}, {Client}, free_ws_message)
          /\ msg' = <<>>
  /\ UNCHANGED <<ptr, queueVars, countVars, freeing>>

(* The loop is left; after a CLOSE ws_client_on_msg frees the client. *)
Leave ==
  /\ Running /\ pc = "leave"
  /\ pc' = "out"
  /\ msg' = <<>>
  /\ IF msg # <<>> /\ Held.type = "close"
     THEN Destroy /\ Memory({}, {}, free_ws_message \o <<Reader, Client>>)
     ELSE UNCHANGED <<ptr, queueVars>> /\ Memory({}, {}, free_ws_message)
  /\ UNCHANGED <<countVars, freeing>>

(* The application outside of the loop. *)
AppWrite ==
  /\ Running /\ pc = "out" /\ ptr = "set"
  /\ ws_client_write({Client})
  /\ UNCHANGED <<pc, ptr, queueVars, msg, calls, freeing>>

AppFree ==
  /\ Running /\ pc = "out" /\ ptr = "set"
  /\ Destroy
  /\ Memory({}, {}, <<Reader, Client>>)
  /\ UNCHANGED <<pc, msg, countVars, freeing>>

Next ==
  \/ OnMsg \/ ws_reader_handle \/ NextMsg
  \/ OnClose \/ OnPing \/ OnData \/ OnDataFrees \/ OnOther \/ CheckFlag \/ Leave
  \/ AppWrite \/ AppFree

Spec == Init /\ [][Next]_vars

----------------------------------------------------------------------------
(* What can still be reached: the client, the queues and the message held. *)
MsgObjects(m) == {Msg(m.id)} \cup ToSet(m.body)

Reachable ==
  (IF ptr = "set" THEN {Client, Reader} ELSE {})
  \cup Copied(frame_queue)
  \cup (UNION {MsgObjects(msg_queue[i]) : i \in 1..Len(msg_queue)})
  \cup (UNION {MsgObjects(msg[i]) : i \in 1..Len(msg)})

Lost == heap \ Reachable

(* On every way through the reader and the loop, failing allocations and a   *)
(* callback that frees its own client included, what the client can reach is *)
(* allocated, nothing is freed twice and nothing used after it was freed.    *)
(* NULL is met in one place: the loop reads its flag after a callback that   *)
(* freed the client and asked to go on.                                      *)
MemorySafe ==
  /\ Reachable \subseteq heap
  /\ fault # "freed"
  /\ fault = "null" => freeing = "callback"

(* What is never given back: the read buffer of every frame, and either the  *)
(* frame or its payload, both only if the reader was destroyed while the     *)
(* frame was queued.  A call that fails keeps no more than one that succeeds.*)
LeaksBounded ==
  \A i \in 1..calls :
    LET kinds == {o[1] : o \in {p \in Lost : p[2] = i}} \ {"copy"}
    IN /\ kinds \subseteq {"buffer", "payload", "frame"}
       /\ {"payload", "frame"} \subseteq kinds => ptr = "null"
=============================================================================
