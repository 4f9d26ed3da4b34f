------------------------------- MODULE Client -------------------------------
(***************************************************************************)
(* A connected client of src/src/websocket.c used by two threads, the way  *)
(* src/main.c uses it: the listener runs ws_client_on_msg and then         *)
(* ws_client_free, the main thread writes lines, calls                     *)
(* ws_client_shutdown_loop and joins the listener.  Without the main       *)
(* thread it is the single-threaded use of the README.                     *)
(*                                                                         *)
(* Module Reader models the connection and ws_client_next_msg; its steps   *)
(* are the listener's while lpc = "msg".  One step is what lies between    *)
(* two accesses to the memory both threads use: the pointer                *)
(* client->__internal, the structure it points to, and the descriptor.     *)
(***************************************************************************)
EXTENDS Reader

CONSTANTS
  WithMain,  \* whether there is a main thread
  MaxWrites, \* the number of lines it writes at most, "quit" included
  CallbackStops \* whether the callback may return false

ASSUME ClientAssumption ==
  WithMain \in BOOLEAN /\ MaxWrites \in Nat \ {0} /\ CallbackStops \in BOOLEAN

VARIABLES
  ptr,       \* client->__internal: "set" or "null"
  mem,       \* the structure behind it: "live" or "freed"
  loop_flag, \* __internal->loop_flag
  closes,    \* how often the descriptor was closed
  outbox,    \* the frames written to the connection
  cbs,       \* the messages the callback was given
  lpc,       \* where the listener is
  why,       \* why its loop ended
  mpc,       \* where the main thread is
  mp,        \* the pointer the main thread loaded
  quit,      \* the line being written is "quit"
  nwrites,   \* lines written so far
  fault      \* which thread was stopped, and by what

memVars == <<ptr, mem, loop_flag, closes>>
listenerVars == <<cbs, lpc, why>>
mainVars == <<mpc, mp, quit, nwrites>>
clientVars == <<memVars, outbox, listenerVars, mainVars, fault>>
allVars == <<vars, clientVars>>

NoFault == [by |-> "none", what |-> "none"]
Running == fault = NoFault

ClientInit ==
  /\ Init
  /\ ptr = "set" /\ mem = "live" /\ loop_flag = FALSE /\ closes = 0
  /\ outbox = <<>> /\ cbs = <<>> /\ lpc = "start" /\ why = "none"
  /\ mpc = IF WithMain THEN "input" ELSE "done"
  /\ mp = "null" /\ quit = FALSE /\ nwrites = 0
  /\ fault = NoFault

----------------------------------------------------------------------------
(* Access through the pointer v, by one of the threads. *)
Valid(v) == v = "set" /\ mem = "live"
Crash(who, v) ==
  fault' = [by |-> who, what |-> IF v = "null" THEN "null" ELSE "freed"]

(* net_close: the descriptor number is closed, whatever it stands for. *)
net_close ==
  /\ fd' = FALSE
  /\ closes' = closes + 1

(* net_write of a frame.  The result is false on a closed descriptor and     *)
(* on the first write after a reset; a further one raises SIGPIPE.           *)
net_write(who, m, ok) ==
  \/ /\ fd /\ conn \in {"up", "eof"}
     /\ ok = TRUE
     /\ outbox' = Append(outbox, m)
     /\ UNCHANGED <<conn, fault>>
  \/ /\ ~fd
     /\ ok = FALSE
     /\ UNCHANGED <<outbox, conn, fault>>
  \/ /\ fd /\ conn = "reset"
     /\ ok = FALSE
     /\ conn' = "dead"
     /\ UNCHANGED <<outbox, fault>>
  \/ /\ fd /\ conn = "dead"
     /\ ok = FALSE
     /\ fault' = [by |-> who, what |-> "sigpipe"]
     /\ UNCHANGED <<outbox, conn>>

----------------------------------------------------------------------------
(* The listener: ws_client_on_msg. *)

OnMsg ==
  /\ Running /\ lpc = "start"
  /\ IF ptr = "null" THEN lpc' = "free" /\ UNCHANGED loop_flag
                     ELSE lpc' = "msg" /\ loop_flag' = TRUE
  /\ UNCHANGED <<vars, ptr, mem, closes, outbox, cbs, why, mainVars, fault>>

Leave(reason) == lpc' = "free" /\ why' = reason

(* The head of the loop and ws_client_next_msg, done when the reader is idle *)
(* again.  The pointer is checked at the head and loaded for each call of    *)
(* the reader.                                                               *)
ReadMsg ==
  /\ Running /\ lpc = "msg"
  /\ IF rpc = "idle" /\ ptr = "null"
     THEN Leave("failed") /\ UNCHANGED <<vars, fault>>
     ELSE IF rpc \in {"idle", "next"} /\ ~Valid(ptr)
     THEN Crash("listener", ptr) /\ UNCHANGED <<vars, lpc, why>>
     ELSE /\ ReaderStep
          /\ lpc' = IF rpc' = "idle" THEN "dispatch" ELSE "msg"
          /\ UNCHANGED <<why, fault>>
  /\ UNCHANGED <<memVars, outbox, cbs, mainVars>>

NoMessageRetries ==
  /\ Running /\ lpc = "dispatch"
  /\ \/ ret = "false" /\ Leave("failed")
     \/ ret = "true" /\ got = NoMsg /\ lpc' = "msg" /\ UNCHANGED why
  /\ UNCHANGED <<vars, memVars, outbox, cbs, mainVars, fault>>

(* ws_client_next_msg failed, or returned true without a message. *)
NoMessage ==
  /\ Running /\ lpc = "dispatch"
  /\ \/ ret = "false" /\ Leave("failed")
     \/ ret = "true" /\ got = NoMsg /\ Leave("null")
  /\ UNCHANGED <<vars, memVars, outbox, cbs, mainVars, fault>>

Received == lpc = "dispatch" /\ ret = "true" /\ got # NoMsg

(* close_sock: ws_client_on_msg itself frees the client, then its caller     *)
(* does so again.                                                            *)
OnClose ==
  /\ Running /\ Received /\ got.type = OPCODE_CLOSE
  /\ Leave("close")
  /\ UNCHANGED <<vars, memVars, outbox, cbs, mainVars, fault>>

(* A PING is answered by ws_client_write with its own body. *)
PongEmpty(m) == [type |-> OPCODE_PONG, body |-> <<>>]
Pong(m) == [type |-> OPCODE_PONG, body |-> m.body]

(* The client's frames are masked.  The frame of a body of 65536 bytes has   *)
(* no room in its buffer (module Codec); the body of a PING is that of one   *)
(* frame.                                                                    *)
PongFrame(n) ==
  [fin |-> 1, rsv |-> 0, opcode |-> OPCODE_PONG, mask |-> 1, len |-> n]

Unwritable(m) ==
  \E i \in 1..Len(sent) :
    m.body = <<i>> /\ ws_frame_write(PongFrame(sent[i].f.len)).err # WS_FRAME_SUCCESS

(* ws_client_write fails before it comes to net_write. *)
PongFails ==
  /\ Running /\ Received /\ got.type = OPCODE_PING
  /\ "alloc" \in Faults \/ Unwritable(got)
  /\ Leave("unwritten")
  /\ UNCHANGED <<vars, memVars, outbox, cbs, mainVars, fault>>

OnPing ==
  /\ Running /\ Received /\ got.type = OPCODE_PING
  /\ ~Unwritable(got)
  /\ IF Valid(ptr)
     THEN \E ok \in BOOLEAN :
            /\ net_write("listener", Pong(got), ok)
            /\ IF ok THEN lpc' = "check" /\ UNCHANGED why ELSE Leave("pong")
     ELSE Crash("listener", ptr) /\ UNCHANGED <<outbox, conn, lpc, why>>
  /\ UNCHANGED <<peerVars, arrived, fd, pos, readerVars, ghostVars,
                 memVars, cbs, mainVars>>

(* The types handed to the callback. *)
CallbackTypesNoFallThrough == {OPCODE_TEXT}
CallbackTypes == {OPCODE_TEXT, OPCODE_BIN}

OnData ==
  /\ Running /\ Received /\ got.type \in CallbackTypes
  /\ cbs' = Append(cbs, got)
  /\ \/ lpc' = "check" /\ UNCHANGED why
     \/ CallbackStops /\ Leave("callback")
  /\ UNCHANGED <<vars, memVars, outbox, mainVars, fault>>

OnOther ==
  /\ Running /\ Received
  /\ got.type \notin {OPCODE_CLOSE, OPCODE_PING} \cup CallbackTypes
  /\ lpc' = "check"
  /\ UNCHANGED <<vars, memVars, outbox, cbs, why, mainVars, fault>>

(* running = client->__internal->loop_flag *)
CheckFlag ==
  /\ Running /\ lpc = "check"
  /\ IF Valid(ptr)
     THEN /\ IF loop_flag THEN lpc' = "msg" /\ UNCHANGED why ELSE Leave("flag")
          /\ UNCHANGED fault
     ELSE Crash("listener", ptr) /\ UNCHANGED <<lpc, why>>
  /\ UNCHANGED <<vars, memVars, outbox, cbs, mainVars>>

(* ws_client_free: the pointer is taken, the descriptor closed, the memory   *)
(* given back.  Called twice after a CLOSE; the second call finds no pointer.*)
FreeTakeKeepsPointer ==
  /\ Running /\ lpc = "free"
  /\ lpc' = IF ptr = "null" THEN "done" ELSE "free_close"
  /\ UNCHANGED <<vars, ptr, mem, loop_flag, closes, outbox, cbs, why, mainVars, fault>>

FreeTake ==
  /\ Running /\ lpc = "free"
  /\ ptr' = "null"
  /\ lpc' = IF ptr = "null" THEN "done" ELSE "free_close"
  /\ UNCHANGED <<vars, mem, loop_flag, closes, outbox, cbs, why, mainVars, fault>>

FreeCloseForgotten ==
  /\ Running /\ lpc = "free_close"
  /\ lpc' = "free_mem"
  /\ UNCHANGED <<vars, memVars, outbox, cbs, why, mainVars, fault>>

FreeClose ==
  /\ Running /\ lpc = "free_close"
  /\ net_close
  /\ lpc' = "free_mem"
  /\ UNCHANGED <<peerVars, arrived, conn, pos, readerVars, ghostVars,
                 ptr, mem, loop_flag, outbox, cbs, why, mainVars, fault>>

FreeMem ==
  /\ Running /\ lpc = "free_mem"
  /\ Destroy
  /\ mem' = "freed"
  /\ lpc' = IF why = "close" THEN "free" ELSE "done"
  /\ UNCHANGED <<ptr, loop_flag, closes, outbox, cbs, why, mainVars, fault>>

Listener ==
  \/ OnMsg \/ ReadMsg \/ NoMessage \/ OnClose \/ OnPing \/ PongFails \/ OnData
  \/ OnOther \/ CheckFlag \/ FreeTake \/ FreeClose \/ FreeMem

----------------------------------------------------------------------------
(* The main thread: the loop of main.c. *)

TypeLine(q) ==
  /\ Running /\ mpc = "input"
  /\ nwrites < MaxWrites
  /\ quit' = q
  /\ nwrites' = nwrites + 1
  /\ mpc' = "load"
  /\ UNCHANGED <<vars, memVars, outbox, listenerVars, mp, fault>>

(* ws_client_write cannot allocate the frame; main.c shuts down.  The lines  *)
(* of main.c have at most 100 bytes, so that they can be encoded.            *)
WriteFails ==
  /\ Running /\ mpc = "load"
  /\ "alloc" \in Faults
  /\ mpc' = "shutdown"
  /\ UNCHANGED <<vars, memVars, outbox, listenerVars, mp, quit, nwrites, fault>>

(* ws_client_write loads the pointer without a check ... *)
WriteLoad ==
  /\ Running /\ mpc = "load"
  /\ mp' = ptr
  /\ mpc' = "send"
  /\ UNCHANGED <<vars, memVars, outbox, listenerVars, quit, nwrites, fault>>

(* ... and ws_client_write_blob uses what it points to. *)
Line(q) == [type |-> OPCODE_TEXT, body |-> IF q THEN <<1>> ELSE <<0>>]

WriteSend ==
  /\ Running /\ mpc = "send"
  /\ IF Valid(mp)
     THEN \E ok \in BOOLEAN :
            /\ net_write("main", Line(quit), ok)
            /\ mpc' = IF ok /\ ~quit THEN "input" ELSE "shutdown"
     ELSE /\ Crash("main", mp)
          /\ UNCHANGED <<outbox, conn, mpc>>
  /\ UNCHANGED <<peerVars, arrived, fd, pos, readerVars, ghostVars,
                 memVars, listenerVars, mp, quit, nwrites>>

(* ws_client_shutdown_loop: the check, the flag and the close.  The pointer  *)
(* is read for each of them, or kept from the check.                         *)
ShutdownCheck ==
  /\ Running /\ mpc = "shutdown"
  /\ mp' = ptr
  /\ mpc' = IF ptr = "null" THEN "join" ELSE "flag"
  /\ UNCHANGED <<vars, memVars, outbox, listenerVars, quit, nwrites, fault>>

ShutdownFlag ==
  /\ Running /\ mpc = "flag"
  /\ \E v \in {mp, ptr} :
       IF Valid(v) THEN loop_flag' = FALSE /\ mpc' = "close" /\ UNCHANGED fault
                   ELSE Crash("main", v) /\ UNCHANGED <<loop_flag, mpc>>
  /\ UNCHANGED <<vars, ptr, mem, closes, outbox, listenerVars, mp, quit, nwrites>>

ShutdownCloseDrops ==
  /\ Running /\ mpc = "close"
  /\ \E v \in {mp, ptr} :
       IF Valid(v) THEN net_close /\ mpc' = "join" /\ ptr' = "null" /\ UNCHANGED fault
                   ELSE Crash("main", v) /\ UNCHANGED <<fd, closes, mpc, ptr>>
  /\ UNCHANGED <<peerVars, arrived, conn, pos, readerVars, ghostVars,
                 mem, loop_flag, outbox, listenerVars, mp, quit, nwrites>>

ShutdownClose ==
  /\ Running /\ mpc = "close"
  /\ \E v \in {mp, ptr} :
       IF Valid(v) THEN net_close /\ mpc' = "join" /\ UNCHANGED fault
                   ELSE Crash("main", v) /\ UNCHANGED <<fd, closes, mpc>>
  /\ UNCHANGED <<peerVars, arrived, conn, pos, readerVars, ghostVars,
                 ptr, mem, loop_flag, outbox, listenerVars, mp, quit, nwrites>>

Join ==
  /\ Running /\ mpc = "join" /\ lpc = "done"
  /\ mpc' = "done"
  /\ UNCHANGED <<vars, memVars, outbox, listenerVars, mp, quit, nwrites, fault>>

Main ==
  \/ WriteFails \/ WriteLoad \/ WriteSend
  \/ ShutdownCheck \/ ShutdownFlag \/ ShutdownClose \/ Join

User == \E q \in BOOLEAN : TypeLine(q)

(* The peer and the network go on whatever the client does. *)
Env ==
  /\ (\E f \in Frames : PeerSend(f)) \/ PeerClose \/ Reset
  /\ UNCHANGED clientVars

(* What the server has sent arrives. *)
Delivery ==
  /\ \E n \in 1..(total - arrived) : Arrive(n)
  /\ UNCHANGED clientVars

ClientNext == Listener \/ Main \/ User \/ Env \/ Delivery

ClientSpec == ClientInit /\ [][ClientNext]_allVars

(* Both threads keep running, a recv with something to return returns; the   *)
(* user need not type.                                                       *)
ThreadsSpec == ClientSpec /\ WF_allVars(Listener) /\ WF_allVars(Main)

(* The server of src/test/server closes the connection when it reads "quit". *)
ToldToQuit == \E i \in 1..Len(outbox) : outbox[i] = Line(TRUE)

ServerQuits ==
  /\ ToldToQuit
  /\ PeerClose
  /\ UNCHANGED clientVars

ServerSpec == ThreadsSpec /\ WF_allVars(ServerQuits) /\ WF_allVars(Delivery)

----------------------------------------------------------------------------

(* The messages of ms whose type is in T, in order. *)
OfType(ms, T) ==
  LET upto[n \in 0..Len(ms)] ==
        IF n = 0 THEN <<>>
        ELSE IF ms[n].type \in T THEN Append(upto[n - 1], ms[n]) ELSE upto[n - 1]
  IN upto[Len(ms)]

(* End to end: the callback is given the server's text and binary messages   *)
(* in order, and the PONGs on the wire carry the bodies of the server's      *)
(* PINGs in order, whatever the main thread writes in between.               *)
AnswersMatch ==
  ~lost =>
    /\ IsPrefix(cbs, OfType(completed, {OPCODE_TEXT, OPCODE_BIN}))
    /\ LET pings == OfType(completed, {OPCODE_PING})
           pongs == OfType(outbox, {OPCODE_PONG})
       IN IsPrefix(pongs, [i \in 1..Len(pings) |->
                               [type |-> OPCODE_PONG, body |-> pings[i].body]])

(* When the listener waits for the next message it has dealt with all        *)
(* earlier ones: none was taken off the queue and forgotten.                 *)
NothingSkipped ==
  lpc = "msg" /\ rpc = "idle" =>
    /\ cbs = OfType(delivered, {OPCODE_TEXT, OPCODE_BIN})
    /\ Len(OfType(outbox, {OPCODE_PONG})) = Len(OfType(delivered, {OPCODE_PING}))

(* The listener is the only thread that frees, so it never meets a pointer   *)
(* that is gone, whatever ws_client_shutdown_loop does beside it: only a     *)
(* write on a connection that is already dead can stop it.                   *)
ListenerSafe == fault.by = "listener" => fault.what = "sigpipe" /\ conn = "dead"

(* When the listener is done nothing is left: descriptor, reader and memory  *)
(* are released, also when ws_client_free ran twice.  Until then each thread *)
(* has closed the descriptor's number once at most, so that it is closed     *)
(* twice only when ws_client_shutdown_loop has closed it too.                *)
CleanedUp ==
  /\ lpc = "done" => ptr = "null" /\ mem = "freed" /\ ~is_open /\ ~fd
  /\ closes <= IF mpc \in {"join", "done"} THEN 2 ELSE 1

(* The loop of ws_client_on_msg takes a missing message for the end of the   *)
(* stream, and a PONG that net_write cannot send for the end of the          *)
(* connection.  It is right about both, but for two cases: a frame that does *)
(* not finish its message ends the loop too, on a connection that is up, and *)
(* so does a message that could not be assembled.  It goes on otherwise      *)
(* until a CLOSE, a PONG that cannot be made, the callback, a failure of the *)
(* reader or ws_client_shutdown_loop ends it.                                *)
KeepsListening ==
  why \in {"null", "pong"} /\ is_open =>
    \/ conn # "up" \/ ~fd
    \/ why = "null" /\ (frame_queue # <<>> \/ lost)

(* main.c writes without knowing what the listener does; headers/websocket.h *)
(* says that ws_client_write returns false when it fails.                    *)
MainSafe == fault.by # "main"

(* Once the server has closed the connection the listener comes to its end. *)
ListenerEnds == conn = "eof" ~> (lpc = "done" \/ conn # "eof" \/ ~Running)

(* headers/websocket.h: ws_client_shutdown_loop "shuts down the internal     *)
(* loop inside of ws_client_on_msg", so that the join behind it returns.  It *)
(* is called once "quit" was written, or when a line could not be; said of   *)
(* the calls in which the server was told or the connection is gone.         *)
JoinReturns ==
  mpc = "shutdown" /\ (ToldToQuit \/ conn # "up" \/ ~fd)
    ~> (mpc = "done" \/ ~Running)
============================================================================
