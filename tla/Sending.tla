------------------------------ MODULE Sending ------------------------------
(***************************************************************************)
(* Writing to a connection: net_write of src/src/net.c below               *)
(* ws_client_write of src/src/websocket.c, called without a lock by the    *)
(* listener, which answers PINGs, and by the main thread, which sends      *)
(* lines, to a server that echoes as src/test/server/main.go does.         *)
(*                                                                         *)
(* Both directions are socket buffers of bounded size.  A frame is Size    *)
(* units on its way to the server; the system copies what fits into the    *)
(* buffer at once, and while a send waits for room another one may copy.   *)
(***************************************************************************)
EXTENDS Integers, Sequences

CONSTANTS
  Size,     \* units of a frame
  UpCap,    \* units the buffers towards the server hold
  DownCap,  \* frames the buffers towards the client hold
  MaxLines, \* lines the main thread writes
  MaxPings, \* PINGs the server sends
  Signals   \* whether a signal may interrupt a send

ASSUME SendingAssumption ==
  /\ {Size, UpCap, DownCap} \subseteq Nat \ {0}
  /\ MaxLines \in Nat /\ MaxPings \in Nat /\ Signals \in BOOLEAN

VARIABLES
  up,     \* units on their way to the server: records [by, no, i]
  down,   \* frames on their way to the client: "ping" or "echo"
  wpc,    \* what each thread does: "ready", "send", or "stopped"
  no,     \* frames each thread has begun to write
  put,    \* units of the current one that were copied
  wrote,  \* the frames for which ws_client_write returned true
  spc,    \* the server: "read", "echo", or "closed"
  part,   \* the units of the frame it is reading
  seen,   \* the frames it has read, in order
  pings,  \* PINGs it has sent
  short,  \* frames whose send was cut short and counted as a success
  mixed   \* frames into which another send copied its own

threadVars == <<wpc, no, put, wrote>>
serverVars == <<spc, part, seen, pings>>
ghostVars == <<short, mixed>>
vars == <<up, down, threadVars, serverVars, ghostVars>>

Threads == {"listener", "main"}

Init ==
  /\ up = <<>> /\ down = <<>>
  /\ wpc = [t \in Threads |-> "ready"]
  /\ no = [t \in Threads |-> 0] /\ put = [t \in Threads |-> 0] /\ wrote = {}
  /\ spc = "read" /\ part = <<>> /\ seen = <<>> /\ pings = 0
  /\ short = {} /\ mixed = {}

----------------------------------------------------------------------------
(* ws_client_write *)

Current(t) == <<t, no[t]>>

Begin(t) ==
  /\ wpc' = [wpc EXCEPT ![t] = "send"]
  /\ no' = [no EXCEPT ![t] = @ + 1]
  /\ put' = [put EXCEPT ![t] = 0]
  /\ UNCHANGED wrote

(* The loop of main.c writes the next line.  What a write does once the      *)
(* listener has stopped and freed the client is in module Client.            *)
WriteLine ==
  /\ wpc["main"] = "ready" /\ no["main"] < MaxLines
  /\ wpc["listener"] # "stopped"
  /\ Begin("main")
  /\ UNCHANGED <<up, down, serverVars, ghostVars>>

OnMsgLocked ==
  /\ wpc["listener"] = "ready" /\ down # <<>>
  /\ wpc["main"] # "send"
  /\ down' = Tail(down)
  /\ IF Head(down) = "ping" THEN Begin("listener") ELSE UNCHANGED threadVars
  /\ UNCHANGED <<up, serverVars, ghostVars>>

OnMsgIgnoresPing ==
  /\ wpc["listener"] = "ready" /\ down # <<>>
  /\ down' = Tail(down)
  /\ UNCHANGED <<up, threadVars, serverVars, ghostVars>>

(* ws_client_on_msg takes the next message: a PING is answered. *)
OnMsg ==
  /\ wpc["listener"] = "ready" /\ down # <<>>
  /\ down' = Tail(down)
  /\ IF Head(down) = "ping" THEN Begin("listener") ELSE UNCHANGED threadVars
  /\ UNCHANGED <<up, serverVars, ghostVars>>

Room == UpCap - Len(up)
Smaller(a, b) == IF a < b THEN a ELSE b
Sending(t) == wpc[t] = "send" /\ spc # "closed"
Units(t, k) == [j \in 1..k |-> [by |-> t, no |-> no[t], i |-> put[t] + j]]

Finish(t) ==
  /\ wpc' = [wpc EXCEPT ![t] = "ready"]
  /\ wrote' = wrote \cup {Current(t)}
  /\ UNCHANGED no

(* The frames of other threads that are in the middle of their send. *)
Open(t) == {Current(s) : s \in {s \in Threads \ {t} : wpc[s] = "send" /\ put[s] > 0}}

SendOnce(t) ==
  LET k == Smaller(Room, Size - put[t])
  IN /\ Sending(t) /\ k > 0
     /\ up' = up \o Units(t, k)
     /\ put' = [put EXCEPT ![t] = @ + k]
     /\ Finish(t)
     /\ mixed' = mixed \cup Open(t)
     /\ UNCHANGED <<down, serverVars, short>>

(* send copies what fits, and returns once everything is copied. *)
Send(t) ==
  LET k == Smaller(Room, Size - put[t])
  IN /\ Sending(t) /\ k > 0
     /\ up' = up \o Units(t, k)
     /\ put' = [put EXCEPT ![t] = @ + k]
     /\ IF put'[t] = Size THEN Finish(t) ELSE UNCHANGED <<wpc, no, wrote>>
     /\ mixed' = mixed \cup Open(t)
     /\ UNCHANGED <<down, serverVars, short>>

Stop(t) == wpc' = [wpc EXCEPT ![t] = "stopped"] /\ UNCHANGED <<no, put, wrote>>

InterruptedSucceeds(t) ==
  /\ Signals /\ Sending(t) /\ Room = 0
  /\ Finish(t)
  /\ short' = IF put[t] > 0 THEN short \cup {Current(t)} ELSE short
  /\ UNCHANGED <<up, down, put, serverVars, mixed>>

(* A signal ends a send that waits for room.  What it has copied is its      *)
(* result, and any result but -1 is a success; -1 ends the caller's loop.    *)
Interrupted(t) ==
  /\ Signals /\ Sending(t) /\ Room = 0
  /\ IF put[t] > 0
     THEN Finish(t) /\ short' = short \cup {Current(t)} /\ UNCHANGED put
     ELSE Stop(t) /\ UNCHANGED short
  /\ UNCHANGED <<up, down, serverVars, mixed>>

(* The connection is gone: the send fails. *)
SendFails(t) ==
  /\ wpc[t] = "send" /\ spc = "closed"
  /\ Stop(t)
  /\ UNCHANGED <<up, down, serverVars, ghostVars>>

----------------------------------------------------------------------------
(* The server *)

(* Whether unit u goes on with the frame that is being read. *)
Continues(u) ==
  IF part = <<>> THEN u.i = 1
  ELSE LET p == part[Len(part)] IN u = [p EXCEPT !.i = @ + 1]

(* A line is echoed by the goroutine that reads; a broken frame ends it. *)
ServerRead ==
  LET u == Head(up)
      p == Append(part, u)
  IN /\ spc = "read" /\ up # <<>>
     /\ up' = Tail(up)
     /\ IF ~Continues(u)
        THEN spc' = "closed" /\ UNCHANGED <<part, seen>>
        ELSE IF Len(p) < Size
        THEN part' = p /\ UNCHANGED <<spc, seen>>
        ELSE /\ part' = <<>>
             /\ seen' = Append(seen, <<u.by, u.no>>)
             /\ spc' = IF u.by = "main" THEN "echo" ELSE "read"
     /\ UNCHANGED <<down, threadVars, pings, ghostVars>>

ServerEcho ==
  /\ spc = "echo" /\ Len(down) < DownCap
  /\ down' = Append(down, "echo")
  /\ spc' = "read"
  /\ UNCHANGED <<up, threadVars, part, seen, pings, ghostVars>>

(* PINGs come whenever there is room for them. *)
ServerPing ==
  /\ spc # "closed" /\ pings < MaxPings /\ Len(down) < DownCap
  /\ down' = Append(down, "ping")
  /\ pings' = pings + 1
  /\ UNCHANGED <<up, threadVars, spc, part, seen, ghostVars>>

Writer(t) == Send(t) \/ SendFails(t)
Server == ServerRead \/ ServerEcho

Next ==
  \/ WriteLine \/ OnMsg
  \/ \E t \in Threads : Writer(t) \/ Interrupted(t)
  \/ Server \/ ServerPing

Spec == Init /\ [][Next]_vars

(* A send goes on when there is room, the listener and the server's loop     *)
(* run; nobody need type and no PING need come.                              *)
FairSpec ==
  /\ Spec
  /\ \A t \in Threads : WF_vars(Writer(t))
  /\ WF_vars(OnMsg) /\ WF_vars(Server)

----------------------------------------------------------------------------

(* There is no lock around the writes, and yet the server meets a broken     *)
(* frame only where another send copied into it, because its own had to wait *)
(* for room, or where a signal cut it short: the rest of the stream is a     *)
(* sequence of whole frames, whatever the two threads do.                    *)
TornOnlyWhenFull ==
  spc = "closed" => part # <<>> /\ <<part[1].by, part[1].no>> \in mixed \cup short

(* A frame for which ws_client_write returned true is read by the server     *)
(* once and in the order its thread wrote it, or is still on its way, or was *)
(* cut short.                                                                *)
OnItsWay(f) == \E j \in 1..Len(up) : up[j].by = f[1] /\ up[j].no = f[2]

WrittenArrives ==
  spc # "closed" =>
    /\ \A i, j \in 1..Len(seen) : i < j /\ seen[i][1] = seen[j][1] => seen[i][2] < seen[j][2]
    /\ \A f \in wrote :
         (\E i \in 1..Len(seen) : seen[i] = f) \/ OnItsWay(f) \/ f \in short

(* Nobody moves any more: the server waits for room to echo, and the         *)
(* listener reads nothing, because it waits for room to answer a PING, or    *)
(* has stopped.                                                              *)
Jammed ==
  /\ spc = "echo" /\ Len(down) = DownCap
  /\ \/ wpc["listener"] = "send" /\ Room = 0
     \/ wpc["listener"] = "stopped"

(* This is the only way a write of the main thread does not return. *)
WritesReturn == wpc["main"] = "send" ~> (wpc["main"] # "send" \/ Jammed)

(* A PING is answered in the end, unless this comes first, the connection    *)
(* breaks, or a signal has stopped the listener.                             *)
PingsAnswered ==
  \A k \in 1..MaxPings :
    pings >= k ~> \/ no["listener"] >= k /\ wpc["listener"] # "send"
                  \/ Jammed \/ spc = "closed" \/ wpc["listener"] = "stopped"
============================================================================
