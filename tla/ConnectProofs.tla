--------------------------- MODULE ConnectProofs ---------------------------
(***************************************************************************)
(* For every number of attempts and addresses, every server and every      *)
(* fault: a descriptor leaks only when ws_client_set_net_info overwrites   *)
(* it, a connected client points to a live structure and reader, a client  *)
(* can be freed twice, and only a failed net_init_server leaves a released *)
(* TLS context.                                                            *)
(***************************************************************************)
EXTENDS Connect, TLAPS

(* The steps of ws_client_connect at which the connection is open, and those *)
(* at which the structure exists.                                            *)
OnLine == {"tls", "setup", "request", "send", "recv", "check"}
Built == {"request", "send", "recv", "check"}

(* Where a descriptor is open: it is the one in sock, while the call has a   *)
(* connection or once it has succeeded, or one that was overwritten.         *)
Descriptors ==
  /\ nsock \in Nat /\ attempt \in Nat
  /\ pc \in {"idle", "dial"} \cup OnLine
  /\ pc # "idle" => result # "true"
  /\ sock \in 0..nsock /\ dropped \subseteq 1..nsock /\ sock \notin dropped
  /\ pc \in OnLine \/ result = "true" => sock # 0
  /\ fds = (IF pc \in OnLine \/ result = "true" THEN {sock} ELSE {}) \cup dropped

(* Where a structure is in place: it is that of the current attempt. *)
Structure ==
  IF pc \in Built \/ result = "true"
  THEN live = {attempt} /\ ptr = attempt /\ attempt \in readers
  ELSE live = {}

(* A pointer that is set has a reader behind it. *)
Dangling ==
  /\ ptr \in {Null, Wild} \cup readers
  /\ fault = "freed" => ptr \in readers

IInv == Descriptors /\ Structure /\ Dangling

LEMMA InitIInv == Init => IInv
  BY DEF Init, IInv, Descriptors, Structure, Dangling, OnLine, Built, NoFault

LEMMA DialStep ==
  ASSUME IInv, Connect \/ NoSocket \/ Refused \/ Connected \/ NoAddress \/ TlsConnect
  PROVE  IInv'
<1> USE DEF IInv, Descriptors, Structure, Dangling, OnLine, Built
<1>1. CASE Connect
  BY <1>1 DEF Connect, memVars
<1>2. CASE NoSocket
  BY <1>2 DEF NoSocket, memVars, callVars
<1>3. CASE Refused
  <2>1. pc = "dial" /\ pc' = "dial" /\ fds = dropped /\ fds' = fds /\ nsock' \in Nat
    BY <1>3 DEF Refused
  <2> QED
    BY <1>3, <2>1 DEF Refused, memVars, callVars
<1>4. CASE Connected
  BY <1>4 DEF Connected, memVars, callVars
<1>5. CASE NoAddress
  BY <1>5 DEF NoAddress, memVars, callVars, netVars
<1>6. CASE TlsConnect
  BY <1>6 DEF TlsConnect, memVars, callVars, net_close
<1> QED
  BY <1>1, <1>2, <1>3, <1>4, <1>5, <1>6

(* A failure behind net_connect closes the connection. *)
LEMMA FailStep ==
  ASSUME IInv, pc \in Built, Fail, UNCHANGED callVars
  PROVE  IInv'
  BY DEF IInv, Descriptors, Structure, Dangling, OnLine, Built, Fail, net_close, callVars

LEMMA HandshakeStep ==
  ASSUME IInv, Setup \/ Request \/ Send \/ Recv \/ RecvFails \/ Check
  PROVE  IInv'
<1> USE DEF IInv, Descriptors, Structure, Dangling, OnLine, Built
<1>1. CASE Setup
  BY <1>1 DEF Setup, callVars, netVars
<1>2. CASE Request
  BY <1>2, FailStep DEF Request, callVars, netVars, memVars
<1>3. CASE Send
  BY <1>3, FailStep DEF Send, callVars, netVars, memVars
<1>4. CASE Recv
  BY <1>4 DEF Recv, callVars, netVars, memVars
<1>5. CASE RecvFails
  BY <1>5, FailStep DEF RecvFails, NoFault
<1>6. CASE Check
  BY <1>6, FailStep DEF Check, callVars, netVars, memVars
<1> QED
  BY <1>1, <1>2, <1>3, <1>4, <1>5, <1>6

(* The application's other calls. *)
LEMMA AppStep ==
  ASSUME IInv, SetNetInfo \/ Context \/ TlsReleased
  PROVE  IInv'
<1> USE DEF IInv, Descriptors, Structure, Dangling, OnLine, Built
<1>1. CASE SetNetInfo
  <2>1. CASE ptr \in live
    <3>1. /\ result = "true" /\ pc = "idle" /\ pc' = pc /\ result' = result
          /\ fds = {sock} \cup dropped /\ sock' = nsock + 1 /\ nsock' = nsock + 1
          /\ dropped' = dropped \cup {sock} /\ fds' = fds \cup {nsock + 1}
      BY <1>1, <2>1 DEF SetNetInfo
    <3> QED
      BY <1>1, <2>1, <3>1 DEF SetNetInfo, callVars, memVars, BadPointer
  <2>2. CASE ptr \notin live
    BY <1>1, <2>2 DEF SetNetInfo, callVars, memVars, netVars, BadPointer, Running, NoFault
  <2> QED
    BY <2>1, <2>2
<1>2. CASE Context
  BY <1>2 DEF Context, memVars, netVars, Running, NoFault
<1>3. CASE TlsReleased
  BY <1>3 DEF TlsReleased, callVars, memVars, netVars
<1> QED
  BY <1>1, <1>2, <1>3

LEMMA ServerStep ==
  ASSUME IInv, Server
  PROVE  IInv'
<1>1. UNCHANGED <<pc, callVars, memVars, netVars, result, fault>>
  BY DEF Server, Answer, ServerClose
<1> QED
  BY <1>1 DEF IInv, Descriptors, Structure, Dangling, callVars, netVars, memVars

LEMMA FreeStep ==
  ASSUME IInv, Free
  PROVE  IInv'
<1> USE DEF IInv, Descriptors, Structure, Dangling, OnLine, Built
<1>1. CASE ptr \in live
  <2>1. /\ pc = "idle" /\ pc' = pc /\ result = "true" /\ result' = "none"
        /\ live = {ptr} /\ fds = {sock} \cup dropped
    BY <1>1 DEF Free
  <2>2. /\ fds' = fds \ {sock} /\ live' = live \ {ptr} /\ ptr' = Null
        /\ UNCHANGED <<nsock, attempt, sock, dropped, fault>> /\ fault = NoFault
    BY <1>1 DEF Free, net_close, Running
  <2>3. fds' = dropped /\ live' = {}
    BY <2>1, <2>2
  <2> QED
    BY <2>1, <2>2, <2>3 DEF NoFault
<1>2. CASE ptr \notin live
  <2>1. result # "true" /\ pc = "idle"
    BY <1>2 DEF Free
  <2>2. /\ UNCHANGED <<pc, nsock, attempt, sock, dropped, fds, ptr, live, readers>>
        /\ result' = "none" /\ fault = NoFault
    BY <1>2 DEF Free, netVars, memVars, Running
  <2>3. \/ fault' = fault
        \/ ptr # Null /\ fault' = (IF ptr = Wild THEN "wild" ELSE "freed")
    BY <1>2 DEF Free, BadPointer, Null, Wild
  <2>4. (fault = "freed" => ptr \in readers)'
    BY <2>2, <2>3 DEF NoFault
  <2> QED
    BY <2>1, <2>2, <2>4
<1> QED
  BY <1>1, <1>2

LEMMA NextIInv == IInv /\ [Next]_vars => IInv'
<1> SUFFICES ASSUME IInv, [Next]_vars PROVE IInv'
  OBVIOUS
<1>1. CASE UNCHANGED vars
  BY <1>1 DEF IInv, Descriptors, Structure, Dangling, vars, callVars, memVars, netVars
<1>2. CASE Next
  BY <1>2, DialStep, HandshakeStep, ServerStep, FreeStep, AppStep DEF Next, Client
<1> QED
  BY <1>1, <1>2

LEMMA Invariance == Spec => []IInv
  BY InitIInv, NextIInv, PTL DEF Spec

(* For any number of addresses, attempts and calls of                        *)
(* ws_client_set_net_info: no failed ws_client_connect leaves a descriptor   *)
(* open, at whatever step it fails, and what stays open are the descriptors  *)
(* ws_client_set_net_info has overwritten, all of them.                      *)
THEOREM DescriptorsCorrect == Spec => []LeaksExactly
<1>1. IInv => LeaksExactly
  BY DEF IInv, Descriptors, LeaksExactly, OnLine
<1> QED
  BY Invariance, <1>1, PTL

(* A call that returns true leaves a pointer to a live structure and reader, *)
(* whatever earlier attempts left in client->__internal.                     *)
THEOREM UsableCorrect == Spec => []ConnectedUsable
<1>1. IInv => ConnectedUsable
  BY DEF IInv, Structure, ConnectedUsable
<1> QED
  BY Invariance, <1>1, PTL

(* ws_client_free of a client that was freed before does nothing; a dangling *)
(* pointer is always one that a failed ws_client_connect left.               *)
THEOREM FreeTwiceCorrect == Spec => []FreeTwiceSafe
<1>1. IInv => FreeTwiceSafe
  BY DEF IInv, Dangling, FreeTwiceSafe
<1> QED
  BY Invariance, <1>1, PTL

(* A context that is released but still pointed to, and where it comes from. *)
CInv == (ctx = "freed" => refused = "server") /\ ContextSafe

(* A released TLS context is used or freed only after net_init_server has    *)
(* failed, in whatever order net_init_client, net_deinit and the             *)
(* connections come.                                                         *)
THEOREM ContextCorrect == Spec => []ContextSafe
<1> USE DEF CInv, ContextSafe
<1>1. Init => CInv
  BY DEF Init, ContextInit, NoFault
<1>2. CInv /\ [Next]_vars => CInv'
  <2> SUFFICES ASSUME CInv, [Next]_vars PROVE CInv'
    OBVIOUS
  <2> USE DEF callVars, contextVars
  <2>1. CASE UNCHANGED vars
    BY <2>1 DEF vars
  <2>2. CASE Context
    BY <2>2 DEF Context, net_init_client, net_init_server, net_deinit, Released
  <2>3. CASE TlsReleased
    BY <2>3 DEF TlsReleased, Released
  <2>4. CASE Connect \/ NoSocket \/ Refused \/ Connected \/ NoAddress \/ TlsConnect
    BY <2>4 DEF Connect, NoSocket, Refused, Connected, NoAddress, TlsConnect
  <2>5. CASE Setup \/ Request \/ Send \/ Recv \/ RecvFails \/ Check
    BY <2>5 DEF Setup, Request, Send, Recv, RecvFails, Check, NoFault
  <2>6. CASE Server \/ SetNetInfo \/ Free
    BY <2>6 DEF Server, Answer, ServerClose, SetNetInfo, Free, BadPointer
  <2> QED
    BY <2>1, <2>2, <2>3, <2>4, <2>5, <2>6 DEF Next, Client
<1>3. CInv => ContextSafe
  OBVIOUS
<1> QED
  BY <1>1, <1>2, <1>3, PTL DEF Spec
============================================================================
