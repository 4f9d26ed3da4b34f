------------------------------ MODULE Connect ------------------------------
(***************************************************************************)
(* Setting up and tearing down a client: ws_client_connect of              *)
(* src/src/websocket.c with the net_connect of src/src/net.c and the check *)
(* of the server's answer, called again by an application that retries,    *)
(* ws_client_set_net_info, ws_client_free and the TLS context of           *)
(* NetContext.                                                             *)
(*                                                                         *)
(* The answer is abstracted to its status, to what its accept header holds *)
(* and to how much of it a single recv returned.  It has five pieces: the  *)
(* start line up to the reason, the headers up to a point inside a line,   *)
(* half of the accept value, the other half, and the rest.  Frames the     *)
(* server sends at once lie behind it.                                     *)
(***************************************************************************)
EXTENDS Integers, FiniteSets, NetContext

CONSTANTS
  Builds,      \* the builds: TRUE is one with WEBC_USE_SSL
  MaxAttempts, \* calls of ws_client_connect
  MaxSwaps,    \* calls of ws_client_set_net_info
  MaxAddrs,    \* addresses getaddrinfo returns
  Responses,   \* the server's answers: records [status, accept]
  Faults       \* what may go wrong: a subset of AllFaults

(* "address": a socket cannot be opened or connected; "tls": the TLS session *)
(* cannot be set up; "alloc": an allocation fails; "reset": send or recv     *)
(* fails; "segment": the answer arrives in pieces; "early": a frame arrives  *)
(* together with the answer.                                                 *)
AllFaults == {"address", "tls", "alloc", "reset", "segment", "early"}

Accepts == {"match", "longer", "other", "none"}

ASSUME ConnectAssumption ==
  /\ Builds \subseteq BOOLEAN
  /\ MaxAttempts \in Nat /\ MaxAddrs \in Nat /\ MaxSwaps \in Nat
  /\ Responses \subseteq [status: Nat, accept: Accepts]
  /\ Faults \subseteq AllFaults

VARIABLES
  pc,      \* "idle", "dial", "tls", "setup", "request", "send", "recv" or "check"
  attempt, \* calls so far
  host,    \* client->host is set
  UseSSL,  \* WEBC_USE_SSL of this build
  ptr,     \* client->__internal: Null, Wild or the attempt that allocated it
  live,    \* the attempts whose __ws_client_internal_t is allocated
  readers, \* the attempts whose ws_reader_t is allocated
  left,    \* addresses net_connect has not tried
  fds,     \* the open descriptors
  nsock,   \* descriptors handed out so far
  sock,    \* the descriptor of the connection
  ssl,     \* its TLS session: "none", "failed" or "done"
  dropped, \* descriptors that ws_client_set_net_info overwrote
  resp,    \* the server's answer, in a set, once it is given
  arrived, \* pieces of it that reached the socket
  eof,     \* the server has closed the connection
  got,     \* pieces recv returned
  result,  \* what the last call returned: "none", "true" or "false"
  fault    \* undefined behaviour that was met

netVars == <<left, fds, nsock, sock, ssl, dropped>>
serverVars == <<resp, arrived, eof>>
memVars == <<ptr, live, readers>>
callVars == <<attempt, host, UseSSL, contextVars>>
vars == <<pc, callVars, memVars, netVars, serverVars, got, result, fault>>

Null == 0
Wild == -1
NoFault == "none"
Running == fault = NoFault

(* Pieces of the answer. *)
Whole == 5

(* The client structure after ws_client_from_str, which leaves __internal as *)
(* it is: NULL after ws_client_init, not set when that was not called.       *)
Init ==
  /\ pc = "idle" /\ attempt = 0 /\ host = TRUE
  /\ UseSSL \in Builds
  /\ ptr \in {Null, Wild} /\ live = {} /\ readers = {}
  /\ left = 0 /\ fds = {} /\ nsock = 0 /\ sock = 0 /\ ssl = "none" /\ dropped = {}
  /\ resp = {} /\ arrived = 0 /\ eof = FALSE /\ got = 0
  /\ result = "none" /\ fault = NoFault
  /\ ContextInit

----------------------------------------------------------------------------
(* net_connect *)

(* ws_client_connect is entered; the name lookup returns some addresses, or  *)
(* none when it fails.                                                       *)
Connect ==
  /\ Running /\ pc = "idle" /\ result # "true"
  /\ attempt < MaxAttempts
  /\ attempt' = attempt + 1
  /\ \/ ~host /\ result' = "false" /\ UNCHANGED <<pc, left>>
     \/ host /\ pc' = "dial" /\ left' \in 0..MaxAddrs /\ UNCHANGED result
  /\ sock' = 0
  /\ ssl' = "none"
  /\ resp' = {} /\ arrived' = 0 /\ eof' = FALSE /\ got' = 0
  /\ UNCHANGED <<host, UseSSL, contextVars, memVars, fds, nsock, dropped, fault>>

(* No socket for this address: the next one is tried. *)
NoSocket ==
  /\ "address" \in Faults
  /\ pc = "dial" /\ left > 0
  /\ left' = left - 1
  /\ UNCHANGED <<pc, callVars, memVars, fds, nsock, sock, ssl, dropped, serverVars, got,
                 result, fault>>

(* The address does not answer: its socket is closed, the next one tried. *)
Refused ==
  /\ "address" \in Faults
  /\ pc = "dial" /\ left > 0
  /\ left' = left - 1
  /\ nsock' = nsock + 1
  /\ fds' = (fds \cup {nsock'}) \ {nsock'}
  /\ UNCHANGED <<pc, callVars, memVars, sock, ssl, dropped, serverVars, got, result, fault>>

Connected ==
  /\ pc = "dial" /\ left > 0
  /\ nsock' = nsock + 1
  /\ fds' = fds \cup {nsock'}
  /\ sock' = nsock'
  /\ pc' = IF UseSSL THEN "tls" ELSE "setup"
  /\ UNCHANGED <<callVars, memVars, left, ssl, dropped, serverVars, got, result, fault>>

NoAddress ==
  /\ pc = "dial" /\ left = 0
  /\ pc' = "idle"
  /\ result' = "false"
  /\ UNCHANGED <<callVars, memVars, netVars, serverVars, got, fault>>

(* net_close, and net_connect_cleanup after an error. *)
net_close ==
  /\ fds' = fds \ {sock}
  /\ ssl' = "none"
  /\ UNCHANGED <<left, nsock, sock, dropped>>

(* SSL_new needs the context.  SSL_connect returns 1, or 0, which is the     *)
(* failure the code looks for, or a negative number, which it takes for a    *)
(* success.                                                                  *)
TlsConnect ==
  /\ pc = "tls" /\ ~Released
  /\ \/ /\ ctx = "live"
        /\ ssl' \in {"done"} \cup (IF "tls" \in Faults THEN {"failed"} ELSE {})
        /\ pc' = "setup"
        /\ UNCHANGED <<fds, left, nsock, sock, dropped, result>>
     \/ /\ ctx = "null" \/ "tls" \in Faults
        /\ net_close /\ pc' = "idle" /\ result' = "false"
  /\ UNCHANGED <<callVars, memVars, serverVars, got, fault>>

TlsReleased ==
  /\ Running /\ pc = "tls" /\ Released
  /\ fault' = "context"
  /\ UNCHANGED <<pc, callVars, memVars, netVars, serverVars, got, result>>

----------------------------------------------------------------------------
(* The rest of ws_client_connect *)

SetupReuses ==
  /\ pc = "setup"
  /\ ptr' = IF ptr \in {Null, Wild} THEN attempt ELSE ptr
  /\ live' = live \cup {ptr'}
  /\ readers' = readers \cup {ptr'}
  /\ pc' = "request"
  /\ UNCHANGED <<callVars, netVars, serverVars, got, result, fault>>

(* A new structure with a new reader; an old pointer is overwritten. *)
Setup ==
  /\ pc = "setup"
  /\ ptr' = attempt
  /\ live' = live \cup {attempt}
  /\ readers' = readers \cup {attempt}
  /\ pc' = "request"
  /\ UNCHANGED <<callVars, netVars, serverVars, got, result, fault>>

FailKeepsSocket ==
  /\ live' = live \ {attempt}
  /\ result' = "false"
  /\ pc' = "idle"
  /\ UNCHANGED <<ptr, readers, netVars>>

(* Every failure closes the connection and frees the structure; the pointer  *)
(* to it and the reader stay.                                                *)
Fail ==
  /\ net_close
  /\ live' = live \ {attempt}
  /\ result' = "false"
  /\ pc' = "idle"
  /\ UNCHANGED <<ptr, readers>>

(* initial_handshake; when the request cannot be initialised it frees a body *)
(* that was never set (module Handshake).                                    *)
Request ==
  /\ pc = "request"
  /\ \/ pc' = "send" /\ UNCHANGED <<memVars, netVars, result>>
     \/ "alloc" \in Faults /\ Fail
  /\ fault' \in {NoFault} \cup (IF pc' = "idle" THEN {"wild"} ELSE {})
  /\ UNCHANGED <<callVars, serverVars, got>>

(* Without a TLS session nothing can be written. *)
Send ==
  /\ pc = "send"
  /\ \/ ssl # "failed" /\ pc' = "recv" /\ UNCHANGED <<memVars, netVars, result>>
     \/ (ssl = "failed" \/ "reset" \in Faults) /\ Fail
  /\ UNCHANGED <<callVars, serverVars, got, fault>>

(* The server's side of the connection. *)
Answer(r) ==
  /\ pc = "recv" /\ resp = {} /\ ~eof
  /\ resp' = {r}
  /\ arrived' \in 1..(Whole + 1)
  /\ arrived' < Whole => "segment" \in Faults
  /\ arrived' > Whole => "early" \in Faults
  /\ UNCHANGED <<pc, callVars, memVars, netVars, eof, got, result, fault>>

ServerClose ==
  /\ pc = "recv" /\ ~eof
  /\ eof' = TRUE
  /\ UNCHANGED <<pc, callVars, memVars, netVars, resp, arrived, got, result, fault>>

RecvWaitsForData ==
  /\ pc = "recv"
  /\ arrived > 0
  /\ got' = arrived
  /\ pc' = "check"
  /\ UNCHANGED <<callVars, memVars, netVars, serverVars, result, fault>>

(* ws_client_recv: one recv, whatever it returns. *)
Recv ==
  /\ pc = "recv"
  /\ arrived > 0 \/ eof
  /\ got' = arrived
  /\ pc' = "check"
  /\ UNCHANGED <<callVars, memVars, netVars, serverVars, result, fault>>

(* recv fails: the array it should have filled is freed although it was      *)
(* never set.                                                                *)
RecvFails ==
  /\ pc = "recv"
  /\ Faults \cap {"reset", "alloc"} # {}
  /\ Fail
  /\ fault' \in {NoFault, "wild"}
  /\ UNCHANGED <<callVars, serverVars, got>>

(* http_response_from_str: the start line must be there; a header line that  *)
(* is cut off makes the parser run past the end of the text.                 *)
ParseFails == got = 0
RunsPastEnd == got = 2

StatusOk(r) == r.status < 300

(* check_response_noonce: OpenSSL builds compare as much as was received,    *)
(* the others as much as is expected.                                        *)
check_response_noonce(r) ==
  IF UseSSL THEN \/ got = 3 /\ r.accept \in {"match", "longer"}
                 \/ got > 3 /\ r.accept = "match"
            ELSE got > 3 /\ r.accept \in {"match", "longer"}

Accepted ==
  ~ParseFails /\ \E r \in resp : StatusOk(r) /\ check_response_noonce(r)

Check ==
  /\ pc = "check"
  /\ \/ /\ Accepted
        /\ result' = "true" /\ pc' = "idle"
        /\ UNCHANGED <<memVars, netVars, fault>>
     \/ ~Accepted /\ Fail /\ fault' \in {NoFault} \cup (IF RunsPastEnd THEN {"past_end"} ELSE {})
     \/ "alloc" \in Faults /\ Fail /\ fault' \in {NoFault, "wild"}
  /\ UNCHANGED <<callVars, serverVars, got>>

----------------------------------------------------------------------------
(* What using client->__internal does when it is not a live structure. *)
BadPointer == fault' = IF ptr = Wild THEN "wild" ELSE "freed"

FreeKeepsPointer ==
  /\ Running /\ pc = "idle"
  /\ attempt > 0
  /\ host' = FALSE
  /\ result' = "none"
  /\ IF ptr \in live
     THEN net_close /\ live' = live \ {ptr} /\ readers' = readers \ {ptr} /\ UNCHANGED fault
     ELSE /\ IF ptr = Null THEN UNCHANGED fault ELSE BadPointer
          /\ UNCHANGED <<live, readers, netVars>>
  /\ UNCHANGED <<pc, ptr, attempt, UseSSL, contextVars, serverVars, got>>

(* ws_client_free, also of a client that was freed before. *)
Free ==
  /\ Running /\ pc = "idle"
  /\ attempt > 0
  /\ host' = FALSE
  /\ result' = "none"
  /\ IF ptr \in live
     THEN /\ net_close
          /\ live' = live \ {ptr}
          /\ readers' = readers \ {ptr}
          /\ ptr' = Null
          /\ UNCHANGED fault
     ELSE /\ IF ptr = Null THEN UNCHANGED fault ELSE BadPointer
          /\ UNCHANGED <<memVars, netVars>>
  /\ UNCHANGED <<pc, attempt, UseSSL, contextVars, serverVars, got>>

(* ws_client_set_net_info: the application hands in a connection of its own. *)
(* It overwrites the client's descriptor without closing it.  Nothing hands  *)
(* the old one out, so that the socket of net_connect can never be closed.   *)
SetNetInfo ==
  /\ Running /\ pc = "idle" /\ ptr # Null
  /\ Cardinality(dropped) < MaxSwaps
  /\ \/ /\ ptr \in live
        /\ nsock' = nsock + 1
        /\ fds' = fds \cup {nsock'}
        /\ dropped' = dropped \cup {sock}
        /\ sock' = nsock' /\ ssl' = "none"
        /\ UNCHANGED <<left, fault>>
     \/ ptr \notin live /\ BadPointer /\ UNCHANGED netVars
  /\ UNCHANGED <<pc, callVars, memVars, serverVars, got, result>>

(* The TLS context is set up and taken down between the calls.  A released   *)
(* one is freed again by net_deinit, and used by SSL_new.                    *)
Context ==
  /\ Running /\ pc = "idle" /\ UseSSL
  /\ \/ net_init_client /\ UNCHANGED fault
     \/ net_init_server /\ UNCHANGED fault
     \/ net_deinit /\ fault' = IF Released THEN "context" ELSE fault
  /\ UNCHANGED <<pc, attempt, host, UseSSL, memVars, netVars, serverVars, got, result>>

Client ==
  \/ NoSocket \/ Refused \/ Connected \/ NoAddress \/ TlsConnect \/ TlsReleased \/ Setup
  \/ Request \/ Send \/ Recv \/ Check

Server == (\E r \in Responses : Answer(r)) \/ ServerClose

Next ==
  \/ Connect \/ Client \/ RecvFails \/ Server \/ Free
  \/ SetNetInfo \/ Context

Spec == Init /\ [][Next]_vars

(* A call runs on; the server answers or gives up: ws_client_connect waits   *)
(* for it without a timeout.                                                 *)
FairSpec == Spec /\ WF_vars(Client) /\ WF_vars(Server)

----------------------------------------------------------------------------

(* What leaks is exactly what ws_client_set_net_info overwrites: the socket  *)
(* that net_connect opened, and in a second call a descriptor the            *)
(* application handed in before.  Besides these, only the descriptor of a    *)
(* connected client is open between two calls: no failure of                 *)
(* ws_client_connect, early or late, and no address that was tried in vain   *)
(* leaves one behind, however often the application retries, and releasing a *)
(* client closes the connection it was given last.                           *)
LeaksExactly ==
  pc = "idle" => fds = (IF result = "true" THEN {sock} ELSE {}) \cup dropped

(* A connected client is usable: its structure and its reader are allocated, *)
(* and the pointer is to them, not to those of an attempt that failed.       *)
ConnectedUsable ==
  pc = "idle" /\ result = "true" =>
    ptr = attempt /\ attempt \in live /\ attempt \in readers

(* The one dangling pointer that ws_client_free can meet is the one a failed *)
(* ws_client_connect leaves, whose reader was never destroyed.  A client     *)
(* that was freed can be freed again, as happens after a CLOSE, first in     *)
(* ws_client_on_msg and then in its caller.                                  *)
FreeTwiceSafe == fault = "freed" => ptr \in readers

(* A TLS context is used or freed after its release only if net_init_server  *)
(* has failed: with net_init_client alone the calls may come in any order,   *)
(* repeated, failing, and around any connection.                             *)
ContextSafe == fault = "context" => refused = "server"

(* ws_client_connect returns, also when the server closes the connection     *)
(* instead of answering, unless it meets a released TLS context.             *)
ConnectReturns == pc # "idle" ~> (pc = "idle" \/ fault = "context")
============================================================================
