----------------------------- MODULE Handshake -----------------------------
(***************************************************************************)
(* The opening handshake as text: an application's URL becomes a client    *)
(* (ws_client_from_str), the client a request (initial_handshake), which   *)
(* is read back by the library's own parser; the server's answer arrives   *)
(* up to any character and is parsed and judged as ws_client_connect does. *)
(* Requests that an application builds through headers/http.h go the same  *)
(* way.  Module Connect has the same call with its failures and retries,   *)
(* and the answer abstracted to pieces.                                    *)
(***************************************************************************)
EXTENDS Http, Url

CONSTANTS
  Builds,     \* the builds: TRUE is one with WEBC_USE_SSL
  Urls,       \* URLs by their parts [scheme, host, port, path]
  Answers,    \* answers of the server: [status, lines, rest]
  AppMethods, \* methods of an application's requests
  AppKeys, AppValues, AppBodies, MaxCalls \* its headers, bodies, calls

NoPort == -1

(* A header line, and a scheme with its "://". *)
Lines == [key : Words({":", LF}), value : Words({CR})]

IsScheme(s) ==
  /\ s \in Seq(STRING) /\ Len(s) >= 3 /\ SubSeq(s, Len(s) - 2, Len(s)) = <<":", "/", "/">>
  /\ SubSeq(s, 1, Len(s) - 3) \in Words({":", "/"})

(* Nothing checks what goes into a text: what is put between separators must *)
(* not contain them, as RFC 3986 and RFC 9110 have it.                       *)
ASSUME UrlsAssumption ==
  \A u \in Urls :
    /\ IsScheme(u.scheme)
    /\ u.host \in Words({PORT_SEP, PATH_SEP, CR}) /\ u.host # NULL
    /\ u.port = NoPort \/ u.port \in Nat
    /\ \/ u.path = NULL
       \/ u.path \in Words({" ", LF}) /\ u.path # <<>> /\ u.path[1] = PATH_SEP

ASSUME AnswersAssumption ==
  \A a \in Answers : a.status \in 100..999 /\ a.lines \in Seq(Lines) /\ a.rest \in Seq(STRING)

ASSUME AppAssumption ==
  /\ AppMethods \subseteq Methods \cup {HTTP_INVALID_METHOD}
  /\ AppKeys \subseteq Words({":", LF}) /\ AppValues \subseteq Words({CR})
  /\ AppBodies \subseteq Seq(STRING)

VARIABLES mode, UseSSL, url, client, live, calls

(* mode: who makes the request, "connect" or "application"; url: the parts   *)
(* of the URL; client: struct ws_client_t; live: which of its two texts are  *)
(* allocated; calls: calls the application has made.                         *)
appVars == <<mode, UseSSL, url, client, live, calls>>
vars == <<httpVars, appVars>>

PROTOCOL == <<"HTTP/1.1">>
empty_path == <<"/">>
Nonce == <<"nonce">>
Version == 13

(* The value of the accept header that belongs to Nonce. *)
Expected == <<"acc", "ept">>

UrlText(u) ==
  u.scheme \o u.host \o (IF u.port = NoPort THEN <<>> ELSE <<PORT_SEP>> \o to_str(u.port))
    \o (IF u.path = NULL THEN <<>> ELSE u.path)

Init ==
  /\ HttpInit
  /\ mode \in {"connect", "application"} /\ UseSSL \in Builds
  /\ url \in Urls /\ client = ws_client_init /\ live = {} /\ calls = 0
  /\ pc = IF mode = "connect" THEN "url" ELSE "init"
  \* an application's own requests have nothing to do with a URL
  /\ mode = "application" => url = CHOOSE u \in Urls : TRUE

FromStr ==
  /\ pc = "url"
  /\ LET r == ws_client_from_str(UrlText(url), UseSSL) IN
       /\ client' = r.client
       /\ live' = {f \in {"host", "path"} : client'[f] # NULL}
       /\ pc' = IF r.result = "true" THEN "init" ELSE "end"
       /\ fault' = IF r.result = "port_buffer" THEN "port_buffer" ELSE NoFault
  /\ UNCHANGED <<taskVars, msgVars, wireVars, text, index,
                 mode, UseSSL, url, calls>>

RequestInit == MessageInit /\ UNCHANGED appVars

----------------------------------------------------------------------------
(* initial_handshake *)

HandshakeHeaders ==
  <<[key |-> <<"Upgrade">>, value |-> <<"websocket">>],
    [key |-> <<"Connection">>, value |-> <<"Upgrade">>],
    [key |-> <<"sec", "key">>, value |-> Nonce],
    [key |-> <<"Sec", "Version">>, value |-> to_str(Version)]>>

(* The headers of a message after its lines were set in their order. *)
HeadersOf(hs) ==
  [k \in {normalized_cstr(hs[i].key) : i \in 1..Len(hs)} |->
     hs[CHOOSE i \in 1..Len(hs) :
          /\ normalized_cstr(hs[i].key) = k
          /\ \A j \in (i + 1)..Len(hs) : normalized_cstr(hs[j].key) # k].value]

RequestPathEmpty(c) == empty_path
RequestPath(c) == IF c.path = NULL THEN empty_path ELSE c.path

(* The request borrows the client's texts; a failure returns them first. *)
SetHandshakeHeaders ==
  /\ pc = "build" /\ mode = "connect" /\ msg = EmptyMessage
  /\ \/ /\ msg' = [EmptyMessage EXCEPT
                    !.path = RequestPath(client),
                    !.protocol = PROTOCOL,
                    !.host = client.host, !.port = client.port % 2^16,
                    !.headers = HeadersOf(HandshakeHeaders)]
        /\ UNCHANGED pc
     \/ /\ "alloc" \in HttpFaults
        /\ \E n \in 0..3 :
             msg' = [EmptyMessage EXCEPT !.headers = HeadersOf(SubSeq(HandshakeHeaders, 1, n))]
        /\ pc' = "free"
  /\ UNCHANGED <<taskVars, body_set, dangling, wireVars, text, index, fault, appVars>>

PrintRequest ==
  /\ pc = "build" /\ msg.path # NULL
  /\ \/ RequestToStrNull
     \/ /\ Printable(msg)
        /\ \E m \in Printed : \E order \in SetToSeqs(DOMAIN m.headers) : RequestToStr(m, order)
  /\ UNCHANGED appVars

GiveBackHost ==
  /\ pc = "printed"
  /\ msg' = IF mode = "connect" THEN [msg EXCEPT !.protocol = NULL, !.host = NULL]
                                ELSE msg
  /\ pc' = "free"
  /\ UNCHANGED <<taskVars, body_set, dangling, wireVars, text, index, fault, appVars>>

(* After printing too; what an application's request holds is its own. *)
GiveBack ==
  /\ pc = "printed"
  /\ msg' = IF mode = "connect"
            THEN [msg EXCEPT !.protocol = NULL, !.path = NULL, !.host = NULL] ELSE msg
  /\ pc' = "free"
  /\ UNCHANGED <<taskVars, body_set, dangling, wireVars, text, index, fault, appVars>>

(* http_message_free releases the texts the message still holds. *)
Free ==
  /\ MessageFree
  /\ live' = IF mode = "connect" /\ job = "print"
             THEN {f \in live : msg[f] = NULL} ELSE live
  /\ UNCHANGED <<mode, UseSSL, url, client, calls>>

----------------------------------------------------------------------------
(* The application's own requests *)

AppStart(method) ==
  /\ pc = "build" /\ mode = "application" /\ msg.path = NULL
  /\ msg' = [msg EXCEPT !.method = method, !.path = <<"/", "p">>, !.protocol = PROTOCOL,
                        !.host = <<"h">>, !.port = 3000]
  /\ UNCHANGED <<pc, taskVars, body_set, dangling, wireVars, text, index, fault, appVars>>

Calling ==
  /\ pc = "build" /\ mode = "application" /\ msg.path # NULL
  /\ calls < MaxCalls /\ calls' = calls + 1
  /\ UNCHANGED <<mode, UseSSL, url, client, live>>

(* http_request_set_header *)
AppSetHeader(key, value) ==
  /\ Calling
  /\ \/ msg' = set_header(msg, key, value) /\ UNCHANGED <<pc, dangling>>
     \/ SetHeaderFails(key) /\ pc' = "free"
  /\ UNCHANGED <<taskVars, body_set, wireVars, text, index, fault>>

(* http_request_write and http_request_write_cstr *)
AppWrite(body) ==
  /\ Calling
  /\ msg' = [msg EXCEPT !.body = @ \o body]
  /\ UNCHANGED <<pc, taskVars, body_set, dangling, wireVars, text, index, fault>>

----------------------------------------------------------------------------
(* The other side *)

(* The handshake's request arrives whole, everything else up to any point. *)
Arrives ==
  /\ \E n \in 0..Len(whole) :
       /\ mode = "connect" /\ kind = "request" => n = Len(whole)
       /\ Deliver(n)
  /\ UNCHANGED appVars

AnswerText(a) ==
  PROTOCOL \o Space \o to_str(a.status) \o Space \o <<"reason">> \o CRLF
    \o FlattenSeq([i \in 1..Len(a.lines) |-> HeaderLine(a.lines[i].key, a.lines[i].value)])
    \o CRLF \o a.rest

Answer(a) ==
  /\ pc = "end" /\ mode = "connect" /\ fault = NoFault
  /\ kind = "request" /\ job = "parse"
  /\ kind' = "response" /\ pc' = "wire"
  /\ whole' = AnswerText(a) /\ lines' = a.lines
  /\ sent' = [EmptyMessage EXCEPT
                !.headers = HeadersOf(a.lines), !.protocol = PROTOCOL, !.status_code = a.status,
                !.status_text = <<"reason">>, !.body = a.rest]
  /\ text' = <<>> /\ index' = 0
  /\ UNCHANGED <<job, msgVars, fault, appVars>>

check_empty_noonce(noonce) ==
  IF UseSSL THEN IsPrefix(noonce, Expected) ELSE IsPrefix(Expected, noonce)

(* check_response_noonce: with OpenSSL as much is compared as was received,  *)
(* without as much as is expected.                                           *)
check_response_noonce(noonce) ==
  /\ noonce # <<>>
  /\ IF UseSSL THEN IsPrefix(noonce, Expected) ELSE IsPrefix(Expected, noonce)

(* What ws_client_connect asks of a parsed answer. *)
Accepted ==
  LET noonce == get_header(msg, <<"sec", "accept">>) IN
  /\ msg.status_code < 300
  /\ noonce # NULL /\ check_response_noonce(noonce)

Parse == (StartLine \/ FromStrHeader \/ FromStrBody) /\ UNCHANGED appVars

Step ==
  \/ FromStr \/ RequestInit \/ SetHandshakeHeaders \/ GiveBack \/ Free \/ Arrives \/ Parse
  \/ PrintRequest \/ \E method \in AppMethods : AppStart(method)

Next ==
  \/ Step
  \/ \E key \in AppKeys, value \in AppValues : AppSetHeader(key, value)
  \/ \E body \in AppBodies : AppWrite(body)
  \/ FromStrHeaderFails /\ UNCHANGED appVars
  \/ \E a \in Answers : Answer(a)

(* A call runs on; nobody has to answer, and no header has to fail. *)
Spec == Init /\ [][Next]_vars /\ WF_vars(Step)

----------------------------------------------------------------------------

(* A URL that is accepted is taken apart into its own host, port, path and   *)
(* scheme.  Only a foreign scheme, wss without OpenSSL and a URL of six      *)
(* characters are refused, and only a port of more than five digits is       *)
(* stored outside its buffer.                                                *)
UrlUnderstood ==
  mode = "connect" /\ pc # "url" =>
    /\ client.host = NULL <=>
         \/ url.scheme \notin {WS_PREFIX} \cup (IF UseSSL THEN {WSS_PREFIX} ELSE {})
         \/ Len(UrlText(url)) <= 6
    /\ client.host # NULL =>
         client = [host |-> url.host, path |-> url.path, use_tls |-> url.scheme = WSS_PREFIX,
                   port |-> IF url.port = NoPort THEN DefaultPort ELSE url.port]
    /\ fault = "port_buffer" <=> client.host # NULL /\ url.port > 99999

NamedHost == url.host \o <<":">> \o to_str(client.port)

(* What the handshake's request says after it was printed and parsed again   *)
(* is what the URL said: the path, or "/", and the host with its port if     *)
(* that has 16 bits, unless there was no memory for the Host header; it asks *)
(* for the upgrade with the client's nonce and version, in whatever order    *)
(* the hash map yields the headers.                                          *)
RequestNamesUrl ==
  pc = "done" /\ mode = "connect" /\ kind = "request" /\ text = whole =>
    /\ msg.method = "GET"
    /\ msg.path = IF url.path = NULL THEN <<"/">> ELSE url.path
    /\ client.port < 65536 =>
         get_header(msg, <<"host">>) \in
           {NamedHost} \cup (IF "alloc" \in HttpFaults THEN {NULL} ELSE {})
    /\ get_header(msg, <<"upgrade">>) = <<"websocket">>
    /\ get_header(msg, <<"sec", "key">>) = Nonce
    /\ get_header(msg, <<"sec", "version">>) = <<"1", "3">>

(* A message that arrives whole is parsed into the message its sender meant; *)
(* a body that http_message_to_str printed has a line end behind it.         *)
RoundTrip ==
  pc = "done" /\ text = whole =>
    msg = [sent EXCEPT !.host = NULL, !.port = 80,
                       !.body = IF kind = "request" /\ @ # <<>> THEN @ \o CRLF ELSE @]

(* However a message is cut off, no header is made up: the headers found are *)
(* those of its first lines, only the last value may have lost its end, and  *)
(* the body is the beginning of the real one.                                *)
HeadersSound ==
  job = "parse" /\ pc \in {"lines", "done"} =>
    /\ \/ msg.headers = <<>>
       \/ \E n \in 1..Len(lines) : \E v \in Prefixes(lines[n].value) :
            /\ v # lines[n].value => index >= Len(text)
            /\ msg.headers = HeadersOf(SubSeq(lines, 1, n - 1) \o <<[lines[n] EXCEPT !.value = v]>>)
    /\ IsPrefix(msg.body, sent.body \o CRLF)

(* Where the header lines begin in the whole text. *)
LineStart(n) ==
  strcspn(whole, 0, {LF}) + 1
    + Len(FlattenSeq([i \in 1..(n - 1) |-> HeaderLine(lines[i].key, lines[i].value)]))

(* The text stops behind the second character of a header's name, up to its  *)
(* colon, or before a request's protocol.                                    *)
CutInName ==
  \/ \E n \in 1..Len(lines) :
       Len(text) - LineStart(n) \in 2..(Len(lines[n].key) + 1)
  \/ kind = "request" /\ Cardinality({i \in 1..Len(text) : text[i] = " "}) < 2

(* The parser reads past the end of a text exactly when the text was cut off *)
(* there: every other cut, and every whole message, is parsed in bounds.     *)
PastEndExactly ==
  job = "parse" => (fault = "past_end" => CutInName) /\ (pc = "done" => ~CutInName)

NamesAccept(i) == normalized_cstr(lines[i].key) = <<"sec", "accept">>

(* What arrived of line i's value. *)
Arrived(i) ==
  LET value == lines[i].value
      n == Len(text) - (LineStart(i) + Len(lines[i].key) + 2)
  IN IF n < Len(value) THEN SubSeq(value, 1, n) ELSE value

(* An answer is accepted only if it names the accept header with the value   *)
(* that belongs to the nonce: with something behind it in builds without     *)
(* OpenSSL, cut off by the network or by the server in builds with it.  The  *)
(* last accept header that arrived is the one that counts.                   *)
AcceptSound ==
  pc = "done" /\ kind = "response" /\ Accepted =>
    /\ sent.status_code < 300
    /\ \E i \in 1..Len(lines) :
         /\ NamesAccept(i)
         /\ \A j \in (i + 1)..Len(lines) : NamesAccept(j) => Len(text) <= LineStart(j) + 1
         /\ Arrived(i) # <<>>
         /\ IF UseSSL THEN IsPrefix(Arrived(i), Expected) ELSE IsPrefix(Expected, Arrived(i))

(* What a message frees is freed once, and not used behind it.  The request  *)
(* gives back the texts it borrowed from the client on every path, so        *)
(* freeing it never frees the client's host or path; and a header's value is *)
(* freed twice, or printed after it was freed, only when a set_header that   *)
(* replaces one fails: a message whose names differ, in any case and from    *)
(* the Host that is set for it, is never exposed to it.                      *)
TextsFreedOnce ==
  /\ \A f \in {"host", "path"} : client[f] # NULL => f \in live
  /\ fault = "double_free" =>
       IF job = "parse"
       THEN \E i, j \in 1..Len(lines) :
              i # j /\ normalized_cstr(lines[i].key) = normalized_cstr(lines[j].key)
       ELSE mode = "application" /\ calls > 1
  /\ fault = "freed" =>
       /\ mode = "application" /\ calls > 0
       /\ \E key \in AppKeys : normalized_cstr(key) = <<"host">>

(* Whatever arrived, parsing it ends: every header line moves the index on. *)
ParsingEnds == job = "parse" ~> (pc = "end" \/ fault # NoFault)
=============================================================================
