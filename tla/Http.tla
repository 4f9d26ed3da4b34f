-------------------------------- MODULE Http --------------------------------
(***************************************************************************)
(* HTTP messages: src/src/http.c.  A message is built and printed, its     *)
(* text, or as much of it as one recv returned, is parsed into a new       *)
(* message, one step per header line, and every message is freed.          *)
(***************************************************************************)
EXTENDS Text, SequencesExt, FiniteSets

CONSTANT HttpFaults \* "alloc": an allocation, in a container or not, fails

VARIABLES
  pc,       \* "init", "build", "printed", "wire", "start", "lines", "done", "free", "end"
  job,      \* "print" or "parse"
  kind,     \* "request" or "response"
  msg,      \* the struct http_message_t
  body_set, \* its body was initialised
  dangling, \* names of its headers whose value was freed but not replaced
  whole,    \* the text of a complete message, NULL when it was not printed
  lines,    \* the header lines in it: a sequence of [key, value]
  sent,     \* the message its sender meant
  text,     \* as much of it as arrived
  index,    \* the parser's offset
  fault     \* undefined behaviour that was met

taskVars == <<job, kind>>
msgVars == <<msg, body_set, dangling>>
wireVars == <<whole, lines, sent>>
httpVars == <<pc, taskVars, msgVars, wireVars, text, index, fault>>

NoFault == "none"

----------------------------------------------------------------------------
(* enum http_method_t and its names; a method is the character of its name. *)
Methods == {"GET", "POST", "PUT", "DELETE", "OPTIONS"}
HTTP_INVALID_METHOD == "invalid"

http_method_get_string(method) == IF method \in Methods THEN <<method>> ELSE <<>>

(* A word that starts with a method's name is taken for that method. *)
http_method_get_enum(word) ==
  IF word # <<>> /\ word[1] \in Methods THEN word[1] ELSE HTTP_INVALID_METHOD

(* Lower case of the names that occur, word by word. *)
LowerCase ==
  [Upgrade |-> "upgrade", Connection |-> "connection", Host |-> "host",
   Sec |-> "sec", Version |-> "version", Accept |-> "accept", X |-> "x"]

normalized_cstr(key) ==
  [i \in 1..Len(key) |-> IF key[i] \in DOMAIN LowerCase THEN LowerCase[key[i]] ELSE key[i]]

(* Message after http_message_init; protocol, status are not set by it. *)
EmptyMessage ==
  [method |-> "GET", host |-> NULL, path |-> NULL, port |-> 80, protocol |-> NULL,
   status_code |-> 0, status_text |-> NULL, headers |-> <<>>, body |-> <<>>]

set_header(m, key, value) ==
  LET name == normalized_cstr(key)
  IN [m EXCEPT !.headers =
        [k \in {name} \cup DOMAIN @ |-> IF k = name THEN value ELSE m.headers[k]]]

get_header(m, key) ==
  LET k == normalized_cstr(key)
  IN IF k \in DOMAIN m.headers THEN m.headers[k] ELSE NULL

----------------------------------------------------------------------------
(* Printers.  order is the order in which the hash map yields the names. *)

HeaderLine(key, value) == key \o <<":", " ">> \o value \o CRLF

http_message_to_str(m, order) ==
  FlattenSeq([i \in 1..Len(order) |-> HeaderLine(order[i], m.headers[order[i]])])
    \o CRLF \o (IF m.body = <<>> THEN <<>> ELSE m.body \o CRLF)

(* The message http_request_to_str prints: the Host header is set by it. *)
WithHost(m) ==
  set_header(m, <<"Host">>, m.host \o <<":">> \o to_str(m.port))

Printable(m) ==
  /\ m.method # HTTP_INVALID_METHOD
  /\ m.path # NULL /\ m.protocol # NULL /\ m.host # NULL

http_request_to_str(m, order) ==
  http_method_get_string(m.method) \o Space \o m.path \o Space \o m.protocol \o CRLF
    \o http_message_to_str(m, order)

----------------------------------------------------------------------------
(* Start lines.  Each word ends at a space, the last at the CR; the words    *)
(* must lie within the first line, of line_len characters.  A result is      *)
(* "false", "past_end" or "true" with the message.                           *)

Parsed(r, m) == [result |-> r, message |-> m]

parse_response_start_line(s, line_len) ==
  LET w1 == strcspn(s, 0, {" "})
      i2 == w1 + 1
      w2 == strcspn(s, i2, {" "})
      i3 == i2 + w2 + 1
      w3 == strcspn(s, i3, {CR})
      digits == str_dup(s, i2, IF i2 + 3 <= Len(s) THEN 3 ELSE Len(s) - i2)
  IN IF line_len = 0 \/ w1 > line_len \/ i2 > line_len \/ i2 + w2 > line_len
          \/ i3 > line_len \/ i3 + w3 > line_len
     THEN Parsed("false", msg)
     ELSE Parsed("true", [msg EXCEPT !.protocol = str_dup(s, 0, w1),
                                     !.status_code = atoi(digits) % 2^16,
                                     !.status_text = str_dup(s, i3, w3)])

parse_request_start_line(s, line_len) ==
  LET e1 == strcspn(s, 0, {" "})
      e2 == e1 + 1 + strcspn(s, e1 + 1, {" "})
      e3 == e2 + 1 + strcspn(s, e2 + 1, {CR})
  IN IF e1 > line_len THEN Parsed("false", msg)
     ELSE IF ~InBounds(s, e1 + 1) THEN Parsed("past_end", msg)
     ELSE IF e2 > line_len THEN Parsed("false", msg)
     ELSE IF ~InBounds(s, e2 + 1) THEN Parsed("past_end", msg)
     ELSE IF e3 > line_len THEN Parsed("false", msg)
     ELSE Parsed("true", [msg EXCEPT !.method = http_method_get_enum(str_dup(s, 0, e1)),
                                     !.path = str_dup(s, e1 + 1, e2 - e1 - 1),
                                     !.protocol = str_dup(s, e2 + 1, e3 - e2 - 1)])

----------------------------------------------------------------------------
(* Steps *)

HttpInit ==
  /\ job = "print" /\ kind = "request"
  /\ msg = EmptyMessage /\ body_set = FALSE /\ dangling = {}
  /\ whole = NULL /\ lines = <<>> /\ sent = EmptyMessage /\ text = <<>> /\ index = 0
  /\ fault = NoFault

(* http_message_init: without a hash map it returns before the body is set. *)
MessageInit ==
  /\ pc = "init"
  /\ msg' = EmptyMessage /\ dangling' = {} /\ index' = 0
  /\ \/ body_set' = TRUE /\ pc' = IF job = "print" THEN "build" ELSE "start"
     \/ "alloc" \in HttpFaults /\ body_set' \in BOOLEAN /\ pc' = "free"
  /\ UNCHANGED <<taskVars, wireVars, text, fault>>

(* http_message_set_header fails: a value the name had is freed by then, and *)
(* stays in the map.                                                         *)
SetHeaderFails(key) ==
  /\ "alloc" \in HttpFaults
  /\ dangling' = dangling \cup ({normalized_cstr(key)} \cap DOMAIN msg.headers)
  /\ UNCHANGED msg

(* The message that is printed; a Host that cannot be set is only logged. *)
Printed ==
  {WithHost(msg)} \cup (IF "alloc" \in HttpFaults THEN {msg} ELSE {})

(* http_request_to_str, which needs memory for the text.  A Host that was    *)
(* freed and could not be set is printed all the same.                       *)
RequestToStr(m, order) ==
  /\ pc = "build" /\ Printable(msg)
  /\ msg' = m /\ sent' = m
  /\ dangling' = IF m = WithHost(msg) THEN dangling
                 ELSE dangling \cup ({<<"host">>} \cap DOMAIN msg.headers)
  /\ fault' = IF dangling' = {} THEN fault ELSE "freed"
  /\ lines' = [i \in 1..Len(order) |-> [key |-> order[i], value |-> m.headers[order[i]]]]
  /\ \/ whole' = http_request_to_str(m, order)
     \/ "alloc" \in HttpFaults /\ whole' = NULL
  /\ pc' = "printed"
  /\ UNCHANGED <<taskVars, body_set, text, index>>

RequestToStrNull ==
  /\ pc = "build" /\ ~Printable(msg)
  /\ pc' = "printed" /\ whole' = NULL
  /\ UNCHANGED <<taskVars, msgVars, lines, sent, text, index, fault>>

(* http_message_free.  A body that was not set may hold anything; a value    *)
(* that was freed is freed again with the map.                               *)
MessageFree ==
  /\ pc \in {"done", "free"} /\ fault = NoFault
  /\ fault' \in IF dangling # {} THEN {"double_free"}
                ELSE {NoFault} \cup (IF body_set THEN {} ELSE {"wild"})
  /\ pc' = IF job = "print" /\ whole # NULL THEN "wire" ELSE "end"
  /\ msg' = EmptyMessage /\ body_set' = FALSE
  /\ dangling' = {}
  /\ UNCHANGED <<taskVars, wireVars, text, index>>

(* The receiver gets the first n characters. *)
Deliver(n) ==
  /\ pc = "wire"
  /\ text' = SubSeq(whole, 1, n)
  /\ job' = "parse" /\ pc' = "init"
  /\ UNCHANGED <<kind, msgVars, wireVars, index, fault>>

(* http_request_from_str and http_response_from_str up to the headers. *)
StartLine ==
  /\ pc = "start"
  /\ LET line_len == strcspn(text, 0, {LF})
         start == IF kind = "request" THEN parse_request_start_line(text, line_len)
                                      ELSE parse_response_start_line(text, line_len)
     IN /\ msg' = start.message
        /\ index' = line_len + 1
        /\ pc' = IF start.result = "true" THEN "lines" ELSE "free"
        /\ fault' = IF start.result = "past_end" THEN "past_end" ELSE fault
  /\ UNCHANGED <<taskVars, body_set, dangling, wireVars, text>>

HeadersOverAtEnd == index < Len(text) => FALSE
HeadersOverLate == index <= Len(text) => strcspn(text, index, {LF}) = 1

(* The loop of http_message_from_str ends at the end of the text, or at a    *)
(* line of one character; what is left is the body.                          *)
HeadersOver == index < Len(text) => strcspn(text, index, {LF}) = 1

(* Behind a name stand a colon and a space, behind a value CR and LF. *)
ValueOffsetColon(start, key_len) == start + key_len + 1
ValueOffset(start, key_len) == start + key_len + 2

NextLineSame(start, at, value_len) == start
NextLine(start, at, value_len) == at + value_len + 2

FromStrHeader ==
  /\ pc = "lines" /\ ~HeadersOver
  /\ LET key_len == strcspn(text, index, {":"})
         at == ValueOffset(index, key_len)
         value_len == strcspn(text, at, {CR})
     IN \/ /\ ~InBounds(text, at)
           /\ fault' = "past_end" /\ pc' = "free"
           /\ UNCHANGED <<msg, index>>
        \/ /\ InBounds(text, at)
           /\ msg' = set_header(msg, str_dup(text, index, key_len), str_dup(text, at, value_len))
           /\ index' = NextLine(index, at, value_len)
           /\ UNCHANGED <<pc, fault>>
  /\ UNCHANGED <<taskVars, body_set, dangling, wireVars, text>>

FromStrHeaderFails ==
  /\ pc = "lines" /\ ~HeadersOver
  /\ LET key_len == strcspn(text, index, {":"})
     IN /\ InBounds(text, ValueOffset(index, key_len))
        /\ SetHeaderFails(str_dup(text, index, key_len))
  /\ pc' = "free"
  /\ UNCHANGED <<taskVars, body_set, wireVars, text, index, fault>>

FromStrBody ==
  /\ pc = "lines" /\ HeadersOver
  /\ LET start == IF index < Len(text) THEN index + 2 ELSE index
         n == IF start < Len(text) THEN Len(text) - start ELSE 0
     IN msg' = [msg EXCEPT !.body = @ \o str_dup(text, start, n)]
  /\ pc' \in {"done"} \cup (IF "alloc" \in HttpFaults THEN {"free"} ELSE {})
  /\ UNCHANGED <<taskVars, body_set, dangling, wireVars, text, index, fault>>
=============================================================================
