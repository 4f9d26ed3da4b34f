-------------------------------- MODULE Url --------------------------------
(***************************************************************************)
(* ws_client_from_str of src/src/websocket.c: the URL taken apart.         *)
(***************************************************************************)
EXTENDS Text, SequencesExt

WS_PREFIX == <<"w", "s", ":", "/", "/">>
WSS_PREFIX == <<"w", "s", "s", ":", "/", "/">>
PORT_SEP == ":"
PATH_SEP == "/"

(* Bytes of port_buffer. *)
PortBuffer == 6

DefaultPort == 80

(* struct ws_client_t as ws_client_init leaves it. *)
ws_client_init == [host |-> NULL, path |-> NULL, port |-> DefaultPort, use_tls |-> FALSE]

(* Where the host starts: 0 when the URL is refused. *)
HostOffset(url, ssl) ==
  IF Len(url) <= Len(WSS_PREFIX) THEN 0
  ELSE IF IsPrefix(WS_PREFIX, url) THEN Len(WS_PREFIX)
  ELSE IF IsPrefix(WSS_PREFIX, url) /\ ssl THEN Len(WSS_PREFIX)
  ELSE 0

PortTextToEnd(url, offset) == str_dup(url, offset + 1, Len(url) - offset - 1)

(* The text between the host's colon and the path. *)
PortText(url, offset) == str_dup(url, offset + 1, strcspn(url, offset + 1, {PATH_SEP}))

(* The result with the client it fills; "port_buffer" when the port and its  *)
(* NUL do not fit into the buffer.                                           *)
ws_client_from_str(url, ssl) ==
  LET start == HostOffset(url, ssl)
      offset == start + strcspn(url, start, {PORT_SEP, PATH_SEP})
      hasPort == offset < Len(url) /\ url[offset + 1] = PORT_SEP
      port == PortText(url, offset)
      rest == IF hasPort THEN offset + 1 + Len(port) ELSE offset
      hasPath == rest < Len(url) /\ url[rest + 1] = PATH_SEP
  IN IF start = 0
     THEN [result |-> "false", client |-> ws_client_init]
     ELSE [result |-> IF hasPort /\ Len(port) + 1 > PortBuffer THEN "port_buffer" ELSE "true",
           client |-> [host |-> str_dup(url, start, offset - start),
                       path |-> IF hasPath THEN str_dup(url, rest, Len(url) - rest) ELSE NULL,
                       port |-> IF hasPort THEN atoi(port) ELSE DefaultPort,
                       use_tls |-> start = Len(WSS_PREFIX)]]
=============================================================================
