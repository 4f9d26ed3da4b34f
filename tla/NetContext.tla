----------------------------- MODULE NetContext -----------------------------
(***************************************************************************)
(* The global TLS context of src/src/net.c: the pointer ctx, set up for a  *)
(* client or a server and taken down, by calls in any order.               *)
(***************************************************************************)
EXTENDS Integers

CONSTANT ContextFaults \* whether OpenSSL may refuse a context or a certificate

ASSUME ContextAssumption == ContextFaults \in BOOLEAN

VARIABLES
  ctx,    \* "null", "live", or "freed": not null, but released
  refused \* "server" once a net_init_server has failed on its key or certificate

contextVars == <<ctx, refused>>

ContextInit == ctx = "null" /\ refused = "none"

(* A context that is already there is kept, whatever it was made for.        *)
(* Otherwise it is made, or cannot be, or is made and released again because *)
(* of its certificate.                                                       *)
net_init_client ==
  /\ \/ ctx' = IF ctx = "null" THEN "live" ELSE ctx
     \/ ctx = "null" /\ ContextFaults /\ ctx' = "null"
  /\ UNCHANGED refused

(* The same; a key or certificate that is refused leaves the pointer behind. *)
net_init_server ==
  \/ net_init_client
  \/ ctx = "null" /\ ContextFaults /\ ctx' = "freed" /\ refused' = "server"

net_deinit_keeps_pointer ==
  /\ ctx' = IF ctx = "live" THEN "freed" ELSE ctx
  /\ UNCHANGED refused

(* A context that was released before is freed a second time. *)
net_deinit == ctx' = "null" /\ UNCHANGED refused

(* The pointer is set and its context gone. *)
Released == ctx = "freed"
=============================================================================
