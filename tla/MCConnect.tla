----------------------------- MODULE MCConnect -----------------------------
(***************************************************************************)
(* Connect for a server that upgrades, answers something else or refuses.  *)
(***************************************************************************)
EXTENDS Connect

MCResponses ==
  { [status |-> 101, accept |-> a] : a \in Accepts } \cup
  { [status |-> 200, accept |-> "none"], [status |-> 404, accept |-> "none"],
    [status |-> 302, accept |-> "match"] }
=============================================================================
