------------------------------ MODULE Channel ------------------------------
(***************************************************************************)
(* What the receiving half of the client promises: a channel that hands    *)
(* over the peer's messages one by one, in the order in which the peer     *)
(* finished them, until it breaks.  Nothing is promised of what comes out  *)
(* of a broken channel, except that it is not taken back.                  *)
(***************************************************************************)
EXTENDS Naturals, SequencesExt

VARIABLES sentMsgs, received, broken

vars == <<sentMsgs, received, broken>>

Init ==
  /\ sentMsgs = <<>>
  /\ received = <<>>
  /\ broken = FALSE

Send ==
  /\ Len(sentMsgs') = Len(sentMsgs) + 1
  /\ IsPrefix(sentMsgs, sentMsgs')
  /\ UNCHANGED <<received, broken>>

Deliver ==
  /\ ~broken
  /\ Len(received) < Len(sentMsgs)
  /\ received' = Append(received, sentMsgs[Len(received) + 1])
  /\ UNCHANGED <<sentMsgs, broken>>

Break ==
  /\ ~broken
  /\ broken' = TRUE
  /\ UNCHANGED <<sentMsgs, received>>

DeliverBroken ==
  /\ broken
  /\ Len(received') = Len(received) + 1
  /\ IsPrefix(received, received')
  /\ UNCHANGED <<sentMsgs, broken>>

Next == Send \/ Deliver \/ Break \/ DeliverBroken

Spec == Init /\ [][Next]_vars
============================================================================
