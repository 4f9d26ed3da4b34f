----------------------------- MODULE MCMasking -----------------------------
(***************************************************************************)
(* Masking on every length up to three vector blocks and a tail.           *)
(***************************************************************************)
EXTENDS Masking, Bitwise

MCByte == 0..255
MCXor(a, b) == a ^^ b

MaxLen == 50

(* Four different octets, so that a lane that meets the wrong one shows. *)
MCKey == [i \in 0..3 |-> <<18, 52, 86, 171>>[i + 1]]

MCInputs ==
  { [mask |-> m, key |-> MCKey, len |-> n,
     src |-> [i \in 0..(n - 1) |-> (37 * i + 11) % 256]] :
      m \in {0, 1}, n \in 0..MaxLen }
============================================================================
