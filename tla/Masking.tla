------------------------------ MODULE Masking ------------------------------
(***************************************************************************)
(* Payload bytes through src/src/simd.c and ws_frame_handle_payload of     *)
(* src/src/protocol.c, twice: the sender's pass masks the payload into the *)
(* output buffer, the receiver's pass takes it out again.  Each end is     *)
(* built either with the vector loop (clang and gcc vector extensions, the *)
(* branch every supported build selects) or with DISABLE_SIMD, and the two *)
(* ends need not agree.                                                    *)
(*                                                                         *)
(* Buffers are functions on 0 .. len-1, as in C.  One step is one          *)
(* iteration of a loop.                                                    *)
(***************************************************************************)
EXTENDS Integers

CONSTANTS
  Byte,      \* the values of uint8_t
  XorByte(_, _), \* the ^ operator on them
  Unset,     \* what an allocated buffer holds
  Inputs     \* the payloads: records [mask, key, len, src]

ASSUME XorAssumption ==
  \A a \in Byte, k \in Byte : XorByte(a, k) \in Byte /\ XorByte(XorByte(a, k), k) = a

ASSUME InputsAssumption ==
  \A x \in Inputs : /\ x.mask \in {0, 1}
                    /\ x.key \in [0..3 -> Byte]
                    /\ x.len \in Nat
                    /\ x.src \in [0..(x.len - 1) -> Byte]

VARIABLES
  pc,      \* "start", "vector", "serial", "copy" or "done"
  pass,    \* 1 for the sender's call, 2 for the receiver's
  input,   \* the payload and its key
  src,     \* the bytes the call reads
  dest,    \* the bytes the call writes
  offset,  \* the loop variable
  high     \* one more than the last index read or written

vars == <<pc, pass, input, src, dest, offset, high>>

----------------------------------------------------------------------------
(* v16u8, the vector of 16 bytes, and mask_simd, the key repeated 4 times. *)
Lanes == 16
LaneKeyReversed(key, j) == key[3 - (j % 4)]
LaneKey(key, j) == key[j % 4]

Empty(n) == [i \in 0..(n - 1) |-> Unset]

Init ==
  /\ pc = "start"
  /\ pass = 1
  /\ input \in Inputs
  /\ src = input.src
  /\ dest = Empty(input.len)
  /\ offset = 0
  /\ high = 0

MaskSerial == pc' = "serial" /\ offset' = 0

(* The vector loop's offset is the last index of its block. *)
MaskSimd ==
  IF input.len > Lanes - 1 THEN pc' = "vector" /\ offset' = Lanes - 1 ELSE MaskSerial

(* apply_mask_to_buffer *)
MaskWith(simd) == IF simd THEN MaskSimd ELSE MaskSerial

(* ws_frame_handle_payload: nothing to do, a plain copy, or the mask. *)
HandlePayload(simd) ==
  /\ pc = "start"
  /\ \/ input.len = 0 /\ pc' = "done" /\ UNCHANGED offset
     \/ input.len > 0 /\ input.mask = 0 /\ pc' = "copy" /\ offset' = 0
     \/ input.len > 0 /\ input.mask = 1 /\ MaskWith(simd)
  /\ UNCHANGED <<pass, input, src, dest, high>>

(* One byte, stored if the buffer reaches that far. *)
Store(i, b) ==
  /\ dest' = [dest EXCEPT ![i] = b]
  /\ high' = i + 1

CopyByte ==
  /\ pc = "copy"
  /\ IF offset < input.len
     THEN Store(offset, src[offset]) /\ offset' = offset + 1 /\ UNCHANGED pc
     ELSE pc' = "done" /\ UNCHANGED <<dest, high, offset>>
  /\ UNCHANGED <<pass, input, src>>

MaskByte ==
  /\ pc = "serial"
  /\ IF offset < input.len
     THEN /\ Store(offset, XorByte(src[offset], input.key[offset % 4]))
          /\ offset' = offset + 1
          /\ UNCHANGED pc
     ELSE pc' = "done" /\ UNCHANGED <<dest, high, offset>>
  /\ UNCHANGED <<pass, input, src>>

(* The vector loop: its cutoff, the next block, and where the tail starts. *)
CutoffOneTooFar == input.len + 1
Cutoff == input.len

NextBlock(off) == off + Lanes

TailStart(off) == off - (Lanes - 1)

(* A block of 16 bytes is loaded, masked lane by lane and stored; when no    *)
(* whole block is left the remaining bytes go to the serial loop.            *)
MaskBlock ==
  LET first == offset - (Lanes - 1)
  IN /\ pc = "vector"
     /\ IF offset < Cutoff
        THEN /\ dest' = [i \in DOMAIN dest |->
                           IF i \in first..offset
                           THEN XorByte(src[i], LaneKey(input.key, i - first))
                           ELSE dest[i]]
             /\ high' = offset + 1
             /\ offset' = NextBlock(offset)
             /\ UNCHANGED pc
        ELSE pc' = "serial" /\ offset' = TailStart(offset) /\ UNCHANGED <<dest, high>>
     /\ UNCHANGED <<pass, input, src>>

(* The masked payload reaches the other end, which allocates its own buffer. *)
Receive ==
  /\ pc = "done"
  /\ pass = 1
  /\ pass' = 2
  /\ pc' = "start"
  /\ src' = dest
  /\ dest' = Empty(input.len)
  /\ offset' = 0
  /\ high' = 0
  /\ UNCHANGED input

Next ==
  \/ \E simd \in BOOLEAN : HandlePayload(simd)
  \/ CopyByte
  \/ MaskByte
  \/ MaskBlock
  \/ Receive

Spec == Init /\ [][Next]_vars

----------------------------------------------------------------------------
(* The mask as the protocol defines it (RFC 6455, 5.3): octet i of the       *)
(* payload is combined with octet i modulo 4 of the key.                     *)
Masked(x, s) ==
  [i \in 0..(x.len - 1) |->
     IF x.mask = 1 THEN XorByte(s[i], x.key[i % 4]) ELSE s[i]]

TypeOK ==
  /\ pc \in {"start", "vector", "serial", "copy", "done"}
  /\ pass \in 1..2
  /\ input \in Inputs
  /\ src \in [0..(input.len - 1) -> Byte]
  /\ dest \in [0..(input.len - 1) -> Byte \cup {Unset}]
  /\ offset \in Nat
  /\ high \in Nat

(* What a pass returns is the mask of what it read, whichever loops ran: no  *)
(* byte is skipped or masked twice where the vector loop hands over to the   *)
(* serial one, and every lane meets its own octet of the key.                *)
MaskCorrect == pc = "done" => dest = Masked(input, src)

(* The payload survives masking by one build and unmasking by another. *)
PayloadSurvives == pc = "done" /\ pass = 2 => dest = input.src

(* No loop reads or writes behind the payload, the vector loop's whole       *)
(* blocks included.                                                          *)
InBounds == high <= input.len
============================================================================
