--------------------------- MODULE MaskingProofs ---------------------------
(***************************************************************************)
(* The masking loops are correct for every payload, key and length.        *)
(***************************************************************************)
EXTENDS Masking, TLAPS

(* The byte a pass must store at index i. *)
Want(i) == IF input.mask = 1 THEN XorByte(src[i], input.key[i % 4]) ELSE src[i]

(* Everything below index n has been stored, nothing behind the buffer. *)
DoneBelow(n) ==
  /\ n \in 0..input.len
  /\ \A i \in 0..(n - 1) : dest[i] = Want(i)
  /\ high <= input.len

(* The loop invariant: the vector loop has finished whole blocks, so that a  *)
(* lane's position in its block and its index agree modulo 4.                *)
IInv ==
  /\ TypeOK
  /\ pass = 1 => src = input.src
  /\ pass = 2 => src = Masked(input, input.src)
  /\ pc = "start"  => high = 0
  /\ pc = "copy"   => input.mask = 0 /\ DoneBelow(offset)
  /\ pc = "serial" => input.mask = 1 /\ DoneBelow(offset)
  /\ pc = "vector" => /\ input.mask = 1
                      /\ offset >= 15
                      /\ (offset - 15) % 16 = 0
                      /\ DoneBelow(offset - 15)
  /\ pc = "done"   => dest = Masked(input, src) /\ high <= input.len

(* What the assumptions say of the payload at hand. *)
LEMMA InputFacts ==
  ASSUME TypeOK
  PROVE  /\ input.mask \in {0, 1}
         /\ input.key \in [0..3 -> Byte]
         /\ input.len \in Nat
         /\ input.src \in [0..(input.len - 1) -> Byte]
BY InputsAssumption DEF TypeOK

(* Index arithmetic of the key. *)
LEMMA KeyIndex ==
  ASSUME NEW i \in Nat
  PROVE  i % 4 \in 0..3
OBVIOUS

LEMMA LaneIndex ==
  ASSUME NEW a \in Nat, NEW i \in Nat, a % 16 = 0, a <= i
  PROVE  (i - a) % 4 = i % 4
<1>1. PICK q \in Nat : a = 16 * q
  BY a = 16 * (a \div 16), a \div 16 \in Nat
<1> QED BY <1>1

(* The wanted byte is a byte. *)
LEMMA WantByte ==
  ASSUME TypeOK, NEW i \in 0..(input.len - 1)
  PROVE  Want(i) \in Byte
<1>1. i % 4 \in 0..3 /\ src[i] \in Byte
  BY InputFacts, KeyIndex DEF TypeOK
<1>2. input.key[i % 4] \in Byte
  BY <1>1, InputFacts
<1> QED BY <1>1, <1>2, XorAssumption DEF Want

(* A buffer that is done up to its end holds the mask of the source. *)
LEMMA AllDone ==
  ASSUME TypeOK, DoneBelow(input.len)
  PROVE  dest = Masked(input, src) /\ high <= input.len
<1>1. input.len \in Nat /\ dest \in [0..(input.len - 1) -> Byte \cup {Unset}]
  BY InputFacts DEF TypeOK
<1>2. \A i \in 0..(input.len - 1) :
        dest[i] = IF input.mask = 1 THEN XorByte(src[i], input.key[i % 4]) ELSE src[i]
  BY DEF DoneBelow, Want
<1> QED BY <1>1, <1>2 DEF Masked, DoneBelow

(* Masking what was masked gives the source back. *)
LEMMA MaskTwice ==
  ASSUME NEW x \in Inputs
  PROVE  /\ Masked(x, x.src) \in [0..(x.len - 1) -> Byte]
         /\ Masked(x, Masked(x, x.src)) = x.src
<1>1. /\ x.key \in [0..3 -> Byte] /\ x.len \in Nat
      /\ x.src \in [0..(x.len - 1) -> Byte]
  BY InputsAssumption
<1>2. ASSUME NEW i \in 0..(x.len - 1)
      PROVE  /\ Masked(x, x.src)[i] \in Byte
             /\ Masked(x, Masked(x, x.src))[i] = x.src[i]
  <2>1. x.src[i] \in Byte /\ i % 4 \in 0..3
    BY <1>1, <1>2
  <2>2. x.key[i % 4] \in Byte
    BY <1>1, <2>1
  <2>3. /\ XorByte(x.src[i], x.key[i % 4]) \in Byte
        /\ XorByte(XorByte(x.src[i], x.key[i % 4]), x.key[i % 4]) = x.src[i]
    BY <2>1, <2>2, XorAssumption
  <2> QED BY <1>2, <2>1, <2>3 DEF Masked
<1> QED BY <1>1, <1>2 DEF Masked

LEMMA Invariance == Spec => []IInv
<1>1. Init => IInv
  BY InputsAssumption DEF Init, IInv, TypeOK, Empty
<1>2. IInv /\ [Next]_vars => IInv'
  <2> SUFFICES ASSUME IInv, [Next]_vars PROVE IInv'
    OBVIOUS
  <2>0. /\ input.mask \in {0, 1} /\ input.len \in Nat
        /\ input.key \in [0..3 -> Byte]
        /\ input.src \in [0..(input.len - 1) -> Byte]
    BY InputFacts DEF IInv
  <2>1. ASSUME NEW simd \in BOOLEAN, HandlePayload(simd) PROVE IInv'
    <3>1. CASE input.len = 0 /\ pc' = "done"
      <4>1. dest = Masked(input, src)
        BY <2>0, <3>1 DEF IInv, TypeOK, Masked
      <4> QED BY <2>0, <2>1, <3>1, <4>1 DEF HandlePayload, IInv, TypeOK, Masked
    <3>2. CASE input.len > 0 /\ input.mask = 0 /\ pc' = "copy" /\ offset' = 0
      BY <2>0, <2>1, <3>2
      DEF HandlePayload, IInv, TypeOK, DoneBelow, Masked
    <3>3. CASE input.len > 0 /\ input.mask = 1 /\ MaskWith(simd)
      BY <2>0, <2>1, <3>3
      DEF HandlePayload, MaskWith, MaskSimd, MaskSerial, Lanes, IInv, TypeOK, DoneBelow, Masked
    <3> QED BY <2>1, <3>1, <3>2, <3>3 DEF HandlePayload
  <2>2. CASE CopyByte
    <3>1. pc = "copy" /\ input.mask = 0 /\ DoneBelow(offset)
      BY <2>2 DEF CopyByte, IInv
    <3>2. CASE offset < input.len
      <4>1. offset \in 0..(input.len - 1)
        BY <2>0, <3>2 DEF IInv, TypeOK
      <4>2. Want(offset) \in Byte
        BY <4>1, WantByte DEF IInv
      <4>3. /\ dest' = [dest EXCEPT ![offset] = Want(offset)]
            /\ high' = offset + 1 /\ offset' = offset + 1
            /\ UNCHANGED <<pc, pass, input, src>>
        BY <2>2, <3>1, <3>2 DEF CopyByte, Store, Want
      <4>4. \A i \in 0..(input.len - 1) : Want(i)' = Want(i)
        BY <4>3 DEF Want
      <4>5. DoneBelow(offset)'
        BY <2>0, <3>1, <4>1, <4>2, <4>3, <4>4 DEF DoneBelow, IInv, TypeOK
      <4> QED BY <2>0, <3>1, <4>1, <4>2, <4>3, <4>5 DEF IInv, TypeOK
    <3>3. CASE ~(offset < input.len)
      <4>1. DoneBelow(input.len)
        BY <2>0, <3>1, <3>3 DEF DoneBelow
      <4>2. dest = Masked(input, src) /\ high <= input.len
        BY <4>1, AllDone DEF IInv
      <4> QED BY <2>2, <3>1, <3>3, <4>2 DEF CopyByte, IInv, TypeOK
    <3> QED BY <3>2, <3>3
  <2>3. CASE MaskByte
    <3>1. pc = "serial" /\ input.mask = 1 /\ DoneBelow(offset)
      BY <2>3 DEF MaskByte, IInv
    <3>2. CASE offset < input.len
      <4>1. offset \in 0..(input.len - 1)
        BY <2>0, <3>2 DEF IInv, TypeOK
      <4>2. Want(offset) \in Byte
        BY <4>1, WantByte DEF IInv
      <4>3. /\ dest' = [dest EXCEPT ![offset] = Want(offset)]
            /\ high' = offset + 1 /\ offset' = offset + 1
            /\ UNCHANGED <<pc, pass, input, src>>
        BY <2>3, <3>1, <3>2 DEF MaskByte, Store, Want
      <4>4. \A i \in 0..(input.len - 1) : Want(i)' = Want(i)
        BY <4>3 DEF Want
      <4>5. DoneBelow(offset)'
        BY <2>0, <3>1, <4>1, <4>2, <4>3, <4>4 DEF DoneBelow, IInv, TypeOK
      <4> QED BY <2>0, <3>1, <4>1, <4>2, <4>3, <4>5 DEF IInv, TypeOK
    <3>3. CASE ~(offset < input.len)
      <4>1. DoneBelow(input.len)
        BY <2>0, <3>1, <3>3 DEF DoneBelow
      <4>2. dest = Masked(input, src) /\ high <= input.len
        BY <4>1, AllDone DEF IInv
      <4> QED BY <2>3, <3>1, <3>3, <4>2 DEF MaskByte, IInv, TypeOK
    <3> QED BY <3>2, <3>3
  <2>4. CASE MaskBlock
    <3> DEFINE first == offset - 15
    <3>1. /\ pc = "vector" /\ input.mask = 1 /\ DoneBelow(first)
          /\ first % 16 = 0 /\ first \in Nat /\ offset \in Nat
      BY <2>4 DEF MaskBlock, IInv, TypeOK
    <3>2. CASE offset < input.len
      <4>1. /\ dest' = [i \in DOMAIN dest |->
                          IF i \in first..offset
                          THEN XorByte(src[i], input.key[(i - first) % 4])
                          ELSE dest[i]]
            /\ high' = offset + 1 /\ offset' = offset + 16
            /\ UNCHANGED <<pc, pass, input, src>>
        BY <2>4, <3>2 DEF MaskBlock, Cutoff, NextBlock, Lanes, LaneKey
      <4>2. \A i \in first..offset : XorByte(src[i], input.key[(i - first) % 4]) = Want(i)
        BY <3>1, LaneIndex DEF Want
      <4>3. DOMAIN dest = 0..(input.len - 1)
        BY DEF IInv, TypeOK
      <4>4. dest' = [i \in 0..(input.len - 1) |->
                       IF i \in first..offset THEN Want(i) ELSE dest[i]]
        BY <4>1, <4>2, <4>3
      <4>5. \A i \in 0..(input.len - 1) : Want(i)' = Want(i)
        BY <4>1 DEF Want
      <4>6. \A i \in 0..(input.len - 1) : Want(i) \in Byte
        BY WantByte DEF IInv
      <4>7. dest' \in [0..(input.len - 1) -> Byte \cup {Unset}]
        BY <4>4, <4>6 DEF IInv, TypeOK
      <4>8. \A i \in 0..offset : dest'[i] = Want(i)'
        <5>1. \A i \in 0..offset : dest'[i] = Want(i)
          BY <2>0, <3>1, <3>2, <4>4 DEF DoneBelow
        <5> QED BY <2>0, <3>1, <3>2, <4>5, <5>1
      <4>9. DoneBelow(offset - 15)'
        BY <2>0, <3>1, <3>2, <4>1, <4>8 DEF DoneBelow
      <4> QED
        BY <2>0, <3>1, <4>1, <4>7, <4>9 DEF IInv, TypeOK
    <3>3. CASE ~(offset < input.len)
      <4>1. /\ pc' = "serial" /\ offset' = first
            /\ UNCHANGED <<dest, high, pass, input, src>>
        BY <2>4, <3>3 DEF MaskBlock, Cutoff, TailStart, Lanes
      <4>2. DoneBelow(offset)'
        BY <3>1, <4>1 DEF DoneBelow, Want
      <4> QED BY <3>1, <4>1, <4>2 DEF IInv, TypeOK
    <3> QED BY <3>2, <3>3
  <2>5. CASE Receive
    <3>1. src' = Masked(input, input.src) /\ input' = input /\ input \in Inputs
      BY <2>5 DEF Receive, IInv, TypeOK
    <3>2. src' \in [0..(input.len - 1) -> Byte]
      BY <3>1, MaskTwice
    <3> QED BY <2>0, <2>5, <3>1, <3>2 DEF Receive, IInv, TypeOK, Empty
  <2>6. CASE UNCHANGED vars
    BY <2>6 DEF vars, IInv, TypeOK, DoneBelow, Want, Masked
  <2> QED BY <2>1, <2>2, <2>3, <2>4, <2>5, <2>6 DEF Next
<1> QED BY <1>1, <1>2, PTL DEF Spec

(* Both passes stay within the types: every byte that is stored is a byte or *)
(* still unset, and the loop variable never falls below 0 where the vector   *)
(* loop hands over.                                                          *)
THEOREM TypeCorrect == Spec => []TypeOK
<1>1. IInv => TypeOK
  BY DEF IInv
<1> QED BY <1>1, Invariance, PTL

(* Whatever the length and the build, a pass masks every byte exactly once   *)
(* with its own octet of the key.                                            *)
THEOREM MaskingCorrect == Spec => []MaskCorrect
<1>1. IInv => MaskCorrect
  BY DEF IInv, MaskCorrect
<1> QED BY <1>1, Invariance, PTL

(* Masking by one build and unmasking by another gives the payload back. *)
THEOREM SurvivalCorrect == Spec => []PayloadSurvives
<1>1. IInv => PayloadSurvives
  <2> SUFFICES ASSUME IInv, pc = "done", pass = 2 PROVE dest = input.src
    BY DEF PayloadSurvives
  <2>1. dest = Masked(input, Masked(input, input.src)) /\ input \in Inputs
    BY DEF IInv, TypeOK
  <2> QED BY <2>1, MaskTwice
<1> QED BY <1>1, Invariance, PTL

(* No access lies behind the payload. *)
THEOREM AccessCorrect == Spec => []InBounds
<1>1. IInv => InBounds
  BY InputFacts DEF IInv, InBounds, TypeOK, DoneBelow
<1> QED BY <1>1, Invariance, PTL
============================================================================
