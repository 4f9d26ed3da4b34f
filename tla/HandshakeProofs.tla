-------------------------- MODULE HandshakeProofs --------------------------
(***************************************************************************)
(* Proofs about the module Handshake, for any URLs, answers and headers    *)
(* whose parts hold none of the separators they are put between            *)
(* (UrlsAssumption, AnswersAssumption, AppAssumption), any number of       *)
(* header lines in any order, any cut of the text, both builds and any     *)
(* failure of an allocation.                                               *)
(*                                                                         *)
(* A text is laid out line by line (MessageLayout); a span that strcspn    *)
(* finds in what arrived of it ends where it ends in the whole text, or    *)
(* with what arrived (SpanCut).  So the parser is always at the end of a   *)
(* line of the message that was sent, or at the end of what arrived        *)
(* (Progress), and what it has read is what the lines say.                 *)
(***************************************************************************)
EXTENDS Handshake, SequenceTheorems, FiniteSetTheorems, WellFoundedInduction, TLAPS

----------------------------------------------------------------------------
(* Spans of strcspn and flattened sequences *)

(* A set of numbers has a smallest. *)
LEMMA Smallest ==
  ASSUME NEW S, S \subseteq Nat, S # {}
  PROVE  \E n \in S : \A m \in S : n <= m
<1>1. PICK n \in S : \A m \in S : ~ (<<m, n>> \in OpToRel(<, Nat))
  BY Zenon, NatLessThanWellFounded, WFMin
<1>2. ASSUME NEW m \in S PROVE n <= m
  <2>1. m < n => <<m, n>> \in OpToRel(<, Nat)
    BY DEF OpToRel
  <2>2. ~(m < n) /\ m \in Nat /\ n \in Nat
    BY <1>1, <2>1
  <2> QED
    BY <2>2
<1> QED
  BY <1>2

(* Induction on the naturals, for a property given as a set. *)
LEMMA NatSetInduction ==
  ASSUME NEW S, 0 \in S, \A n \in Nat : n \in S => n + 1 \in S
  PROVE  Nat \subseteq S
<1> SUFFICES ASSUME Nat \ S # {} PROVE FALSE
  OBVIOUS
<1>1. PICK n \in Nat \ S : \A m \in Nat \ S : n <= m
  <2>1. Nat \ S \subseteq Nat
    OBVIOUS
  <2> QED
    BY ONLY <2>1, Nat \ S # {}, Smallest
<1>2. n # 0 /\ n - 1 \in Nat /\ n - 1 < n /\ (n - 1) + 1 = n
  BY <1>1
<1>3. n - 1 \in S
  BY <1>1, <1>2
<1> QED
  BY <1>1, <1>2, <1>3

----------------------------------------------------------------------------
(* strcspn *)

(* n characters of s from offset i on are not in C, and the next one is. *)
Spans(s, i, C, n) ==
  /\ n \in 0..(Len(s) - i)
  /\ \A j \in (i + 1)..(i + n) : s[j] \notin C
  /\ i + n < Len(s) => s[i + n + 1] \in C

(* A text has one span of characters that are not in C. *)
LEMMA SpanUnique ==
  ASSUME NEW s, NEW i \in Nat, NEW C, NEW n, NEW m, Len(s) \in Nat,
         Spans(s, i, C, n), Spans(s, i, C, m)
  PROVE  n = m
<1>1. ASSUME NEW a, NEW b, Spans(s, i, C, a), Spans(s, i, C, b), a < b PROVE FALSE
  <2>1. a \in Nat /\ b \in Nat /\ i + b <= Len(s)
    BY <1>1 DEF Spans
  <2>2. i + a < Len(s) /\ i + a + 1 \in (i + 1)..(i + b)
    BY <1>1, <2>1
  <2> QED
    BY <1>1, <2>2 DEF Spans
<1>2. n \in Nat /\ m \in Nat
  BY DEF Spans
<1>3. ~(n < m) /\ ~(m < n)
  BY <1>1
<1> QED
  BY <1>2, <1>3

(* strcspn finds a span. *)
LEMMA SpanExists ==
  ASSUME NEW s, NEW i \in Nat, NEW C, Len(s) \in Nat, i <= Len(s)
  PROVE  Spans(s, i, C, strcspn(s, i, C))
<1> DEFINE S == {n \in 0..(Len(s) - i) : i + n < Len(s) => s[i + n + 1] \in C}
<1>1. Len(s) - i \in S
  OBVIOUS
<1>2. S \subseteq Nat /\ S # {}
  BY <1>1
<1>3. PICK n \in S : \A m \in S : n <= m
  BY ONLY <1>2, Smallest
<1>4. Spans(s, i, C, n)
  <2>1. n \in 0..(Len(s) - i) /\ (i + n < Len(s) => s[i + n + 1] \in C)
    BY <1>3
  <2>2. ASSUME NEW j \in (i + 1)..(i + n) PROVE s[j] \notin C
    <3>1. j - i - 1 \in 0..(Len(s) - i) /\ j - i - 1 < n /\ i + (j - i - 1) + 1 = j
      BY <2>1
    <3> HIDE DEF S
    <3>2. j - i - 1 \notin S
      BY <1>2, <1>3, <3>1
    <3> USE DEF S
    <3> QED
      BY <3>1, <3>2
  <2> QED
    BY <2>1, <2>2 DEF Spans
<1>5. \E m \in 0..(Len(s) - i) : /\ \A j \in (i + 1)..(i + m) : s[j] \notin C
                                 /\ i + m < Len(s) => s[i + m + 1] \in C
  BY <1>4 DEF Spans
<1> QED
  BY <1>5 DEF strcspn, Spans

(* A span is what strcspn returns. *)
LEMMA SpanIs ==
  ASSUME NEW s, NEW i \in Nat, NEW C, NEW n, Len(s) \in Nat, i <= Len(s), Spans(s, i, C, n)
  PROVE  strcspn(s, i, C) = n
BY SpanExists, SpanUnique

(* t is the beginning of s. *)
Begins(t, s) ==
  /\ Len(t) \in Nat /\ Len(s) \in Nat /\ Len(t) <= Len(s)
  /\ \A j \in 1..Len(t) : t[j] = s[j]

(* The span in a text that was cut off is the whole text's, or it ends where *)
(* the text does.                                                            *)
LEMMA SpanCut ==
  ASSUME NEW s, NEW t, Begins(t, s), NEW i \in Nat, i <= Len(t), NEW C, NEW n, Spans(s, i, C, n)
  PROVE  /\ i + n <= Len(t) => strcspn(t, i, C) = n
         /\ i + n > Len(t) => strcspn(t, i, C) = Len(t) - i
<1>1. Len(t) \in Nat /\ Len(s) \in Nat /\ Len(t) <= Len(s) /\ \A j \in 1..Len(t) : t[j] = s[j]
  BY DEF Begins
<1>2. n \in Nat /\ \A j \in (i + 1)..(i + n) : s[j] \notin C
  BY DEF Spans
<1>3. CASE i + n <= Len(t)
  <2>1. Spans(t, i, C, n)
    <3>1. i + n < Len(t) => i + n + 1 \in 1..Len(t) /\ i + n < Len(s)
      BY <1>1, <1>2
    <3>2. \A j \in (i + 1)..(i + n) : j \in 1..Len(t)
      BY <1>2, <1>3
    <3> QED
      BY <1>1, <1>2, <1>3, <3>1, <3>2 DEF Spans
  <2> QED
    BY <1>1, <1>2, <1>3, <2>1, SpanIs
<1>4. CASE i + n > Len(t)
  <2>1. Spans(t, i, C, Len(t) - i)
    <3>1. Len(t) - i \in Nat /\ i + (Len(t) - i) = Len(t)
      BY <1>1
    <3>2. \A j \in (i + 1)..Len(t) : j \in 1..Len(t) /\ j \in (i + 1)..(i + n)
      BY <1>1, <1>2, <1>4
    <3> QED
      BY <1>1, <1>2, <3>1, <3>2 DEF Spans
  <2> QED
    BY <1>1, <1>2, <1>4, <2>1, SpanIs
<1> QED
  BY <1>1, <1>2, <1>3, <1>4

----------------------------------------------------------------------------
(* FlattenSeq *)

FlattenStep(ss, g, i) == IF i = 1 THEN ss[i] ELSE g[i - 1] \o ss[i]

IsFlatten(ss, n, g) == g = [i \in 1..n |-> FlattenStep(ss, g, i)]

(* The function FlattenSeq is made of exists for every length. *)
LEMMA FlattenExists ==
  ASSUME NEW ss, NEW n \in Nat
  PROVE  \E g : IsFlatten(ss, n, g)
<1> DEFINE S == {k \in Nat : \E g : IsFlatten(ss, k, g)}
<1>1. 0 \in S
  <2>1. IsFlatten(ss, 0, [i \in 1..0 |-> ss])
    BY DEF IsFlatten
  <2> QED
    BY <2>1
<1>2. ASSUME NEW k \in Nat, k \in S PROVE k + 1 \in S
  <2>1. PICK g : IsFlatten(ss, k, g)
    BY <1>2
  <2> DEFINE h == [i \in 1..(k + 1) |-> IF i = k + 1 THEN FlattenStep(ss, g, i) ELSE g[i]]
  <2>2. \A i \in 1..k : g[i] = FlattenStep(ss, g, i)
    BY <2>1 DEF IsFlatten
  <2>3. ASSUME NEW i \in 1..(k + 1) PROVE h[i] = FlattenStep(ss, h, i)
    <3>1. i # 1 => i - 1 \in 1..k /\ i - 1 \in 1..(k + 1) /\ i - 1 # k + 1
      OBVIOUS
    <3>2. i # 1 => h[i - 1] = g[i - 1]
      BY <3>1
    <3>3. FlattenStep(ss, h, i) = FlattenStep(ss, g, i)
      BY <3>2 DEF FlattenStep
    <3>4. i # k + 1 => i \in 1..k
      OBVIOUS
    <3> QED
      BY <2>2, <3>3, <3>4
  <2>4. h = [i \in 1..(k + 1) |-> h[i]]
    OBVIOUS
  <2> HIDE DEF h
  <2>5. h = [i \in 1..(k + 1) |-> FlattenStep(ss, h, i)]
    BY <2>3, <2>4
  <2> QED
    BY <2>5 DEF IsFlatten
<1> HIDE DEF S
<1>3. Nat \subseteq S
  BY <1>1, <1>2, NatSetInduction
<1> QED
  BY <1>3 DEF S

(* FlattenSeq is the last value of that function. *)
LEMMA FlattenIs ==
  ASSUME NEW ss, Len(ss) \in Nat, Len(ss) # 0
  PROVE  \E g : IsFlatten(ss, Len(ss), g) /\ FlattenSeq(ss) = g[Len(ss)]
<1>1. FlattenSeq(ss) = (CHOOSE g : IsFlatten(ss, Len(ss), g))[Len(ss)]
  BY DEF FlattenSeq, IsFlatten, FlattenStep
<1>2. IsFlatten(ss, Len(ss), CHOOSE g : IsFlatten(ss, Len(ss), g))
  BY Zenon, FlattenExists
<1> QED
  BY Zenon, <1>1, <1>2

(* Two sequences have their first n entries in common. *)
AgreeTo(s, t, n) == \A i \in 1..n : s[i] = t[i]

(* Sequences that begin alike flatten alike. *)
LEMMA FlattenAgree ==
  ASSUME NEW ss, NEW tt, NEW n \in Nat, NEW m \in Nat, n <= m, NEW g, NEW h,
         IsFlatten(ss, n, g), IsFlatten(tt, m, h), AgreeTo(ss, tt, n)
  PROVE  AgreeTo(g, h, n)
<1> DEFINE S == {k \in Nat : k + 1 <= n => g[k + 1] = h[k + 1]}
<1>0. \A i \in 1..n : ss[i] = tt[i]
  BY ONLY AgreeTo(ss, tt, n) DEF AgreeTo
<1>1. /\ \A i \in 1..n : g[i] = FlattenStep(ss, g, i)
      /\ \A i \in 1..m : h[i] = FlattenStep(tt, h, i)
  BY DEF IsFlatten
<1>2. 0 \in S
  BY <1>0, <1>1 DEF FlattenStep
<1>3. ASSUME NEW k \in Nat, k \in S PROVE k + 1 \in S
  <2> SUFFICES ASSUME (k + 1) + 1 <= n PROVE g[(k + 1) + 1] = h[(k + 1) + 1]
    OBVIOUS
  <2>1. /\ g[k + 1] = h[k + 1] /\ (k + 1) + 1 # 1 /\ ((k + 1) + 1) - 1 = k + 1
        /\ (k + 1) + 1 \in 1..n /\ (k + 1) + 1 \in 1..m
    BY <1>3
  <2>2. /\ g[(k + 1) + 1] = g[k + 1] \o ss[(k + 1) + 1]
        /\ h[(k + 1) + 1] = h[k + 1] \o tt[(k + 1) + 1]
    BY <1>1, <2>1 DEF FlattenStep
  <2> QED
    BY <1>0, <2>1, <2>2
<1>4. Nat \subseteq S
  <2> HIDE DEF S
  <2> QED
    BY <1>2, <1>3, NatSetInduction
<1>5. ASSUME NEW i \in 1..n PROVE g[i] = h[i]
  <2>1. i - 1 \in Nat /\ (i - 1) + 1 = i
    OBVIOUS
  <2>2. i - 1 \in S
    BY <1>4, <2>1
  <2> QED
    BY <2>1, <2>2
<1> QED
  BY ONLY <1>5 DEF AgreeTo

(* Nothing flattens to nothing. *)
LEMMA FlattenEmpty == FlattenSeq(<<>>) = <<>>
  BY DEF FlattenSeq

(* A text appended is a text behind the others. *)
LEMMA FlattenAppend ==
  ASSUME NEW S, NEW ss \in Seq(Seq(S)), NEW s \in Seq(S), FlattenSeq(ss) \in Seq(S)
  PROVE  FlattenSeq(Append(ss, s)) = FlattenSeq(ss) \o s
<1> DEFINE tt == Append(ss, s)
           n == Len(ss)
<1>1. /\ n \in Nat /\ Len(tt) = n + 1 /\ tt[n + 1] = s
      /\ \A i \in 1..n : ss[i] = tt[i]
  BY AppendProperties
<1> HIDE DEF tt, n
<1>2. PICK h : IsFlatten(tt, n + 1, h) /\ FlattenSeq(tt) = h[n + 1]
  BY <1>1, FlattenIs
<1>3. h[n + 1] = FlattenStep(tt, h, n + 1)
  <2>1. n + 1 \in 1..(n + 1)
    BY <1>1
  <2> QED
    BY <1>2, <2>1 DEF IsFlatten
<1>4. CASE n = 0
  <2>1. ss = <<>>
    BY <1>4, EmptySeq DEF n
  <2>2. FlattenSeq(ss) \o s = s
    BY <2>1, FlattenEmpty, ConcatEmptySeq
  <2> QED
    BY <1>1, <1>2, <1>3, <1>4, <2>2 DEF FlattenStep, tt
<1>5. CASE n # 0
  <2>1. PICK g : IsFlatten(ss, n, g) /\ FlattenSeq(ss) = g[n]
    BY <1>1, <1>5, FlattenIs DEF n
  <2>2. n + 1 \in Nat /\ n <= n + 1 /\ n \in 1..n
    BY <1>1, <1>5
  <2>3. \A i \in 1..n : g[i] = h[i]
    <3>1. n \in Nat /\ AgreeTo(ss, tt, n)
      BY ONLY <1>1 DEF AgreeTo
    <3>2. IsFlatten(ss, n, g) /\ IsFlatten(tt, n + 1, h)
      BY ONLY <1>2, <2>1
    <3>3. AgreeTo(g, h, n)
      BY ONLY <3>1, <3>2, <2>2, FlattenAgree
    <3> QED
      BY ONLY <3>3 DEF AgreeTo
  <2>4. h[n + 1] = h[n] \o s
    BY <1>1, <1>3, <1>5 DEF FlattenStep
  <2> QED
    BY <1>2, <2>1, <2>2, <2>3, <2>4 DEF tt
<1> QED
  BY <1>4, <1>5

----------------------------------------------------------------------------
(* Sequences of texts, characters, header lines *)

(* The first n of ss, and what they flatten to. *)
FirstOf(ss, n) == [i \in 1..n |-> ss[i]]
Flat(ss, n) == FlattenSeq(FirstOf(ss, n))

(* The first n members of a sequence are a sequence. *)
LEMMA FrontSeq ==
  ASSUME NEW S, NEW ss \in Seq(S)
  PROVE  /\ FirstOf(ss, 0) = <<>> /\ FirstOf(ss, Len(ss)) = ss
         /\ \A n \in 0..Len(ss) : FirstOf(ss, n) \in Seq(S) /\ Len(FirstOf(ss, n)) = n
         /\ \A n \in 1..Len(ss) : FirstOf(ss, n) = Append(FirstOf(ss, n - 1), ss[n])
<1>1. Len(ss) \in Nat /\ \A i \in 1..Len(ss) : ss[i] \in S
  BY ElementOfSeq
<1>2. ASSUME NEW n \in 0..Len(ss) PROVE FirstOf(ss, n) \in Seq(S) /\ Len(FirstOf(ss, n)) = n
  BY <1>1 DEF FirstOf
<1>3. FirstOf(ss, 0) = <<>>
  BY DEF FirstOf
<1>4. FirstOf(ss, Len(ss)) = ss
  <2>1. FirstOf(ss, Len(ss)) \in Seq(S) /\ Len(FirstOf(ss, Len(ss))) = Len(ss)
    BY <1>1, <1>2
  <2>2. \A i \in 1..Len(ss) : FirstOf(ss, Len(ss))[i] = ss[i]
    BY DEF FirstOf
  <2> QED
    BY <2>1, <2>2, SeqEqual
<1>5. ASSUME NEW n \in 1..Len(ss) PROVE FirstOf(ss, n) = Append(FirstOf(ss, n - 1), ss[n])
  <2>1. n - 1 \in 0..Len(ss) /\ (n - 1) + 1 = n /\ n \in 0..Len(ss)
    OBVIOUS
  <2>2. /\ FirstOf(ss, n) \in Seq(S) /\ Len(FirstOf(ss, n)) = n
        /\ FirstOf(ss, n - 1) \in Seq(S) /\ Len(FirstOf(ss, n - 1)) = n - 1 /\ ss[n] \in S
    BY <1>1, <1>2, <2>1
  <2> DEFINE t == Append(FirstOf(ss, n - 1), ss[n])
  <2>3. /\ t \in Seq(S) /\ Len(t) = n
        /\ \A i \in 1..(n - 1) : t[i] = FirstOf(ss, n - 1)[i]
        /\ t[n] = ss[n]
    BY <2>1, <2>2, AppendProperties
  <2> HIDE DEF t
  <2>4. \A i \in 1..n : FirstOf(ss, n)[i] = t[i]
    <3>1. \A i \in 1..n : FirstOf(ss, n)[i] = ss[i]
      BY DEF FirstOf
    <3>2. \A i \in 1..(n - 1) : FirstOf(ss, n - 1)[i] = ss[i]
      BY DEF FirstOf
    <3>3. \A i \in 1..n : i = n \/ i \in 1..(n - 1)
      OBVIOUS
    <3> QED
      BY <2>3, <3>1, <3>2, <3>3
  <2>5. FirstOf(ss, n) = t
    BY <2>2, <2>3, <2>4, SeqEqual
  <2> QED
    BY <2>5 DEF t
<1> QED
  BY <1>2, <1>3, <1>4, <1>5

(* Flattening goes text by text. *)
LEMMA FlatSteps ==
  ASSUME NEW S, NEW ss \in Seq(Seq(S))
  PROVE  /\ Flat(ss, 0) = <<>> /\ Flat(ss, Len(ss)) = FlattenSeq(ss)
         /\ \A n \in 0..Len(ss) : Flat(ss, n) \in Seq(S)
         /\ \A n \in 1..Len(ss) : Flat(ss, n) = Flat(ss, n - 1) \o ss[n]
<1>1. Flat(ss, 0) = <<>> /\ Flat(ss, Len(ss)) = FlattenSeq(ss)
  BY FrontSeq, FlattenEmpty DEF Flat
<1>2. ASSUME NEW n \in 1..Len(ss), Flat(ss, n - 1) \in Seq(S)
      PROVE  Flat(ss, n) = Flat(ss, n - 1) \o ss[n] /\ Flat(ss, n) \in Seq(S)
  <2>1. n - 1 \in 0..Len(ss) /\ ss[n] \in Seq(S)
    BY ElementOfSeq
  <2>2. FirstOf(ss, n) = Append(FirstOf(ss, n - 1), ss[n]) /\ FirstOf(ss, n - 1) \in Seq(Seq(S))
    BY <2>1, FrontSeq
  <2>3. Flat(ss, n) = Flat(ss, n - 1) \o ss[n]
    BY <1>2, <2>1, <2>2, FlattenAppend DEF Flat
  <2> QED
    BY <1>2, <2>1, <2>3, ConcatProperties
<1> DEFINE T == {n \in Nat : n <= Len(ss) => Flat(ss, n) \in Seq(S)}
<1>3. 0 \in T
  BY <1>1, EmptySeq
<1>4. ASSUME NEW n \in Nat, n \in T PROVE n + 1 \in T
  <2> SUFFICES ASSUME n + 1 <= Len(ss) PROVE Flat(ss, n + 1) \in Seq(S)
    OBVIOUS
  <2>1. Len(ss) \in Nat /\ n + 1 \in 1..Len(ss) /\ (n + 1) - 1 = n
    OBVIOUS
  <2>2. Flat(ss, n) \in Seq(S)
    BY <1>4, <2>1
  <2> QED
    BY <1>2, <2>1, <2>2
<1>5. Nat \subseteq T
  <2> HIDE DEF T
  <2> QED
    BY <1>3, <1>4, NatSetInduction
<1>6. \A n \in 0..Len(ss) : Flat(ss, n) \in Seq(S)
  BY <1>5
<1>7. \A n \in 1..Len(ss) : Flat(ss, n) = Flat(ss, n - 1) \o ss[n]
  <2>1. \A n \in 1..Len(ss) : n - 1 \in 0..Len(ss)
    OBVIOUS
  <2> QED
    BY <1>2, <1>6, <2>1
<1> QED
  BY <1>1, <1>6, <1>7

(* Part n of ss lies in its first k parts where part n - 1 ends. *)
Placed(ss, n, k) ==
  /\ Len(Flat(ss, n)) = Len(Flat(ss, n - 1)) + Len(ss[n])
  /\ Len(Flat(ss, n - 1)) \in Nat /\ Len(Flat(ss, n)) <= Len(Flat(ss, k))
  /\ \A j \in 1..Len(ss[n]) : Flat(ss, k)[Len(Flat(ss, n - 1)) + j] = ss[n][j]

(* Text q lies behind the texts in front of it. *)
LEMMA FlatPlaces ==
  ASSUME NEW S, NEW ss \in Seq(Seq(S)), NEW m \in 0..Len(ss), NEW q \in 1..m
  PROVE  Placed(ss, q, m)
<1> DEFINE T == {k \in Nat : k <= Len(ss) => \A n \in 1..k : Placed(ss, n, k)}
<1>0. Len(ss) \in Nat
  OBVIOUS
<1>1. 0 \in T
  <2>1. \A n \in 1..0 : FALSE
    OBVIOUS
  <2> QED
    BY <2>1
<1>2. ASSUME NEW k \in Nat, k \in T PROVE k + 1 \in T
  <2> SUFFICES ASSUME k + 1 <= Len(ss), NEW n \in 1..(k + 1) PROVE Placed(ss, n, k + 1)
    OBVIOUS
  <2>1. k + 1 \in 1..Len(ss) /\ k \in 0..Len(ss) /\ (k + 1) - 1 = k /\ k <= Len(ss)
    BY <1>0
  <2>6. \A i \in 1..k : Placed(ss, i, k)
    BY <1>2, <2>1
  <2> HIDE DEF T
  <2>2. Flat(ss, k + 1) = Flat(ss, k) \o ss[k + 1] /\ Flat(ss, k) \in Seq(S) /\ ss[k + 1] \in Seq(S)
    <3>1. Flat(ss, k + 1) = Flat(ss, (k + 1) - 1) \o ss[k + 1]
      BY <2>1, FlatSteps
    <3> QED
      BY <2>1, <3>1, FlatSteps, ElementOfSeq
  <2> DEFINE f == Flat(ss, k)
             g == Flat(ss, k + 1)
             p == ss[k + 1]
  <2>3. /\ Len(g) = Len(f) + Len(p) /\ Len(f) \in Nat /\ Len(p) \in Nat
        /\ \A i \in 1..(Len(f) + Len(p)) : g[i] = IF i <= Len(f) THEN f[i] ELSE p[i - Len(f)]
    BY <2>2, ConcatProperties
  <2>4. CASE n = k + 1
    <3> HIDE DEF f, g, p
    <3>1. ASSUME NEW j \in 1..Len(p) PROVE g[Len(f) + j] = p[j]
      <4>1. /\ Len(f) + j \in 1..(Len(f) + Len(p)) /\ ~(Len(f) + j <= Len(f))
            /\ (Len(f) + j) - Len(f) = j
        BY <2>3
      <4> QED
        BY <2>3, <4>1
    <3>2. Len(g) = Len(f) + Len(p) /\ Len(f) \in Nat /\ Len(g) <= Len(g)
      BY <2>3
    <3> QED
      BY <2>1, <2>4, <3>1, <3>2 DEF Placed, f, g, p
  <2>5. CASE n \in 1..k
    <3> HIDE DEF f, g, p
    <3> DEFINE a == Len(Flat(ss, n - 1))
               b == Len(ss[n])
    <3>1. /\ Len(Flat(ss, n)) = a + b /\ a \in Nat /\ Len(Flat(ss, n)) <= Len(f)
          /\ \A j \in 1..b : f[a + j] = ss[n][j]
      BY <2>5, <2>6 DEF Placed, f
    <3>2. b \in Nat
      <4>1. n \in 1..Len(ss)
        BY <2>1, <2>5
      <4>2. ss[n] \in Seq(S)
        BY <4>1, ElementOfSeq
      <4> QED
        BY <4>2
    <3> HIDE DEF a, b
    <3>3. ASSUME NEW j \in 1..b PROVE g[a + j] = ss[n][j]
      <4>1. a + j <= Len(f) /\ a + j \in 1..(Len(f) + Len(p))
        BY <2>3, <3>1, <3>2
      <4> QED
        BY <2>3, <3>1, <4>1
    <3>4. a + b <= Len(g)
      BY <2>3, <3>1, <3>2
    <3> QED
      BY <3>1, <3>3, <3>4 DEF Placed, g, a, b
  <2> QED
    BY <2>4, <2>5
<1>3. Nat \subseteq T
  <2> HIDE DEF T
  <2> QED
    BY <1>1, <1>2, NatSetInduction
<1>4. m \in Nat /\ m <= Len(ss)
  BY <1>0
<1>5. \A n \in 1..m : Placed(ss, n, m)
  BY <1>3, <1>4
<1> QED
  BY <1>5

----------------------------------------------------------------------------
(* The characters: no prover knows that a string it sees is a member of STRING. *)
Literals ==
  {CR, LF, ":", " ", "/", "w", "s", "0", "1", "2", "3", "4", "5", "6", "7", "8", "9",
   "GET", "POST", "PUT", "DELETE", "OPTIONS", "HTTP/1.1", "reason", "h", "p",
   "Host", "host", "Upgrade", "upgrade", "Connection", "connection", "websocket",
   "Sec", "sec", "key", "nonce", "Version", "version", "Accept", "accept", "X", "x",
   "acc", "ept", "NULL"}
Char == STRING \cup Literals

(* A sequence of strings is a text. *)
LEMMA StringsAreTexts ==
  ASSUME NEW s \in Seq(STRING)
  PROVE  s \in Seq(Char)
<1>1. Len(s) \in Nat /\ s = [i \in 1..Len(s) |-> s[i]] /\ \A i \in 1..Len(s) : s[i] \in Char
  BY DEF Char
<1> QED
  BY <1>1

(* The texts of header lines and messages *)

LineText(h) == HeaderLine(h.key, h.value)
LineTexts(ls) == [i \in 1..Len(ls) |-> LineText(ls[i])]

(* A text with n characters in front of its header lines ends line k here. *)
EndsAt(n, ls, k) == n + 2 + Len(Flat(LineTexts(ls), k))

MessageText(start, ls, tail) == start \o CRLF \o FlattenSeq(LineTexts(ls)) \o CRLF \o tail

(* The separators of a header line are texts. *)
LEMMA SeqTypes ==
  /\ CRLF \in Seq(Char) /\ Len(CRLF) = 2 /\ CRLF[1] = CR /\ CRLF[2] = LF
  /\ <<":", " ">> \in Seq(Char) /\ Len(<<":", " ">>) = 2
  /\ <<":", " ">>[1] = ":" /\ <<":", " ">>[2] = " "
<1>1. CR \in Char /\ LF \in Char /\ ":" \in Char /\ " " \in Char
  BY DEF Char, Literals
<1>2. CRLF \in Seq(Char) /\ <<":", " ">> \in Seq(Char)
  <2>1. \A c, d \in Char : <<c, d>> \in Seq(Char)
    OBVIOUS
  <2> QED
    BY <1>1, <2>1 DEF CRLF
<1>3. Len(CRLF) = 2 /\ CRLF[1] = CR /\ CRLF[2] = LF
  BY DEF CRLF
<1>6. Len(<<":", " ">>) = 2 /\ <<":", " ">>[1] = ":" /\ <<":", " ">>[2] = " "
  OBVIOUS
<1> QED
  BY <1>2, <1>3, <1>6

(* Where the characters of two texts in a row are. *)
LEMMA Joins ==
  ASSUME NEW S, NEW s \in Seq(S), NEW t \in Seq(S)
  PROVE  /\ s \o t \in Seq(S) /\ Len(s) \in Nat /\ Len(t) \in Nat
         /\ Len(s \o t) = Len(s) + Len(t)
         /\ \A i \in 1..Len(s) : (s \o t)[i] = s[i]
         /\ \A i \in 1..Len(t) : (s \o t)[Len(s) + i] = t[i]
<1>1. Len(s) \in Nat /\ Len(t) \in Nat
  OBVIOUS
<1>2. s \o t \in Seq(S) /\ Len(s \o t) = Len(s) + Len(t)
  BY ConcatProperties
<1>3. \A i \in 1..Len(s) : i \in 1..(Len(s) + Len(t)) /\ i <= Len(s)
  BY <1>1
<1>4. \A i \in 1..Len(t) : /\ Len(s) + i \in 1..(Len(s) + Len(t)) /\ ~(Len(s) + i <= Len(s))
                           /\ (Len(s) + i) - Len(s) = i
  BY <1>1
<1>5. \A i \in 1..(Len(s) + Len(t)) : (s \o t)[i] = IF i <= Len(s) THEN s[i] ELSE t[i - Len(s)]
  BY ConcatProperties
<1> QED
  BY <1>1, <1>2, <1>3, <1>4, <1>5

(* The texts without the characters C, and header lines of such texts. *)
Plain(C) == {s \in Seq(Char) : \A i \in 1..Len(s) : s[i] \notin C}
HeaderLines == [key : Plain({":", LF}), value : Plain({CR})]

(* A plain text is a text without the characters C. *)
LEMMA PlainTexts ==
  ASSUME NEW C, NEW s \in Plain(C)
  PROVE  s \in Seq(Char) /\ Len(s) \in Nat /\ \A i \in 1..Len(s) : s[i] \notin C
  BY DEF Plain

(* What the constants are made of is plain. *)
LEMMA WordsArePlain ==
  ASSUME NEW C
  PROVE  Words(C) \subseteq Plain(C)
  BY StringsAreTexts DEF Words, Plain

(* The lines of an answer are header lines. *)
LEMMA LinesAreHeaderLines ==
  ASSUME NEW ls \in Seq(Lines)
  PROVE  ls \in Seq(HeaderLines)
<1>1. Lines \subseteq HeaderLines
  <2>1. Words({":", LF}) \subseteq Plain({":", LF}) /\ Words({CR}) \subseteq Plain({CR})
    BY WordsArePlain
  <2> QED
    BY <2>1 DEF Lines, HeaderLines
<1>2. Len(ls) \in Nat /\ ls = [i \in 1..Len(ls) |-> ls[i]] /\ \A i \in 1..Len(ls) : ls[i] \in Lines
  BY ElementOfSeq
<1> QED
  BY <1>1, <1>2

(* Where name, colon, value and line end of a header line are. *)
LEMMA LineTextParts ==
  ASSUME NEW h \in HeaderLines
  PROVE  LET K == Len(h.key)
             V == Len(h.value)
             t == LineText(h)
         IN /\ K \in Nat /\ V \in Nat /\ t \in Seq(Char) /\ Len(t) = K + V + 4
            /\ \A j \in 1..K : t[j] = h.key[j] /\ t[j] \notin {":", LF}
            /\ t[K + 1] = ":" /\ t[K + 2] = " "
            /\ \A j \in 1..V : t[K + 2 + j] = h.value[j] /\ t[K + 2 + j] # CR
            /\ t[K + V + 3] = CR /\ t[K + V + 4] = LF
<1> DEFINE K == Len(h.key)
           V == Len(h.value)
           a == h.key \o <<":", " ">>
           b == a \o h.value
           t == b \o CRLF
<1>1. h.key \in Plain({":", LF}) /\ h.value \in Plain({CR})
  BY DEF HeaderLines
<1>2. /\ h.key \in Seq(Char) /\ K \in Nat /\ \A j \in 1..K : h.key[j] \notin {":", LF}
      /\ h.value \in Seq(Char) /\ V \in Nat /\ \A j \in 1..V : h.value[j] # CR
  BY <1>1, PlainTexts
<1>3. /\ a \in Seq(Char) /\ Len(a) = K + 2 /\ \A j \in 1..K : a[j] = h.key[j]
      /\ \A j \in 1..2 : a[K + j] = <<":", " ">>[j]
  <2> DEFINE colon == <<":", " ">>
  <2>1. colon \in Seq(Char) /\ Len(colon) = 2
    BY SeqTypes
  <2> HIDE DEF colon
  <2>2. h.key \in Seq(Char) /\ colon \in Seq(Char)
    BY <1>2, <2>1
  <2>3. /\ h.key \o colon \in Seq(Char) /\ Len(h.key \o colon) = K + 2
        /\ \A j \in 1..K : (h.key \o colon)[j] = h.key[j]
        /\ \A j \in 1..2 : (h.key \o colon)[K + j] = colon[j]
    BY ONLY <2>1, <2>2, Joins
  <2> QED
    BY <2>3 DEF colon
<1> HIDE DEF a
<1>4. /\ b \in Seq(Char) /\ Len(b) = Len(a) + V /\ \A j \in 1..Len(a) : b[j] = a[j]
      /\ \A j \in 1..V : b[Len(a) + j] = h.value[j]
  <2>1. a \in Seq(Char) /\ h.value \in Seq(Char)
    BY <1>2, <1>3
  <2> QED
    BY ONLY <2>1, Joins
<1> HIDE DEF b
<1>5. /\ t \in Seq(Char) /\ Len(t) = Len(b) + 2 /\ \A j \in 1..Len(b) : t[j] = b[j]
      /\ \A j \in 1..2 : t[Len(b) + j] = CRLF[j]
  <2>1. b \in Seq(Char) /\ CRLF \in Seq(Char) /\ Len(CRLF) = 2
    BY <1>4, SeqTypes
  <2> QED
    BY ONLY <2>1, Joins
<1>6. t = LineText(h)
  BY DEF LineText, HeaderLine, a, b
<1> HIDE DEF t, K, V
<1>14. K \in Nat /\ V \in Nat /\ Len(a) = K + 2 /\ Len(b) = K + 2 + V
  BY <1>2, <1>3, <1>4
<1>12. /\ K \in Nat /\ V \in Nat /\ Len(a) = K + 2 /\ Len(b) = K + 2 + V
       /\ \A j \in 1..(K + 2) : j \in 1..Len(b) /\ t[j] = a[j]
       /\ \A j \in 1..V : Len(a) + j \in 1..Len(b) /\ Len(a) + j = K + 2 + j
  <2>1. \A j \in 1..(K + 2) : j \in 1..Len(b) /\ j \in 1..Len(a)
    BY <1>14
  <2>2. \A j \in 1..V : Len(a) + j \in 1..Len(b) /\ Len(a) + j = K + 2 + j
    BY <1>14
  <2>3. \A j \in 1..(K + 2) : t[j] = a[j]
    BY <1>4, <1>5, <2>1
  <2> QED
    BY <1>14, <2>1, <2>2, <2>3
<1>7. \A j \in 1..K : t[j] = h.key[j] /\ t[j] \notin {":", LF}
  <2>1. \A j \in 1..K : j \in 1..(K + 2)
    BY <1>12
  <2> QED
    BY <1>2, <1>3, <1>12, <2>1
<1>8. t[K + 1] = ":" /\ t[K + 2] = " "
  <2>1. 1 \in 1..2 /\ 2 \in 1..2 /\ K + 1 \in 1..(K + 2) /\ K + 2 \in 1..(K + 2)
    BY <1>12
  <2> QED
    BY <1>3, <1>12, <2>1, SeqTypes
<1>9. \A j \in 1..V : t[K + 2 + j] = h.value[j] /\ t[K + 2 + j] # CR
  <2>1. \A j \in 1..V : t[K + 2 + j] = b[Len(a) + j] /\ b[Len(a) + j] = h.value[j]
    <3> HIDE DEF b
    <3>1. \A j \in 1..V : Len(a) + j \in 1..Len(b) /\ Len(a) + j = K + 2 + j
      BY <1>12
    <3>2. \A j \in 1..V : b[Len(a) + j] = h.value[j]
      BY <1>4 DEF V
    <3>3. \A j \in 1..Len(b) : t[j] = b[j]
      BY <1>5
    <3> QED
      BY ONLY <3>1, <3>2, <3>3
  <2>2. \A j \in 1..V : h.value[j] # CR
    BY <1>2 DEF V
  <2> QED
    BY <2>1, <2>2
<1>10. t[K + V + 3] = CR /\ t[K + V + 4] = LF
  <2>1. 1 \in 1..2 /\ 2 \in 1..2 /\ Len(b) + 1 = K + V + 3 /\ Len(b) + 2 = K + V + 4
    BY <1>12
  <2> QED
    BY <1>5, <2>1, SeqTypes
<1>11. Len(t) = K + V + 4
  BY <1>5, <1>12
<1>13. t \in Seq(Char)
  BY <1>5
<1> QED
  BY <1>6, <1>7, <1>8, <1>9, <1>10, <1>11, <1>12, <1>13 DEF K, V

----------------------------------------------------------------------------
(* Where the parts of a message lie *)

(* The lines of a message are texts. *)
LEMMA LineTextsSeq ==
  ASSUME NEW ls \in Seq(HeaderLines)
  PROVE  /\ LineTexts(ls) \in Seq(Seq(Char)) /\ Len(LineTexts(ls)) = Len(ls)
         /\ \A n \in 1..Len(ls) : ls[n] \in HeaderLines /\ LineTexts(ls)[n] = LineText(ls[n])
<1>1. Len(ls) \in Nat /\ \A n \in 1..Len(ls) : ls[n] \in HeaderLines
  BY ElementOfSeq
<1>2. \A n \in 1..Len(ls) : LineText(ls[n]) \in Seq(Char)
  BY <1>1, LineTextParts
<1>3. LineTexts(ls) = [n \in 1..Len(ls) |-> LineText(ls[n])]
  BY DEF LineTexts
<1>4. LineTexts(ls) \in Seq(Seq(Char))
  BY <1>1, <1>2, <1>3
<1>5. Len(LineTexts(ls)) = Len(ls)
  BY <1>1, <1>3
<1> QED
  BY <1>1, <1>3, <1>4, <1>5

(* w is a message: n characters, an end of line, its header lines, an empty *)
(* line and the tail.                                                       *)
Layout(w, n, ls, tail) ==
  /\ n \in Nat /\ w \in Seq(Char) /\ ls \in Seq(HeaderLines) /\ tail \in Seq(Char)
  /\ EndsAt(n, ls, 0) = n + 2
  /\ Len(w) = EndsAt(n, ls, Len(ls)) + 2 + Len(tail)
  /\ w[n + 1] = CR /\ w[n + 2] = LF
  /\ \A k \in 0..Len(ls) : EndsAt(n, ls, k) \in Nat /\ EndsAt(n, ls, k) <= EndsAt(n, ls, Len(ls))
  /\ \A k \in 1..Len(ls) :
       /\ EndsAt(n, ls, k) = EndsAt(n, ls, k - 1) + Len(LineText(ls[k]))
       /\ \A j \in 1..Len(LineText(ls[k])) : w[EndsAt(n, ls, k - 1) + j] = LineText(ls[k])[j]
  /\ w[EndsAt(n, ls, Len(ls)) + 1] = CR /\ w[EndsAt(n, ls, Len(ls)) + 2] = LF
  /\ \A j \in 1..Len(tail) : w[EndsAt(n, ls, Len(ls)) + 2 + j] = tail[j]

(* A message is its first line, its header lines, an empty line, its body. *)
LEMMA MessageLayout ==
  ASSUME NEW start \in Seq(Char), NEW ls \in Seq(HeaderLines), NEW tail \in Seq(Char)
  PROVE  /\ Layout(MessageText(start, ls, tail), Len(start), ls, tail)
         /\ \A j \in 1..Len(start) : MessageText(start, ls, tail)[j] = start[j]
<1> DEFINE ss == LineTexts(ls)
           N == Len(ls)
           S == Len(start)
           f == FlattenSeq(ss)
           a == start \o CRLF
           b == a \o f
           c == b \o CRLF
           w == c \o tail
<1>1. /\ ss \in Seq(Seq(Char)) /\ Len(ss) = N /\ N \in Nat /\ S \in Nat
      /\ \A n \in 1..N : ss[n] = LineText(ls[n])
  BY LineTextsSeq
<1> HIDE DEF ss, N
<1>2. f \in Seq(Char) /\ f = Flat(ss, N) /\ Flat(ss, 0) = <<>>
  <2>1. ss \in Seq(Seq(Char)) /\ Len(ss) = N /\ N \in 0..N
    BY <1>1
  <2>2. Flat(ss, 0) = <<>> /\ Flat(ss, N) = f /\ Flat(ss, N) \in Seq(Char)
    BY ONLY <2>1, FlatSteps
  <2> QED
    BY <2>2
<1> HIDE DEF f
<1>3. /\ a \in Seq(Char) /\ Len(a) = S + 2 /\ \A j \in 1..S : a[j] = start[j]
      /\ a[S + 1] = CR /\ a[S + 2] = LF
  <2>1. CRLF \in Seq(Char) /\ Len(CRLF) = 2
    BY SeqTypes
  <2>2. /\ a \in Seq(Char) /\ Len(a) = S + 2 /\ \A j \in 1..S : a[j] = start[j]
        /\ \A j \in 1..2 : a[S + j] = CRLF[j]
    <3>1. start \in Seq(Char) /\ CRLF \in Seq(Char)
      BY <2>1
    <3>2. /\ start \o CRLF \in Seq(Char)
          /\ Len(start \o CRLF) = Len(start) + Len(CRLF)
          /\ \A i \in 1..Len(start) : (start \o CRLF)[i] = start[i]
          /\ \A i \in 1..Len(CRLF) : (start \o CRLF)[Len(start) + i] = CRLF[i]
      BY ONLY <3>1, Joins
    <3> QED
      BY <2>1, <3>2
  <2>3. 1 \in 1..2 /\ 2 \in 1..2
    OBVIOUS
  <2>4. a[S + 1] = CR /\ a[S + 2] = LF
    BY <2>2, <2>3, SeqTypes
  <2> QED
    BY <2>2, <2>4
<1> HIDE DEF a, S
<1>4. /\ b \in Seq(Char) /\ Len(b) = S + 2 + Len(f) /\ \A j \in 1..(S + 2) : b[j] = a[j]
      /\ Len(f) \in Nat /\ \A j \in 1..Len(f) : b[S + 2 + j] = f[j]
  <2>1. a \in Seq(Char) /\ f \in Seq(Char)
    BY <1>2, <1>3
  <2>3. Len(a) = S + 2
    BY <1>3
  <2>2. /\ a \o f \in Seq(Char) /\ Len(f) \in Nat /\ Len(a \o f) = Len(a) + Len(f)
        /\ \A i \in 1..Len(a) : (a \o f)[i] = a[i]
        /\ \A i \in 1..Len(f) : (a \o f)[Len(a) + i] = f[i]
    BY ONLY <2>1, Joins
  <2> QED
    BY <2>1, <2>2, <2>3
<1> HIDE DEF b, c, w
<1> DEFINE E == S + 2 + Len(f)
<1>5. /\ c \in Seq(Char) /\ Len(c) = E + 2 /\ \A j \in 1..E : c[j] = b[j]
      /\ \A j \in 1..2 : c[E + j] = CRLF[j]
  <2>1. CRLF \in Seq(Char) /\ Len(CRLF) = 2
    BY SeqTypes
  <2>2. b \in Seq(Char) /\ Len(b) = E
    BY <1>4
  <2> HIDE DEF E
  <2>3. b \in Seq(Char) /\ CRLF \in Seq(Char)
    BY <2>1, <2>2
  <2>4. /\ b \o CRLF \in Seq(Char)
        /\ Len(b \o CRLF) = Len(b) + Len(CRLF)
        /\ \A i \in 1..Len(b) : (b \o CRLF)[i] = b[i]
        /\ \A i \in 1..Len(CRLF) : (b \o CRLF)[Len(b) + i] = CRLF[i]
    BY ONLY <2>3, Joins
  <2> QED
    BY <2>1, <2>2, <2>4 DEF c
<1>6. /\ w \in Seq(Char) /\ Len(w) = E + 2 + Len(tail) /\ \A j \in 1..(E + 2) : w[j] = c[j]
      /\ \A j \in 1..Len(tail) : w[E + 2 + j] = tail[j]
  <2>1. c \in Seq(Char) /\ Len(c) = E + 2 /\ tail \in Seq(Char)
    BY <1>5
  <2> HIDE DEF c, E
  <2>3. c \in Seq(Char) /\ tail \in Seq(Char)
    BY <2>1
  <2>4. /\ c \o tail \in Seq(Char)
        /\ Len(c \o tail) = Len(c) + Len(tail)
        /\ \A i \in 1..Len(c) : (c \o tail)[i] = c[i]
        /\ \A i \in 1..Len(tail) : (c \o tail)[Len(c) + i] = tail[i]
    BY ONLY <2>3, Joins
  <2> QED
    BY <2>1, <2>4 DEF w
<1> HIDE DEF c, w, E
<1>7. E \in Nat /\ S \in Nat /\ E = S + 2 + Len(f) /\ Len(f) \in Nat
  BY <1>1, <1>4 DEF E
<1>8. /\ \A j \in 1..(S + 2) : w[j] = a[j]
      /\ \A j \in 1..Len(f) : w[S + 2 + j] = f[j]
  <2>1. \A j \in 1..(S + 2) : j \in 1..E /\ j \in 1..(E + 2)
    BY <1>7
  <2>2. \A j \in 1..Len(f) : S + 2 + j \in 1..E /\ S + 2 + j \in 1..(E + 2)
    BY <1>7
  <2> QED
    BY <1>4, <1>5, <1>6, <2>1, <2>2
<1>9. w[E + 1] = CR /\ w[E + 2] = LF
  <2>1. 1 \in 1..2 /\ 2 \in 1..2 /\ E + 1 \in 1..(E + 2) /\ E + 2 \in 1..(E + 2)
    BY <1>7
  <2> QED
    BY <1>5, <1>6, <2>1, SeqTypes
<1>10. w = MessageText(start, ls, tail)
  BY DEF MessageText, w, c, b, a, f, ss
<1>11. \A k \in 0..N : EndsAt(S, ls, k) = S + 2 + Len(Flat(ss, k))
  BY DEF EndsAt, ss
<1>12. EndsAt(S, ls, N) = E /\ EndsAt(S, ls, 0) = S + 2
  <2>1. Len(Flat(ss, 0)) = 0
    BY <1>2
  <2> QED
    BY <1>1, <1>2, <1>7, <1>11, <2>1
<1>13. ASSUME NEW k \in 1..N
       PROVE  /\ EndsAt(S, ls, k) = EndsAt(S, ls, k - 1) + Len(LineText(ls[k]))
              /\ EndsAt(S, ls, k) \in Nat /\ EndsAt(S, ls, k) <= E
              /\ \A j \in 1..Len(LineText(ls[k])) : w[EndsAt(S, ls, k - 1) + j] = LineText(ls[k])[j]
  <2>1. Placed(ss, k, N)
    <3>1. N \in 0..Len(ss)
      BY <1>1
    <3> QED
      BY <1>1, <3>1, FlatPlaces
  <2> DEFINE p == Len(Flat(ss, k - 1))
             q == Len(Flat(ss, k))
             l == Len(ss[k])
  <2>2. /\ q = p + l /\ p \in Nat /\ q <= Len(f)
        /\ \A j \in 1..l : f[p + j] = ss[k][j]
    BY <1>2, <2>1 DEF Placed
  <2>3. l \in Nat
    <3>1. ss[k] \in Seq(Char)
      BY <1>1, ElementOfSeq
    <3> QED
      BY <3>1
  <2>4. k - 1 \in 0..N /\ k \in 0..N
    BY <1>1
  <2>5. EndsAt(S, ls, k - 1) = S + 2 + p /\ EndsAt(S, ls, k) = S + 2 + q
    BY <1>11, <2>4
  <2> HIDE DEF p, q, l
  <2>6. ASSUME NEW j \in 1..l PROVE w[S + 2 + p + j] = ss[k][j]
    <3>1. p + j \in 1..Len(f) /\ S + 2 + (p + j) = S + 2 + p + j
      BY <1>7, <2>2, <2>3
    <3>2. w[S + 2 + (p + j)] = f[p + j]
      BY <1>8, <3>1
    <3> QED
      BY <2>2, <3>1, <3>2
  <2>7. ss[k] = LineText(ls[k]) /\ l = Len(LineText(ls[k]))
    BY <1>1 DEF l
  <2>8. EndsAt(S, ls, k) = EndsAt(S, ls, k - 1) + l /\ EndsAt(S, ls, k) \in Nat /\ EndsAt(S, ls, k) <= E
    BY <1>7, <2>2, <2>3, <2>5
  <2> QED
    BY <2>5, <2>6, <2>7, <2>8
<1>14. ASSUME NEW k \in 0..N PROVE EndsAt(S, ls, k) \in Nat /\ EndsAt(S, ls, k) <= E
  <2>1. k = 0 \/ k \in 1..N
    BY <1>1
  <2>2. S + 2 \in Nat /\ S + 2 <= E
    BY <1>7
  <2> QED
    BY <1>12, <1>13, <2>1, <2>2
<1>15. Layout(w, S, ls, tail)
  <2>1. w[S + 1] = CR /\ w[S + 2] = LF
    <3>1. S + 1 \in 1..(S + 2) /\ S + 2 \in 1..(S + 2)
      BY <1>7
    <3> QED
      BY <1>3, <1>8, <3>1
  <2> QED
    BY <1>6, <1>7, <1>9, <1>12, <1>13, <1>14, <2>1 DEF Layout, N
<1>16. \A j \in 1..S : w[j] = start[j]
  <2>1. \A j \in 1..S : j \in 1..(S + 2)
    BY <1>7
  <2> QED
    BY <1>3, <1>8, <2>1
<1> QED
  BY <1>10, <1>15, <1>16 DEF S

(* What the parser finds in such a text. *)
LEMMA LayoutLine ==
  ASSUME NEW w, NEW n, NEW ls, NEW tail, Layout(w, n, ls, tail), NEW k \in 1..Len(ls)
  PROVE  LET p == EndsAt(n, ls, k - 1)
             K == Len(ls[k].key)
             V == Len(ls[k].value)
         IN /\ p \in Nat /\ K \in Nat /\ V \in Nat /\ Len(w) \in Nat
            /\ EndsAt(n, ls, k) = p + K + V + 4 /\ p + K + V + 6 <= Len(w)
            /\ ls[k] \in HeaderLines /\ ls[k].key \in Seq(Char) /\ ls[k].value \in Seq(Char)
            /\ \A j \in 1..K : w[p + j] = ls[k].key[j]
            /\ \A j \in 1..V : w[p + K + 2 + j] = ls[k].value[j]
            /\ \A j \in 1..(K + 2) : w[p + j] # LF
            /\ Spans(w, p, {":"}, K) /\ Spans(w, p + K + 2, {CR}, V)
<1> DEFINE p == EndsAt(n, ls, k - 1)
           K == Len(ls[k].key)
           V == Len(ls[k].value)
           t == LineText(ls[k])
           L == Len(ls)
           e == EndsAt(n, ls, k)
           z == EndsAt(n, ls, L)
<1>1. k - 1 \in 0..L /\ k \in 0..L /\ L \in 0..L
  OBVIOUS
<1>2. ls[k] \in HeaderLines
  BY ElementOfSeq DEF Layout
<1>3. /\ K \in Nat /\ V \in Nat /\ t \in Seq(Char) /\ Len(t) = K + V + 4
      /\ \A j \in 1..K : t[j] = ls[k].key[j] /\ t[j] \notin {":", LF}
      /\ t[K + 1] = ":" /\ t[K + 2] = " "
      /\ \A j \in 1..V : t[K + 2 + j] = ls[k].value[j] /\ t[K + 2 + j] # CR
      /\ t[K + V + 3] = CR
  BY <1>2, LineTextParts
<1>4. /\ p \in Nat /\ e \in Nat /\ z \in Nat /\ e <= z /\ Len(w) = z + 2 + Len(tail)
      /\ e = p + Len(t)
      /\ \A j \in 1..Len(t) : w[p + j] = t[j]
  BY <1>1 DEF Layout
<1>5. Len(tail) \in Nat
  BY DEF Layout
<1>6. ls[k].key \in Seq(Char) /\ ls[k].value \in Seq(Char)
  BY <1>2, PlainTexts DEF HeaderLines
<1> HIDE DEF p, K, V, t, L, e, z
<1>15. K \in Nat
  BY <1>3
<1>16. V \in Nat
  BY <1>3
<1>17. Len(t) = K + V + 4
  BY <1>3
<1>18. p \in Nat /\ e \in Nat /\ z \in Nat /\ e <= z /\ Len(w) = z + 2 + Len(tail) /\ e = p + Len(t)
  BY <1>4
<1>7. e = p + K + V + 4 /\ p + K + V + 6 <= Len(w) /\ Len(w) \in Nat
  BY <1>5, <1>15, <1>16, <1>17, <1>18
<1>8. \A j \in 1..(K + V + 4) : w[p + j] = t[j]
  BY <1>3, <1>4
<1>9. \A j \in 1..K : w[p + j] = ls[k].key[j] /\ w[p + j] \notin {":", LF}
  <2>1. \A j \in 1..K : j \in 1..(K + V + 4)
    BY <1>15, <1>16
  <2> QED
    BY <1>3, <1>8, <2>1
<1>10. w[p + (K + 1)] = ":" /\ w[p + (K + 2)] = " " /\ w[p + (K + V + 3)] = CR
  <2>1. K + 1 \in 1..(K + V + 4) /\ K + 2 \in 1..(K + V + 4) /\ K + V + 3 \in 1..(K + V + 4)
    BY <1>15, <1>16
  <2> QED
    BY <1>3, <1>8, <2>1
<1>11. \A j \in 1..V : w[p + K + 2 + j] = ls[k].value[j] /\ w[p + K + 2 + j] # CR
  <2>1. \A j \in 1..V : K + 2 + j \in 1..(K + V + 4) /\ p + (K + 2 + j) = p + K + 2 + j
    BY <1>15, <1>16, <1>18
  <2>2. \A j \in 1..V : t[K + 2 + j] = ls[k].value[j] /\ t[K + 2 + j] # CR
    BY <1>3
  <2> QED
    BY <1>8, <2>1, <2>2
<1>12. \A j \in 1..(K + 2) : w[p + j] # LF
  <2>1. \A j \in 1..(K + 2) : j \in 1..K \/ j = K + 1 \/ j = K + 2
    BY <1>15
  <2>2. ":" # LF /\ " " # LF
    BY DEF LF
  <2> QED
    BY <1>9, <1>10, <2>1, <2>2
<1>13. Spans(w, p, {":"}, K)
  <2>1. K \in 0..(Len(w) - p) /\ p + K + 1 = p + (K + 1)
    BY <1>7, <1>15, <1>16, <1>18
  <2>2. \A j \in (p + 1)..(p + K) : j - p \in 1..K /\ p + (j - p) = j
    BY <1>15, <1>18
  <2>3. \A j \in (p + 1)..(p + K) : w[j] \notin {":"}
    BY <1>9, <2>2
  <2> QED
    BY <1>10, <2>1, <2>3 DEF Spans
<1>14. Spans(w, p + K + 2, {CR}, V)
  <2>1. V \in 0..(Len(w) - (p + K + 2)) /\ (p + K + 2) + V + 1 = p + (K + V + 3)
    BY <1>7, <1>15, <1>16, <1>18
  <2>2. \A j \in ((p + K + 2) + 1)..((p + K + 2) + V) :
           j - (p + K + 2) \in 1..V /\ p + K + 2 + (j - (p + K + 2)) = j
    BY <1>15, <1>16, <1>18
  <2>3. \A j \in ((p + K + 2) + 1)..((p + K + 2) + V) : w[j] \notin {CR}
    BY <1>11, <2>2
  <2> QED
    BY <1>10, <2>1, <2>3 DEF Spans
<1> QED
  BY <1>2, <1>3, <1>4, <1>6, <1>7, <1>9, <1>11, <1>12, <1>13, <1>14 DEF p, K, V, e

(* What lies behind the last header line. *)
LEMMA LayoutEnd ==
  ASSUME NEW w, NEW n, NEW ls, NEW tail, Layout(w, n, ls, tail)
  PROVE  LET p == EndsAt(n, ls, Len(ls))
         IN /\ p \in Nat /\ p >= n + 2 /\ Len(w) = p + 2 + Len(tail) /\ Len(tail) \in Nat
            /\ Len(w) \in Nat
            /\ w[p + 1] = CR /\ w[p + 2] = LF
            /\ \A j \in 1..Len(tail) : w[p + 2 + j] = tail[j]
            /\ Spans(w, p, {LF}, 1)
<1> DEFINE L == Len(ls)
           p == EndsAt(n, ls, L)
<1>1. L \in 0..L /\ 0 \in 0..L
  BY DEF Layout
<1>2. /\ p \in Nat /\ Len(w) = p + 2 + Len(tail) /\ Len(tail) \in Nat
      /\ n \in Nat /\ EndsAt(n, ls, 0) = n + 2 /\ EndsAt(n, ls, 0) <= p
      /\ w[p + 1] = CR /\ w[p + 2] = LF
      /\ \A j \in 1..Len(tail) : w[p + 2 + j] = tail[j]
  BY <1>1 DEF Layout
<1> HIDE DEF p, L
<1>3. Spans(w, p, {LF}, 1)
  <2>1. 1 \in 0..(Len(w) - p) /\ p + 1 + 1 = p + 2
    BY <1>2
  <2>2. \A j \in (p + 1)..(p + 1) : j = p + 1
    BY <1>2
  <2>3. CR # LF
    BY DEF CR, LF
  <2> QED
    BY <1>2, <2>1, <2>2, <2>3 DEF Spans
<1>4. p >= n + 2 /\ Len(w) \in Nat
  BY <1>2
<1> QED
  BY <1>2, <1>3, <1>4 DEF p, L

----------------------------------------------------------------------------
(* The invariant *)

Pcs == {"url", "init", "build", "printed", "wire", "start", "lines", "done", "free", "end"}

(* Where a call is, and which undefined behaviour it can have met there. *)
Control ==
  /\ pc \in Pcs /\ job \in {"print", "parse"} /\ kind \in {"request", "response"}
  /\ mode \in {"connect", "application"} /\ calls \in Nat
  /\ mode = "connect" => url \in Urls
  /\ job = "print" => kind = "request" /\ pc \notin {"start", "lines", "done"}
  /\ job = "parse" => pc \notin {"url", "build", "printed"}
  /\ kind = "response" => mode = "connect"
  /\ pc = "url" => mode = "connect"
  /\ pc \notin {"printed", "free", "end"} => fault = NoFault
  /\ pc = "printed" => fault \in {NoFault, "freed"}
  /\ pc = "free" => fault \in {NoFault, IF job = "print" THEN "freed" ELSE "past_end"}
  /\ pc = "end" => fault \in {NoFault, "double_free", "wild", "port_buffer"}

(* What is printed can be sent. *)
Printing ==
  /\ job = "print" /\ pc \in {"url", "init", "build"} => whole = NULL /\ dangling = {}
  /\ pc = "build" => body_set
  /\ pc \in {"printed", "free"} /\ job = "print" /\ whole # NULL =>
       body_set /\ (fault = NoFault => dangling = {})
  /\ pc = "wire" \/ job = "parse" => whole # NULL

(* The request holds no text of the client when it is freed. *)
Borrowed ==
  /\ \A f \in {"host", "path"} : client[f] # NULL => f \in live
  /\ mode = "connect" /\ job = "print" /\ pc = "free" => msg.host = NULL /\ msg.path = NULL

(* A value was freed and not replaced only where a header was set again. *)
Repeated ==
  \E i, j \in 1..Len(lines) :
    i # j /\ normalized_cstr(lines[i].key) = normalized_cstr(lines[j].key)

Dangling ==
  /\ pc = "printed" /\ fault = NoFault => dangling = {}
  /\ pc = "free" /\ job = "print" /\ fault = NoFault /\ dangling # {} =>
       mode = "application" /\ calls > 1
  /\ job = "parse" /\ pc \in {"start", "lines", "done"} => dangling = {}
  /\ job = "parse" /\ pc = "free" /\ dangling # {} => Repeated

(* The fields of a message. *)
IsMessage(m) ==
  m = [method |-> m.method, host |-> m.host, path |-> m.path, port |-> m.port,
       protocol |-> m.protocol, status_code |-> m.status_code, status_text |-> m.status_text,
       headers |-> m.headers, body |-> m.body]

IsHeaders(h) ==
  /\ IsFiniteSet(DOMAIN h) /\ h = [k \in DOMAIN h |-> h[k]]
  /\ \A k \in DOMAIN h :
       k \in Plain({":", LF}) /\ normalized_cstr(k) = k /\ h[k] \in Plain({CR})

(* The request of a client. *)
HandshakeMsg ==
  [EmptyMessage EXCEPT !.path = RequestPath(client), !.protocol = PROTOCOL,
                       !.host = client.host, !.port = client.port % 2^16,
                       !.headers = HeadersOf(HandshakeHeaders)]

(* The request of an application: before AppStart, and behind it. *)
AppMessage(m) ==
  /\ IsMessage(m) /\ IsHeaders(m.headers) /\ m.body \in Seq(Char)
  /\ m.status_code = 0 /\ m.status_text = NULL
  /\ \A k \in DOMAIN m.headers : \E key \in AppKeys : k = normalized_cstr(key)
  /\ DOMAIN m.headers # {} => calls > 0
  /\ \/ m.path = NULL
     \/ /\ m.path = <<"/", "p">> /\ m.protocol = PROTOCOL /\ m.host = <<"h">>
        /\ m.port = 3000 /\ m.method \in AppMethods

Building ==
  /\ IsMessage(msg)
  /\ pc = "build" =>
       IF mode = "connect" THEN msg \in {EmptyMessage, HandshakeMsg} ELSE AppMessage(msg)

(* A complete message: what is in front of the CR of its first line, and     *)
(* what is behind the empty line.                                            *)
StartText ==
  IF kind = "request"
  THEN <<sent.method>> \o Space \o sent.path \o Space \o sent.protocol
  ELSE sent.protocol \o Space \o to_str(sent.status_code) \o Space \o sent.status_text
TailText ==
  IF kind = "request" /\ sent.body # <<>> THEN sent.body \o CRLF ELSE sent.body

Message ==
  whole # NULL =>
    /\ lines \in Seq(HeaderLines) /\ TailText \in Seq(Char) /\ sent.body \in Seq(Char)
    /\ whole = MessageText(StartText, lines, TailText)
    /\ IsMessage(sent) /\ sent.headers = HeadersOf(lines) /\ sent.protocol = PROTOCOL
    /\ kind = "request" =>
         /\ sent.method \in Methods /\ sent.path \in Plain({" ", LF})
         /\ sent.status_code = 0 /\ sent.status_text = NULL
    /\ kind = "response" =>
         /\ sent.status_code \in 100..999 /\ sent.status_text = <<"reason">>
         /\ sent.method = "GET" /\ sent.path = NULL

ConnectSent ==
  mode = "connect" /\ whole # NULL /\ kind = "request" =>
    \/ sent = WithHost(HandshakeMsg)
    \/ "alloc" \in HttpFaults /\ sent = HandshakeMsg

ClientMade ==
  mode = "connect" /\ pc # "url" =>
    LET r == ws_client_from_str(UrlText(url), UseSSL) IN
    /\ client = r.client
    /\ fault = "port_buffer" <=> r.result = "port_buffer"
    /\ r.result # "true" => pc = "end" /\ job = "print"

(* Where header line n ends. *)
P(n) == EndsAt(Len(StartText), lines, n)

(* The parser got no further than the start line, to the end of line n, or   *)
(* into the value of line n.                                                 *)
Short ==
  Len(text) <= Len(StartText) + 1 /\ index = Len(text) + 1 /\ msg.headers = <<>>
AtLine(n) ==
  index = P(n) /\ P(n) <= Len(text) + 2 /\ msg.headers = HeadersOf(FirstOf(lines, n))
CutLine(n) ==
  LET at == P(n - 1) + Len(lines[n].key) + 2 IN
  /\ at <= Len(text) /\ Len(text) < at + Len(lines[n].value) /\ index >= Len(text)
  /\ msg.headers = HeadersOf(Append(FirstOf(lines, n - 1),
                        [key |-> lines[n].key, value |-> SubSeq(lines[n].value, 1, Len(text) - at)]))
Progress ==
  \/ Short
  \/ \E n \in 0..Len(lines) : AtLine(n)
  \/ \E n \in 1..Len(lines) : CutLine(n)

TwoSpaces == \E i, j \in 1..Len(text) : i < j /\ text[i] = " " /\ text[j] = " "

Started ==
  /\ IsMessage(msg) /\ msg.host = NULL /\ msg.port = 80
  /\ kind = "request" => TwoSpaces /\ msg.status_code = 0 /\ msg.status_text = NULL
  /\ kind = "response" =>
       msg.status_code = sent.status_code /\ msg.method = "GET" /\ msg.path = NULL
  /\ Len(text) >= Len(StartText) + 2 =>
       /\ msg.method = sent.method /\ msg.path = sent.path /\ msg.protocol = sent.protocol
       /\ msg.status_text = sent.status_text

BodyStart == IF index < Len(text) THEN index + 2 ELSE index
BodyText == str_dup(text, BodyStart, IF BodyStart < Len(text) THEN Len(text) - BodyStart ELSE 0)

Parsing ==
  /\ index \in Nat
  /\ job = "parse" =>
       /\ Begins(text, whole) /\ text \in Seq(Char)
       /\ pc = "start" => msg = EmptyMessage /\ index = 0
       /\ pc \in {"lines", "done"} => Started /\ Progress
       /\ pc = "lines" => msg.body = <<>>
       /\ pc = "done" => HeadersOver /\ msg.body = BodyText
       /\ fault = "past_end" => CutInName

HInv ==
  /\ Control /\ Printing /\ Borrowed /\ Dangling /\ TextsFreedOnce
  /\ Building /\ Message /\ ConnectSent /\ ClientMade /\ Parsing

----------------------------------------------------------------------------
(* Names in lower case *)

Low(c) == IF c \in DOMAIN LowerCase THEN LowerCase[c] ELSE c

(* A character's lower case is its own, and none of the separators. *)
LEMMA LowFacts ==
  ASSUME NEW c
  PROVE  /\ Low(Low(c)) = Low(c)
         /\ c \in Char => Low(c) \in Char
         /\ c \notin {":", LF} => Low(c) \notin {":", LF}
<1>1. DOMAIN LowerCase = {"Upgrade", "Connection", "Host", "Sec", "Version", "Accept", "X"}
  BY DEF LowerCase
<1>2. /\ LowerCase["Upgrade"] = "upgrade" /\ LowerCase["Connection"] = "connection"
      /\ LowerCase["Host"] = "host" /\ LowerCase["Sec"] = "sec"
      /\ LowerCase["Version"] = "version" /\ LowerCase["Accept"] = "accept"
      /\ LowerCase["X"] = "x"
  BY DEF LowerCase
<1> DEFINE U == {"Upgrade", "Connection", "Host", "Sec", "Version", "Accept", "X"}
           L == {"upgrade", "connection", "host", "sec", "version", "accept", "x"}
<1>3. c \in U => Low(c) \in L
  BY <1>1, <1>2 DEF Low
<1>4. \A d \in L : d \notin U
  OBVIOUS
<1>5. \A d : d \notin U => Low(d) = d
  BY <1>1 DEF Low
<1>6. \A d \in L : d \in Char /\ d \notin {":", LF}
  <2>1. \A d \in L : d \in Literals
    BY ONLY DEF Literals
  <2>2. \A d \in L : d \notin {":", LF}
    BY ONLY DEF LF
  <2> QED
    BY ONLY <2>1, <2>2 DEF Char
<1> QED
  BY <1>3, <1>4, <1>5, <1>6

(* normalized_cstr normalises once, and keeps the length. *)
LEMMA NormFacts ==
  ASSUME NEW k \in Seq(Char)
  PROVE  /\ normalized_cstr(k) = [i \in 1..Len(k) |-> Low(k[i])]
         /\ normalized_cstr(k) \in Seq(Char) /\ Len(normalized_cstr(k)) = Len(k)
         /\ normalized_cstr(normalized_cstr(k)) = normalized_cstr(k)
         /\ k \in Plain({":", LF}) => normalized_cstr(k) \in Plain({":", LF})
<1> DEFINE n == normalized_cstr(k)
<1>1. Len(k) \in Nat /\ \A i \in 1..Len(k) : k[i] \in Char
  BY ElementOfSeq
<1>2. n = [i \in 1..Len(k) |-> Low(k[i])]
  BY DEF normalized_cstr, Low
<1>3. \A i \in 1..Len(k) : n[i] = Low(k[i]) /\ n[i] \in Char
  BY <1>1, <1>2, LowFacts
<1>4. n \in Seq(Char) /\ Len(n) = Len(k)
  BY <1>1, <1>2, <1>3
<1>5. normalized_cstr(n) = n
  <2>1. normalized_cstr(n) = [i \in 1..Len(n) |-> Low(n[i])]
    BY DEF normalized_cstr, Low
  <2>2. \A i \in 1..Len(k) : Low(n[i]) = n[i]
    BY <1>3, LowFacts
  <2> HIDE DEF n
  <2>3. n = [i \in 1..Len(k) |-> n[i]]
    BY <1>2
  <2> QED
    BY <1>4, <2>1, <2>2, <2>3
<1>6. k \in Plain({":", LF}) => n \in Plain({":", LF})
  <2> HAVE k \in Plain({":", LF})
  <2>1. \A i \in 1..Len(k) : k[i] \notin {":", LF}
    BY PlainTexts
  <2>2. \A i \in 1..Len(k) : n[i] \notin {":", LF}
    BY <1>3, <2>1, LowFacts
  <2> QED
    BY <1>4, <2>2 DEF Plain
<1> QED
  BY <1>2, <1>4, <1>5, <1>6

----------------------------------------------------------------------------
(* HeadersOf *)

(* Line i is the last one of hs with the name k. *)
LastNamed(hs, k, i) ==
  /\ i \in 1..Len(hs) /\ normalized_cstr(hs[i].key) = k
  /\ \A j \in (i + 1)..Len(hs) : normalized_cstr(hs[j].key) # k

Names(hs) == {normalized_cstr(hs[i].key) : i \in 1..Len(hs)}

(* A name has one last line. *)
LEMMA LastUnique ==
  ASSUME NEW hs, Len(hs) \in Nat, NEW k, NEW i, NEW j, LastNamed(hs, k, i), LastNamed(hs, k, j)
  PROVE  i = j
<1>1. i \in 1..Len(hs) /\ j \in 1..Len(hs)
  BY DEF LastNamed
<1>2. i < j => j \in (i + 1)..Len(hs)
  BY <1>1
<1>3. j < i => i \in (j + 1)..Len(hs)
  BY <1>1
<1>4. ~(i < j) /\ ~(j < i)
  BY <1>2, <1>3 DEF LastNamed
<1> QED
  BY <1>1, <1>4

(* Every name has a last line. *)
LEMMA LastExists ==
  ASSUME NEW hs, Len(hs) \in Nat, NEW k \in Names(hs)
  PROVE  \E i : LastNamed(hs, k, i)
<1> DEFINE S == {n \in 0..Len(hs) : \E i \in 1..Len(hs) : n = Len(hs) - i /\ normalized_cstr(hs[i].key) = k}
<1>1. S \subseteq Nat /\ S # {}
  <2>1. PICK i \in 1..Len(hs) : normalized_cstr(hs[i].key) = k
    BY DEF Names
  <2>2. Len(hs) - i \in S
    BY <2>1
  <2>3. \A n \in 0..Len(hs) : n \in Nat
    OBVIOUS
  <2>4. S \subseteq 0..Len(hs)
    OBVIOUS
  <2> HIDE DEF S
  <2> QED
    BY <2>2, <2>3, <2>4
<1>2. PICK n \in S : \A m \in S : n <= m
  <2> HIDE DEF S
  <2> QED
    BY <1>1, Smallest
<1>3. PICK i \in 1..Len(hs) : n = Len(hs) - i /\ normalized_cstr(hs[i].key) = k
  BY <1>2
<1>4. ASSUME NEW j \in (i + 1)..Len(hs), normalized_cstr(hs[j].key) = k PROVE FALSE
  <2>1. j \in 1..Len(hs) /\ Len(hs) - j \in 0..Len(hs)
    BY <1>3
  <2>2. Len(hs) - j \in S
    BY <1>4, <2>1
  <2>3. n <= Len(hs) - j
    BY <1>2, <2>2
  <2> QED
    BY <1>3, <1>4, <2>3
<1> QED
  BY <1>3, <1>4 DEF LastNamed

(* The value of a name is that of its last line. *)
LEMMA HeadersAre ==
  ASSUME NEW hs, Len(hs) \in Nat
  PROVE  /\ HeadersOf(hs) = [k \in Names(hs) |-> HeadersOf(hs)[k]]
         /\ DOMAIN HeadersOf(hs) = Names(hs)
         /\ \A k, i : LastNamed(hs, k, i) => k \in Names(hs) /\ HeadersOf(hs)[k] = hs[i].value
<1> DEFINE C(k) == CHOOSE i \in 1..Len(hs) :
                     /\ normalized_cstr(hs[i].key) = k
                     /\ \A j \in (i + 1)..Len(hs) : normalized_cstr(hs[j].key) # k
<1>1. HeadersOf(hs) = [k \in Names(hs) |-> hs[C(k)].value]
  BY DEF HeadersOf, Names
<1>2. ASSUME NEW k, NEW i, LastNamed(hs, k, i) PROVE C(k) = i
  <2>1. LastNamed(hs, k, C(k))
    <3>1. \E n \in 1..Len(hs) :
            /\ normalized_cstr(hs[n].key) = k
            /\ \A j \in (n + 1)..Len(hs) : normalized_cstr(hs[j].key) # k
      BY <1>2 DEF LastNamed
    <3> QED
      BY <3>1 DEF LastNamed
  <2> QED
    BY <1>2, <2>1, LastUnique
<1>3. \A k, i : LastNamed(hs, k, i) => k \in Names(hs)
  BY DEF LastNamed, Names
<1> HIDE DEF C
<1> QED
  BY <1>1, <1>2, <1>3

(* The headers h with the header k set to v *)
SetTo(h, k, v) == [j \in {k} \cup DOMAIN h |-> IF j = k THEN v ELSE h[j]]

(* One more line sets one header. *)
LEMMA HeadersAppend ==
  ASSUME NEW S, NEW hs \in Seq(S), NEW h \in S
  PROVE  HeadersOf(Append(hs, h)) = SetTo(HeadersOf(hs), normalized_cstr(h.key), h.value)
<1> DEFINE t == Append(hs, h)
           n == Len(hs)
           name == normalized_cstr(h.key)
           f == HeadersOf(hs)
           g == HeadersOf(t)
           v == h.value
           e == [k \in {name} \cup DOMAIN f |-> IF k = name THEN v ELSE f[k]]
<1>1. n \in Nat /\ Len(t) = n + 1 /\ t[n + 1] = h /\ \A i \in 1..n : t[i] = hs[i]
  BY AppendProperties
<1> HIDE DEF t, n
<1>2. /\ g = [k \in Names(t) |-> g[k]]
      /\ \A k, i : LastNamed(t, k, i) => g[k] = t[i].value
  BY <1>1, HeadersAre
<1>3. /\ DOMAIN f = Names(hs)
      /\ \A k, i : LastNamed(hs, k, i) => f[k] = hs[i].value
  BY <1>1, HeadersAre DEF n
<1>4. Names(t) = {name} \cup Names(hs)
  <2>1. \A i \in 1..(n + 1) : i = n + 1 \/ i \in 1..n
    BY <1>1
  <2>2. n + 1 \in 1..(n + 1) /\ \A i \in 1..n : i \in 1..(n + 1)
    BY <1>1
  <2> QED
    BY <1>1, <2>1, <2>2 DEF Names, n
<1>5. g[name] = h.value
  <2>1. LastNamed(t, name, n + 1)
    <3>1. n + 1 \in 1..(n + 1) /\ \A j \in ((n + 1) + 1)..(n + 1) : FALSE
      BY <1>1
    <3> QED
      BY <1>1, <3>1 DEF LastNamed
  <2> QED
    BY <1>1, <1>2, <2>1
<1>6. ASSUME NEW k \in Names(hs), k # name PROVE g[k] = f[k]
  <2>1. PICK i : LastNamed(hs, k, i)
    BY <1>1, LastExists DEF n
  <2>2. LastNamed(t, k, i)
    <3>1. i \in 1..n /\ i \in 1..(n + 1)
      BY <1>1, <2>1 DEF LastNamed, n
    <3>2. \A j \in (i + 1)..(n + 1) : j = n + 1 \/ j \in (i + 1)..n
      BY <1>1, <3>1
    <3>3. \A j \in (i + 1)..n : j \in 1..n
      BY <1>1, <3>1
    <3>4. /\ normalized_cstr(hs[i].key) = k
          /\ \A j \in (i + 1)..n : normalized_cstr(hs[j].key) # k
      BY <2>1 DEF LastNamed, n
    <3>5. \A j \in (i + 1)..(n + 1) : normalized_cstr(t[j].key) # k
      BY <1>1, <1>6, <3>2, <3>3, <3>4
    <3> QED
      BY <1>1, <3>1, <3>4, <3>5 DEF LastNamed
  <2>3. i \in 1..n
    BY <2>1 DEF LastNamed, n
  <2> QED
    BY <1>1, <1>2, <1>3, <2>1, <2>2, <2>3
<1> HIDE DEF f, g, name
<1>7. \A k \in {name} \cup Names(hs) : g[k] = IF k = name THEN h.value ELSE f[k]
  BY <1>5, <1>6
<1>8. g = e
  BY <1>2, <1>3, <1>4, <1>7
<1> HIDE DEF v
<1>9. e = SetTo(f, name, v)
  BY DEF SetTo
<1> HIDE DEF e
<1>10. g = SetTo(f, name, v)
  BY ONLY <1>8, <1>9
<1> QED
  BY ONLY <1>10 DEF f, g, name, t, v

(* Without lines there are no headers. *)
LEMMA HeadersNone == HeadersOf(<<>>) = <<>>
<1>1. Names(<<>>) = {}
  BY DEF Names
<1>2. HeadersOf(<<>>) = [k \in {} |-> HeadersOf(<<>>)[k]]
  BY <1>1, HeadersAre
<1>3. <<>> = [k \in {} |-> HeadersOf(<<>>)[k]]
  OBVIOUS
<1> QED
  BY <1>2, <1>3

----------------------------------------------------------------------------
(* Decimal text *)

(* A number divided by ten. *)
LEMMA TenFacts ==
  ASSUME NEW n \in Nat
  PROVE  /\ n \div 10 \in Nat /\ n % 10 \in 0..9 /\ n = 10 * (n \div 10) + (n % 10)
         /\ n >= 10 => n \div 10 < n
<1>1. n \div 10 \in Nat
  OBVIOUS
<1>2. n % 10 \in 0..9
  OBVIOUS
<1>3. n = 10 * (n \div 10) + (n % 10)
  OBVIOUS
<1>4. n >= 10 => n \div 10 < n
  OBVIOUS
<1> QED
  BY <1>1, <1>2, <1>3, <1>4

DecimalStep(f, n) ==
  IF n < 10 THEN <<Digits[n + 1]>> ELSE Append(f[n \div 10], Digits[(n % 10) + 1])
IsDecimal(m, f) == f = [n \in 0..m |-> DecimalStep(f, n)]

(* The recursion of to_str has a value for every number. *)
LEMMA DecimalExists ==
  ASSUME NEW m \in Nat
  PROVE  \E f : IsDecimal(m, f)
<1> DEFINE S == {k \in Nat : \E f : IsDecimal(k, f)}
<1>1. 0 \in S
  <2> DEFINE f == [n \in 0..0 |-> <<Digits[n + 1]>>]
  <2>1. \A n \in 0..0 : n < 10
    OBVIOUS
  <2>2. f = [n \in 0..0 |-> DecimalStep(f, n)]
    BY <2>1 DEF DecimalStep
  <2> QED
    BY <2>2 DEF IsDecimal
<1>2. ASSUME NEW k \in Nat, k \in S PROVE k + 1 \in S
  <2>1. PICK f : IsDecimal(k, f)
    BY <1>2
  <2> DEFINE g == [n \in 0..(k + 1) |-> IF n = k + 1 THEN DecimalStep(f, n) ELSE f[n]]
  <2>2. \A n \in 0..k : f[n] = DecimalStep(f, n)
    BY <2>1 DEF IsDecimal
  <2>3. ASSUME NEW n \in 0..(k + 1) PROVE g[n] = DecimalStep(g, n)
    <3>1. n >= 10 => n \div 10 \in 0..(k + 1) /\ n \div 10 # k + 1
      BY TenFacts
    <3>2. n >= 10 => g[n \div 10] = f[n \div 10]
      BY <3>1
    <3>3. n \in Int
      OBVIOUS
    <3>4. DecimalStep(g, n) = DecimalStep(f, n)
      BY <3>2, <3>3 DEF DecimalStep
    <3>5. n # k + 1 => n \in 0..k
      OBVIOUS
    <3> QED
      BY <2>2, <3>4, <3>5
  <2>4. g = [n \in 0..(k + 1) |-> g[n]]
    OBVIOUS
  <2> HIDE DEF g
  <2>5. IsDecimal(k + 1, g)
    BY <2>3, <2>4 DEF IsDecimal
  <2> QED
    BY <2>5
<1>3. Nat \subseteq S
  <2> HIDE DEF S
  <2> QED
    BY <1>1, <1>2, NatSetInduction
<1> QED
  BY <1>3

(* The recursion of to_str has one value. *)
LEMMA DecimalAgree ==
  ASSUME NEW m \in Nat, NEW p \in Nat, NEW f, NEW g, IsDecimal(m, f), IsDecimal(p, g),
         NEW n \in Nat, n <= m, n <= p
  PROVE  f[n] = g[n]
<1> DEFINE S == {k \in Nat : k <= m /\ k <= p /\ f[k] # g[k]}
<1> SUFFICES ASSUME S # {} PROVE FALSE
  OBVIOUS
<1>0. S \subseteq Nat
  OBVIOUS
<1>1. PICK k \in S : \A j \in S : k <= j
  <2> HIDE DEF S
  <2> QED
    BY <1>0, Smallest
<1>2. k \in Nat /\ k \in 0..m /\ k \in 0..p /\ f[k] # g[k]
  OBVIOUS
<1>3. f[k] = DecimalStep(f, k) /\ g[k] = DecimalStep(g, k)
  BY <1>2 DEF IsDecimal
<1>4. k >= 10 => f[k \div 10] = g[k \div 10]
  <2> HAVE k >= 10
  <2>1. k \div 10 \in Nat /\ k \div 10 < k /\ k \div 10 <= m /\ k \div 10 <= p
    BY <1>2, TenFacts
  <2>2. k \div 10 \notin S
    BY <1>1, <1>2, <2>1
  <2> QED
    BY <2>1, <2>2
<1>5. DecimalStep(f, k) = DecimalStep(g, k)
  BY <1>2, <1>4 DEF DecimalStep
<1> QED
  BY <1>2, <1>3, <1>5

(* to_str is the digits of a tenth, then the last digit. *)
LEMMA DecimalIs ==
  ASSUME NEW n \in Nat
  PROVE  to_str(n) = IF n < 10 THEN <<Digits[n + 1]>>
                     ELSE Append(to_str(n \div 10), Digits[(n % 10) + 1])
<1> DEFINE G(k) == CHOOSE f : IsDecimal(k, f)
           F == [k \in Nat |-> G(k)[k]]
<1>1. \A k \in Nat : IsDecimal(k, G(k))
  BY Zenon, DecimalExists
<1> HIDE DEF G
<1>2. ASSUME NEW k \in Nat PROVE F[k] = DecimalStep(F, k)
  <2>1. G(k)[k] = DecimalStep(G(k), k)
    <3>1. k \in 0..k
      OBVIOUS
    <3> QED
      BY <1>1, <3>1 DEF IsDecimal
  <2>2. k >= 10 => G(k)[k \div 10] = F[k \div 10]
    <3> HAVE k >= 10
    <3>1. k \div 10 \in Nat /\ k \div 10 <= k /\ k \div 10 <= k \div 10
      BY TenFacts
    <3>2. IsDecimal(k, G(k)) /\ IsDecimal(k \div 10, G(k \div 10))
      BY <1>1, <3>1
    <3>3. G(k)[k \div 10] = G(k \div 10)[k \div 10]
      BY <3>1, <3>2, DecimalAgree
    <3> QED
      BY <3>1, <3>3
  <2>3. DecimalStep(G(k), k) = DecimalStep(F, k)
    <3> HIDE DEF F
    <3> QED
      BY <2>2 DEF DecimalStep
  <2> QED
    BY <2>1, <2>3
<1>3. F = [k \in Nat |-> DecimalStep(F, k)]
  <2>1. F = [k \in Nat |-> F[k]]
    OBVIOUS
  <2> HIDE DEF F
  <2> QED
    BY <1>2, <2>1
<1> HIDE DEF F
<1>4. decimal = CHOOSE f : f = [k \in Nat |-> DecimalStep(f, k)]
  BY DEF decimal, DecimalStep
<1>5. decimal = [k \in Nat |-> DecimalStep(decimal, k)]
  BY Zenon, <1>3, <1>4
<1>6. decimal[n] = DecimalStep(decimal, n)
  BY <1>5
<1> QED
  BY <1>6 DEF to_str, DecimalStep

DigitChars == {"0", "1", "2", "3", "4", "5", "6", "7", "8", "9"}

(* Ten digits with ten values. *)
LEMMA DigitFacts ==
  /\ \A v \in 0..9 : Digits[v + 1] \in DigitChars
  /\ \A v, w \in 0..9 : Digits[v + 1] = Digits[w + 1] => v = w
  /\ DOMAIN DigitValue = DigitChars
  /\ \A v \in 0..9 : DigitValue[Digits[v + 1]] = v
  /\ \A d \in DigitChars : DigitValue[d] \in 0..9
<1>1. /\ Digits[1] = "0" /\ Digits[2] = "1" /\ Digits[3] = "2" /\ Digits[4] = "3"
      /\ Digits[5] = "4" /\ Digits[6] = "5" /\ Digits[7] = "6" /\ Digits[8] = "7"
      /\ Digits[9] = "8" /\ Digits[10] = "9"
  BY DEF Digits
<1>2. \A v \in 0..9 : \/ v = 0 \/ v = 1 \/ v = 2 \/ v = 3 \/ v = 4 \/ v = 5 \/ v = 6 \/ v = 7 \/ v = 8 \/ v = 9
  OBVIOUS
<1>4. /\ 0 + 1 = 1 /\ 1 + 1 = 2 /\ 2 + 1 = 3 /\ 3 + 1 = 4 /\ 4 + 1 = 5 /\ 5 + 1 = 6
      /\ 6 + 1 = 7 /\ 7 + 1 = 8 /\ 8 + 1 = 9 /\ 9 + 1 = 10
  OBVIOUS
<1>5. /\ Digits[0 + 1] = "0" /\ Digits[1 + 1] = "1" /\ Digits[2 + 1] = "2" /\ Digits[3 + 1] = "3"
      /\ Digits[4 + 1] = "4" /\ Digits[5 + 1] = "5" /\ Digits[6 + 1] = "6" /\ Digits[7 + 1] = "7"
      /\ Digits[8 + 1] = "8" /\ Digits[9 + 1] = "9"
  BY <1>1, <1>4
<1>6. \A v \in 0..9 : Digits[v + 1] \in DigitChars
  BY <1>2, <1>5 DEF DigitChars
<1>7. ASSUME NEW v \in 0..9, NEW w \in 0..9, Digits[v + 1] = Digits[w + 1] PROVE v = w
  BY <1>2, <1>5, <1>7
<1>8. {Digits[i] : i \in 1..10} = DigitChars
  <2>1. \A i \in 1..10 : i - 1 \in 0..9 /\ (i - 1) + 1 = i
    OBVIOUS
  <2>2. \A i \in 1..10 : Digits[i] \in DigitChars
    BY <1>6, <2>1
  <2>3. \A d \in DigitChars : \E i \in 1..10 : Digits[i] = d
    BY <1>1 DEF DigitChars
  <2> QED
    BY <2>2, <2>3
<1>9. DigitValue = [d \in DigitChars |-> CHOOSE v \in 0..9 : Digits[v + 1] = d]
  BY <1>8 DEF DigitValue
<1>10. ASSUME NEW v \in 0..9 PROVE DigitValue[Digits[v + 1]] = v
  <2> DEFINE d == Digits[v + 1]
             w == CHOOSE x \in 0..9 : Digits[x + 1] = d
  <2>1. w \in 0..9 /\ Digits[w + 1] = d
    OBVIOUS
  <2>2. w = v
    <3> HIDE DEF w
    <3> QED
      BY <1>7, <2>1
  <2> QED
    BY <1>6, <1>9, <2>2
<1>11. \A d \in DigitChars : \E v \in 0..9 : Digits[v + 1] = d
  BY <1>5 DEF DigitChars
<1>12. \A d \in DigitChars : DigitValue[d] \in 0..9
  BY <1>10, <1>11
<1> QED
  BY <1>6, <1>7, <1>9, <1>10, <1>12

----------------------------------------------------------------------------
(* atoi *)

ValueStep(s, f, i) == IF i = 0 THEN 0 ELSE 10 * f[i - 1] + DigitValue[s[i]]
IsValue(s, n, f) == f = [i \in 0..n |-> ValueStep(s, f, i)]

(* The recursion of atoi has a value for every text. *)
LEMMA ValueExists ==
  ASSUME NEW s, NEW n \in Nat
  PROVE  \E f : IsValue(s, n, f)
<1> DEFINE S == {k \in Nat : \E f : IsValue(s, k, f)}
<1>1. 0 \in S
  <2> DEFINE f == [i \in 0..0 |-> 0]
  <2>1. \A i \in 0..0 : i = 0
    OBVIOUS
  <2>2. f = [i \in 0..0 |-> ValueStep(s, f, i)]
    BY <2>1 DEF ValueStep
  <2> QED
    BY <2>2 DEF IsValue
<1>2. ASSUME NEW k \in Nat, k \in S PROVE k + 1 \in S
  <2>1. PICK f : IsValue(s, k, f)
    BY <1>2
  <2> DEFINE g == [i \in 0..(k + 1) |-> IF i = k + 1 THEN ValueStep(s, f, i) ELSE f[i]]
  <2>2. \A i \in 0..k : f[i] = ValueStep(s, f, i)
    BY <2>1 DEF IsValue
  <2>3. ASSUME NEW i \in 0..(k + 1) PROVE g[i] = ValueStep(s, g, i)
    <3>1. i # 0 => i - 1 \in 0..(k + 1) /\ i - 1 # k + 1
      OBVIOUS
    <3>2. i # 0 => g[i - 1] = f[i - 1]
      BY <3>1
    <3>3. ValueStep(s, g, i) = ValueStep(s, f, i)
      BY <3>2 DEF ValueStep
    <3>4. i # k + 1 => i \in 0..k
      OBVIOUS
    <3> QED
      BY <2>2, <3>3, <3>4
  <2>4. g = [i \in 0..(k + 1) |-> g[i]]
    OBVIOUS
  <2> HIDE DEF g
  <2>5. IsValue(s, k + 1, g)
    BY <2>3, <2>4 DEF IsValue
  <2> QED
    BY <2>5
<1>3. Nat \subseteq S
  <2> HIDE DEF S
  <2> QED
    BY <1>1, <1>2, NatSetInduction
<1> QED
  BY <1>3

(* Numerals that begin alike are worth alike. *)
LEMMA ValueAgree ==
  ASSUME NEW s, NEW t, NEW n \in Nat, NEW m \in Nat, n <= m, NEW f, NEW g,
         IsValue(s, n, f), IsValue(t, m, g), \A i \in 1..n : s[i] = t[i]
  PROVE  \A i \in 0..n : f[i] = g[i]
<1> DEFINE S == {k \in Nat : k <= n => f[k] = g[k]}
<1>1. /\ \A i \in 0..n : f[i] = ValueStep(s, f, i)
      /\ \A i \in 0..m : g[i] = ValueStep(t, g, i)
  BY DEF IsValue
<1>2. 0 \in S
  BY <1>1 DEF ValueStep
<1>3. ASSUME NEW k \in Nat, k \in S PROVE k + 1 \in S
  <2> SUFFICES ASSUME k + 1 <= n PROVE f[k + 1] = g[k + 1]
    OBVIOUS
  <2>1. /\ f[k] = g[k] /\ k + 1 # 0 /\ (k + 1) - 1 = k /\ k + 1 \in 0..n /\ k + 1 \in 0..m
        /\ k + 1 \in 1..n
    BY <1>3
  <2>2. /\ f[k + 1] = 10 * f[k] + DigitValue[s[k + 1]]
        /\ g[k + 1] = 10 * g[k] + DigitValue[t[k + 1]]
    BY <1>1, <2>1 DEF ValueStep
  <2>3. s[k + 1] = t[k + 1]
    BY <2>1
  <2> QED
    BY <2>1, <2>2, <2>3
<1>4. Nat \subseteq S
  <2> HIDE DEF S
  <2> QED
    BY <1>2, <1>3, NatSetInduction
<1> QED
  BY <1>4

(* Texts of digits. *)
Numerals == {s \in Seq(Char) : \A i \in 1..Len(s) : s[i] \in DigitChars}

(* atoi of a numeral reads all its digits. *)
LEMMA AtoiIs ==
  ASSUME NEW s \in Numerals
  PROVE  \E f : IsValue(s, Len(s), f) /\ atoi(s) = f[Len(s)]
<1>1. s \in Seq(Char) /\ Len(s) \in Nat /\ \A i \in 1..Len(s) : s[i] \in DOMAIN DigitValue
  BY DigitFacts DEF Numerals
<1> DEFINE n == CHOOSE n \in 0..Len(s) :
                  /\ \A i \in 1..n : s[i] \in DOMAIN DigitValue
                  /\ n < Len(s) => s[n + 1] \notin DOMAIN DigitValue
           f(k) == CHOOSE f : IsValue(s, k, f)
<1>2. n = Len(s)
  <2>1. \E k \in 0..Len(s) :
          /\ \A i \in 1..k : s[i] \in DOMAIN DigitValue
          /\ k < Len(s) => s[k + 1] \notin DOMAIN DigitValue
    <3>1. Len(s) \in 0..Len(s) /\ ~(Len(s) < Len(s))
      BY <1>1
    <3> QED
      BY <1>1, <3>1
  <2>2. n \in 0..Len(s) /\ (n < Len(s) => s[n + 1] \notin DOMAIN DigitValue)
    BY <2>1
  <2> HIDE DEF n
  <2>3. n < Len(s) => n + 1 \in 1..Len(s)
    BY <1>1, <2>2
  <2> QED
    BY <1>1, <2>2, <2>3
<1>3. atoi(s) = f(n)[n]
  BY DEF atoi, IsValue, ValueStep
<1> HIDE DEF n, f
<1>4. IsValue(s, Len(s), f(Len(s)))
  BY Zenon, <1>1, ValueExists DEF f
<1> QED
  BY <1>2, <1>3, <1>4

(* A digit behind a numeral multiplies it by ten. *)
LEMMA AtoiAppend ==
  ASSUME NEW s \in Numerals, NEW v \in 0..9
  PROVE  /\ Append(s, Digits[v + 1]) \in Numerals
         /\ atoi(Append(s, Digits[v + 1])) = 10 * atoi(s) + v
<1> DEFINE d == Digits[v + 1]
           t == Append(s, d)
           n == Len(s)
<1>0. d \in DigitChars /\ d \in Char /\ DigitValue[d] = v
  <2>1. d \in DigitChars /\ DigitValue[d] = v
    BY DigitFacts
  <2> HIDE DEF d
  <2> QED
    BY <2>1 DEF DigitChars, Char, Literals
<1> HIDE DEF d
<1>1. s \in Seq(Char) /\ n \in Nat /\ \A i \in 1..n : s[i] \in DigitChars
  BY DEF Numerals
<1>2. t \in Seq(Char) /\ Len(t) = n + 1 /\ t[n + 1] = d /\ \A i \in 1..n : t[i] = s[i]
  BY <1>0, <1>1, AppendProperties
<1> HIDE DEF t, n
<1>3. t \in Numerals
  <2>1. \A i \in 1..(n + 1) : i \in 1..n \/ i = n + 1
    BY <1>1
  <2> QED
    BY <1>0, <1>1, <1>2, <2>1 DEF Numerals
<1>4. PICK f : IsValue(s, n, f) /\ atoi(s) = f[n]
  BY AtoiIs DEF n
<1>5. PICK g : IsValue(t, n + 1, g) /\ atoi(t) = g[n + 1]
  BY <1>2, <1>3, AtoiIs
<1>6. f[n] = g[n]
  <2>1. n + 1 \in Nat /\ n <= n + 1 /\ n \in 0..n
    BY <1>1
  <2>2. \A i \in 0..n : f[i] = g[i]
    <3>1. n \in Nat /\ \A i \in 1..n : s[i] = t[i]
      BY ONLY <1>1, <1>2
    <3> QED
      BY ONLY <3>1, <1>4, <1>5, <2>1, ValueAgree
  <2> QED
    BY <2>1, <2>2
<1>7. g[n + 1] = 10 * g[n] + v
  <2>1. n + 1 \in 0..(n + 1) /\ n + 1 # 0 /\ (n + 1) - 1 = n
    BY <1>1
  <2>2. g[n + 1] = ValueStep(t, g, n + 1)
    BY <1>5, <2>1 DEF IsValue
  <2> QED
    BY <1>0, <1>2, <2>1, <2>2 DEF ValueStep
<1> QED
  BY <1>3, <1>4, <1>5, <1>6, <1>7 DEF t, d

(* The empty numeral is worth nothing. *)
LEMMA EmptyNumeral == <<>> \in Numerals /\ atoi(<<>>) = 0
<1>1. <<>> \in Numerals
  BY DEF Numerals
<1>2. PICK f : IsValue(<<>>, 0, f) /\ atoi(<<>>) = f[0]
  <2>1. Len(<<>>) = 0
    OBVIOUS
  <2> QED
    BY <1>1, <2>1, AtoiIs
<1>3. f[0] = 0
  <2>1. 0 \in 0..0
    OBVIOUS
  <2> QED
    BY <1>2, <2>1 DEF IsValue, ValueStep
<1> QED
  BY <1>1, <1>2, <1>3

(* What %d prints, atoi reads. *)
LEMMA AtoiOfDecimal ==
  ASSUME NEW n \in Nat
  PROVE  to_str(n) \in Numerals /\ atoi(to_str(n)) = n
<1> DEFINE Good(k) == to_str(k) \in Numerals /\ atoi(to_str(k)) = k
           S == {k \in Nat : ~Good(k)}
<1> SUFFICES ASSUME S # {} PROVE FALSE
  OBVIOUS
<1>0. S \subseteq Nat
  OBVIOUS
<1>1. PICK k \in S : \A j \in S : k <= j
  <2> HIDE DEF S
  <2> QED
    BY <1>0, Smallest
<1>2. k \in Nat /\ ~Good(k)
  OBVIOUS
<1>3. CASE k < 10
  <2>1. k \in 0..9
    BY <1>2, <1>3
  <2>2. to_str(k) = Append(<<>>, Digits[k + 1])
    BY <1>2, <1>3, DecimalIs
  <2>3. atoi(to_str(k)) = 10 * 0 + k /\ to_str(k) \in Numerals
    BY <2>1, <2>2, AtoiAppend, EmptyNumeral
  <2>4. 10 * 0 + k = k
    BY <1>2
  <2> QED
    BY <1>2, <2>3, <2>4
<1>4. CASE k >= 10
  <2> DEFINE q == k \div 10
             r == k % 10
  <2>1. q \in Nat /\ q < k /\ r \in 0..9 /\ k = 10 * q + r
    BY <1>2, <1>4, TenFacts
  <2>2. to_str(k) = Append(to_str(q), Digits[r + 1])
    <3>1. ~(k < 10)
      BY <1>2, <1>4
    <3> QED
      BY <1>2, <3>1, DecimalIs
  <2> HIDE DEF q, r
  <2>3. Good(q)
    <3>1. q \notin S
      <4> HIDE DEF S
      <4> QED
        BY <1>1, <1>2, <2>1
    <3> QED
      BY <2>1, <3>1
  <2> HIDE DEF S
  <2>4. to_str(k) \in Numerals /\ atoi(to_str(k)) = 10 * atoi(to_str(q)) + r
    BY <2>1, <2>2, <2>3, AtoiAppend
  <2>5. Good(k)
    BY <2>1, <2>3, <2>4
  <2> QED
    BY <1>2, <2>5
<1> QED
  BY <1>2, <1>3, <1>4

(* How long it is. *)
LEMMA DecimalLength ==
  ASSUME NEW n \in Nat
  PROVE  /\ Len(to_str(n)) \in Nat /\ Len(to_str(n)) >= 1
         /\ n < 10 => Len(to_str(n)) = 1
         /\ n >= 10 => Len(to_str(n)) = Len(to_str(n \div 10)) + 1
<1>1. \A k \in Nat : to_str(k) \in Seq(Char) /\ Len(to_str(k)) \in Nat
  BY AtoiOfDecimal DEF Numerals
<1>2. CASE n < 10
  <2>1. Len(to_str(n)) = 1
    BY <1>2, DecimalIs
  <2> QED
    BY <1>2, <2>1
<1>3. CASE n >= 10
  <2>1. n \div 10 \in Nat /\ n % 10 \in 0..9
    BY TenFacts
  <2>2. to_str(n) = Append(to_str(n \div 10), Digits[(n % 10) + 1])
    <3>1. ~(n < 10)
      BY <1>3
    <3> QED
      BY <3>1, DecimalIs
  <2>3. Len(to_str(n)) = Len(to_str(n \div 10)) + 1
    <3>1. to_str(n \div 10) \in Seq(Char)
      BY <1>1, <2>1
    <3> HIDE DEF to_str
    <3>2. Digits[(n % 10) + 1] \in Char
      <4>1. Digits[(n % 10) + 1] \in DigitChars
        BY <2>1, DigitFacts
      <4> QED
        BY <4>1 DEF DigitChars, Char, Literals
    <3> QED
      BY <2>2, <3>1, <3>2, AppendProperties
  <2>4. Len(to_str(n \div 10)) \in Nat
    BY <1>1, <2>1
  <2> QED
    BY <1>3, <2>3, <2>4
<1> QED
  BY <1>2, <1>3

(* A status code has three digits. *)
LEMMA StatusLength ==
  ASSUME NEW n \in 100..999
  PROVE  Len(to_str(n)) = 3
<1>1. PICK a \in Nat : a = n \div 10
  OBVIOUS
<1>2. PICK b \in Nat : b = a \div 10
  OBVIOUS
<1>3. n \in Nat /\ n >= 10 /\ a >= 10 /\ a < 100
  BY ONLY n \in 100..999, <1>1
<1>4. b < 10
  BY ONLY a \in Nat, <1>2, <1>3
<1>5. Len(to_str(n)) = Len(to_str(n \div 10)) + 1
  BY ONLY Zenon, <1>3, DecimalLength
<1>6. Len(to_str(a)) = Len(to_str(a \div 10)) + 1
  BY ONLY a \in Nat, <1>3, DecimalLength
<1>7. Len(to_str(b)) = 1
  BY ONLY b \in Nat, <1>4, DecimalLength
<1>8. Len(to_str(n)) = Len(to_str(a)) + 1 /\ Len(to_str(a)) = Len(to_str(b)) + 1
  BY ONLY Zenon, <1>1, <1>2, <1>5, <1>6
<1> QED
  BY ONLY <1>7, <1>8

(* More than five digits stand for a number above 99999. *)
LongPort(n) == Len(to_str(n)) > 5 <=> n > 99999

(* A port has more than five digits exactly from 100000 on. *)
LEMMA PortLength ==
  ASSUME NEW n \in Nat
  PROVE  LongPort(n)
<1> DEFINE L(k) == Len(to_str(k))
<1>1. \A k \in Nat : /\ k \div 10 \in Nat /\ L(k) \in Nat /\ L(k) >= 1
                     /\ k < 10 => L(k) = 1
                     /\ k >= 10 => L(k) = L(k \div 10) + 1
  BY DecimalLength, TenFacts
<1> HIDE DEF L
<1>2. \A k \in Nat : L(k) > 1 <=> k > 9
  <2> TAKE k \in Nat
  <2>1. k \div 10 \in Nat /\ L(k \div 10) >= 1 /\ L(k \div 10) \in Nat
    BY <1>1
  <2> QED
    BY <1>1, <2>1
<1>3. ASSUME NEW a \in Nat, NEW b \in Nat, NEW c, NEW d, c = a + 1, d = 10 * b + 9,
             \A k \in Nat : L(k) > a <=> k > b, b >= 9, a >= 1
      PROVE  \A k \in Nat : L(k) > c <=> k > d
  <2> TAKE k \in Nat
  <2> DEFINE q == k \div 10
  <2>1. q \in Nat /\ (q > b <=> k > d)
    BY <1>3
  <2>2. L(k) \in Nat /\ L(q) \in Nat /\ (k < 10 => L(k) = 1) /\ (k >= 10 => L(k) = L(q) + 1)
    BY <1>1, <2>1
  <2>3. L(q) > a <=> q > b
    BY <1>3, <2>1
  <2> HIDE DEF q
  <2>4. CASE k < 10
    BY <1>3, <2>2, <2>4
  <2>5. CASE k >= 10
    BY <1>3, <2>1, <2>2, <2>3, <2>5
  <2> QED
    BY <2>4, <2>5
<1>4. \A k \in Nat : L(k) > 2 <=> k > 99
  <2> DEFINE a == 1
             b == 9
             c == 2
             d == 99
  <2>1. a \in Nat /\ b \in Nat /\ c = a + 1 /\ d = 10 * b + 9 /\ b >= 9 /\ a >= 1
    OBVIOUS
  <2>2. \A k \in Nat : L(k) > a <=> k > b
    BY <1>2
  <2> HIDE DEF a, b, c, d
  <2>3. \A k \in Nat : L(k) > c <=> k > d
    BY ONLY <1>3, <2>1, <2>2
  <2> QED
    BY <2>3 DEF c, d
<1>5. \A k \in Nat : L(k) > 3 <=> k > 999
  <2> DEFINE a == 2
             b == 99
             c == 3
             d == 999
  <2>1. a \in Nat /\ b \in Nat /\ c = a + 1 /\ d = 10 * b + 9 /\ b >= 9 /\ a >= 1
    OBVIOUS
  <2>2. \A k \in Nat : L(k) > a <=> k > b
    BY <1>4
  <2> HIDE DEF a, b, c, d
  <2>3. \A k \in Nat : L(k) > c <=> k > d
    BY ONLY <1>3, <2>1, <2>2
  <2> QED
    BY <2>3 DEF c, d
<1>6. \A k \in Nat : L(k) > 4 <=> k > 9999
  <2> DEFINE a == 3
             b == 999
             c == 4
             d == 9999
  <2>1. a \in Nat /\ b \in Nat /\ c = a + 1 /\ d = 10 * b + 9 /\ b >= 9 /\ a >= 1
    OBVIOUS
  <2>2. \A k \in Nat : L(k) > a <=> k > b
    BY <1>5
  <2> HIDE DEF a, b, c, d
  <2>3. \A k \in Nat : L(k) > c <=> k > d
    BY ONLY <1>3, <2>1, <2>2
  <2> QED
    BY <2>3 DEF c, d
<1>7. \A k \in Nat : L(k) > 5 <=> k > 99999
  <2> DEFINE a == 4
             b == 9999
             c == 5
             d == 99999
  <2>1. a \in Nat /\ b \in Nat /\ c = a + 1 /\ d = 10 * b + 9 /\ b >= 9 /\ a >= 1
    OBVIOUS
  <2>2. \A k \in Nat : L(k) > a <=> k > b
    BY <1>6
  <2> HIDE DEF a, b, c, d
  <2>3. \A k \in Nat : L(k) > c <=> k > d
    BY ONLY <1>3, <2>1, <2>2
  <2> QED
    BY <2>3 DEF c, d
<1> QED
  BY <1>7 DEF L, LongPort

----------------------------------------------------------------------------
(* Copies *)

(* str_dup copies n characters. *)
LEMMA DupFacts ==
  ASSUME NEW S, NEW t \in Seq(S), NEW i \in Nat, NEW n \in Nat, i + n <= Len(t)
  PROVE  /\ str_dup(t, i, n) \in Seq(S) /\ Len(str_dup(t, i, n)) = n
         /\ \A j \in 1..n : str_dup(t, i, n)[j] = t[i + j]
<1>1. Len(t) \in Nat /\ \A j \in 1..Len(t) : t[j] \in S
  BY ElementOfSeq
<1>2. \A j \in (i + 1)..(i + n) : j \in 1..Len(t)
  BY <1>1
<1>3. \A j \in (i + 1)..(i + n) : t[j] \in S
  BY <1>1, <1>2
<1>4. i + 1 \in Int /\ i + n \in Int
  OBVIOUS
<1>5. /\ SubSeq(t, i + 1, i + n) \in Seq(S)
      /\ Len(SubSeq(t, i + 1, i + n)) = IF i + 1 <= i + n THEN (i + n) - (i + 1) + 1 ELSE 0
      /\ \A j \in 1..((i + n) - (i + 1) + 1) : SubSeq(t, i + 1, i + n)[j] = t[(i + 1) + j - 1]
  BY ONLY <1>3, <1>4, SubSeqProperties
<1>6. (i + n) - (i + 1) + 1 = n /\ (i + 1 <= i + n <=> n # 0)
  OBVIOUS
<1>7. \A j \in 1..n : (i + 1) + j - 1 = i + j
  OBVIOUS
<1> QED
  BY <1>5, <1>6, <1>7 DEF str_dup

(* A copy of a text that stands at an offset is that text. *)
LEMMA DupIs ==
  ASSUME NEW S, NEW t \in Seq(S), NEW i \in Nat, NEW n \in Nat, i + n <= Len(t),
         NEW s \in Seq(S), Len(s) = n, \A j \in 1..n : t[i + j] = s[j]
  PROVE  str_dup(t, i, n) = s
<1>1. /\ str_dup(t, i, n) \in Seq(S) /\ Len(str_dup(t, i, n)) = n
      /\ \A j \in 1..n : str_dup(t, i, n)[j] = s[j]
  <2>1. /\ str_dup(t, i, n) \in Seq(S) /\ Len(str_dup(t, i, n)) = n
        /\ \A j \in 1..n : str_dup(t, i, n)[j] = t[i + j]
    BY DupFacts
  <2> HIDE DEF str_dup
  <2> QED
    BY <2>1
<1> HIDE DEF str_dup
<1> QED
  BY <1>1, SeqEqual

(* The first n characters of a text. *)
LEMMA CutFacts ==
  ASSUME NEW S, NEW s \in Seq(S), NEW n \in 0..Len(s)
  PROVE  /\ SubSeq(s, 1, n) \in Seq(S) /\ Len(SubSeq(s, 1, n)) = n
         /\ \A j \in 1..n : SubSeq(s, 1, n)[j] = s[j]
<1>1. 0 \in Nat /\ n \in Nat /\ 0 + n = n /\ 0 + 1 = 1 /\ n <= Len(s) /\ Len(s) \in Nat
      /\ \A j \in 1..n : 0 + j = j
  OBVIOUS
<1>2. /\ str_dup(s, 0, n) \in Seq(S) /\ Len(str_dup(s, 0, n)) = n
      /\ \A j \in 1..n : str_dup(s, 0, n)[j] = s[0 + j]
  <2>1. 0 + n <= Len(s)
    BY <1>1
  <2> QED
    BY <1>1, <2>1, DupFacts
<1>3. str_dup(s, 0, n) = SubSeq(s, 1, n)
  BY <1>1 DEF str_dup
<1> QED
  BY <1>1, <1>2, <1>3

----------------------------------------------------------------------------
(* One header line in a text that may be cut off *)

(* What a parser reads at offset b of a text, where the value v begins: all  *)
(* of it, or as much as arrived.                                             *)
ValueRead(t, b, v) ==
  /\ b + Len(v) <= Len(t) => strcspn(t, b, {CR}) = Len(v) /\ str_dup(t, b, Len(v)) = v
  /\ b + Len(v) > Len(t) =>
       strcspn(t, b, {CR}) = Len(t) - b /\ str_dup(t, b, Len(t) - b) = SubSeq(v, 1, Len(t) - b)

OneLeft(t, i) == strcspn(t, i, {LF}) = 1

(* A line whose name arrived: its name is read, its value as far as it       *)
(* arrived.                                                                  *)
LEMMA LineArrived ==
  ASSUME NEW w, NEW n, NEW ls, NEW tail, Layout(w, n, ls, tail), NEW k \in 1..Len(ls),
         NEW t \in Seq(Char), Begins(t, w),
         EndsAt(n, ls, k - 1) + Len(ls[k].key) + 2 <= Len(t)
  PROVE  LET p == EndsAt(n, ls, k - 1)
             K == Len(ls[k].key)
             at == p + K + 2
         IN /\ strcspn(t, p, {":"}) = K /\ str_dup(t, p, K) = ls[k].key
            /\ ~OneLeft(t, p)
            /\ ValueRead(t, at, ls[k].value)
<1> DEFINE p == EndsAt(n, ls, k - 1)
           K == Len(ls[k].key)
           at == p + K + 2
           V == Len(ls[k].value)
           key == ls[k].key
           value == ls[k].value
           T == Len(t)
<1>1. /\ p \in Nat /\ K \in Nat /\ V \in Nat
      /\ key \in Seq(Char) /\ value \in Seq(Char)
      /\ \A j \in 1..K : w[p + j] = key[j]
      /\ \A j \in 1..V : w[p + K + 2 + j] = value[j]
      /\ \A j \in 1..(K + 2) : w[p + j] # LF
      /\ Spans(w, p, {":"}, K) /\ Spans(w, p + K + 2, {CR}, V)
  <2>1. /\ p \in Nat /\ K \in Nat /\ V \in Nat
        /\ key \in Seq(Char) /\ value \in Seq(Char)
    BY LayoutLine
  <2>2. \A j \in 1..K : w[p + j] = key[j]
    BY LayoutLine
  <2>3. \A j \in 1..V : w[p + K + 2 + j] = value[j]
    BY LayoutLine
  <2>4. \A j \in 1..(K + 2) : w[p + j] # LF
    BY LayoutLine
  <2>5. Spans(w, p, {":"}, K) /\ Spans(w, p + K + 2, {CR}, V)
    BY LayoutLine
  <2> QED
    BY <2>1, <2>2, <2>3, <2>4, <2>5
<1>2. T \in Nat /\ \A j \in 1..T : t[j] = w[j]
  BY DEF Begins
<1>3. p + K + 2 <= T /\ K = Len(key) /\ V = Len(value)
  OBVIOUS
<1> HIDE DEF p, K, V, key, value, T
<1>4. p \in Nat /\ K \in Nat /\ V \in Nat
  BY <1>1
<1>5. T \in Nat
  BY <1>2
<1>6. at \in Nat /\ at <= T /\ p <= T /\ p + K <= T /\ at = p + K + 2
  BY <1>3, <1>4, <1>5
<1>7. strcspn(t, p, {":"}) = K
  BY <1>1, <1>6, SpanCut DEF T
<1>8. str_dup(t, p, K) = key
  <2>1. \A j \in 1..K : p + j \in 1..T
    BY <1>4, <1>5, <1>6
  <2>2. \A j \in 1..K : t[p + j] = key[j]
    BY <1>1, <1>2, <2>1
  <2>3. p + K <= Len(t) /\ key \in Seq(Char) /\ Len(key) = K
    BY <1>1, <1>3, <1>6 DEF T
  <2> QED
    BY <1>4, <2>2, <2>3, DupIs
<1>9. strcspn(t, p, {LF}) # 1
  <2> SUFFICES ASSUME strcspn(t, p, {LF}) = 1 PROVE FALSE
    OBVIOUS
  <2>1. Spans(t, p, {LF}, 1)
    BY <1>4, <1>5, <1>6, SpanExists DEF T
  <2>2. p + 1 < T /\ p + 2 \in 1..T /\ 2 \in 1..(K + 2) /\ p + 1 + 1 = p + 2
    BY <1>3, <1>4, <1>5
  <2>3. t[p + 2] = LF
    BY <2>1, <2>2 DEF Spans, T
  <2>4. t[p + 2] = w[p + 2] /\ w[p + 2] # LF
    BY <1>1, <1>2, <2>2
  <2> QED
    BY <2>3, <2>4
<1> HIDE DEF at
<1>10. Spans(w, at, {CR}, V) /\ \A j \in 1..V : w[at + j] = value[j]
  BY <1>1, <1>6
<1>11. ASSUME at + V <= T PROVE strcspn(t, at, {CR}) = V /\ str_dup(t, at, V) = value
  <2>1. strcspn(t, at, {CR}) = V
    BY <1>6, <1>10, <1>11, SpanCut DEF T
  <2>2. \A j \in 1..V : at + j \in 1..T
    BY <1>4, <1>5, <1>6, <1>11
  <2>3. \A j \in 1..V : t[at + j] = value[j]
    BY <1>2, <1>10, <2>2
  <2>4. at + V <= Len(t) /\ value \in Seq(Char) /\ Len(value) = V
    BY <1>1, <1>3, <1>11 DEF T
  <2>6. t \in Seq(Char) /\ at \in Nat /\ V \in Nat
    BY <1>4, <1>6
  <2>5. str_dup(t, at, V) = value
    BY ONLY <2>3, <2>4, <2>6, DupIs
  <2> QED
    BY <2>1, <2>5
<1>12. ASSUME at + V > T
       PROVE  strcspn(t, at, {CR}) = T - at /\ str_dup(t, at, T - at) = SubSeq(value, 1, T - at)
  <2>1. strcspn(t, at, {CR}) = T - at
    BY <1>6, <1>10, <1>12, SpanCut DEF T
  <2> DEFINE r == T - at
             s == SubSeq(value, 1, r)
  <2>2. r \in 0..V /\ r \in Nat /\ at + r = T /\ \A j \in 1..r : at + j \in 1..T /\ j \in 1..V
    BY <1>4, <1>5, <1>6, <1>12
  <2> HIDE DEF r
  <2>3. s \in Seq(Char) /\ Len(s) = r /\ \A j \in 1..r : s[j] = value[j]
    BY <1>1, <1>3, <2>2, CutFacts
  <2>4. \A j \in 1..r : t[at + j] = s[j]
    BY <1>2, <1>10, <2>2, <2>3
  <2>5. at + r <= Len(t)
    BY <2>2, <1>5 DEF T
  <2> HIDE DEF s
  <2>6. str_dup(t, at, r) = s
    <3>1. t \in Seq(Char) /\ at \in Nat
      BY <1>6
    <3>2. r \in Nat /\ s \in Seq(Char) /\ Len(s) = r
      BY ONLY <2>2, <2>3
    <3> QED
      BY ONLY <3>1, <3>2, <2>4, <2>5, DupIs
  <2> QED
    BY <2>1, <2>6 DEF r, s
<1>13. ValueRead(t, at, value)
  BY ONLY <1>3, <1>11, <1>12 DEF ValueRead, T
<1>14. ~OneLeft(t, p)
  BY <1>9 DEF OneLeft
<1> QED
  BY ONLY <1>7, <1>8, <1>14, <1>13 DEF at, p, K, V, key, value, T

(* The text stops in the line's name: no span in it ends before the text. *)
LEMMA LineCut ==
  ASSUME NEW w, NEW n, NEW ls, NEW tail, Layout(w, n, ls, tail), NEW k \in 1..Len(ls),
         NEW t, Begins(t, w), EndsAt(n, ls, k - 1) <= Len(t),
         EndsAt(n, ls, k - 1) + Len(ls[k].key) + 2 > Len(t)
  PROVE  LET p == EndsAt(n, ls, k - 1)
         IN /\ p + strcspn(t, p, {":"}) + 2 > Len(t)
            /\ strcspn(t, p, {LF}) = Len(t) - p
<1> DEFINE p == EndsAt(n, ls, k - 1)
           K == Len(ls[k].key)
           T == Len(t)
<1>1. /\ p \in Nat /\ K \in Nat
      /\ \A j \in 1..(K + 2) : w[p + j] # LF
      /\ Spans(w, p, {":"}, K)
  BY LayoutLine
<1>2. T \in Nat /\ \A j \in 1..T : t[j] = w[j]
  BY DEF Begins
<1>3. p <= T /\ p + K + 2 > T
  OBVIOUS
<1>4. p + K <= Len(t) => strcspn(t, p, {":"}) = K
  BY <1>1, SpanCut
<1>5. p + K > Len(t) => strcspn(t, p, {":"}) = Len(t) - p
  BY <1>1, SpanCut
<1> HIDE DEF p, K
<1>6. p \in Nat /\ K \in Nat
  BY <1>1
<1>7. T \in Nat
  BY <1>2
<1>8. p + strcspn(t, p, {":"}) + 2 > T
  <2> HIDE DEF T
  <2>1. CASE p + K <= T
    <3>1. strcspn(t, p, {":"}) = K
      BY <1>4, <2>1 DEF T
    <3> QED
      BY <1>3, <1>6, <1>7, <3>1
  <2>2. CASE p + K > T
    <3>1. strcspn(t, p, {":"}) = T - p
      BY <1>5, <2>2 DEF T
    <3> QED
      BY <1>3, <1>6, <1>7, <3>1
  <2> QED
    BY <1>6, <1>7, <2>1, <2>2
<1>9. Spans(t, p, {LF}, T - p)
  <2> HIDE DEF T
  <2>1. T - p \in 0..(T - p) /\ p + (T - p) = T
    BY <1>3, <1>6, <1>7
  <2>2. \A j \in (p + 1)..T : j \in 1..T /\ j - p \in 1..(K + 2) /\ p + (j - p) = j
    BY <1>3, <1>6, <1>7
  <2>3. \A j \in (p + 1)..T : t[j] \notin {LF}
    BY <1>1, <1>2, <2>2
  <2> USE DEF T
  <2> QED
    BY <2>1, <2>3 DEF Spans
<1>10. strcspn(t, p, {LF}) = T - p
  BY <1>3, <1>6, <1>7, <1>9, SpanIs
<1> QED
  BY <1>8, <1>10 DEF p

(* The empty line behind the headers. *)
LEMMA EndCut ==
  ASSUME NEW w, NEW n, NEW ls, NEW tail, Layout(w, n, ls, tail),
         NEW t, Begins(t, w), EndsAt(n, ls, Len(ls)) < Len(t)
  PROVE  strcspn(t, EndsAt(n, ls, Len(ls)), {LF}) = 1
<1> DEFINE p == EndsAt(n, ls, Len(ls))
<1>1. p \in Nat /\ Spans(w, p, {LF}, 1)
  BY LayoutEnd
<1>2. Len(t) \in Nat /\ p < Len(t)
  BY DEF Begins
<1> HIDE DEF p
<1>3. p <= Len(t) /\ p + 1 <= Len(t)
  BY <1>1, <1>2
<1>4. strcspn(t, p, {LF}) = 1
  BY <1>1, <1>3, SpanCut
<1> QED
  BY <1>4 DEF p

----------------------------------------------------------------------------
(* Start lines: both kinds are a character, a word and a character. *)

Three(x, d, y) == <<x>> \o Space \o d \o Space \o <<y>>

IsThree(s, x, d, y) ==
  /\ Len(d) \in Nat /\ s \in Seq(Char) /\ Len(s) = Len(d) + 4
  /\ s[1] = x /\ s[2] = " " /\ s[Len(d) + 3] = " " /\ s[Len(d) + 4] = y
  /\ \A j \in 1..Len(d) : s[2 + j] = d[j]

(* Where the words of a first line are. *)
LEMMA ThreeParts ==
  ASSUME NEW x \in Char, NEW d \in Seq(Char), NEW y \in Char
  PROVE  IsThree(Three(x, d, y), x, d, y)
<1> DEFINE L == Len(d)
           a == <<x>> \o Space
           b == a \o d
           c == b \o Space
           s == c \o <<y>>
<1>0. L \in Nat
  OBVIOUS
<1>10. " " \in Char
  BY DEF Char, Literals
<1>1. /\ \A z \in Char : <<z>> \in Seq(Char) /\ Len(<<z>>) = 1 /\ <<z>>[1] = z
      /\ Space \in Seq(Char) /\ Len(Space) = 1 /\ Space[1] = " "
  <2>1. \A z \in Char : <<z>> \in Seq(Char) /\ Len(<<z>>) = 1 /\ <<z>>[1] = z
    OBVIOUS
  <2> QED
    BY <1>10, <2>1 DEF Space
<1>2. a \in Seq(Char) /\ Len(a) = 2 /\ a[1] = x /\ a[2] = " "
  <2> DEFINE u == <<x>>
  <2>1. u \in Seq(Char) /\ Space \in Seq(Char) /\ Len(u) = 1 /\ u[1] = x
    BY <1>1
  <2>4. u \in Seq(Char) /\ Space \in Seq(Char)
    BY <2>1
  <2> HIDE DEF u
  <2>2. /\ u \o Space \in Seq(Char) /\ Len(u \o Space) = Len(u) + Len(Space)
        /\ \A i \in 1..Len(u) : (u \o Space)[i] = u[i]
        /\ \A i \in 1..Len(Space) : (u \o Space)[Len(u) + i] = Space[i]
    BY ONLY <2>4, Joins
  <2>3. 1 \in 1..1 /\ 1 + 1 = 2
    OBVIOUS
  <2> QED
    BY <1>1, <2>1, <2>2, <2>3 DEF u
<1> HIDE DEF a
<1>3. /\ b \in Seq(Char) /\ Len(b) = 2 + L /\ \A i \in 1..2 : b[i] = a[i]
      /\ \A i \in 1..L : b[2 + i] = d[i]
  <2>1. a \in Seq(Char) /\ d \in Seq(Char)
    BY <1>2
  <2>2. /\ a \o d \in Seq(Char) /\ Len(a \o d) = Len(a) + Len(d)
        /\ \A i \in 1..Len(a) : (a \o d)[i] = a[i]
        /\ \A i \in 1..Len(d) : (a \o d)[Len(a) + i] = d[i]
    BY ONLY <2>1, Joins
  <2> QED
    BY <1>2, <2>2
<1> HIDE DEF b, L
<1>4. /\ c \in Seq(Char) /\ Len(c) = L + 3 /\ \A i \in 1..(2 + L) : c[i] = b[i]
      /\ c[L + 3] = " "
  <2>1. b \in Seq(Char) /\ Space \in Seq(Char)
    BY <1>1, <1>3
  <2>2. /\ b \o Space \in Seq(Char) /\ Len(b \o Space) = Len(b) + Len(Space)
        /\ \A i \in 1..Len(b) : (b \o Space)[i] = b[i]
        /\ \A i \in 1..Len(Space) : (b \o Space)[Len(b) + i] = Space[i]
    BY ONLY <2>1, Joins
  <2>4. Len(b) = 2 + L
    BY <1>3
  <2>3. 1 \in 1..1 /\ (2 + L) + 1 = L + 3 /\ Len(b) = 2 + L
    BY ONLY <1>0, <2>4
  <2> HIDE DEF b
  <2>5. c = b \o Space
    BY DEF c
  <2>6. c \in Seq(Char) /\ Len(c) = L + 3
    BY ONLY <1>0, <1>1, <2>2, <2>3, <2>5
  <2>7. \A i \in 1..(2 + L) : c[i] = b[i]
    BY ONLY <2>2, <2>3, <2>5
  <2>8. 1 \in 1..Len(Space)
    BY ONLY <1>1, <2>3
  <2>9. c[Len(b) + 1] = " "
    BY ONLY <1>1, <2>2, <2>5, <2>8
  <2> QED
    BY <2>3, <2>6, <2>7, <2>9
<1> HIDE DEF c
<1>5. /\ s \in Seq(Char) /\ Len(s) = L + 4 /\ \A i \in 1..(L + 3) : s[i] = c[i]
      /\ s[L + 4] = y
  <2> DEFINE u == <<y>>
  <2>1. c \in Seq(Char) /\ u \in Seq(Char) /\ Len(u) = 1 /\ u[1] = y
    BY <1>1, <1>4
  <2>4. c \in Seq(Char) /\ u \in Seq(Char)
    BY <2>1
  <2> HIDE DEF u
  <2>2. /\ c \o u \in Seq(Char) /\ Len(c \o u) = Len(c) + Len(u)
        /\ \A i \in 1..Len(c) : (c \o u)[i] = c[i]
        /\ \A i \in 1..Len(u) : (c \o u)[Len(c) + i] = u[i]
    BY ONLY <2>4, Joins
  <2>5. Len(c) = L + 3
    BY <1>4
  <2>3. 1 \in 1..1 /\ (L + 3) + 1 = L + 4 /\ Len(c) = L + 3
    BY ONLY <1>0, <2>5
  <2> QED
    BY <2>1, <2>2, <2>3 DEF u
<1>6. s = Three(x, d, y)
  BY DEF Three, c, b, a
<1> HIDE DEF s
<1>7. \A i \in 1..(2 + L) : i \in 1..(L + 3) /\ s[i] = b[i]
  <2>1. \A i \in 1..(2 + L) : i \in 1..(L + 3)
    BY ONLY <1>0
  <2> QED
    BY <1>4, <1>5, <2>1
<1>8. s[1] = x /\ s[2] = " " /\ s[L + 3] = " "
  <2>1. 1 \in 1..(2 + L) /\ 2 \in 1..(2 + L) /\ 1 \in 1..2 /\ 2 \in 1..2 /\ L + 3 \in 1..(L + 3)
    BY ONLY <1>0
  <2>2. s[1] = x
    <3>1. s[1] = b[1]
      BY ONLY <1>7, <2>1
    <3>2. b[1] = a[1]
      BY ONLY <1>3, <2>1
    <3> QED
      BY <1>2, <3>1, <3>2
  <2>3. s[2] = " "
    BY ONLY <1>2, <1>3, <1>7, <2>1
  <2>4. s[L + 3] = " "
    BY ONLY <1>4, <1>5, <2>1
  <2> QED
    BY ONLY <2>2, <2>3, <2>4
<1>9. \A j \in 1..L : s[2 + j] = d[j]
  <2>1. \A j \in 1..L : 2 + j \in 1..(2 + L)
    BY ONLY <1>0
  <2> QED
    BY <1>3, <1>7, <2>1
<1> QED
  BY <1>0, <1>5, <1>6, <1>8, <1>9 DEF L, IsThree

(* The words that the start line's parser finds in a whole message. *)
LEMMA ThreeSpans ==
  ASSUME NEW x \in Char, NEW d \in Seq(Char), NEW y \in Char,
         x \notin {" ", LF}, \A j \in 1..Len(d) : d[j] \notin {" ", LF}, y \notin {CR, LF},
         NEW w, Begins(Three(x, d, y), w), Len(w) >= Len(d) + 6,
         w[Len(d) + 5] = CR, w[Len(d) + 6] = LF
  PROVE  /\ Spans(w, 0, {" "}, 1) /\ Spans(w, 2, {" "}, Len(d))
         /\ Spans(w, Len(d) + 3, {CR}, 1) /\ Spans(w, 0, {LF}, Len(d) + 5)
         /\ w[1] = x /\ w[2] = " " /\ \A j \in 1..Len(d) : w[2 + j] = d[j]
         /\ w[Len(d) + 3] = " " /\ w[Len(d) + 4] = y
         /\ Len(w) \in Nat /\ Len(d) \in Nat
<1> DEFINE s == Three(x, d, y)
           L == Len(d)
<1>1. /\ L \in Nat /\ Len(s) = L + 4
      /\ s[1] = x /\ s[2] = " " /\ s[L + 3] = " " /\ s[L + 4] = y
      /\ \A j \in 1..L : s[2 + j] = d[j]
  <2>1. IsThree(Three(x, d, y), x, d, y)
    BY ThreeParts
  <2> QED
    BY ONLY <2>1 DEF IsThree
<1>2. Len(w) \in Nat /\ \A j \in 1..Len(s) : w[j] = s[j]
  BY DEF Begins
<1>3. /\ \A j \in 1..L : d[j] \notin {" ", LF}
      /\ Len(w) >= L + 6 /\ w[L + 5] = CR /\ w[L + 6] = LF
  OBVIOUS
<1>12. x # " " /\ x # LF /\ y # CR /\ y # LF
  OBVIOUS
<1>13. \A j \in 1..L : d[j] # " " /\ d[j] # LF
  OBVIOUS
<1> HIDE DEF s, L
<1>4. L \in Nat
  BY ONLY <1>1
<1>5. \A j \in 1..(L + 4) : w[j] = s[j]
  BY <1>1, <1>2
<1>6. w[1] = x /\ w[2] = " " /\ w[L + 3] = " " /\ w[L + 4] = y /\ \A j \in 1..L : w[2 + j] = d[j]
  <2>1. /\ 1 \in 1..(L + 4) /\ 2 \in 1..(L + 4) /\ L + 3 \in 1..(L + 4) /\ L + 4 \in 1..(L + 4)
        /\ \A j \in 1..L : 2 + j \in 1..(L + 4)
    BY ONLY <1>4
  <2> QED
    BY ONLY <1>1, <1>5, <2>1
<1>7. Len(w) \in Nat /\ Len(w) >= L + 6
  BY ONLY <1>2, <1>3
<1>8. Spans(w, 0, {" "}, 1)
  <2>1. 1 \in 0..(Len(w) - 0) /\ 0 + 1 + 1 = 2 /\ \A j \in (0 + 1)..(0 + 1) : j = 1
    BY ONLY <1>4, <1>7
  <2> QED
    BY ONLY <1>6, <1>12, <2>1 DEF Spans
<1>9. Spans(w, 2, {" "}, L)
  <2>1. L \in 0..(Len(w) - 2) /\ 2 + L + 1 = L + 3
    BY ONLY <1>4, <1>7
  <2>2. \A j \in (2 + 1)..(2 + L) : j - 2 \in 1..L /\ 2 + (j - 2) = j
    BY ONLY <1>4
  <2>4. \A j \in 1..L : w[2 + j] \notin {" "}
    BY ONLY <1>6, <1>13
  <2>3. \A j \in (2 + 1)..(2 + L) : w[j] \notin {" "}
    BY ONLY <2>2, <2>4
  <2> QED
    BY <1>6, <2>1, <2>3 DEF Spans
<1>10. Spans(w, L + 3, {CR}, 1)
  <2>1. 1 \in 0..(Len(w) - (L + 3)) /\ (L + 3) + 1 + 1 = L + 5
    BY ONLY <1>4, <1>7
  <2>2. \A j \in ((L + 3) + 1)..((L + 3) + 1) : j = L + 4
    BY ONLY <1>4
  <2> QED
    BY <1>3, <1>6, <2>1, <2>2 DEF Spans
<1>11. Spans(w, 0, {LF}, L + 5)
  <2>1. L + 5 \in 0..(Len(w) - 0) /\ 0 + (L + 5) + 1 = L + 6
    BY ONLY <1>4, <1>7
  <2>2. \A j \in (0 + 1)..(0 + (L + 5)) :
           \/ j = 1 \/ j = 2 \/ j = L + 3 \/ j = L + 4 \/ j = L + 5
           \/ j - 2 \in 1..L /\ 2 + (j - 2) = j
    BY ONLY <1>4
  <2>3. " " # LF /\ CR # LF
    BY DEF CR, LF
  <2>4. \A j \in 1..L : w[2 + j] # LF
    BY ONLY <1>6, <1>13
  <2>5. w[1] # LF /\ w[2] # LF /\ w[L + 3] # LF /\ w[L + 4] # LF /\ w[L + 5] # LF
    BY <1>3, <1>6, <2>3
  <2>6. \A j \in (0 + 1)..(0 + (L + 5)) : w[j] \notin {LF}
    BY <2>2, <2>4, <2>5
  <2> QED
    BY <1>3, <2>1, <2>6 DEF Spans
<1> QED
  BY <1>4, <1>6, <1>7, <1>8, <1>9, <1>10, <1>11 DEF L

(* A character is a text. *)
LEMMA CharText ==
  ASSUME NEW z \in Char
  PROVE  <<z>> \in Seq(Char) /\ Len(<<z>>) = 1 /\ <<z>>[1] = z
OBVIOUS

(* A span ends with the text when that was cut off in it. *)
LEMMA SpanIn ==
  ASSUME NEW s, NEW t, Begins(t, s), NEW i \in Nat, NEW T, T = Len(t), i <= T, NEW C, NEW n,
         Spans(s, i, C, n)
  PROVE  strcspn(t, i, C) = IF i + n <= T THEN n ELSE T - i
<1>1. /\ i + n <= Len(t) => strcspn(t, i, C) = n
      /\ i + n > Len(t) => strcspn(t, i, C) = Len(t) - i
  BY SpanCut
<1>2. T \in Nat /\ n \in Nat
  BY DEF Begins, Spans
<1>3. i + n <= T \/ i + n > T
  BY ONLY <1>2, i \in Nat
<1> QED
  BY ONLY <1>1, <1>3, T = Len(t)

(* The same words in as much of the message as arrived. *)
CutWords(t, x, d, y) ==
  /\ Len(t) \in Nat /\ Len(d) \in Nat
  /\ strcspn(t, 0, {LF}) = IF Len(t) >= Len(d) + 5 THEN Len(d) + 5 ELSE Len(t)
  /\ strcspn(t, 0, {" "}) = IF Len(t) >= 1 THEN 1 ELSE 0
  /\ Len(t) >= 2 => strcspn(t, 2, {" "}) = IF Len(t) >= Len(d) + 2 THEN Len(d) ELSE Len(t) - 2
  /\ Len(t) >= Len(d) + 3 => strcspn(t, Len(d) + 3, {CR}) = IF Len(t) >= Len(d) + 4 THEN 1 ELSE 0
  /\ Len(t) >= 1 => str_dup(t, 0, 1) = <<x>> /\ t[1] = x
  /\ Len(t) >= 2 => t[2] = " "
  /\ \A j \in 1..Len(d) : Len(t) >= 2 + j => t[2 + j] = d[j]
  /\ Len(t) >= Len(d) + 2 => str_dup(t, 2, Len(d)) = d
  /\ Len(t) >= Len(d) + 3 => t[Len(d) + 3] = " "
  /\ Len(t) >= Len(d) + 4 => str_dup(t, Len(d) + 3, 1) = <<y>>

(* What arrived of a first line. *)
LEMMA CutWordsIs ==
  ASSUME NEW x \in Char, NEW d \in Seq(Char), NEW y \in Char, NEW w, NEW t \in Seq(Char), Begins(t, w),
         /\ Spans(w, 0, {" "}, 1) /\ Spans(w, 2, {" "}, Len(d))
         /\ Spans(w, Len(d) + 3, {CR}, 1) /\ Spans(w, 0, {LF}, Len(d) + 5)
         /\ w[1] = x /\ w[2] = " " /\ \A j \in 1..Len(d) : w[2 + j] = d[j]
         /\ w[Len(d) + 3] = " " /\ w[Len(d) + 4] = y
         /\ Len(w) \in Nat /\ Len(d) \in Nat
  PROVE  CutWords(t, x, d, y)
<1> DEFINE T == Len(t)
           L == Len(d)
<1>1. T \in Nat /\ L \in Nat /\ \A j \in 1..T : t[j] = w[j]
  BY DEF Begins
<1>2. Spans(w, 0, {" "}, 1) /\ Spans(w, 2, {" "}, L) /\ Spans(w, L + 3, {CR}, 1) /\ Spans(w, 0, {LF}, L + 5)
  OBVIOUS
<1>3. w[1] = x /\ w[2] = " " /\ w[L + 3] = " " /\ w[L + 4] = y
  OBVIOUS
<1>4. \A j \in 1..L : w[2 + j] = d[j]
  OBVIOUS
<1>5. Begins(t, w) /\ t \in Seq(Char) /\ d \in Seq(Char) /\ L = Len(d) /\ T = Len(t)
  OBVIOUS
<1>20. x \in Char /\ y \in Char
  OBVIOUS
<1>6. <<x>> \in Seq(Char) /\ Len(<<x>>) = 1 /\ <<x>>[1] = x
  BY ONLY <1>20, CharText
<1>7. <<y>> \in Seq(Char) /\ Len(<<y>>) = 1 /\ <<y>>[1] = y
  BY ONLY <1>20, CharText
<1> HIDE DEF T, L
<1>8. T \in Nat /\ L \in Nat
  BY ONLY <1>1
<1>9. \A j \in 1..T : t[j] = w[j]
  BY ONLY <1>1
<1>21. /\ Begins(t, w) /\ T = Len(t) /\ 0 \in Nat /\ 0 <= T /\ 2 \in Nat
       /\ (T >= 2 => 2 <= T) /\ L + 3 \in Nat /\ (T >= L + 3 => L + 3 <= T)
  <2>1. 0 \in Nat /\ 0 <= T /\ 2 \in Nat /\ (T >= 2 => 2 <= T) /\ L + 3 \in Nat
        /\ (T >= L + 3 => L + 3 <= T)
    BY ONLY <1>8
  <2> QED
    BY ONLY <1>5, <2>1
<1>10. strcspn(t, 0, {LF}) = IF T >= L + 5 THEN L + 5 ELSE T
  <2>1. (0 + (L + 5) <= T <=> T >= L + 5) /\ T - 0 = T
    BY ONLY <1>8
  <2>3. Begins(t, w) /\ T = Len(t) /\ 0 \in Nat /\ 0 <= T /\ Spans(w, 0, {LF}, L + 5)
    BY ONLY <1>2, <1>21
  <2>2. strcspn(t, 0, {LF}) = IF 0 + (L + 5) <= T THEN L + 5 ELSE T - 0
    BY ONLY <2>3, SpanIn
  <2> QED
    BY ONLY <2>1, <2>2
<1>11. strcspn(t, 0, {" "}) = IF T >= 1 THEN 1 ELSE 0
  <2>1. (0 + 1 <= T <=> T >= 1) /\ (~(T >= 1) => T - 0 = 0)
    BY ONLY <1>8
  <2> DEFINE C == {" "}
  <2>3. Begins(t, w) /\ T = Len(t) /\ 0 \in Nat /\ 0 <= T /\ Spans(w, 0, C, 1)
    BY ONLY <1>2, <1>21 DEF C
  <2> HIDE DEF C
  <2>2. strcspn(t, 0, C) = IF 0 + 1 <= T THEN 1 ELSE T - 0
    BY ONLY <2>3, SpanIn
  <2> QED
    BY ONLY <2>1, <2>2 DEF C
<1>12. ASSUME T >= 2 PROVE strcspn(t, 2, {" "}) = IF T >= L + 2 THEN L ELSE T - 2
  <2>1. 2 + L <= T <=> T >= L + 2
    BY ONLY <1>8
  <2> DEFINE C == {" "}
  <2>3. Begins(t, w) /\ T = Len(t) /\ 2 \in Nat /\ 2 <= T /\ Spans(w, 2, C, L)
    BY ONLY <1>2, <1>12, <1>21 DEF C
  <2> HIDE DEF C
  <2>2. strcspn(t, 2, C) = IF 2 + L <= T THEN L ELSE T - 2
    BY ONLY <2>3, SpanIn
  <2> QED
    BY ONLY <2>1, <2>2 DEF C
<1>13. ASSUME T >= L + 3 PROVE strcspn(t, L + 3, {CR}) = IF T >= L + 4 THEN 1 ELSE 0
  <2>1. ((L + 3) + 1 <= T <=> T >= L + 4) /\ (~(T >= L + 4) => T - (L + 3) = 0)
    BY ONLY <1>8, <1>13
  <2>3. Begins(t, w) /\ T = Len(t) /\ L + 3 \in Nat /\ L + 3 <= T /\ Spans(w, L + 3, {CR}, 1)
    BY ONLY <1>2, <1>13, <1>21
  <2>2. strcspn(t, L + 3, {CR}) = IF (L + 3) + 1 <= T THEN 1 ELSE T - (L + 3)
    BY ONLY <2>3, SpanIn
  <2> QED
    BY ONLY <2>1, <2>2
<1>14. ASSUME T >= 1 PROVE str_dup(t, 0, 1) = <<x>> /\ t[1] = x
  <2>1. 0 \in Nat /\ 1 \in Nat /\ 0 + 1 <= T /\ 1 \in 1..T /\ \A j \in 1..1 : 0 + j = 1 /\ j = 1
    BY ONLY <1>8, <1>14
  <2>2. t[1] = x
    BY ONLY <1>3, <1>9, <2>1
  <2>3. \A j \in 1..1 : t[0 + j] = <<x>>[j]
    BY ONLY <1>6, <2>1, <2>2
  <2> DEFINE u == <<x>>
  <2>4. u \in Seq(Char) /\ Len(u) = 1 /\ \A j \in 1..1 : t[0 + j] = u[j]
    BY <1>6, <2>3
  <2>6. t \in Seq(Char) /\ 0 + 1 <= Len(t)
    BY ONLY <1>5, <2>1
  <2> HIDE DEF u
  <2>7. 0 \in Nat /\ 1 \in Nat
    BY ONLY <2>1
  <2>5. str_dup(t, 0, 1) = u
    BY ONLY <2>4, <2>6, <2>7, DupIs
  <2> QED
    BY <2>2, <2>5 DEF u
<1>15. T >= 2 => t[2] = " "
  <2>1. T >= 2 => 2 \in 1..T
    BY ONLY <1>8
  <2> QED
    BY ONLY <1>3, <1>9, <2>1
<1>16. \A j \in 1..L : T >= 2 + j => t[2 + j] = d[j]
  <2>1. \A j \in 1..L : T >= 2 + j => 2 + j \in 1..T
    BY ONLY <1>8
  <2> QED
    BY ONLY <1>4, <1>9, <2>1
<1>17. ASSUME T >= L + 2 PROVE str_dup(t, 2, L) = d
  <2>1. 2 \in Nat /\ L \in Nat /\ 2 + L <= T /\ \A j \in 1..L : T >= 2 + j
    BY ONLY <1>8, <1>17
  <2>2. \A j \in 1..L : t[2 + j] = d[j]
    BY ONLY <1>16, <2>1
  <2>3. d \in Seq(Char) /\ Len(d) = L /\ t \in Seq(Char) /\ 2 + L <= Len(t)
    BY ONLY <1>5, <2>1
  <2> QED
    BY ONLY <2>1, <2>2, <2>3, DupIs
<1>18. T >= L + 3 => t[L + 3] = " "
  <2>1. T >= L + 3 => L + 3 \in 1..T
    BY ONLY <1>8
  <2> QED
    BY ONLY <1>3, <1>9, <2>1
<1>19. ASSUME T >= L + 4 PROVE str_dup(t, L + 3, 1) = <<y>>
  <2>1. /\ L + 3 \in Nat /\ 1 \in Nat /\ (L + 3) + 1 <= T /\ L + 4 \in 1..T
        /\ \A j \in 1..1 : (L + 3) + j = L + 4 /\ j = 1
    BY ONLY <1>8, <1>19
  <2>2. t[L + 4] = y
    BY ONLY <1>3, <1>9, <2>1
  <2>3. \A j \in 1..1 : t[(L + 3) + j] = <<y>>[j]
    BY ONLY <1>7, <2>1, <2>2
  <2> DEFINE u == <<y>>
  <2>4. u \in Seq(Char) /\ Len(u) = 1 /\ \A j \in 1..1 : t[(L + 3) + j] = u[j]
    BY <1>7, <2>3
  <2>6. t \in Seq(Char) /\ (L + 3) + 1 <= Len(t)
    BY ONLY <1>5, <2>1
  <2> HIDE DEF u
  <2>5. str_dup(t, L + 3, 1) = u
    BY ONLY <2>1, <2>4, <2>6, DupIs
  <2> QED
    BY <2>5 DEF u
<1> QED
  BY ONLY <1>8, <1>10, <1>11, <1>12, <1>13, <1>14, <1>15, <1>16, <1>17, <1>18, <1>19 DEF CutWords, T, L

----------------------------------------------------------------------------
(* parse_request_start_line *)

(* A request's line whose second space arrived is taken apart. *)
LEMMA RequestLineTrue ==
  ASSUME NEW t, NEW x, NEW d, NEW y, CutWords(t, x, d, y), Len(t) >= Len(d) + 3
  PROVE  parse_request_start_line(t, strcspn(t, 0, {LF})) =
           Parsed("true", [msg EXCEPT !.method = http_method_get_enum(<<x>>), !.path = d,
                             !.protocol = IF Len(t) >= Len(d) + 4 THEN <<y>> ELSE str_dup(t, Len(d) + 3, 0)])
<1> DEFINE T == Len(t)
           L == Len(d)
           len == strcspn(t, 0, {LF})
           e1 == strcspn(t, 0, {" "})
           e2 == e1 + 1 + strcspn(t, e1 + 1, {" "})
           e3 == e2 + 1 + strcspn(t, e2 + 1, {CR})
<1>1. T \in Nat /\ L \in Nat /\ T >= L + 3
  BY DEF CutWords
<1>2. len = (IF T >= L + 5 THEN L + 5 ELSE T) /\ e1 = IF T >= 1 THEN 1 ELSE 0
  BY DEF CutWords
<1>3. T >= 2 => strcspn(t, 2, {" "}) = IF T >= L + 2 THEN L ELSE T - 2
  BY DEF CutWords
<1>4. strcspn(t, L + 3, {CR}) = IF T >= L + 4 THEN 1 ELSE 0
  BY DEF CutWords
<1>5. str_dup(t, 0, 1) = <<x>> /\ str_dup(t, 2, L) = d /\ (T >= L + 4 => str_dup(t, L + 3, 1) = <<y>>)
  <2>1. /\ T >= 1 => str_dup(t, 0, 1) = <<x>>
        /\ T >= L + 2 => str_dup(t, 2, L) = d
        /\ T >= L + 4 => str_dup(t, L + 3, 1) = <<y>>
    BY DEF CutWords
  <2> HIDE DEF T, L
  <2>2. T >= 1 /\ T >= L + 2
    BY ONLY <1>1
  <2> QED
    BY ONLY <2>1, <2>2
<1> HIDE DEF T, L, len
<1>6. e1 = 1
  <2> HIDE DEF e1
  <2> QED
    BY ONLY <1>1, <1>2
<1>7. e1 + 1 = 2
  <2> HIDE DEF e1
  <2> QED
    BY ONLY <1>6
<1>8. e2 = L + 2
  <2>1. e2 = 2 + strcspn(t, 2, {" "})
    <3> HIDE DEF e1
    <3> QED
      BY ONLY <1>7 DEF e2
  <2>3. T >= 2 /\ T >= L + 2
    BY ONLY <1>1
  <2>2. strcspn(t, 2, {" "}) = L
    BY ONLY <1>3, <2>3
  <2>4. 2 + L = L + 2
    BY ONLY <1>1
  <2> HIDE DEF e2
  <2> QED
    BY ONLY <2>1, <2>2, <2>4
<1> HIDE DEF e1
<1>9. e2 + 1 = L + 3
  <2> HIDE DEF e2
  <2> QED
    BY ONLY <1>1, <1>8
<1>10. e3 = IF T >= L + 4 THEN L + 4 ELSE L + 3
  <2>1. e3 = (L + 3) + strcspn(t, L + 3, {CR})
    <3> HIDE DEF e2
    <3> QED
      BY ONLY <1>9 DEF e3
  <2> HIDE DEF e3
  <2> QED
    BY ONLY <1>1, <1>4, <2>1
<1> HIDE DEF e2
<1>11. e3 - e2 - 1 = (IF T >= L + 4 THEN 1 ELSE 0) /\ e2 - e1 - 1 = L
  <2> HIDE DEF e3
  <2> QED
    BY ONLY <1>1, <1>6, <1>8, <1>10
<1> HIDE DEF e3
<1>12. ~(e1 > len) /\ e1 + 1 <= T /\ ~(e2 > len) /\ e2 + 1 <= T /\ ~(e3 > len)
  BY ONLY <1>1, <1>2, <1>6, <1>8, <1>10
<1>13. InBounds(t, e1 + 1) /\ InBounds(t, e2 + 1)
  BY ONLY <1>12 DEF InBounds, T
<1>14. /\ str_dup(t, 0, e1) = <<x>> /\ str_dup(t, e1 + 1, e2 - e1 - 1) = d
       /\ str_dup(t, e2 + 1, e3 - e2 - 1) = IF T >= L + 4 THEN <<y>> ELSE str_dup(t, L + 3, 0)
  BY ONLY <1>5, <1>6, <1>7, <1>9, <1>11
<1>15. parse_request_start_line(t, len) =
         Parsed("true", [msg EXCEPT !.method = http_method_get_enum(str_dup(t, 0, e1)),
                                    !.path = str_dup(t, e1 + 1, e2 - e1 - 1),
                                    !.protocol = str_dup(t, e2 + 1, e3 - e2 - 1)])
  BY ONLY <1>12, <1>13 DEF parse_request_start_line, e1, e2, e3
<1> QED
  BY ONLY <1>14, <1>15 DEF T, L, len

(* A request's line that was cut off before is read past its end. *)
LEMMA RequestLinePastEnd ==
  ASSUME NEW t, NEW x, NEW d, NEW y, CutWords(t, x, d, y), Len(t) < Len(d) + 3
  PROVE  parse_request_start_line(t, strcspn(t, 0, {LF})) = Parsed("past_end", msg)
<1> DEFINE T == Len(t)
           L == Len(d)
           len == strcspn(t, 0, {LF})
           e1 == strcspn(t, 0, {" "})
           e2 == e1 + 1 + strcspn(t, e1 + 1, {" "})
<1>1. T \in Nat /\ L \in Nat /\ T < L + 3
  BY DEF CutWords
<1>2. len = (IF T >= L + 5 THEN L + 5 ELSE T) /\ e1 = IF T >= 1 THEN 1 ELSE 0
  BY DEF CutWords
<1>3. T >= 2 => strcspn(t, 2, {" "}) = IF T >= L + 2 THEN L ELSE T - 2
  BY DEF CutWords
<1> HIDE DEF T, L, len, e1
<1>4. len = T
  BY ONLY <1>1, <1>2
<1>5. CASE T < 2
  <2>1. ~(e1 > len) /\ ~(e1 + 1 <= T)
    BY ONLY <1>1, <1>2, <1>4, <1>5
  <2>2. ~InBounds(t, e1 + 1)
    BY ONLY <2>1 DEF InBounds, T
  <2>3. parse_request_start_line(t, len) = Parsed("past_end", msg)
    BY ONLY <2>1, <2>2 DEF parse_request_start_line, e1
  <2> QED
    BY ONLY <2>3 DEF len
<1>6. CASE T >= 2
  <2>1. e1 = 1
    BY ONLY <1>1, <1>2, <1>6
  <2>2. e1 + 1 = 2
    BY ONLY <2>1
  <2>3. e2 = 2 + strcspn(t, 2, {" "})
    BY ONLY <2>2 DEF e2
  <2> DEFINE v == strcspn(t, 2, {" "})
  <2>8. e2 = 2 + v /\ v = IF T >= L + 2 THEN L ELSE T - 2
    BY ONLY <1>3, <1>6, <2>3
  <2> HIDE DEF e2, v
  <2>4. e2 = T
    BY ONLY <1>1, <1>6, <2>8
  <2>5. ~(e1 > len) /\ e1 + 1 <= T /\ ~(e2 > len) /\ ~(e2 + 1 <= T)
    BY ONLY <1>1, <1>4, <1>6, <2>1, <2>4
  <2>6. InBounds(t, e1 + 1) /\ ~InBounds(t, e2 + 1)
    BY ONLY <2>5 DEF InBounds, T
  <2>7. parse_request_start_line(t, len) = Parsed("past_end", msg)
    BY ONLY <2>5, <2>6 DEF parse_request_start_line, e1, e2
  <2> QED
    BY ONLY <2>7 DEF len
<1> QED
  BY ONLY <1>1, <1>5, <1>6

----------------------------------------------------------------------------
(* parse_response_start_line *)

(* A response's line needs both spaces, and never is read past its end. *)
LEMMA ResponseLine ==
  ASSUME NEW t, NEW x, NEW d, NEW y, CutWords(t, x, d, y), Len(d) = 3
  PROVE  LET r == parse_response_start_line(t, strcspn(t, 0, {LF}))
         IN /\ Len(t) < 6 => r = Parsed("false", msg)
            /\ Len(t) >= 6 =>
                 r = Parsed("true", [msg EXCEPT !.protocol = <<x>>, !.status_code = atoi(d) % 2^16,
                              !.status_text = IF Len(t) >= 7 THEN <<y>> ELSE str_dup(t, 6, 0)])
<1> DEFINE T == Len(t)
           len == strcspn(t, 0, {LF})
           w1 == strcspn(t, 0, {" "})
           i2 == w1 + 1
           w2 == strcspn(t, i2, {" "})
           i3 == i2 + w2 + 1
           w3 == strcspn(t, i3, {CR})
           digits == str_dup(t, i2, IF i2 + 3 <= T THEN 3 ELSE T - i2)
           r == parse_response_start_line(t, len)
           m == [msg EXCEPT !.protocol = str_dup(t, 0, w1),
                                     !.status_code = atoi(digits) % 2^16,
                                     !.status_text = str_dup(t, i3, w3)]
           bad == \/ len = 0 \/ w1 > len \/ i2 > len \/ i2 + w2 > len
                  \/ i3 > len \/ i3 + w3 > len
<1>0. 3 + 5 = 8 /\ 3 + 2 = 5 /\ 3 + 3 = 6 /\ 3 + 4 = 7
  OBVIOUS
<1>1. T \in Nat /\ len = (IF T >= 8 THEN 8 ELSE T) /\ w1 = IF T >= 1 THEN 1 ELSE 0
  BY <1>0 DEF CutWords
<1>2. T >= 2 => strcspn(t, 2, {" "}) = IF T >= 5 THEN 3 ELSE T - 2
  BY <1>0 DEF CutWords
<1>3. T >= 6 => strcspn(t, 6, {CR}) = IF T >= 7 THEN 1 ELSE 0
  BY <1>0 DEF CutWords
<1>4. /\ T >= 1 => str_dup(t, 0, 1) = <<x>>
      /\ T >= 5 => str_dup(t, 2, 3) = d
      /\ T >= 7 => str_dup(t, 6, 1) = <<y>>
  BY <1>0 DEF CutWords
<1>5. r = IF bad THEN Parsed("false", msg) ELSE Parsed("true", m)
  BY ONLY DEF parse_response_start_line
<1> HIDE DEF T, len, r, m, bad, w1
<1>6. T < 2 => bad
  <2>1. T < 2 => len = 0 \/ i2 > len
    BY ONLY <1>1
  <2> QED
    BY ONLY <2>1 DEF bad
<1>7. T >= 2 => i2 = 2
  BY ONLY <1>1
<1>8. T >= 2 => w2 = IF T >= 5 THEN 3 ELSE T - 2
  <2> HIDE DEF i2
  <2> QED
    BY ONLY <1>2, <1>7
<1> HIDE DEF i2, w2
<1>9. T >= 2 /\ T < 6 => bad
  <2>1. T >= 2 /\ T < 6 => i3 > len
    BY ONLY <1>1, <1>7, <1>8
  <2> QED
    BY ONLY <2>1 DEF bad
<1>10. T >= 6 => i3 = 6
  BY ONLY <1>1, <1>7, <1>8
<1>11. T >= 6 => w3 = IF T >= 7 THEN 1 ELSE 0
  <2> HIDE DEF i3
  <2> QED
    BY ONLY <1>3, <1>10
<1> HIDE DEF i3, w3
<1>12. T >= 6 => ~bad
  BY ONLY <1>1, <1>7, <1>8, <1>10, <1>11 DEF bad
<1>13. T >= 6 => m = [msg EXCEPT !.protocol = <<x>>, !.status_code = atoi(d) % 2^16,
                              !.status_text = IF T >= 7 THEN <<y>> ELSE str_dup(t, 6, 0)]
  <2> SUFFICES ASSUME T >= 6
               PROVE  m = [msg EXCEPT !.protocol = <<x>>, !.status_code = atoi(d) % 2^16,
                              !.status_text = IF T >= 7 THEN <<y>> ELSE str_dup(t, 6, 0)]
    OBVIOUS
  <2>1. w1 = 1 /\ i2 = 2 /\ i2 + 3 <= T /\ T >= 1 /\ T >= 5 /\ i3 = 6
    BY ONLY <1>1, <1>7, <1>10, T >= 6
  <2>2. str_dup(t, 0, w1) = <<x>> /\ digits = d
    BY ONLY <1>4, <2>1
  <2>3. str_dup(t, i3, w3) = IF T >= 7 THEN <<y>> ELSE str_dup(t, 6, 0)
    BY ONLY <1>4, <1>11, <2>1, T >= 6
  <2> HIDE DEF digits
  <2> QED
    BY ONLY <2>2, <2>3 DEF m
<1>14. T < 6 => r = Parsed("false", msg)
  BY ONLY <1>1, <1>5, <1>6, <1>9
<1>15. T >= 6 => r = Parsed("true", m)
  BY ONLY <1>5, <1>12
<1> QED
  BY ONLY <1>13, <1>14, <1>15 DEF T, r, len

----------------------------------------------------------------------------
(* The spaces in front of a request's protocol *)

(* A text that ends before its second space has fewer than two. *)
LEMMA FewSpaces ==
  ASSUME NEW t, NEW x, NEW d, NEW y, CutWords(t, x, d, y), Len(t) < Len(d) + 3,
         x # " ", \A j \in 1..Len(d) : d[j] # " "
  PROVE  Cardinality({i \in 1..Len(t) : t[i] = " "}) < 2
<1> DEFINE S == {i \in 1..Len(t) : t[i] = " "}
<1>1. Len(t) \in Nat /\ Len(d) \in Nat /\ Len(t) < Len(d) + 3
  BY DEF CutWords
<1>2. /\ Len(t) >= 1 => t[1] = x
      /\ \A j \in 1..Len(d) : Len(t) >= 2 + j => t[2 + j] = d[j]
  BY DEF CutWords
<1>3. \A i \in 1..Len(t) : i = 1 \/ i = 2 \/ (i - 2 \in 1..Len(d) /\ Len(t) >= 2 + (i - 2) /\ 2 + (i - 2) = i)
  BY ONLY <1>1
<1>4. \A i \in 1..Len(t) : Len(t) >= 1
  BY ONLY <1>1
<1>5. x # " " /\ \A j \in 1..Len(d) : d[j] # " "
  OBVIOUS
<1>6. \A i \in 1..Len(t) : t[i] = " " => i = 2
  <2> SUFFICES ASSUME NEW i \in 1..Len(t), t[i] = " ", i # 2 PROVE FALSE
    OBVIOUS
  <2>1. CASE i = 1
    BY ONLY <1>2, <1>4, <1>5, <2>1, i \in 1..Len(t), t[i] = " "
  <2>2. CASE i - 2 \in 1..Len(d) /\ Len(t) >= 2 + (i - 2) /\ 2 + (i - 2) = i
    <3>1. t[2 + (i - 2)] = d[i - 2]
      BY ONLY <1>2, <2>2
    <3>2. t[i] = d[i - 2] /\ d[i - 2] # " "
      BY ONLY <1>5, <2>2, <3>1
    <3> QED
      BY ONLY <3>2, t[i] = " "
  <2> QED
    BY ONLY <1>3, <2>1, <2>2, i \in 1..Len(t), i # 2
<1>7. S \in SUBSET {2}
  BY ONLY <1>6
<1>8. IsFiniteSet({2}) /\ Cardinality({2}) = 1
  BY FS_Singleton
<1> HIDE DEF S
<1>9. Cardinality(S) <= 1 /\ IsFiniteSet(S)
  <2>1. Cardinality(S) <= Cardinality({2}) /\ IsFiniteSet(S)
    BY ONLY <1>7, <1>8, FS_Subset
  <2> QED
    BY ONLY <1>8, <2>1
<1>10. Cardinality(S) \in Nat
  BY <1>9, FS_CardinalityType
<1>11. Cardinality(S) < 2
  BY ONLY <1>9, <1>10
<1> QED
  BY <1>11 DEF S

(* Two spaces are two. *)
LEMMA EnoughSpaces ==
  ASSUME NEW t, Len(t) \in Nat, \E i, j \in 1..Len(t) : i < j /\ t[i] = " " /\ t[j] = " "
  PROVE  ~(Cardinality({i \in 1..Len(t) : t[i] = " "}) < 2)
<1> DEFINE S == {i \in 1..Len(t) : t[i] = " "}
<1>1. PICK i, j \in 1..Len(t) : i < j /\ t[i] = " " /\ t[j] = " "
  OBVIOUS
<1>2. i \in S /\ j \in S /\ i # j
  <2>1. i \in S /\ j \in S
    BY <1>1
  <2>3. i \in 1..Len(t) /\ j \in 1..Len(t) /\ i < j
    BY <1>1
  <2>2. i # j
    BY ONLY <2>3, Len(t) \in Nat
  <2> QED
    BY <2>1, <2>2
<1>3. IsFiniteSet(S)
  <2>1. IsFiniteSet(1..Len(t))
    <3>1. 1 \in Int /\ Len(t) \in Int
      BY ONLY Len(t) \in Nat
    <3> QED
      BY ONLY <3>1, FS_Interval
  <2>2. S \in SUBSET (1..Len(t))
    OBVIOUS
  <2> QED
    BY <2>1, <2>2, FS_Subset
<1> HIDE DEF S
<1>4. IsFiniteSet({i, j}) /\ Cardinality({i, j}) = 2
  <2>1. IsFiniteSet({i}) /\ Cardinality({i}) = 1
    BY FS_Singleton
  <2>2. {i, j} = {i} \cup {j} /\ j \notin {i}
    BY <1>2
  <2>3. IsFiniteSet({i} \cup {j}) /\ Cardinality({i} \cup {j}) = 1 + 1
    BY <2>1, <2>2, FS_AddElement
  <2>4. 1 + 1 = 2
    BY ONLY TRUE
  <2> QED
    BY ONLY <2>2, <2>3, <2>4
<1>5. {i, j} \in SUBSET S
  BY <1>2
<1>6. 2 <= Cardinality(S)
  BY <1>3, <1>4, <1>5, FS_Subset
<1>7. Cardinality(S) \in Nat
  BY <1>3, FS_CardinalityType
<1>8. ~(Cardinality(S) < 2)
  BY ONLY <1>6, <1>7
<1> QED
  BY <1>8 DEF S

----------------------------------------------------------------------------
(* Where a call is *)

StartStep == StartLine /\ UNCHANGED appVars
HeaderStep == FromStrHeader /\ UNCHANGED appVars
BodyStep == FromStrBody /\ UNCHANGED appVars
HeaderFails == FromStrHeaderFails /\ UNCHANGED appVars

(* The steps, one by one. *)
LEMMA NextCases ==
  ASSUME Next
  PROVE  \/ FromStr \/ RequestInit \/ SetHandshakeHeaders \/ PrintRequest \/ GiveBack \/ Free
         \/ Arrives \/ StartStep \/ HeaderStep \/ BodyStep \/ HeaderFails
         \/ \E method \in AppMethods : AppStart(method)
         \/ \E key \in AppKeys, value \in AppValues : AppSetHeader(key, value)
         \/ \E body \in AppBodies : AppWrite(body)
         \/ \E a \in Answers : Answer(a)
BY DEF Next, Step, Parse, StartStep, HeaderStep, BodyStep, HeaderFails

(* Every step keeps Control. *)
LEMMA ControlStep ==
  ASSUME Control, Printing, Next
  PROVE  Control'
<1> USE DEF Control, Pcs, NoFault, taskVars, appVars
<1>1. CASE FromStr
  BY <1>1 DEF FromStr
<1>2. CASE RequestInit
  BY <1>2 DEF RequestInit, MessageInit
<1>3. CASE SetHandshakeHeaders
  BY <1>3 DEF SetHandshakeHeaders
<1>4. CASE PrintRequest
  BY <1>4 DEF PrintRequest, RequestToStr, RequestToStrNull
<1>5. CASE GiveBack
  BY <1>5 DEF GiveBack
<1>6. CASE Free
  BY <1>6 DEF Free, MessageFree, Printing
<1>7. CASE Arrives
  BY <1>7 DEF Arrives, Deliver
<1>8. CASE StartStep
  BY <1>8 DEF StartStep, StartLine
<1>9. CASE HeaderStep
  BY <1>9 DEF HeaderStep, FromStrHeader
<1>10. CASE BodyStep
  BY <1>10 DEF BodyStep, FromStrBody
<1>11. CASE HeaderFails
  BY <1>11 DEF HeaderFails, FromStrHeaderFails
<1>12. CASE \E method \in AppMethods : AppStart(method)
  BY <1>12 DEF AppStart
<1>13. CASE \E key \in AppKeys, value \in AppValues : AppSetHeader(key, value)
  BY <1>13 DEF AppSetHeader, Calling
<1>14. CASE \E body \in AppBodies : AppWrite(body)
  BY <1>14 DEF AppWrite, Calling
<1>15. CASE \E a \in Answers : Answer(a)
  BY <1>15 DEF Answer
<1> QED
  BY <1>1, <1>2, <1>3, <1>4, <1>5, <1>6, <1>7, <1>8, <1>9, <1>10, <1>11, <1>12, <1>13, <1>14, <1>15, NextCases

(* Every step keeps Printing. *)
LEMMA PrintingStep ==
  ASSUME Control, Printing, Dangling, Message, Next,
         \A a \in Answers : AnswerText(a) # NULL
  PROVE  Printing'
<1> USE DEF Control, Printing, taskVars, wireVars, msgVars
<1>1. CASE FromStr
  BY <1>1 DEF FromStr
<1>2. CASE RequestInit
  BY <1>2 DEF RequestInit, MessageInit
<1>3. CASE SetHandshakeHeaders
  BY <1>3 DEF SetHandshakeHeaders
<1>4. CASE PrintRequest
  <2>1. pc = "build" /\ pc' = "printed" /\ job' = job /\ body_set' = body_set
    BY <1>4 DEF PrintRequest, RequestToStr, RequestToStrNull
  <2>2. body_set
    BY <2>1
  <2>3. job = "print"
    BY <2>1
  <2>4. CASE RequestToStrNull
    BY <2>1, <2>3, <2>4 DEF RequestToStrNull
  <2>5. CASE fault' = IF dangling' = {} THEN fault ELSE "freed"
    <3>1. fault' = NoFault => dangling' = {}
      BY <2>5 DEF NoFault
    <3> QED
      BY <2>1, <2>2, <2>3, <3>1
  <2> QED
    BY <1>4, <2>4, <2>5 DEF PrintRequest, RequestToStr
<1>5. CASE GiveBack
  BY <1>5 DEF GiveBack
<1>6. CASE Free
  BY <1>6 DEF Free, MessageFree
<1>7. CASE Arrives
  BY <1>7 DEF Arrives, Deliver
<1>8. CASE StartStep
  BY <1>8 DEF StartStep, StartLine
<1>9. CASE HeaderStep
  BY <1>9 DEF HeaderStep, FromStrHeader
<1>10. CASE BodyStep
  BY <1>10 DEF BodyStep, FromStrBody
<1>11. CASE HeaderFails
  BY <1>11 DEF HeaderFails, FromStrHeaderFails
<1>12. CASE \E method \in AppMethods : AppStart(method)
  BY <1>12 DEF AppStart
<1>13. CASE \E key \in AppKeys, value \in AppValues : AppSetHeader(key, value)
  BY <1>13 DEF AppSetHeader, Calling
<1>14. CASE \E body \in AppBodies : AppWrite(body)
  BY <1>14 DEF AppWrite, Calling
<1>15. CASE \E a \in Answers : Answer(a)
  BY <1>15 DEF Answer
<1> QED
  BY <1>1, <1>2, <1>3, <1>4, <1>5, <1>6, <1>7, <1>8, <1>9, <1>10, <1>11, <1>12, <1>13, <1>14, <1>15, NextCases

----------------------------------------------------------------------------
(* The headers of the handshake *)

(* The lower case of the words in use. *)
LEMMA LowWords ==
  /\ Low("Upgrade") = "upgrade" /\ Low("Connection") = "connection" /\ Low("Host") = "host"
  /\ Low("Sec") = "sec" /\ Low("Version") = "version" /\ Low("sec") = "sec" /\ Low("key") = "key"
BY DEF Low, LowerCase

(* Names of one word. *)
LEMMA OneWord ==
  ASSUME NEW c \in Char
  PROVE  /\ <<c>> \in Seq(Char) /\ Len(<<c>>) = 1 /\ <<c>>[1] = c
         /\ normalized_cstr(<<c>>) = <<Low(c)>>
<1>1. <<c>> \in Seq(Char) /\ Len(<<c>>) = 1 /\ <<c>>[1] = c
  BY CharText
<1>2. normalized_cstr(<<c>>) = [i \in 1..1 |-> Low(<<c>>[i])]
  BY <1>1, NormFacts
<1>3. normalized_cstr(<<c>>) = [i \in 1..1 |-> Low(c)]
  <2>1. \A i \in 1..1 : <<c>>[i] = c
    BY <1>1
  <2> QED
    BY <1>2, <2>1
<1>4. [i \in 1..1 |-> Low(c)] = <<Low(c)>>
  OBVIOUS
<1> QED
  BY <1>1, <1>3, <1>4

(* Names of two words. *)
LEMMA TwoWords ==
  ASSUME NEW c \in Char, NEW d \in Char
  PROVE  /\ <<c, d>> \in Seq(Char) /\ Len(<<c, d>>) = 2 /\ <<c, d>>[1] = c /\ <<c, d>>[2] = d
         /\ normalized_cstr(<<c, d>>) = <<Low(c), Low(d)>>
<1>1. <<c, d>> \in Seq(Char) /\ Len(<<c, d>>) = 2 /\ <<c, d>>[1] = c /\ <<c, d>>[2] = d
  OBVIOUS
<1>2. normalized_cstr(<<c, d>>) = [i \in 1..2 |-> Low(<<c, d>>[i])]
  BY <1>1, NormFacts
<1>3. \A i \in 1..2 : Low(<<c, d>>[i]) = <<Low(c), Low(d)>>[i]
  BY <1>1
<1>4. [i \in 1..2 |-> <<Low(c), Low(d)>>[i]] = <<Low(c), Low(d)>>
  OBVIOUS
<1> QED
  BY <1>1, <1>2, <1>3, <1>4

(* Two characters in a row. *)
LEMMA AppendOne ==
  ASSUME NEW x \in Char, NEW y \in Char
  PROVE  Append(<<x>>, y) = <<x, y>>
<1>1. <<x>> \in Seq(Char) /\ Len(<<x>>) = 1 /\ <<x>>[1] = x
  BY CharText
<1>2. <<x, y>> \in Seq(Char) /\ Len(<<x, y>>) = 2 /\ <<x, y>>[1] = x /\ <<x, y>>[2] = y
  BY TwoWords
<1> DEFINE u == <<x>>
           v == <<x, y>>
           a == Append(u, y)
<1> HIDE DEF u
<1>3. u \in Seq(Char) /\ Len(u) = 1 /\ u[1] = x
  BY <1>1 DEF u
<1>4. a \in Seq(Char) /\ Len(a) = 2 /\ a[1] = u[1] /\ a[2] = y
  <2>1. /\ a \in Seq(Char) /\ Len(a) = Len(u) + 1 /\ a[Len(u) + 1] = y
        /\ \A i \in 1..Len(u) : a[i] = u[i]
    <3>1. u \in Seq(Char)
      BY <1>3
    <3> QED
      BY <3>1, AppendProperties
  <2>2. 1 + 1 = 2 /\ 1 \in 1..1
    BY ONLY TRUE
  <2> HIDE DEF a
  <2> QED
    BY ONLY <1>3, <2>1, <2>2
<1> HIDE DEF v, a
<1>5. a = v
  <2>1. Len(a) = Len(v) /\ \A i \in 1..Len(a) : a[i] = v[i]
    BY <1>2, <1>3, <1>4 DEF v
  <2> QED
    BY <1>2, <1>4, <2>1, SeqEqual DEF v
<1> QED
  BY <1>5 DEF u, v, a

(* The version as text. *)
LEMMA Words13 == to_str(Version) = <<"1", "3">>
<1>1. 13 \in Nat /\ ~(13 < 10) /\ 13 \div 10 = 1 /\ 13 % 10 = 3 /\ 1 \in Nat /\ 1 < 10
  OBVIOUS
<1>2. to_str(13) = Append(to_str(1), Digits[3 + 1])
  BY <1>1, DecimalIs
<1>3. to_str(1) = <<Digits[1 + 1]>>
  BY <1>1, DecimalIs
<1>4. Digits[3 + 1] = "3" /\ Digits[1 + 1] = "1"
  BY DEF Digits
<1>5. to_str(13) = Append(<<"1">>, "3")
  BY ONLY <1>2, <1>3, <1>4
<1>6. Append(<<"1">>, "3") = <<"1", "3">>
  <2>1. "1" \in Char /\ "3" \in Char
    BY DEF Char, Literals
  <2> QED
    BY ONLY <2>1, AppendOne
<1> QED
  BY ONLY <1>5, <1>6 DEF Version

(* The four headers of the request *)
LEMMA HandshakeNames ==
  /\ Len(HandshakeHeaders) = 4
  /\ normalized_cstr(HandshakeHeaders[1].key) = <<"upgrade">>
  /\ normalized_cstr(HandshakeHeaders[2].key) = <<"connection">>
  /\ normalized_cstr(HandshakeHeaders[3].key) = <<"sec", "key">>
  /\ normalized_cstr(HandshakeHeaders[4].key) = <<"sec", "version">>
  /\ HandshakeHeaders[1].value = <<"websocket">> /\ HandshakeHeaders[2].value = <<"Upgrade">>
  /\ HandshakeHeaders[3].value = <<"nonce">> /\ HandshakeHeaders[4].value = <<"1", "3">>
<1>1. "Upgrade" \in Char /\ "Connection" \in Char /\ "sec" \in Char /\ "key" \in Char /\ "Sec" \in Char /\ "Version" \in Char
  BY DEF Char, Literals
<1>2. Len(HandshakeHeaders) = 4
  BY DEF HandshakeHeaders
<1>3. /\ HandshakeHeaders[1].key = <<"Upgrade">> /\ HandshakeHeaders[2].key = <<"Connection">>
      /\ HandshakeHeaders[3].key = <<"sec", "key">> /\ HandshakeHeaders[4].key = <<"Sec", "Version">>
  BY DEF HandshakeHeaders
<1>4. /\ HandshakeHeaders[1].value = <<"websocket">> /\ HandshakeHeaders[2].value = <<"Upgrade">>
      /\ HandshakeHeaders[3].value = <<"nonce">> /\ HandshakeHeaders[4].value = to_str(Version)
  BY DEF HandshakeHeaders, Nonce
<1>5. normalized_cstr(<<"Upgrade">>) = <<"upgrade">> /\ normalized_cstr(<<"Connection">>) = <<"connection">>
  BY <1>1, OneWord, LowWords
<1>6. normalized_cstr(<<"sec", "key">>) = <<"sec", "key">> /\ normalized_cstr(<<"Sec", "Version">>) = <<"sec", "version">>
  BY <1>1, TwoWords, LowWords
<1> QED
  BY <1>2, <1>3, <1>4, <1>5, <1>6, Words13

(* initial_handshake sets no Host header: http_request_to_str does. *)
LEMMA NoHostYet == <<"host">> \notin DOMAIN HeadersOf(HandshakeHeaders)
<1>1. DOMAIN HeadersOf(HandshakeHeaders) = Names(HandshakeHeaders)
  BY HandshakeNames, HeadersAre
<1>2. SUFFICES ASSUME NEW i \in 1..4, <<"host">> = normalized_cstr(HandshakeHeaders[i].key) PROVE FALSE
  BY <1>1, HandshakeNames DEF Names
<1>3. i = 1 \/ i = 2 \/ i = 3 \/ i = 4
  OBVIOUS
<1>4. <<"host">> # <<"upgrade">> /\ <<"host">> # <<"connection">> /\ <<"host">> # <<"sec", "key">> /\ <<"host">> # <<"sec", "version">>
  OBVIOUS
<1> QED
  BY ONLY <1>2, <1>3, <1>4, HandshakeNames

----------------------------------------------------------------------------
(* The message that was sent *)

(* The three words of a message's first line *)
Word1 == IF kind = "request" THEN sent.method ELSE "HTTP/1.1"
Word2 == IF kind = "request" THEN sent.path ELSE to_str(sent.status_code)
Word3 == IF kind = "request" THEN "HTTP/1.1" ELSE "reason"

(* A number has no space and no line end in it. *)
LEMMA NumeralsArePlain ==
  ASSUME NEW s \in Numerals
  PROVE  s \in Plain({" ", LF})
<1>1. \A d \in DigitChars : d \notin {" ", LF}
  BY DEF DigitChars, LF
<1> QED
  BY <1>1 DEF Numerals, Plain

(* The first line of what was sent has three words. *)
LEMMA StartWords ==
  ASSUME Message, whole # NULL, Control
  PROVE  /\ Word1 \in Char /\ Word1 \notin {" ", LF} /\ Word3 \in Char /\ Word3 \notin {CR, LF}
         /\ Word2 \in Plain({" ", LF}) /\ StartText = Three(Word1, Word2, Word3)
<1>0. kind = "request" \/ kind = "response"
  BY DEF Control
<1>1. CASE kind = "request"
  <2>1. sent.method \in Methods /\ sent.path \in Plain({" ", LF}) /\ sent.protocol = <<"HTTP/1.1">>
    BY ONLY <1>1, Message, whole # NULL DEF Message, PROTOCOL
  <2>2. Word1 = sent.method /\ Word2 = sent.path /\ Word3 = "HTTP/1.1"
    BY <1>1 DEF Word1, Word2, Word3
  <2>3. StartText = <<sent.method>> \o Space \o sent.path \o Space \o sent.protocol
    BY <1>1 DEF StartText
  <2>4. \A m \in Methods : m \in Char /\ m \notin {" ", LF}
    <3>1. \A m \in Methods : m \in Literals
      BY ONLY DEF Methods, Literals
    <3>2. \A m \in Methods : m \notin {" ", LF}
      BY ONLY DEF Methods, LF
    <3> QED
      BY ONLY <3>1, <3>2 DEF Char
  <2>5. "HTTP/1.1" \in Char /\ "HTTP/1.1" \notin {CR, LF}
    BY DEF Char, Literals, CR, LF
  <2> QED
    BY ONLY <2>1, <2>2, <2>3, <2>4, <2>5 DEF Three
<1>2. CASE kind = "response"
  <2>1. /\ sent.status_code \in 100..999 /\ sent.status_text = <<"reason">>
        /\ sent.protocol = <<"HTTP/1.1">>
    BY <1>2 DEF Message, PROTOCOL
  <2>2. Word1 = "HTTP/1.1" /\ Word2 = to_str(sent.status_code) /\ Word3 = "reason"
    BY <1>2 DEF Word1, Word2, Word3
  <2>3. StartText = sent.protocol \o Space \o to_str(sent.status_code) \o Space \o sent.status_text
    BY <1>2 DEF StartText
  <2>4. to_str(sent.status_code) \in Plain({" ", LF})
    <3>1. sent.status_code \in Nat
      BY <2>1
    <3> QED
      BY ONLY <3>1, AtoiOfDecimal, NumeralsArePlain
  <2>5. /\ "HTTP/1.1" \in Char /\ "HTTP/1.1" \notin {" ", LF}
        /\ "reason" \in Char /\ "reason" \notin {CR, LF}
    BY DEF Char, Literals, CR, LF
  <2> QED
    BY ONLY <2>1, <2>2, <2>3, <2>4, <2>5 DEF Three
<1> QED
  BY <1>0, <1>1, <1>2

(* What was sent is laid out as a message. *)
LEMMA WholeLayout ==
  ASSUME Message, whole # NULL, Control
  PROVE  /\ Layout(whole, Len(StartText), lines, TailText)
         /\ Begins(StartText, whole) /\ Len(Word2) \in Nat /\ Len(StartText) = Len(Word2) + 4
<1>1. Word1 \in Char /\ Word2 \in Seq(Char) /\ Word3 \in Char /\ StartText = Three(Word1, Word2, Word3)
  BY StartWords, PlainTexts
<1>2. Len(Word2) \in Nat /\ StartText \in Seq(Char) /\ Len(StartText) = Len(Word2) + 4
  <2>1. IsThree(Three(Word1, Word2, Word3), Word1, Word2, Word3)
    BY ONLY <1>1, ThreeParts
  <2> QED
    BY ONLY <1>1, <2>1 DEF IsThree
<1>3. /\ lines \in Seq(HeaderLines) /\ TailText \in Seq(Char)
      /\ whole = MessageText(StartText, lines, TailText)
  BY DEF Message
<1>4. /\ Layout(whole, Len(StartText), lines, TailText)
      /\ \A j \in 1..Len(StartText) : whole[j] = StartText[j]
  BY ONLY <1>2, <1>3, MessageLayout
<1>5. Len(whole) \in Nat /\ Len(whole) >= Len(StartText)
  <2>1. LET p == EndsAt(Len(StartText), lines, Len(lines))
        IN p \in Nat /\ p >= Len(StartText) + 2 /\ Len(whole) = p + 2 + Len(TailText) /\ Len(TailText) \in Nat
    BY <1>4, LayoutEnd
  <2> DEFINE p == EndsAt(Len(StartText), lines, Len(lines))
             S == Len(StartText)
             T == Len(TailText)
             W == Len(whole)
  <2>2. p \in Nat /\ p >= S + 2 /\ W = p + 2 + T /\ T \in Nat
    BY <2>1
  <2>3. S \in Nat
    BY <1>2
  <2> HIDE DEF p, S, T, W
  <2>4. W \in Nat /\ W >= S
    BY ONLY <2>2, <2>3
  <2> QED
    BY <2>4 DEF W, S
<1>6. Len(StartText) \in Nat
  BY ONLY <1>2
<1> QED
  BY <1>2, <1>4, <1>5, <1>6 DEF Begins

(* What arrived of the first line of what was sent. *)
LEMMA WholeWords ==
  ASSUME Message, whole # NULL, Control, NEW t \in Seq(Char), Begins(t, whole)
  PROVE  CutWords(t, Word1, Word2, Word3)
<1>1. /\ Word1 \in Char /\ Word2 \in Seq(Char) /\ Word3 \in Char
      /\ Word1 \notin {" ", LF} /\ Word3 \notin {CR, LF} /\ \A j \in 1..Len(Word2) : Word2[j] \notin {" ", LF}
      /\ StartText = Three(Word1, Word2, Word3)
  BY StartWords, PlainTexts
<1>2. Begins(Three(Word1, Word2, Word3), whole)
  BY <1>1, WholeLayout
<1> DEFINE L == Len(Word2)
           S == Len(StartText)
<1>3. L \in Nat /\ S = L + 4
  BY WholeLayout
<1>4. Len(whole) >= L + 6 /\ whole[L + 5] = CR /\ whole[L + 6] = LF
  <2> DEFINE W == Len(whole)
             N == Len(lines)
             p == EndsAt(S, lines, N)
             Q == Len(TailText)
  <2>1. Layout(whole, S, lines, TailText)
    BY WholeLayout
  <2>2. whole[S + 1] = CR /\ whole[S + 2] = LF
    BY <2>1 DEF Layout
  <2>3. p \in Nat /\ p >= S + 2 /\ W = p + 2 + Q /\ Q \in Nat
    BY <2>1, LayoutEnd
  <2> HIDE DEF W, p, Q, S, L
  <2>4. W >= L + 6 /\ S + 1 = L + 5 /\ S + 2 = L + 6
    BY ONLY <1>3, <2>3
  <2> QED
    BY <2>2, <2>4 DEF W
<1> HIDE DEF S
<1>5. Len(whole) >= Len(Word2) + 6 /\ whole[Len(Word2) + 5] = CR /\ whole[Len(Word2) + 6] = LF
  BY ONLY <1>4 DEF L
<1>6. /\ Spans(whole, 0, {" "}, 1) /\ Spans(whole, 2, {" "}, Len(Word2))
      /\ Spans(whole, Len(Word2) + 3, {CR}, 1) /\ Spans(whole, 0, {LF}, Len(Word2) + 5)
      /\ whole[1] = Word1 /\ whole[2] = " " /\ \A j \in 1..Len(Word2) : whole[2 + j] = Word2[j]
      /\ whole[Len(Word2) + 3] = " " /\ whole[Len(Word2) + 4] = Word3
      /\ Len(whole) \in Nat /\ Len(Word2) \in Nat
  BY ONLY <1>1, <1>2, <1>5, ThreeSpans
<1>7. t \in Seq(Char) /\ Begins(t, whole)
  OBVIOUS
<1>8. Word1 \in Char /\ Word2 \in Seq(Char) /\ Word3 \in Char
  BY <1>1
<1> QED
  BY ONLY <1>6, <1>7, <1>8, CutWordsIs

----------------------------------------------------------------------------
(* Reading a header line *)

(* The lines of what was sent are header lines. *)
LEMMA LinesTyped ==
  ASSUME Message, whole # NULL
  PROVE  lines \in Seq(HeaderLines) /\ Len(lines) \in Nat
<1>1. lines \in Seq(HeaderLines)
  BY DEF Message
<1> QED
  BY ONLY <1>1

(* A line starts where the one in front of it ends. *)
LEMMA LineStartIs ==
  ASSUME Message, whole # NULL, Control, NEW n \in 1..Len(lines)
  PROVE  LineStart(n) = P(n - 1)
<1> DEFINE S == Len(StartText)
           f == [i \in 1..(n - 1) |-> HeaderLine(lines[i].key, lines[i].value)]
           c == strcspn(whole, 0, {LF})
<1>1. Layout(whole, S, lines, TailText) /\ S = Len(Word2) + 4 /\ Len(Word2) \in Nat
  BY WholeLayout
<1>2. whole \in Seq(Char) /\ Begins(whole, whole)
  <2>1. whole \in Seq(Char)
    BY <1>1 DEF Layout
  <2>2. Len(whole) \in Nat
    BY <2>1
  <2>3. Len(whole) <= Len(whole)
    BY ONLY <2>2
  <2> QED
    BY <2>1, <2>2, <2>3 DEF Begins
<1>3. c = S + 1
  <2>1. CutWords(whole, Word1, Word2, Word3)
    BY <1>2, WholeWords
  <2>2. c = IF Len(whole) >= Len(Word2) + 5 THEN Len(Word2) + 5 ELSE Len(whole)
    BY <2>1 DEF CutWords
  <2> DEFINE p == P(Len(lines))
             W == Len(whole)
             Q == Len(TailText)
  <2>3. p \in Nat /\ p >= S + 2 /\ W = p + 2 + Q /\ Q \in Nat
    BY <1>1, LayoutEnd DEF P
  <2> HIDE DEF p, Q, W, S, c
  <2>4. W >= Len(Word2) + 5 /\ Len(Word2) + 5 = S + 1
    BY ONLY <1>1, <2>3
  <2> QED
    BY <2>2, <2>4 DEF W
<1>4. FlattenSeq(f) = Flat(LineTexts(lines), n - 1)
  <2>1. Len(lines) \in Nat
    BY LinesTyped
  <2>2. \A i \in 1..(n - 1) : i \in 1..Len(lines)
    BY <2>1
  <2>3. \A i \in 1..(n - 1) : LineTexts(lines)[i] = HeaderLine(lines[i].key, lines[i].value)
    BY <2>2 DEF LineTexts, LineText
  <2>4. f = FirstOf(LineTexts(lines), n - 1)
    BY <2>3 DEF FirstOf
  <2> QED
    BY <2>4 DEF Flat
<1>5. LineStart(n) = c + 1 + Len(FlattenSeq(f))
  BY DEF LineStart
<1>6. P(n - 1) = S + 2 + Len(FlattenSeq(f))
  BY <1>4 DEF P, EndsAt
<1>7. S \in Nat /\ P(n - 1) \in Nat
  <2>2. Len(lines) \in Nat
    BY LinesTyped
  <2>1. n - 1 \in 0..Len(lines)
    BY ONLY <2>2, n \in 1..Len(lines)
  <2> QED
    BY <1>1, <2>1 DEF Layout, P
<1>8. Len(FlattenSeq(f)) \in Nat
  <2>1. LineTexts(lines) \in Seq(Seq(Char)) /\ Len(LineTexts(lines)) = Len(lines)
    BY LineTextsSeq, LinesTyped
  <2>4. Len(lines) \in Nat
    BY LinesTyped
  <2>2. n - 1 \in 0..Len(LineTexts(lines))
    BY ONLY <2>1, <2>4, n \in 1..Len(lines)
  <2>3. Flat(LineTexts(lines), n - 1) \in Seq(Char)
    BY <2>1, <2>2, FlatSteps
  <2> QED
    BY <1>4, <2>3
<1> DEFINE Z == Len(FlattenSeq(f))
<1>9. LineStart(n) = c + 1 + Z /\ P(n - 1) = S + 2 + Z /\ Z \in Nat
  BY <1>5, <1>6, <1>8
<1> HIDE DEF S, c, Z
<1>10. c + 1 + Z = S + 2 + Z
  BY ONLY <1>3, <1>7, <1>9
<1> QED
  BY <1>9, <1>10

(* The parser stands at the start of line k. *)
At(k) == k \in 1..Len(lines) /\ AtLine(k - 1) /\ index < Len(text) /\ index = P(k - 1)

(* The parser stands at the beginning of a header line. *)
LEMMA AtHeader ==
  ASSUME Control, Printing, Message, Parsing, pc = "lines", ~HeadersOver
  PROVE  /\ whole # NULL /\ Layout(whole, Len(StartText), lines, TailText)
         /\ text \in Seq(Char) /\ Begins(text, whole) /\ Len(lines) \in Nat
         /\ \E k \in 1..Len(lines) : At(k)
<1>1. /\ job = "parse" /\ whole # NULL /\ text \in Seq(Char) /\ Begins(text, whole) /\ Progress
      /\ index \in Nat
  BY DEF Control, Printing, Parsing
<1>2. Layout(whole, Len(StartText), lines, TailText) /\ Len(lines) \in Nat
  BY <1>1, WholeLayout, LinesTyped
<1>3. Len(text) \in Nat
  BY <1>1
<1>4. index < Len(text) /\ strcspn(text, index, {LF}) # 1
  BY DEF HeadersOver
<1>5. ~Short
  BY <1>3, <1>4 DEF Short
<1>6. ASSUME NEW n \in 1..Len(lines) PROVE ~CutLine(n)
  <2>1. CutLine(n) => index >= Len(text)
    BY DEF CutLine
  <2>2. ~(index >= Len(text))
    BY ONLY <1>1, <1>3, <1>4
  <2> QED
    BY ONLY <2>1, <2>2
<1>7. PICK n \in 0..Len(lines) : AtLine(n)
  BY <1>1, <1>5, <1>6 DEF Progress
<1>8. index = P(n)
  BY <1>7 DEF AtLine
<1>9. n # Len(lines)
  <2> SUFFICES ASSUME n = Len(lines) PROVE FALSE
    OBVIOUS
  <2>1. EndsAt(Len(StartText), lines, Len(lines)) < Len(text)
    BY <1>4, <1>8 DEF P
  <2>2. strcspn(text, EndsAt(Len(StartText), lines, Len(lines)), {LF}) = 1
    BY <1>1, <1>2, <2>1, EndCut
  <2> QED
    BY <1>4, <1>8, <2>2 DEF P
<1>10. n + 1 \in 1..Len(lines) /\ (n + 1) - 1 = n
  BY <1>2, <1>9
<1>11. At(n + 1)
  BY <1>4, <1>7, <1>8, <1>10 DEF At
<1> QED
  BY <1>1, <1>2, <1>10, <1>11

(* How line k is read: its name did not arrive, or it did. *)
NameLost(k) ==
  ~InBounds(text, ValueOffset(index, strcspn(text, index, {":"}))) /\ CutInName
NameRead(k) ==
  /\ strcspn(text, index, {":"}) = Len(lines[k].key)
  /\ str_dup(text, index, Len(lines[k].key)) = lines[k].key
  /\ InBounds(text, ValueOffset(index, Len(lines[k].key)))
  /\ P(k - 1) + Len(lines[k].key) + 2 <= Len(text)
  /\ ValueOffset(index, Len(lines[k].key)) = P(k - 1) + Len(lines[k].key) + 2

(* A line's name is read whole, or the text was cut off in it. *)
LEMMA ReadName ==
  ASSUME Control, Message, whole # NULL, text \in Seq(Char), Begins(text, whole),
         Layout(whole, Len(StartText), lines, TailText), NEW k \in 1..Len(lines), At(k),
         ~HeadersOver
  PROVE  NameLost(k) \/ NameRead(k)
<1> DEFINE p == P(k - 1)
           K == Len(lines[k].key)
           T == Len(text)
<1>1. index = p /\ index < T
  BY DEF At
<1>2. p \in Nat /\ K \in Nat
  BY LayoutLine DEF P
<1>3. T \in Nat
  OBVIOUS
<1>4. CASE p + K + 2 <= T
  <2>1. strcspn(text, p, {":"}) = K /\ str_dup(text, p, K) = lines[k].key
    BY <1>4, LineArrived DEF P
  <2>2. ValueOffset(index, K) = p + K + 2
    BY <1>1 DEF ValueOffset
  <2> HIDE DEF p, K, T
  <2>3. InBounds(text, ValueOffset(index, K))
    BY ONLY <1>4, <2>2 DEF InBounds, T
  <2> QED
    BY ONLY <1>1, <1>4, <2>1, <2>2, <2>3 DEF NameRead, p, K, T
<1>5. CASE ~(p + K + 2 <= T)
  <2> DEFINE n == strcspn(text, p, {":"})
             l == strcspn(text, p, {LF})
  <2>1. p <= T /\ p + K + 2 > T
    <3> HIDE DEF p, K, T
    <3> QED
      BY ONLY <1>1, <1>2, <1>3, <1>5
  <2>2. p + n + 2 > T /\ l = T - p
    <3>1. /\ EndsAt(Len(StartText), lines, k - 1) <= Len(text)
          /\ EndsAt(Len(StartText), lines, k - 1) + Len(lines[k].key) + 2 > Len(text)
      BY ONLY <2>1 DEF P
    <3>2. k \in 1..Len(lines) /\ Layout(whole, Len(StartText), lines, TailText) /\ Begins(text, whole)
      OBVIOUS
    <3>3. LET q == EndsAt(Len(StartText), lines, k - 1)
          IN /\ q + strcspn(text, q, {":"}) + 2 > Len(text)
             /\ strcspn(text, q, {LF}) = Len(text) - q
      BY ONLY <3>1, <3>2, LineCut
    <3> QED
      BY ONLY <3>3 DEF P
  <2>3. l # 1
    BY <1>1 DEF HeadersOver
  <2>4. n \in Nat
    <3>1. Spans(text, p, {":"}, n)
      BY <1>2, <1>3, <2>1, SpanExists
    <3> QED
      BY ONLY <1>2, <1>3, <3>1 DEF Spans
  <2>5. ValueOffset(index, n) = p + n + 2
    BY <1>1 DEF ValueOffset
  <2> HIDE DEF p, K, T, n, l
  <2>6. ~InBounds(text, ValueOffset(index, n))
    <3>1. ~(p + n + 2 <= T)
      BY ONLY <1>2, <1>3, <2>2, <2>4
    <3> QED
      BY ONLY <2>5, <3>1 DEF InBounds, T
  <2>7. T - p \in 2..(K + 1)
    BY ONLY <1>1, <1>2, <1>3, <2>1, <2>2, <2>3
  <2>8. CutInName
    <3>1. Len(text) - LineStart(k) \in 2..(Len(lines[k].key) + 1)
      BY <2>7, LineStartIs DEF p, T, K
    <3> QED
      BY <3>1 DEF CutInName
  <2> QED
    BY <1>1, <2>6, <2>8 DEF NameLost, n
<1> QED
  BY <1>4, <1>5

----------------------------------------------------------------------------
(* Texts are freed once *)

(* http_message_init leaves a message without texts. *)
LEMMA NewMessage == IsMessage(EmptyMessage) /\ EmptyMessage.host = NULL /\ EmptyMessage.path = NULL
BY DEF IsMessage, EmptyMessage

(* Every step keeps Borrowed. *)
LEMMA BorrowedStep ==
  ASSUME Control, Building, Borrowed, Next
  PROVE  Borrowed'
<1> USE DEF Control, Borrowed, taskVars, wireVars, msgVars, appVars
<1>1. CASE FromStr
  <2>1. /\ pc' # "free" /\ live' = {f \in {"host", "path"} : client'[f] # NULL}
    BY <1>1 DEF FromStr
  <2> QED
    BY <2>1
<1>2. CASE RequestInit
  BY <1>2, NewMessage DEF RequestInit, MessageInit
<1>3. CASE SetHandshakeHeaders
  <2>1. UNCHANGED <<client, live, mode, job>>
    BY <1>3 DEF SetHandshakeHeaders
  <2>2. pc' = "free" => \E n \in 0..3 : msg' = [EmptyMessage EXCEPT !.headers = HeadersOf(SubSeq(HandshakeHeaders, 1, n))]
    BY <1>3 DEF SetHandshakeHeaders
  <2>3. pc' = "free" => msg'.host = NULL /\ msg'.path = NULL
    BY <2>2 DEF EmptyMessage
  <2> QED
    BY <2>1, <2>3
<1>4. CASE PrintRequest
  BY <1>4 DEF PrintRequest, RequestToStr, RequestToStrNull
<1>5. CASE GiveBack
  <2>1. IsMessage(msg)
    BY DEF Building
  <2>2. mode = "connect" => msg' = [msg EXCEPT !.protocol = NULL, !.path = NULL, !.host = NULL]
    BY <1>5 DEF GiveBack
  <2>3. mode = "connect" => msg'.host = NULL /\ msg'.path = NULL
    BY <2>1, <2>2 DEF IsMessage
  <2>4. UNCHANGED <<client, live, mode, job>>
    BY <1>5 DEF GiveBack
  <2> QED
    BY <2>3, <2>4
<1>6. CASE Free
  <2>1. /\ live' = (IF mode = "connect" /\ job = "print" THEN {f \in live : msg[f] = NULL} ELSE live)
        /\ client' = client /\ pc \in {"done", "free"} /\ pc' # "free"
    BY <1>6 DEF Free, MessageFree
  <2>2. \A f \in {"host", "path"} : client'[f] # NULL => f \in live'
    BY <2>1
  <2> QED
    BY <2>1, <2>2
<1>7. CASE Arrives
  BY <1>7 DEF Arrives, Deliver
<1>8. CASE StartStep
  BY <1>8 DEF StartStep, StartLine
<1>9. CASE HeaderStep
  BY <1>9 DEF HeaderStep, FromStrHeader
<1>10. CASE BodyStep
  BY <1>10 DEF BodyStep, FromStrBody
<1>11. CASE HeaderFails
  BY <1>11 DEF HeaderFails, FromStrHeaderFails
<1>12. CASE \E method \in AppMethods : AppStart(method)
  BY <1>12 DEF AppStart
<1>13. CASE \E key \in AppKeys, value \in AppValues : AppSetHeader(key, value)
  BY <1>13 DEF AppSetHeader, Calling
<1>14. CASE \E body \in AppBodies : AppWrite(body)
  BY <1>14 DEF AppWrite, Calling
<1>15. CASE \E a \in Answers : Answer(a)
  BY <1>15 DEF Answer
<1> QED
  BY <1>1, <1>2, <1>3, <1>4, <1>5, <1>6, <1>7, <1>8, <1>9, <1>10, <1>11, <1>12, <1>13, <1>14, <1>15, NextCases

(* A header whose line is read and that the message has was in an earlier line. *)
LEMMA ReadTwice ==
  ASSUME Control, Printing, Message, Parsing, FromStrHeaderFails,
         dangling = {}, dangling' # {}
  PROVE  Repeated
<1>1. pc = "lines" /\ ~HeadersOver
  BY DEF FromStrHeaderFails
<1>2. /\ whole # NULL /\ Layout(whole, Len(StartText), lines, TailText)
      /\ text \in Seq(Char) /\ Begins(text, whole) /\ Len(lines) \in Nat
  BY <1>1, AtHeader
<1>3. PICK k \in 1..Len(lines) : At(k)
  BY <1>1, AtHeader
<1> DEFINE n == strcspn(text, index, {":"})
<1>4. /\ InBounds(text, ValueOffset(index, n))
      /\ dangling' = dangling \cup ({normalized_cstr(str_dup(text, index, n))} \cap DOMAIN msg.headers)
  BY DEF FromStrHeaderFails, SetHeaderFails
<1>5. NameRead(k)
  BY <1>1, <1>2, <1>3, <1>4, ReadName DEF NameLost
<1>6. normalized_cstr(lines[k].key) \in DOMAIN msg.headers
  BY <1>4, <1>5 DEF NameRead
<1>7. msg.headers = HeadersOf(FirstOf(lines, k - 1))
  BY <1>3 DEF At, AtLine
<1>8. Len(FirstOf(lines, k - 1)) = k - 1 /\ k - 1 \in 0..Len(lines)
  BY <1>2, LinesTyped, FrontSeq
<1>9. DOMAIN msg.headers = Names(FirstOf(lines, k - 1))
  BY <1>7, <1>8, HeadersAre
<1>10. PICK i \in 1..(k - 1) : normalized_cstr(lines[k].key) = normalized_cstr(FirstOf(lines, k - 1)[i].key)
  BY <1>6, <1>8, <1>9 DEF Names
<1>11. i \in 1..Len(lines) /\ i # k
  BY <1>2
<1> QED
  BY <1>10, <1>11 DEF Repeated, FirstOf

(* Every step keeps Dangling. *)
LEMMA DanglingStep ==
  ASSUME Control, Printing, Building, Message, Parsing, Dangling, Next
  PROVE  Dangling'
<1> USE DEF Control, Dangling, taskVars, wireVars, msgVars, appVars
<1>1. CASE FromStr
  BY <1>1 DEF FromStr
<1>2. CASE RequestInit
  BY <1>2 DEF RequestInit, MessageInit
<1>3. CASE SetHandshakeHeaders
  BY <1>3 DEF SetHandshakeHeaders, Printing
<1>4. CASE PrintRequest
  <2>1. pc' = "printed" /\ pc = "build" /\ job = "print" /\ job' = "print" /\ dangling = {}
    BY <1>4 DEF PrintRequest, RequestToStr, RequestToStrNull, Printing
  <2>2. fault' = NoFault => dangling' = {}
    <3>1. CASE RequestToStrNull
      BY <2>1, <3>1 DEF RequestToStrNull
    <3>2. CASE fault' = IF dangling' = {} THEN fault ELSE "freed"
      BY <3>2 DEF NoFault
    <3> QED
      BY <1>4, <3>1, <3>2 DEF PrintRequest, RequestToStr
  <2> QED
    BY <2>1, <2>2
<1>5. CASE GiveBack
  BY <1>5 DEF GiveBack
<1>6. CASE Free
  BY <1>6 DEF Free, MessageFree
<1>7. CASE Arrives
  BY <1>7 DEF Arrives, Deliver
<1>8. CASE StartStep
  BY <1>8 DEF StartStep, StartLine
<1>9. CASE HeaderStep
  BY <1>9 DEF HeaderStep, FromStrHeader
<1>10. CASE BodyStep
  BY <1>10 DEF BodyStep, FromStrBody
<1>11. CASE HeaderFails
  <2>1. FromStrHeaderFails /\ pc = "lines" /\ pc' = "free" /\ job' = "parse" /\ lines' = lines
    BY <1>11 DEF HeaderFails, FromStrHeaderFails
  <2>2. dangling = {}
    BY <2>1
  <2>3. Repeated' = Repeated
    BY <2>1 DEF Repeated
  <2>4. dangling' # {} => Repeated
    BY <2>1, <2>2, ReadTwice
  <2> QED
    BY <2>1, <2>3, <2>4
<1>12. CASE \E method \in AppMethods : AppStart(method)
  BY <1>12 DEF AppStart
<1>13. CASE \E key \in AppKeys, value \in AppValues : AppSetHeader(key, value)
  <2>1. PICK key \in AppKeys, value \in AppValues : AppSetHeader(key, value)
    BY <1>13
  <2>2. /\ pc = "build" /\ mode = "application" /\ mode' = mode /\ job' = job
        /\ calls' = calls + 1
    BY <2>1 DEF AppSetHeader, Calling
  <2>3. dangling = {} /\ job = "print" /\ calls \in Nat
    BY <2>2 DEF Printing
  <2>4. pc' # "free" => pc' = "build"
    BY <2>1, <2>2 DEF AppSetHeader
  <2>5. dangling' # {} => DOMAIN msg.headers # {}
    BY <2>1, <2>3 DEF AppSetHeader, SetHeaderFails
  <2>6. DOMAIN msg.headers # {} => calls > 0
    BY <2>2 DEF Building, AppMessage
  <2>7. calls > 0 => calls' > 1
    BY ONLY <2>2, <2>3
  <2> QED
    BY <2>2, <2>3, <2>4, <2>5, <2>6, <2>7
<1>14. CASE \E body \in AppBodies : AppWrite(body)
  BY <1>14 DEF AppWrite, Calling
<1>15. CASE \E a \in Answers : Answer(a)
  BY <1>15 DEF Answer
<1> QED
  BY <1>1, <1>2, <1>3, <1>4, <1>5, <1>6, <1>7, <1>8, <1>9, <1>10, <1>11, <1>12, <1>13, <1>14, <1>15, NextCases

(* A Host that is freed and printed is an application's. *)
LEMMA HostPrinted ==
  ASSUME Control, Printing, Building, NEW m, NEW order, RequestToStr(m, order), fault' = "freed"
  PROVE  mode = "application" /\ calls > 0 /\ \E key \in AppKeys : normalized_cstr(key) = <<"host">>
<1>1. pc = "build" /\ job = "print" /\ dangling = {} /\ fault = NoFault
  BY DEF RequestToStr, Control, Printing
<1>2. dangling' # {}
  BY <1>1 DEF RequestToStr, NoFault
<1>3. <<"host">> \in DOMAIN msg.headers
  BY <1>1, <1>2 DEF RequestToStr
<1>4. mode = "application"
  <2> SUFFICES ASSUME mode = "connect" PROVE FALSE
    BY DEF Control
  <2>1. msg = EmptyMessage \/ msg = HandshakeMsg
    BY <1>1 DEF Building
  <2>2. EmptyMessage.headers = <<>> /\ HandshakeMsg.headers = HeadersOf(HandshakeHeaders)
    BY DEF EmptyMessage, HandshakeMsg
  <2>3. <<"host">> \notin DOMAIN <<>>
    OBVIOUS
  <2> QED
    BY <1>3, <2>1, <2>2, <2>3, NoHostYet
<1>5. AppMessage(msg)
  BY <1>1, <1>4 DEF Building
<1> QED
  BY <1>3, <1>4, <1>5 DEF AppMessage

(* Every step keeps TextsFreedOnce. *)
LEMMA FreedOnceStep ==
  ASSUME Control, Printing, Building, Dangling, TextsFreedOnce, Borrowed, Next
  PROVE  TextsFreedOnce'
<1> USE DEF Control, taskVars, wireVars, msgVars, appVars, NoFault
<1>0. \A f \in {"host", "path"} : client'[f] # NULL => f \in live'
  BY BorrowedStep DEF Borrowed
<1>1. ASSUME fault' \notin {"double_free", "freed"} PROVE TextsFreedOnce'
  BY <1>0, <1>1 DEF TextsFreedOnce
<1>2. ASSUME fault' = fault, fault \in {"double_free", "freed"}, UNCHANGED <<job, mode, calls, lines>>
      PROVE  TextsFreedOnce'
  BY <1>0, <1>2 DEF TextsFreedOnce
<1>3. CASE FromStr
  BY <1>1, <1>3 DEF FromStr
<1>4. CASE RequestInit
  BY <1>1, <1>4 DEF RequestInit, MessageInit
<1>5. CASE SetHandshakeHeaders
  BY <1>1, <1>5 DEF SetHandshakeHeaders
<1>6. CASE PrintRequest
  <2>1. CASE RequestToStrNull
    BY <1>1, <1>6, <2>1 DEF PrintRequest, RequestToStrNull
  <2>2. CASE \E m, order : RequestToStr(m, order)
    <3>1. PICK m, order : RequestToStr(m, order)
      BY <2>2
    <3>2. fault' \in {fault, "freed"} /\ fault = NoFault
      BY <3>1 DEF RequestToStr
    <3>3. CASE fault' = "freed"
      <4>1. UNCHANGED <<mode, calls>>
        BY <1>6 DEF PrintRequest
      <4> QED
        BY <1>0, <3>1, <3>3, <4>1, HostPrinted DEF TextsFreedOnce
    <3> QED
      BY <1>1, <3>2, <3>3
  <2> QED
    BY <1>6, <2>1, <2>2 DEF PrintRequest
<1>7. CASE GiveBack
  BY <1>1, <1>2, <1>7 DEF GiveBack
<1>8. CASE Free
  <2>1. /\ fault' \in (IF dangling # {} THEN {"double_free"}
                       ELSE {NoFault} \cup (IF body_set THEN {} ELSE {"wild"}))
        /\ fault = NoFault /\ pc \in {"done", "free"} /\ UNCHANGED <<job, mode, calls, lines>>
    BY <1>8 DEF Free, MessageFree
  <2>2. CASE dangling = {}
    BY <1>1, <2>1, <2>2
  <2>3. CASE dangling # {}
    <3>1. fault' = "double_free"
      BY <2>1, <2>3
    <3>2. CASE job = "parse"
      <4>1. Repeated
        BY <2>1, <2>3, <3>2 DEF Dangling
      <4> QED
        BY <1>0, <2>1, <3>1, <3>2, <4>1 DEF TextsFreedOnce, Repeated
    <3>3. CASE job = "print"
      <4>1. mode = "application" /\ calls > 1
        BY <2>1, <2>3, <3>3 DEF Dangling
      <4> QED
        BY <1>0, <2>1, <3>1, <3>3, <4>1 DEF TextsFreedOnce
    <3> QED
      BY <3>2, <3>3
  <2> QED
    BY <2>2, <2>3
<1>9. CASE Arrives
  BY <1>1, <1>9 DEF Arrives, Deliver
<1>10. CASE StartStep
  BY <1>1, <1>10 DEF StartStep, StartLine
<1>11. CASE HeaderStep
  BY <1>1, <1>11 DEF HeaderStep, FromStrHeader
<1>12. CASE BodyStep
  BY <1>1, <1>12 DEF BodyStep, FromStrBody
<1>13. CASE HeaderFails
  BY <1>1, <1>13 DEF HeaderFails, FromStrHeaderFails
<1>14. CASE \E method \in AppMethods : AppStart(method)
  BY <1>1, <1>14 DEF AppStart
<1>15. CASE \E key \in AppKeys, value \in AppValues : AppSetHeader(key, value)
  BY <1>1, <1>15 DEF AppSetHeader, Calling
<1>16. CASE \E body \in AppBodies : AppWrite(body)
  BY <1>1, <1>16 DEF AppWrite, Calling
<1>17. CASE \E a \in Answers : Answer(a)
  BY <1>1, <1>17 DEF Answer
<1> QED
  BY <1>3, <1>4, <1>5, <1>6, <1>7, <1>8, <1>9, <1>10, <1>11, <1>12, <1>13, <1>14, <1>15, <1>16, <1>17, NextCases

(* No step changes the URL, the build or who makes the request. *)
LEMMA UrlStays ==
  ASSUME Next
  PROVE  UNCHANGED <<url, UseSSL, mode>>
<1> USE DEF appVars
<1>1. CASE FromStr
  BY <1>1 DEF FromStr
<1>2. CASE RequestInit
  BY <1>2 DEF RequestInit
<1>3. CASE SetHandshakeHeaders
  BY <1>3 DEF SetHandshakeHeaders
<1>4. CASE PrintRequest
  BY <1>4 DEF PrintRequest
<1>5. CASE GiveBack
  BY <1>5 DEF GiveBack
<1>6. CASE Free
  BY <1>6 DEF Free
<1>7. CASE Arrives
  BY <1>7 DEF Arrives
<1>8. CASE StartStep
  BY <1>8 DEF StartStep
<1>9. CASE HeaderStep
  BY <1>9 DEF HeaderStep
<1>10. CASE BodyStep
  BY <1>10 DEF BodyStep
<1>11. CASE HeaderFails
  BY <1>11 DEF HeaderFails
<1>12. CASE \E method \in AppMethods : AppStart(method)
  BY <1>12 DEF AppStart
<1>13. CASE \E key \in AppKeys, value \in AppValues : AppSetHeader(key, value)
  BY <1>13 DEF AppSetHeader, Calling
<1>14. CASE \E body \in AppBodies : AppWrite(body)
  BY <1>14 DEF AppWrite, Calling
<1>15. CASE \E a \in Answers : Answer(a)
  BY <1>15 DEF Answer
<1> QED
  BY <1>1, <1>2, <1>3, <1>4, <1>5, <1>6, <1>7, <1>8, <1>9, <1>10, <1>11, <1>12, <1>13, <1>14, <1>15, NextCases

(* Every step keeps ClientMade. *)
LEMMA ClientStep ==
  ASSUME Control, Printing, ClientMade, Next
  PROVE  ClientMade'
<1> USE DEF Control, taskVars, wireVars, msgVars, appVars, NoFault
<1> DEFINE r == ws_client_from_str(UrlText(url), UseSSL)
<1>1. UNCHANGED <<url, UseSSL, mode>>
  BY UrlStays
<1>2. r' = r
  BY <1>1
<1>3. CASE FromStr
  <2>1. /\ client' = r.client /\ pc' = (IF r.result = "true" THEN "init" ELSE "end")
        /\ fault' = (IF r.result = "port_buffer" THEN "port_buffer" ELSE NoFault)
        /\ job' = job /\ pc = "url"
    BY <1>3 DEF FromStr
  <2>2. job = "print"
    BY <2>1
  <2> HIDE DEF r
  <2> QED
    BY <1>1, <1>2, <2>1, <2>2 DEF ClientMade, r
<1>4. ASSUME client' = client, pc # "url", fault = "port_buffer" <=> fault' = "port_buffer",
             pc = "end" /\ job = "print" => pc' = "end" /\ job' = "print"
      PROVE  ClientMade'
  <2> HIDE DEF r
  <2> QED
    BY <1>1, <1>2, <1>4 DEF ClientMade, r
<1>5. CASE RequestInit
  BY <1>4, <1>5 DEF RequestInit, MessageInit
<1>6. CASE SetHandshakeHeaders
  BY <1>4, <1>6 DEF SetHandshakeHeaders
<1>7. CASE PrintRequest
  <2>1. fault' \in {fault, "freed"} /\ pc = "build" /\ client' = client
    BY <1>7 DEF PrintRequest, RequestToStr, RequestToStrNull
  <2> QED
    BY <1>4, <2>1
<1>8. CASE GiveBack
  BY <1>4, <1>8 DEF GiveBack
<1>9. CASE Free
  <2>1. fault' # "port_buffer" /\ fault = NoFault /\ client' = client /\ pc \in {"done", "free"}
    BY <1>9 DEF Free, MessageFree
  <2> QED
    BY <1>4, <2>1
<1>10. CASE Arrives
  BY <1>4, <1>10 DEF Arrives, Deliver
<1>11. CASE StartStep
  <2>1. fault' \in {fault, "past_end"} /\ pc = "start" /\ client' = client
    BY <1>11 DEF StartStep, StartLine
  <2> QED
    BY <1>4, <2>1
<1>12. CASE HeaderStep
  <2>1. fault' \in {fault, "past_end"} /\ pc = "lines" /\ client' = client
    BY <1>12 DEF HeaderStep, FromStrHeader
  <2> QED
    BY <1>4, <2>1
<1>13. CASE BodyStep
  BY <1>4, <1>13 DEF BodyStep, FromStrBody
<1>14. CASE HeaderFails
  BY <1>4, <1>14 DEF HeaderFails, FromStrHeaderFails
<1>15. CASE \E method \in AppMethods : AppStart(method)
  BY <1>4, <1>15 DEF AppStart
<1>16. CASE \E key \in AppKeys, value \in AppValues : AppSetHeader(key, value)
  BY <1>4, <1>16 DEF AppSetHeader, Calling
<1>17. CASE \E body \in AppBodies : AppWrite(body)
  BY <1>4, <1>17 DEF AppWrite, Calling
<1>18. CASE \E a \in Answers : Answer(a)
  BY <1>4, <1>18 DEF Answer
<1> QED
  BY <1>3, <1>5, <1>6, <1>7, <1>8, <1>9, <1>10, <1>11, <1>12, <1>13, <1>14, <1>15, <1>16, <1>17, <1>18, NextCases

----------------------------------------------------------------------------
(* The fields of a message *)

Fields == {"method", "host", "path", "port", "protocol", "status_code", "status_text", "headers", "body"}
(* A message is a function of its fields. *)
LEMMA FieldsAre ==
  ASSUME NEW m
  PROVE  IsMessage(m) <=> m = [f \in Fields |-> m[f]]
<1> DEFINE r == [method |-> m.method, host |-> m.host, path |-> m.path, port |-> m.port,
       protocol |-> m.protocol, status_code |-> m.status_code, status_text |-> m.status_text,
       headers |-> m.headers, body |-> m.body]
<1>1. r = [f \in Fields |-> r[f]]
  BY DEF Fields
<1>2. \A f \in Fields : r[f] = m[f]
  BY DEF Fields
<1> HIDE DEF r
<1>3. r = [f \in Fields |-> m[f]]
  BY <1>1, <1>2
<1> QED
  BY <1>3 DEF IsMessage, r

(* Fields other than the headers, the body *)
SameButHeaders(m, n) ==
  /\ m.method = n.method /\ m.host = n.host /\ m.path = n.path /\ m.port = n.port
  /\ m.protocol = n.protocol /\ m.status_code = n.status_code /\ m.status_text = n.status_text
  /\ m.body = n.body

(* A message made of its fields is one. *)
LEMMA MessageParts ==
  ASSUME NEW a, NEW b, NEW c, NEW d, NEW e, NEW f, NEW g, NEW h, NEW i
  PROVE  IsMessage([method |-> a, host |-> b, path |-> c, port |-> d, protocol |-> e,
                    status_code |-> f, status_text |-> g, headers |-> h, body |-> i])
BY DEF IsMessage

(* New headers leave the other fields alone. *)
LEMMA NewHeaders ==
  ASSUME NEW m, IsMessage(m), NEW h
  PROVE  /\ IsMessage([m EXCEPT !.headers = h]) /\ [m EXCEPT !.headers = h].headers = h
         /\ SameButHeaders([m EXCEPT !.headers = h], m)
BY DEF IsMessage, SameButHeaders

(* set_header sets one name and leaves the other fields alone. *)
LEMMA SetHeaderIs ==
  ASSUME NEW m, IsMessage(m), NEW key, NEW value
  PROVE  /\ IsMessage(set_header(m, key, value)) /\ SameButHeaders(set_header(m, key, value), m)
         /\ set_header(m, key, value).headers = SetTo(m.headers, normalized_cstr(key), value)
<1> DEFINE h == SetTo(m.headers, normalized_cstr(key), value)
<1>1. set_header(m, key, value) = [m EXCEPT !.headers = h]
  BY DEF set_header, SetTo, IsMessage
<1> QED
  BY <1>1, NewHeaders

(* Setting a header leaves headers. *)
LEMMA SetToHeaders ==
  ASSUME NEW h, IsHeaders(h), NEW key \in Plain({":", LF}), NEW value \in Plain({CR})
  PROVE  IsHeaders(SetTo(h, normalized_cstr(key), value))
<1> DEFINE k == normalized_cstr(key)
           n == SetTo(h, k, value)
<1>1. k \in Plain({":", LF}) /\ normalized_cstr(k) = k
  BY NormFacts, PlainTexts
<1>2. DOMAIN n = {k} \cup DOMAIN h /\ \A j \in DOMAIN n : n[j] = IF j = k THEN value ELSE h[j]
  BY DEF SetTo
<1>3. IsFiniteSet(DOMAIN n)
  BY <1>2, FS_AddElement DEF IsHeaders
<1>4. n = [j \in DOMAIN n |-> n[j]]
  BY DEF SetTo
<1> HIDE DEF k, n
<1> QED
  BY <1>1, <1>2, <1>3, <1>4 DEF IsHeaders, k, n

(* No headers are headers. *)
LEMMA NoHeaders == IsHeaders(<<>>) /\ DOMAIN <<>> = {}
<1>1. DOMAIN <<>> = {}
  OBVIOUS
<1>2. <<>> = [k \in DOMAIN <<>> |-> <<>>[k]]
  OBVIOUS
<1> QED
  BY <1>1, <1>2, FS_EmptySet DEF IsHeaders

(* What an application sets has no separator in it. *)
LEMMA AppTexts ==
  /\ \A key \in AppKeys : key \in Plain({":", LF})
  /\ \A value \in AppValues : value \in Plain({CR})
  /\ \A body \in AppBodies : body \in Seq(Char)
<1>1. /\ AppKeys \subseteq Words({":", LF}) /\ AppValues \subseteq Words({CR})
      /\ AppBodies \subseteq Seq(STRING)
  BY AppAssumption
<1>2. Words({":", LF}) \subseteq Plain({":", LF}) /\ Words({CR}) \subseteq Plain({CR})
  BY WordsArePlain
<1> QED
  BY <1>1, <1>2, StringsAreTexts

(* The messages that are built *)
LEMMA StartLineMessage ==
  ASSUME IsMessage(msg), NEW t, NEW len
  PROVE  /\ IsMessage(parse_request_start_line(t, len).message)
         /\ IsMessage(parse_response_start_line(t, len).message)
<1> DEFINE M(a, b, c) == [msg EXCEPT !.method = a, !.path = b, !.protocol = c]
           N(a, b, c) == [msg EXCEPT !.protocol = a, !.status_code = b, !.status_text = c]
<1>1. ASSUME NEW a, NEW b, NEW c PROVE IsMessage(M(a, b, c)) /\ IsMessage(N(a, b, c))
  <2>1. M(a, b, c) = [f \in Fields |-> M(a, b, c)[f]] /\ N(a, b, c) = [f \in Fields |-> N(a, b, c)[f]]
    BY FieldsAre DEF Fields
  <2> QED
    BY <2>1, FieldsAre
<1>2. \A r, m : Parsed(r, m).message = m
  BY DEF Parsed
<1>3. IsMessage(parse_request_start_line(t, len).message)
  <2> DEFINE x == parse_request_start_line(t, len)
  <2>1. \/ x = Parsed("false", msg) \/ x = Parsed("past_end", msg)
        \/ \E a, b, c : x = Parsed("true", M(a, b, c))
    BY DEF parse_request_start_line
  <2> HIDE DEF x, M
  <2>2. \E r, m : x = Parsed(r, m) /\ IsMessage(m)
    BY <1>1, <2>1
  <2> QED
    BY <1>2, <2>2 DEF x
<1>4. IsMessage(parse_response_start_line(t, len).message)
  <2> DEFINE x == parse_response_start_line(t, len)
  <2>1. \/ x = Parsed("false", msg) \/ \E a, b, c : x = Parsed("true", N(a, b, c))
    BY DEF parse_response_start_line
  <2> HIDE DEF x, N
  <2>2. \E r, m : x = Parsed(r, m) /\ IsMessage(m)
    BY <1>1, <2>1
  <2> QED
    BY <1>2, <2>2 DEF x
<1> QED
  BY <1>3, <1>4

(* Every step leaves a message. *)
LEMMA MessageKept ==
  ASSUME IsMessage(msg), Next
  PROVE  IsMessage(msg')
<1> USE DEF appVars, msgVars
<1>0. IsMessage(EmptyMessage) /\ \A n : IsMessage([EmptyMessage EXCEPT !.headers = n])
  BY NewMessage, NewHeaders
<1>1. CASE FromStr
  BY <1>1 DEF FromStr
<1>2. CASE RequestInit
  BY <1>0, <1>2 DEF RequestInit, MessageInit
<1>3. CASE SetHandshakeHeaders
  <2>1. CASE msg' = [EmptyMessage EXCEPT
                    !.path = RequestPath(client),
                    !.protocol = PROTOCOL,
                    !.host = client.host, !.port = client.port % 2^16,
                    !.headers = HeadersOf(HandshakeHeaders)]
    <3>1. msg' = [f \in Fields |-> msg'[f]]
      BY <1>0, <2>1, FieldsAre DEF Fields
    <3> QED
      BY <3>1, FieldsAre
  <2>2. CASE \E h : msg' = [EmptyMessage EXCEPT !.headers = h]
    BY <1>0, <2>2
  <2> QED
    BY <1>3, <2>1, <2>2 DEF SetHandshakeHeaders
<1>4. CASE PrintRequest
  <2>1. IsMessage(WithHost(msg))
    BY SetHeaderIs DEF WithHost
  <2>2. \A m \in Printed : IsMessage(m)
    BY <2>1 DEF Printed
  <2> QED
    BY <1>4, <2>2 DEF PrintRequest, RequestToStr, RequestToStrNull
<1>5. CASE GiveBack
  <2> DEFINE m == [msg EXCEPT !.protocol = NULL, !.path = NULL, !.host = NULL]
  <2>2. m = [f \in Fields |-> m[f]]
    BY FieldsAre DEF Fields
  <2>1. IsMessage(m)
    BY <2>2, FieldsAre
  <2> QED
    BY <1>5, <2>1 DEF GiveBack
<1>6. CASE Free
  BY <1>0, <1>6 DEF Free, MessageFree
<1>7. CASE Arrives
  BY <1>7 DEF Arrives, Deliver
<1>8. CASE StartStep
  BY <1>8, StartLineMessage DEF StartStep, StartLine
<1>9. CASE HeaderStep
  BY <1>9, SetHeaderIs DEF HeaderStep, FromStrHeader
<1>10. CASE BodyStep
  <2>1. \A b : IsMessage([msg EXCEPT !.body = b])
    BY DEF IsMessage
  <2>2. \E b : msg' = [msg EXCEPT !.body = msg.body \o b]
    BY <1>10 DEF BodyStep, FromStrBody
  <2> QED
    BY <2>1, <2>2
<1>11. CASE HeaderFails
  BY <1>11 DEF HeaderFails, FromStrHeaderFails, SetHeaderFails
<1>12. CASE \E method \in AppMethods : AppStart(method)
  <2>0. PICK method \in AppMethods : AppStart(method)
    BY <1>12
  <2>1. msg' = [msg EXCEPT !.method = method, !.path = <<"/", "p">>, !.protocol = PROTOCOL,
                           !.host = <<"h">>, !.port = 3000]
    BY <2>0 DEF AppStart
  <2> DEFINE R(a, b, c, d, e) ==
               [msg EXCEPT !.method = a, !.path = b, !.protocol = c, !.host = d, !.port = e]
  <2>2. ASSUME NEW a, NEW b, NEW c, NEW d, NEW e
        PROVE  R(a, b, c, d, e) = [f \in Fields |-> R(a, b, c, d, e)[f]]
    BY FieldsAre DEF Fields
  <2>3. msg' = R(method, <<"/", "p">>, PROTOCOL, <<"h">>, 3000)
    BY <2>1
  <2> HIDE DEF R
  <2> QED
    BY <2>2, <2>3, FieldsAre
<1>13. CASE \E key \in AppKeys, value \in AppValues : AppSetHeader(key, value)
  BY <1>13, SetHeaderIs DEF AppSetHeader, SetHeaderFails
<1>14. CASE \E body \in AppBodies : AppWrite(body)
  <2>1. \A b : IsMessage([msg EXCEPT !.body = b])
    BY DEF IsMessage
  <2>2. \E b : msg' = [msg EXCEPT !.body = msg.body \o b]
    BY <1>14 DEF AppWrite
  <2> QED
    BY <2>1, <2>2
<1>15. CASE \E a \in Answers : Answer(a)
  BY <1>15 DEF Answer
<1> QED
  BY <1>1, <1>2, <1>3, <1>4, <1>5, <1>6, <1>7, <1>8, <1>9, <1>10, <1>11, <1>12, <1>13, <1>14, <1>15, NextCases

----------------------------------------------------------------------------
(* Building a request *)

(* The fields of an initialised message. *)
LEMMA EmptyFields ==
  /\ EmptyMessage.method = "GET" /\ EmptyMessage.host = NULL /\ EmptyMessage.path = NULL
  /\ EmptyMessage.port = 80 /\ EmptyMessage.protocol = NULL /\ EmptyMessage.status_code = 0
  /\ EmptyMessage.status_text = NULL /\ EmptyMessage.headers = <<>> /\ EmptyMessage.body = <<>>
BY DEF EmptyMessage

(* A new request of an application. *)
LEMMA AppBegins ==
  ASSUME msg' = EmptyMessage
  PROVE  AppMessage(msg)'
<1>1. IsMessage(EmptyMessage) /\ IsHeaders(EmptyMessage.headers) /\ EmptyMessage.body \in Seq(Char)
      /\ DOMAIN EmptyMessage.headers = {}
  BY NewMessage, NoHeaders, EmptyFields
<1> QED
  BY <1>1, EmptyFields DEF AppMessage

(* AppStart keeps the application's request one. *)
LEMMA AppStarts ==
  ASSUME AppMessage(msg), NEW method \in AppMethods, AppStart(method)
  PROVE  AppMessage(msg)'
<1> DEFINE R(a, b, c, d, e) ==
             [msg EXCEPT !.method = a, !.path = b, !.protocol = c, !.host = d, !.port = e]
<1>1. ASSUME NEW a, NEW b, NEW c, NEW d, NEW e
      PROVE  LET r == R(a, b, c, d, e)
             IN /\ r = [f \in Fields |-> r[f]] /\ r.headers = msg.headers /\ r.body = msg.body
                /\ r.status_code = msg.status_code /\ r.status_text = msg.status_text
                /\ r.method = a /\ r.path = b /\ r.protocol = c /\ r.host = d /\ r.port = e
  <2> DEFINE r == R(a, b, c, d, e)
  <2>1. msg = [f \in Fields |-> msg[f]]
    BY FieldsAre DEF AppMessage
  <2>2. r = [f \in Fields |-> r[f]]
    BY <2>1 DEF Fields
  <2>3. r.method = a /\ r.path = b /\ r.protocol = c /\ r.host = d /\ r.port = e
    BY <2>1 DEF Fields
  <2>4. /\ r.headers = msg.headers /\ r.body = msg.body
        /\ r.status_code = msg.status_code /\ r.status_text = msg.status_text
    BY <2>1 DEF Fields
  <2> HIDE DEF R
  <2> QED
    BY <2>2, <2>3, <2>4
<1>2. msg' = R(method, <<"/", "p">>, PROTOCOL, <<"h">>, 3000) /\ calls' = calls
  BY DEF AppStart, appVars
<1> HIDE DEF R
<1>3. /\ IsMessage(msg') /\ msg'.headers = msg.headers /\ msg'.body = msg.body
      /\ msg'.status_code = msg.status_code /\ msg'.status_text = msg.status_text
      /\ msg'.method = method /\ msg'.path = <<"/", "p">> /\ msg'.protocol = PROTOCOL
      /\ msg'.host = <<"h">> /\ msg'.port = 3000
  BY <1>1, <1>2, FieldsAre
<1> QED
  BY <1>2, <1>3 DEF AppMessage

(* AppSetHeader keeps the application's request one. *)
LEMMA AppSets ==
  ASSUME AppMessage(msg), calls \in Nat, NEW key \in AppKeys, NEW value \in AppValues,
         AppSetHeader(key, value), pc' = "build"
  PROVE  AppMessage(msg)'
<1> DEFINE k == normalized_cstr(key)
           h == SetTo(msg.headers, k, value)
<1>1. msg' = set_header(msg, key, value) /\ calls' = calls + 1 /\ msg.path # NULL
  BY DEF AppSetHeader, Calling
<1>2. IsMessage(msg') /\ SameButHeaders(msg', msg) /\ msg'.headers = h
  BY <1>1, SetHeaderIs DEF AppMessage
<1>3. IsHeaders(h)
  <2>1. IsHeaders(msg.headers) /\ key \in Plain({":", LF}) /\ value \in Plain({CR})
    <3>1. IsHeaders(msg.headers)
      BY DEF AppMessage
    <3>2. key \in AppKeys /\ value \in AppValues
      OBVIOUS
    <3>3. key \in Plain({":", LF}) /\ value \in Plain({CR})
      BY ONLY <3>2, AppTexts
    <3> QED
      BY ONLY <3>1, <3>3
  <2> QED
    BY ONLY <2>1, SetToHeaders
<1>4. DOMAIN h = {k} \cup DOMAIN msg.headers
  BY DEF SetTo
<1>5. \A j \in DOMAIN h : \E x \in AppKeys : j = normalized_cstr(x)
  BY <1>4 DEF AppMessage
<1>6. calls' > 0
  BY ONLY <1>1, calls \in Nat
<1> HIDE DEF h, k
<1> QED
  BY <1>1, <1>2, <1>3, <1>5, <1>6 DEF AppMessage, SameButHeaders

(* AppWrite keeps the application's request one. *)
LEMMA AppWrites ==
  ASSUME AppMessage(msg), calls \in Nat, NEW body \in AppBodies, AppWrite(body)
  PROVE  AppMessage(msg)'
<1>1. msg' = [msg EXCEPT !.body = msg.body \o body] /\ calls' = calls + 1 /\ msg.path # NULL
  BY DEF AppWrite, Calling
<1>2. msg.body \o body \in Seq(Char)
  BY AppTexts DEF AppMessage
<1> DEFINE b == msg.body \o body
<1> HIDE DEF b
<1>6. msg = [f \in Fields |-> msg[f]] /\ msg' = [msg EXCEPT !.body = b]
  BY <1>1, FieldsAre DEF AppMessage, b
<1>7. msg' = [f \in Fields |-> msg'[f]]
  BY ONLY <1>6 DEF Fields
<1>3. /\ msg'.body = b /\ msg'.headers = msg.headers
      /\ msg'.status_code = msg.status_code /\ msg'.status_text = msg.status_text
      /\ msg'.method = msg.method /\ msg'.path = msg.path /\ msg'.protocol = msg.protocol
      /\ msg'.host = msg.host /\ msg'.port = msg.port
  BY ONLY <1>6 DEF Fields
<1>4. /\ IsMessage(msg') /\ msg'.headers = msg.headers /\ msg'.body \in Seq(Char)
      /\ msg'.status_code = msg.status_code /\ msg'.status_text = msg.status_text
      /\ msg'.method = msg.method /\ msg'.path = msg.path /\ msg'.protocol = msg.protocol
      /\ msg'.host = msg.host /\ msg'.port = msg.port
  BY <1>2, <1>3, <1>7, FieldsAre DEF b
<1>5. calls' > 0
  BY ONLY <1>1, calls \in Nat
<1> QED
  BY <1>1, <1>4, <1>5 DEF AppMessage

(* Every step keeps Building. *)
LEMMA BuildingStep ==
  ASSUME Control, Building, Next
  PROVE  Building'
<1> USE DEF taskVars, appVars, msgVars
<1>0. IsMessage(msg') /\ calls \in Nat
  BY MessageKept DEF Building, Control
<1>1. ASSUME pc' # "build" PROVE Building'
  BY <1>0, <1>1 DEF Building
<1>2. CASE FromStr
  BY <1>1, <1>2 DEF FromStr
<1>3. CASE RequestInit
  <2>1. msg' = EmptyMessage
    BY <1>3 DEF RequestInit, MessageInit
  <2> QED
    BY <1>0, <2>1, AppBegins DEF Building
<1>4. CASE SetHandshakeHeaders
  <2>1. pc' = "build" => msg' = HandshakeMsg
    BY <1>4 DEF SetHandshakeHeaders, HandshakeMsg
  <2>2. mode = "connect" /\ mode' = mode /\ client' = client
    BY <1>4 DEF SetHandshakeHeaders
  <2>3. HandshakeMsg' = HandshakeMsg
    BY <2>2 DEF HandshakeMsg, RequestPath
  <2> QED
    BY <1>0, <1>1, <2>1, <2>2, <2>3 DEF Building
<1>5. CASE PrintRequest
  BY <1>1, <1>5 DEF PrintRequest, RequestToStr, RequestToStrNull
<1>6. CASE GiveBack
  BY <1>1, <1>6 DEF GiveBack
<1>7. CASE Free
  BY <1>1, <1>7 DEF Free, MessageFree
<1>8. CASE Arrives
  BY <1>1, <1>8 DEF Arrives, Deliver
<1>9. CASE StartStep
  BY <1>1, <1>9 DEF StartStep, StartLine
<1>10. CASE HeaderStep
  BY <1>1, <1>10 DEF HeaderStep, FromStrHeader
<1>11. CASE BodyStep
  BY <1>1, <1>11 DEF BodyStep, FromStrBody
<1>12. CASE HeaderFails
  BY <1>1, <1>12 DEF HeaderFails, FromStrHeaderFails
<1>13. CASE \E method \in AppMethods : AppStart(method)
  <2>1. mode = "application" /\ mode' = mode /\ pc = "build"
    BY <1>13 DEF AppStart
  <2> QED
    BY <1>0, <1>13, <2>1, AppStarts DEF Building
<1>14. CASE \E key \in AppKeys, value \in AppValues : AppSetHeader(key, value)
  <2>1. mode = "application" /\ mode' = mode /\ pc = "build"
    BY <1>14 DEF AppSetHeader, Calling
  <2> QED
    BY <1>0, <1>1, <1>14, <2>1, AppSets DEF Building
<1>15. CASE \E body \in AppBodies : AppWrite(body)
  <2>1. mode = "application" /\ mode' = mode /\ pc = "build"
    BY <1>15 DEF AppWrite, Calling
  <2> QED
    BY <1>0, <1>15, <2>1, AppWrites DEF Building
<1>16. CASE \E a \in Answers : Answer(a)
  BY <1>1, <1>16 DEF Answer
<1> QED
  BY <1>2, <1>3, <1>4, <1>5, <1>6, <1>7, <1>8, <1>9, <1>10, <1>11, <1>12, <1>13, <1>14, <1>15, <1>16, NextCases

----------------------------------------------------------------------------
(* Printing *)

(* The lines of a message that is printed *)

(* An order of the hash map has every name once. *)
LEMMA OrderOf ==
  ASSUME NEW S, IsFiniteSet(S), NEW o \in SetToSeqs(S)
  PROVE  /\ o \in Seq(S) /\ Len(o) \in Nat /\ \A i \in 1..Len(o) : o[i] \in S
         /\ \A s \in S : \E i \in 1..Len(o) : o[i] = s
         /\ \A i, j \in 1..Len(o) : o[i] = o[j] => i = j
<1> DEFINE n == Cardinality(S)
           D == 1..n
<1>1. n \in Nat
  BY FS_CardinalityType
<1>2. o \in [D -> S] /\ \A i, j \in D : i # j => o[i] # o[j]
  BY DEF SetToSeqs
<1>3. o \in Seq(S) /\ Len(o) = n
  BY <1>1, <1>2
<1>4. IsFiniteSet(D) /\ Cardinality(D) = n
  <2>1. IsFiniteSet(1..n) /\ Cardinality(1..n) = IF 1 > n THEN 0 ELSE n - 1 + 1
    BY <1>1, FS_Interval
  <2> QED
    BY <1>1, <2>1
<1>5. o \in Injection(D, S)
  BY <1>2 DEF Injection, IsInjective
<1>6. o \in Surjection(D, S)
  <2> HIDE DEF D
  <2> QED
    BY <1>4, <1>5, FS_Injection
<1>7. \A s \in S : \E i \in D : o[i] = s
  BY <1>6 DEF Surjection
<1> QED
  BY <1>1, <1>2, <1>3, <1>7

Printing2(h, o) == [i \in 1..Len(o) |-> [key |-> o[i], value |-> h[o[i]]]]

(* In whatever order headers are printed, they are the headers of the        *)
(* lines.                                                                    *)
LEMMA PrintedHeaders ==
  ASSUME NEW h, IsHeaders(h), NEW o \in SetToSeqs(DOMAIN h)
  PROVE  /\ Printing2(h, o) \in Seq(HeaderLines) /\ Len(Printing2(h, o)) = Len(o)
         /\ HeadersOf(Printing2(h, o)) = h
<1> DEFINE ls == Printing2(h, o)
<1>1. /\ Len(o) \in Nat /\ \A i \in 1..Len(o) : o[i] \in DOMAIN h
      /\ \A s \in DOMAIN h : \E i \in 1..Len(o) : o[i] = s
      /\ \A i, j \in 1..Len(o) : o[i] = o[j] => i = j
  BY OrderOf DEF IsHeaders
<1>2. \A i \in 1..Len(o) : ls[i].key = o[i] /\ ls[i].value = h[o[i]] /\ ls[i] \in HeaderLines
  BY <1>1 DEF Printing2, IsHeaders, HeaderLines
<1>3. ls \in Seq(HeaderLines) /\ Len(ls) = Len(o)
  <2>1. ls = [i \in 1..Len(o) |-> ls[i]]
    BY DEF Printing2
  <2> HIDE DEF ls
  <2> QED
    BY ONLY <1>1, <1>2, <2>1
<1>4. \A i \in 1..Len(o) : normalized_cstr(ls[i].key) = o[i]
  BY <1>1, <1>2 DEF IsHeaders
<1> HIDE DEF ls
<1>5. Names(ls) = DOMAIN h
  <2>1. Names(ls) = {normalized_cstr(ls[i].key) : i \in 1..Len(o)}
    BY <1>3 DEF Names
  <2>2. \A k \in Names(ls) : k \in DOMAIN h
    BY ONLY <1>1, <1>4, <2>1
  <2>3. \A k \in DOMAIN h : k \in Names(ls)
    BY ONLY <1>1, <1>4, <2>1
  <2> QED
    BY ONLY <2>2, <2>3
<1>6. \A i \in 1..Len(o) : LastNamed(ls, o[i], i)
  <2> SUFFICES ASSUME NEW i \in 1..Len(o) PROVE LastNamed(ls, o[i], i)
    OBVIOUS
  <2>1. \A j \in (i + 1)..Len(o) : j \in 1..Len(o) /\ j # i
    BY <1>1
  <2>2. \A j \in (i + 1)..Len(o) : normalized_cstr(ls[j].key) # o[i]
    BY <1>1, <1>4, <2>1
  <2> QED
    BY <1>3, <1>4, <2>2 DEF LastNamed
<1>7. \A i \in 1..Len(o) : HeadersOf(ls)[o[i]] = h[o[i]]
  BY <1>1, <1>2, <1>3, <1>6, HeadersAre
<1>8. \A k \in DOMAIN h : HeadersOf(ls)[k] = h[k]
  BY <1>1, <1>7
<1>9. HeadersOf(ls) = [k \in DOMAIN h |-> HeadersOf(ls)[k]]
  BY <1>1, <1>3, <1>5, HeadersAre
<1>10. HeadersOf(ls) = [k \in DOMAIN h |-> h[k]]
  BY ONLY <1>8, <1>9
<1>11. HeadersOf(ls) = h
  BY ONLY <1>10, IsHeaders(h) DEF IsHeaders
<1> QED
  BY <1>3, <1>11 DEF ls

(* Header lines in a row are a text. *)
LEMMA LinesAreTexts ==
  ASSUME NEW ls \in Seq(HeaderLines)
  PROVE  FlattenSeq(LineTexts(ls)) \in Seq(Char)
<1>1. LineTexts(ls) \in Seq(Seq(Char)) /\ Len(LineTexts(ls)) \in Nat
  BY LineTextsSeq
<1>2. Len(LineTexts(ls)) \in 0..Len(LineTexts(ls))
  BY ONLY <1>1
<1> QED
  BY <1>1, <1>2, FlatSteps

Associates(a, b, c) == (a \o b) \o c = a \o (b \o c)

(* Three texts in a row. *)
LEMMA Associative ==
  ASSUME NEW S, NEW a \in Seq(S), NEW b \in Seq(S), NEW c \in Seq(S)
  PROVE  Associates(a, b, c)
<1>1. (a \o b) \o c = a \o (b \o c)
  BY ConcatAssociative
<1> QED
  BY ONLY <1>1 DEF Associates

SameJoin(a, b, c, d) == (a \o b) \o ((c \o b) \o d) = (((a \o b) \o c) \o b) \o d

(* Four texts in a row. *)
LEMMA FourTexts ==
  ASSUME NEW S, NEW a \in Seq(S), NEW b \in Seq(S), NEW c \in Seq(S), NEW d \in Seq(S)
  PROVE  SameJoin(a, b, c, d)
<1>1. a \o b \in Seq(S) /\ c \o b \in Seq(S) /\ (a \o b) \o c \in Seq(S)
  BY ConcatProperties
<1> DEFINE ab == a \o b
           cb == c \o b
<1> HIDE DEF ab, cb
<1>4. ab \in Seq(S) /\ cb \in Seq(S)
  BY ONLY <1>1 DEF ab, cb
<1>2. (ab \o cb) \o d = ab \o (cb \o d)
  <2>1. Associates(ab, cb, d)
    BY ONLY <1>4, d \in Seq(S), Associative
  <2> QED
    BY ONLY <2>1 DEF Associates
<1>3. ab \o cb = (ab \o c) \o b
  <2>1. Associates(ab, c, b)
    BY ONLY <1>4, b \in Seq(S), c \in Seq(S), Associative
  <2>2. (ab \o c) \o b = ab \o (c \o b)
    BY ONLY <2>1 DEF Associates
  <2> QED
    BY ONLY <2>2 DEF cb
<1>5. ab \o (cb \o d) = ((ab \o c) \o b) \o d
  BY ONLY <1>2, <1>3
<1> QED
  BY ONLY <1>5 DEF ab, cb, SameJoin

(* What can be printed and read back *)
Sendable(m) ==
  /\ IsMessage(m) /\ IsHeaders(m.headers) /\ m.body \in Seq(Char)
  /\ m.method \in Methods /\ m.path \in Plain({" ", LF}) /\ m.protocol = PROTOCOL
  /\ m.status_code = 0 /\ m.status_text = NULL

RequestStart(m) == <<m.method>> \o Space \o m.path \o Space \o m.protocol
RequestTail(m) == IF m.body # <<>> THEN m.body \o CRLF ELSE m.body

(* http_request_to_str prints a message. *)
LEMMA PrintedText ==
  ASSUME NEW m, Sendable(m), NEW o \in SetToSeqs(DOMAIN m.headers)
  PROVE  /\ http_request_to_str(m, o) = MessageText(RequestStart(m), Printing2(m.headers, o), RequestTail(m))
         /\ RequestTail(m) \in Seq(Char) /\ RequestStart(m) \in Seq(Char)
<1> DEFINE ls == Printing2(m.headers, o)
           a == RequestStart(m)
           F == FlattenSeq(LineTexts(ls))
           d == RequestTail(m)
<1>1. ls \in Seq(HeaderLines) /\ Len(ls) = Len(o) /\ Len(o) \in Nat
  BY PrintedHeaders, OrderOf DEF Sendable, IsHeaders
<1>2. F \in Seq(Char)
  BY <1>1, LinesAreTexts
<1>3. a \in Seq(Char)
  <2>1. m.method \in Char /\ m.path \in Seq(Char)
    BY PlainTexts DEF Sendable, Methods, Char, Literals
  <2>2. "HTTP/1.1" \in Char
    BY DEF Char, Literals
  <2>3. a = Three(m.method, m.path, "HTTP/1.1")
    BY DEF Sendable, RequestStart, PROTOCOL, Three
  <2>4. IsThree(Three(m.method, m.path, "HTTP/1.1"), m.method, m.path, "HTTP/1.1")
    BY ONLY <2>1, <2>2, ThreeParts
  <2> HIDE DEF a
  <2> QED
    BY ONLY <2>3, <2>4 DEF IsThree
<1>4. d \in Seq(Char) /\ d = IF m.body = <<>> THEN <<>> ELSE m.body \o CRLF
  <2>1. m.body \in Seq(Char) /\ CRLF \in Seq(Char)
    BY SeqTypes DEF Sendable
  <2>2. m.body \o CRLF \in Seq(Char)
    BY ONLY <2>1, ConcatProperties
  <2> QED
    BY ONLY <2>1, <2>2 DEF RequestTail
<1>5. [i \in 1..Len(o) |-> HeaderLine(o[i], m.headers[o[i]])] = LineTexts(ls)
  BY <1>1 DEF Printing2, LineTexts, LineText
<1>6. http_message_to_str(m, o) = F \o CRLF \o d
  BY <1>4, <1>5 DEF http_message_to_str
<1>7. http_method_get_string(m.method) = <<m.method>>
  BY DEF http_method_get_string, Sendable
<1>8. http_request_to_str(m, o) = (a \o CRLF) \o ((F \o CRLF) \o d)
  BY <1>6, <1>7 DEF http_request_to_str, RequestStart
<1>9. CRLF \in Seq(Char)
  BY SeqTypes
<1> HIDE DEF a, F, d
<1>10. http_request_to_str(m, o) = (((a \o CRLF) \o F) \o CRLF) \o d
  <2>1. a \in Seq(Char) /\ CRLF \in Seq(Char) /\ F \in Seq(Char) /\ d \in Seq(Char)
    BY ONLY <1>2, <1>3, <1>4, <1>9
  <2>2. (a \o CRLF) \o ((F \o CRLF) \o d) = (((a \o CRLF) \o F) \o CRLF) \o d
    <3>1. SameJoin(a, CRLF, F, d)
      BY ONLY <2>1, FourTexts
    <3> QED
      BY ONLY <3>1 DEF SameJoin
  <2> QED
    BY ONLY <1>8, <2>2
<1> QED
  BY <1>3, <1>4, <1>10 DEF MessageText, a, F, d

----------------------------------------------------------------------------
(* The parts of a URL *)

FourIn(w, a, b, c, d) ==
  /\ Len(a) \in Nat /\ Len(b) \in Nat /\ Len(c) \in Nat /\ Len(d) \in Nat
  /\ Len(w) = Len(a) + Len(b) + Len(c) + Len(d)
  /\ \A j \in 1..Len(a) : w[j] = a[j]
  /\ \A j \in 1..Len(b) : w[Len(a) + j] = b[j]
  /\ \A j \in 1..Len(c) : w[Len(a) + Len(b) + j] = c[j]
  /\ \A j \in 1..Len(d) : w[Len(a) + Len(b) + Len(c) + j] = d[j]

(* Where the characters of four texts in a row are. *)
LEMMA FourParts ==
  ASSUME NEW S, NEW a \in Seq(S), NEW b \in Seq(S), NEW c \in Seq(S), NEW d \in Seq(S)
  PROVE  a \o b \o c \o d \in Seq(S) /\ FourIn(a \o b \o c \o d, a, b, c, d)
<1> DEFINE x == a \o b
           y == x \o c
           w == y \o d
           A == Len(a)
           B == Len(b)
           C == Len(c)
           D == Len(d)
<1>1. /\ x \in Seq(S) /\ A \in Nat /\ B \in Nat /\ Len(x) = A + B
      /\ \A j \in 1..A : x[j] = a[j]
      /\ \A j \in 1..B : x[A + j] = b[j]
  BY Joins
<1> HIDE DEF x
<1>2. /\ y \in Seq(S) /\ Len(x) \in Nat /\ C \in Nat /\ Len(y) = Len(x) + C
      /\ \A j \in 1..Len(x) : y[j] = x[j]
      /\ \A j \in 1..C : y[Len(x) + j] = c[j]
  <2>1. x \in Seq(S) /\ c \in Seq(S)
    BY <1>1
  <2> QED
    BY ONLY <2>1, Joins
<1> HIDE DEF y
<1>3. /\ w \in Seq(S) /\ Len(y) \in Nat /\ D \in Nat /\ Len(w) = Len(y) + D
      /\ \A j \in 1..Len(y) : w[j] = y[j]
      /\ \A j \in 1..D : w[Len(y) + j] = d[j]
  <2>1. y \in Seq(S) /\ d \in Seq(S)
    BY <1>2
  <2> QED
    BY ONLY <2>1, Joins
<1> HIDE DEF w, A, B, C, D
<1>4. A + B = Len(x) /\ A + B + C = Len(y) /\ Len(w) = A + B + C + D
  BY ONLY <1>1, <1>2, <1>3
<1>5. \A j \in 1..A : w[j] = a[j]
  <2>1. \A j \in 1..A : j \in 1..Len(x) /\ j \in 1..Len(y)
    BY ONLY <1>1, <1>2, <1>3, <1>4
  <2> QED
    BY ONLY <1>1, <1>2, <1>3, <2>1
<1>6. \A j \in 1..B : w[A + j] = b[j]
  <2>1. \A j \in 1..B : A + j \in 1..Len(x) /\ A + j \in 1..Len(y)
    BY ONLY <1>1, <1>2, <1>3, <1>4
  <2> QED
    BY ONLY <1>1, <1>2, <1>3, <2>1
<1>7. \A j \in 1..C : w[A + B + j] = c[j]
  <2>1. \A j \in 1..C : A + B + j \in 1..Len(y) /\ A + B + j = Len(x) + j
    BY ONLY <1>1, <1>2, <1>3, <1>4
  <2> QED
    BY ONLY <1>2, <1>3, <2>1
<1>8. \A j \in 1..D : w[A + B + C + j] = d[j]
  BY ONLY <1>3, <1>4
<1> QED
  BY ONLY <1>1, <1>2, <1>3, <1>4, <1>5, <1>6, <1>7, <1>8 DEF FourIn, w, y, x, A, B, C, D

(* The parts of a URL's text *)
PortPart(u) == IF u.port = NoPort THEN <<>> ELSE <<PORT_SEP>> \o to_str(u.port)
PathPart(u) == IF u.path = NULL THEN <<>> ELSE u.path

IsUrl(u) ==
  /\ IsScheme(u.scheme)
  /\ u.host \in Words({PORT_SEP, PATH_SEP, CR}) /\ u.host # NULL
  /\ u.port = NoPort \/ u.port \in Nat
  /\ \/ u.path = NULL
     \/ u.path \in Words({" ", LF}) /\ u.path # <<>> /\ u.path[1] = PATH_SEP

(* The URLs of the constants are URLs. *)
LEMMA UrlsAreUrls == \A u \in Urls : IsUrl(u)
BY UrlsAssumption DEF IsUrl

(* A scheme ends in its only colon and two slashes. *)
LEMMA SchemeIs ==
  ASSUME NEW s, IsScheme(s)
  PROVE  /\ s \in Seq(Char) /\ Len(s) \in Nat /\ Len(s) >= 3
         /\ s[Len(s) - 2] = ":" /\ s[Len(s) - 1] = "/" /\ s[Len(s)] = "/"
         /\ \A i \in 1..(Len(s) - 3) : s[i] # ":"
<1> DEFINE n == Len(s)
           x == SubSeq(s, n - 2, n)
           y == SubSeq(s, 1, n - 3)
<1>1. s \in Seq(STRING) /\ n >= 3 /\ x = <<":", "/", "/">> /\ y \in Words({":", "/"})
  BY DEF IsScheme
<1>2. n \in Nat /\ \A i \in 1..n : s[i] \in STRING
  BY <1>1
<1>3. s \in Seq(Char)
  BY <1>1, StringsAreTexts
<1>4. \A i \in 1..3 : x[i] = s[(n - 2) + i - 1]
  <2>1. n - 2 \in Int /\ n \in Int /\ (\A i \in (n - 2)..n : i \in 1..n) /\ n - (n - 2) + 1 = 3
    BY ONLY <1>1, <1>2
  <2>2. \A i \in (n - 2)..n : s[i] \in STRING
    BY <1>2, <2>1
  <2> HIDE DEF n
  <2>3. \A i \in 1..(n - (n - 2) + 1) : x[i] = s[(n - 2) + i - 1]
    BY ONLY <2>1, <2>2, SubSeqProperties
  <2> QED
    BY ONLY <2>1, <2>3
<1>5. \A i \in 1..(n - 3) : y[i] = s[i]
  <2>1. 1 \in Int /\ n - 3 \in Int /\ (\A i \in 1..(n - 3) : i \in 1..n) /\ (n - 3) - 1 + 1 = n - 3
        /\ \A i \in 1..(n - 3) : 1 + i - 1 = i
    BY ONLY <1>1, <1>2
  <2>2. \A i \in 1..(n - 3) : s[i] \in STRING
    BY <1>2, <2>1
  <2> HIDE DEF n
  <2>3. \A i \in 1..((n - 3) - 1 + 1) : y[i] = s[1 + i - 1]
    BY ONLY <2>1, <2>2, SubSeqProperties
  <2> QED
    BY ONLY <2>1, <2>3
<1>11. n \in Nat /\ n >= 3
  BY ONLY <1>1, <1>2
<1>6. Len(y) = n - 3
  <2>1. 1 \in Int /\ n - 3 \in Int /\ (\A i \in 1..(n - 3) : i \in 1..n)
    BY ONLY <1>1, <1>2
  <2>4. /\ 1 <= n - 3 => (n - 3) - 1 + 1 = n - 3
        /\ ~(1 <= n - 3) => n - 3 = 0
    <3> HIDE DEF n
    <3> QED
      BY ONLY <1>11
  <2>2. \A i \in 1..(n - 3) : s[i] \in STRING
    BY <1>2, <2>1
  <2> HIDE DEF n
  <2>3. Len(y) = IF 1 <= n - 3 THEN (n - 3) - 1 + 1 ELSE 0
    BY ONLY <2>1, <2>2, SubSeqProperties
  <2> QED
    BY ONLY <2>3, <2>4
<1>7. \A i \in 1..(n - 3) : y[i] # ":"
  <2>1. \A i \in 1..Len(y) : y[i] \notin {":", "/"}
    BY <1>1 DEF Words
  <2> QED
    BY <1>6, <2>1
<1>8. x[1] = ":" /\ x[2] = "/" /\ x[3] = "/"
  <2> HIDE DEF x
  <2>1. x = <<":", "/", "/">>
    BY <1>1
  <2> QED
    BY ONLY <2>1
<1>9. (n - 2) + 1 - 1 = n - 2 /\ (n - 2) + 2 - 1 = n - 1 /\ (n - 2) + 3 - 1 = n
      /\ 1 \in 1..3 /\ 2 \in 1..3 /\ 3 \in 1..3
  BY ONLY <1>2
<1>10. s[n - 2] = ":" /\ s[n - 1] = "/" /\ s[n] = "/"
  BY ONLY <1>4, <1>8, <1>9
<1> QED
  BY ONLY <1>1, <1>2, <1>3, <1>5, <1>7, <1>10

(* A prefix, character by character. *)
LEMMA PrefixIs ==
  ASSUME NEW S, NEW p \in Seq(S), NEW t \in Seq(S)
  PROVE  IsPrefix(p, t) <=> Len(p) <= Len(t) /\ \A j \in 1..Len(p) : t[j] = p[j]
<1> DEFINE n == Len(p)
           m == Len(t)
           x == SubSeq(p, 1, n)
           y == SubSeq(t, 1, n)
<1>1. n \in Nat /\ m \in Nat
  OBVIOUS
<1>2. CASE ~(n <= m)
  BY <1>2 DEF IsPrefix
<1>3. CASE n <= m
  <2>1. n \in 0..Len(p) /\ n \in 0..Len(t)
    BY <1>1, <1>3
  <2>2. x \in Seq(S) /\ Len(x) = n /\ \A j \in 1..n : x[j] = p[j]
    BY <2>1, CutFacts
  <2>3. y \in Seq(S) /\ Len(y) = n /\ \A j \in 1..n : y[j] = t[j]
    BY <2>1, CutFacts
  <2>4. IsPrefix(p, t) <=> x = y
    BY <1>3 DEF IsPrefix
  <2> HIDE DEF x, y, n
  <2>5. (\A j \in 1..n : t[j] = p[j]) => x = y
    <3> SUFFICES ASSUME \A j \in 1..n : t[j] = p[j] PROVE x = y
      OBVIOUS
    <3>1. \A j \in 1..n : x[j] = y[j]
      BY <2>2, <2>3
    <3>2. Len(x) = Len(y) /\ \A j \in 1..Len(x) : x[j] = y[j]
      BY <2>2, <2>3, <3>1
    <3> QED
      BY ONLY <2>2, <2>3, <3>2, SeqEqual
  <2>6. x = y => \A j \in 1..n : t[j] = p[j]
    BY ONLY <2>2, <2>3
  <2> QED
    BY ONLY <1>3, <2>4, <2>5, <2>6 DEF n, m
<1> QED
  BY <1>2, <1>3

(* The two schemes, character by character. *)
LEMMA WsPrefixes ==
  /\ WS_PREFIX \in Seq(Char) /\ Len(WS_PREFIX) = 5 /\ WSS_PREFIX \in Seq(Char) /\ Len(WSS_PREFIX) = 6
  /\ WS_PREFIX[1] = "w" /\ WS_PREFIX[2] = "s" /\ WS_PREFIX[3] = ":" /\ WS_PREFIX[4] = "/" /\ WS_PREFIX[5] = "/"
  /\ WSS_PREFIX[1] = "w" /\ WSS_PREFIX[2] = "s" /\ WSS_PREFIX[3] = "s" /\ WSS_PREFIX[4] = ":" /\ WSS_PREFIX[5] = "/" /\ WSS_PREFIX[6] = "/"
<1>1. "w" \in Char /\ "s" \in Char /\ ":" \in Char /\ "/" \in Char
  BY DEF Char, Literals
<1>2. \A a, b, c, d, e \in Char : <<a, b, c, d, e>> \in Seq(Char)
  OBVIOUS
<1>3. \A a, b, c, d, e, f \in Char : <<a, b, c, d, e, f>> \in Seq(Char)
  OBVIOUS
<1>4. WS_PREFIX \in Seq(Char) /\ WSS_PREFIX \in Seq(Char)
  BY ONLY <1>1, <1>2, <1>3 DEF WS_PREFIX, WSS_PREFIX
<1>5. Len(WS_PREFIX) = 5 /\ Len(WSS_PREFIX) = 6
  BY ONLY DEF WS_PREFIX, WSS_PREFIX
<1>6. WS_PREFIX[1] = "w" /\ WS_PREFIX[2] = "s" /\ WS_PREFIX[3] = ":" /\ WS_PREFIX[4] = "/" /\ WS_PREFIX[5] = "/"
  BY ONLY DEF WS_PREFIX
<1>7. WSS_PREFIX[1] = "w" /\ WSS_PREFIX[2] = "s" /\ WSS_PREFIX[3] = "s" /\ WSS_PREFIX[4] = ":" /\ WSS_PREFIX[5] = "/" /\ WSS_PREFIX[6] = "/"
  BY ONLY DEF WSS_PREFIX
<1> QED
  BY <1>4, <1>5, <1>6, <1>7

(* The text of a URL and its four parts *)
UrlPart(u) ==
  /\ u.scheme \in Seq(Char) /\ u.host \in Plain({":", "/"}) /\ u.host \in Plain({CR})
  /\ PortPart(u) \in Seq(Char) /\ PathPart(u) \in Seq(Char)
  /\ UrlText(u) = u.scheme \o u.host \o PortPart(u) \o PathPart(u)
  /\ \/ u.port = NoPort /\ PortPart(u) = <<>>
     \/ /\ u.port \in Nat /\ u.port # NoPort /\ to_str(u.port) \in Numerals
        /\ Len(PortPart(u)) = 1 + Len(to_str(u.port)) /\ PortPart(u)[1] = ":"
        /\ \A j \in 1..Len(to_str(u.port)) : PortPart(u)[1 + j] = to_str(u.port)[j]
  /\ \/ u.path = NULL /\ PathPart(u) = <<>>
     \/ /\ u.path # NULL /\ PathPart(u) = u.path /\ u.path \in Plain({" ", LF})
        /\ u.path # <<>> /\ u.path[1] = "/"

(* The parts of a URL as texts. *)
LEMMA UrlParts ==
  ASSUME NEW u, IsUrl(u)
  PROVE  UrlPart(u)
<1>1. u.scheme \in Seq(Char)
  BY SchemeIs DEF IsUrl
<1>2. u.host \in Plain({":", "/"}) /\ u.host \in Plain({CR})
  <2>1. u.host \in Words({":", "/", CR})
    BY DEF IsUrl, PORT_SEP, PATH_SEP
  <2>2. u.host \in Plain({":", "/", CR})
    BY ONLY <2>1, WordsArePlain
  <2> QED
    BY ONLY <2>2 DEF Plain
<1>3. PortPart(u) \in Seq(Char) /\ (\/ u.port = NoPort /\ PortPart(u) = <<>>
     \/ /\ u.port \in Nat /\ u.port # NoPort /\ to_str(u.port) \in Numerals
        /\ Len(PortPart(u)) = 1 + Len(to_str(u.port)) /\ PortPart(u)[1] = ":"
        /\ \A j \in 1..Len(to_str(u.port)) : PortPart(u)[1 + j] = to_str(u.port)[j])
  <2>1. CASE u.port = NoPort
    <3>1. PortPart(u) = <<>>
      BY <2>1 DEF PortPart
    <3>2. <<>> \in Seq(Char)
      BY EmptySeq
    <3> QED
      BY ONLY <2>1, <3>1, <3>2
  <2>2. CASE u.port # NoPort
    <3>1. u.port \in Nat
      BY <2>2 DEF IsUrl
    <3> DEFINE a == <<PORT_SEP>>
               b == to_str(u.port)
    <3>2. b \in Numerals /\ b \in Seq(Char)
      BY <3>1, AtoiOfDecimal DEF Numerals
    <3>3. PORT_SEP \in Char /\ PORT_SEP = ":"
      BY DEF PORT_SEP, Char, Literals
    <3>4. a \in Seq(Char) /\ Len(a) = 1 /\ a[1] = PORT_SEP
      BY ONLY <3>3, CharText
    <3>5. PortPart(u) = a \o b
      BY <2>2 DEF PortPart
    <3> HIDE DEF a, b
    <3>6. /\ a \o b \in Seq(Char) /\ Len(a \o b) = Len(a) + Len(b)
          /\ \A i \in 1..Len(a) : (a \o b)[i] = a[i]
          /\ \A i \in 1..Len(b) : (a \o b)[Len(a) + i] = b[i]
      <4>1. a \in Seq(Char) /\ b \in Seq(Char)
        BY ONLY <3>2, <3>4
      <4> QED
        BY ONLY <4>1, Joins
    <3>7. 1 \in 1..1
      BY ONLY TRUE
    <3>8. (a \o b)[1] = ":" /\ Len(a \o b) = 1 + Len(b) /\ \A i \in 1..Len(b) : (a \o b)[1 + i] = b[i]
      BY ONLY <3>3, <3>4, <3>6, <3>7
    <3> QED
      BY ONLY <2>2, <3>1, <3>2, <3>5, <3>6, <3>8 DEF b
  <2> QED
    BY <2>1, <2>2
<1>4. PathPart(u) \in Seq(Char) /\ (\/ u.path = NULL /\ PathPart(u) = <<>>
     \/ /\ u.path # NULL /\ PathPart(u) = u.path /\ u.path \in Plain({" ", LF})
        /\ u.path # <<>> /\ u.path[1] = "/")
  <2>1. CASE u.path = NULL
    <3>1. PathPart(u) = <<>>
      BY <2>1 DEF PathPart
    <3>2. <<>> \in Seq(Char)
      BY EmptySeq
    <3> QED
      BY ONLY <2>1, <3>1, <3>2
  <2>2. CASE u.path # NULL
    <3>1. u.path \in Words({" ", LF}) /\ u.path # <<>> /\ u.path[1] = "/" /\ PathPart(u) = u.path
      BY <2>2 DEF IsUrl, PATH_SEP, PathPart
    <3>2. u.path \in Plain({" ", LF})
      BY ONLY <3>1, WordsArePlain
    <3>3. u.path \in Seq(Char)
      BY ONLY <3>2 DEF Plain
    <3> QED
      BY ONLY <2>2, <3>1, <3>2, <3>3
  <2> QED
    BY <2>1, <2>2
<1>5. UrlText(u) = u.scheme \o u.host \o PortPart(u) \o PathPart(u)
  BY DEF UrlText, PortPart, PathPart
<1> QED
  BY <1>1, <1>2, <1>3, <1>4, <1>5 DEF UrlPart

ColonAt(p) ==
  /\ p \in Seq(Char) /\ Len(p) \in Nat /\ Len(p) >= 3 /\ p[Len(p) - 2] = ":"
  /\ \A i \in 1..(Len(p) - 3) : p[i] # ":"

(* Two schemes that begin one text are one scheme. *)
LEMMA OneScheme ==
  ASSUME NEW p, NEW s, NEW w, ColonAt(p), ColonAt(s), Len(w) \in Nat, Len(s) <= Len(w),
         \A j \in 1..Len(s) : w[j] = s[j]
  PROVE  s = p <=> Len(p) <= Len(w) /\ \A j \in 1..Len(p) : w[j] = p[j]
<1> DEFINE n == Len(s)
           k == Len(p)
<1>1. n \in Nat /\ k \in Nat /\ n >= 3 /\ k >= 3 /\ s \in Seq(Char) /\ p \in Seq(Char)
  BY DEF ColonAt
<1>2. s[n - 2] = ":" /\ \A i \in 1..(n - 3) : s[i] # ":"
  BY DEF ColonAt
<1>3. p[k - 2] = ":" /\ \A i \in 1..(k - 3) : p[i] # ":"
  BY DEF ColonAt
<1>4. \A j \in 1..n : w[j] = s[j]
  OBVIOUS
<1>5. ASSUME Len(p) <= Len(w), \A j \in 1..Len(p) : w[j] = p[j] PROVE s = p
  <2>0. \A j \in 1..k : w[j] = p[j]
    BY <1>5
  <2> HIDE DEF n, k
  <2>6. n \in Nat /\ k \in Nat /\ n >= 3 /\ k >= 3
    BY ONLY <1>1
  <2>1. ~(n < k)
    <3>1. n < k => n - 2 \in 1..n /\ n - 2 \in 1..k /\ n - 2 \in 1..(k - 3)
      BY ONLY <2>6
    <3> QED
      BY ONLY <1>2, <1>3, <1>4, <2>0, <3>1
  <2>2. ~(k < n)
    <3>1. k < n => k - 2 \in 1..k /\ k - 2 \in 1..n /\ k - 2 \in 1..(n - 3)
      BY ONLY <2>6
    <3> QED
      BY ONLY <1>2, <1>3, <1>4, <2>0, <3>1
  <2>3. n = k
    BY ONLY <2>6, <2>1, <2>2
  <2>4. \A j \in 1..n : s[j] = p[j]
    BY ONLY <1>4, <2>0, <2>3
  <2>5. Len(s) = Len(p) /\ \A j \in 1..Len(s) : s[j] = p[j]
    BY ONLY <2>3, <2>4 DEF n, k
  <2> QED
    BY ONLY <1>1, <2>5, SeqEqual
<1> QED
  BY <1>5

(* Refused: HostOffset is 0. *)
Refused(u, ssl) ==
  \/ u.scheme \notin {WS_PREFIX} \cup (IF ssl THEN {WSS_PREFIX} ELSE {})
  \/ Len(UrlText(u)) <= 6

UrlIn(u) ==
  /\ UrlText(u) \in Seq(Char) /\ Len(UrlText(u)) \in Nat
  /\ FourIn(UrlText(u), u.scheme, u.host, PortPart(u), PathPart(u))

(* A URL is its four parts in a row. *)
LEMMA UrlLayout ==
  ASSUME NEW u, IsUrl(u)
  PROVE  UrlIn(u)
<1>1. u.scheme \in Seq(Char) /\ u.host \in Seq(Char) /\ PortPart(u) \in Seq(Char) /\ PathPart(u) \in Seq(Char)
  BY UrlParts, PlainTexts DEF UrlPart
<1>2. UrlText(u) = u.scheme \o u.host \o PortPart(u) \o PathPart(u)
  BY UrlParts DEF UrlPart
<1> DEFINE w == u.scheme \o u.host \o PortPart(u) \o PathPart(u)
<1>3. w \in Seq(Char) /\ FourIn(w, u.scheme, u.host, PortPart(u), PathPart(u))
  BY ONLY <1>1, FourParts
<1> HIDE DEF w
<1>4. Len(w) \in Nat
  BY ONLY <1>3
<1> QED
  BY ONLY <1>2, <1>3, <1>4 DEF UrlIn, w

(* HostOffset skips the scheme of a URL that is not refused. *)
LEMMA UrlOffset ==
  ASSUME NEW u, IsUrl(u), NEW ssl
  PROVE  /\ Refused(u, ssl) => HostOffset(UrlText(u), ssl) = 0
         /\ ~Refused(u, ssl) =>
              /\ HostOffset(UrlText(u), ssl) = Len(u.scheme)
              /\ \/ u.scheme = WS_PREFIX /\ Len(u.scheme) = 5
                 \/ u.scheme = WSS_PREFIX /\ Len(u.scheme) = 6
<1> DEFINE w == UrlText(u)
           s == u.scheme
<1>1. w \in Seq(Char) /\ Len(w) \in Nat /\ (\A j \in 1..Len(s) : w[j] = s[j]) /\ Len(s) <= Len(w)
  <2>1. FourIn(w, s, u.host, PortPart(u), PathPart(u)) /\ w \in Seq(Char) /\ Len(w) \in Nat
    BY UrlLayout DEF UrlIn
  <2>2. \A j \in 1..Len(s) : w[j] = s[j]
    BY ONLY <2>1 DEF FourIn
  <2> DEFINE A == Len(s)
             B == Len(u.host)
             C == Len(PortPart(u))
             D == Len(PathPart(u))
             W == Len(w)
  <2>3. A \in Nat /\ B \in Nat /\ C \in Nat /\ D \in Nat /\ W = A + B + C + D
    BY ONLY <2>1 DEF FourIn
  <2> HIDE DEF A, B, C, D, W
  <2>4. A <= W
    BY ONLY <2>3
  <2> QED
    BY ONLY <2>1, <2>2, <2>4 DEF A, W
<1>2. ColonAt(s)
  BY SchemeIs DEF IsUrl, ColonAt
<1>3. ColonAt(WS_PREFIX) /\ ColonAt(WSS_PREFIX)
  <2>1. 5 - 2 = 3 /\ 6 - 2 = 4 /\ 5 \in Nat /\ 6 \in Nat /\ 5 >= 3 /\ 6 >= 3
        /\ (\A i \in 1..(5 - 3) : i = 1 \/ i = 2) /\ (\A i \in 1..(6 - 3) : i = 1 \/ i = 2 \/ i = 3)
    BY ONLY TRUE
  <2>2. "w" # ":" /\ "s" # ":"
    BY ONLY TRUE
  <2> QED
    BY ONLY <2>1, <2>2, WsPrefixes DEF ColonAt
<1> HIDE DEF w, s
<1>4. IsPrefix(WS_PREFIX, w) <=> s = WS_PREFIX
  <2>1. s = WS_PREFIX <=> Len(WS_PREFIX) <= Len(w) /\ \A j \in 1..Len(WS_PREFIX) : w[j] = WS_PREFIX[j]
    BY ONLY <1>1, <1>2, <1>3, OneScheme
  <2>2. w \in Seq(Char) /\ WS_PREFIX \in Seq(Char)
    BY <1>1, WsPrefixes
  <2>3. IsPrefix(WS_PREFIX, w) <=> Len(WS_PREFIX) <= Len(w) /\ \A j \in 1..Len(WS_PREFIX) : w[j] = WS_PREFIX[j]
    BY ONLY <2>2, PrefixIs
  <2> QED
    BY ONLY <2>1, <2>3
<1>5. IsPrefix(WSS_PREFIX, w) <=> s = WSS_PREFIX
  <2>1. s = WSS_PREFIX <=> Len(WSS_PREFIX) <= Len(w) /\ \A j \in 1..Len(WSS_PREFIX) : w[j] = WSS_PREFIX[j]
    BY ONLY <1>1, <1>2, <1>3, OneScheme
  <2>2. w \in Seq(Char) /\ WSS_PREFIX \in Seq(Char)
    BY <1>1, WsPrefixes
  <2>3. IsPrefix(WSS_PREFIX, w) <=> Len(WSS_PREFIX) <= Len(w) /\ \A j \in 1..Len(WSS_PREFIX) : w[j] = WSS_PREFIX[j]
    BY ONLY <2>2, PrefixIs
  <2> QED
    BY ONLY <2>1, <2>3
<1>6. Len(WS_PREFIX) = 5 /\ Len(WSS_PREFIX) = 6
  BY WsPrefixes
<1>7. HostOffset(w, ssl) = IF Len(w) <= 6 THEN 0 ELSE IF s = WS_PREFIX THEN 5
                           ELSE IF s = WSS_PREFIX /\ ssl THEN 6 ELSE 0
  BY ONLY <1>4, <1>5, <1>6 DEF HostOffset
<1>8. Refused(u, ssl) <=> Len(w) <= 6 \/ (s # WS_PREFIX /\ ~(s = WSS_PREFIX /\ ssl))
  BY DEF Refused, w, s
<1> DEFINE small == Len(w) <= 6
           o == HostOffset(w, ssl)
           refused == Refused(u, ssl)
           five == s = WS_PREFIX
           six == s = WSS_PREFIX /\ ssl
<1>9. /\ o = IF small THEN 0 ELSE IF five THEN 5 ELSE IF six THEN 6 ELSE 0
      /\ refused <=> small \/ (~five /\ ~six)
      /\ (five => Len(s) = 5) /\ (six => Len(s) = 6)
  BY ONLY <1>6, <1>7, <1>8
<1>10. (five => s = WS_PREFIX) /\ (six => s = WSS_PREFIX)
  OBVIOUS
<1> HIDE DEF small, o, refused, five, six
<1>11. (refused => o = 0) /\ (~refused => o = Len(s) /\ ((five /\ Len(s) = 5) \/ (six /\ Len(s) = 6)))
  BY ONLY <1>9
<1> QED
  BY ONLY <1>10, <1>11 DEF w, s, o, refused

(* Where the parts of a URL end *)
UrlEnds(w, A, B, C, D) ==
  /\ A \in Nat /\ B \in Nat /\ C \in Nat /\ D \in Nat /\ Len(w) = A + B + C + D
  /\ strcspn(w, A, {":", "/"}) = B
  /\ C > 0 => w[A + B + 1] = ":" /\ strcspn(w, A + B + 1, {"/"}) = C - 1
  /\ D > 0 => w[A + B + C + 1] = "/"

(* No digit is a separator. *)
LEMMA DigitsOnly == \A d \in DigitChars : d \notin {":", "/"}
BY DEF DigitChars

(* Where ws_client_from_str finds the ends of host, port and path. *)
LEMMA UrlSpans ==
  ASSUME NEW u, UrlPart(u), UrlIn(u)
  PROVE  UrlEnds(UrlText(u), Len(u.scheme), Len(u.host), Len(PortPart(u)), Len(PathPart(u)))
<1> DEFINE w == UrlText(u)
           h == u.host
           c == PortPart(u)
           d == PathPart(u)
           A == Len(u.scheme)
           B == Len(h)
           C == Len(c)
           D == Len(d)
           W == Len(w)
<1>1. A \in Nat /\ B \in Nat /\ C \in Nat /\ D \in Nat /\ W = A + B + C + D
  BY DEF UrlIn, FourIn
<1>2. \A j \in 1..B : w[A + j] = h[j]
  BY DEF UrlIn, FourIn
<1>3. \A j \in 1..C : w[A + B + j] = c[j]
  BY DEF UrlIn, FourIn
<1>4. \A j \in 1..D : w[A + B + C + j] = d[j]
  BY DEF UrlIn, FourIn
<1>5. \A j \in 1..B : h[j] \notin {":", "/"}
  BY PlainTexts DEF UrlPart
<1>6. C > 0 => c[1] = ":" /\ \A j \in 2..C : c[j] \notin {":", "/"}
  <2>1. CASE u.port = NoPort /\ c = <<>>
    <3>1. C = 0
      BY <2>1
    <3> HIDE DEF C
    <3> QED
      BY ONLY <3>1
  <2>2. CASE ~(u.port = NoPort /\ c = <<>>)
    <3> DEFINE b == to_str(u.port)
               L == Len(b)
    <3>1. b \in Numerals /\ C = 1 + L /\ c[1] = ":" /\ \A j \in 1..L : c[1 + j] = b[j]
      BY <2>2 DEF UrlPart
    <3>2. L \in Nat /\ \A j \in 1..L : b[j] \in DigitChars
      BY <3>1 DEF Numerals
    <3> HIDE DEF b, C
    <3>3. C = 1 + L /\ L \in Nat
      BY ONLY <3>1, <3>2
    <3> HIDE DEF L
    <3>4. \A j \in 2..C : j - 1 \in 1..L /\ 1 + (j - 1) = j
      BY ONLY <3>3
    <3>5. \A j \in 2..C : c[j] \in DigitChars
      BY ONLY <3>1, <3>2, <3>4
    <3>6. \A j \in 2..C : c[j] \notin {":", "/"}
      BY ONLY <3>5, DigitsOnly
    <3> QED
      BY ONLY <3>1, <3>6
  <2> QED
    BY <2>1, <2>2
<1>7. D > 0 => d[1] = "/"
  <2>1. CASE u.path = NULL /\ d = <<>>
    <3>1. D = 0
      BY <2>1
    <3> HIDE DEF D
    <3> QED
      BY ONLY <3>1
  <2>2. CASE ~(u.path = NULL /\ d = <<>>)
    BY <2>2 DEF UrlPart
  <2> QED
    BY <2>1, <2>2
<1> HIDE DEF w, h, c, d, A, B, C, D, W
<1>8. D > 0 => w[A + B + C + 1] = "/"
  <2>1. D > 0 => 1 \in 1..D
    BY ONLY <1>1
  <2> QED
    BY ONLY <1>4, <1>7, <2>1
<1>9. C > 0 => w[A + B + 1] = ":"
  <2>1. C > 0 => 1 \in 1..C
    BY ONLY <1>1
  <2> QED
    BY ONLY <1>3, <1>6, <2>1
<1>10. strcspn(w, A, {":", "/"}) = B
  <2> DEFINE X == {":", "/"}
  <2>1. \A j \in (A + 1)..(A + B) : w[j] \notin X
    <3>1. \A j \in (A + 1)..(A + B) : j - A \in 1..B /\ A + (j - A) = j
      BY ONLY <1>1
    <3> QED
      BY ONLY <1>2, <1>5, <3>1
  <2>2. A + B < W => w[A + B + 1] \in X
    <3>1. A + B < W => C > 0 \/ (C = 0 /\ D > 0 /\ A + B + C + 1 = A + B + 1)
      BY ONLY <1>1
    <3>2. ":" \in X /\ "/" \in X
      OBVIOUS
    <3> HIDE DEF X
    <3> QED
      BY ONLY <1>8, <1>9, <3>1, <3>2
  <2> HIDE DEF X
  <2>3. B \in 0..(W - A) /\ A \in Nat /\ A <= W /\ W \in Nat
    BY ONLY <1>1
  <2>4. Spans(w, A, X, B)
    BY ONLY <2>1, <2>2, <2>3 DEF Spans, W
  <2>5. A \in Nat /\ Len(w) \in Nat /\ A <= Len(w)
    BY ONLY <2>3 DEF W
  <2>6. strcspn(w, A, X) = B
    BY ONLY <2>4, <2>5, SpanIs
  <2> QED
    BY ONLY <2>6 DEF X
<1>11. ASSUME C > 0 PROVE strcspn(w, A + B + 1, {"/"}) = C - 1
  <2> DEFINE X == {"/"}
             i == A + B + 1
             n == C - 1
  <2>1. \A j \in (i + 1)..(i + n) : w[j] \notin X
    <3>1. \A j \in (i + 1)..(i + n) : j - (A + B) \in 2..C /\ j - (A + B) \in 1..C /\ A + B + (j - (A + B)) = j
      BY ONLY <1>1, <1>11
    <3>2. \A j \in 2..C : c[j] # "/"
      BY ONLY <1>6, <1>11
    <3> HIDE DEF i, n
    <3>3. \A j \in (i + 1)..(i + n) : w[j] # "/"
      BY ONLY <1>3, <3>1, <3>2
    <3> QED
      BY ONLY <3>3 DEF X
  <2>2. i + n < W => w[i + n + 1] \in X
    <3>1. i + n < W => D > 0 /\ A + B + C + 1 = i + n + 1
      BY ONLY <1>1, <1>11
    <3>2. "/" \in X
      OBVIOUS
    <3> HIDE DEF X, i, n
    <3> QED
      BY ONLY <1>8, <3>1, <3>2
  <2>3. n \in 0..(W - i) /\ i \in Nat /\ i <= W /\ W \in Nat
    BY ONLY <1>1, <1>11
  <2> HIDE DEF X, i, n
  <2>4. Spans(w, i, X, n)
    BY ONLY <2>1, <2>2, <2>3 DEF Spans, W
  <2>5. i \in Nat /\ Len(w) \in Nat /\ i <= Len(w)
    BY ONLY <2>3 DEF W
  <2>6. strcspn(w, i, X) = n
    BY ONLY <2>4, <2>5, SpanIs
  <2> QED
    BY ONLY <2>6 DEF X, i, n
<1>12. Len(w) = A + B + C + D
  BY ONLY <1>1 DEF W
<1> QED
  BY ONLY <1>1, <1>8, <1>9, <1>10, <1>11, <1>12 DEF UrlEnds, w, h, c, d, A, B, C, D

UrlClient(u) ==
  [host |-> u.host, path |-> u.path,
   port |-> IF u.port = NoPort THEN DefaultPort ELSE u.port, use_tls |-> u.scheme = WSS_PREFIX]

(* A URL's host, port and path as they are cut out of its text *)
UrlCut(u, w, A, B, C, D) ==
  /\ str_dup(w, A, B) = u.host
  /\ D > 0 => str_dup(w, A + B + C, D) = u.path /\ u.path # NULL
  /\ D = 0 => u.path = NULL
  /\ C > 0 => /\ str_dup(w, A + B + 1, C - 1) = to_str(u.port) /\ Len(to_str(u.port)) = C - 1
              /\ u.port \in Nat /\ u.port # NoPort
  /\ C = 0 => u.port = NoPort

(* What ws_client_from_str copies out of a URL. *)
LEMMA UrlCuts ==
  ASSUME NEW u, UrlPart(u), UrlIn(u)
  PROVE  UrlCut(u, UrlText(u), Len(u.scheme), Len(u.host), Len(PortPart(u)), Len(PathPart(u)))
<1> DEFINE w == UrlText(u)
           h == u.host
           c == PortPart(u)
           d == PathPart(u)
           A == Len(u.scheme)
           B == Len(h)
           C == Len(c)
           D == Len(d)
           W == Len(w)
<1>1. A \in Nat /\ B \in Nat /\ C \in Nat /\ D \in Nat /\ W = A + B + C + D
  BY DEF UrlIn, FourIn
<1>2. \A j \in 1..B : w[A + j] = h[j]
  BY DEF UrlIn, FourIn
<1>3. \A j \in 1..C : w[A + B + j] = c[j]
  BY DEF UrlIn, FourIn
<1>4. \A j \in 1..D : w[A + B + C + j] = d[j]
  BY DEF UrlIn, FourIn
<1>5. w \in Seq(Char) /\ h \in Seq(Char) /\ d \in Seq(Char)
  BY PlainTexts DEF UrlPart, UrlIn
<1>6. str_dup(w, A, B) = h
  <2> HIDE DEF w, h, A, c, d, C, D
  <2>1. A \in Nat /\ B \in Nat /\ A + B <= W
    <3> HIDE DEF B, W
    <3> QED
      BY ONLY <1>1
  <2>2. A \in Nat /\ B \in Nat /\ A + B <= Len(w) /\ Len(h) = B /\ \A j \in 1..B : w[A + j] = h[j]
    BY ONLY <1>2, <2>1 DEF W, B
  <2>3. w \in Seq(Char) /\ h \in Seq(Char)
    BY ONLY <1>5
  <2> HIDE DEF B
  <2> QED
    BY ONLY <2>2, <2>3, DupIs
<1>7. str_dup(w, A + B + C, D) = d
  <2> DEFINE i == A + B + C
  <2> HIDE DEF w, h, A, c, d, B, C
  <2>1. i \in Nat /\ D \in Nat /\ i + D <= W
    <3> HIDE DEF D, W
    <3> QED
      BY ONLY <1>1
  <2>2. i \in Nat /\ D \in Nat /\ i + D <= Len(w) /\ Len(d) = D /\ \A j \in 1..D : w[i + j] = d[j]
    BY ONLY <1>4, <2>1 DEF W, D
  <2>3. w \in Seq(Char) /\ d \in Seq(Char)
    BY ONLY <1>5
  <2> HIDE DEF D, i
  <2>4. str_dup(w, i, D) = d
    BY ONLY <2>2, <2>3, DupIs
  <2> QED
    BY ONLY <2>4 DEF i
<1>8. D > 0 => d = u.path /\ u.path # NULL
  <2>1. CASE u.path = NULL /\ d = <<>>
    <3>1. D = 0
      BY <2>1
    <3> HIDE DEF D
    <3> QED
      BY ONLY <3>1
  <2>2. CASE ~(u.path = NULL /\ d = <<>>)
    BY <2>2 DEF UrlPart
  <2> QED
    BY <2>1, <2>2
<1>9. D = 0 => u.path = NULL
  <2>1. D = 0 => d = <<>>
    BY <1>5
  <2> QED
    BY <2>1 DEF UrlPart
<1>10. C = 0 => u.port = NoPort
  <2>1. CASE u.port = NoPort /\ c = <<>>
    BY <2>1
  <2>2. CASE ~(u.port = NoPort /\ c = <<>>)
    <3> DEFINE L == Len(to_str(u.port))
    <3>1. to_str(u.port) \in Numerals /\ C = 1 + L
      BY <2>2 DEF UrlPart
    <3>2. L \in Nat
      BY <3>1 DEF Numerals
    <3> HIDE DEF C, L
    <3>3. C # 0
      BY ONLY <3>1, <3>2
    <3> QED
      BY ONLY <3>3
  <2> QED
    BY <2>1, <2>2
<1>11. ASSUME C > 0
       PROVE  /\ str_dup(w, A + B + 1, C - 1) = to_str(u.port) /\ Len(to_str(u.port)) = C - 1
              /\ u.port \in Nat /\ u.port # NoPort
  <2> DEFINE b == to_str(u.port)
             L == Len(b)
             i == A + B + 1
  <2>1. u.port # NoPort
    <3> SUFFICES ASSUME u.port = NoPort PROVE FALSE
      OBVIOUS
    <3>1. c = <<>>
      BY DEF PortPart
    <3>2. C = 0
      BY <3>1
    <3> HIDE DEF C
    <3> QED
      BY ONLY <1>11, <3>2
  <2>2. u.port \in Nat /\ b \in Numerals /\ C = 1 + L /\ \A j \in 1..L : c[1 + j] = b[j]
    BY <2>1 DEF UrlPart
  <2>3. L \in Nat /\ b \in Seq(Char)
    BY <2>2 DEF Numerals
  <2> HIDE DEF w, h, A, c, d, B, C, D, b
  <2>4. C = 1 + L
    BY ONLY <2>2
  <2>5. i \in Nat /\ L \in Nat /\ i + L <= W /\ C - 1 = L
    <3> HIDE DEF L, W
    <3> QED
      BY ONLY <1>1, <2>3, <2>4
  <2>6. \A j \in 1..L : w[i + j] = b[j]
    <3>1. \A j \in 1..L : 1 + j \in 1..C /\ A + B + (1 + j) = i + j
      <4> HIDE DEF L
      <4> QED
        BY ONLY <1>1, <2>3, <2>4
    <3> HIDE DEF i
    <3> QED
      BY ONLY <1>3, <2>2, <3>1
  <2>7. i \in Nat /\ L \in Nat /\ i + L <= Len(w) /\ Len(b) = L /\ \A j \in 1..L : w[i + j] = b[j]
    BY ONLY <2>5, <2>6 DEF W, L
  <2>8. w \in Seq(Char) /\ b \in Seq(Char)
    BY ONLY <1>5, <2>3
  <2> HIDE DEF L, i
  <2>9. str_dup(w, i, L) = b
    BY ONLY <2>7, <2>8, DupIs
  <2> QED
    BY ONLY <2>1, <2>2, <2>5, <2>9 DEF i, b, L
<1> HIDE DEF w, h, c, d, A, B, C, D, W
<1>12. D > 0 => str_dup(w, A + B + C, D) = u.path /\ u.path # NULL
  BY ONLY <1>7, <1>8
<1>13. str_dup(w, A, B) = u.host
  BY ONLY <1>6 DEF h
<1> QED
  BY ONLY <1>9, <1>10, <1>11, <1>12, <1>13 DEF UrlCut, w, h, c, d, A, B, C, D

(* ws_client_from_str takes a URL apart into its own parts. *)
LEMMA UrlTaken ==
  ASSUME NEW u, IsUrl(u), NEW ssl
  PROVE  LET r == ws_client_from_str(UrlText(u), ssl)
         IN /\ Refused(u, ssl) => r.result = "false" /\ r.client = ws_client_init
            /\ ~Refused(u, ssl) =>
                 /\ r.client = UrlClient(u)
                 /\ r.result = IF u.port > 99999 THEN "port_buffer" ELSE "true"
<1> DEFINE w == UrlText(u)
           A == Len(u.scheme)
           B == Len(u.host)
           C == Len(PortPart(u))
           D == Len(PathPart(u))
           start == HostOffset(w, ssl)
           offset == start + strcspn(w, start, {PORT_SEP, PATH_SEP})
           hasPort == offset < Len(w) /\ w[offset + 1] = PORT_SEP
           port == PortText(w, offset)
           rest == IF hasPort THEN offset + 1 + Len(port) ELSE offset
           hasPath == rest < Len(w) /\ w[rest + 1] = PATH_SEP
           r == ws_client_from_str(w, ssl)
<1>1. /\ start = 0 => r = [result |-> "false", client |-> ws_client_init]
      /\ start # 0 =>
           r = [result |-> IF hasPort /\ Len(port) + 1 > PortBuffer THEN "port_buffer" ELSE "true",
                client |-> [host |-> str_dup(w, start, offset - start),
                            path |-> IF hasPath THEN str_dup(w, rest, Len(w) - rest) ELSE NULL,
                            port |-> IF hasPort THEN atoi(port) ELSE DefaultPort,
                            use_tls |-> start = Len(WSS_PREFIX)]]
  BY DEF ws_client_from_str
<1>2. Refused(u, ssl) => r.result = "false" /\ r.client = ws_client_init
  <2>1. Refused(u, ssl) => start = 0
    BY UrlOffset
  <2> HIDE DEF r, start
  <2> QED
    BY <1>1, <2>1
<1>3. ASSUME ~Refused(u, ssl)
      PROVE  /\ r.client = UrlClient(u)
             /\ r.result = IF u.port > 99999 THEN "port_buffer" ELSE "true"
  <2>1. start = A /\ ((u.scheme = WS_PREFIX /\ A = 5) \/ (u.scheme = WSS_PREFIX /\ A = 6))
    <3>1. /\ HostOffset(UrlText(u), ssl) = Len(u.scheme)
          /\ \/ u.scheme = WS_PREFIX /\ Len(u.scheme) = 5
             \/ u.scheme = WSS_PREFIX /\ Len(u.scheme) = 6
      BY ONLY <1>3, IsUrl(u), UrlOffset
    <3> QED
      BY ONLY <3>1 DEF start, A, w
  <2>2. UrlPart(u) /\ UrlIn(u)
    BY UrlParts, UrlLayout
  <2>3. UrlEnds(w, A, B, C, D) /\ UrlCut(u, w, A, B, C, D)
    BY ONLY <2>2, UrlSpans, UrlCuts
  <2>4. start # 0
    <3>1. start = A /\ (A = 5 \/ A = 6)
      BY ONLY <2>1
    <3> HIDE DEF start, A
    <3> QED
      BY ONLY <3>1
  <2>5. r = [result |-> IF hasPort /\ Len(port) + 1 > PortBuffer THEN "port_buffer" ELSE "true",
             client |-> [host |-> str_dup(w, start, offset - start),
                         path |-> IF hasPath THEN str_dup(w, rest, Len(w) - rest) ELSE NULL,
                         port |-> IF hasPort THEN atoi(port) ELSE DefaultPort,
                         use_tls |-> start = Len(WSS_PREFIX)]]
    <3> HIDE DEF r, start
    <3> QED
      BY ONLY <1>1, <2>4
  <2> HIDE DEF r, start, w, A, B, C, D
  <2>6. /\ A \in Nat /\ B \in Nat /\ C \in Nat /\ D \in Nat /\ Len(w) = A + B + C + D
    BY ONLY <2>3 DEF UrlEnds
  <2>7. offset = A + B /\ offset - start = B
    <3>1. strcspn(w, A, {PORT_SEP, PATH_SEP}) = B
      BY ONLY <2>3 DEF UrlEnds, PORT_SEP, PATH_SEP
    <3>2. offset = A + B
      BY ONLY <2>1, <3>1
    <3> HIDE DEF offset
    <3> QED
      BY ONLY <2>1, <2>6, <3>2
  <2> HIDE DEF offset
  <2>8. hasPort <=> C > 0
    <3>1. CASE C > 0
      <4>1. w[A + B + 1] = ":"
        BY ONLY <2>3, <3>1 DEF UrlEnds
      <4>2. offset < Len(w)
        BY ONLY <2>6, <2>7, <3>1
      <4>3. w[offset + 1] = ":"
        BY ONLY <2>7, <4>1
      <4> QED
        BY ONLY <3>1, <4>2, <4>3 DEF PORT_SEP
    <3>2. CASE ~(C > 0)
      <4>1. C = 0 /\ A + B + C = offset
        BY ONLY <2>6, <2>7, <3>2
      <4>2. offset < Len(w) => D > 0
        BY ONLY <2>6, <4>1
      <4>3. D > 0 => w[offset + 1] = "/"
        BY ONLY <2>3, <4>1 DEF UrlEnds
      <4>4. ~hasPort
        BY ONLY <4>2, <4>3 DEF PORT_SEP
      <4> QED
        BY ONLY <3>2, <4>4
    <3> QED
      BY ONLY <3>1, <3>2
  <2> HIDE DEF hasPort
  <2>9. C > 0 => port = to_str(u.port) /\ Len(port) = C - 1
    <3> SUFFICES ASSUME C > 0 PROVE port = to_str(u.port) /\ Len(port) = C - 1
      OBVIOUS
    <3>1. strcspn(w, A + B + 1, {"/"}) = C - 1
      BY ONLY <2>3, C > 0 DEF UrlEnds
    <3>2. str_dup(w, A + B + 1, C - 1) = to_str(u.port) /\ Len(to_str(u.port)) = C - 1
      BY ONLY <2>3, C > 0 DEF UrlCut
    <3>3. port = str_dup(w, A + B + 1, C - 1)
      BY ONLY <2>7, <3>1 DEF PortText, PATH_SEP
    <3> HIDE DEF port
    <3> QED
      BY ONLY <3>2, <3>3
  <2> HIDE DEF port
  <2>10. rest = A + B + C
    <3> DEFINE L == Len(port)
    <3>1. /\ hasPort <=> C > 0
          /\ C > 0 => L = C - 1
          /\ rest = IF hasPort THEN offset + 1 + L ELSE offset
      BY ONLY <2>8, <2>9
    <3> HIDE DEF rest, L
    <3> QED
      BY ONLY <2>6, <2>7, <3>1
  <2> HIDE DEF rest
  <2>11. (hasPath <=> D > 0) /\ Len(w) - rest = D
    <3>1. Len(w) - rest = D /\ (rest < Len(w) <=> D > 0)
      BY ONLY <2>6, <2>10
    <3>2. D > 0 => w[rest + 1] = PATH_SEP
      BY ONLY <2>3, <2>10 DEF UrlEnds, PATH_SEP
    <3> QED
      BY ONLY <3>1, <3>2
  <2> HIDE DEF hasPath
  <2>12. (start = Len(WSS_PREFIX)) = (u.scheme = WSS_PREFIX)
    <3>1. Len(WSS_PREFIX) = 6 /\ Len(WS_PREFIX) = 5
      BY WsPrefixes
    <3>2. WS_PREFIX # WSS_PREFIX
      BY <3>1
    <3> QED
      BY ONLY <2>1, <3>1, <3>2
  <2>13. str_dup(w, start, offset - start) = u.host
    BY ONLY <2>1, <2>3, <2>7 DEF UrlCut
  <2>14. (IF hasPath THEN str_dup(w, rest, Len(w) - rest) ELSE NULL) = u.path
    <3>1. D > 0 => str_dup(w, rest, Len(w) - rest) = u.path
      BY ONLY <2>3, <2>10, <2>11 DEF UrlCut
    <3>2. ~(D > 0) => D = 0
      BY ONLY <2>6
    <3>3. D = 0 => u.path = NULL
      BY ONLY <2>3 DEF UrlCut
    <3> QED
      BY ONLY <2>11, <3>1, <3>2, <3>3
  <2>15. /\ C > 0 => u.port \in Nat /\ u.port # NoPort
         /\ C = 0 => u.port = NoPort
    BY ONLY <2>3 DEF UrlCut
  <2>16. C > 0 \/ C = 0
    BY ONLY <2>6
  <2>17. (IF hasPort THEN atoi(port) ELSE DefaultPort) = IF u.port = NoPort THEN DefaultPort ELSE u.port
    <3>1. C > 0 => atoi(port) = u.port
      BY ONLY <2>9, <2>15, AtoiOfDecimal
    <3>2. C = 0 => ~(C > 0)
      BY ONLY <2>6
    <3> QED
      BY ONLY <2>8, <2>15, <2>16, <3>1, <3>2
  <2>18. (hasPort /\ Len(port) + 1 > PortBuffer) <=> u.port > 99999
    <3>1. CASE C > 0
      <4>1. Len(to_str(u.port)) > 5 <=> u.port > 99999
        <5> DEFINE n == u.port
        <5>1. n \in Nat
          BY ONLY <2>15, <3>1
        <5> HIDE DEF n
        <5>2. Len(to_str(n)) > 5 <=> n > 99999
          <6>1. LongPort(n)
            BY ONLY <5>1, PortLength
          <6> QED
            BY ONLY <6>1 DEF LongPort
        <5> QED
          BY ONLY <5>2 DEF n
      <4>2. Len(port) = Len(to_str(u.port)) /\ hasPort /\ Len(port) = C - 1
        BY ONLY <2>8, <2>9, <3>1
      <4>3. Len(port) + 1 > 6 <=> Len(port) > 5
        BY ONLY <2>6, <4>2
      <4> QED
        BY ONLY <4>1, <4>2, <4>3 DEF PortBuffer
    <3>2. CASE C = 0
      <4>1. ~hasPort /\ u.port = -1
        BY ONLY <2>8, <2>15, <3>2 DEF NoPort
      <4>2. ~(-1 > 99999)
        BY ONLY TRUE
      <4> QED
        BY ONLY <4>1, <4>2
    <3> QED
      BY ONLY <2>16, <3>1, <3>2
  <2> DEFINE res == IF u.port > 99999 THEN "port_buffer" ELSE "true"
  <2>19. r = [result |-> res, client |-> UrlClient(u)]
    BY ONLY <2>5, <2>12, <2>13, <2>14, <2>17, <2>18 DEF UrlClient
  <2> HIDE DEF res
  <2>20. r.result = res /\ r.client = UrlClient(u)
    BY ONLY <2>19
  <2> QED
    BY ONLY <2>20 DEF res
<1> QED
  BY ONLY <1>2, <1>3 DEF r, w

----------------------------------------------------------------------------
(* What is printed can be read *)

(* Headers that were set from plain lines are plain. *)
LEMMA PlainHeaders ==
  ASSUME NEW hs \in Seq(HeaderLines)
  PROVE  IsHeaders(HeadersOf(hs))
<1> DEFINE h == HeadersOf(hs)
           N == Len(hs)
           name(i) == normalized_cstr(hs[i].key)
<1>1. N \in Nat /\ \A i \in 1..N : hs[i].key \in Plain({":", LF}) /\ hs[i].value \in Plain({CR})
  <2>1. N \in Nat /\ \A i \in 1..N : hs[i] \in HeaderLines
    BY ElementOfSeq
  <2> HIDE DEF N
  <2> QED
    BY <2>1 DEF HeaderLines
<1>2. DOMAIN h = Names(hs) /\ h = [k \in DOMAIN h |-> h[k]]
  BY <1>1, HeadersAre
<1>3. IsFiniteSet(DOMAIN h)
  <2>1. IsFiniteSet(1..N)
    BY <1>1, FS_Interval
  <2> DEFINE T == {name(i) : i \in 1..N}
             f == [i \in 1..N |-> name(i)]
  <2> HIDE DEF name
  <2>2. f \in Surjection(1..N, T)
    BY DEF Surjection
  <2>3. IsFiniteSet(T)
    BY ONLY <2>1, <2>2, FS_Surjection
  <2> QED
    BY <1>2, <2>3 DEF Names, name
<1>4. ASSUME NEW k \in DOMAIN h
      PROVE  k \in Plain({":", LF}) /\ normalized_cstr(k) = k /\ h[k] \in Plain({CR})
  <2>1. PICK i : LastNamed(hs, k, i)
    BY <1>1, <1>2, <1>4, LastExists
  <2>2. i \in 1..N /\ normalized_cstr(hs[i].key) = k
    BY <2>1 DEF LastNamed
  <2>3. h[k] = hs[i].value
    BY <1>1, <2>1, HeadersAre
  <2>4. hs[i].key \in Plain({":", LF}) /\ hs[i].value \in Plain({CR})
    BY <1>1, <2>2
  <2>5. hs[i].key \in Seq(Char)
    BY ONLY <2>4, PlainTexts
  <2>6. normalized_cstr(hs[i].key) \in Plain({":", LF})
    BY ONLY <2>4, <2>5, NormFacts
  <2>7. normalized_cstr(normalized_cstr(hs[i].key)) = normalized_cstr(hs[i].key)
    BY ONLY <2>5, NormFacts
  <2> QED
    BY ONLY <2>2, <2>3, <2>4, <2>6, <2>7
<1> QED
  BY <1>2, <1>3, <1>4 DEF IsHeaders

(* A plain text of one character. *)
LEMMA PlainWord ==
  ASSUME NEW C, NEW c \in Char, c \notin C
  PROVE  <<c>> \in Plain(C)
<1>1. <<c>> \in Seq(Char) /\ Len(<<c>>) = 1 /\ <<c>>[1] = c
  BY CharText
<1>2. \A i \in 1..Len(<<c>>) : <<c>>[i] = c
  BY <1>1
<1> QED
  BY <1>1, <1>2 DEF Plain

(* A plain text of two characters. *)
LEMMA PlainWords ==
  ASSUME NEW C, NEW c \in Char, c \notin C, NEW d \in Char, d \notin C
  PROVE  <<c, d>> \in Plain(C)
<1>1. <<c, d>> \in Seq(Char) /\ Len(<<c, d>>) = 2 /\ <<c, d>>[1] = c /\ <<c, d>>[2] = d
  BY TwoWords
<1>2. \A i \in 1..Len(<<c, d>>) : <<c, d>>[i] = c \/ <<c, d>>[i] = d
  BY <1>1
<1> QED
  BY <1>1, <1>2 DEF Plain

(* The handshake's headers can be printed. *)
LEMMA HandshakeLines == HandshakeHeaders \in Seq(HeaderLines)
<1> DEFINE K == {":", LF}
           V == {CR}
<1>1. /\ \A c \in {"Upgrade", "Connection", "sec", "key", "Sec", "Version"} : c \in Char /\ c \notin K
      /\ \A c \in {"websocket", "Upgrade", "nonce", "1", "3"} : c \in Char /\ c \notin V
  BY DEF Char, Literals, CR, LF
<1> HIDE DEF K, V
<1>2. /\ <<"Upgrade">> \in Plain(K) /\ <<"Connection">> \in Plain(K)
      /\ <<"websocket">> \in Plain(V) /\ <<"Upgrade">> \in Plain(V) /\ <<"nonce">> \in Plain(V)
  BY <1>1, PlainWord
<1>3. /\ <<"sec", "key">> \in Plain(K) /\ <<"Sec", "Version">> \in Plain(K)
      /\ <<"1", "3">> \in Plain(V)
  BY <1>1, PlainWords
<1>4. HandshakeHeaders =
        <<[key |-> <<"Upgrade">>, value |-> <<"websocket">>],
          [key |-> <<"Connection">>, value |-> <<"Upgrade">>],
          [key |-> <<"sec", "key">>, value |-> <<"nonce">>],
          [key |-> <<"Sec", "Version">>, value |-> <<"1", "3">>]>>
  BY Words13 DEF HandshakeHeaders, Nonce
<1>5. HeaderLines = [key : Plain(K), value : Plain(V)]
  BY DEF HeaderLines, K, V
<1>6. /\ [key |-> <<"Upgrade">>, value |-> <<"websocket">>] \in HeaderLines
      /\ [key |-> <<"Connection">>, value |-> <<"Upgrade">>] \in HeaderLines
      /\ [key |-> <<"sec", "key">>, value |-> <<"nonce">>] \in HeaderLines
      /\ [key |-> <<"Sec", "Version">>, value |-> <<"1", "3">>] \in HeaderLines
  BY ONLY <1>2, <1>3, <1>5
<1> QED
  BY ONLY <1>4, <1>6

(* A number has no CR in it. *)
LEMMA NumeralsHaveNoCR ==
  ASSUME NEW s \in Numerals
  PROVE  s \in Plain({CR})
<1>1. \A d \in DigitChars : d \notin {CR}
  BY DEF DigitChars, CR
<1> QED
  BY <1>1 DEF Numerals, Plain

(* Plain texts in a row are plain. *)
LEMMA JoinPlain ==
  ASSUME NEW C, NEW s \in Plain(C), NEW t \in Plain(C)
  PROVE  s \o t \in Plain(C)
<1>1. s \in Seq(Char) /\ t \in Seq(Char)
  BY PlainTexts
<1> DEFINE A == Len(s)
           B == Len(t)
           u == s \o t
<1>2. /\ u \in Seq(Char) /\ A \in Nat /\ B \in Nat /\ Len(u) = A + B
      /\ \A i \in 1..A : u[i] = s[i]
      /\ \A i \in 1..B : u[A + i] = t[i]
  BY ONLY <1>1, Joins DEF A, B, u
<1>3. (\A i \in 1..A : s[i] \notin C) /\ \A i \in 1..B : t[i] \notin C
  BY PlainTexts
<1> HIDE DEF A, B, u
<1>4. \A i \in 1..(A + B) : i \in 1..A \/ (i - A \in 1..B /\ A + (i - A) = i)
  BY ONLY <1>2
<1>5. \A i \in 1..(A + B) : u[i] \notin C
  <2> SUFFICES ASSUME NEW i \in 1..(A + B) PROVE u[i] \notin C
    OBVIOUS
  <2>1. CASE i \in 1..A
    BY ONLY <1>2, <1>3, <2>1
  <2>2. CASE i - A \in 1..B /\ A + (i - A) = i
    <3> DEFINE j == i - A
    <3>1. j \in 1..B /\ A + j = i
      BY <2>2
    <3> HIDE DEF j
    <3>2. u[A + j] = t[j] /\ t[j] \notin C
      BY ONLY <1>2, <1>3, <3>1
    <3> QED
      BY ONLY <3>1, <3>2
  <2> QED
    BY ONLY <1>4, <2>1, <2>2, i \in 1..(A + B)
<1>6. u \in Plain(C)
  BY ONLY <1>2, <1>5 DEF Plain
<1> QED
  BY <1>6 DEF u

(* The value of the Host header *)
LEMMA HostText ==
  ASSUME NEW host \in Plain({CR}), NEW port \in Nat
  PROVE  host \o <<":">> \o to_str(port) \in Plain({CR})
<1> DEFINE C == {CR}
<1>1. ":" \in Char /\ ":" \notin C
  BY DEF Char, Literals, CR
<1>2. to_str(port) \in Plain(C)
  BY AtoiOfDecimal, NumeralsHaveNoCR
<1> HIDE DEF C
<1>3. <<":">> \in Plain(C)
  BY ONLY <1>1, PlainWord
<1>4. host \in Plain(C)
  BY DEF C
<1>5. host \o <<":">> \in Plain(C)
  BY ONLY <1>3, <1>4, JoinPlain
<1>6. (host \o <<":">>) \o to_str(port) \in Plain(C)
  BY ONLY <1>2, <1>5, JoinPlain
<1> QED
  BY ONLY <1>6 DEF C

(* The width of a port. *)
LEMMA Wide == 2^16 \in Nat /\ 2^16 > 0
OBVIOUS

(* A remainder is a number. *)
LEMMA Remainder ==
  ASSUME NEW n \in Nat, NEW w \in Nat, w > 0
  PROVE  n % w \in Nat
OBVIOUS

(* A call that builds a request has a client that its URL was taken apart    *)
(* into.                                                                     *)
LEMMA ClientIs ==
  ASSUME Control, ClientMade, mode = "connect", pc # "url", pc # "end"
  PROVE  url \in Urls /\ IsUrl(url) /\ ~Refused(url, UseSSL) /\ client = UrlClient(url)
<1>1. url \in Urls /\ IsUrl(url)
  BY UrlsAreUrls DEF Control
<1> DEFINE r == ws_client_from_str(UrlText(url), UseSSL)
<1>2. client = r.client /\ (r.result # "true" => pc = "end")
  BY DEF ClientMade
<1>3. /\ Refused(url, UseSSL) => r.result = "false"
      /\ ~Refused(url, UseSSL) => r.client = UrlClient(url)
  BY <1>1, UrlTaken
<1> HIDE DEF r
<1> QED
  BY <1>1, <1>2, <1>3

(* The client of a URL has a host, a port and a path that can be printed. *)
LEMMA ClientParts ==
  ASSUME Control, ClientMade, mode = "connect", pc # "url", pc # "end"
  PROVE  /\ client.host \in Plain({CR}) /\ client.port \in Nat
         /\ RequestPath(client) \in Plain({" ", LF})
<1>1. IsUrl(url) /\ client = UrlClient(url)
  BY ClientIs
<1>2. UrlPart(url)
  BY <1>1, UrlParts
<1>3. client.host = url.host /\ client.path = url.path
  BY <1>1 DEF UrlClient
<1>4. client.host \in Plain({CR})
  BY <1>2, <1>3 DEF UrlPart
<1>5. client.port \in Nat
  <2>1. client.port = IF url.port = NoPort THEN DefaultPort ELSE url.port
    BY <1>1 DEF UrlClient
  <2>2. url.port = NoPort \/ url.port \in Nat
    BY <1>1 DEF IsUrl
  <2> QED
    BY ONLY <2>1, <2>2 DEF DefaultPort
<1>6. RequestPath(client) \in Plain({" ", LF})
  <2>1. "/" \in Char /\ "/" \notin {" ", LF}
    BY DEF Char, Literals, LF
  <2> DEFINE C == {" ", LF}
  <2> HIDE DEF C
  <2>2. <<"/">> \in Plain(C)
    BY ONLY <2>1, PlainWord DEF C
  <2>3. url.path # NULL => url.path \in Plain(C)
    BY <1>2 DEF UrlPart, C
  <2>4. RequestPath(client) = IF url.path = NULL THEN <<"/">> ELSE url.path
    BY <1>3 DEF RequestPath, empty_path
  <2> QED
    BY ONLY <2>2, <2>3, <2>4 DEF C
<1> QED
  BY <1>4, <1>5, <1>6

(* The fields of the client's request *)
LEMMA HandshakeFields ==
  /\ IsMessage(HandshakeMsg)
  /\ HandshakeMsg.method = "GET" /\ HandshakeMsg.path = RequestPath(client)
  /\ HandshakeMsg.protocol = PROTOCOL /\ HandshakeMsg.host = client.host
  /\ HandshakeMsg.port = client.port % 2^16 /\ HandshakeMsg.status_code = 0
  /\ HandshakeMsg.status_text = NULL /\ HandshakeMsg.body = <<>>
  /\ HandshakeMsg.headers = HeadersOf(HandshakeHeaders)
<1> DEFINE R(a, b, c, d, e) ==
             [EmptyMessage EXCEPT !.path = a, !.protocol = b, !.host = c, !.port = d, !.headers = e]
<1>1. ASSUME NEW a, NEW b, NEW c, NEW d, NEW e
      PROVE  LET r == R(a, b, c, d, e)
             IN /\ r = [f \in Fields |-> r[f]]
                /\ r.method = "GET" /\ r.path = a /\ r.protocol = b /\ r.host = c /\ r.port = d
                /\ r.status_code = 0 /\ r.status_text = NULL /\ r.body = <<>> /\ r.headers = e
  <2> DEFINE r == R(a, b, c, d, e)
             m == EmptyMessage
  <2>1. m = [f \in Fields |-> m[f]]
    BY NewMessage, FieldsAre
  <2>0. m.method = "GET" /\ m.status_code = 0 /\ m.status_text = NULL /\ m.body = <<>>
    BY EmptyFields
  <2> HIDE DEF m
  <2>4. r = [m EXCEPT !.path = a, !.protocol = b, !.host = c, !.port = d, !.headers = e]
    BY DEF m
  <2> HIDE DEF r
  <2>2. r = [f \in Fields |-> r[f]]
    BY ONLY <2>1, <2>4 DEF Fields
  <2>3. /\ r.path = a /\ r.protocol = b /\ r.host = c /\ r.port = d /\ r.headers = e
        /\ r.method = m.method /\ r.status_code = m.status_code
        /\ r.status_text = m.status_text /\ r.body = m.body
    BY ONLY <2>1, <2>4 DEF Fields
  <2> HIDE DEF R
  <2> QED
    BY <2>0, <2>2, <2>3 DEF r
<1>2. HandshakeMsg = R(RequestPath(client), PROTOCOL, client.host, client.port % 2^16, HeadersOf(HandshakeHeaders))
  BY DEF HandshakeMsg
<1> HIDE DEF R
<1>3. /\ HandshakeMsg = [f \in Fields |-> HandshakeMsg[f]]
      /\ HandshakeMsg.method = "GET" /\ HandshakeMsg.path = RequestPath(client)
      /\ HandshakeMsg.protocol = PROTOCOL /\ HandshakeMsg.host = client.host
      /\ HandshakeMsg.port = client.port % 2^16 /\ HandshakeMsg.status_code = 0
      /\ HandshakeMsg.status_text = NULL /\ HandshakeMsg.body = <<>>
      /\ HandshakeMsg.headers = HeadersOf(HandshakeHeaders)
  BY <1>1, <1>2
<1> QED
  BY <1>3, FieldsAre

(* The handshake's request can be printed. *)
LEMMA SendableHandshake ==
  ASSUME Control, ClientMade, mode = "connect", pc = "build"
  PROVE  Sendable(HandshakeMsg) /\ HandshakeMsg.host \in Plain({CR}) /\ HandshakeMsg.port \in Nat
<1>1. /\ client.host \in Plain({CR}) /\ client.port \in Nat
      /\ RequestPath(client) \in Plain({" ", LF})
  BY ClientParts
<1>2. IsHeaders(HeadersOf(HandshakeHeaders))
  BY HandshakeLines, PlainHeaders
<1>3. client.port % 2^16 \in Nat
  BY ONLY <1>1, Wide, Remainder
<1>4. <<>> \in Seq(Char) /\ "GET" \in Methods
  BY DEF Methods
<1> QED
  BY ONLY <1>1, <1>2, <1>3, <1>4, HandshakeFields DEF Sendable

(* The texts of AppStart, and the Host header's name. *)
LEMMA AppValuesPlain ==
  /\ <<"/", "p">> \in Plain({" ", LF}) /\ <<"h">> \in Plain({CR})
  /\ <<"Host">> \in Plain({":", LF}) /\ normalized_cstr(<<"Host">>) = <<"host">>
<1>1. /\ "/" \in Char /\ "p" \in Char /\ "h" \in Char /\ "Host" \in Char
      /\ "/" \notin {" ", LF} /\ "p" \notin {" ", LF} /\ "h" \notin {CR} /\ "Host" \notin {":", LF}
  BY DEF Char, Literals, CR, LF
<1>2. <<"/", "p">> \in Plain({" ", LF})
  BY <1>1, PlainWords
<1>3. <<"h">> \in Plain({CR})
  BY <1>1, PlainWord
<1>4. <<"Host">> \in Plain({":", LF})
  BY <1>1, PlainWord
<1>5. normalized_cstr(<<"Host">>) = <<"host">>
  BY <1>1, OneWord, LowWords
<1> QED
  BY <1>2, <1>3, <1>4, <1>5

(* Whatever is printed can be read back. *)
LEMMA SendableMessage ==
  ASSUME Control, ClientMade, Building, pc = "build", msg.path # NULL, Printable(msg)
  PROVE  /\ Sendable(msg) /\ msg.host \in Plain({CR}) /\ msg.port \in Nat
         /\ mode = "connect" => msg = HandshakeMsg
<1>0. mode = "connect" \/ mode = "application"
  BY DEF Control
<1>1. CASE mode = "connect"
  <2>1. msg = HandshakeMsg
    BY <1>1, EmptyFields DEF Building
  <2> QED
    BY <1>1, <2>1, SendableHandshake
<1>2. CASE mode = "application"
  <2>1. AppMessage(msg)
    BY <1>2 DEF Building
  <2>2. /\ msg.path = <<"/", "p">> /\ msg.protocol = PROTOCOL /\ msg.host = <<"h">>
        /\ msg.port = 3000 /\ msg.method \in AppMethods
    BY <2>1 DEF AppMessage
  <2>3. msg.method \in Methods
    BY <2>2, AppAssumption DEF Printable
  <2>4. 3000 \in Nat
    OBVIOUS
  <2>5. /\ IsMessage(msg) /\ IsHeaders(msg.headers) /\ msg.body \in Seq(Char)
        /\ msg.status_code = 0 /\ msg.status_text = NULL
    BY <2>1 DEF AppMessage
  <2> DEFINE P1 == Plain({" ", LF})
             P2 == Plain({CR})
             p == <<"/", "p">>
             h == <<"h">>
  <2>a. p \in P1 /\ h \in P2
    BY ONLY AppValuesPlain DEF P1, P2, p, h
  <2>b. msg.path = p /\ msg.host = h
    BY <2>2 DEF p, h
  <2> HIDE DEF P1, P2, p, h
  <2>c. msg.path \in P1 /\ msg.host \in P2
    BY ONLY <2>a, <2>b
  <2>6. msg.path \in Plain({" ", LF}) /\ msg.host \in Plain({CR})
    BY ONLY <2>c DEF P1, P2
  <2>d. msg.protocol = PROTOCOL /\ msg.port = 3000
    BY <2>2
  <2>e. msg.protocol = PROTOCOL
    BY ONLY <2>d
  <2>f. msg.path \in Plain({" ", LF})
    BY ONLY <2>6
  <2>g. /\ IsMessage(msg) /\ IsHeaders(msg.headers) /\ msg.body \in Seq(Char)
        /\ msg.status_code = 0
    BY ONLY <2>5
  <2>h. msg.status_text = NULL
    BY ONLY <2>5
  <2>7. Sendable(msg)
    BY ONLY <2>e, <2>3, <2>f, <2>g, <2>h DEF Sendable
  <2>i. msg.port = 3000
    BY ONLY <2>d
  <2>j. msg.port \in Nat
    BY ONLY <2>4, <2>i
  <2>k. msg.host \in Plain({CR})
    BY ONLY <2>6
  <2>8. mode # "connect"
    BY ONLY <1>2
  <2> QED
    BY ONLY <2>7, <2>8, <2>j, <2>k
<1> QED
  BY <1>0, <1>1, <1>2

(* With its Host header a message can still be printed. *)
LEMMA SendableHost ==
  ASSUME NEW m, Sendable(m), m.host \in Plain({CR}), m.port \in Nat
  PROVE  Sendable(WithHost(m))
<1> DEFINE v == m.host \o <<":">> \o to_str(m.port)
           w == WithHost(m)
<1>1. v \in Plain({CR})
  BY HostText
<1> HIDE DEF v
<1>2. w = set_header(m, <<"Host">>, v)
  BY DEF WithHost, v
<1>3. IsMessage(w) /\ SameButHeaders(w, m) /\ w.headers = SetTo(m.headers, normalized_cstr(<<"Host">>), v)
  <2>1. IsMessage(m)
    BY DEF Sendable
  <2> HIDE DEF w
  <2> QED
    BY ONLY <1>2, <2>1, SetHeaderIs
<1>4. IsHeaders(w.headers)
  <2>1. IsHeaders(m.headers)
    BY DEF Sendable
  <2> QED
    BY ONLY <1>1, <1>3, <2>1, AppValuesPlain, SetToHeaders
<1> HIDE DEF w
<1>5. Sendable(w)
  BY <1>3, <1>4 DEF Sendable, SameButHeaders
<1> QED
  BY <1>5 DEF w

(* Only printing and a new answer change what is on the wire. *)
LEMMA WireKept ==
  ASSUME Next, ~PrintRequest, \A a \in Answers : ~Answer(a)
  PROVE  UNCHANGED <<kind, whole, lines, sent>>
<1> DEFINE K == UNCHANGED <<kind, whole, lines, sent>>
<1>1. FromStr => K
  BY DEF FromStr, taskVars, wireVars
<1>2. RequestInit => K
  BY DEF RequestInit, MessageInit, taskVars, wireVars
<1>3. SetHandshakeHeaders => K
  BY DEF SetHandshakeHeaders, taskVars, wireVars
<1>4. GiveBack => K
  BY DEF GiveBack, taskVars, wireVars
<1>5. Free => K
  BY DEF Free, MessageFree, taskVars, wireVars
<1>6. Arrives => K
  BY DEF Arrives, Deliver, taskVars, wireVars
<1>7. StartStep => K
  BY DEF StartStep, StartLine, taskVars, wireVars
<1>8. HeaderStep => K
  BY DEF HeaderStep, FromStrHeader, taskVars, wireVars
<1>9. BodyStep => K
  BY DEF BodyStep, FromStrBody, taskVars, wireVars
<1>10. HeaderFails => K
  BY DEF HeaderFails, FromStrHeaderFails, taskVars, wireVars
<1>11. (\E method \in AppMethods : AppStart(method)) => K
  BY DEF AppStart, taskVars, wireVars
<1>12. (\E key \in AppKeys, value \in AppValues : AppSetHeader(key, value)) => K
  BY DEF AppSetHeader, taskVars, wireVars
<1>13. (\E body \in AppBodies : AppWrite(body)) => K
  BY DEF AppWrite, taskVars, wireVars
<1> HIDE DEF K
<1>14. K
  BY NextCases, <1>1, <1>2, <1>3, <1>4, <1>5, <1>6, <1>7, <1>8, <1>9, <1>10, <1>11, <1>12, <1>13
<1> QED
  BY <1>14 DEF K

(* Message is about what is on the wire. *)
LEMMA MessageSame ==
  ASSUME Message, UNCHANGED <<kind, whole, lines, sent>>
  PROVE  Message'
<1>1. StartText' = StartText
  BY DEF StartText
<1>2. TailText' = TailText
  BY DEF TailText
<1>3. kind' = kind /\ whole' = whole /\ lines' = lines /\ sent' = sent
  OBVIOUS
<1>4. CASE whole = NULL
  BY <1>3, <1>4 DEF Message
<1>5. CASE whole # NULL
  <2>1. /\ lines \in Seq(HeaderLines) /\ TailText \in Seq(Char) /\ sent.body \in Seq(Char)
        /\ whole = MessageText(StartText, lines, TailText)
        /\ IsMessage(sent) /\ sent.headers = HeadersOf(lines) /\ sent.protocol = PROTOCOL
    BY ONLY <1>5, Message DEF Message
  <2>2. /\ lines' \in Seq(HeaderLines) /\ TailText' \in Seq(Char) /\ sent'.body \in Seq(Char)
        /\ whole' = MessageText(StartText', lines', TailText')
        /\ IsMessage(sent') /\ sent'.headers = HeadersOf(lines') /\ sent'.protocol = PROTOCOL
    BY ONLY <1>1, <1>2, <1>3, <2>1
  <2>3. /\ kind' = "request" =>
             /\ sent'.method \in Methods /\ sent'.path \in Plain({" ", LF})
             /\ sent'.status_code = 0 /\ sent'.status_text = NULL
        /\ kind' = "response" =>
             /\ sent'.status_code \in 100..999 /\ sent'.status_text = <<"reason">>
             /\ sent'.method = "GET" /\ sent'.path = NULL
    <3>1. /\ kind = "request" =>
               /\ sent.method \in Methods /\ sent.path \in Plain({" ", LF})
               /\ sent.status_code = 0 /\ sent.status_text = NULL
          /\ kind = "response" =>
               /\ sent.status_code \in 100..999 /\ sent.status_text = <<"reason">>
               /\ sent.method = "GET" /\ sent.path = NULL
      BY ONLY Zenon, <1>5, Message DEF Message
    <3> QED
      BY ONLY <1>3, <3>1
  <2> QED
    BY ONLY <2>2, <2>3 DEF Message
<1> QED
  BY ONLY <1>4, <1>5

(* A request that was printed is on the wire as its sender meant it. *)
LEMMA PrintedMessage ==
  ASSUME Control, ClientMade, Building, NEW m \in Printed, msg.path # NULL,
         NEW order \in SetToSeqs(DOMAIN m.headers), RequestToStr(m, order)
  PROVE  Message'
<1>1. /\ pc = "build" /\ Printable(msg) /\ sent' = m /\ kind' = kind
      /\ lines' = Printing2(m.headers, order)
      /\ whole' = http_request_to_str(m, order) \/ whole' = NULL
  BY DEF RequestToStr, taskVars, Printing2
<1>2. Sendable(m)
  <2>1. Sendable(msg) /\ msg.host \in Plain({CR}) /\ msg.port \in Nat
    BY <1>1, SendableMessage
  <2>2. Sendable(WithHost(msg))
    BY ONLY <2>1, SendableHost
  <2>3. m = WithHost(msg) \/ m = msg
    BY DEF Printed
  <2> QED
    BY <2>1, <2>2, <2>3
<1>3. kind = "request"
  BY <1>1 DEF Control
<1>4. /\ http_request_to_str(m, order) = MessageText(RequestStart(m), Printing2(m.headers, order), RequestTail(m))
      /\ RequestTail(m) \in Seq(Char)
  BY <1>2, PrintedText
<1>5. /\ Printing2(m.headers, order) \in Seq(HeaderLines)
      /\ HeadersOf(Printing2(m.headers, order)) = m.headers
  <2>1. IsHeaders(m.headers)
    BY <1>2 DEF Sendable
  <2> QED
    BY ONLY <2>1, order \in SetToSeqs(DOMAIN m.headers), PrintedHeaders
<1>6. StartText' = RequestStart(m) /\ TailText' = RequestTail(m)
  BY <1>1, <1>3 DEF StartText, TailText, RequestStart, RequestTail
<1>7. m.body \in Seq(Char) /\ IsMessage(m) /\ m.protocol = PROTOCOL
      /\ m.method \in Methods /\ m.path \in Plain({" ", LF})
      /\ m.status_code = 0 /\ m.status_text = NULL
  BY <1>2 DEF Sendable
<1>8. kind' = "request" /\ kind' # "response"
  BY ONLY <1>1, <1>3
<1> QED
  BY ONLY <1>1, <1>4, <1>5, <1>6, <1>7, <1>8 DEF Message

(* What an answer says is on the wire. *)
LEMMA AnswerLines ==
  ASSUME NEW a \in Answers
  PROVE  /\ a.status \in 100..999 /\ a.lines \in Seq(HeaderLines) /\ a.rest \in Seq(Char)
<1>1. a.status \in 100..999 /\ a.lines \in Seq(Lines) /\ a.rest \in Seq(STRING)
  BY AnswersAssumption
<1> QED
  BY ONLY <1>1, LinesAreHeaderLines, StringsAreTexts

ResponseStart(status) == PROTOCOL \o Space \o to_str(status) \o Space \o <<"reason">>

(* An answer is a message. *)
LEMMA AnswerIs ==
  ASSUME NEW a \in Answers
  PROVE  /\ AnswerText(a) = MessageText(ResponseStart(a.status), a.lines, a.rest)
         /\ ResponseStart(a.status) \in Seq(Char)
<1>1. a.status \in 100..999 /\ a.lines \in Seq(HeaderLines) /\ a.rest \in Seq(Char)
  BY AnswerLines
<1>2. FlattenSeq([i \in 1..Len(a.lines) |-> HeaderLine(a.lines[i].key, a.lines[i].value)])
        = FlattenSeq(LineTexts(a.lines))
  BY DEF LineTexts, LineText
<1>3. ResponseStart(a.status) \in Seq(Char)
  <2> DEFINE s == a.status
  <2>0. s \in 100..999
    BY <1>1
  <2> HIDE DEF s
  <2>a. s \in Nat
    BY ONLY <2>0
  <2>1. a.status \in Nat
    BY ONLY <2>a DEF s
  <2>2. to_str(a.status) \in Seq(Char)
    BY ONLY <2>1, AtoiOfDecimal, NumeralsArePlain, PlainTexts
  <2>3. "HTTP/1.1" \in Char /\ "reason" \in Char
    BY DEF Char, Literals
  <2>4. ResponseStart(a.status) = Three("HTTP/1.1", to_str(a.status), "reason")
    BY DEF ResponseStart, PROTOCOL, Three
  <2>5. IsThree(Three("HTTP/1.1", to_str(a.status), "reason"), "HTTP/1.1", to_str(a.status), "reason")
    BY ONLY <2>2, <2>3, ThreeParts
  <2> QED
    BY ONLY <2>4, <2>5 DEF IsThree
<1>4. AnswerText(a) = ResponseStart(a.status) \o CRLF \o FlattenSeq(LineTexts(a.lines)) \o CRLF \o a.rest
  BY <1>2 DEF AnswerText, ResponseStart
<1> QED
  BY ONLY <1>3, <1>4 DEF MessageText

(* An answer is the message its server meant. *)
LEMMA AnswerMessage ==
  ASSUME NEW a \in Answers, Answer(a)
  PROVE  Message' /\ kind' = "response"
<1> DEFINE R(h, p, s, t, b) ==
             [EmptyMessage EXCEPT !.headers = h, !.protocol = p, !.status_code = s,
                                  !.status_text = t, !.body = b]
<1>1. ASSUME NEW h, NEW p, NEW s, NEW t, NEW b
      PROVE  LET r == R(h, p, s, t, b)
             IN /\ r = [f \in Fields |-> r[f]]
                /\ r.headers = h /\ r.protocol = p /\ r.status_code = s /\ r.status_text = t
                /\ r.body = b /\ r.method = "GET" /\ r.path = NULL
  <2> DEFINE r == R(h, p, s, t, b)
             m == EmptyMessage
  <2>1. m = [f \in Fields |-> m[f]]
    BY NewMessage, FieldsAre
  <2>2. m.method = "GET" /\ m.path = NULL
    BY EmptyFields
  <2> HIDE DEF m
  <2>3. r = [m EXCEPT !.headers = h, !.protocol = p, !.status_code = s, !.status_text = t, !.body = b]
    BY DEF m
  <2> HIDE DEF r
  <2>4. r = [f \in Fields |-> r[f]]
    BY ONLY <2>1, <2>3 DEF Fields
  <2>5. /\ r.headers = h /\ r.protocol = p /\ r.status_code = s /\ r.status_text = t
        /\ r.body = b /\ r.method = m.method /\ r.path = m.path
    BY ONLY <2>1, <2>3 DEF Fields
  <2> HIDE DEF R
  <2> QED
    BY <2>2, <2>4, <2>5 DEF r
<1>2. sent' = R(HeadersOf(a.lines), PROTOCOL, a.status, <<"reason">>, a.rest)
      /\ whole' = AnswerText(a) /\ lines' = a.lines /\ kind' = "response"
  BY DEF Answer
<1> HIDE DEF R
<1>3. /\ IsMessage(sent') /\ sent'.headers = HeadersOf(a.lines) /\ sent'.protocol = PROTOCOL
      /\ sent'.status_code = a.status /\ sent'.status_text = <<"reason">>
      /\ sent'.body = a.rest /\ sent'.method = "GET" /\ sent'.path = NULL
  BY <1>1, <1>2, FieldsAre
<1>4. StartText' = ResponseStart(a.status) /\ TailText' = a.rest /\ kind' # "request"
  BY <1>2, <1>3 DEF StartText, TailText, ResponseStart
<1>5. a.status \in 100..999 /\ a.lines \in Seq(HeaderLines) /\ a.rest \in Seq(Char)
  BY AnswerLines
<1>6. AnswerText(a) = MessageText(ResponseStart(a.status), a.lines, a.rest)
  BY AnswerIs
<1>7. Message'
  <2>1. lines' \in Seq(HeaderLines) /\ TailText' \in Seq(Char) /\ sent'.body \in Seq(Char)
    BY ONLY <1>2, <1>3, <1>4, <1>5
  <2>2. whole' = MessageText(StartText', lines', TailText')
    BY ONLY Zenon, <1>2, <1>4, <1>6
  <2>3. IsMessage(sent') /\ sent'.headers = HeadersOf(lines') /\ sent'.protocol = PROTOCOL
    BY ONLY Zenon, <1>2, <1>3
  <2>4. /\ sent'.status_code \in 100..999 /\ sent'.status_text = <<"reason">>
        /\ sent'.method = "GET" /\ sent'.path = NULL
    BY ONLY <1>3, <1>5
  <2> QED
    BY ONLY Zenon, <1>4, <2>1, <2>2, <2>3, <2>4 DEF Message
<1> QED
  BY <1>2, <1>7

(* An answer has a first line, so its text is none that is missing. *)
LEMMA AnswersArePrinted == \A a \in Answers : AnswerText(a) # NULL
<1> SUFFICES ASSUME NEW a \in Answers PROVE AnswerText(a) # NULL
  OBVIOUS
<1>1. /\ AnswerText(a) = MessageText(ResponseStart(a.status), a.lines, a.rest)
      /\ ResponseStart(a.status) \in Seq(Char)
  BY AnswerIs
<1>2. a.lines \in Seq(HeaderLines) /\ a.rest \in Seq(Char)
  BY AnswerLines
<1> DEFINE w == AnswerText(a)
           n == Len(ResponseStart(a.status))
<1>3. Layout(w, n, a.lines, a.rest)
  BY ONLY <1>1, <1>2, MessageLayout DEF w, n
<1>4. n \in Nat /\ w[n + 1] = CR /\ w[n + 2] = LF
  BY <1>3 DEF Layout
<1>5. Len(w) >= 2
  <2> DEFINE p == EndsAt(n, a.lines, Len(a.lines))
             W == Len(w)
             T == Len(a.rest)
  <2>1. p \in Nat /\ W = p + 2 + T /\ T \in Nat
    BY <1>3, LayoutEnd
  <2> HIDE DEF p, W, T
  <2>2. W >= 2
    BY ONLY <2>1
  <2> QED
    BY <2>2 DEF W
<1>6. Len(NULL) = 1
  BY DEF NULL
<1> HIDE DEF w
<1>7. w # NULL
  <2>1. w = NULL => Len(w) = Len(NULL)
    BY ONLY TRUE
  <2> DEFINE A == Len(w)
             B == Len(NULL)
  <2>2. A >= 2 /\ B = 1
    BY <1>5, <1>6
  <2> HIDE DEF A, B
  <2>3. A # B
    BY ONLY <2>2
  <2> QED
    BY ONLY <2>1, <2>3 DEF A, B
<1> QED
  BY <1>7 DEF w

(* Every step keeps Message. *)
LEMMA MessageStep ==
  ASSUME Control, ClientMade, Building, Message, Next
  PROVE  Message'
<1>1. CASE PrintRequest
  <2>2. \/ RequestToStrNull
        \/ \E m \in Printed : \E order \in SetToSeqs(DOMAIN m.headers) : RequestToStr(m, order)
    BY <1>1 DEF PrintRequest
  <2>3. msg.path # NULL
    BY <1>1 DEF PrintRequest
  <2>4. CASE RequestToStrNull
    <3>1. whole' = NULL
      BY <2>4 DEF RequestToStrNull
    <3> QED
      BY <3>1 DEF Message
  <2> QED
    BY <2>2, <2>3, <2>4, PrintedMessage
<1>2. CASE \E a \in Answers : Answer(a)
  BY <1>2, AnswerMessage
<1>3. CASE ~PrintRequest /\ \A a \in Answers : ~Answer(a)
  BY <1>3, WireKept, MessageSame
<1> QED
  BY <1>1, <1>2, <1>3

(* Only FromStr makes a client. *)
LEMMA ClientKept ==
  ASSUME Next, ~FromStr
  PROVE  client' = client
<1> DEFINE K == client' = client
<1>2. RequestInit => K
  BY DEF RequestInit, appVars
<1>3. SetHandshakeHeaders => K
  BY DEF SetHandshakeHeaders, appVars
<1>4. PrintRequest => K
  BY DEF PrintRequest, appVars
<1>5. GiveBack => K
  BY DEF GiveBack, appVars
<1>6. Free => K
  BY DEF Free
<1>7. Arrives => K
  BY DEF Arrives, appVars
<1>8. StartStep \/ HeaderStep \/ BodyStep \/ HeaderFails => K
  BY DEF StartStep, HeaderStep, BodyStep, HeaderFails, appVars
<1>9. (\E method \in AppMethods : AppStart(method)) => K
  BY DEF AppStart, appVars
<1>10. (\E key \in AppKeys, value \in AppValues : AppSetHeader(key, value)) => K
  BY DEF AppSetHeader, Calling
<1>11. (\E body \in AppBodies : AppWrite(body)) => K
  BY DEF AppWrite, Calling
<1>12. (\E a \in Answers : Answer(a)) => K
  BY DEF Answer, appVars
<1> HIDE DEF K
<1>13. K
  BY NextCases, <1>2, <1>3, <1>4, <1>5, <1>6, <1>7, <1>8, <1>9, <1>10, <1>11, <1>12
<1> QED
  BY <1>13 DEF K

(* A client's request is what the client asks for. *)
LEMMA ConnectSentStep ==
  ASSUME Control, Printing, ClientMade, Building, ConnectSent, Next
  PROVE  ConnectSent'
<1>1. CASE FromStr
  <2>1. pc = "url" /\ whole' = whole
    BY <1>1 DEF FromStr, wireVars
  <2>2. whole = NULL
    BY <2>1 DEF Control, Printing
  <2> QED
    BY <2>1, <2>2 DEF ConnectSent
<1>2. CASE PrintRequest
  <2>1. msg.path # NULL /\ UNCHANGED <<mode, client>>
    BY <1>2 DEF PrintRequest, appVars
  <2>2. CASE RequestToStrNull
    <3>1. whole' = NULL
      BY <2>2 DEF RequestToStrNull
    <3> QED
      BY <3>1 DEF ConnectSent
  <2>3. ASSUME NEW m \in Printed, NEW order, RequestToStr(m, order)
        PROVE  ConnectSent'
    <3>1. pc = "build" /\ Printable(msg) /\ sent' = m
      BY <2>3 DEF RequestToStr
    <3>2. mode = "connect" => msg = HandshakeMsg
      BY <2>1, <3>1, SendableMessage
    <3>3. m = WithHost(msg) \/ ("alloc" \in HttpFaults /\ m = msg)
      BY DEF Printed
    <3>4. HandshakeMsg' = HandshakeMsg
      BY <2>1 DEF HandshakeMsg
    <3>5. mode' = "connect" =>
            \/ sent' = WithHost(HandshakeMsg)
            \/ "alloc" \in HttpFaults /\ sent' = HandshakeMsg
      BY <2>1, <3>1, <3>2, <3>3
    <3>6. WithHost(HandshakeMsg)' = WithHost(HandshakeMsg)
      BY <3>4 DEF WithHost, set_header
    <3> QED
      BY <3>4, <3>5, <3>6 DEF ConnectSent
  <2> QED
    BY <1>2, <2>2, <2>3 DEF PrintRequest
<1>3. CASE \E a \in Answers : Answer(a)
  <2>1. kind' = "response"
    BY <1>3 DEF Answer
  <2> QED
    BY <2>1 DEF ConnectSent
<1>4. CASE ~FromStr /\ ~PrintRequest /\ \A a \in Answers : ~Answer(a)
  <2>1. client' = client /\ mode' = mode
    BY <1>4, ClientKept, UrlStays
  <2>2. kind' = kind /\ whole' = whole /\ sent' = sent
    BY <1>4, WireKept
  <2>3. HandshakeMsg' = HandshakeMsg
    BY <2>1 DEF HandshakeMsg
  <2>4. WithHost(HandshakeMsg)' = WithHost(HandshakeMsg)
    BY <2>3 DEF WithHost, set_header
  <2> QED
    BY <2>1, <2>2, <2>3, <2>4 DEF ConnectSent
<1> QED
  BY <1>1, <1>2, <1>3, <1>4

----------------------------------------------------------------------------
(* Parsing: the steps around it *)

(* What is said of a text stays true while the text and its parser's         *)
(* message stay the same.                                                    *)
LEMMA WireFrame ==
  ASSUME UNCHANGED <<kind, whole, lines, sent, text>>
  PROVE  /\ StartText' = StartText /\ (\A n : P(n)' = P(n))
         /\ CutInName' = CutInName /\ TwoSpaces' = TwoSpaces
<1>1. StartText' = StartText
  BY DEF StartText
<1>2. \A n : P(n)' = P(n)
  BY <1>1 DEF P
<1>3. \A n : LineStart(n)' = LineStart(n)
  BY DEF LineStart
<1>4. CutInName' = CutInName
  BY <1>3 DEF CutInName
<1>5. TwoSpaces' = TwoSpaces
  BY DEF TwoSpaces
<1> QED
  BY <1>1, <1>2, <1>4, <1>5

(* A step of the parser that leaves the text alone. *)
LEMMA ParsingFree ==
  ASSUME Parsing, job = "parse", pc' \notin {"start", "lines", "done"},
         UNCHANGED <<kind, whole, lines, sent, text>>, index' \in Nat,
         fault' = "past_end" => CutInName
  PROVE  Parsing'
<1>1. CutInName' = CutInName
  BY WireFrame
<1>2. Begins(text', whole') /\ text' \in Seq(Char)
  BY DEF Parsing
<1> QED
  BY <1>1, <1>2 DEF Parsing

(* RequestInit keeps Parsing. *)
LEMMA ParsingInit ==
  ASSUME Control, Parsing, RequestInit
  PROVE  Parsing'
<1>1. /\ pc = "init" /\ msg' = EmptyMessage /\ index' = 0 /\ fault' = fault /\ job' = job
      /\ UNCHANGED <<kind, whole, lines, sent, text>>
      /\ pc' \in {"free", IF job = "print" THEN "build" ELSE "start"}
  BY DEF RequestInit, MessageInit, taskVars, wireVars
<1>2. fault' # "past_end"
  BY <1>1 DEF Control, NoFault
<1>3. CASE job = "parse"
  <2>1. Begins(text', whole') /\ text' \in Seq(Char)
    BY <1>1, <1>3 DEF Parsing
  <2>2. pc' \in {"free", "start"}
    BY <1>1, <1>3
  <2> QED
    BY <1>1, <1>2, <2>1, <2>2 DEF Parsing
<1>4. CASE job # "parse"
  BY <1>1, <1>4 DEF Parsing
<1> QED
  BY <1>3, <1>4

(* Free keeps Parsing. *)
LEMMA ParsingFreed ==
  ASSUME Control, Parsing, Free
  PROVE  Parsing'
<1>1. /\ job' = job /\ index' = index /\ UNCHANGED <<kind, whole, lines, sent, text>>
      /\ fault' \in {"double_free", NoFault, "wild"} /\ pc' \in {"wire", "end"}
  BY DEF Free, MessageFree, taskVars, wireVars
<1>2. fault' # "past_end" /\ pc' \notin {"start", "lines", "done"}
  BY <1>1 DEF NoFault
<1>3. index' \in Nat
  BY <1>1 DEF Parsing
<1>4. CASE job = "parse"
  BY <1>1, <1>2, <1>3, <1>4, ParsingFree
<1>5. CASE job # "parse"
  BY <1>1, <1>3, <1>5 DEF Parsing
<1> QED
  BY <1>4, <1>5

(* Arrives keeps Parsing. *)
LEMMA ParsingArrives ==
  ASSUME Control, Printing, Message, Parsing, Arrives
  PROVE  Parsing'
<1>1. PICK n \in 0..Len(whole) : Deliver(n)
  BY DEF Arrives
<1>2. /\ pc = "wire" /\ pc' = "init" /\ text' = SubSeq(whole, 1, n) /\ whole' = whole
      /\ index' = index /\ fault' = fault
  BY <1>1 DEF Deliver, wireVars
<1>3. whole # NULL
  BY <1>2 DEF Printing
<1>4. whole \in Seq(Char)
  BY <1>3, WholeLayout DEF Layout
<1>5. /\ text' \in Seq(Char) /\ Len(text') = n /\ \A j \in 1..n : text'[j] = whole[j]
  BY <1>2, <1>4, CutFacts
<1>6. Len(whole) \in Nat
  BY <1>4
<1>7. Begins(text', whole')
  BY ONLY <1>2, <1>5, <1>6, n \in 0..Len(whole) DEF Begins
<1>8. fault' # "past_end"
  BY <1>2 DEF Control, NoFault
<1>9. index' \in Nat
  BY <1>2 DEF Parsing
<1> QED
  BY <1>2, <1>5, <1>7, <1>8, <1>9 DEF Parsing

(* Answer keeps Parsing. *)
LEMMA ParsingAnswered ==
  ASSUME NEW a \in Answers, Answer(a)
  PROVE  Parsing'
<1>1. /\ pc' = "wire" /\ text' = <<>> /\ index' = 0 /\ whole' = AnswerText(a) /\ fault' = NoFault
  BY DEF Answer
<1>2. AnswerText(a) \in Seq(Char)
  <2>1. /\ AnswerText(a) = MessageText(ResponseStart(a.status), a.lines, a.rest)
        /\ ResponseStart(a.status) \in Seq(Char)
    BY AnswerIs
  <2>2. a.lines \in Seq(HeaderLines) /\ a.rest \in Seq(Char)
    BY AnswerLines
  <2>3. Layout(AnswerText(a), Len(ResponseStart(a.status)), a.lines, a.rest)
    BY ONLY <2>1, <2>2, MessageLayout
  <2> QED
    BY <2>3 DEF Layout
<1>3. Begins(<<>>, AnswerText(a))
  BY <1>2 DEF Begins
<1>4. <<>> \in Seq(Char) /\ 0 \in Nat /\ NoFault # "past_end"
  BY DEF NoFault
<1> QED
  BY <1>1, <1>3, <1>4 DEF Parsing

(* A header that cannot be set keeps Parsing. *)
LEMMA ParsingFails ==
  ASSUME Control, Parsing, HeaderFails
  PROVE  Parsing'
<1>1. /\ pc = "lines" /\ pc' = "free" /\ index' = index /\ fault' = fault /\ job' = job
      /\ UNCHANGED <<kind, whole, lines, sent, text>>
  BY DEF HeaderFails, FromStrHeaderFails, taskVars, wireVars
<1>2. fault' # "past_end" /\ job = "parse"
  BY <1>1 DEF Control, NoFault
<1>3. index' \in Nat /\ pc' \notin {"start", "lines", "done"}
  BY <1>1 DEF Parsing
<1> QED
  BY <1>1, <1>2, <1>3, ParsingFree

----------------------------------------------------------------------------
(* Parsing: the first line *)

(* What a start line fills in; the rest of a new message stays. *)
Begun(m) ==
  /\ IsMessage(m) /\ m.host = NULL /\ m.port = 80 /\ m.headers = <<>> /\ m.body = <<>>

RequestBegun(a, b, c) == [EmptyMessage EXCEPT !.method = a, !.path = b, !.protocol = c]
ResponseBegun(a, b, c) == [EmptyMessage EXCEPT !.protocol = a, !.status_code = b, !.status_text = c]

(* The message behind a request's first line. *)
LEMMA RequestFields ==
  ASSUME NEW a, NEW b, NEW c, NEW r, r = RequestBegun(a, b, c)
  PROVE  /\ Begun(r) /\ r.method = a /\ r.path = b /\ r.protocol = c
         /\ r.status_code = 0 /\ r.status_text = NULL
<1> DEFINE m == EmptyMessage
<1>1. m = [f \in Fields |-> m[f]]
  BY NewMessage, FieldsAre
<1>2. m.host = NULL /\ m.port = 80 /\ m.headers = <<>> /\ m.body = <<>> /\ m.status_code = 0 /\ m.status_text = NULL
  BY EmptyFields
<1>3. r = [m EXCEPT !.method = a, !.path = b, !.protocol = c]
  BY DEF RequestBegun
<1> HIDE DEF m
<1>4. r = [f \in Fields |-> r[f]]
  BY ONLY <1>1, <1>3 DEF Fields
<1>5. /\ r.method = a /\ r.path = b /\ r.protocol = c /\ r.host = m.host /\ r.port = m.port
      /\ r.headers = m.headers /\ r.body = m.body /\ r.status_code = m.status_code
      /\ r.status_text = m.status_text
  BY ONLY <1>1, <1>3 DEF Fields
<1>6. IsMessage(r)
  BY <1>4, FieldsAre
<1>7. Begun(r)
  BY ONLY <1>2, <1>5, <1>6 DEF Begun
<1> QED
  BY <1>2, <1>5, <1>7

(* The message behind a response's first line. *)
LEMMA ResponseFields ==
  ASSUME NEW a, NEW b, NEW c, NEW r, r = ResponseBegun(a, b, c)
  PROVE  /\ Begun(r) /\ r.protocol = a /\ r.status_code = b /\ r.status_text = c
         /\ r.method = "GET" /\ r.path = NULL
<1> DEFINE m == EmptyMessage
<1>1. m = [f \in Fields |-> m[f]]
  BY NewMessage, FieldsAre
<1>2. m.host = NULL /\ m.port = 80 /\ m.headers = <<>> /\ m.body = <<>> /\ m.method = "GET" /\ m.path = NULL
  BY EmptyFields
<1>3. r = [m EXCEPT !.protocol = a, !.status_code = b, !.status_text = c]
  BY DEF ResponseBegun
<1> HIDE DEF m
<1>4. r = [f \in Fields |-> r[f]]
  BY ONLY <1>1, <1>3 DEF Fields
<1>5. /\ r.protocol = a /\ r.status_code = b /\ r.status_text = c /\ r.host = m.host /\ r.port = m.port
      /\ r.headers = m.headers /\ r.body = m.body /\ r.method = m.method /\ r.path = m.path
  BY ONLY <1>1, <1>3 DEF Fields
<1>6. IsMessage(r)
  BY <1>4, FieldsAre
<1>7. Begun(r)
  BY ONLY <1>2, <1>5, <1>6 DEF Begun
<1> QED
  BY <1>2, <1>5, <1>7

(* A parser that has read the start line is at the first header line, or the *)
(* text ends before it.                                                      *)
LEMMA StartProgress ==
  ASSUME Control, Message, whole # NULL, text \in Seq(Char), Begins(text, whole),
         UNCHANGED <<kind, whole, lines, sent, text>>,
         index' = strcspn(text, 0, {LF}) + 1, msg'.headers = <<>>
  PROVE  Progress' /\ index' \in Nat
<1> DEFINE L == Len(Word2)
           S == Len(StartText)
           T == Len(text)
           c == strcspn(text, 0, {LF})
<1>1. L \in Nat /\ S = L + 4 /\ T \in Nat
  BY WholeLayout
<1>2. c = IF T >= L + 5 THEN L + 5 ELSE T
  BY WholeWords DEF CutWords
<1>3. P(0) = S + 2
  BY WholeLayout DEF Layout, P
<1>4. index' = c + 1
  OBVIOUS
<1>5. StartText' = StartText /\ P(0)' = P(0)
  BY WireFrame
<1>6. HeadersOf(FirstOf(lines, 0)) = <<>>
  <2>1. lines \in Seq(HeaderLines)
    BY LinesTyped
  <2>2. FirstOf(lines, 0) = <<>>
    BY ONLY <2>1, FrontSeq
  <2> QED
    BY <2>2, HeadersNone
<1> HIDE DEF c
<1>7. index' \in Nat
  BY ONLY <1>1, <1>2, <1>4
<1>8. CASE T >= L + 5
  <2>1. index' = P(0) /\ P(0) <= T + 2
    BY ONLY <1>1, <1>2, <1>3, <1>4, <1>8
  <2>2. AtLine(0)'
    BY <1>5, <1>6, <2>1 DEF AtLine
  <2>3. 0 \in 0..Len(lines')
    BY LinesTyped
  <2> QED
    BY <1>7, <2>2, <2>3 DEF Progress
<1>9. CASE ~(T >= L + 5)
  <2>1. T <= S + 1 /\ index' = T + 1
    BY ONLY <1>1, <1>2, <1>4, <1>9
  <2>2. Short'
    BY <1>5, <2>1 DEF Short
  <2> QED
    BY <1>7, <2>2 DEF Progress
<1> QED
  BY <1>8, <1>9

(* A method's name is read as that method. *)
LEMMA MethodIs ==
  ASSUME NEW m \in Methods
  PROVE  http_method_get_enum(<<m>>) = m
<1>1. <<m>> # <<>> /\ <<m>>[1] = m
  OBVIOUS
<1> QED
  BY <1>1 DEF http_method_get_enum

(* The first line of a request keeps Parsing. *)
LEMMA ParsingRequestLine ==
  ASSUME Control, Printing, Message, Parsing, StartStep, kind = "request"
  PROVE  Parsing'
<1> DEFINE L == Len(Word2)
           S == Len(StartText)
           T == Len(text)
           c == strcspn(text, 0, {LF})
           r == parse_request_start_line(text, c)
<1>1. /\ pc = "start" /\ job' = job /\ UNCHANGED <<kind, whole, lines, sent, text>>
      /\ msg' = r.message /\ index' = c + 1
      /\ pc' = IF r.result = "true" THEN "lines" ELSE "free"
      /\ fault' = IF r.result = "past_end" THEN "past_end" ELSE fault
  BY DEF StartStep, StartLine, taskVars, wireVars
<1>2. job = "parse" /\ fault # "past_end" /\ whole # NULL
  BY <1>1 DEF Control, Printing, NoFault
<1>3. text \in Seq(Char) /\ Begins(text, whole) /\ msg = EmptyMessage
  BY <1>1, <1>2 DEF Parsing
<1>4. CutWords(text, Word1, Word2, Word3)
  BY <1>2, <1>3, WholeWords
<1>5. L \in Nat /\ S = L + 4 /\ T \in Nat
  BY <1>2, <1>3, WholeLayout
<1>6. CASE T >= L + 3
  <2> DEFINE y == IF T >= L + 4 THEN <<Word3>> ELSE str_dup(text, L + 3, 0)
             n == [EmptyMessage EXCEPT !.method = http_method_get_enum(<<Word1>>), !.path = Word2,
                                       !.protocol = y]
  <2>1. r = Parsed("true", [msg EXCEPT !.method = http_method_get_enum(<<Word1>>), !.path = Word2,
                                       !.protocol = y])
    BY ONLY <1>4, <1>6, RequestLineTrue DEF r, c, y, T, L
  <2>2. r.result = "true" /\ r.message = n
    BY <1>3, <2>1 DEF Parsed
  <2> HIDE DEF r, c
  <2>3. msg' = n /\ pc' = "lines" /\ fault' = fault
    BY <1>1, <2>2
  <2>4. /\ Begun(n) /\ n.method = http_method_get_enum(<<Word1>>) /\ n.path = Word2
        /\ n.protocol = y /\ n.status_code = 0 /\ n.status_text = NULL
    <3> DEFINE a == http_method_get_enum(<<Word1>>)
               b == Word2
    <3>1. n = RequestBegun(a, b, y)
      BY DEF n, a, b, RequestBegun
    <3> HIDE DEF a, b, n, y
    <3>3. /\ Begun(n) /\ n.method = a /\ n.path = b /\ n.protocol = y
          /\ n.status_code = 0 /\ n.status_text = NULL
      BY ONLY <3>1, RequestFields
    <3> QED
      BY ONLY <3>3 DEF a, b
  <2> HIDE DEF n, y
  <2>5. /\ IsMessage(msg') /\ msg'.host = NULL /\ msg'.port = 80 /\ msg'.headers = <<>>
        /\ msg'.body = <<>> /\ msg'.status_code = 0 /\ msg'.status_text = NULL
        /\ msg'.method = http_method_get_enum(<<Word1>>) /\ msg'.path = Word2 /\ msg'.protocol = y
    BY ONLY <2>3, <2>4 DEF Begun
  <2>6. Progress' /\ index' \in Nat
    <3>1. index' = strcspn(text, 0, {LF}) + 1
      BY ONLY <1>1 DEF c
    <3>2. msg'.headers = <<>>
      BY ONLY <2>5
    <3> QED
      BY <1>1, <1>2, <1>3, <3>1, <3>2, StartProgress
  <2>7. TwoSpaces
    <3>1. text[2] = " " /\ text[L + 3] = " "
      <4>1. T >= 2
        BY ONLY <1>5, <1>6
      <4> QED
        BY <1>4, <1>6, <4>1 DEF CutWords
    <3>2. 2 \in 1..T /\ L + 3 \in 1..T /\ 2 < L + 3
      BY ONLY <1>5, <1>6
    <3> QED
      BY <3>1, <3>2 DEF TwoSpaces
  <2>8. /\ sent.method \in Methods /\ sent.protocol = <<"HTTP/1.1">> /\ sent.status_text = NULL
        /\ Word1 = sent.method /\ Word2 = sent.path /\ Word3 = "HTTP/1.1"
    BY <1>2 DEF Message, PROTOCOL, Word1, Word2, Word3
  <2>9. T >= S + 2 =>
          /\ msg'.method = sent.method /\ msg'.path = sent.path /\ msg'.protocol = sent.protocol
          /\ msg'.status_text = sent.status_text
    <3> SUFFICES ASSUME T >= S + 2
                 PROVE /\ msg'.method = sent.method /\ msg'.path = sent.path
                       /\ msg'.protocol = sent.protocol /\ msg'.status_text = sent.status_text
      OBVIOUS
    <3>1. T >= L + 4
      BY ONLY <1>5, T >= S + 2
    <3>2. y = <<Word3>>
      BY <3>1 DEF y
    <3>3. http_method_get_enum(<<Word1>>) = sent.method
      BY <2>8, MethodIs
    <3> QED
      BY <2>5, <2>8, <3>2, <3>3
  <2>10. StartText' = StartText /\ TwoSpaces' = TwoSpaces
    BY <1>1, WireFrame
  <2>11. Len(text') = T /\ Len(StartText') = S /\ kind' = "request" /\ sent' = sent
    BY <1>1, <2>10
  <2> HIDE DEF T, S
  <2>12. Len(text') >= Len(StartText') + 2 =>
          /\ msg'.method = sent'.method /\ msg'.path = sent'.path /\ msg'.protocol = sent'.protocol
          /\ msg'.status_text = sent'.status_text
    BY ONLY <2>9, <2>11
  <2>13. Started'
    BY ONLY <2>5, <2>7, <2>10, <2>11, <2>12 DEF Started
  <2>14. Begins(text', whole') /\ text' \in Seq(Char)
    BY <1>1, <1>3
  <2>15. fault' # "past_end"
    BY <1>2, <2>3
  <2>16. msg'.body = <<>>
    BY ONLY <2>5
  <2> QED
    BY ONLY <2>3, <2>6, <2>13, <2>14, <2>15, <2>16 DEF Parsing
<1>7. CASE ~(T >= L + 3)
  <2>0. T < L + 3
    BY ONLY <1>5, <1>7
  <2>1. r = Parsed("past_end", msg)
    BY ONLY <1>4, <2>0, RequestLinePastEnd DEF r, c, T, L
  <2>2. r.result = "past_end"
    BY <2>1 DEF Parsed
  <2> HIDE DEF r
  <2>3. pc' = "free"
    BY <1>1, <2>2
  <2>4. CutInName
    <3>1. Word1 # " " /\ \A j \in 1..Len(Word2) : Word2[j] # " "
      BY <1>2, StartWords, PlainTexts
    <3>2. Cardinality({i \in 1..Len(text) : text[i] = " "}) < 2
      BY ONLY <1>4, <2>0, <3>1, FewSpaces DEF T, L
    <3> QED
      BY <3>2 DEF CutInName
  <2>5. c \in Nat
    <3>1. c = IF T >= L + 5 THEN L + 5 ELSE T
      BY <1>4 DEF CutWords
    <3> HIDE DEF c
    <3> QED
      BY ONLY <1>5, <3>1
  <2> HIDE DEF c
  <2>6. index' \in Nat
    BY <1>1, <2>5
  <2> QED
    BY <1>1, <1>2, <2>3, <2>4, <2>6, ParsingFree
<1> QED
  BY <1>6, <1>7

(* A status code has 16 bits. *)
LEMMA StatusKept ==
  ASSUME NEW n \in 100..999
  PROVE  n % 2^16 = n
OBVIOUS

(* The first line of a response keeps Parsing. *)
LEMMA ParsingResponseLine ==
  ASSUME Control, Printing, Message, Parsing, StartStep, kind = "response"
  PROVE  Parsing'
<1> DEFINE L == Len(Word2)
           S == Len(StartText)
           T == Len(text)
           c == strcspn(text, 0, {LF})
           r == parse_response_start_line(text, c)
<1>1. /\ pc = "start" /\ job' = job /\ UNCHANGED <<kind, whole, lines, sent, text>>
      /\ msg' = r.message /\ index' = c + 1
      /\ pc' = IF r.result = "true" THEN "lines" ELSE "free"
      /\ fault' = IF r.result = "past_end" THEN "past_end" ELSE fault
  BY DEF StartStep, StartLine, taskVars, wireVars
<1>2. job = "parse" /\ fault # "past_end" /\ whole # NULL
  BY <1>1 DEF Control, Printing, NoFault
<1>3. text \in Seq(Char) /\ Begins(text, whole) /\ msg = EmptyMessage
  BY <1>1, <1>2 DEF Parsing
<1>4. CutWords(text, Word1, Word2, Word3)
  BY <1>2, <1>3, WholeWords
<1>5. L \in Nat /\ S = L + 4 /\ T \in Nat
  BY <1>2, <1>3, WholeLayout
<1>6. /\ sent.status_code \in 100..999 /\ sent.status_text = <<"reason">> /\ sent.method = "GET"
      /\ sent.path = NULL /\ sent.protocol = <<"HTTP/1.1">>
      /\ Word1 = "HTTP/1.1" /\ Word2 = to_str(sent.status_code) /\ Word3 = "reason"
  BY <1>2 DEF Message, PROTOCOL, Word1, Word2, Word3
<1>7. L = 3 /\ atoi(Word2) % 2^16 = sent.status_code
  <2> DEFINE n == sent.status_code
  <2>1. n \in 100..999
    BY <1>6
  <2> HIDE DEF n
  <2>2. n \in Nat
    BY ONLY <2>1
  <2>3. Len(to_str(n)) = 3
    BY ONLY <2>1, StatusLength
  <2>4. atoi(to_str(n)) = n
    BY ONLY <2>2, AtoiOfDecimal
  <2>5. n % 2^16 = n
    BY ONLY <2>1, StatusKept
  <2>6. Word2 = to_str(n)
    BY <1>6 DEF n
  <2>7. L = 3
    BY ONLY <2>3, <2>6 DEF L
  <2>8. atoi(Word2) % 2^16 = n
    BY ONLY <2>4, <2>5, <2>6
  <2> QED
    BY ONLY <2>7, <2>8 DEF n
<1>8. c \in Nat
  <2>1. c = IF T >= L + 5 THEN L + 5 ELSE T
    BY <1>4 DEF CutWords
  <2> HIDE DEF c
  <2> QED
    BY ONLY <1>5, <2>1
<1>9. CASE T >= 6
  <2> DEFINE y == IF T >= 7 THEN <<Word3>> ELSE str_dup(text, 6, 0)
             s == atoi(Word2) % 2^16
             n == [EmptyMessage EXCEPT !.protocol = <<Word1>>, !.status_code = s,
                                       !.status_text = y]
  <2>1. r = Parsed("true", [msg EXCEPT !.protocol = <<Word1>>, !.status_code = s,
                                       !.status_text = y])
    BY ONLY <1>4, <1>7, <1>9, ResponseLine DEF r, c, y, s, T, L
  <2>2. r.result = "true" /\ r.message = n
    BY <1>3, <2>1 DEF Parsed
  <2> HIDE DEF r, c
  <2>3. msg' = n /\ pc' = "lines" /\ fault' = fault
    BY <1>1, <2>2
  <2>4. /\ Begun(n) /\ n.protocol = <<Word1>> /\ n.status_code = s /\ n.status_text = y
        /\ n.method = "GET" /\ n.path = NULL
    <3> DEFINE a == <<Word1>>
    <3>1. n = ResponseBegun(a, s, y)
      BY DEF n, a, ResponseBegun
    <3> HIDE DEF a, s, n, y
    <3>3. /\ Begun(n) /\ n.protocol = a /\ n.status_code = s /\ n.status_text = y
          /\ n.method = "GET" /\ n.path = NULL
      BY ONLY <3>1, ResponseFields
    <3> QED
      BY ONLY <3>3 DEF a
  <2> HIDE DEF n, y
  <2>5. /\ IsMessage(msg') /\ msg'.host = NULL /\ msg'.port = 80 /\ msg'.headers = <<>>
        /\ msg'.body = <<>> /\ msg'.protocol = <<Word1>> /\ msg'.status_code = s
        /\ msg'.status_text = y /\ msg'.method = "GET" /\ msg'.path = NULL
    BY ONLY <2>3, <2>4 DEF Begun
  <2>a. s = sent.status_code
    BY <1>7
  <2> HIDE DEF s
  <2>6. Progress' /\ index' \in Nat
    <3>1. index' = strcspn(text, 0, {LF}) + 1
      BY ONLY <1>1 DEF c
    <3>2. msg'.headers = <<>>
      BY ONLY <2>5
    <3> QED
      BY <1>1, <1>2, <1>3, <3>1, <3>2, StartProgress
  <2>9. T >= S + 2 =>
          /\ msg'.method = sent.method /\ msg'.path = sent.path /\ msg'.protocol = sent.protocol
          /\ msg'.status_text = sent.status_text
    <3> SUFFICES ASSUME T >= S + 2
                 PROVE /\ msg'.method = sent.method /\ msg'.path = sent.path
                       /\ msg'.protocol = sent.protocol /\ msg'.status_text = sent.status_text
      OBVIOUS
    <3>1. T >= 7
      BY ONLY <1>5, <1>7, T >= S + 2
    <3>2. y = <<Word3>>
      BY <3>1 DEF y
    <3> QED
      BY ONLY <2>5, <1>6, <3>2
  <2>10. StartText' = StartText
    BY <1>1, WireFrame
  <2>11. Len(text') = T /\ Len(StartText') = S /\ kind' = "response" /\ sent' = sent
    BY <1>1, <2>10
  <2> HIDE DEF T, S
  <2>12. Len(text') >= Len(StartText') + 2 =>
          /\ msg'.method = sent'.method /\ msg'.path = sent'.path /\ msg'.protocol = sent'.protocol
          /\ msg'.status_text = sent'.status_text
    BY ONLY <2>9, <2>11
  <2>b. msg'.status_code = sent'.status_code /\ kind' # "request"
    BY ONLY <2>a, <2>5, <2>11
  <2>13. Started'
    BY ONLY <2>5, <2>b, <2>10, <2>12 DEF Started
  <2>14. Begins(text', whole') /\ text' \in Seq(Char)
    BY <1>1, <1>3
  <2>15. fault' # "past_end"
    BY <1>2, <2>3
  <2>16. msg'.body = <<>>
    BY ONLY <2>5
  <2> QED
    BY ONLY <2>3, <2>6, <2>13, <2>14, <2>15, <2>16 DEF Parsing
<1>10. CASE ~(T >= 6)
  <2>0. T < 6
    BY ONLY <1>5, <1>10
  <2>1. r = Parsed("false", msg)
    BY ONLY <1>4, <1>7, <2>0, ResponseLine DEF r, c, T, L
  <2>2. r.result = "false"
    BY <2>1 DEF Parsed
  <2> HIDE DEF r
  <2>3. pc' = "free" /\ fault' = fault
    BY <1>1, <2>2
  <2> HIDE DEF c
  <2>6. index' \in Nat
    BY <1>1, <1>8
  <2> QED
    BY <1>1, <1>2, <2>3, <2>6, ParsingFree
<1> QED
  BY <1>9, <1>10

(* A first line keeps Parsing. *)
LEMMA ParsingStarts ==
  ASSUME Control, Printing, Message, Parsing, StartStep
  PROVE  Parsing'
BY ParsingRequestLine, ParsingResponseLine DEF Control

----------------------------------------------------------------------------
(* Parsing: a header line and the body *)

(* A header line keeps Parsing: the parser is at the end of one more line. *)
LEMMA ParsingHeaderLine ==
  ASSUME Control, Printing, Message, Parsing, HeaderStep
  PROVE  Parsing'
<1>1. /\ pc = "lines" /\ ~HeadersOver /\ job' = job
      /\ UNCHANGED <<kind, whole, lines, sent, text>>
  BY DEF HeaderStep, FromStrHeader, taskVars, wireVars
<1>2. job = "parse" /\ fault # "past_end"
  BY <1>1 DEF Control, NoFault
<1>3. /\ whole # NULL /\ Layout(whole, Len(StartText), lines, TailText)
      /\ text \in Seq(Char) /\ Begins(text, whole) /\ Len(lines) \in Nat
      /\ \E k \in 1..Len(lines) : At(k)
  BY <1>1, AtHeader
<1>4. PICK k \in 1..Len(lines) : At(k)
  BY <1>3
<1>5. NameLost(k) \/ NameRead(k)
  BY <1>1, <1>3, <1>4, ReadName
<1>6. index \in Nat /\ Started /\ msg.body = <<>>
  BY <1>1, <1>2 DEF Parsing
<1> DEFINE p == P(k - 1)
           K == Len(lines[k].key)
           V == Len(lines[k].value)
           T == Len(text)
           at == ValueOffset(index, strcspn(text, index, {":"}))
           v == strcspn(text, at, {CR})
           name == str_dup(text, index, strcspn(text, index, {":"}))
           value == str_dup(text, at, v)
<1>7. \/ ~InBounds(text, at) /\ fault' = "past_end" /\ pc' = "free" /\ index' = index
      \/ /\ InBounds(text, at) /\ msg' = set_header(msg, name, value)
         /\ index' = NextLine(index, at, v) /\ pc' = pc /\ fault' = fault
  BY DEF HeaderStep, FromStrHeader
<1>8. CASE NameLost(k)
  <2>1. ~InBounds(text, at) /\ CutInName
    BY <1>8 DEF NameLost
  <2>2. fault' = "past_end" /\ pc' = "free" /\ index' = index
    BY <1>7, <2>1
  <2>3. index' \in Nat /\ pc' \notin {"start", "lines", "done"}
    BY <1>6, <2>2
  <2> QED
    BY <1>1, <1>2, <2>1, <2>3, ParsingFree
<1>9. CASE NameRead(k)
  <2>1. /\ strcspn(text, index, {":"}) = K /\ name = lines[k].key /\ InBounds(text, at)
        /\ at = p + K + 2 /\ at <= T
    BY <1>9 DEF NameRead
  <2>2. /\ msg' = set_header(msg, lines[k].key, value) /\ index' = NextLine(index, at, v)
        /\ pc' = "lines" /\ fault' = fault
    <3> HIDE DEF at, v, value, name
    <3> QED
      BY <1>1, <1>7, <2>1
  <2>3. /\ p \in Nat /\ K \in Nat /\ V \in Nat /\ P(k) = p + K + V + 4
        /\ lines[k] \in HeaderLines /\ lines[k].key \in Seq(Char) /\ lines[k].value \in Seq(Char)
    BY <1>3, LayoutLine DEF P
  <2>4. T \in Nat
    BY <1>3
  <2>5. /\ at + V <= T => v = V /\ value = lines[k].value
        /\ at + V > T => v = T - at /\ value = SubSeq(lines[k].value, 1, T - at)
    <3>1. at = P(k - 1) + K + 2 /\ at <= T
      BY <2>1
    <3>2. Layout(whole, Len(StartText), lines, TailText) /\ text \in Seq(Char) /\ Begins(text, whole)
      BY ONLY <1>3
    <3>3. ValueRead(text, EndsAt(Len(StartText), lines, k - 1) + Len(lines[k].key) + 2, lines[k].value)
      <4>1. EndsAt(Len(StartText), lines, k - 1) + Len(lines[k].key) + 2 <= Len(text)
        BY ONLY <3>1 DEF P, K, T
      <4> QED
        BY ONLY <3>2, <4>1, k \in 1..Len(lines), LineArrived
    <3> HIDE DEF at
    <3>4. ValueRead(text, at, lines[k].value)
      BY ONLY <3>1, <3>3 DEF P, K
    <3> QED
      BY ONLY <3>4 DEF ValueRead, v, value, V, T
  <2>6. FirstOf(lines, k - 1) \in Seq(HeaderLines) /\ FirstOf(lines, k) = Append(FirstOf(lines, k - 1), lines[k])
    <3>1. lines \in Seq(HeaderLines)
      BY <1>3 DEF Layout
    <3>2. k - 1 \in 0..Len(lines)
      BY <1>3
    <3> QED
      BY ONLY <3>1, <3>2, k \in 1..Len(lines), FrontSeq
  <2>7. msg.headers = HeadersOf(FirstOf(lines, k - 1))
    BY <1>4 DEF At, AtLine
  <2>8. /\ IsMessage(msg') /\ SameButHeaders(msg', msg)
        /\ msg'.headers = SetTo(HeadersOf(FirstOf(lines, k - 1)), normalized_cstr(lines[k].key), value)
    <3>1. IsMessage(msg)
      BY <1>6 DEF Started
    <3> HIDE DEF value
    <3> QED
      BY ONLY <2>2, <2>7, <3>1, SetHeaderIs
  <2>9. index' = at + v + 2
    BY <2>2 DEF NextLine
  <2>10. StartText' = StartText /\ TwoSpaces' = TwoSpaces /\ (\A n : P(n)' = P(n))
    BY <1>1, WireFrame
  <2>11. lines' = lines /\ text' = text /\ Len(text') = T
    BY <1>1
  <2> HIDE DEF at, v, value, name
  <2>12. Progress' /\ index' \in Nat
    <3>1. CASE at + V <= T
      <4>1. v = V /\ value = lines[k].value
        BY ONLY <2>5, <3>1
      <4>2. index' = P(k) /\ P(k) <= T + 2 /\ index' \in Nat
        <5> HIDE DEF p, K, V, T
        <5> QED
          BY ONLY <2>1, <2>3, <2>4, <2>9, <3>1, <4>1
      <4>3. msg'.headers = HeadersOf(FirstOf(lines, k))
        BY ONLY <2>3, <2>6, <2>8, <4>1, HeadersAppend
      <4>4. AtLine(k)'
        BY ONLY <2>10, <2>11, <4>2, <4>3 DEF AtLine, T
      <4>5. k \in 0..Len(lines')
        BY <1>3, <2>11
      <4> QED
        BY ONLY <4>2, <4>4, <4>5 DEF Progress
    <3>2. CASE ~(at + V <= T)
      <4>1. at \in Nat /\ at + V > T /\ T - at \in Nat /\ T - at <= V
        <5> HIDE DEF p, K, V, T
        <5> QED
          BY ONLY <2>1, <2>3, <2>4, <3>2
      <4>2. v = T - at /\ value = SubSeq(lines[k].value, 1, T - at)
        BY ONLY <2>5, <4>1
      <4>3. index' = T + 2 /\ index' \in Nat /\ index' >= T
        <5> HIDE DEF T
        <5> QED
          BY ONLY <2>4, <2>9, <4>1, <4>2
      <4> DEFINE h == [key |-> lines[k].key, value |-> value]
      <4>4. h \in HeaderLines /\ h.key = lines[k].key /\ h.value = value
        <5>1. value \in Plain({CR})
          <6>1. T - at \in 0..Len(lines[k].value)
            BY ONLY <4>1 DEF V
          <6>2. /\ value \in Seq(Char) /\ Len(value) = T - at
                /\ \A j \in 1..(T - at) : value[j] = lines[k].value[j]
            BY ONLY <2>3, <4>2, <6>1, CutFacts
          <6>3. \A j \in 1..Len(lines[k].value) : lines[k].value[j] \notin {CR}
            <7>1. lines[k].value \in Plain({CR})
              BY ONLY <2>3 DEF HeaderLines
            <7> QED
              BY ONLY <7>1, PlainTexts
          <6> DEFINE c == T - at
                     C == {CR}
          <6>4. c <= V /\ c \in Nat /\ V \in Nat
            BY ONLY <2>3, <4>1
          <6> HIDE DEF c
          <6>5. \A j \in 1..c : j \in 1..V
            BY ONLY <6>4
          <6> HIDE DEF C
          <6>6. \A j \in 1..Len(value) : value[j] \notin C
            BY ONLY <6>2, <6>3, <6>5 DEF c, V, C
          <6>7. value \in Plain(C)
            BY ONLY <6>2, <6>6 DEF Plain
          <6> QED
            BY ONLY <6>7 DEF C
        <5>2. lines[k].key \in Plain({":", LF})
          BY ONLY <2>3 DEF HeaderLines
        <5> QED
          BY ONLY <5>1, <5>2 DEF HeaderLines
      <4>5. HeadersOf(Append(FirstOf(lines, k - 1), h)) = SetTo(HeadersOf(FirstOf(lines, k - 1)), normalized_cstr(h.key), h.value)
        <5> HIDE DEF h
        <5> QED
          BY ONLY <2>6, <4>4, HeadersAppend
      <4>6. msg'.headers = HeadersOf(Append(FirstOf(lines, k - 1), h))
        BY ONLY <2>8, <4>4, <4>5
      <4>7. CutLine(k)'
        <5>1. at = P(k - 1) + Len(lines[k].key) + 2
          BY ONLY <2>1 DEF p, K
        <5>2. at <= T /\ T < at + Len(lines[k].value)
          <6>1. T < at + V
            <7> HIDE DEF T, V
            <7> QED
              BY ONLY <2>4, <2>3, <4>1
          <6> QED
            BY ONLY <2>1, <6>1 DEF V
        <5>3. h = [key |-> lines[k].key, value |-> SubSeq(lines[k].value, 1, T - at)]
          BY ONLY <4>2
        <5> HIDE DEF h
        <5>4. /\ P(k - 1)' = P(k - 1) /\ lines' = lines /\ Len(text') = T
          BY <2>10, <2>11
        <5> QED
          BY ONLY <4>3, <4>6, <5>1, <5>2, <5>3, <5>4 DEF CutLine
      <4>8. k \in 1..Len(lines')
        BY ONLY <2>11, k \in 1..Len(lines)
      <4> QED
        BY ONLY <4>3, <4>7, <4>8 DEF Progress
    <3> QED
      BY ONLY <3>1, <3>2
  <2>13. Started'
    <3>1. Len(text') = Len(text) /\ StartText' = StartText /\ kind' = kind /\ sent' = sent /\ TwoSpaces' = TwoSpaces
      BY <1>1, <2>10
    <3> QED
      BY ONLY <1>6, <2>8, <3>1 DEF Started, SameButHeaders
  <2>14. msg'.body = <<>>
    BY <1>6, <2>8 DEF SameButHeaders
  <2>15. Begins(text', whole') /\ text' \in Seq(Char) /\ fault' # "past_end"
    BY <1>1, <1>2, <1>3, <2>2
  <2> QED
    BY ONLY <2>2, <2>12, <2>13, <2>14, <2>15 DEF Parsing
<1> QED
  BY <1>5, <1>8, <1>9

(* A new body leaves the other fields alone. *)
LEMMA NewBody ==
  ASSUME NEW m, IsMessage(m), NEW b
  PROVE  /\ IsMessage([m EXCEPT !.body = b]) /\ [m EXCEPT !.body = b].body = b
         /\ LET n == [m EXCEPT !.body = b]
            IN /\ n.method = m.method /\ n.host = m.host /\ n.path = m.path /\ n.port = m.port
               /\ n.protocol = m.protocol /\ n.status_code = m.status_code
               /\ n.status_text = m.status_text /\ n.headers = m.headers
BY DEF IsMessage

(* The body is a text. *)
LEMMA BodyTyped ==
  ASSUME index \in Nat, text \in Seq(Char)
  PROVE  BodyText \in Seq(Char)
<1> DEFINE T == Len(text)
           s == BodyStart
           n == IF s < T THEN T - s ELSE 0
<1>1. T \in Nat
  OBVIOUS
<1> HIDE DEF T
<1>2. s \in Nat
  <2>1. s = IF index < T THEN index + 2 ELSE index
    BY DEF BodyStart, T
  <2> HIDE DEF s
  <2> QED
    BY ONLY <2>1, index \in Nat
<1>3. BodyText = str_dup(text, s, n)
  BY DEF BodyText, T
<1> HIDE DEF s
<1>4. CASE s < T
  <2>1. n \in Nat /\ s + n <= T
    BY ONLY <1>1, <1>2, <1>4
  <2> HIDE DEF n
  <2>2. str_dup(text, s, n) \in Seq(Char)
    BY ONLY <1>2, <2>1, text \in Seq(Char), DupFacts DEF T
  <2> QED
    BY <1>3, <2>2
<1>5. CASE ~(s < T)
  <2>1. n = 0 /\ s + 1 \in Int /\ s + 0 \in Int /\ s + 0 < s + 1
    BY ONLY <1>2, <1>5
  <2>2. SubSeq(text, s + 1, s + 0) = <<>>
    BY ONLY <2>1, SubSeqEmpty
  <2>3. str_dup(text, s, n) = <<>>
    <3> HIDE DEF n
    <3> QED
      BY ONLY <2>1, <2>2 DEF str_dup
  <2>4. <<>> \in Seq(Char)
    OBVIOUS
  <2> HIDE DEF n
  <2> QED
    BY ONLY <1>3, <2>3, <2>4
<1> QED
  BY <1>4, <1>5

(* The body keeps Parsing. *)
LEMMA ParsingBody ==
  ASSUME Control, Parsing, BodyStep
  PROVE  Parsing'
<1> DEFINE b == BodyText
           c == msg.body \o BodyText
<1>1. /\ pc = "lines" /\ HeadersOver /\ job' = job /\ index' = index /\ fault' = fault
      /\ UNCHANGED <<kind, whole, lines, sent, text>>
      /\ pc' \in {"done", "free"}
  BY DEF BodyStep, FromStrBody, taskVars, wireVars
<1>2. job = "parse" /\ fault # "past_end"
  BY <1>1 DEF Control, NoFault
<1>3. /\ index \in Nat /\ Started /\ Progress /\ msg.body = <<>>
      /\ text \in Seq(Char) /\ Begins(text, whole)
  BY <1>1, <1>2 DEF Parsing
<1>4. msg' = [msg EXCEPT !.body = c]
  BY DEF BodyStep, FromStrBody, BodyText, BodyStart
<1>5. c = b
  <2>1. b \in Seq(Char)
    BY <1>3, BodyTyped
  <2> HIDE DEF b
  <2>2. <<>> \o b = b
    BY ONLY <2>1, ConcatEmptySeq
  <2> QED
    BY ONLY <1>3, <2>2 DEF b
<1>6. IsMessage(msg)
  BY <1>3 DEF Started
<1> HIDE DEF c, b
<1>7. /\ IsMessage(msg') /\ msg'.body = b
      /\ msg'.method = msg.method /\ msg'.host = msg.host /\ msg'.path = msg.path
      /\ msg'.port = msg.port /\ msg'.protocol = msg.protocol
      /\ msg'.status_code = msg.status_code /\ msg'.status_text = msg.status_text
      /\ msg'.headers = msg.headers
  BY ONLY <1>4, <1>5, <1>6, NewBody
<1>8. StartText' = StartText /\ TwoSpaces' = TwoSpaces /\ (\A n : P(n)' = P(n))
  BY <1>1, WireFrame
<1>9. Started'
  <2>1. Len(text') = Len(text) /\ kind' = kind /\ sent' = sent
    BY <1>1
  <2> QED
    BY ONLY <1>3, <1>7, <1>8, <2>1 DEF Started
<1>10. Progress'
  <2>1. index' = index /\ text' = text /\ lines' = lines /\ msg'.headers = msg.headers
    BY <1>1, <1>7
  <2>2. Short' = Short
    BY ONLY <1>8, <2>1 DEF Short
  <2>3. \A n : AtLine(n)' = AtLine(n)
    BY ONLY <1>8, <2>1 DEF AtLine
  <2>4. \A n : CutLine(n)' = CutLine(n)
    BY ONLY <1>8, <2>1 DEF CutLine
  <2> QED
    BY ONLY <1>3, <2>1, <2>2, <2>3, <2>4 DEF Progress
<1>11. HeadersOver' /\ BodyText' = BodyText
  BY <1>1 DEF HeadersOver, BodyText, BodyStart
<1>12. msg'.body = BodyText'
  BY <1>7, <1>11 DEF b
<1>13. index' \in Nat /\ Begins(text', whole') /\ text' \in Seq(Char) /\ fault' # "past_end"
  BY <1>1, <1>2, <1>3
<1>14. pc' # "start" /\ pc' # "lines"
  BY <1>1
<1> QED
  BY ONLY <1>9, <1>10, <1>11, <1>12, <1>13, <1>14 DEF Parsing

(* A call that prints does not parse. *)
LEMMA ParsingPrinted ==
  ASSUME Control, Parsing, job' = job, index' = index, pc \in {"url", "build", "printed"}
  PROVE  Parsing'
<1>1. job' # "parse"
  BY DEF Control
<1>2. index' \in Nat
  BY DEF Parsing
<1> QED
  BY <1>1, <1>2 DEF Parsing

(* Every step keeps Parsing. *)
LEMMA ParsingStep ==
  ASSUME Control, Printing, Message, Parsing, Next
  PROVE  Parsing'
<1>1. FromStr => Parsing'
  BY ParsingPrinted DEF FromStr, taskVars
<1>2. SetHandshakeHeaders => Parsing'
  BY ParsingPrinted DEF SetHandshakeHeaders, taskVars
<1>3. PrintRequest => Parsing'
  BY ParsingPrinted DEF PrintRequest, RequestToStr, RequestToStrNull, taskVars
<1>4. GiveBack => Parsing'
  BY ParsingPrinted DEF GiveBack, taskVars
<1>5. (\E method \in AppMethods : AppStart(method)) => Parsing'
  BY ParsingPrinted DEF AppStart, taskVars
<1>6. (\E key \in AppKeys, value \in AppValues : AppSetHeader(key, value)) => Parsing'
  BY ParsingPrinted DEF AppSetHeader, Calling, taskVars
<1>7. (\E body \in AppBodies : AppWrite(body)) => Parsing'
  BY ParsingPrinted DEF AppWrite, Calling, taskVars
<1>8. (\E a \in Answers : Answer(a)) => Parsing'
  BY ParsingAnswered
<1> QED
  BY NextCases, <1>1, <1>2, <1>3, <1>4, <1>5, <1>6, <1>7, <1>8,
     ParsingInit, ParsingFreed, ParsingArrives, ParsingStarts, ParsingHeaderLine, ParsingBody,
     ParsingFails

----------------------------------------------------------------------------
(* The invariant holds *)

(* The invariant holds at first. *)
LEMMA HInvInit ==
  ASSUME Init
  PROVE  HInv
<1>1. /\ job = "print" /\ kind = "request" /\ msg = EmptyMessage /\ dangling = {}
      /\ whole = NULL /\ index = 0 /\ fault = NoFault
      /\ mode \in {"connect", "application"} /\ url \in Urls /\ client = ws_client_init
      /\ calls = 0 /\ pc = IF mode = "connect" THEN "url" ELSE "init"
  BY DEF Init, HttpInit
<1>2. pc \in {"url", "init"} /\ (pc = "url" => mode = "connect")
  BY <1>1
<1>3. Control
  BY <1>1, <1>2 DEF Control, Pcs
<1>4. Printing
  BY <1>1, <1>2 DEF Printing
<1>5. \A f \in {"host", "path"} : client[f] = NULL
  BY <1>1 DEF ws_client_init
<1>6. Borrowed
  BY <1>1, <1>2, <1>5 DEF Borrowed
<1>7. Dangling
  BY <1>1, <1>2 DEF Dangling
<1>8. TextsFreedOnce
  BY <1>1, <1>5 DEF TextsFreedOnce, NoFault
<1>9. Building
  BY <1>1, <1>2, NewMessage DEF Building
<1>10. Message /\ ConnectSent
  BY <1>1 DEF Message, ConnectSent
<1>11. ClientMade
  BY <1>1 DEF ClientMade
<1>12. Parsing
  BY <1>1 DEF Parsing
<1> QED
  BY <1>3, <1>4, <1>6, <1>7, <1>8, <1>9, <1>10, <1>11, <1>12 DEF HInv

(* Every step keeps the invariant. *)
LEMMA HInvNext ==
  ASSUME HInv, Next
  PROVE  HInv'
<1>1. /\ Control /\ Printing /\ Borrowed /\ Dangling /\ TextsFreedOnce
      /\ Building /\ Message /\ ConnectSent /\ ClientMade /\ Parsing
  BY DEF HInv
<1>2. Control'
  BY <1>1, ControlStep
<1>3. Printing'
  BY <1>1, PrintingStep, AnswersArePrinted
<1>4. Borrowed'
  BY <1>1, BorrowedStep
<1>5. Dangling'
  BY <1>1, DanglingStep
<1>6. TextsFreedOnce'
  BY <1>1, FreedOnceStep
<1>7. Building'
  BY <1>1, BuildingStep
<1>8. Message'
  BY <1>1, MessageStep
<1>9. ConnectSent'
  BY <1>1, ConnectSentStep
<1>10. ClientMade'
  BY <1>1, ClientStep
<1>11. Parsing'
  BY <1>1, ParsingStep
<1> QED
  BY <1>2, <1>3, <1>4, <1>5, <1>6, <1>7, <1>8, <1>9, <1>10, <1>11 DEF HInv

(* A stutter keeps the invariant. *)
LEMMA HInvStutter ==
  ASSUME HInv, UNCHANGED vars
  PROVE  HInv'
<1>1. /\ Control /\ Printing /\ Borrowed /\ Dangling /\ TextsFreedOnce
      /\ Building /\ Message /\ ConnectSent /\ ClientMade /\ Parsing
  BY DEF HInv
<1>2. /\ UNCHANGED <<pc, job, kind, msg, body_set, dangling, whole, lines, sent, text, index, fault>>
      /\ UNCHANGED <<mode, UseSSL, url, client, live, calls>>
  BY DEF vars, httpVars, taskVars, msgVars, wireVars, appVars
<1>3. Control' /\ Printing' /\ Borrowed' /\ Dangling' /\ TextsFreedOnce'
  BY <1>1, <1>2 DEF Control, Printing, Borrowed, Dangling, Repeated, TextsFreedOnce
<1>4. HandshakeMsg' = HandshakeMsg
  BY <1>2 DEF HandshakeMsg
<1>5. Building'
  BY <1>1, <1>2, <1>4 DEF Building, AppMessage
<1>6. Message'
  BY <1>1, <1>2, MessageSame
<1>7. ConnectSent'
  <2>1. WithHost(HandshakeMsg)' = WithHost(HandshakeMsg)
    BY <1>4 DEF WithHost, set_header
  <2> QED
    BY <1>1, <1>2, <1>4, <2>1 DEF ConnectSent
<1>8. ClientMade'
  BY <1>1, <1>2 DEF ClientMade
<1>9. Parsing'
  <2>1. StartText' = StartText /\ TwoSpaces' = TwoSpaces /\ (\A n : P(n)' = P(n)) /\ CutInName' = CutInName
    BY <1>2, WireFrame
  <2>2. index' = index /\ text' = text /\ lines' = lines /\ msg' = msg /\ kind' = kind /\ sent' = sent
        /\ whole' = whole /\ pc' = pc /\ job' = job /\ fault' = fault
    BY <1>2
  <2>3. Short' = Short
    BY ONLY <2>1, <2>2 DEF Short
  <2>4. \A n : AtLine(n)' = AtLine(n)
    BY ONLY <2>1, <2>2 DEF AtLine
  <2>5. \A n : CutLine(n)' = CutLine(n)
    BY ONLY <2>1, <2>2 DEF CutLine
  <2>6. Progress' = Progress
    BY ONLY <2>2, <2>3, <2>4, <2>5 DEF Progress
  <2>7. Started' = Started
    BY ONLY <2>1, <2>2 DEF Started
  <2>8. HeadersOver' = HeadersOver /\ BodyText' = BodyText
    BY <1>2 DEF HeadersOver, BodyText, BodyStart
  <2> QED
    BY ONLY <1>1, <2>1, <2>2, <2>6, <2>7, <2>8 DEF Parsing
<1> QED
  BY <1>3, <1>5, <1>6, <1>7, <1>8, <1>9 DEF HInv

(* The invariant holds, for all URLs, answers and requests without           *)
(* separators in their parts.                                                *)
LEMMA HandshakeInvariant == Spec => []HInv
<1>1. Init => HInv
  BY HInvInit
<1>2. HInv /\ [Next]_vars => HInv'
  BY HInvNext, HInvStutter
<1> QED
  BY <1>1, <1>2, PTL DEF Spec

(* The handshake's request borrows its texts from the client and gives       *)
(* them back on every path; what a message frees is freed once, and not      *)
(* printed behind it, except where a set_header that replaces a value        *)
(* fails.                                                                    *)
THEOREM HandshakeTextsFreedOnce == Spec => []TextsFreedOnce
<1>1. HInv => TextsFreedOnce
  BY DEF HInv
<1> QED
  BY <1>1, HandshakeInvariant, PTL

(* The lines of a message follow each other. *)
LEMMA LinesFollow ==
  ASSUME Message, whole # NULL, Control, NEW i \in 0..Len(lines), NEW j \in 0..Len(lines), i <= j
  PROVE  P(i) \in Nat /\ P(j) \in Nat /\ P(i) <= P(j)
<1> DEFINE N == Len(lines)
           S == Len(StartText)
           F(k) == Len(Flat(LineTexts(lines), k))
<1>1. N \in Nat /\ lines \in Seq(HeaderLines)
  BY LinesTyped
<1>2. LineTexts(lines) \in Seq(Seq(Char)) /\ Len(LineTexts(lines)) = N
  BY <1>1, LineTextsSeq
<1>3. P(i) \in Nat /\ P(j) \in Nat
  BY WholeLayout DEF Layout, P
<1>4. S \in Nat
  BY WholeLayout DEF Layout
<1>5. P(i) = S + 2 + F(i) /\ P(j) = S + 2 + F(j)
  BY DEF P, EndsAt
<1>6. \A k \in 0..N : F(k) \in Nat
  <2>1. \A k \in 0..N : Flat(LineTexts(lines), k) \in Seq(Char)
    BY <1>2, FlatSteps
  <2> QED
    BY <2>1
<1>7. F(i) <= F(j)
  <2>1. CASE i = 0
    <3>3. Flat(LineTexts(lines), 0) = <<>>
      BY ONLY <1>2, FlatSteps
    <3>1. F(0) = 0
      BY <3>3
    <3> HIDE DEF F, N
    <3>2. F(j) \in Nat
      BY <1>6 DEF N
    <3> QED
      BY ONLY <2>1, <3>1, <3>2
  <2>2. CASE i # 0
    <3>1. i \in 1..j /\ j \in 0..Len(LineTexts(lines))
      BY <1>1, <1>2, <2>2
    <3>2. Placed(LineTexts(lines), i, j)
      BY ONLY <1>2, <3>1, FlatPlaces
    <3> QED
      BY <3>2 DEF Placed
  <2> QED
    BY ONLY <2>1, <2>2
<1>8. F(i) \in Nat /\ F(j) \in Nat
  BY <1>6
<1> HIDE DEF F, S
<1>9. P(i) <= P(j)
  BY ONLY <1>4, <1>5, <1>7, <1>8
<1> QED
  BY <1>3, <1>9

(* Where line n's value begins, and how much of line n arrived. *)
ValueAt(n) == P(n - 1) + Len(lines[n].key) + 2

(* Where a line's name and value are. *)
LEMMA LineIs ==
  ASSUME Message, whole # NULL, Control, NEW n \in 1..Len(lines)
  PROVE  /\ P(n - 1) \in Nat /\ Len(lines[n].key) \in Nat /\ Len(lines[n].value) \in Nat
         /\ P(n) = P(n - 1) + Len(lines[n].key) + Len(lines[n].value) + 4
         /\ P(n - 1) + Len(lines[n].key) + Len(lines[n].value) + 6 <= Len(whole)
         /\ lines[n].key \in Seq(Char) /\ lines[n].value \in Seq(Char)
         /\ lines[n] \in HeaderLines
         /\ LineStart(n) = P(n - 1)
<1>1. Layout(whole, Len(StartText), lines, TailText)
  BY WholeLayout
<1>2. LineStart(n) = P(n - 1)
  BY LineStartIs
<1>3. /\ P(n - 1) \in Nat /\ Len(lines[n].key) \in Nat /\ Len(lines[n].value) \in Nat
      /\ P(n) = P(n - 1) + Len(lines[n].key) + Len(lines[n].value) + 4
      /\ P(n - 1) + Len(lines[n].key) + Len(lines[n].value) + 6 <= Len(whole)
      /\ lines[n].key \in Seq(Char) /\ lines[n].value \in Seq(Char)
      /\ lines[n] \in HeaderLines
  BY <1>1, LayoutLine DEF P
<1> QED
  BY <1>2, <1>3

(* The headers hs are those of the first m lines, as far as they arrived. *)
Has(hs, m) ==
  /\ Len(hs) = m
  /\ \A i \in 1..m : hs[i].key = lines[i].key /\ hs[i].value = Arrived(i)

(* What arrived of a value is all of it or its beginning. *)
LEMMA ArrivedIs ==
  ASSUME Message, whole # NULL, Control, text \in Seq(Char), NEW n \in 1..Len(lines)
  PROVE  /\ ValueAt(n) + Len(lines[n].value) <= Len(text) => Arrived(n) = lines[n].value
         /\ ValueAt(n) <= Len(text) /\ Len(text) < ValueAt(n) + Len(lines[n].value) =>
              Arrived(n) = SubSeq(lines[n].value, 1, Len(text) - ValueAt(n))
<1> DEFINE T == Len(text)
           p == P(n - 1)
           K == Len(lines[n].key)
           V == Len(lines[n].value)
           a == ValueAt(n)
           c == T - (LineStart(n) + K + 2)
<1>1. p \in Nat /\ K \in Nat /\ V \in Nat /\ LineStart(n) = p /\ T \in Nat
  BY LineIs
<1>2. Arrived(n) = IF c < V THEN SubSeq(lines[n].value, 1, c) ELSE lines[n].value
  BY DEF Arrived
<1>3. a = p + K + 2
  BY DEF ValueAt
<1>4. c = T - a /\ a \in Nat
  <2> HIDE DEF p, K, T, a
  <2> QED
    BY ONLY <1>1, <1>3
<1> HIDE DEF c, a, V, T
<1>5. (a + V <= T => ~(c < V)) /\ (a <= T /\ T < a + V => c < V)
  BY ONLY <1>1, <1>4
<1>6. /\ a + V <= T => Arrived(n) = lines[n].value
      /\ a <= T /\ T < a + V => Arrived(n) = SubSeq(lines[n].value, 1, T - a)
  BY ONLY <1>2, <1>4, <1>5
<1> QED
  BY ONLY <1>6 DEF a, V, T

----------------------------------------------------------------------------
(* The URL is understood *)

(* The client of a URL has the URL's own parts. *)
LEMMA UrlUnderstoodIs ==
  ASSUME Control, ClientMade
  PROVE  UrlUnderstood
<1> SUFFICES ASSUME mode = "connect", pc # "url"
             PROVE  /\ client.host = NULL <=> Refused(url, UseSSL)
                    /\ client.host # NULL => client = UrlClient(url)
                    /\ fault = "port_buffer" <=> client.host # NULL /\ url.port > 99999
  BY DEF UrlUnderstood, Refused, UrlClient
<1> DEFINE r == ws_client_from_str(UrlText(url), UseSSL)
<1>1. client = r.client /\ (fault = "port_buffer" <=> r.result = "port_buffer")
  BY DEF ClientMade
<1>2. IsUrl(url)
  BY UrlsAreUrls DEF Control
<1>3. /\ Refused(url, UseSSL) => r.result = "false" /\ r.client = ws_client_init
      /\ ~Refused(url, UseSSL) =>
           /\ r.client = UrlClient(url)
           /\ r.result = IF url.port > 99999 THEN "port_buffer" ELSE "true"
  BY ONLY <1>2, UrlTaken
<1> HIDE DEF r
<1>4. CASE Refused(url, UseSSL)
  <2>1. client.host = NULL
    BY <1>1, <1>3, <1>4 DEF ws_client_init
  <2>2. fault # "port_buffer"
    BY <1>1, <1>3, <1>4
  <2> QED
    BY <1>4, <2>1, <2>2
<1>5. CASE ~Refused(url, UseSSL)
  <2>1. client = UrlClient(url)
    BY <1>1, <1>3, <1>5
  <2>2. client.host # NULL
    BY <2>1, <1>2 DEF UrlClient, IsUrl
  <2>3. fault = "port_buffer" <=> url.port > 99999
    BY ONLY <1>1, <1>3, <1>5
  <2> QED
    BY <1>5, <2>1, <2>2, <2>3
<1> QED
  BY <1>4, <1>5

(* ws_client_from_str takes every URL apart into its own host, port, path    *)
(* and scheme, refuses a foreign scheme and a short URL only, and leaves     *)
(* its port buffer only for a port of more than five digits.                 *)
THEOREM HandshakeUrlUnderstood == Spec => []UrlUnderstood
<1>1. HInv => UrlUnderstood
  BY UrlUnderstoodIs DEF HInv
<1> QED
  BY <1>1, HandshakeInvariant, PTL

----------------------------------------------------------------------------
(* What was read of a message *)

(* Lines in front of a place that arrived have arrived. *)
LEMMA FullLines ==
  ASSUME Message, whole # NULL, Control, text \in Seq(Char), NEW m \in 0..Len(lines),
         P(m) <= Len(text) + 2
  PROVE  /\ FirstOf(lines, m) \in Seq(HeaderLines) /\ Has(FirstOf(lines, m), m)
         /\ \A n \in 1..m : ValueAt(n) <= Len(text) /\ Arrived(n) = lines[n].value
<1>1. lines \in Seq(HeaderLines) /\ Len(lines) \in Nat
  BY LinesTyped
<1>2. FirstOf(lines, m) \in Seq(HeaderLines) /\ Len(FirstOf(lines, m)) = m
  BY ONLY <1>1, m \in 0..Len(lines), FrontSeq
<1>3. ASSUME NEW n \in 1..m
      PROVE  ValueAt(n) <= Len(text) /\ Arrived(n) = lines[n].value
  <2> DEFINE T == Len(text)
             V == Len(lines[n].value)
             a == ValueAt(n)
             K == Len(lines[n].key)
             q == P(n - 1)
  <2>1. n \in 1..Len(lines) /\ n \in 0..Len(lines) /\ n <= m
    BY ONLY <1>1, <1>3, m \in 0..Len(lines)
  <2>2. q \in Nat /\ K \in Nat /\ V \in Nat /\ P(n) = q + K + V + 4
    BY <2>1, LineIs
  <2>3. P(n) \in Nat /\ P(m) \in Nat /\ P(n) <= P(m)
    BY <2>1, LinesFollow
  <2>4. a = q + K + 2
    BY DEF ValueAt
  <2>5. T \in Nat /\ P(m) <= T + 2
    OBVIOUS
  <2>6. /\ a + V <= T => Arrived(n) = lines[n].value
        /\ a <= T /\ T < a + V => Arrived(n) = SubSeq(lines[n].value, 1, T - a)
    BY <2>1, ArrivedIs
  <2> HIDE DEF T, V, a, K, q
  <2>7. a + V <= T /\ a <= T
    BY ONLY <2>2, <2>3, <2>4, <2>5
  <2>8. a <= T /\ Arrived(n) = lines[n].value
    BY ONLY <2>6, <2>7
  <2> QED
    BY ONLY <2>8 DEF a, T
<1>4. Has(FirstOf(lines, m), m)
  <2>1. ASSUME NEW i \in 1..m
        PROVE  FirstOf(lines, m)[i].key = lines[i].key /\ FirstOf(lines, m)[i].value = Arrived(i)
    BY <1>3 DEF FirstOf
  <2> QED
    BY <1>2, <2>1 DEF Has
<1> QED
  BY ONLY <1>2, <1>3, <1>4

Read(m, hs) ==
  /\ m \in 0..Len(lines) /\ hs \in Seq(HeaderLines) /\ Has(hs, m)
  /\ msg.headers = HeadersOf(hs)
  /\ m < Len(lines) => Len(text) <= P(m) + 1
  /\ \A n \in 1..m : ValueAt(n) <= Len(text)

(* A line whose name arrived is not taken for the empty line. *)
LEMMA NoEmptyLine ==
  ASSUME Message, whole # NULL, Control, text \in Seq(Char), Begins(text, whole),
         NEW k \in 1..Len(lines), P(k - 1) + Len(lines[k].key) + 2 <= Len(text)
  PROVE  strcspn(text, P(k - 1), {LF}) # 1
<1>1. Layout(whole, Len(StartText), lines, TailText)
  BY WholeLayout
<1>2. EndsAt(Len(StartText), lines, k - 1) + Len(lines[k].key) + 2 <= Len(text)
  BY DEF P
<1>3. strcspn(text, EndsAt(Len(StartText), lines, k - 1), {LF}) # 1
  <2>1. ~OneLeft(text, EndsAt(Len(StartText), lines, k - 1))
    BY ONLY <1>1, <1>2, k \in 1..Len(lines), text \in Seq(Char), Begins(text, whole), LineArrived
  <2> QED
    BY <2>1 DEF OneLeft
<1> QED
  BY <1>3 DEF P

(* A text that was read up to a line that is not the last ends there. *)
LEMMA OverAtLine ==
  ASSUME Message, whole # NULL, Control, text \in Seq(Char), Begins(text, whole), HeadersOver,
         NEW n \in 0..Len(lines), AtLine(n), n < Len(lines)
  PROVE  Len(text) <= P(n) + 1
<1>1. SUFFICES ASSUME Len(text) > P(n) + 1 PROVE FALSE
  <2>1. P(n) \in Nat /\ Len(text) \in Nat
    <3>1. n \in 0..Len(lines) /\ n <= n
      OBVIOUS
    <3>2. P(n) \in Nat
      BY <3>1, LinesFollow
    <3> QED
      BY <3>2
  <2> QED
    BY ONLY <2>1, <1>1
<1>2. n + 1 \in 1..Len(lines) /\ (n + 1) - 1 = n
  BY LinesTyped
<1> DEFINE S == Len(StartText)
           p == P(n)
           K == Len(lines[n + 1].key)
           T == Len(text)
<1>3. Layout(whole, S, lines, TailText)
  BY WholeLayout
<1>4. p \in Nat /\ K \in Nat /\ T \in Nat
  BY <1>2, LineIs
<1>5. index = p
  BY DEF AtLine
<1>6. p < T
  <2> HIDE DEF p, T
  <2>1. T > p + 1
    BY <1>1 DEF p, T
  <2> QED
    BY ONLY <1>4, <2>1
<1>7. strcspn(text, p, {LF}) = 1
  BY <1>5, <1>6 DEF HeadersOver
<1>8. CASE p + K + 2 <= T
  <2>1. P((n + 1) - 1) = p /\ P((n + 1) - 1) + Len(lines[n + 1].key) + 2 <= Len(text)
    BY <1>2, <1>8
  <2>2. strcspn(text, P((n + 1) - 1), {LF}) # 1
    BY <1>2, <2>1, NoEmptyLine
  <2> QED
    BY <2>1, <2>2, <1>7
<1>9. CASE p + K + 2 > T
  <2>1. EndsAt(S, lines, (n + 1) - 1) = p
    BY <1>2 DEF P
  <2>2. /\ EndsAt(S, lines, (n + 1) - 1) + Len(lines[n + 1].key) + 2 > Len(text)
        /\ EndsAt(S, lines, (n + 1) - 1) <= Len(text)
    BY <2>1, <1>9, <1>6, <1>4
  <2>3. strcspn(text, EndsAt(S, lines, (n + 1) - 1), {LF}) = Len(text) - EndsAt(S, lines, (n + 1) - 1)
    <3>1. PICK k : k = n + 1
      OBVIOUS
    <3>2. /\ k \in 1..Len(lines) /\ Layout(whole, S, lines, TailText) /\ Begins(text, whole)
          /\ EndsAt(S, lines, k - 1) + Len(lines[k].key) + 2 > Len(text)
          /\ EndsAt(S, lines, k - 1) <= Len(text)
      BY ONLY <1>2, <1>3, <2>2, <3>1, Begins(text, whole)
    <3>3. strcspn(text, EndsAt(S, lines, k - 1), {LF}) = Len(text) - EndsAt(S, lines, k - 1)
      BY ONLY <3>2, LineCut
    <3> QED
      BY ONLY <3>1, <3>3
  <2>4. T - p = 1
    BY <2>1, <2>3, <1>7
  <2>5. T > p + 1
    BY <1>1
  <2> HIDE DEF p, T
  <2> QED
    BY ONLY <2>4, <2>5, <1>4
<1> HIDE DEF p, K, T
<1> QED
  BY ONLY <1>4, <1>8, <1>9

(* Of a first line that was cut off no header is read. *)
LEMMA ReadShort ==
  ASSUME Message, whole # NULL, Control, text \in Seq(Char), Short
  PROVE  Read(0, <<>>)
<1>1. msg.headers = HeadersOf(<<>>)
  BY HeadersNone DEF Short
<1>2. <<>> \in Seq(HeaderLines) /\ Len(<<>>) = 0
  OBVIOUS
<1>3. Has(<<>>, 0)
  BY <1>2 DEF Has
<1>4. P(0) = Len(StartText) + 2 /\ Len(StartText) \in Nat
  BY WholeLayout DEF Layout, P
<1>5. Len(text) <= P(0) + 1
  <2>1. Len(text) <= Len(StartText) + 1 /\ Len(text) \in Nat
    BY DEF Short
  <2> QED
    BY ONLY <1>4, <2>1
<1>6. 0 \in 0..Len(lines)
  BY LinesTyped
<1>7. \A n \in 1..0 : ValueAt(n) <= Len(text)
  OBVIOUS
<1> QED
  BY ONLY <1>1, <1>2, <1>3, <1>5, <1>6, <1>7 DEF Read

(* The headers that were read up to the end of a line. *)
LEMMA ReadToLine ==
  ASSUME Message, whole # NULL, Control, text \in Seq(Char), Begins(text, whole), HeadersOver,
         NEW n \in 0..Len(lines), AtLine(n)
  PROVE  Read(n, FirstOf(lines, n))
<1>1. P(n) <= Len(text) + 2 /\ msg.headers = HeadersOf(FirstOf(lines, n))
  BY DEF AtLine
<1>2. /\ FirstOf(lines, n) \in Seq(HeaderLines) /\ Has(FirstOf(lines, n), n)
      /\ \A i \in 1..n : ValueAt(i) <= Len(text) /\ Arrived(i) = lines[i].value
  BY <1>1, FullLines
<1>3. n < Len(lines) => Len(text) <= P(n) + 1
  BY OverAtLine
<1> QED
  BY ONLY <1>1, <1>2, <1>3, n \in 0..Len(lines) DEF Read

(* The beginning of a plain text is plain. *)
LEMMA CutPlain ==
  ASSUME NEW C, NEW s \in Plain(C), NEW n \in 0..Len(s)
  PROVE  SubSeq(s, 1, n) \in Plain(C)
<1>1. s \in Seq(Char) /\ Len(s) \in Nat /\ \A i \in 1..Len(s) : s[i] \notin C
  BY PlainTexts
<1>2. /\ SubSeq(s, 1, n) \in Seq(Char) /\ Len(SubSeq(s, 1, n)) = n
      /\ \A j \in 1..n : SubSeq(s, 1, n)[j] = s[j]
  BY ONLY <1>1, n \in 0..Len(s), CutFacts
<1>3. \A i \in 1..n : i \in 1..Len(s)
  BY <1>1
<1>4. \A i \in 1..Len(SubSeq(s, 1, n)) : SubSeq(s, 1, n)[i] \notin C
  BY ONLY <1>1, <1>2, <1>3
<1> QED
  BY <1>2, <1>4 DEF Plain

(* Where the members of an appended sequence are. *)
LEMMA AppendParts ==
  ASSUME NEW S, NEW s \in Seq(S), NEW x \in S
  PROVE  /\ Append(s, x) \in Seq(S) /\ Len(Append(s, x)) = Len(s) + 1
         /\ \A i \in 1..Len(s) : Append(s, x)[i] = s[i]
         /\ Append(s, x)[Len(s) + 1] = x
OBVIOUS

(* Line n as far as it arrived. *)
CutAt(n) == [key |-> lines[n].key, value |-> Arrived(n)]

(* The last value that was read of a text that was cut off in it. *)
LEMMA CutLineIs ==
  ASSUME Message, whole # NULL, Control, text \in Seq(Char), NEW n \in 1..Len(lines), CutLine(n)
  PROVE  /\ P(n - 1) <= Len(text) /\ ValueAt(n) <= Len(text) /\ Len(text) <= P(n) + 1
         /\ Len(text) < ValueAt(n) + Len(lines[n].value) /\ index >= Len(text)
         /\ Len(text) - ValueAt(n) \in 0..Len(lines[n].value)
         /\ Arrived(n) = SubSeq(lines[n].value, 1, Len(text) - ValueAt(n))
         /\ CutAt(n) \in HeaderLines
         /\ msg.headers = HeadersOf(Append(FirstOf(lines, n - 1), CutAt(n)))
<1> DEFINE T == Len(text)
           V == Len(lines[n].value)
           a == ValueAt(n)
           K == Len(lines[n].key)
           q == P(n - 1)
<1>1. q \in Nat /\ K \in Nat /\ V \in Nat /\ P(n) = q + K + V + 4
  BY LineIs
<1>2. a = q + K + 2 /\ T \in Nat
  BY DEF ValueAt
<1>3. a <= T /\ T < a + V /\ index >= T
  BY DEF CutLine, ValueAt
<1>4. /\ a + V <= T => Arrived(n) = lines[n].value
      /\ a <= T /\ T < a + V => Arrived(n) = SubSeq(lines[n].value, 1, T - a)
  BY ArrivedIs
<1>5. msg.headers = HeadersOf(Append(FirstOf(lines, n - 1),
                        [key |-> lines[n].key, value |-> SubSeq(lines[n].value, 1, T - a)]))
  BY DEF CutLine, ValueAt
<1>6. lines[n] \in HeaderLines
  BY LineIs
<1>7. lines[n].key \in Plain({":", LF}) /\ lines[n].value \in Plain({CR})
  BY <1>6 DEF HeaderLines
<1>8. Arrived(n) = SubSeq(lines[n].value, 1, T - a)
  BY ONLY <1>3, <1>4
<1> HIDE DEF q, K, a, T
<1>9. q <= T /\ T <= P(n) + 1 /\ T - a \in 0..V
  <2> HIDE DEF V
  <2> QED
    BY ONLY <1>1, <1>2, <1>3
<1>10. SubSeq(lines[n].value, 1, T - a) \in Plain({CR})
  BY ONLY <1>7, <1>9, CutPlain
<1>11. CutAt(n) \in HeaderLines
  BY <1>7, <1>8, <1>10 DEF CutAt, HeaderLines
<1>12. msg.headers = HeadersOf(Append(FirstOf(lines, n - 1), CutAt(n)))
  BY <1>5, <1>8 DEF CutAt
<1> QED
  BY <1>3, <1>8, <1>9, <1>11, <1>12 DEF q, a, T

(* The headers that were read up to a value that was cut off. *)
LEMMA ReadCut ==
  ASSUME Message, whole # NULL, Control, text \in Seq(Char), NEW n \in 1..Len(lines), CutLine(n)
  PROVE  Read(n, Append(FirstOf(lines, n - 1), CutAt(n)))
<1> DEFINE f == FirstOf(lines, n - 1)
           hs == Append(f, CutAt(n))
<1>1. /\ P(n - 1) <= Len(text) /\ ValueAt(n) <= Len(text) /\ Len(text) <= P(n) + 1
      /\ CutAt(n) \in HeaderLines /\ msg.headers = HeadersOf(hs)
  BY CutLineIs
<1>2. n \in Nat /\ n - 1 \in 0..Len(lines) /\ n \in 0..Len(lines) /\ (n - 1) + 1 = n
  BY LinesTyped
<1>3. P(n - 1) \in Nat /\ Len(text) \in Nat
  BY LineIs
<1>4. P(n - 1) <= Len(text) + 2
  BY ONLY <1>1, <1>3
<1>5. /\ f \in Seq(HeaderLines) /\ Has(f, n - 1)
      /\ \A i \in 1..(n - 1) : ValueAt(i) <= Len(text) /\ Arrived(i) = lines[i].value
  BY <1>2, <1>4, FullLines
<1>6. Len(f) = n - 1 /\ \A i \in 1..(n - 1) : f[i].key = lines[i].key /\ f[i].value = Arrived(i)
  BY <1>5 DEF Has
<1> HIDE DEF f
<1>7. /\ hs \in Seq(HeaderLines) /\ Len(hs) = Len(f) + 1
      /\ \A i \in 1..Len(f) : hs[i] = f[i]
      /\ hs[Len(f) + 1] = CutAt(n)
  BY ONLY <1>1, <1>5, AppendParts
<1> HIDE DEF hs
<1>8. Len(hs) = n /\ hs[n] = CutAt(n) /\ \A i \in 1..(n - 1) : hs[i] = f[i]
  BY <1>2, <1>6, <1>7
<1>9. hs[n].key = lines[n].key /\ hs[n].value = Arrived(n)
  BY <1>8 DEF CutAt
<1>10. \A i \in 1..n : i = n \/ i \in 1..(n - 1)
  BY <1>2
<1>11. Has(hs, n)
  <2>1. ASSUME NEW i \in 1..n PROVE hs[i].key = lines[i].key /\ hs[i].value = Arrived(i)
    <3>1. CASE i = n
      BY <3>1, <1>9
    <3>2. CASE i \in 1..(n - 1)
      BY <3>2, <1>8, <1>6
    <3> QED
      BY <3>1, <3>2, <1>10
  <2> QED
    BY <2>1, <1>8 DEF Has
<1>12. \A i \in 1..n : ValueAt(i) <= Len(text)
  BY <1>1, <1>5, <1>10
<1> QED
  BY ONLY <1>1, <1>2, <1>7, <1>11, <1>12 DEF Read, hs, f

(* A text that has been parsed. *)
Stopped ==
  /\ pc = "done" /\ job = "parse" /\ Control /\ Message /\ whole # NULL /\ Parsing
  /\ text \in Seq(Char) /\ Begins(text, whole) /\ HeadersOver /\ Started /\ Progress

(* The invariant of a text that has been parsed. *)
LEMMA StoppedIs ==
  ASSUME HInv, pc = "done"
  PROVE  Stopped
<1>1. job = "parse"
  BY DEF HInv, Control
<1>2. whole # NULL
  BY <1>1 DEF HInv, Printing
<1> QED
  BY <1>1, <1>2 DEF HInv, Parsing, Stopped

(* What was parsed is what arrived of the first lines. *)
LEMMA StoppedRead ==
  ASSUME Stopped
  PROVE  \E m, hs : Read(m, hs)
<1>1. CASE Short
  BY <1>1, ReadShort DEF Stopped
<1>2. ASSUME NEW n \in 0..Len(lines), AtLine(n) PROVE \E m, hs : Read(m, hs)
  BY <1>2, ReadToLine DEF Stopped
<1>3. ASSUME NEW n \in 1..Len(lines), CutLine(n) PROVE \E m, hs : Read(m, hs)
  BY <1>3, ReadCut DEF Stopped
<1> QED
  BY <1>1, <1>2, <1>3 DEF Stopped, Progress

----------------------------------------------------------------------------
(* No cut in a name goes unnoticed, and no whole name is refused *)

(* A text that was parsed to its end does not end in a name. *)
LEMMA NotInName ==
  ASSUME Stopped, NEW m, NEW hs, Read(m, hs), NEW n \in 1..Len(lines)
  PROVE  Len(text) - LineStart(n) \notin 2..(Len(lines[n].key) + 1)
<1> DEFINE T == Len(text)
           K == Len(lines[n].key)
           q == P(n - 1)
           a == ValueAt(n)
<1>1. q \in Nat /\ K \in Nat /\ LineStart(n) = q
  BY LineIs DEF Stopped
<1>2. T \in Nat /\ a = q + K + 2
  BY DEF Stopped, ValueAt
<1>3. m \in 0..Len(lines) /\ Len(lines) \in Nat /\ n \in Nat /\ m \in Nat
  BY LinesTyped DEF Stopped, Read
<1>4. CASE n <= m
  <2>1. n \in 1..m
    BY <1>3, <1>4
  <2>2. a <= T
    BY <2>1 DEF Read
  <2> HIDE DEF T, K, q, a
  <2>3. T - q \notin 2..(K + 1)
    BY ONLY <1>1, <1>2, <2>2
  <2> QED
    BY <1>1, <2>3 DEF T, K
<1>5. CASE n > m
  <2>1. m < Len(lines) /\ m <= n - 1 /\ n - 1 \in 0..Len(lines)
    BY <1>3, <1>5
  <2>2. T <= P(m) + 1
    BY <2>1 DEF Read
  <2>3. P(m) \in Nat /\ P(m) <= q
    BY <1>3, <2>1, LinesFollow DEF Stopped
  <2> HIDE DEF T, K, q
  <2>4. T - q \notin 2..(K + 1)
    BY ONLY <1>1, <1>2, <2>2, <2>3
  <2> QED
    BY <1>1, <2>4 DEF T, K
<1> QED
  BY ONLY <1>3, <1>4, <1>5

(* A text that was cut off in a name or before a protocol is not parsed to   *)
(* its end.                                                                  *)
LEMMA StoppedNotInName ==
  ASSUME Stopped
  PROVE  ~CutInName
<1>1. PICK m, hs : Read(m, hs)
  BY StoppedRead
<1>2. \A n \in 1..Len(lines) : Len(text) - LineStart(n) \notin 2..(Len(lines[n].key) + 1)
  BY <1>1, NotInName
<1>3. kind = "request" => ~(Cardinality({i \in 1..Len(text) : text[i] = " "}) < 2)
  <2>1. Len(text) \in Nat
    BY DEF Stopped
  <2>2. kind = "request" => \E i, j \in 1..Len(text) : i < j /\ text[i] = " " /\ text[j] = " "
    BY DEF Stopped, Started, TwoSpaces
  <2> QED
    BY ONLY <2>1, <2>2, EnoughSpaces
<1> QED
  BY <1>2, <1>3 DEF CutInName

(* http_message_from_str and http_request_from_str read past the end of a    *)
(* text exactly when it was cut off behind the second character of a         *)
(* header's name, up to its colon, or before a request's protocol.           *)
THEOREM HandshakePastEndExactly == Spec => []PastEndExactly
<1>1. HInv => PastEndExactly
  BY StoppedIs, StoppedNotInName DEF HInv, Parsing, PastEndExactly
<1> QED
  BY <1>1, HandshakeInvariant, PTL

(* The accept header's name. *)
LEMMA AcceptName ==
  /\ normalized_cstr(<<"sec", "accept">>) = <<"sec", "accept">>
  /\ normalized_cstr(<<"upgrade">>) = <<"upgrade">>
  /\ normalized_cstr(<<"host">>) = <<"host">>
  /\ normalized_cstr(<<"sec", "key">>) = <<"sec", "key">>
  /\ normalized_cstr(<<"sec", "version">>) = <<"sec", "version">>
<1>1. /\ "sec" \in Char /\ "accept" \in Char /\ "key" \in Char /\ "version" \in Char
      /\ "upgrade" \in Char /\ "host" \in Char
  BY DEF Char, Literals
<1>2. /\ Low("sec") = "sec" /\ Low("accept") = "accept" /\ Low("key") = "key"
      /\ Low("version") = "version" /\ Low("upgrade") = "upgrade" /\ Low("host") = "host"
  BY DEF Low, LowerCase
<1> QED
  BY ONLY <1>1, <1>2, OneWord, TwoWords

(* A value that a parsed message holds is that of the last line of its name. *)
LEMMA ReadHeader ==
  ASSUME Stopped, NEW m, NEW hs, Read(m, hs), NEW k, get_header(msg, k) # NULL
  PROVE  \E i \in 1..m :
           /\ normalized_cstr(lines[i].key) = normalized_cstr(k)
           /\ get_header(msg, k) = Arrived(i)
           /\ \A j \in (i + 1)..m : normalized_cstr(lines[j].key) # normalized_cstr(k)
<1> DEFINE name == normalized_cstr(k)
<1>1. msg.headers = HeadersOf(hs) /\ Len(hs) = m /\ m \in Nat
  BY DEF Read, Has
<1>2. \A i \in 1..m : hs[i].key = lines[i].key /\ hs[i].value = Arrived(i)
  BY DEF Read, Has
<1>3. name \in DOMAIN HeadersOf(hs) /\ get_header(msg, k) = HeadersOf(hs)[name]
  BY <1>1 DEF get_header
<1> HIDE DEF name
<1>4. name \in Names(hs)
  BY <1>1, <1>3, HeadersAre
<1>5. PICK i : LastNamed(hs, name, i)
  BY <1>1, <1>4, LastExists
<1>6. HeadersOf(hs)[name] = hs[i].value
  BY <1>1, <1>5, HeadersAre
<1>7. /\ i \in 1..m /\ normalized_cstr(hs[i].key) = name
      /\ \A j \in (i + 1)..m : normalized_cstr(hs[j].key) # name
  BY <1>1, <1>5 DEF LastNamed
<1>8. \A j \in (i + 1)..m : j \in 1..m
  BY <1>1, <1>7
<1>9. /\ i \in 1..m /\ normalized_cstr(lines[i].key) = name
      /\ get_header(msg, k) = Arrived(i)
      /\ \A j \in (i + 1)..m : normalized_cstr(lines[j].key) # name
  BY <1>2, <1>3, <1>6, <1>7, <1>8
<1> QED
  BY <1>9 DEF name

----------------------------------------------------------------------------
(* An answer is accepted for its accept header *)

(* Of a line behind the last that was read at most a character arrived. *)
LEMMA LaterLine ==
  ASSUME Stopped, NEW m, NEW hs, Read(m, hs), NEW j \in 1..Len(lines), j > m
  PROVE  Len(text) <= LineStart(j) + 1
<1> DEFINE T == Len(text)
           q == P(j - 1)
<1>1. m \in 0..Len(lines) /\ Len(lines) \in Nat /\ T \in Nat
  BY LinesTyped DEF Stopped, Read
<1>2. m < Len(lines) /\ m <= j - 1 /\ j - 1 \in 0..Len(lines)
  BY <1>1
<1>3. T <= P(m) + 1
  BY <1>2 DEF Read
<1>4. P(m) \in Nat /\ q \in Nat /\ P(m) <= q
  BY <1>1, <1>2, LinesFollow DEF Stopped
<1>5. LineStart(j) = q
  BY LineIs DEF Stopped
<1> HIDE DEF T, q
<1>6. T <= q + 1
  BY ONLY <1>1, <1>3, <1>4
<1> QED
  BY <1>5, <1>6 DEF T

(* An answer that is accepted has the nonce's accept value in what arrived   *)
(* of its last accept header.                                                *)
LEMMA AcceptSoundIs ==
  ASSUME Stopped, kind = "response", Accepted
  PROVE  /\ sent.status_code < 300
         /\ \E i \in 1..Len(lines) :
              /\ NamesAccept(i)
              /\ \A j \in (i + 1)..Len(lines) : NamesAccept(j) => Len(text) <= LineStart(j) + 1
              /\ Arrived(i) # <<>>
              /\ IF UseSSL THEN IsPrefix(Arrived(i), Expected) ELSE IsPrefix(Expected, Arrived(i))
<1> DEFINE k == <<"sec", "accept">>
           noonce == get_header(msg, k)
<1>1. PICK m, hs : Read(m, hs)
  BY StoppedRead
<1>2. /\ msg.status_code < 300 /\ noonce # NULL /\ noonce # <<>>
      /\ IF UseSSL THEN IsPrefix(noonce, Expected) ELSE IsPrefix(Expected, noonce)
  BY DEF Accepted, check_response_noonce
<1>3. sent.status_code < 300
  BY <1>2 DEF Stopped, Started
<1>4. normalized_cstr(k) = k
  BY AcceptName
<1> HIDE DEF k
<1>5. PICK i \in 1..m :
           /\ normalized_cstr(lines[i].key) = k
           /\ noonce = Arrived(i)
           /\ \A j \in (i + 1)..m : normalized_cstr(lines[j].key) # k
  BY <1>1, <1>2, <1>4, ReadHeader
<1>6. m \in 0..Len(lines) /\ Len(lines) \in Nat
  BY <1>1, LinesTyped DEF Stopped, Read
<1>7. i \in 1..Len(lines)
  BY <1>6
<1>8. NamesAccept(i)
  BY <1>5 DEF NamesAccept, k
<1>9. ASSUME NEW j \in (i + 1)..Len(lines), NamesAccept(j)
      PROVE  Len(text) <= LineStart(j) + 1
  <2>1. normalized_cstr(lines[j].key) = k
    BY <1>9 DEF NamesAccept, k
  <2>2. j \notin (i + 1)..m
    BY <1>5, <2>1
  <2>3. j > m /\ j \in 1..Len(lines)
    BY <1>6, <1>7, <2>2
  <2> QED
    BY <1>1, <2>3, LaterLine
<1>10. /\ Arrived(i) # <<>>
       /\ IF UseSSL THEN IsPrefix(Arrived(i), Expected) ELSE IsPrefix(Expected, Arrived(i))
  BY <1>2, <1>5
<1> QED
  BY <1>3, <1>7, <1>8, <1>9, <1>10

(* ws_client_connect accepts an answer only for an accept header whose       *)
(* value belongs to the nonce, as far as the build compares it.              *)
THEOREM HandshakeAcceptSound == Spec => []AcceptSound
<1>1. HInv => AcceptSound
  BY StoppedIs, AcceptSoundIs DEF AcceptSound
<1> QED
  BY <1>1, HandshakeInvariant, PTL

----------------------------------------------------------------------------
(* No header is made up *)

(* A text that is being parsed behind its first line. *)
Reading ==
  /\ job = "parse" /\ Control /\ Message /\ whole # NULL /\ index \in Nat
  /\ text \in Seq(Char) /\ Begins(text, whole) /\ Progress

(* The invariant of a text that is being parsed. *)
LEMMA ReadingIs ==
  ASSUME HInv, job = "parse", pc \in {"lines", "done"}
  PROVE  Reading
BY DEF HInv, Printing, Parsing, Reading

(* A text that has been parsed was being parsed. *)
LEMMA StoppedReading ==
  ASSUME Stopped
  PROVE  Reading
BY DEF Stopped, Parsing, Reading

(* The lines in front of line n, and line n with another value. *)
LEMMA LinesJoin ==
  ASSUME Message, whole # NULL, NEW n \in 1..Len(lines), NEW v,
         [key |-> lines[n].key, value |-> v] \in HeaderLines
  PROVE  SubSeq(lines, 1, n - 1) \o <<[lines[n] EXCEPT !.value = v]>>
           = Append(FirstOf(lines, n - 1), [key |-> lines[n].key, value |-> v])
<1> DEFINE x == [key |-> lines[n].key, value |-> v]
<1>1. lines \in Seq(HeaderLines) /\ Len(lines) \in Nat /\ lines[n] \in HeaderLines
  BY LinesTyped
<1>2. [lines[n] EXCEPT !.value = v] = x
  BY <1>1 DEF HeaderLines
<1>3. SubSeq(lines, 1, n - 1) = FirstOf(lines, n - 1)
  <2>1. n - 1 \in 0..Len(lines)
    BY <1>1
  <2>2. /\ SubSeq(lines, 1, n - 1) \in Seq(HeaderLines) /\ Len(SubSeq(lines, 1, n - 1)) = n - 1
        /\ \A j \in 1..(n - 1) : SubSeq(lines, 1, n - 1)[j] = lines[j]
    BY ONLY <1>1, <2>1, CutFacts
  <2>3. FirstOf(lines, n - 1) \in Seq(HeaderLines) /\ Len(FirstOf(lines, n - 1)) = n - 1
    BY ONLY <1>1, <2>1, FrontSeq
  <2>4. \A j \in 1..(n - 1) : FirstOf(lines, n - 1)[j] = lines[j]
    BY DEF FirstOf
  <2> QED
    BY ONLY <2>2, <2>3, <2>4
<1>4. FirstOf(lines, n - 1) \in Seq(HeaderLines)
  <2>1. n - 1 \in 0..Len(lines)
    BY <1>1
  <2> QED
    BY ONLY <1>1, <2>1, FrontSeq
<1> HIDE DEF x
<1>5. x \in HeaderLines
  BY DEF x
<1>6. FirstOf(lines, n - 1) \o <<x>> = Append(FirstOf(lines, n - 1), x)
  BY ONLY <1>4, <1>5
<1>7. SubSeq(lines, 1, n - 1) \o <<[lines[n] EXCEPT !.value = v]>> = FirstOf(lines, n - 1) \o <<x>>
  BY ONLY <1>2, <1>3
<1> QED
  BY ONLY <1>6, <1>7 DEF x

(* The first n characters are a prefix. *)
LEMMA PrefixesAre ==
  ASSUME NEW s \in Seq(Char), NEW n \in 0..Len(s)
  PROVE  SubSeq(s, 1, n) \in Prefixes(s)
BY DEF Prefixes

(* All the characters of a text are the text. *)
LEMMA WholeSub ==
  ASSUME NEW s \in Seq(Char)
  PROVE  SubSeq(s, 1, Len(s)) = s
OBVIOUS

LineCutAt(n, v) ==
  /\ v \in Prefixes(lines[n].value)
  /\ v # lines[n].value => index >= Len(text)
  /\ msg.headers = HeadersOf(SubSeq(lines, 1, n - 1) \o <<[lines[n] EXCEPT !.value = v]>>)

(* The headers found are those of the first lines, the last value cut at     *)
(* most.                                                                     *)
LEMMA HeadersRead ==
  ASSUME Reading
  PROVE  \/ msg.headers = <<>>
         \/ \E n \in 1..Len(lines) : \E v : LineCutAt(n, v)
<1>1. CASE Short
  BY <1>1 DEF Short
<1>2. ASSUME NEW n \in 0..Len(lines), AtLine(n), n # 0
      PROVE  \E v : LineCutAt(n, v)
  <2> DEFINE v == lines[n].value
  <2>1. n \in 1..Len(lines)
    BY <1>2, LinesTyped DEF Reading
  <2>2. lines \in Seq(HeaderLines) /\ lines[n] \in HeaderLines /\ v \in Seq(Char) /\ Len(v) \in Nat
    BY <2>1, LinesTyped, LineIs DEF Reading
  <2>3. [key |-> lines[n].key, value |-> v] = lines[n]
    BY <2>2 DEF HeaderLines
  <2>4. SubSeq(lines, 1, n - 1) \o <<[lines[n] EXCEPT !.value = v]>> = Append(FirstOf(lines, n - 1), lines[n])
    BY <2>1, <2>2, <2>3, LinesJoin DEF Reading
  <2>5. FirstOf(lines, n) = Append(FirstOf(lines, n - 1), lines[n])
    BY ONLY <2>1, <2>2, FrontSeq
  <2>6. msg.headers = HeadersOf(FirstOf(lines, n))
    BY <1>2 DEF AtLine
  <2>7. v \in Prefixes(lines[n].value)
    <3>1. SubSeq(v, 1, Len(v)) = v
      BY ONLY <2>2, WholeSub
    <3>2. Len(v) \in 0..Len(v)
      BY ONLY <2>2
    <3>3. SubSeq(v, 1, Len(v)) \in Prefixes(v)
      BY ONLY <2>2, <3>2, PrefixesAre
    <3> QED
      BY <3>1, <3>3
  <2>8. LineCutAt(n, v)
    BY <2>4, <2>5, <2>6, <2>7 DEF LineCutAt
  <2> QED
    BY <2>8
<1>3. ASSUME AtLine(0) PROVE msg.headers = <<>>
  <2>1. FirstOf(lines, 0) = <<>>
    BY LinesTyped, FrontSeq DEF Reading
  <2> QED
    BY <1>3, <2>1, HeadersNone DEF AtLine
<1>4. ASSUME NEW n \in 1..Len(lines), CutLine(n)
      PROVE  \E v : LineCutAt(n, v)
  <2> DEFINE v == Arrived(n)
  <2>1. /\ index >= Len(text) /\ Len(text) - ValueAt(n) \in 0..Len(lines[n].value)
        /\ v = SubSeq(lines[n].value, 1, Len(text) - ValueAt(n))
        /\ CutAt(n) \in HeaderLines
        /\ msg.headers = HeadersOf(Append(FirstOf(lines, n - 1), CutAt(n)))
    BY <1>4, CutLineIs DEF Reading
  <2>2. lines[n].value \in Seq(Char)
    BY LineIs DEF Reading
  <2>3. v \in Prefixes(lines[n].value)
    BY ONLY <2>1, <2>2, PrefixesAre
  <2>4. CutAt(n) = [key |-> lines[n].key, value |-> v]
    BY DEF CutAt
  <2>5. SubSeq(lines, 1, n - 1) \o <<[lines[n] EXCEPT !.value = v]>> = Append(FirstOf(lines, n - 1), CutAt(n))
    BY <2>1, <2>4, LinesJoin DEF Reading
  <2>6. LineCutAt(n, v)
    BY <2>1, <2>3, <2>5 DEF LineCutAt
  <2> QED
    BY <2>6
<1>5. \A n \in 1..Len(lines) : n \in 0..Len(lines)
  BY LinesTyped DEF Reading
<1>6. CASE \E n \in 0..Len(lines) : AtLine(n)
  <2>1. PICK n \in 0..Len(lines) : AtLine(n)
    BY <1>6
  <2>2. CASE n = 0
    BY <2>1, <2>2, <1>3
  <2>3. CASE n # 0
    <3>1. n \in 1..Len(lines)
      BY <2>3, LinesTyped DEF Reading
    <3> QED
      BY <2>1, <2>3, <3>1, <1>2
  <2> QED
    BY <2>2, <2>3
<1>7. CASE \E n \in 1..Len(lines) : CutLine(n)
  BY <1>7, <1>4
<1> QED
  BY <1>1, <1>6, <1>7 DEF Reading, Progress

(* The body that is read behind the last header line. *)
LEMMA TailRead ==
  ASSUME Stopped, index = P(Len(lines)), P(Len(lines)) + 2 <= Len(text)
  PROVE  /\ BodyText \in Seq(Char) /\ Len(BodyText) = Len(text) - P(Len(lines)) - 2
         /\ Len(BodyText) <= Len(TailText)
         /\ \A j \in 1..Len(BodyText) : BodyText[j] = TailText[j]
<1> DEFINE T == Len(text)
           p == P(Len(lines))
           i == p + 2
           n == T - p - 2
           V == Len(TailText)
<1>1. Layout(whole, Len(StartText), lines, TailText)
  BY WholeLayout DEF Stopped
<1>2. p \in Nat /\ V \in Nat /\ Len(whole) = p + 2 + V /\ \A j \in 1..V : whole[p + 2 + j] = TailText[j]
  BY <1>1, LayoutEnd DEF P
<1>3. T \in Nat /\ T <= Len(whole) /\ \A j \in 1..T : text[j] = whole[j]
  BY DEF Stopped, Begins
<1>4. p + 2 <= T
  OBVIOUS
<1>5. text \in Seq(Char)
  BY DEF Stopped
<1>6. BodyText = str_dup(text, i, n)
  <2>1. index = p /\ BodyStart = IF index < T THEN index + 2 ELSE index
    BY DEF BodyStart
  <2>2. BodyText = str_dup(text, BodyStart, IF BodyStart < T THEN T - BodyStart ELSE 0)
    BY DEF BodyText
  <2> HIDE DEF p, T
  <2>3. p < T
    BY ONLY <1>2, <1>3, <1>4
  <2>4. BodyStart = i
    BY <2>1, <2>3
  <2>5. (IF i < T THEN T - i ELSE 0) = n
    BY ONLY <1>2, <1>3, <1>4
  <2> QED
    BY <2>2, <2>4, <2>5
<1> HIDE DEF p, T, V
<1>7. i \in Nat /\ n \in Nat /\ i + n = T /\ n <= V /\ \A j \in 1..n : i + j \in 1..T /\ j \in 1..V
  BY ONLY <1>2, <1>3, <1>4
<1> HIDE DEF i, n
<1>8. /\ str_dup(text, i, n) \in Seq(Char) /\ Len(str_dup(text, i, n)) = n
      /\ \A j \in 1..n : str_dup(text, i, n)[j] = text[i + j]
  <2>1. i + n <= Len(text)
    BY <1>7, <1>3 DEF T
  <2> QED
    BY ONLY <2>1, <1>5, <1>7, DupFacts
<1>9. \A j \in 1..n : text[i + j] = TailText[j]
  BY <1>2, <1>3, <1>7 DEF i
<1>10. BodyText \in Seq(Char) /\ Len(BodyText) = n /\ \A j \in 1..n : BodyText[j] = TailText[j]
  BY ONLY <1>6, <1>8, <1>9
<1> QED
  BY <1>7, <1>10 DEF n, T, V, p

(* Otherwise there is none. *)
LEMMA NoBody ==
  ASSUME text \in Seq(Char), index \in Nat, ~(index + 2 < Len(text))
  PROVE  BodyText = <<>>
<1> DEFINE T == Len(text)
           b == BodyStart
<1>1. T \in Nat
  OBVIOUS
<1>2. b = IF index < T THEN index + 2 ELSE index
  BY DEF BodyStart
<1>3. BodyText = str_dup(text, b, IF b < T THEN T - b ELSE 0)
  BY DEF BodyText
<1>4. ~(index + 2 < T)
  OBVIOUS
<1> HIDE DEF T, b
<1>5. ~(b < T) /\ b \in Nat
  BY ONLY <1>1, <1>2, <1>4, index \in Nat
<1>6. BodyText = SubSeq(text, b + 1, b + 0)
  BY <1>3, <1>5 DEF str_dup
<1>7. b + 0 < b + 1 /\ b + 1 \in Int /\ b + 0 \in Int
  BY <1>5
<1> QED
  BY <1>6, <1>7

(* The body found is the beginning of the real one. *)
LEMMA BodyRead ==
  ASSUME Stopped
  PROVE  \/ BodyText = <<>>
         \/ /\ BodyText \in Seq(Char) /\ Len(BodyText) <= Len(TailText)
            /\ \A j \in 1..Len(BodyText) : BodyText[j] = TailText[j]
<1> DEFINE T == Len(text)
<1>1. T \in Nat /\ index \in Nat /\ text \in Seq(Char)
  BY DEF Stopped, Parsing
<1>2. SUFFICES ASSUME index + 2 < T
               PROVE  index = P(Len(lines)) /\ P(Len(lines)) + 2 <= Len(text)
  BY <1>1, NoBody, TailRead
<1>3. ~Short
  <2>1. Short => index = T + 1
    BY DEF Short
  <2> HIDE DEF T
  <2> QED
    BY ONLY <1>1, <1>2, <2>1
<1>4. ASSUME NEW n \in 1..Len(lines) PROVE ~CutLine(n)
  <2>1. CutLine(n) => index >= T
    BY DEF CutLine
  <2> HIDE DEF T
  <2> QED
    BY ONLY <1>1, <1>2, <2>1
<1>5. PICK n \in 0..Len(lines) : AtLine(n)
  BY <1>3, <1>4 DEF Stopped, Progress
<1>6. index = P(n)
  BY <1>5 DEF AtLine
<1>7. ~(n < Len(lines))
  <2>1. n < Len(lines) => T <= P(n) + 1
    BY <1>5, OverAtLine DEF Stopped
  <2> HIDE DEF T
  <2>2. ~(T <= P(n) + 1)
    BY ONLY <1>1, <1>2, <1>6
  <2> QED
    BY <2>1, <2>2
<1>8. n = Len(lines)
  BY <1>5, <1>7, LinesTyped DEF Stopped
<1>9. P(n) + 2 <= T
  <2> HIDE DEF T
  <2> QED
    BY ONLY <1>1, <1>2, <1>6
<1> QED
  BY <1>6, <1>8, <1>9

(* Nothing is a prefix of every text. *)
LEMMA EmptyPrefix ==
  ASSUME NEW s \in Seq(Char)
  PROVE  IsPrefix(<<>>, s)
<1>1. <<>> \in Seq(Char) /\ Len(<<>>) = 0 /\ Len(s) \in Nat
  OBVIOUS
<1> DEFINE e == <<>>
<1>2. e \in Seq(Char) /\ Len(e) <= Len(s)
  BY ONLY <1>1
<1>3. \A j \in 1..Len(e) : s[j] = e[j]
  BY ONLY <1>1
<1> HIDE DEF e
<1>4. IsPrefix(e, s)
  BY ONLY <1>2, <1>3, PrefixIs, s \in Seq(Char)
<1> QED
  BY ONLY <1>4 DEF e

(* What is parsed has the headers and the body of what was sent, in front. *)
LEMMA HeadersSoundIs ==
  ASSUME HInv
  PROVE  HeadersSound
<1> SUFFICES ASSUME job = "parse", pc \in {"lines", "done"}
             PROVE  /\ \/ msg.headers = <<>>
                       \/ \E n \in 1..Len(lines) : \E v : LineCutAt(n, v)
                    /\ IsPrefix(msg.body, sent.body \o CRLF)
  BY DEF HeadersSound, LineCutAt
<1>1. Reading
  BY ReadingIs
<1>2. \/ msg.headers = <<>>
      \/ \E n \in 1..Len(lines) : \E v : LineCutAt(n, v)
  BY <1>1, HeadersRead
<1> DEFINE b == sent.body
<1>3. b \in Seq(Char) /\ TailText \in Seq(Char)
  BY <1>1 DEF Reading, Message
<1>4. CRLF \in Seq(Char)
  BY SeqTypes
<1>5. TailText = b \/ TailText = b \o CRLF
  BY DEF TailText
<1> HIDE DEF b
<1>6. /\ b \o CRLF \in Seq(Char) /\ Len(b) \in Nat /\ Len(CRLF) \in Nat
      /\ Len(b \o CRLF) = Len(b) + Len(CRLF)
      /\ \A i \in 1..Len(b) : (b \o CRLF)[i] = b[i]
  BY ONLY <1>3, <1>4, Joins
<1>7. CASE pc = "lines"
  <2>1. msg.body = <<>>
    BY <1>7 DEF HInv, Parsing
  <2>2. IsPrefix(<<>>, b \o CRLF)
    BY ONLY <1>6, EmptyPrefix
  <2> QED
    BY <1>2, <2>1, <2>2 DEF b
<1>8. CASE pc = "done"
  <2>1. Stopped
    BY <1>8, StoppedIs
  <2>2. msg.body = BodyText
    BY <1>8 DEF HInv, Parsing
  <2>3. CASE BodyText = <<>>
    <3>1. IsPrefix(<<>>, b \o CRLF)
      BY ONLY <1>6, EmptyPrefix
    <3> QED
      BY <1>2, <2>2, <2>3, <3>1 DEF b
  <2>4. CASE /\ BodyText \in Seq(Char) /\ Len(BodyText) <= Len(TailText)
             /\ \A j \in 1..Len(BodyText) : BodyText[j] = TailText[j]
    <3>1. Len(BodyText) \in Nat /\ Len(TailText) \in Nat
      BY <1>3, <2>4
    <3>2. Len(BodyText) <= Len(b \o CRLF) /\ \A j \in 1..Len(BodyText) : (b \o CRLF)[j] = BodyText[j]
      <4>1. CASE TailText = b
        <5>1. Len(BodyText) <= Len(b) /\ Len(BodyText) <= Len(b \o CRLF)
          BY <1>6, <2>4, <3>1, <4>1
        <5>2. \A j \in 1..Len(BodyText) : j \in 1..Len(b)
          BY <1>6, <3>1, <5>1
        <5> QED
          BY <1>6, <2>4, <4>1, <5>1, <5>2
      <4>2. CASE TailText = b \o CRLF
        BY <2>4, <4>2
      <4> QED
        BY <1>5, <4>1, <4>2
    <3>3. IsPrefix(BodyText, b \o CRLF)
      BY ONLY <1>6, <2>4, <3>2, PrefixIs
    <3> QED
      BY <1>2, <2>2, <3>3 DEF b
  <2> QED
    BY <2>1, <2>3, <2>4, BodyRead
<1> QED
  BY <1>7, <1>8

(* Wherever a message is cut off, http_message_from_str makes up no          *)
(* header: it finds those of the first lines, the last value cut at most,    *)
(* and the beginning of the body.                                            *)
THEOREM HandshakeHeadersSound == Spec => []HeadersSound
<1>1. HInv => HeadersSound
  BY HeadersSoundIs
<1> QED
  BY <1>1, HandshakeInvariant, PTL

----------------------------------------------------------------------------
(* A whole message is read as it was meant *)

(* A message that arrived whole is read to the end of its last line. *)
LEMMA WholeAtEnd ==
  ASSUME Stopped, text = whole
  PROVE  /\ AtLine(Len(lines)) /\ P(Len(lines)) \in Nat
         /\ Len(text) = P(Len(lines)) + 2 + Len(TailText)
         /\ Len(text) >= Len(StartText) + 2 /\ Len(TailText) \in Nat
<1> DEFINE T == Len(text)
           N == Len(lines)
           p == P(N)
           V == Len(TailText)
           S == Len(StartText)
<1>1. Layout(whole, S, lines, TailText)
  BY WholeLayout DEF Stopped
<1>2. p \in Nat /\ V \in Nat /\ T = p + 2 + V /\ p >= S + 2
  BY <1>1, LayoutEnd DEF P
<1>3. T \in Nat /\ S \in Nat /\ N \in Nat
  BY <1>1, LinesTyped DEF Stopped, Layout
<1>4. T >= S + 4
  <2> HIDE DEF T, S, p, V
  <2> QED
    BY ONLY <1>2, <1>3
<1>5. ~Short
  <2>1. Short => T <= S + 1
    BY DEF Short
  <2> HIDE DEF T, S
  <2> QED
    BY ONLY <1>3, <1>4, <2>1
<1>6. ASSUME NEW n \in 1..N, CutLine(n) PROVE FALSE
  <2> DEFINE q == P(n - 1)
             K == Len(lines[n].key)
             W == Len(lines[n].value)
  <2>1. q \in Nat /\ K \in Nat /\ W \in Nat /\ q + K + W + 6 <= T
    BY LineIs DEF Stopped
  <2>2. T < ValueAt(n) + W /\ ValueAt(n) = q + K + 2
    BY <1>6 DEF CutLine, ValueAt
  <2> HIDE DEF T, q, K, W
  <2> QED
    BY ONLY <1>3, <2>1, <2>2
<1>7. PICK n \in 0..N : AtLine(n)
  BY <1>5, <1>6 DEF Stopped, Progress
<1>8. ~(n < N)
  <2>1. n < N => T <= P(n) + 1
    BY <1>7, OverAtLine DEF Stopped
  <2>2. P(n) \in Nat /\ P(n) <= p
    <3>1. n \in 0..Len(lines) /\ N \in 0..Len(lines) /\ n <= N
      BY <1>3, <1>7
    <3> QED
      BY <3>1, LinesFollow DEF Stopped
  <2> HIDE DEF T, p, V
  <2>3. ~(T <= P(n) + 1)
    BY ONLY <1>2, <1>3, <2>2
  <2> QED
    BY <2>1, <2>3
<1>9. n = N
  BY <1>3, <1>7, <1>8
<1>10. AtLine(N)
  BY <1>7, <1>9
<1>11. T >= S + 2
  <2> HIDE DEF T, S
  <2> QED
    BY ONLY <1>3, <1>4
<1> QED
  BY <1>2, <1>10, <1>11

(* A message that arrived whole is read field by field. *)
LEMMA WholeRead ==
  ASSUME Stopped, text = whole, msg.body = BodyText
  PROVE  /\ IsMessage(msg) /\ IsMessage(sent)
         /\ msg.host = NULL /\ msg.port = 80 /\ msg.body = TailText
         /\ msg.method = sent.method /\ msg.path = sent.path /\ msg.protocol = sent.protocol
         /\ msg.status_code = sent.status_code /\ msg.status_text = sent.status_text
         /\ msg.headers = sent.headers
<1> DEFINE N == Len(lines)
<1>1. AtLine(N) /\ P(N) \in Nat /\ Len(text) = P(N) + 2 + Len(TailText)
      /\ Len(text) >= Len(StartText) + 2 /\ Len(TailText) \in Nat
  BY WholeAtEnd
<1>2. lines \in Seq(HeaderLines) /\ sent.headers = HeadersOf(lines) /\ TailText \in Seq(Char)
  BY DEF Stopped, Message
<1>3. msg.headers = sent.headers
  <2>1. FirstOf(lines, N) = lines
    BY ONLY <1>2, FrontSeq
  <2>2. msg.headers = HeadersOf(FirstOf(lines, N))
    BY <1>1 DEF AtLine
  <2> QED
    BY <1>2, <2>1, <2>2
<1>4. /\ IsMessage(msg) /\ msg.host = NULL /\ msg.port = 80
      /\ msg.method = sent.method /\ msg.path = sent.path /\ msg.protocol = sent.protocol
      /\ msg.status_text = sent.status_text
  BY <1>1 DEF Stopped, Started
<1>5. msg.status_code = sent.status_code
  <2>1. CASE kind = "request"
    BY <2>1 DEF Stopped, Started, Message
  <2>2. CASE kind = "response"
    BY <2>2 DEF Stopped, Started
  <2> QED
    BY <2>1, <2>2 DEF Stopped, Control
<1>6. BodyText = TailText
  <2>1. index = P(N)
    BY <1>1 DEF AtLine
  <2>2. P(N) + 2 <= Len(text) /\ Len(text) - P(N) - 2 = Len(TailText)
    BY ONLY <1>1
  <2>3. /\ BodyText \in Seq(Char) /\ Len(BodyText) = Len(TailText)
        /\ \A j \in 1..Len(BodyText) : BodyText[j] = TailText[j]
    BY <2>1, <2>2, TailRead
  <2> QED
    BY ONLY <1>2, <2>3
<1>7. IsMessage(sent)
  BY DEF Stopped, Message
<1> QED
  BY <1>3, <1>4, <1>5, <1>6, <1>7

(* The message sent as its receiver holds it. *)
Meant ==
  [sent EXCEPT !.host = NULL, !.port = 80,
               !.body = IF kind = "request" /\ @ # <<>> THEN @ \o CRLF ELSE @]

(* The message its receiver holds as a function of its fields. *)
LEMMA MeantIs ==
  ASSUME IsMessage(sent)
  PROVE  Meant = [f \in Fields |-> IF f = "host" THEN NULL ELSE IF f = "port" THEN 80
                                   ELSE IF f = "body" THEN TailText ELSE sent[f]]
<1>1. sent = [f \in Fields |-> sent[f]]
  BY FieldsAre
<1>2. "host" \in Fields /\ "port" \in Fields /\ "body" \in Fields
  BY DEF Fields
<1>3. TailText = IF kind = "request" /\ sent.body # <<>> THEN sent.body \o CRLF ELSE sent.body
  BY DEF TailText
<1> HIDE DEF Fields
<1> QED
  BY <1>1, <1>2, <1>3 DEF Meant

(* A message that arrived whole is the one that was meant. *)
LEMMA RoundTripIs ==
  ASSUME HInv
  PROVE  RoundTrip
<1> SUFFICES ASSUME pc = "done", text = whole
             PROVE  msg = Meant
  BY DEF RoundTrip, Meant
<1>1. Stopped
  BY StoppedIs
<1>2. msg.body = BodyText
  BY DEF HInv, Parsing, Control
<1>3. /\ IsMessage(msg) /\ IsMessage(sent)
      /\ msg.host = NULL /\ msg.port = 80 /\ msg.body = TailText
      /\ msg.method = sent.method /\ msg.path = sent.path /\ msg.protocol = sent.protocol
      /\ msg.status_code = sent.status_code /\ msg.status_text = sent.status_text
      /\ msg.headers = sent.headers
  BY <1>1, <1>2, WholeRead
<1>4. msg = [f \in Fields |-> msg[f]]
  BY ONLY <1>3, FieldsAre
<1> DEFINE G(f) == IF f = "host" THEN NULL ELSE IF f = "port" THEN 80
                                   ELSE IF f = "body" THEN TailText ELSE sent[f]
<1>5. Meant = [f \in Fields |-> G(f)]
  BY ONLY <1>3, MeantIs
<1>6. \A f \in Fields : msg[f] = G(f)
  BY ONLY <1>3 DEF Fields
<1> HIDE DEF G
<1> QED
  BY ONLY <1>4, <1>5, <1>6

(* A message that arrives whole is parsed into the message its sender        *)
(* meant.                                                                    *)
THEOREM HandshakeRoundTrip == Spec => []RoundTrip
<1>1. HInv => RoundTrip
  BY RoundTripIs
<1> QED
  BY <1>1, HandshakeInvariant, PTL

----------------------------------------------------------------------------
(* The request names the URL *)

(* A port of 16 bits is kept. *)
LEMMA PortKept ==
  ASSUME NEW n \in Nat, n < 65536
  PROVE  n % 2^16 = n
<1>1. 2^16 = 65536
  OBVIOUS
<1>2. n % 65536 = n
  OBVIOUS
<1> QED
  BY <1>1, <1>2

(* The names of the handshake's headers differ. *)
LEMMA OtherNames ==
  /\ <<"upgrade">> # <<"host">> /\ <<"sec", "key">> # <<"host">> /\ <<"sec", "version">> # <<"host">>
  /\ <<"upgrade">> # <<"connection">> /\ <<"upgrade">> # <<"sec", "key">>
  /\ <<"upgrade">> # <<"sec", "version">> /\ <<"sec", "key">> # <<"sec", "version">>
OBVIOUS

(* The headers of initial_handshake by their names. *)
LEMMA HandshakeHeld ==
  LET h == HeadersOf(HandshakeHeaders)
  IN /\ <<"upgrade">> \in DOMAIN h /\ h[<<"upgrade">>] = <<"websocket">>
     /\ <<"sec", "key">> \in DOMAIN h /\ h[<<"sec", "key">>] = Nonce
     /\ <<"sec", "version">> \in DOMAIN h /\ h[<<"sec", "version">>] = <<"1", "3">>
<1> DEFINE hs == HandshakeHeaders
           h == HeadersOf(hs)
           u == <<"upgrade">>
           c == <<"connection">>
           k == <<"sec", "key">>
           v == <<"sec", "version">>
<1>1. /\ Len(hs) = 4
      /\ normalized_cstr(hs[1].key) = u /\ normalized_cstr(hs[2].key) = c
      /\ normalized_cstr(hs[3].key) = k /\ normalized_cstr(hs[4].key) = v
      /\ hs[1].value = <<"websocket">> /\ hs[3].value = <<"nonce">> /\ hs[4].value = <<"1", "3">>
  BY HandshakeNames
<1>2. u # c /\ u # k /\ u # v /\ k # v
  BY OtherNames
<1>3. Len(hs) \in Nat
  BY <1>1
<1> HIDE DEF hs, u, c, k, v
<1>4. LastNamed(hs, u, 1)
  <2>1. \A j \in (1 + 1)..4 : j = 2 \/ j = 3 \/ j = 4
    OBVIOUS
  <2> QED
    BY ONLY <1>1, <1>2, <2>1 DEF LastNamed
<1>5. LastNamed(hs, k, 3)
  <2>1. \A j \in (3 + 1)..4 : j = 4
    OBVIOUS
  <2> QED
    BY ONLY <1>1, <1>2, <2>1 DEF LastNamed
<1>6. LastNamed(hs, v, 4)
  <2>1. \A j \in (4 + 1)..4 : FALSE
    OBVIOUS
  <2> QED
    BY ONLY <1>1, <2>1 DEF LastNamed
<1>7. /\ DOMAIN HeadersOf(hs) = Names(hs)
      /\ \A a, i : LastNamed(hs, a, i) => a \in Names(hs) /\ HeadersOf(hs)[a] = hs[i].value
  BY ONLY <1>3, HeadersAre
<1>8. /\ u \in DOMAIN h /\ h[u] = <<"websocket">>
      /\ k \in DOMAIN h /\ h[k] = <<"nonce">>
      /\ v \in DOMAIN h /\ h[v] = <<"1", "3">>
  BY ONLY <1>1, <1>4, <1>5, <1>6, <1>7
<1> QED
  BY <1>8 DEF u, k, v, hs, Nonce

(* get_header of a name in lower case. *)
LEMMA GetIs ==
  ASSUME NEW m, NEW k, normalized_cstr(k) = k
  PROVE  /\ k \in DOMAIN m.headers => get_header(m, k) = m.headers[k]
         /\ k \notin DOMAIN m.headers => get_header(m, k) = NULL
BY DEF get_header

(* A header that was set, and the others. *)
LEMMA SetToGet ==
  ASSUME NEW h, NEW k, NEW v
  PROVE  /\ k \in DOMAIN SetTo(h, k, v) /\ SetTo(h, k, v)[k] = v
         /\ \A j \in DOMAIN h : j # k => j \in DOMAIN SetTo(h, k, v) /\ SetTo(h, k, v)[j] = h[j]
BY DEF SetTo

HostValue == HandshakeMsg.host \o <<":">> \o to_str(HandshakeMsg.port)

(* The headers in the request of the handshake. *)
LEMMA SentHeld ==
  ASSUME \/ sent = WithHost(HandshakeMsg)
         \/ "alloc" \in HttpFaults /\ sent = HandshakeMsg
  PROVE  /\ sent.method = "GET" /\ sent.path = RequestPath(client)
         /\ get_header(sent, <<"host">>) \in {HostValue} \cup (IF "alloc" \in HttpFaults THEN {NULL} ELSE {})
         /\ get_header(sent, <<"upgrade">>) = <<"websocket">>
         /\ get_header(sent, <<"sec", "key">>) = Nonce
         /\ get_header(sent, <<"sec", "version">>) = <<"1", "3">>
<1> DEFINE h == HeadersOf(HandshakeHeaders)
           u == <<"upgrade">>
           o == <<"host">>
           k == <<"sec", "key">>
           v == <<"sec", "version">>
<1>1. /\ u \in DOMAIN h /\ h[u] = <<"websocket">> /\ k \in DOMAIN h /\ h[k] = Nonce
      /\ v \in DOMAIN h /\ h[v] = <<"1", "3">>
  BY HandshakeHeld
<1>2. u # o /\ k # o /\ v # o
  BY OtherNames
<1>3. normalized_cstr(u) = u /\ normalized_cstr(o) = o /\ normalized_cstr(k) = k /\ normalized_cstr(v) = v
  BY AcceptName
<1>4. o \notin DOMAIN h
  BY NoHostYet
<1>5. HandshakeMsg.method = "GET" /\ HandshakeMsg.path = RequestPath(client) /\ HandshakeMsg.headers = h
  BY HandshakeFields
<1>6. normalized_cstr(<<"Host">>) = o
  BY AppValuesPlain
<1> HIDE DEF h, u, o, k, v
<1>7. CASE sent = WithHost(HandshakeMsg)
  <2>1. sent = set_header(HandshakeMsg, <<"Host">>, HostValue)
    BY <1>7 DEF WithHost, HostValue
  <2>2. SameButHeaders(sent, HandshakeMsg) /\ sent.headers = SetTo(h, o, HostValue)
    BY <1>5, <1>6, <2>1, HandshakeFields, SetHeaderIs
  <2>3. /\ o \in DOMAIN sent.headers /\ sent.headers[o] = HostValue
        /\ \A j \in DOMAIN h : j # o => j \in DOMAIN sent.headers /\ sent.headers[j] = h[j]
    BY <2>2, SetToGet
  <2>4. get_header(sent, o) = HostValue
    BY ONLY <1>3, <2>3, GetIs
  <2>5. get_header(sent, u) = h[u] /\ get_header(sent, k) = h[k] /\ get_header(sent, v) = h[v]
    BY ONLY <1>1, <1>2, <1>3, <2>3, GetIs
  <2>6. sent.method = "GET" /\ sent.path = RequestPath(client)
    BY <1>5, <2>2 DEF SameButHeaders
  <2> QED
    BY <1>1, <2>4, <2>5, <2>6 DEF u, o, k, v
<1>8. CASE "alloc" \in HttpFaults /\ sent = HandshakeMsg
  <2>1. sent.headers = h /\ sent.method = "GET" /\ sent.path = RequestPath(client)
    BY <1>5, <1>8
  <2>2. get_header(sent, o) = NULL
    BY ONLY <1>3, <1>4, <2>1, GetIs
  <2>3. get_header(sent, u) = h[u] /\ get_header(sent, k) = h[k] /\ get_header(sent, v) = h[v]
    BY ONLY <1>1, <1>3, <2>1, GetIs
  <2> QED
    BY <1>1, <1>8, <2>1, <2>2, <2>3 DEF u, o, k, v
<1> QED
  BY <1>7, <1>8

(* The request that was parsed again says what the URL said. *)
LEMMA RequestNamesUrlIs ==
  ASSUME HInv
  PROVE  RequestNamesUrl
<1> SUFFICES ASSUME pc = "done", mode = "connect", kind = "request", text = whole
             PROVE  RequestNamesUrl
  BY DEF RequestNamesUrl
<1>1. Stopped
  BY StoppedIs
<1>2. msg.body = BodyText
  BY DEF HInv, Parsing, Control
<1>3. msg.method = sent.method /\ msg.path = sent.path /\ msg.headers = sent.headers
  BY <1>1, <1>2, WholeRead
<1>4. \/ sent = WithHost(HandshakeMsg)
      \/ "alloc" \in HttpFaults /\ sent = HandshakeMsg
  BY <1>1 DEF Stopped, HInv, ConnectSent
<1>5. /\ sent.method = "GET" /\ sent.path = RequestPath(client)
      /\ get_header(sent, <<"host">>) \in {HostValue} \cup (IF "alloc" \in HttpFaults THEN {NULL} ELSE {})
      /\ get_header(sent, <<"upgrade">>) = <<"websocket">>
      /\ get_header(sent, <<"sec", "key">>) = Nonce
      /\ get_header(sent, <<"sec", "version">>) = <<"1", "3">>
  BY ONLY <1>4, SentHeld
<1>6. \A k : get_header(msg, k) = get_header(sent, k)
  BY <1>3 DEF get_header
<1>7. client = UrlClient(url) /\ client.port \in Nat
  BY ClientIs, ClientParts DEF HInv
<1>8. RequestPath(client) = IF url.path = NULL THEN <<"/">> ELSE url.path
  BY <1>7 DEF UrlClient, RequestPath, empty_path
<1>9. client.port < 65536 => HostValue = NamedHost
  <2>1. HandshakeMsg.host = client.host /\ HandshakeMsg.port = client.port % 2^16
    BY HandshakeFields
  <2>2. client.host = url.host
    BY <1>7 DEF UrlClient
  <2>3. client.port < 65536 => client.port % 2^16 = client.port
    BY <1>7, PortKept
  <2>4. HandshakeMsg.host = url.host
    BY <2>1, <2>2
  <2>5. client.port < 65536 => HandshakeMsg.port = client.port
    BY <2>1, <2>3
  <2>6. HandshakeMsg.port = client.port => HostValue = NamedHost
    BY ONLY <2>4 DEF HostValue, NamedHost
  <2> QED
    BY ONLY <2>5, <2>6
<1>10. msg.method = "GET" /\ msg.path = IF url.path = NULL THEN <<"/">> ELSE url.path
  BY ONLY <1>3, <1>5, <1>8
<1>11. client.port < 65536 =>
         get_header(msg, <<"host">>) \in
           {NamedHost} \cup (IF "alloc" \in HttpFaults THEN {NULL} ELSE {})
  <2> DEFINE g == get_header(msg, <<"host">>)
             w == NamedHost
             E == IF "alloc" \in HttpFaults THEN {NULL} ELSE {}
             low == client.port < 65536
  <2>1. g \in {HostValue} \cup E
    BY <1>5, <1>6
  <2>2. low => HostValue = w
    BY <1>9
  <2> HIDE DEF g, w, E, low
  <2>3. low => g \in {w} \cup E
    BY ONLY <2>1, <2>2
  <2> QED
    BY ONLY <2>3 DEF low, g, w, E
<1>12. /\ get_header(msg, <<"upgrade">>) = <<"websocket">>
       /\ get_header(msg, <<"sec", "key">>) = Nonce
       /\ get_header(msg, <<"sec", "version">>) = <<"1", "3">>
  BY <1>5, <1>6
<1> QED
  BY ONLY <1>10, <1>11, <1>12 DEF RequestNamesUrl

(* The handshake's request, printed and parsed again, names the URL's path   *)
(* and host, its port if that has 16 bits, and asks for the upgrade with     *)
(* nonce and version.                                                        *)
THEOREM HandshakeRequestNamesUrl == Spec => []RequestNamesUrl
<1>1. HInv => RequestNamesUrl
  BY RequestNamesUrlIs
<1> QED
  BY <1>1, HandshakeInvariant, PTL
=============================================================================
