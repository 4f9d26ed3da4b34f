--------------------------- MODULE SendingProofs ---------------------------
(***************************************************************************)
(* Proofs about module Sending, for any frame size, buffers and numbers of *)
(* lines and PINGs, with and without signals: where the stream can be      *)
(* torn, and what becomes of a frame that was written.                     *)
(*                                                                         *)
(* The invariant is about Stream, the units that the server has read of    *)
(* the frame it is in, followed by those on their way.  While the server   *)
(* reads, a unit of it is there once, behind the unit before it (Rooted);  *)
(* a unit that ends no frame is followed by its next one, or its frame is  *)
(* mixed or short (Joined); and the last one is in the hands of its sender *)
(* (Tip), so that whoever writes behind it finds the frame open.           *)
(***************************************************************************)
EXTENDS Sending, SequenceTheorems, TLAPS

Unit == [by : Threads, no : Nat, i : 1..Size]
Stream == part \o up

(* v is the unit of u's frame behind u. *)
Follows(v, u) == v.by = u.by /\ v.no = u.no /\ v.i = u.i + 1
FrameOf(u) == <<u.by, u.no>>

TypeOK ==
  /\ up \in Seq(Unit) /\ part \in Seq(Unit)
  /\ wpc \in [Threads -> {"ready", "send", "stopped"}]
  /\ no \in [Threads -> Nat] /\ put \in [Threads -> 0..Size]
  /\ \A t \in Threads : wpc[t] = "send" => put[t] < Size
  /\ spc \in {"read", "echo", "closed"}
  /\ seen \in Seq(Threads \X Nat)

(* What the server has read of a frame is its beginning. *)
Reading ==
  /\ Len(part) < Size
  /\ \A j \in 1..Len(part) : part[j].i = j /\ FrameOf(part[j]) = FrameOf(part[1])

Once(s) == \A j, k \in 1..Len(s) : s[j] = s[k] => j = k
Rooted(s) == \A j \in 1..Len(s) : s[j].i > 1 => \E k \in 1..(j - 1) : Follows(s[j], s[k])
Joined(s, torn) ==
  \A j \in 1..(Len(s) - 1) :
    s[j].i < Size => Follows(s[j + 1], s[j]) \/ FrameOf(s[j]) \in torn
Ordered(s) ==
  \A j, k \in 1..Len(s) : j < k /\ s[j].by = s[k].by => s[j].no <= s[k].no

Tip(s) ==
  LET u == s[Len(s)]
  IN Len(s) > 0 /\ u.i < Size /\ FrameOf(u) \notin mixed \cup short =>
       wpc[u.by] = "send" /\ no[u.by] = u.no /\ put[u.by] = u.i

(* No unit is ahead of its sender, and the last one a sender has put into    *)
(* its frame has not been taken away yet.                                    *)
Begun(s) ==
  \A j \in 1..Len(s) :
    LET u == s[j]
    IN /\ u.no <= no[u.by]
       /\ wpc[u.by] = "send" /\ u.no = no[u.by] => u.i <= put[u.by]

InHand(s) ==
  \A t \in Threads : wpc[t] = "send" /\ put[t] > 0 =>
    \E j \in 1..Len(s) : s[j].by = t /\ s[j].no = no[t] /\ s[j].i = put[t]

(* The frames read are behind everything on its way. *)
Past(s) ==
  /\ \A j \in 1..Len(seen), k \in 1..Len(s) :
       seen[j][1] = s[k].by => seen[j][2] < s[k].no
  /\ \A j \in 1..Len(seen) :
       LET t == seen[j][1]
       IN /\ seen[j][2] <= no[t]
          /\ wpc[t] = "send" => seen[j][2] < no[t]
  /\ \A j, k \in 1..Len(seen) : j < k /\ seen[j][1] = seen[k][1] => seen[j][2] < seen[k][2]

Written ==
  \A f \in wrote :
    \/ f \in short
    \/ \E j \in 1..Len(seen) : seen[j] = f
    \/ \E j \in 1..Len(up) : FrameOf(up[j]) = f /\ up[j].i = Size

Sound(s) ==
  /\ Once(s) /\ Rooted(s) /\ Joined(s, mixed \cup short) /\ Ordered(s)
  /\ Tip(s) /\ Begun(s) /\ InHand(s) /\ Past(s)

SendingInv ==
  /\ TypeOK
  /\ spc # "closed" => Reading /\ Sound(Stream) /\ Written
  /\ TornOnlyWhenFull

----------------------------------------------------------------------------
(* Units and streams *)

LEMMA SizePositive == Size \in Nat /\ Size > 0
  BY SendingAssumption

LEMMA UnitFields ==
  /\ \A u \in Unit : u.by \in Threads /\ u.no \in Nat /\ u.i \in 1..Size /\ u.i \in Nat
  /\ \A u, v \in Unit : u.by = v.by /\ u.no = v.no /\ u.i = v.i => u = v
<1>1. \A u \in Unit : u.by \in Threads /\ u.no \in Nat /\ u.i \in 1..Size
  BY DEF Unit
<1>2. \A x \in 1..Size : x \in Nat
  BY SizePositive
<1>3. \A u \in Unit : u = [by |-> u.by, no |-> u.no, i |-> u.i]
  BY DEF Unit
<1>4. \A u, v \in Unit : u.by = v.by /\ u.no = v.no /\ u.i = v.i => u = v
  BY <1>3
<1>5. QED
  BY <1>1, <1>2, <1>4

LEMMA StreamUnits ==
  ASSUME NEW s \in Seq(Unit)
  PROVE  /\ Len(s) \in Nat
         /\ \A j \in 1..Len(s) :
              /\ s[j] \in Unit /\ s[j].by \in Threads /\ s[j].no \in Nat
              /\ s[j].i \in 1..Size /\ s[j].i \in Nat
<1>1. \A j \in 1..Len(s) : s[j] \in Unit
  BY ElementOfSeq, Zenon
<1>2. QED
  BY <1>1, UnitFields

LEMMA UnitsJoined ==
  ASSUME NEW a, NEW b, NEW c, a \in Seq(Unit), b \in Seq(Unit), c = a \o b
  PROVE  /\ c \in Seq(Unit) /\ Len(a) \in Nat /\ Len(b) \in Nat
         /\ Len(c) = Len(a) + Len(b)
         /\ \A j \in 1..Len(a) : c[j] = a[j]
         /\ \A j \in 1..Len(b) : c[Len(a) + j] = b[j]
         /\ \A j \in 1..Len(c) : j > Len(a) => j - Len(a) \in 1..Len(b) /\ c[j] = b[j - Len(a)]
<1>1. Len(a) \in Nat /\ Len(b) \in Nat
  OBVIOUS
<1>2. /\ a \o b \in Seq(Unit) /\ Len(a \o b) = Len(a) + Len(b)
      /\ \A j \in 1..(Len(a) + Len(b)) : (a \o b)[j] = IF j <= Len(a) THEN a[j] ELSE b[j - Len(a)]
  BY ConcatProperties, Zenon
<1>3. ASSUME NEW j \in 1..Len(b) PROVE c[Len(a) + j] = b[j]
  <2>1. Len(a) + j \in 1..(Len(a) + Len(b)) /\ ~(Len(a) + j <= Len(a)) /\ (Len(a) + j) - Len(a) = j
    BY <1>1
  <2>2. QED
    BY <1>2, <2>1
<1>4. QED
  BY <1>1, <1>2, <1>3

LEMMA LengthsAdd == \A a, b \in Seq(Unit) : Len(a \o b) = Len(a) + Len(b)
  OBVIOUS

(* Thread t, which has put p units of its frame n into stream s, puts some   *)
(* more, us, behind it: s2 is the stream then.                               *)
Extends(s, us, s2, t, n, p) ==
  /\ s \in Seq(Unit) /\ us \in Seq(Unit) /\ s2 \in Seq(Unit)
  /\ Len(us) \in Nat \ {0} /\ Len(s2) = Len(s) + Len(us)
  /\ \A j \in 1..Len(s) : s2[j] = s[j]
  /\ \A j \in 1..Len(s2) : j > Len(s) =>
       s2[j].by = t /\ s2[j].no = n /\ s2[j].i = p + (j - Len(s))
  /\ t \in Threads /\ n \in Nat /\ p \in Nat
  /\ \A j \in 1..Len(s) : s[j].by = t =>
       s[j].no <= n /\ (s[j].no = n => s[j].i <= p)
  /\ p > 0 => \E j \in 1..Len(s) : s[j].by = t /\ s[j].no = n /\ s[j].i = p

LEMMA ExtendsOnce ==
  ASSUME NEW s, NEW us, NEW s2, NEW t, NEW n, NEW p, Extends(s, us, s2, t, n, p), Once(s)
  PROVE  Once(s2)
<1> SUFFICES ASSUME NEW j \in 1..Len(s2), NEW k \in 1..Len(s2), s2[j] = s2[k], j < k
             PROVE  FALSE
  <2>1. Len(s2) \in Nat
    BY StreamUnits DEF Extends
  <2>2. QED
    BY <2>1 DEF Once
<1>1. /\ Len(s) \in Nat /\ Len(s2) \in Nat /\ p \in Nat
      /\ \A x \in 1..Len(s) : s[x].i \in Nat
  BY StreamUnits DEF Extends
<1>2. CASE k <= Len(s)
  BY <1>1, <1>2 DEF Extends, Once
<1>3. CASE k > Len(s) /\ j <= Len(s)
  <2>1. j \in 1..Len(s) /\ s2[j] = s[j] /\ s2[k].by = t /\ s2[k].no = n /\ s2[k].i = p + (k - Len(s))
    BY <1>1, <1>3 DEF Extends
  <2>2. s[j].i <= p
    BY <2>1 DEF Extends
  <2>3. QED
    BY <1>1, <1>3, <2>1, <2>2
<1>4. CASE j > Len(s)
  <2>1. k > Len(s)
    BY <1>1, <1>4
  <2>2. s2[j].i = p + (j - Len(s))
    BY <1>4 DEF Extends
  <2>3. s2[k].i = p + (k - Len(s))
    BY <2>1 DEF Extends
  <2>4. p + (j - Len(s)) = p + (k - Len(s))
    BY <2>2, <2>3
  <2>5. QED
    BY <1>1, <2>4
<1>5. QED
  BY <1>1, <1>2, <1>3, <1>4

LEMMA ExtendsRooted ==
  ASSUME NEW s, NEW us, NEW s2, NEW t, NEW n, NEW p, Extends(s, us, s2, t, n, p), Rooted(s)
  PROVE  Rooted(s2)
<1> SUFFICES ASSUME NEW j \in 1..Len(s2), s2[j].i > 1
             PROVE  \E k \in 1..(j - 1) : Follows(s2[j], s2[k])
  BY DEF Rooted
<1>1. /\ Len(s) \in Nat /\ Len(s2) \in Nat /\ p \in Nat
  BY StreamUnits DEF Extends
<1>2. CASE j <= Len(s)
  <2>1. j \in 1..Len(s) /\ s2[j] = s[j]
    BY <1>1, <1>2 DEF Extends
  <2>2. PICK k \in 1..(j - 1) : Follows(s[j], s[k])
    BY <2>1 DEF Rooted
  <2>3. s2[k] = s[k]
    BY <1>1, <2>1 DEF Extends
  <2>4. QED
    BY <2>1, <2>2, <2>3
<1>3. CASE j > Len(s)
  <2>1. s2[j].by = t /\ s2[j].no = n /\ s2[j].i = p + (j - Len(s))
    BY <1>1, <1>3 DEF Extends
  <2>2. CASE j > Len(s) + 1
    <3>1. j - 1 \in 1..Len(s2) /\ j - 1 > Len(s)
      BY <1>1, <2>2
    <3>2. s2[j - 1].by = t /\ s2[j - 1].no = n /\ s2[j - 1].i = p + (j - 1 - Len(s))
      BY <3>1 DEF Extends
    <3>3. s2[j].i = s2[j - 1].i + 1
      BY <1>1, <2>1, <3>2
    <3>4. j - 1 \in 1..(j - 1)
      BY <1>1, <3>1
    <3>5. QED
      BY <2>1, <3>2, <3>3, <3>4 DEF Follows
  <2>3. CASE j = Len(s) + 1
    <3>1. p > 0 /\ s2[j].i = p + 1
      BY <1>1, <2>1, <2>3
    <3>2. PICK k \in 1..Len(s) : s[k].by = t /\ s[k].no = n /\ s[k].i = p
      BY <3>1 DEF Extends
    <3>3. s2[k] = s[k] /\ k \in 1..(j - 1)
      BY <1>1, <2>3 DEF Extends
    <3>4. QED
      BY <2>1, <3>1, <3>2, <3>3 DEF Follows
  <2>4. QED
    BY <1>1, <1>3, <2>2, <2>3
<1>4. QED
  BY <1>1, <1>2, <1>3

LEMMA ExtendsOrdered ==
  ASSUME NEW s, NEW us, NEW s2, NEW t, NEW n, NEW p, Extends(s, us, s2, t, n, p), Ordered(s)
  PROVE  Ordered(s2)
<1> SUFFICES ASSUME NEW j \in 1..Len(s2), NEW k \in 1..Len(s2), j < k, s2[j].by = s2[k].by
             PROVE  s2[j].no <= s2[k].no
  BY DEF Ordered
<1>1. Len(s) \in Nat /\ Len(s2) \in Nat /\ n \in Nat
  BY StreamUnits DEF Extends
<1>2. CASE k <= Len(s)
  <2>1. j \in 1..Len(s) /\ k \in 1..Len(s) /\ s2[j] = s[j] /\ s2[k] = s[k]
    BY <1>1, <1>2 DEF Extends
  <2>2. QED
    BY <2>1 DEF Ordered
<1>3. CASE k > Len(s)
  <2>1. s2[k].by = t /\ s2[k].no = n
    BY <1>3 DEF Extends
  <2>2. CASE j <= Len(s)
    <3>1. j \in 1..Len(s) /\ s2[j] = s[j]
      BY <1>1, <2>2 DEF Extends
    <3>2. QED
      BY <2>1, <3>1 DEF Extends
  <2>3. CASE j > Len(s)
    <3>1. s2[j].no = n
      BY <2>3 DEF Extends
    <3>2. QED
      BY <1>1, <2>1, <3>1
  <2>4. QED
    BY <1>1, <2>2, <2>3
<1>4. QED
  BY <1>1, <1>2, <1>3

(* The frame at the end of s is the sender's own, complete, or torn now. *)
LEMMA ExtendsJoined ==
  ASSUME NEW s, NEW us, NEW s2, NEW t, NEW n, NEW p, Extends(s, us, s2, t, n, p),
         NEW torn, NEW torn2, torn \subseteq torn2, Joined(s, torn),
         LET u == s[Len(s)]
         IN Len(s) > 0 /\ u.i < Size /\ FrameOf(u) \notin torn2 =>
              u.by = t /\ u.no = n /\ u.i = p
  PROVE  Joined(s2, torn2)
<1> SUFFICES ASSUME NEW j \in 1..(Len(s2) - 1), s2[j].i < Size, FrameOf(s2[j]) \notin torn2
             PROVE  Follows(s2[j + 1], s2[j])
  BY DEF Joined
<1>1. Len(s) \in Nat /\ Len(s2) \in Nat /\ p \in Nat /\ j + 1 \in 1..Len(s2) /\ j \in 1..Len(s2)
  BY StreamUnits DEF Extends
<1>2. CASE j < Len(s)
  <2>1. j \in 1..(Len(s) - 1) /\ s2[j] = s[j] /\ s2[j + 1] = s[j + 1]
    <3>1. \A k \in 1..Len(s) : s2[k] = s[k]
      BY DEF Extends
    <3>2. j \in 1..(Len(s) - 1) /\ j \in 1..Len(s) /\ j + 1 \in 1..Len(s)
      BY ONLY <1>1, <1>2
    <3> QED
      BY ONLY <3>1, <3>2
  <2>2. QED
    BY <2>1 DEF Joined
<1>3. CASE j = Len(s)
  <2>1. Len(s) > 0 /\ s2[j] = s[Len(s)]
    BY <1>1, <1>3 DEF Extends
  <2>2. s2[j].by = t /\ s2[j].no = n /\ s2[j].i = p
    BY <2>1
  <2>3. s2[j + 1].by = t /\ s2[j + 1].no = n /\ s2[j + 1].i = p + 1
    BY <1>1, <1>3 DEF Extends
  <2>4. QED
    BY <2>2, <2>3 DEF Follows
<1>4. CASE j > Len(s)
  <2>1. /\ s2[j].by = t /\ s2[j].no = n /\ s2[j].i = p + (j - Len(s))
        /\ s2[j + 1].by = t /\ s2[j + 1].no = n /\ s2[j + 1].i = p + (j + 1 - Len(s))
    BY <1>1, <1>4 DEF Extends
  <2>2. QED
    BY <1>1, <2>1 DEF Follows
<1>5. QED
  BY <1>1, <1>2, <1>3, <1>4

(* The server takes a whole frame f off stream s: s2 is left. *)
Drops(s, f, s2) ==
  /\ s \in Seq(Unit) /\ s2 \in Seq(Unit)
  /\ Len(s) = Size + Len(s2)
  /\ \A j \in 1..Size : s[j].i = j /\ FrameOf(s[j]) = f
  /\ \A j \in 1..Len(s2) : s2[j] = s[Size + j]

LEMMA DropsIndex ==
  ASSUME NEW s, NEW f, NEW s2, Drops(s, f, s2)
  PROVE  /\ Len(s) \in Nat /\ Len(s2) \in Nat
         /\ \A j \in 1..Size : j \in 1..Len(s)
         /\ \A j \in 1..Len(s2) : Size + j \in 1..Len(s) /\ Size + j \notin 1..Size
         /\ \A j \in 1..Len(s) : j \in 1..Size \/ (j - Size \in 1..Len(s2) /\ s2[j - Size] = s[j])
<1>1. Len(s) \in Nat /\ Len(s2) \in Nat /\ Len(s) = Size + Len(s2) /\ Size \in Nat /\ Size > 0
  BY SizePositive, StreamUnits DEF Drops
<1>2. \A j \in 1..Len(s2) : s2[j] = s[Size + j]
  BY DEF Drops
<1>3. ASSUME NEW j \in 1..Len(s), j \notin 1..Size
      PROVE  j - Size \in 1..Len(s2) /\ s2[j - Size] = s[j]
  <2>1. j - Size \in 1..Len(s2) /\ Size + (j - Size) = j
    BY <1>1, <1>3
  <2>2. s2[j - Size] = s[Size + (j - Size)]
    BY <1>2, <2>1
  <2>3. QED
    BY <2>1, <2>2
<1>4. QED
  BY <1>1, <1>3

LEMMA DropsKeeps ==
  ASSUME NEW s, NEW f, NEW s2, NEW torn, Drops(s, f, s2), Once(s), Ordered(s), Joined(s, torn)
  PROVE  Once(s2) /\ Ordered(s2) /\ Joined(s2, torn)
<1>1. /\ Len(s) \in Nat /\ Len(s2) \in Nat
      /\ \A j \in 1..Len(s2) : Size + j \in 1..Len(s)
      /\ Size \in Nat
      /\ \A j \in 1..Len(s2) : s2[j] = s[Size + j]
      /\ Len(s) = Size + Len(s2)
  BY DropsIndex, SizePositive DEF Drops
<1>2. Once(s2)
  <2>1. ASSUME NEW j \in 1..Len(s2), NEW k \in 1..Len(s2), s2[j] = s2[k] PROVE j = k
    <3>1. s[Size + j] = s[Size + k]
      BY <1>1, <2>1
    <3>2. Size + j = Size + k
      BY <1>1, <3>1 DEF Once
    <3>3. QED
      BY <1>1, <3>2
  <2>2. QED
    BY <2>1 DEF Once
<1>3. Ordered(s2)
  <2>1. ASSUME NEW j \in 1..Len(s2), NEW k \in 1..Len(s2), j < k, s2[j].by = s2[k].by
        PROVE  s2[j].no <= s2[k].no
    <3>1. Size + j < Size + k /\ s[Size + j].by = s[Size + k].by
      BY <1>1, <2>1
    <3>2. s[Size + j].no <= s[Size + k].no
      BY <1>1, <3>1 DEF Ordered
    <3>3. QED
      BY <1>1, <3>2
  <2>2. QED
    BY <2>1 DEF Ordered
<1>4. Joined(s2, torn)
  <2>1. ASSUME NEW j \in 1..(Len(s2) - 1), s2[j].i < Size
        PROVE  Follows(s2[j + 1], s2[j]) \/ FrameOf(s2[j]) \in torn
    <3>1. /\ Size + j \in 1..(Len(s) - 1) /\ s2[j] = s[Size + j]
          /\ s2[j + 1] = s[(Size + j) + 1]
      <4>1. j \in 1..Len(s2) /\ j + 1 \in 1..Len(s2) /\ Size + (j + 1) = (Size + j) + 1
        BY <1>1
      <4>2. QED
        BY <1>1, <4>1
    <3>2. QED
      BY <2>1, <3>1 DEF Joined
  <2>2. QED
    BY <2>1 DEF Joined
<1>5. QED
  BY <1>2, <1>3, <1>4

(* No unit of f is left, and no unit that was rooted in f. *)
LEMMA DropsFrame ==
  ASSUME NEW s, NEW f, NEW s2, Drops(s, f, s2), Once(s), NEW j \in 1..Len(s2)
  PROVE  FrameOf(s2[j]) # f
<1> SUFFICES ASSUME FrameOf(s2[j]) = f PROVE FALSE
  OBVIOUS
<1>1. /\ Size + j \in 1..Len(s) /\ Size + j \notin 1..Size /\ s2[j] = s[Size + j]
      /\ \A k \in 1..Size : k \in 1..Len(s)
  BY DropsIndex DEF Drops
<1> DEFINE k == s2[j].i
<1>2. s2[j] \in Unit /\ k \in 1..Size
  BY StreamUnits DEF Drops
<1>3. s[k] \in Unit /\ s[k].i = k /\ FrameOf(s[k]) = f
  BY <1>1, <1>2, StreamUnits DEF Drops
<1>4. s[k] = s2[j]
  BY <1>2, <1>3, UnitFields DEF FrameOf
<1>5. k = Size + j
  BY <1>1, <1>2, <1>4 DEF Once
<1>6. QED
  BY <1>1, <1>2, <1>5

LEMMA DropsRooted ==
  ASSUME NEW s, NEW f, NEW s2, Drops(s, f, s2), Once(s), Rooted(s)
  PROVE  Rooted(s2)
<1> SUFFICES ASSUME NEW j \in 1..Len(s2), s2[j].i > 1
             PROVE  \E k \in 1..(j - 1) : Follows(s2[j], s2[k])
  BY DEF Rooted
<1>1. /\ Size + j \in 1..Len(s) /\ s2[j] = s[Size + j] /\ Size \in Nat /\ Len(s) \in Nat
      /\ Len(s2) \in Nat
  BY DropsIndex, SizePositive DEF Drops
<1>2. PICK k \in 1..((Size + j) - 1) : Follows(s2[j], s[k])
  BY <1>1 DEF Rooted
<1>3. k \notin 1..Size
  <2>1. SUFFICES ASSUME k \in 1..Size PROVE FALSE
    OBVIOUS
  <2>2. FrameOf(s2[j]) = f
    BY <1>2, <2>1 DEF Drops, Follows, FrameOf
  <2>3. QED
    BY <2>2, DropsFrame
<1>4. k \in 1..Len(s)
  BY <1>1
<1>5. k - Size \in 1..(j - 1) /\ s2[k - Size] = s[k]
  BY <1>1, <1>3, <1>4, DropsIndex
<1>6. QED
  BY <1>2, <1>5

LEMMA DropsPast ==
  ASSUME NEW s, NEW f, NEW s2, Drops(s, f, s2), Once(s), Ordered(s),
         NEW j \in 1..Len(s2), s2[j].by = f[1]
  PROVE  f[2] < s2[j].no
<1>1. /\ Size + j \in 1..Len(s) /\ s2[j] = s[Size + j] /\ Size \in Nat /\ Size > 0
      /\ 1 \in 1..Len(s) /\ 1 < Size + j
  BY DropsIndex, SizePositive DEF Drops
<1>2. s[1].by = f[1] /\ s[1].no = f[2]
  BY SizePositive DEF Drops, FrameOf
<1>3. s[1].no <= s2[j].no
  BY <1>1, <1>2 DEF Ordered
<1>4. s[1].no \in Nat /\ s2[j].no \in Nat
  BY <1>1, StreamUnits DEF Drops
<1>5. s2[j].no # s[1].no
  <2>1. FrameOf(s2[j]) # f
    BY DropsFrame
  <2>2. f = FrameOf(s[1])
    BY SizePositive DEF Drops
  <2>3. QED
    BY <1>2, <2>1, <2>2 DEF FrameOf
<1>6. QED
  BY <1>2, <1>3, <1>4, <1>5

----------------------------------------------------------------------------
(* The inductive invariant *)

LEMMA SendingInitInv == Init => SendingInv
<1> SUFFICES ASSUME Init PROVE SendingInv
  OBVIOUS
<1>1. TypeOK
  BY SizePositive DEF Init, TypeOK
<1>2. Stream = <<>> /\ Len(Stream) = 0 /\ Len(part) = 0 /\ Len(seen) = 0 /\ wrote = {}
  <2>1. <<>> \in Seq(Unit)
    OBVIOUS
  <2>2. Stream = <<>>
    BY <2>1, ConcatEmptySeq DEF Init, Stream
  <2>3. QED
    BY <2>2 DEF Init
<1>3. Reading /\ Written
  BY <1>2, SizePositive DEF Reading, Written
<1>4. Sound(Stream)
  BY <1>2 DEF Sound, Once, Rooted, Joined, Ordered, Tip, Begun, InHand, Past, Init
<1>5. TornOnlyWhenFull
  BY DEF Init, TornOnlyWhenFull
<1>6. QED
  BY <1>1, <1>3, <1>4, <1>5 DEF SendingInv

LEMMA StreamType == TypeOK => Stream \in Seq(Unit)
  BY ConcatProperties DEF TypeOK, Stream

(* Steps that move no frame. *)
LEMMA QuietKeeps ==
  ASSUME SendingInv, UNCHANGED <<up, part, threadVars, seen, ghostVars>>,
         spc' \in {"read", "echo", "closed"}, spc' = "closed" <=> spc = "closed"
  PROVE  SendingInv'
<1>1. Stream' = Stream
  BY DEF Stream
<1>2. TypeOK' /\ TornOnlyWhenFull'
  BY DEF SendingInv, TypeOK, TornOnlyWhenFull, threadVars, ghostVars
<1>3. spc' # "closed" => Reading' /\ Written'
  BY DEF SendingInv, Reading, Written, threadVars, ghostVars
<1>4. Sound(Stream) => Sound(Stream)'
  BY <1>1 DEF Sound, Once, Rooted, Joined, Ordered, Tip, Begun, InHand, Past,
              threadVars, ghostVars
<1>5. QED
  BY <1>2, <1>3, <1>4 DEF SendingInv

(* A thread begins to write a frame, the first of its number. *)
LEMMA BeginKeeps ==
  ASSUME SendingInv, NEW t \in Threads, wpc[t] = "ready", Begin(t),
         UNCHANGED <<up, part, spc, seen, ghostVars>>
  PROVE  SendingInv'
<1>1. /\ wpc' = [wpc EXCEPT ![t] = "send"] /\ no' = [no EXCEPT ![t] = @ + 1]
      /\ put' = [put EXCEPT ![t] = 0] /\ wrote' = wrote
  BY DEF Begin
<1>2. TypeOK
  BY DEF SendingInv
<1>3. /\ wpc'[t] = "send" /\ no'[t] = no[t] + 1 /\ put'[t] = 0
      /\ \A x \in Threads : x # t => wpc'[x] = wpc[x] /\ no'[x] = no[x] /\ put'[x] = put[x]
      /\ \A x \in Threads : no[x] \in Nat /\ no'[x] \in Nat
  BY <1>1, <1>2 DEF TypeOK
<1>4. TypeOK'
  <2>1. /\ wpc' \in [Threads -> {"ready", "send", "stopped"}]
        /\ no' \in [Threads -> Nat] /\ put' \in [Threads -> 0..Size]
    BY <1>1, <1>2, SizePositive DEF TypeOK
  <2>2. \A x \in Threads : wpc'[x] = "send" => put'[x] < Size
    BY <1>2, <1>3, SizePositive DEF TypeOK
  <2>3. QED
    BY <1>2, <2>1, <2>2 DEF TypeOK
<1>5. TornOnlyWhenFull'
  BY DEF SendingInv, TornOnlyWhenFull, ghostVars
<1>6. ASSUME spc # "closed" PROVE Reading' /\ Sound(Stream)' /\ Written'
  <2>1. Reading /\ Sound(Stream) /\ Written
    BY <1>6 DEF SendingInv
  <2>2. Reading' /\ Written'
    BY <1>1, <2>1 DEF Reading, Written, ghostVars
  <2>3. PICK s : s = Stream /\ s \in Seq(Unit)
    BY <1>2, StreamType
  <2>4. Stream' = s
    BY <2>3 DEF Stream
  <2>5. Sound(s)
    BY <2>1, <2>3
  <2>6. /\ Len(s) \in Nat
        /\ \A j \in 1..Len(s) : s[j].by \in Threads /\ s[j].no \in Nat
    BY <2>3, StreamUnits
  <2>7. Once(s) /\ Rooted(s) /\ Joined(s, mixed' \cup short') /\ Ordered(s)
    BY <2>5 DEF Sound, ghostVars
  <2>8. Tip(s)'
    <3>1. Len(s) > 0 => Len(s) \in 1..Len(s)
      BY <2>6
    <3>2. QED
      BY <1>3, <2>5, <2>6, <3>1 DEF Sound, Tip, ghostVars
  <2>9. Begun(s)'
    <3> SUFFICES ASSUME NEW j \in 1..Len(s)
                 PROVE  /\ s[j].no <= no'[s[j].by]
                        /\ wpc'[s[j].by] = "send" /\ s[j].no = no'[s[j].by] => s[j].i <= put'[s[j].by]
      BY DEF Begun
    <3>1. /\ s[j].no <= no[s[j].by]
          /\ wpc[s[j].by] = "send" /\ s[j].no = no[s[j].by] => s[j].i <= put[s[j].by]
      BY <2>5 DEF Sound, Begun
    <3>2. QED
      BY <1>3, <2>6, <3>1
  <2>10. InHand(s)'
    BY <1>3, <2>5 DEF Sound, InHand
  <2>11. Past(s)'
    <3>1. \A j \in 1..Len(seen) : seen[j][1] \in Threads /\ seen[j][2] \in Nat
      <4>1. \A j \in 1..Len(seen) : seen[j] \in Threads \X Nat
        BY <1>2, ElementOfSeq DEF TypeOK
      <4>2. QED
        BY <4>1
    <3>2. ASSUME NEW j \in 1..Len(seen)
          PROVE  LET x == seen[j][1]
                 IN seen[j][2] <= no'[x] /\ (wpc'[x] = "send" => seen[j][2] < no'[x])
      <4>1. LET x == seen[j][1]
            IN seen[j][2] <= no[x] /\ (wpc[x] = "send" => seen[j][2] < no[x])
        BY <2>5 DEF Sound, Past
      <4>2. QED
        BY <1>3, <3>1, <4>1
    <3>3. QED
      BY <2>5, <3>2 DEF Sound, Past
  <2>12. Sound(Stream)'
    BY <2>4, <2>7, <2>8, <2>9, <2>10, <2>11 DEF Sound, Tip, Begun, InHand, Past, Once, Rooted, Joined, Ordered
  <2>13. QED
    BY <2>2, <2>12
<1>7. QED
  BY <1>4, <1>5, <1>6 DEF SendingInv

(* What a send puts behind the stream. *)
LEMMA SendExtends ==
  ASSUME SendingInv, NEW t \in Threads, Sending(t), NEW k \in Nat \ {0},
         k <= Size - put[t], up' = up \o Units(t, k), UNCHANGED part
  PROVE  /\ Extends(Stream, Units(t, k), Stream', t, no[t], put[t])
         /\ Len(Units(t, k)) = k /\ up' \in Seq(Unit)
         /\ Len(up') = Len(up) + k
         /\ \A j \in 1..Len(up) : up'[j] = up[j]
         /\ LET u == up'[Len(up) + k]
            IN u.by = t /\ u.no = no[t] /\ u.i = put[t] + k
<1> DEFINE us == Units(t, k)
           s == Stream
           s2 == Stream'
<1>1. /\ wpc[t] = "send" /\ spc # "closed" /\ TypeOK /\ Sound(Stream)
      /\ put[t] \in Nat /\ no[t] \in Nat /\ Size \in Nat
  BY SizePositive DEF Sending, SendingInv, TypeOK
<1>2. us \in Seq(Unit) /\ Len(us) = k
  <2>1. \A j \in 1..k : [by |-> t, no |-> no[t], i |-> put[t] + j] \in Unit
    BY <1>1 DEF Unit
  <2>2. QED
    BY <2>1 DEF Units
<1>3. \A j \in 1..k : us[j].by = t /\ us[j].no = no[t] /\ us[j].i = put[t] + j
  BY DEF Units
<1>4. s \in Seq(Unit) /\ up \in Seq(Unit) /\ part \in Seq(Unit)
  BY <1>1, StreamType DEF TypeOK
<1> HIDE DEF us
<1>5. s2 = s \o us
  <2>1. (part \o up) \o us = part \o (up \o us)
    BY ONLY <1>2, <1>4, ConcatAssociative
  <2> QED
    BY <2>1 DEF us, Stream
<1> HIDE DEF s, s2
<1>6. /\ s2 \in Seq(Unit) /\ Len(s2) = Len(s) + k /\ Len(s) \in Nat
      /\ \A j \in 1..Len(s) : s2[j] = s[j]
      /\ \A j \in 1..Len(s2) : j > Len(s) => s2[j] = us[j - Len(s)] /\ j - Len(s) \in 1..k
  <2>1. s2 \in Seq(Unit) 
    BY <1>2, <1>4, <1>5, UnitsJoined
  <2>2. Len(s2) = Len(s) + Len(us) /\ Len(s) \in Nat
    BY <1>2, <1>4, <1>5, UnitsJoined
  <2>3. \A j \in 1..Len(s) : s2[j] = s[j]
    BY <1>2, <1>4, <1>5, UnitsJoined
  <2>4. \A j \in 1..Len(s2) : j > Len(s) => j - Len(s) \in 1..Len(us) /\ s2[j] = us[j - Len(s)]
    BY <1>2, <1>4, <1>5, UnitsJoined
  <2>5. QED
    BY <1>2, <2>1, <2>2, <2>3, <2>4
<1>7. /\ up' \in Seq(Unit) /\ Len(up') = Len(up) + k /\ Len(up) \in Nat
      /\ \A j \in 1..Len(up) : up'[j] = up[j]
      /\ up'[Len(up) + k] = us[k]
  <2>1. up' = up \o us
    BY DEF us
  <2>2. up' \in Seq(Unit)
    BY <1>2, <1>4, <2>1, UnitsJoined
  <2>3. Len(up') = Len(up) + Len(us) /\ Len(up) \in Nat
    BY <1>2, <1>4, <2>1, UnitsJoined
  <2>4. \A j \in 1..Len(up) : up'[j] = up[j]
    BY <1>2, <1>4, <2>1, UnitsJoined
  <2>5. \A j \in 1..Len(us) : up'[Len(up) + j] = us[j]
    BY <1>2, <1>4, <2>1, UnitsJoined
  <2>6. QED
    BY <1>2, <2>2, <2>3, <2>4, <2>5
<1>8. \A j \in 1..Len(s2) : j > Len(s) =>
        s2[j].by = t /\ s2[j].no = no[t] /\ s2[j].i = put[t] + (j - Len(s))
  BY <1>3, <1>6
<1>9. \A j \in 1..Len(s) : s[j].by = t => s[j].no <= no[t] /\ (s[j].no = no[t] => s[j].i <= put[t])
  BY <1>1 DEF Sound, Begun, s
<1>10. put[t] > 0 => \E j \in 1..Len(s) : s[j].by = t /\ s[j].no = no[t] /\ s[j].i = put[t]
  BY <1>1 DEF Sound, InHand, s
<1>11. Extends(s, us, s2, t, no[t], put[t])
  BY <1>1, <1>2, <1>4, <1>6, <1>8, <1>9, <1>10 DEF Extends
<1>12. k \in 1..k
  OBVIOUS
<1>13. QED
  BY <1>2, <1>3, <1>7, <1>11, <1>12 DEF us, s, s2

(* A send copies units; whoever is in the middle of a frame is mixed now. *)
LEMMA SendKeeps == ASSUME SendingInv, NEW t \in Threads, Send(t) PROVE SendingInv'
<1> DEFINE k == Smaller(Room, Size - put[t])
           us == Units(t, k)
           n == no[t]
           p == put[t]
<1>1. /\ wpc[t] = "send" /\ spc # "closed" /\ TypeOK /\ Sound(Stream) /\ Reading /\ Written
      /\ p \in Nat /\ n \in Nat /\ Size \in Nat /\ p < Size
  BY SizePositive DEF Send, Sending, SendingInv, TypeOK
<1>2. /\ up' = up \o Units(t, k) /\ put' = [put EXCEPT ![t] = @ + k]
      /\ UNCHANGED <<part, spc, seen, short>> /\ no' = no
      /\ mixed' = mixed \cup Open(t)
      /\ IF put'[t] = Size THEN Finish(t) ELSE UNCHANGED <<wpc, no, wrote>>
      /\ k > 0
  BY DEF Send, serverVars, Finish
<1>3. k \in Nat \ {0} /\ k <= Size - p
  <2>1. Room \in Int
    BY <1>1, SendingAssumption DEF Room, TypeOK
  <2>2. QED
    BY <1>1, <1>2, <2>1 DEF Smaller
<1> HIDE DEF k
<1>4. /\ put'[t] = p + k /\ \A x \in Threads : x # t => put'[x] = put[x] /\ wpc'[x] = wpc[x]
      /\ wpc'[t] = "send" => p + k < Size /\ wpc'[t] = wpc[t]
      /\ p + k < Size => wpc'[t] = "send"
      /\ put' \in [Threads -> 0..Size] /\ wpc' \in [Threads -> {"ready", "send", "stopped"}]
  <2>1. p + k \in 0..Size
    BY <1>1, <1>3
  <2>2. /\ put'[t] = p + k /\ \A x \in Threads : x # t => put'[x] = put[x]
        /\ put' \in [Threads -> 0..Size]
    BY <1>1, <1>2, <2>1 DEF TypeOK
  <2>3. wpc \in [Threads -> {"ready", "send", "stopped"}]
    BY <1>1 DEF TypeOK
  <2>4. CASE p + k = Size
    <3>1. wpc' = [wpc EXCEPT ![t] = "ready"]
      BY <1>2, <2>2, <2>4 DEF Finish
    <3>2. QED
      BY <1>1, <2>2, <2>3, <2>4, <3>1
  <2>5. CASE p + k # Size
    <3>1. wpc' = wpc
      BY <1>2, <2>2, <2>5
    <3>2. QED
      BY <1>1, <2>1, <2>2, <2>3, <2>5, <3>1
  <2>6. QED
    BY <2>4, <2>5
<1>5. PICK s : s = Stream /\ s \in Seq(Unit) /\ Sound(s)
  BY <1>1, StreamType
<1>6. PICK s2 : s2 = Stream'
  OBVIOUS
<1>7. /\ Extends(s, us, s2, t, n, p) /\ Len(us) = k
      /\ up' \in Seq(Unit) /\ Len(up') = Len(up) + k /\ Len(up) \in Nat
      /\ \A j \in 1..Len(up) : up'[j] = up[j]
      /\ LET u == up'[Len(up) + k] IN u.by = t /\ u.no = n /\ u.i = p + k
  <2>1. /\ Extends(Stream, Units(t, k), Stream', t, no[t], put[t])
        /\ Len(Units(t, k)) = k /\ up' \in Seq(Unit)
        /\ Len(up') = Len(up) + k
        /\ \A j \in 1..Len(up) : up'[j] = up[j]
        /\ LET u == up'[Len(up) + k]
           IN u.by = t /\ u.no = no[t] /\ u.i = put[t] + k
    BY <1>1, <1>2, <1>3, SendExtends DEF Sending
  <2>2. Len(up) \in Nat
    BY <1>1 DEF TypeOK
  <2>3. QED
    BY <1>5, <1>6, <2>1, <2>2
<1> HIDE DEF us, n, p
<1>8. /\ s2 \in Seq(Unit) /\ Len(s) \in Nat /\ Len(s2) \in Nat /\ Len(s2) = Len(s) + k
      /\ \A j \in 1..Len(s) : s2[j] = s[j] /\ s[j].by \in Threads /\ s[j].no \in Nat /\ s[j].i \in Nat
      /\ \A j \in 1..Len(s2) : j > Len(s) =>
           s2[j].by = t /\ s2[j].no = n /\ s2[j].i = p + (j - Len(s))
  BY <1>5, <1>7, StreamUnits DEF Extends
<1>9. TypeOK'
  BY <1>1, <1>2, <1>4, <1>7 DEF TypeOK, p
<1>10. TornOnlyWhenFull'
  BY <1>1, <1>2 DEF TornOnlyWhenFull
<1>11. Reading'
  BY <1>1, <1>2 DEF Reading
<1>12. Written'
  <2> SUFFICES ASSUME NEW f \in wrote', f \notin short
               PROVE  \/ \E j \in 1..Len(seen) : seen[j] = f
                      \/ \E j \in 1..Len(up') : FrameOf(up'[j]) = f /\ up'[j].i = Size
    BY <1>2 DEF Written
  <2>1. CASE f \in wrote
    BY <1>1, <1>3, <1>7, <2>1 DEF Written
  <2>2. CASE f \notin wrote
    <3>1. p + k = Size /\ f = <<t, n>>
      BY <1>2, <1>4, <2>2 DEF Finish, Current, n
    <3>2. Len(up) + k \in 1..Len(up')
      BY <1>3, <1>7
    <3>3. QED
      BY <1>7, <3>1, <3>2 DEF FrameOf
  <2>3. QED
    BY <2>1, <2>2
<1>13. Once(s2) /\ Rooted(s2) /\ Ordered(s2)
  BY <1>5, <1>7, ExtendsOnce, ExtendsRooted, ExtendsOrdered DEF Sound
<1>14. Joined(s2, mixed' \cup short')
  <2> DEFINE torn == mixed \cup short
             torn2 == mixed' \cup short'
  <2>1. torn \subseteq torn2 /\ Joined(s, torn)
    BY <1>2, <1>5 DEF Sound
  <2>2. LET u == s[Len(s)]
        IN Len(s) > 0 /\ u.i < Size /\ FrameOf(u) \notin torn2 =>
             u.by = t /\ u.no = n /\ u.i = p
    <3> DEFINE u == s[Len(s)]
    <3> SUFFICES ASSUME Len(s) > 0, u.i < Size, FrameOf(u) \notin torn2
                 PROVE  u.by = t /\ u.no = n /\ u.i = p
      OBVIOUS
    <3>1. /\ wpc[u.by] = "send" /\ no[u.by] = u.no /\ put[u.by] = u.i
      BY <1>5, <2>1 DEF Sound, Tip
    <3>2. u.by \in Threads /\ u.i > 0
      BY <1>5, <1>8, StreamUnits
    <3>3. u.by # t => FrameOf(u) \in Open(t)
      BY <3>1, <3>2 DEF Open, Current, FrameOf
    <3>4. QED
      BY <1>2, <3>1, <3>3 DEF n, p
  <2> HIDE DEF torn, torn2
  <2>3. Joined(s2, torn2)
    BY <1>7, <2>1, <2>2, ExtendsJoined
  <2>4. QED
    BY <2>3 DEF torn2
<1>15. Tip(s2)'
  <2>1. Len(s2) \in 1..Len(s2) /\ Len(s2) > Len(s)
    BY <1>3, <1>8
  <2>2. /\ s2[Len(s2)].by = t /\ s2[Len(s2)].no = n /\ s2[Len(s2)].i = p + k
    BY <1>3, <1>8, <2>1
  <2>3. QED
    BY <1>2, <1>4, <2>2 DEF Tip, n
<1>16. Begun(s2)'
  <2> SUFFICES ASSUME NEW j \in 1..Len(s2)
               PROVE  /\ s2[j].no <= no[s2[j].by]
                      /\ wpc'[s2[j].by] = "send" /\ s2[j].no = no[s2[j].by]
                           => s2[j].i <= put'[s2[j].by]
    BY <1>2 DEF Begun
  <2>1. CASE j \in 1..Len(s)
    <3>1. /\ s[j].no <= no[s[j].by]
          /\ wpc[s[j].by] = "send" /\ s[j].no = no[s[j].by] => s[j].i <= put[s[j].by]
      BY <1>5, <2>1 DEF Sound, Begun
    <3>2. s2[j] = s[j] /\ s[j].by \in Threads
      BY <1>8, <2>1
    <3>3. CASE s[j].by = t
      <4>1. s[j].no = no[t] /\ wpc'[t] = "send" => s[j].i <= p
        BY <1>4, <3>1, <3>3 DEF p
      <4>2. p \in Nat /\ s[j].i \in Nat
        BY <1>1, <1>8, <2>1
      <4>3. QED
        BY <1>3, <1>4, <3>1, <3>2, <3>3, <4>1, <4>2
    <3>4. CASE s[j].by # t
      BY <1>4, <3>1, <3>2, <3>4
    <3>5. QED
      BY <3>3, <3>4
  <2>2. CASE j > Len(s)
    <3>1. s2[j].by = t /\ s2[j].no = n /\ s2[j].i = p + (j - Len(s))
      BY <1>8, <2>2
    <3>2. j - Len(s) <= k
      BY <1>3, <1>8
    <3>3. QED
      BY <1>1, <1>3, <1>4, <1>8, <3>1, <3>2 DEF n
  <2>3. QED
    BY <1>8, <2>1, <2>2
<1>17. InHand(s2)'
  <2> SUFFICES ASSUME NEW x \in Threads, wpc'[x] = "send", put'[x] > 0
               PROVE  \E j \in 1..Len(s2) : s2[j].by = x /\ s2[j].no = no[x] /\ s2[j].i = put'[x]
    BY <1>2 DEF InHand
  <2>1. CASE x = t
    <3>1. Len(s2) \in 1..Len(s2) /\ Len(s2) > Len(s)
      BY <1>3, <1>8
    <3>2. /\ s2[Len(s2)].by = t /\ s2[Len(s2)].no = n /\ s2[Len(s2)].i = p + k
      BY <1>3, <1>8, <3>1
    <3>3. QED
      BY <1>4, <2>1, <3>1, <3>2 DEF n
  <2>2. CASE x # t
    <3>1. PICK j \in 1..Len(s) : s[j].by = x /\ s[j].no = no[x] /\ s[j].i = put[x]
      BY <1>4, <1>5, <2>2 DEF Sound, InHand
    <3>2. j \in 1..Len(s2) /\ s2[j] = s[j]
      BY <1>3, <1>8
    <3>3. QED
      BY <1>4, <2>2, <3>1, <3>2
  <2>3. QED
    BY <2>1, <2>2
<1>18. Past(s2)'
  <2>1. ASSUME NEW j \in 1..Len(seen), NEW x \in 1..Len(s2), seen[j][1] = s2[x].by
        PROVE  seen[j][2] < s2[x].no
    <3>1. CASE x \in 1..Len(s)
      BY <1>5, <1>8, <2>1, <3>1 DEF Sound, Past
    <3>2. CASE x > Len(s)
      <4>1. seen[j][1] = t /\ s2[x].no = n
        BY <1>8, <2>1, <3>2
      <4>2. seen[j][2] < no[t]
        BY <1>1, <1>5, <4>1 DEF Sound, Past
      <4>3. QED
        BY <4>1, <4>2 DEF n
    <3>3. QED
      BY <1>8, <3>1, <3>2
  <2>2. ASSUME NEW j \in 1..Len(seen)
        PROVE  LET x == seen[j][1]
               IN seen[j][2] <= no[x] /\ (wpc'[x] = "send" => seen[j][2] < no[x])
    <3>1. LET x == seen[j][1]
          IN seen[j][2] <= no[x] /\ (wpc[x] = "send" => seen[j][2] < no[x])
      BY <1>5 DEF Sound, Past
    <3>2. seen[j][1] \in Threads
      <4>1. seen[j] \in Threads \X Nat
        BY <1>1, ElementOfSeq DEF TypeOK
      <4>2. QED
        BY <4>1
    <3>3. QED
      BY <1>4, <3>1, <3>2
  <2>3. QED
    BY <1>2, <1>5, <2>1, <2>2 DEF Sound, Past
<1>19. Sound(Stream)'
  BY <1>6, <1>13, <1>14, <1>15, <1>16, <1>17, <1>18
     DEF Sound, Once, Rooted, Joined, Ordered, Tip, Begun, InHand, Past
<1>20. QED
  BY <1>9, <1>10, <1>11, <1>12, <1>19 DEF SendingInv

(* A signal ends a send: what it has copied counts as all of it. *)
LEMMA InterruptedKeeps == ASSUME SendingInv, NEW t \in Threads, Interrupted(t) PROVE SendingInv'
<1>1. /\ wpc[t] = "send" /\ spc # "closed" /\ TypeOK /\ Sound(Stream) /\ Reading /\ Written
      /\ UNCHANGED <<up, part, seen, spc, mixed, no, put>>
  BY DEF Interrupted, Sending, SendingInv, serverVars, Finish, Stop
<1>2. /\ \E w \in {"ready", "stopped"} : wpc' = [wpc EXCEPT ![t] = w]
      /\ wrote' = wrote \/ (wrote' = wrote \cup {Current(t)} /\ Current(t) \in short')
      /\ short \subseteq short'
      /\ put[t] > 0 => Current(t) \in short'
  BY DEF Interrupted, Finish, Stop
<1>3. /\ wpc'[t] # "send" /\ \A x \in Threads : x # t => wpc'[x] = wpc[x]
      /\ wpc' \in [Threads -> {"ready", "send", "stopped"}]
  BY <1>1, <1>2 DEF TypeOK
<1>4. TypeOK' /\ TornOnlyWhenFull' /\ Reading'
  <2>1. \A x \in Threads : wpc'[x] = "send" => put[x] < Size
    BY <1>1, <1>3 DEF TypeOK
  <2>2. QED
    BY <1>1, <1>3, <2>1 DEF TypeOK, TornOnlyWhenFull, Reading
<1>5. Written'
  BY <1>1, <1>2 DEF Written
<1>6. PICK s : s = Stream /\ s \in Seq(Unit) /\ Sound(s)
  BY <1>1, StreamType
<1>7. Stream' = s
  BY <1>1, <1>6 DEF Stream
<1>8. /\ Len(s) \in Nat
      /\ \A j \in 1..Len(s) : s[j].by \in Threads /\ s[j].no \in Nat /\ s[j].i \in 1..Size
  BY <1>6, StreamUnits
<1>9. Once(s) /\ Rooted(s) /\ Ordered(s) /\ Joined(s, mixed' \cup short')
  BY <1>1, <1>2, <1>6 DEF Sound, Joined
<1>10. Tip(s)'
  <2> DEFINE u == s[Len(s)]
  <2> SUFFICES ASSUME Len(s) > 0, u.i < Size, FrameOf(u) \notin mixed \cup short'
               PROVE  wpc'[u.by] = "send" /\ no[u.by] = u.no /\ put[u.by] = u.i
    BY <1>1 DEF Tip
  <2>1. wpc[u.by] = "send" /\ no[u.by] = u.no /\ put[u.by] = u.i
    BY <1>2, <1>6 DEF Sound, Tip
  <2>2. u.by \in Threads /\ u.i > 0
    BY <1>8
  <2>3. u.by # t
    BY <1>2, <2>1, <2>2 DEF Current, FrameOf
  <2>4. QED
    BY <1>3, <2>1, <2>2, <2>3
<1>11. Begun(s)' /\ InHand(s)'
  <2>1. UNCHANGED <<no, put>> /\ \A x \in Threads : wpc'[x] = "send" => wpc[x] = "send"
    BY ONLY <1>1, <1>3
  <2>2. \A j \in 1..Len(s) : s[j].by \in Threads
    BY ONLY <1>8
  <2>3. Begun(s) /\ InHand(s)
    BY ONLY <1>6 DEF Sound
  <2>4. Begun(s)'
    BY ONLY <2>1, <2>2, <2>3 DEF Begun
  <2>5. InHand(s)'
    BY ONLY <2>1, <2>3 DEF InHand
  <2> QED
    BY ONLY <2>4, <2>5
<1>12. Past(s)'
  <2>1. ASSUME NEW j \in 1..Len(seen)
        PROVE  LET x == seen[j][1]
               IN seen[j][2] <= no[x] /\ (wpc'[x] = "send" => seen[j][2] < no[x])
    <3>1. LET x == seen[j][1]
          IN seen[j][2] <= no[x] /\ (wpc[x] = "send" => seen[j][2] < no[x])
      BY <1>6 DEF Sound, Past
    <3>2. seen[j][1] \in Threads
      <4>1. seen[j] \in Threads \X Nat
        BY <1>1, ElementOfSeq DEF TypeOK
      <4>2. QED
        BY <4>1
    <3>3. QED
      BY <1>3, <3>1, <3>2
  <2>2. QED
    BY <1>1, <1>6, <2>1 DEF Sound, Past
<1>13. Sound(Stream)'
  BY <1>7, <1>9, <1>10, <1>11, <1>12
     DEF Sound, Once, Rooted, Joined, Ordered, Tip, Begun, InHand, Past
<1>14. QED
  BY <1>4, <1>5, <1>13 DEF SendingInv

LEMMA SendFailsKeeps == ASSUME SendingInv, NEW t \in Threads, SendFails(t) PROVE SendingInv'
<1>1. /\ spc = "closed" /\ wpc' = [wpc EXCEPT ![t] = "stopped"] /\ TypeOK /\ TornOnlyWhenFull
      /\ UNCHANGED <<up, part, seen, spc, mixed, short, no, put, wrote>>
  BY DEF SendFails, Stop, SendingInv, serverVars, ghostVars
<1>2. TypeOK' /\ TornOnlyWhenFull'
  <2>1. /\ wpc' \in [Threads -> {"ready", "send", "stopped"}]
        /\ \A x \in Threads : wpc'[x] = "send" => wpc[x] = "send"
    BY <1>1 DEF TypeOK
  <2>2. QED
    BY <1>1, <2>1 DEF TypeOK, TornOnlyWhenFull
<1>3. QED
  BY <1>1, <1>2 DEF SendingInv

(* The unit u that the server reads next, and the stream around it. *)
LEMMA ReadStream ==
  ASSUME TypeOK, up # <<>>
  PROVE  /\ Head(up) \in Unit /\ Head(up) = up[1] /\ Tail(up) \in Seq(Unit)
         /\ Len(up) = Len(Tail(up)) + 1 /\ Len(Tail(up)) \in Nat /\ Len(part) \in Nat
         /\ \A j \in 1..Len(Tail(up)) : Tail(up)[j] = up[j + 1]
         /\ Append(part, Head(up)) \in Seq(Unit) /\ Len(Append(part, Head(up))) = Len(part) + 1
         /\ \A j \in 1..Len(part) : Append(part, Head(up))[j] = part[j]
         /\ Append(part, Head(up))[Len(part) + 1] = Head(up)
         /\ Stream \in Seq(Unit) /\ Len(Stream) = Len(part) + Len(up)
         /\ \A j \in 1..Len(part) : Stream[j] = part[j]
         /\ Stream[Len(part) + 1] = Head(up)
         /\ Stream = Append(part, Head(up)) \o Tail(up)
<1> DEFINE u == Head(up)
           r == Tail(up)
           q == Append(part, u)
<1>1. up \in Seq(Unit) /\ part \in Seq(Unit)
  BY DEF TypeOK
<1>2. /\ u \in Unit /\ u = up[1] /\ r \in Seq(Unit) /\ Len(r) \in Nat /\ Len(part) \in Nat
      /\ Len(up) = Len(r) + 1
      /\ \A j \in 1..Len(r) : r[j] = up[j + 1]
  BY <1>1
<1> HIDE DEF u, r
<1>3. /\ q \in Seq(Unit) /\ Len(q) = Len(part) + 1
      /\ \A j \in 1..Len(part) : q[j] = part[j]
      /\ q[Len(part) + 1] = u
  BY <1>1, <1>2
<1>4. Stream \in Seq(Unit)
  BY <1>1, UnitsJoined DEF Stream
<1>5. Len(Stream) = Len(part) + Len(up)
  BY <1>1, UnitsJoined DEF Stream
<1>6. \A j \in 1..Len(part) : Stream[j] = part[j]
  BY <1>1, UnitsJoined DEF Stream
<1>7. \A j \in 1..Len(up) : Stream[Len(part) + j] = up[j]
  BY <1>1, UnitsJoined DEF Stream
<1>8. 1 \in 1..Len(up)
  BY <1>2
<1> HIDE DEF q
<1>9. PICK z : z = q \o r
  OBVIOUS
<1>10. z \in Seq(Unit)
  BY <1>2, <1>3, <1>9, UnitsJoined
<1>11. Len(z) = Len(q) + Len(r)
  BY <1>2, <1>3, <1>9, LengthsAdd, Zenon
<1>12. \A j \in 1..Len(q) : z[j] = q[j]
  BY <1>2, <1>3, <1>9, UnitsJoined
<1>13. \A j \in 1..Len(z) : j > Len(q) => j - Len(q) \in 1..Len(r) /\ z[j] = r[j - Len(q)]
  BY <1>2, <1>3, <1>9, UnitsJoined
<1>14. ASSUME NEW j \in 1..Len(Stream) PROVE Stream[j] = z[j]
  <2>1. CASE j <= Len(part)
    BY <1>2, <1>3, <1>5, <1>6, <1>12, <2>1
  <2>2. CASE j = Len(part) + 1
    BY <1>2, <1>3, <1>7, <1>8, <1>12, <2>2
  <2>3. CASE j > Len(part) + 1
    <3>1. /\ j - Len(q) \in 1..Len(r) /\ z[j] = r[j - Len(q)]
      BY <1>2, <1>3, <1>5, <1>11, <1>13, <2>3
    <3>2. r[j - Len(q)] = up[(j - Len(q)) + 1]
      BY <1>2, <3>1
    <3>3. (j - Len(q)) + 1 \in 1..Len(up) /\ Len(part) + ((j - Len(q)) + 1) = j
      BY <1>2, <1>3, <3>1
    <3>4. Stream[j] = up[(j - Len(q)) + 1]
      BY <1>7, <3>3
    <3>5. QED
      BY <3>1, <3>2, <3>4
  <2>4. QED
    BY <1>2, <1>5, <2>1, <2>2, <2>3
<1>15. Stream = z
  <2>1. Len(Stream) = Len(z)
    BY <1>2, <1>3, <1>5, <1>11
  <2>2. QED
    BY <1>4, <1>10, <1>14, <2>1, SeqEqual
<1>16. Stream[Len(part) + 1] = u
  BY <1>2, <1>7, <1>8
<1>17. QED
  BY <1>2, <1>3, <1>4, <1>5, <1>6, <1>9, <1>15, <1>16 DEF u, r, q

(* A unit that goes on with the frame has the next number of it. *)
LEMMA ContinuesNext ==
  ASSUME TypeOK, up # <<>>, Reading, Continues(Head(up))
  PROVE  /\ Head(up).i = Len(part) + 1
         /\ \A j \in 1..Len(part) : FrameOf(part[j]) = FrameOf(Head(up))
<1> DEFINE u == Head(up)
<1>1. part \in Seq(Unit) /\ Len(part) \in Nat /\ (part = <<>> <=> Len(part) = 0)
  BY DEF TypeOK
<1>2. CASE part = <<>>
  BY <1>1, <1>2 DEF Continues
<1>3. CASE part # <<>>
  <2> DEFINE w == part[Len(part)]
  <2>1. u = [w EXCEPT !.i = @ + 1] /\ Len(part) \in 1..Len(part) /\ w \in Unit
    BY <1>1, <1>3 DEF Continues
  <2>2. u.i = w.i + 1 /\ u.by = w.by /\ u.no = w.no
    BY <2>1 DEF Unit
  <2>3. w.i = Len(part) /\ FrameOf(w) = FrameOf(part[1])
    BY <2>1 DEF Reading
  <2>4. FrameOf(u) = FrameOf(part[1])
    BY <2>2, <2>3 DEF FrameOf
  <2>5. QED
    BY <2>2, <2>3, <2>4 DEF Reading
<1>4. QED
  BY <1>2, <1>3

(* A broken frame: it is one that was mixed or cut short. *)
LEMMA BrokenKeeps ==
  ASSUME SendingInv, spc = "read", up # <<>>, up' = Tail(up), ~Continues(Head(up)),
         spc' = "closed", UNCHANGED <<part, seen, threadVars, ghostVars>>
  PROVE  SendingInv'
<1> DEFINE u == Head(up)
           s == Stream
<1>1. TypeOK /\ Reading /\ Sound(s) /\ Len(part) \in Nat
  BY ReadStream DEF SendingInv
<1>2. /\ u \in Unit /\ Tail(up) \in Seq(Unit)
      /\ s[Len(part) + 1] = u /\ Len(s) \in Nat /\ Len(part) + 1 \in 1..Len(s)
      /\ \A j \in 1..Len(part) : s[j] = part[j]
  BY <1>1, ReadStream
<1> HIDE DEF s
<1>3. TypeOK'
  BY <1>1, <1>2 DEF TypeOK, threadVars
<1>4. part # <<>>
  <2>1. SUFFICES ASSUME part = <<>> PROVE FALSE
    OBVIOUS
  <2>2. s[1] = u /\ 1 \in 1..Len(s) /\ u.i # 1
    BY <1>2, <2>1 DEF Continues
  <2>3. u.i > 1
    BY <1>2, <2>2, UnitFields, SizePositive
  <2>4. \E k \in 1..(1 - 1) : Follows(s[1], s[k])
    BY <1>1, <2>2, <2>3 DEF Sound, Rooted
  <2>5. QED
    BY <2>4
<1>5. FrameOf(part[1]) \in mixed \cup short
  <2> DEFINE l == Len(part)
             w == part[l]
  <2>1. part \in Seq(Unit) /\ l \in 1..l /\ l \in Nat
    BY <1>1, <1>4 DEF TypeOK
  <2>2. w \in Unit /\ w.i = l /\ l < Size /\ FrameOf(w) = FrameOf(part[1]) /\ s[l] = w
    BY <1>1, <1>2, <2>1 DEF Reading
  <2>3. ~Follows(u, w)
    <3>1. SUFFICES ASSUME Follows(u, w) PROVE FALSE
      OBVIOUS
    <3>2. u = [w EXCEPT !.i = @ + 1]
      <4>1. /\ u = [by |-> u.by, no |-> u.no, i |-> u.i]
            /\ w = [by |-> w.by, no |-> w.no, i |-> w.i]
        BY <1>2, <2>2 DEF Unit
      <4>2. u.by = w.by /\ u.no = w.no /\ u.i = w.i + 1
        BY <3>1 DEF Follows
      <4>3. [w EXCEPT !.i = @ + 1] = [by |-> w.by, no |-> w.no, i |-> w.i + 1]
        BY <2>2 DEF Unit
      <4>4. QED
        BY <4>1, <4>2, <4>3
    <3>3. QED
      BY <1>4, <3>2 DEF Continues
  <2>4. l \in 1..(Len(s) - 1)
    BY <1>2, <2>1
  <2>5. Follows(s[l + 1], s[l]) \/ FrameOf(s[l]) \in mixed \cup short
    BY <1>1, <2>2, <2>4 DEF Sound, Joined
  <2>6. QED
    BY <1>2, <2>2, <2>3, <2>5
<1>6. TornOnlyWhenFull'
  BY <1>4, <1>5 DEF TornOnlyWhenFull, FrameOf, ghostVars
<1>7. QED
  BY <1>3, <1>6 DEF SendingInv

(* A unit in the middle of a frame. *)
LEMMA MiddleKeeps ==
  ASSUME SendingInv, spc = "read", up # <<>>, up' = Tail(up), Continues(Head(up)),
         Len(Append(part, Head(up))) < Size, part' = Append(part, Head(up)),
         UNCHANGED <<spc, seen, threadVars, ghostVars>>
  PROVE  SendingInv'
<1> DEFINE u == Head(up)
<1>1. TypeOK /\ Reading /\ Sound(Stream) /\ Written /\ Len(part) \in Nat
  BY ReadStream DEF SendingInv
<1>2. /\ u.i = Len(part) + 1
      /\ \A j \in 1..Len(part) : FrameOf(part[j]) = FrameOf(u)
  BY <1>1, ContinuesNext
<1>3. Stream' = Stream
  BY <1>1, ReadStream DEF Stream
<1>4. TypeOK'
  BY <1>1, ReadStream DEF TypeOK, threadVars
<1>5. Reading'
  <2>1. /\ Len(part') = Len(part) + 1 /\ part'[Len(part) + 1] = u
        /\ \A j \in 1..Len(part) : part'[j] = part[j]
    BY <1>1, ReadStream
  <2>2. \A j \in 1..Len(part') : part'[j].i = j /\ FrameOf(part'[j]) = FrameOf(u)
    BY <1>1, <1>2, <2>1 DEF Reading
  <2>3. 1 \in 1..Len(part')
    BY <1>1, <2>1
  <2>4. QED
    BY <2>2, <2>3 DEF Reading
<1>6. Written'
  <2> SUFFICES ASSUME NEW f \in wrote, f \notin short, ~\E j \in 1..Len(seen) : seen[j] = f
               PROVE  \E j \in 1..Len(up') : FrameOf(up'[j]) = f /\ up'[j].i = Size
    BY DEF Written, threadVars, ghostVars
  <2>1. PICK j \in 1..Len(up) : FrameOf(up[j]) = f /\ up[j].i = Size
    BY <1>1 DEF Written
  <2>2. j # 1
    BY <1>1, <1>2, <2>1, ReadStream, SizePositive
  <2>3. j - 1 \in 1..Len(up') /\ up'[j - 1] = up[j]
    <3>1. j - 1 \in 1..Len(Tail(up)) /\ (j - 1) + 1 = j
      BY <1>1, <2>2, ReadStream
    <3>2. Tail(up)[j - 1] = up[(j - 1) + 1]
      BY <1>1, <3>1, ReadStream
    <3>3. QED
      BY <3>1, <3>2
  <2>4. QED
    BY <2>1, <2>3
<1>7. Sound(Stream)'
  BY <1>1, <1>3 DEF Sound, Once, Rooted, Joined, Ordered, Tip, Begun, InHand, Past,
                    threadVars, ghostVars
<1>8. TornOnlyWhenFull'
  BY DEF TornOnlyWhenFull
<1>9. QED
  BY <1>4, <1>5, <1>6, <1>7, <1>8 DEF SendingInv

(* The last unit of a frame: the frame is read. *)
LEMMA ReadDrops ==
  ASSUME SendingInv, spc = "read", up # <<>>, Continues(Head(up)),
         ~(Len(Append(part, Head(up))) < Size)
  PROVE  Drops(Stream, FrameOf(Head(up)), Tail(up)) /\ Head(up).i = Size
<1> DEFINE u == Head(up)
           f == FrameOf(u)
           r == Tail(up)
           s == Stream
<1>1. TypeOK /\ Reading /\ Len(part) \in Nat /\ Size \in Nat
  BY ReadStream, SizePositive DEF SendingInv
<1>2. /\ u.i = Len(part) + 1
      /\ \A j \in 1..Len(part) : FrameOf(part[j]) = f
  BY <1>1, ContinuesNext
<1>3. /\ r \in Seq(Unit) /\ Len(r) \in Nat /\ Len(up) = Len(r) + 1
      /\ Len(Append(part, u)) = Len(part) + 1
      /\ s \in Seq(Unit) /\ Len(s) = Len(part) + Len(up)
      /\ \A j \in 1..Len(part) : s[j] = part[j]
      /\ s[Len(part) + 1] = u
  BY <1>1, ReadStream
<1>4. Len(part) + 1 = Size
  BY <1>1, <1>3 DEF Reading
<1>5. \A j \in 1..Size : s[j].i = j /\ FrameOf(s[j]) = f
  <2>1. ASSUME NEW j \in 1..Size PROVE s[j].i = j /\ FrameOf(s[j]) = f
    <3>1. CASE j = Size
      BY <1>2, <1>3, <1>4, <3>1
    <3>2. CASE j # Size
      <4>1. j \in 1..Len(part)
        BY <1>1, <1>4, <3>2
      <4>2. QED
        BY <1>2, <1>3, <4>1, <1>1 DEF Reading
    <3>3. QED
      BY <3>1, <3>2
  <2>2. QED
    BY <2>1
<1>6. \A j \in 1..Len(r) : r[j] = s[Size + j]
  <2> DEFINE q == Append(part, u)
  <2>1. q \in Seq(Unit) /\ Len(q) = Size /\ s = q \o r
    BY <1>1, <1>3, <1>4, ReadStream
  <2> HIDE DEF q, r, s
  <2>2. \A j \in 1..Len(r) : s[Len(q) + j] = r[j]
    BY <1>3, <2>1, UnitsJoined
  <2>3. QED
    BY <2>1, <2>2
<1>7. Len(s) = Size + Len(r)
  BY <1>1, <1>3, <1>4
<1> HIDE DEF u, f, r, s
<1>8. Drops(s, f, r) /\ u.i = Size
  BY <1>2, <1>3, <1>4, <1>5, <1>6, <1>7 DEF Drops
<1>9. QED
  BY <1>8 DEF u, f, r, s

LEMMA WholeKeeps ==
  ASSUME SendingInv, spc = "read", up # <<>>, up' = Tail(up), Continues(Head(up)),
         ~(Len(Append(part, Head(up))) < Size), part' = <<>>,
         seen' = Append(seen, <<Head(up).by, Head(up).no>>),
         spc' \in {"read", "echo"}, UNCHANGED <<threadVars, ghostVars>>
  PROVE  SendingInv'
<1> DEFINE u == Head(up)
           f == FrameOf(u)
<1>1. TypeOK /\ Sound(Stream) /\ Written
  BY DEF SendingInv
<1>2. PICK s : s = Stream /\ s \in Seq(Unit) /\ Sound(s)
  BY <1>1, StreamType
<1>3. PICK s2 : s2 = Tail(up)
  OBVIOUS
<1>4. Drops(s, f, s2) /\ u.i = Size
  BY <1>2, <1>3, ReadDrops
<1>5. /\ u \in Unit /\ f[1] = u.by /\ f[2] = u.no /\ f \in Threads \X Nat /\ u.by \in Threads
      /\ u.no \in Nat /\ s2 \in Seq(Unit) /\ u = up[1]
      /\ Len(s2) \in Nat /\ Len(up) = Len(s2) + 1 /\ \A j \in 1..Len(s2) : s2[j] = up[j + 1]
  <2>1. u \in Unit /\ u = up[1] /\ s2 \in Seq(Unit)
        /\ Len(s2) \in Nat /\ Len(up) = Len(s2) + 1 /\ \A j \in 1..Len(s2) : s2[j] = up[j + 1]
    BY <1>1, <1>3, ReadStream
  <2>2. QED
    BY <2>1, UnitFields DEF FrameOf
<1>6. Stream' = s2
  BY <1>3, <1>5, ConcatEmptySeq DEF Stream
<1>7. /\ Len(seen) \in Nat /\ Len(seen') = Len(seen) + 1 /\ seen' \in Seq(Threads \X Nat)
      /\ \A j \in 1..Len(seen) : seen'[j] = seen[j] /\ seen[j][1] \in Threads /\ seen[j][2] \in Nat
      /\ seen'[Len(seen) + 1] = f
  <2>1. seen \in Seq(Threads \X Nat) /\ seen' = Append(seen, f)
    BY <1>1 DEF TypeOK, FrameOf
  <2>2. \A j \in 1..Len(seen) : seen[j] \in Threads \X Nat
    BY <2>1, ElementOfSeq
  <2> HIDE DEF f
  <2>3. /\ Len(seen) \in Nat /\ Len(seen') = Len(seen) + 1 /\ seen' \in Seq(Threads \X Nat)
        /\ \A j \in 1..Len(seen) : seen'[j] = seen[j]
        /\ seen'[Len(seen) + 1] = f
    BY <1>5, <2>1
  <2>4. QED
    BY <2>2, <2>3
<1> HIDE DEF u, f
<1>8. /\ \A j \in 1..Size : j \in 1..Len(s) /\ s[j].i = j /\ FrameOf(s[j]) = f
      /\ 1 \in 1..Size /\ Size \in 1..Size
      /\ Size \in Nat /\ Len(s) \in Nat /\ Len(s) = Size + Len(s2)
      /\ \A j \in 1..Len(s2) : s2[j] = s[Size + j] /\ Size + j \in 1..Len(s)
      /\ \A j \in 1..Len(s) : j \in 1..Size \/ (j - Size \in 1..Len(s2) /\ s2[j - Size] = s[j])
  <2>1. /\ Size \in Nat /\ Size > 0 /\ 1 \in 1..Size /\ Size \in 1..Size
    BY SizePositive
  <2>2. \A j \in 1..Size : s[j].i = j /\ FrameOf(s[j]) = f
    BY <1>4 DEF Drops
  <2>3. \A j \in 1..Len(s2) : s2[j] = s[Size + j]
    BY <1>4 DEF Drops
  <2>4. Len(s) = Size + Len(s2)
    BY <1>4 DEF Drops
  <2>5. QED
    BY <1>4, <2>1, <2>2, <2>3, <2>4, DropsIndex
<1>9. s[1].by = f[1] /\ s[1].no = f[2] /\ s[Size].by = f[1] /\ s[Size].no = f[2] /\ s[Size].i = Size
  BY <1>8 DEF FrameOf
<1>10. TypeOK'
  BY <1>1, <1>3, <1>5, <1>7 DEF TypeOK, threadVars
<1>11. Reading'
  BY SizePositive DEF Reading
<1>12. Written'
  <2> SUFFICES ASSUME NEW g \in wrote, g \notin short
               PROVE  \/ \E j \in 1..Len(seen') : seen'[j] = g
                      \/ \E j \in 1..Len(up') : FrameOf(up'[j]) = g /\ up'[j].i = Size
    BY DEF Written, threadVars, ghostVars
  <2>1. CASE \E j \in 1..Len(seen) : seen[j] = g
    BY <1>7, <2>1
  <2>2. ASSUME NEW j \in 1..Len(up), FrameOf(up[j]) = g, up[j].i = Size
        PROVE  \/ \E k \in 1..Len(seen') : seen'[k] = g
               \/ \E k \in 1..Len(up') : FrameOf(up'[k]) = g /\ up'[k].i = Size
    <3>1. CASE j = 1
      <4>1. g = f
        BY <1>5, <2>2, <3>1 DEF f
      <4>2. QED
        BY <1>7, <4>1
    <3>2. CASE j # 1
      <4>1. j - 1 \in 1..Len(s2) /\ (j - 1) + 1 = j
        BY <1>5, <3>2
      <4>2. s2[j - 1] = up[(j - 1) + 1]
        BY <1>5, <4>1
      <4>3. QED
        BY <1>3, <2>2, <4>1, <4>2
    <3>3. QED
      BY <3>1, <3>2
  <2>3. QED
    BY <1>1, <2>1, <2>2 DEF Written
<1>13. Once(s2) /\ Ordered(s2) /\ Joined(s2, mixed \cup short) /\ Rooted(s2)
  <2>1. Once(s) /\ Ordered(s) /\ Joined(s, mixed \cup short) /\ Rooted(s)
    BY <1>2 DEF Sound
  <2>2. Once(s2) /\ Ordered(s2) /\ Joined(s2, mixed \cup short)
    BY <1>4, <2>1, DropsKeeps
  <2>3. Rooted(s2)
    BY <1>4, <2>1, DropsRooted
  <2>4. QED
    BY <2>2, <2>3
<1>14. Tip(s2)
  <2>1. ASSUME Len(s2) > 0 PROVE s2[Len(s2)] = s[Len(s)] /\ Len(s) > 0
    <3>1. Len(s2) \in 1..Len(s2)
      BY <1>5, <2>1
    <3>2. s2[Len(s2)] = s[Size + Len(s2)]
      BY <1>8, <3>1
    <3>3. QED
      BY <1>5, <1>8, <2>1, <3>2
  <2>2. QED
    BY <1>2, <2>1 DEF Sound, Tip
<1>15. Begun(s2)
  <2>1. Begun(s)
    BY <1>2 DEF Sound
  <2>2. ASSUME NEW j \in 1..Len(s2)
        PROVE  /\ s2[j].no <= no[s2[j].by]
               /\ wpc[s2[j].by] = "send" /\ s2[j].no = no[s2[j].by] => s2[j].i <= put[s2[j].by]
    <3>1. s2[j] = s[Size + j] /\ Size + j \in 1..Len(s)
      BY <1>8
    <3>2. QED
      BY <2>1, <3>1 DEF Begun
  <2>3. QED
    BY <2>2 DEF Begun
<1>16. f[2] <= no[f[1]] /\ (wpc[f[1]] = "send" => f[2] < no[f[1]])
  <2>1. /\ f[2] <= no[f[1]]
        /\ wpc[f[1]] = "send" /\ f[2] = no[f[1]] => Size <= put[f[1]]
    <3>1. Size \in 1..Len(s)
      BY <1>8
    <3>2. /\ s[Size].no <= no[s[Size].by]
          /\ wpc[s[Size].by] = "send" /\ s[Size].no = no[s[Size].by] => s[Size].i <= put[s[Size].by]
      BY <1>2, <3>1 DEF Sound, Begun
    <3>3. QED
      BY <1>9, <3>2
  <2>2. /\ f[1] \in Threads /\ f[2] \in Nat /\ no[f[1]] \in Nat /\ put[f[1]] \in 0..Size
        /\ wpc[f[1]] = "send" => put[f[1]] < Size
    BY <1>1, <1>5 DEF TypeOK
  <2>3. QED
    BY <1>8, <2>1, <2>2
<1>17. InHand(s2)
  <2> SUFFICES ASSUME NEW t \in Threads, wpc[t] = "send", put[t] > 0
               PROVE  \E j \in 1..Len(s2) : s2[j].by = t /\ s2[j].no = no[t] /\ s2[j].i = put[t]
    BY DEF InHand
  <2>1. PICK j \in 1..Len(s) : s[j].by = t /\ s[j].no = no[t] /\ s[j].i = put[t]
    BY <1>2 DEF Sound, InHand
  <2>2. j \notin 1..Size
    <3>1. SUFFICES ASSUME j \in 1..Size PROVE FALSE
      OBVIOUS
    <3>2. f[1] = t /\ f[2] = no[t]
      BY <1>8, <2>1, <3>1 DEF FrameOf
    <3>3. no[t] \in Nat
      BY <1>1 DEF TypeOK
    <3>4. QED
      BY <1>16, <3>2, <3>3
  <2>3. j - Size \in 1..Len(s2) /\ s2[j - Size] = s[j]
    BY <1>8, <2>2
  <2>4. QED
    BY <2>1, <2>3
<1>18. Past(s2)'
  <2>1. ASSUME NEW j \in 1..Len(seen'), NEW k \in 1..Len(s2), seen'[j][1] = s2[k].by
        PROVE  seen'[j][2] < s2[k].no
    <3>1. CASE j \in 1..Len(seen)
      <4>1. seen'[j] = seen[j] /\ Size + k \in 1..Len(s) /\ s2[k] = s[Size + k]
        BY <1>7, <1>8, <3>1
      <4>2. seen[j][2] < s[Size + k].no
        BY <1>2, <2>1, <3>1, <4>1 DEF Sound, Past
      <4>3. QED
        BY <4>1, <4>2
    <3>2. CASE j = Len(seen) + 1
      <4>1. Once(s) /\ Ordered(s) /\ s2[k].by = f[1] /\ seen'[j] = f
        BY <1>2, <1>7, <2>1, <3>2 DEF Sound
      <4>2. f[2] < s2[k].no
        BY <1>4, <4>1, DropsPast
      <4>3. QED
        BY <4>1, <4>2
    <3>3. QED
      BY <1>7, <3>1, <3>2
  <2>2. ASSUME NEW j \in 1..Len(seen')
        PROVE  LET t == seen'[j][1]
               IN seen'[j][2] <= no[t] /\ (wpc[t] = "send" => seen'[j][2] < no[t])
    <3>1. CASE j \in 1..Len(seen)
      BY <1>2, <1>7, <3>1 DEF Sound, Past
    <3>2. CASE j = Len(seen) + 1
      BY <1>7, <1>16, <3>2
    <3>3. QED
      BY <1>7, <3>1, <3>2
  <2>3. ASSUME NEW j \in 1..Len(seen'), NEW k \in 1..Len(seen'), j < k, seen'[j][1] = seen'[k][1]
        PROVE  seen'[j][2] < seen'[k][2]
    <3>1. CASE k \in 1..Len(seen)
      <4>1. j \in 1..Len(seen)
        BY <1>7, <2>3, <3>1
      <4>2. QED
        BY <1>2, <1>7, <2>3, <3>1, <4>1 DEF Sound, Past
    <3>2. CASE k = Len(seen) + 1
      <4>1. j \in 1..Len(seen) /\ seen'[k] = f /\ seen'[j] = seen[j]
        BY <1>7, <2>3, <3>2
      <4>2. seen[j][1] = s[1].by /\ 1 \in 1..Len(s)
        BY <1>8, <1>9, <2>3, <4>1
      <4>3. seen[j][2] < s[1].no
        BY <1>2, <4>1, <4>2 DEF Sound, Past
      <4>4. QED
        BY <1>9, <4>1, <4>3
    <3>3. QED
      BY <1>7, <3>1, <3>2
  <2>4. QED
    BY <2>1, <2>2, <2>3 DEF Past, threadVars
<1>19. Sound(Stream)'
  BY Zenon, <1>6, <1>13, <1>14, <1>15, <1>17, <1>18
     DEF Sound, Once, Rooted, Joined, Ordered, Tip, Begun, InHand, Past, threadVars, ghostVars
<1>20. TornOnlyWhenFull'
  BY DEF TornOnlyWhenFull
<1>21. QED
  BY <1>10, <1>11, <1>12, <1>19, <1>20 DEF SendingInv

LEMMA SendingNextInv == SendingInv /\ [Next]_vars => SendingInv'
<1> SUFFICES ASSUME SendingInv, [Next]_vars PROVE SendingInv'
  OBVIOUS
<1>1. CASE WriteLine
  BY <1>1, BeginKeeps DEF WriteLine, serverVars, Threads
<1>2. CASE OnMsg
  <2>1. CASE Head(down) = "ping"
    BY <1>2, <2>1, BeginKeeps DEF OnMsg, serverVars, Threads
  <2>2. CASE Head(down) # "ping"
    BY <1>2, <2>2, QuietKeeps DEF OnMsg, serverVars, SendingInv, TypeOK
  <2>3. QED
    BY <2>1, <2>2
<1>3. ASSUME NEW t \in Threads, Writer(t) \/ Interrupted(t) PROVE SendingInv'
  BY <1>3, SendKeeps, SendFailsKeeps, InterruptedKeeps DEF Writer
<1>4. CASE ServerRead
  <2>1. /\ spc = "read" /\ up # <<>> /\ up' = Tail(up) /\ UNCHANGED <<threadVars, ghostVars>>
    BY <1>4 DEF ServerRead
  <2>2. CASE ~Continues(Head(up))
    <3>1. spc' = "closed" /\ UNCHANGED <<part, seen>>
      BY <1>4, <2>2 DEF ServerRead
    <3>2. QED
      BY <2>1, <2>2, <3>1, BrokenKeeps
  <2>3. CASE Continues(Head(up)) /\ Len(Append(part, Head(up))) < Size
    <3>1. part' = Append(part, Head(up)) /\ UNCHANGED <<spc, seen>>
      BY <1>4, <2>3 DEF ServerRead
    <3>2. QED
      BY <2>1, <2>3, <3>1, MiddleKeeps
  <2>4. CASE Continues(Head(up)) /\ ~(Len(Append(part, Head(up))) < Size)
    <3>1. /\ part' = <<>> /\ seen' = Append(seen, <<Head(up).by, Head(up).no>>)
          /\ spc' \in {"read", "echo"}
      BY <1>4, <2>4 DEF ServerRead
    <3>2. QED
      BY <2>1, <2>4, <3>1, WholeKeeps
  <2>5. QED
    BY <2>2, <2>3, <2>4
<1>5. CASE ServerEcho \/ ServerPing
  <2>1. UNCHANGED <<up, part, threadVars, seen, ghostVars>>
    BY <1>5 DEF ServerEcho, ServerPing
  <2>2. spc' \in {"read", "echo", "closed"} /\ (spc' = "closed" <=> spc = "closed")
    BY <1>5 DEF ServerEcho, ServerPing, SendingInv, TypeOK
  <2>3. QED
    BY <2>1, <2>2, QuietKeeps
<1>6. CASE UNCHANGED vars
  BY <1>6, QuietKeeps DEF vars, serverVars, SendingInv, TypeOK
<1>7. QED
  BY <1>1, <1>2, <1>3, <1>4, <1>5, <1>6 DEF Next, Server

LEMMA SendingInvariance == Spec => []SendingInv
  BY SendingInitInv, SendingNextInv, PTL DEF Spec

(* Without any lock around the writes the server meets a broken frame only   *)
(* where another send copied into it or a signal cut it short, for every     *)
(* frame size and every size of the buffers.                                 *)
THEOREM TornCorrect == Spec => []TornOnlyWhenFull
  BY SendingInvariance, PTL DEF SendingInv

(* A frame for which ws_client_write returned true is read once, and in the  *)
(* order its thread wrote it, or is on its way, or was cut short.            *)
THEOREM WrittenCorrect == Spec => []WrittenArrives
<1>1. ASSUME SendingInv PROVE WrittenArrives
  <2> SUFFICES ASSUME spc # "closed"
               PROVE  /\ \A i, j \in 1..Len(seen) :
                           i < j /\ seen[i][1] = seen[j][1] => seen[i][2] < seen[j][2]
                      /\ \A f \in wrote :
                           (\E i \in 1..Len(seen) : seen[i] = f) \/ OnItsWay(f) \/ f \in short
    BY DEF WrittenArrives
  <2>1. Past(Stream) /\ Written
    BY <1>1 DEF SendingInv, Sound
  <2>2. ASSUME NEW f \in wrote, NEW j \in 1..Len(up), FrameOf(up[j]) = f PROVE OnItsWay(f)
    BY <2>2 DEF OnItsWay, FrameOf
  <2>3. QED
    BY <2>1, <2>2 DEF Past, Written
<1>2. QED
  BY <1>1, SendingInvariance, PTL

============================================================================
