-------------------------- MODULE OwnershipProofs --------------------------
(***************************************************************************)
(* Proofs about module Ownership, for any number of frames and writes: no  *)
(* object is used or freed after it was freed, and what is never given     *)
(* back is bounded call by call.                                           *)
(*                                                                         *)
(* The argument is a book of the heap.  Accounts says of a heap h, after c *)
(* frames and w writes, who owns each object in it: the client, the frame  *)
(* queue, whose frames have the numbers Q, the one message M there is, or  *)
(* nobody.  It speaks of sets only; every step is first reduced to what it *)
(* does to these sets and then shown to keep the book.                     *)
(***************************************************************************)
EXTENDS Ownership, SequenceTheorems, TLAPS

Ids(fs) == {fs[i].id : i \in 1..Len(fs)}
Numbers == Ids(frame_queue)
Messages == ToSet(msg_queue) \cup ToSet(msg)

(* What message m owns is in heap h, and no queued frame owns it too. *)
Owns(m, h, c, Q) ==
  /\ m.id \in 1..c /\ Msg(m.id) \in h
  /\ \/ m.body = <<>>
     \/ m.body = <<Payload(m.id)>> /\ Payload(m.id) \in h /\ m.id \notin Q
     \/ m.body = <<MsgBody(m.id)>> /\ MsgBody(m.id) \in h

Accounts(h, c, w, p, Q, M) ==
  /\ p = "set" => Client \in h /\ Reader \in h
  /\ \A n \in Q : n \in 1..c /\ Frame(n) \in h /\ Payload(n) \in h
  /\ \A m \in M : Owns(m, h, c, Q)
  /\ \A o \in h :
       \/ o = Client \/ o = Reader
       \/ \E n \in 1..w : o = Copy(n)
       \/ \E n \in 1..c : \/ o = Frame(n) \/ o = Buffer(n) \/ o = Payload(n)
                          \/ o = Msg(n) \/ o = MsgBody(n)
  /\ \A n \in 1..c :
       /\ Msg(n) \in h => \E m \in M : m.id = n
       /\ MsgBody(n) \in h => \E m \in M : m.id = n /\ m.body = <<MsgBody(n)>>
       /\ Frame(n) \in h /\ Payload(n) \in h =>
            \/ n \in Q \/ p = "null"
            \/ \E m \in M : m.id = n /\ m.body = <<Payload(n)>>

Distinct(fs) == \A i, j \in 1..Len(fs) : fs[i].id = fs[j].id => i = j

QueuedFrame == [id : Nat, opcode : Opcodes]

Queue == frame_queue \in Seq(QueuedFrame) /\ Distinct(frame_queue)

(* Where the one message can be: it leaves the queue at once, and the loop   *)
(* frees it before it comes back to the reader.                              *)
Slot(q) == q = <<>> \/ q = <<q[1]>>

Place ==
  /\ pc \in {"out", "loop", "next", "msg", "check", "leave"}
  /\ Slot(msg_queue) /\ Slot(msg)
  /\ msg_queue # <<>> => pc = "next"
  /\ msg # <<>> => pc \in {"msg", "check", "leave"}
  /\ pc = "msg" => msg # <<>>

(* When the client may be gone. *)
Gone ==
  /\ ptr \in {"set", "null"}
  /\ pc \in {"loop", "next", "msg"} => ptr = "set"
  /\ pc = "check" /\ ptr = "null" => freeing = "callback"
  /\ pc = "leave" /\ msg # <<>> /\ ptr = "null" => Held.type # "close"
  /\ fault = NoFault \/ (fault = "null" /\ freeing = "callback")

Book ==
  /\ calls \in Nat /\ writes \in Nat
  /\ Accounts(heap, calls, writes, ptr, Numbers, Messages)

OwnershipInv == Queue /\ Place /\ Gone /\ Book

----------------------------------------------------------------------------
(* Objects and lists of objects *)

(* Objects of different kinds or numbers differ. *)
LEMMA ObjectsDiffer ==
  /\ \A n, k : /\ Frame(n) = Frame(k) <=> n = k
               /\ Buffer(n) = Buffer(k) <=> n = k
               /\ Payload(n) = Payload(k) <=> n = k
               /\ Msg(n) = Msg(k) <=> n = k
               /\ MsgBody(n) = MsgBody(k) <=> n = k
               /\ Copy(n) = Copy(k) <=> n = k
  /\ \A n, k : /\ Frame(n) # Buffer(k) /\ Frame(n) # Payload(k) /\ Frame(n) # Msg(k)
               /\ Frame(n) # MsgBody(k) /\ Frame(n) # Copy(k)
               /\ Buffer(n) # Payload(k) /\ Buffer(n) # Msg(k) /\ Buffer(n) # MsgBody(k)
               /\ Buffer(n) # Copy(k) /\ Payload(n) # Msg(k) /\ Payload(n) # MsgBody(k)
               /\ Payload(n) # Copy(k) /\ Msg(n) # MsgBody(k) /\ Msg(n) # Copy(k)
               /\ MsgBody(n) # Copy(k)
  /\ \A n : /\ Client # Frame(n) /\ Client # Buffer(n) /\ Client # Payload(n)
            /\ Client # Msg(n) /\ Client # MsgBody(n) /\ Client # Copy(n)
            /\ Reader # Frame(n) /\ Reader # Buffer(n) /\ Reader # Payload(n)
            /\ Reader # Msg(n) /\ Reader # MsgBody(n) /\ Reader # Copy(n)
  /\ \A n, k : <<"out", n>> # Frame(k) /\ <<"out", n>> # Buffer(k) /\ <<"out", n>> # Payload(k)
               /\ <<"out", n>> # Msg(k) /\ <<"out", n>> # MsgBody(k) /\ <<"out", n>> # Copy(k)
               /\ <<"out", n>> # Client /\ <<"out", n>> # Reader
  /\ Client # Reader
  BY DEF Frame, Buffer, Payload, Msg, MsgBody, Copy, Client, Reader

(* What a short list frees. *)
LEMMA ShortLists ==
  /\ ToSet(<<>>) = {} /\ IsInjective(<<>>)
  /\ \A a : ToSet(<<a>>) = {a} /\ IsInjective(<<a>>)
  /\ \A a, b : ToSet(<<a, b>>) = {a, b} /\ (a # b => IsInjective(<<a, b>>))
  /\ \A a, b, c : ToSet(<<a, b, c>>) = {a, b, c}
                  /\ (a # b /\ a # c /\ b # c => IsInjective(<<a, b, c>>))
  /\ \A a, b, c, d : ToSet(<<a, b, c, d>>) = {a, b, c, d}
                     /\ (a # b /\ a # c /\ a # d /\ b # c /\ b # d /\ c # d
                         => IsInjective(<<a, b, c, d>>))
  BY DEF ToSet, IsInjective

(* The list of the first k of some queued frames. *)
LEMMA FramesFreed ==
  ASSUME NEW fs \in Seq(QueuedFrame), Distinct(fs)
  PROVE  /\ Frames(fs) \in Seq({Frame(n) : n \in Nat})
         /\ ToSet(Frames(fs)) = {Frame(n) : n \in Ids(fs)}
         /\ IsInjective(Frames(fs))
         /\ Copied(fs) \subseteq {Frame(n) : n \in Ids(fs)} \cup {Payload(n) : n \in Ids(fs)}
<1>1. \A i \in 1..Len(fs) : fs[i].id \in Nat
  <2>1. \A i \in 1..Len(fs) : fs[i] \in QueuedFrame
    BY ElementOfSeq, Zenon
  <2>2. QED
    BY <2>1 DEF QueuedFrame
<1>2. /\ Frames(fs) = [i \in 1..Len(fs) |-> Frame(fs[i].id)]
      /\ DOMAIN Frames(fs) = 1..Len(fs)
      /\ \A i \in 1..Len(fs) : Frames(fs)[i] = Frame(fs[i].id)
  BY DEF Frames
<1>3. Frames(fs) \in Seq({Frame(n) : n \in Nat})
  BY <1>1, Len(fs) \in Nat DEF Frames
<1>4. /\ \A i \in 1..Len(fs) : fs[i].id \in Ids(fs)
      /\ \A n \in Ids(fs) : \E i \in 1..Len(fs) : n = fs[i].id
  BY DEF Ids
<1>5. ToSet(Frames(fs)) = {Frame(n) : n \in Ids(fs)}
  <2> DEFINE F == Frames(fs)
  <2>1. DOMAIN F = 1..Len(fs) /\ \A i \in 1..Len(fs) : F[i] = Frame(fs[i].id)
    BY <1>2
  <2> HIDE DEF F
  <2>2. ASSUME NEW i \in DOMAIN F PROVE F[i] \in {Frame(n) : n \in Ids(fs)}
    BY <2>1, <1>4
  <2>3. ASSUME NEW n \in Ids(fs) PROVE Frame(n) \in {F[i] : i \in DOMAIN F}
    BY <2>1, <1>4
  <2>4. {F[i] : i \in DOMAIN F} = {Frame(n) : n \in Ids(fs)}
    BY <2>2, <2>3
  <2>5. QED
    BY <2>4 DEF ToSet, F
<1>6. IsInjective(Frames(fs))
  BY <1>2, ObjectsDiffer DEF IsInjective, Distinct
<1>7. {Payload(fs[i].id) : i \in 1..Len(fs)} \subseteq {Payload(n) : n \in Ids(fs)}
  BY <1>4
<1>8. QED
  BY <1>3, <1>5, <1>6, <1>7 DEF Copied

(* The queue with one more frame, and its two parts around the k-th. *)
LEMMA QueueAppended ==
  ASSUME NEW fs \in Seq(QueuedFrame), Distinct(fs), NEW f \in QueuedFrame, f.id \notin Ids(fs)
  PROVE  /\ Append(fs, f) \in Seq(QueuedFrame) /\ Distinct(Append(fs, f))
         /\ Ids(Append(fs, f)) = Ids(fs) \cup {f.id}
         /\ Len(Append(fs, f)) \in Nat \ {0}
<1> DEFINE gs == Append(fs, f)
<1>1. /\ gs \in Seq(QueuedFrame) /\ Len(gs) = Len(fs) + 1 /\ Len(fs) \in Nat
      /\ \A i \in 1..Len(fs) : gs[i] = fs[i]
      /\ gs[Len(fs) + 1] = f
  OBVIOUS
<1> HIDE DEF gs
<1>2. /\ \A i \in 1..Len(fs) : i \in 1..Len(gs) /\ fs[i].id \in Ids(fs)
      /\ \A i \in 1..Len(gs) : i \in 1..Len(fs) \/ i = Len(fs) + 1
      /\ Len(fs) + 1 \in 1..Len(gs)
  BY <1>1 DEF Ids
<1>3. Distinct(gs)
  BY <1>1, <1>2 DEF Distinct
<1>4. Ids(gs) = Ids(fs) \cup {f.id}
  <2>1. \A i \in 1..Len(gs) : gs[i].id \in Ids(fs) \cup {f.id}
    BY <1>1, <1>2
  <2>2. \A i \in 1..Len(fs) : fs[i].id \in Ids(gs)
    BY <1>1, <1>2 DEF Ids
  <2>3. f.id \in Ids(gs)
    BY <1>1, <1>2 DEF Ids
  <2>4. QED
    BY <2>1, <2>2, <2>3 DEF Ids
<1>5. QED
  BY <1>1, <1>3, <1>4 DEF gs

LEMMA QueueSplit ==
  ASSUME NEW fs \in Seq(QueuedFrame), Distinct(fs), NEW k \in 1..Len(fs)
  PROVE  /\ SubSeq(fs, 1, k) \in Seq(QueuedFrame) /\ Distinct(SubSeq(fs, 1, k))
         /\ Popped(fs, k) \in Seq(QueuedFrame) /\ Distinct(Popped(fs, k))
         /\ Ids(SubSeq(fs, 1, k)) \subseteq Ids(fs)
         /\ Ids(Popped(fs, k)) = Ids(fs) \ Ids(SubSeq(fs, 1, k))
<1> DEFINE a == SubSeq(fs, 1, k)
           b == Popped(fs, k)
<1>1. /\ a \in Seq(QueuedFrame) /\ Len(a) = k /\ \A i \in 1..k : a[i] = fs[i]
      /\ k \in Nat /\ Len(fs) \in Nat
  OBVIOUS
<1>2. /\ b \in Seq(QueuedFrame) /\ Len(b) = Len(fs) - k
      /\ \A i \in 1..(Len(fs) - k) : b[i] = fs[k + i]
  BY <1>1 DEF Popped
<1> HIDE DEF a, b
<1>3. Distinct(a)
  BY <1>1 DEF Distinct
<1>4. Distinct(b)
  <2>1. ASSUME NEW i \in 1..Len(b), NEW j \in 1..Len(b), b[i].id = b[j].id PROVE i = j
    <3>1. /\ k + i \in 1..Len(fs) /\ k + j \in 1..Len(fs)
          /\ fs[k + i].id = fs[k + j].id
      BY <1>1, <1>2, <2>1
    <3>2. k + i = k + j
      BY <3>1 DEF Distinct
    <3>3. QED
      BY <3>2, <1>1, <1>2
  <2>2. QED
    BY <2>1 DEF Distinct
<1>5. ASSUME NEW x \in Ids(a) PROVE x \in Ids(fs)
  BY <1>1, <1>5 DEF Ids
<1>6. ASSUME NEW x \in Ids(b) PROVE x \in Ids(fs) /\ x \notin Ids(a)
  <2>1. PICK i \in 1..Len(b) : x = b[i].id
    BY <1>6 DEF Ids
  <2>2. k + i \in 1..Len(fs) /\ x = fs[k + i].id
    BY <1>1, <1>2, <2>1
  <2>3. ASSUME NEW j \in 1..k PROVE a[j].id # x
    <3>1. j \in 1..Len(fs) /\ j # k + i /\ a[j] = fs[j]
      BY <1>1, <1>2
    <3>2. QED
      BY <3>1, <2>2 DEF Distinct
  <2>4. QED
    BY <1>1, <2>2, <2>3 DEF Ids
<1>7. ASSUME NEW x \in Ids(fs), x \notin Ids(a) PROVE x \in Ids(b)
  <2>1. PICK i \in 1..Len(fs) : x = fs[i].id
    BY <1>7 DEF Ids
  <2>2. i > k
    BY <1>1, <1>7, <2>1 DEF Ids
  <2>3. i - k \in 1..Len(b) /\ b[i - k] = fs[i]
    BY <1>1, <1>2, <2>2
  <2>4. QED
    BY <2>1, <2>3 DEF Ids
<1>8. QED
  BY <1>1, <1>2, <1>3, <1>4, <1>5, <1>6, <1>7 DEF a, b

LEMMA AppendFirst == \A x : Append(<<>>, x) = <<x>>
  OBVIOUS

(* Lists with nothing in common, one behind the other. *)
LEMMA ListsJoined ==
  ASSUME NEW S, NEW s \in Seq(S), NEW t \in Seq(S),
         IsInjective(s), IsInjective(t), ToSet(s) \cap ToSet(t) = {}
  PROVE  ToSet(s \o t) = ToSet(s) \cup ToSet(t) /\ IsInjective(s \o t)
<1>1. /\ s \o t \in Seq(S) /\ Len(s \o t) = Len(s) + Len(t)
      /\ DOMAIN s = 1..Len(s) /\ DOMAIN t = 1..Len(t) /\ DOMAIN (s \o t) = 1..(Len(s) + Len(t))
      /\ Len(s) \in Nat /\ Len(t) \in Nat
  OBVIOUS
<1>2. \A i \in 1..Len(s) : (s \o t)[i] = s[i] /\ s[i] \in ToSet(s)
  BY <1>1 DEF ToSet
<1>3. \A i \in 1..(Len(s) + Len(t)) : i > Len(s) =>
        /\ (s \o t)[i] = t[i - Len(s)]
        /\ i - Len(s) \in 1..Len(t)
        /\ t[i - Len(s)] \in ToSet(t)
  BY <1>1 DEF ToSet
<1>4. \A j \in 1..Len(t) : t[j] = (s \o t)[Len(s) + j]
  BY <1>1
<1>5. ToSet(s \o t) = ToSet(s) \cup ToSet(t)
  <2>1. ASSUME NEW x \in ToSet(s \o t) PROVE x \in ToSet(s) \cup ToSet(t)
    <3>1. PICK i \in 1..(Len(s) + Len(t)) : x = (s \o t)[i]
      BY <1>1 DEF ToSet
    <3>2. QED
      BY <3>1, <1>1, <1>2, <1>3
  <2>2. ASSUME NEW x \in ToSet(s) PROVE x \in ToSet(s \o t)
    <3>1. PICK i \in 1..Len(s) : x = s[i]
      BY <1>1 DEF ToSet
    <3>2. i \in 1..(Len(s) + Len(t)) /\ x = (s \o t)[i]
      BY <3>1, <1>1, <1>2
    <3>3. QED
      BY <3>2, <1>1 DEF ToSet
  <2>3. ASSUME NEW x \in ToSet(t) PROVE x \in ToSet(s \o t)
    <3>1. PICK j \in 1..Len(t) : x = t[j]
      BY <1>1 DEF ToSet
    <3>2. Len(s) + j \in 1..(Len(s) + Len(t)) /\ x = (s \o t)[Len(s) + j]
      BY <3>1, <1>1, <1>4
    <3>3. QED
      BY <3>2, <1>1 DEF ToSet
  <2>4. QED
    BY <2>1, <2>2, <2>3
<1>6. ASSUME NEW a \in 1..(Len(s) + Len(t)), NEW b \in 1..(Len(s) + Len(t)),
             (s \o t)[a] = (s \o t)[b]
      PROVE  a = b
  <2>1. CASE a <= Len(s) /\ b <= Len(s)
    BY <2>1, <1>1, <1>2, <1>6 DEF IsInjective
  <2>2. CASE a > Len(s) /\ b > Len(s)
    <3>1. a - Len(s) = b - Len(s)
      BY <2>2, <1>1, <1>3, <1>6 DEF IsInjective
    <3>2. QED
      BY <3>1, <1>1
  <2>3. CASE (a <= Len(s) /\ b > Len(s)) \/ (a > Len(s) /\ b <= Len(s))
    BY <2>3, <1>1, <1>2, <1>3, <1>6
  <2>4. QED
    BY <2>1, <2>2, <2>3, <1>1
<1>7. QED
  BY <1>1, <1>5, <1>6 DEF IsInjective

(* What is freed after ws_frame_free has freed nothing. *)
LEMMA FrameFreed ==
  ASSUME NEW a, NEW b, a # b, NEW payload
  PROVE  /\ ToSet(<<a>> \o ws_frame_free(payload) \o <<b>>) = {a, b}
         /\ IsInjective(<<a>> \o ws_frame_free(payload) \o <<b>>)
         /\ ws_frame_free(payload) \o <<b>> = <<b>>
         /\ <<b>> \o ws_frame_free(payload) = <<b>>
<1>1. <<a>> \in Seq({a, b}) /\ <<b>> \in Seq({a, b})
  OBVIOUS
<1>2. <<a>> \o <<>> = <<a>> /\ <<>> \o <<b>> = <<b>> /\ <<b>> \o <<>> = <<b>>
  BY <1>1, ConcatEmptySeq
<1>3. ToSet(<<a>> \o <<b>>) = {a, b} /\ IsInjective(<<a>> \o <<b>>)
  <2> DEFINE s == <<a>>
             t == <<b>>
             S == {a, b}
  <2>1. /\ ToSet(s) = {a} /\ ToSet(t) = {b} /\ IsInjective(s) /\ IsInjective(t)
        /\ s \in Seq(S) /\ t \in Seq(S)
    BY <1>1, ShortLists
  <2> HIDE DEF s, t, S
  <2>2. ToSet(s \o t) = {a, b} /\ IsInjective(s \o t)
    BY <2>1, ListsJoined
  <2>3. QED
    BY <2>2 DEF s, t
<1>4. QED
  BY <1>2, <1>3 DEF ws_frame_free

(* An operation that uses and frees only what there is, once. *)
LEMMA MemoryUsed ==
  ASSUME NEW new, NEW used, NEW freed, Memory(new, used, freed),
         used \subseteq heap \cup new, ToSet(freed) \subseteq heap \cup new,
         IsInjective(freed)
  PROVE  heap' = (heap \cup new) \ ToSet(freed) /\ fault' = fault
  BY DEF Memory

----------------------------------------------------------------------------
(* Keeping the book *)

(* A call of ws_reader_handle with number d: it allocates at most its own    *)
(* five objects and frees, apart from these, only the structures of frames   *)
(* that leave the queue; what it leaves has the owners of the book.          *)
LEMMA CallBooked ==
  ASSUME NEW h, NEW c \in Nat, NEW w \in Nat, NEW p, NEW Q, NEW h2, NEW Q2, NEW M2, NEW d,
         d = c + 1,
         Accounts(h, c, w, p, Q, {}),
         h2 \subseteq h \cup {Frame(d), Buffer(d), Payload(d), Msg(d), MsgBody(d)},
         Q2 \subseteq Q \cup {d},
         \A o \in h : o \in h2 \/ \E n \in Q : n \notin Q2 /\ o = Frame(n),
         \A n \in Q : n \notin Q2 => Frame(n) \notin h2,
         d \in Q2 => Frame(d) \in h2 /\ Payload(d) \in h2,
         \A m \in M2 : m.id = d /\ Owns(m, h2, d, Q2),
         Msg(d) \in h2 => \E m \in M2 : m.id = d,
         MsgBody(d) \in h2 => \E m \in M2 : m.id = d /\ m.body = <<MsgBody(d)>>,
         Frame(d) \in h2 /\ Payload(d) \in h2 =>
           d \in Q2 \/ \E m \in M2 : m.id = d /\ m.body = <<Payload(d)>>
  PROVE  Accounts(h2, d, w, p, Q2, M2)
<1>1. d \in Nat /\ 1..d = (1..c) \cup {d} /\ d \notin 1..c
  OBVIOUS
<1>2. p = "set" => Client \in h2 /\ Reader \in h2
  BY ObjectsDiffer DEF Accounts
<1>3. ASSUME NEW n \in Q2 PROVE n \in 1..d /\ Frame(n) \in h2 /\ Payload(n) \in h2
  <2>1. CASE n = d
    BY <2>1, <1>1
  <2>2. CASE n \in Q
    <3>1. n \in 1..c /\ Frame(n) \in h /\ Payload(n) \in h
      BY <2>2 DEF Accounts
    <3>2. QED
      BY <3>1, <1>1, ObjectsDiffer
  <2>3. QED
    BY <2>1, <2>2
<1>4. ASSUME NEW o \in h2
      PROVE  \/ o = Client \/ o = Reader
             \/ \E n \in 1..w : o = Copy(n)
             \/ \E n \in 1..d : \/ o = Frame(n) \/ o = Buffer(n) \/ o = Payload(n)
                                \/ o = Msg(n) \/ o = MsgBody(n)
  <2>1. CASE o \in h
    BY <2>1, <1>1 DEF Accounts
  <2>2. CASE o \in {Frame(d), Buffer(d), Payload(d), Msg(d), MsgBody(d)}
    BY <2>2, <1>1
  <2>3. QED
    BY <2>1, <2>2
<1>5. ASSUME NEW n \in 1..c
      PROVE  /\ Msg(n) \notin h2 /\ MsgBody(n) \notin h2
             /\ Frame(n) \in h2 /\ Payload(n) \in h2 => n \in Q2 \/ p = "null"
  <2>1. n # d
    BY <1>1
  <2>2. /\ Msg(n) \notin h /\ MsgBody(n) \notin h
        /\ Frame(n) \in h /\ Payload(n) \in h => n \in Q \/ p = "null"
    BY DEF Accounts
  <2>3. QED
    BY <2>1, <2>2, ObjectsDiffer
<1>6. QED
  BY <1>1, <1>2, <1>3, <1>4, <1>5 DEF Accounts

(* The message is freed, with what it owns. *)
LEMMA MessageBooked ==
  ASSUME NEW h, NEW c \in Nat, NEW w \in Nat, NEW p, NEW Q, NEW m,
         Accounts(h, c, w, p, Q, {m})
  PROVE  /\ Accounts(h \ ({Msg(m.id)} \cup ToSet(m.body)), c, w, p, Q, {})
         /\ ({Msg(m.id)} \cup ToSet(m.body)) \subseteq h
         /\ Client \notin ToSet(m.body) /\ Reader \notin ToSet(m.body)
         /\ Msg(m.id) \notin ToSet(m.body)
<1> DEFINE b == ToSet(m.body)
           g == {Msg(m.id)} \cup b
<1>1. /\ m.id \in 1..c /\ Msg(m.id) \in h
      /\ \/ m.body = <<>> /\ b = {}
         \/ m.body = <<Payload(m.id)>> /\ b = {Payload(m.id)} /\ b \subseteq h /\ m.id \notin Q
         \/ m.body = <<MsgBody(m.id)>> /\ b = {MsgBody(m.id)} /\ b \subseteq h
  <2>1. Owns(m, h, c, Q)
    BY DEF Accounts
  <2>2. /\ m.body = <<>> => b = {}
        /\ m.body = <<Payload(m.id)>> => b = {Payload(m.id)}
        /\ m.body = <<MsgBody(m.id)>> => b = {MsgBody(m.id)}
    BY ShortLists
  <2> HIDE DEF b
  <2>3. QED
    BY <2>1, <2>2 DEF Owns
<1> HIDE DEF b
<1>2. g \subseteq h /\ Client \notin b /\ Reader \notin b /\ Msg(m.id) \notin b
  BY <1>1, ObjectsDiffer
<1>3. Accounts(h \ g, c, w, p, Q, {})
  <2>1. p = "set" => Client \in h \ g /\ Reader \in h \ g
    BY <1>1, ObjectsDiffer DEF Accounts
  <2>2. ASSUME NEW n \in Q PROVE n \in 1..c /\ Frame(n) \in h \ g /\ Payload(n) \in h \ g
    BY <1>1, ObjectsDiffer DEF Accounts
  <2>3. ASSUME NEW n \in 1..c PROVE Msg(n) \notin h \ g
    BY <1>1, ObjectsDiffer DEF Accounts
  <2>4. ASSUME NEW n \in 1..c PROVE MsgBody(n) \notin h \ g
    <3>1. MsgBody(n) \in h => m.id = n /\ m.body = <<MsgBody(n)>>
      BY DEF Accounts
    <3>2. m.id = n /\ m.body = <<MsgBody(n)>> => MsgBody(n) \in b
      BY ShortLists DEF b
    <3>3. QED
      BY <3>1, <3>2
  <2>5. ASSUME NEW n \in 1..c, Frame(n) \in h \ g, Payload(n) \in h \ g
        PROVE  n \in Q \/ p = "null"
    <3>1. n \in Q \/ p = "null" \/ (m.id = n /\ m.body = <<Payload(n)>>)
      BY <2>5 DEF Accounts
    <3>2. m.id = n /\ m.body = <<Payload(n)>> => Payload(n) \in b
      BY ShortLists DEF b
    <3>3. QED
      BY <3>1, <3>2, <2>5
  <2>6. \A o \in h \ g : o \in h
    OBVIOUS
  <2>7. QED
    BY <2>1, <2>2, <2>3, <2>4, <2>5, <2>6 DEF Accounts
<1>4. QED
  BY <1>2, <1>3 DEF b

(* A write leaves its copy. *)
LEMMA WriteBooked ==
  ASSUME NEW h, NEW c \in Nat, NEW w \in Nat, NEW p, NEW Q, NEW M,
         Accounts(h, c, w, p, Q, M)
  PROVE  Accounts((h \cup {Copy(w + 1), <<"out", w + 1>>}) \ {<<"out", w + 1>>},
                  c, w + 1, p, Q, M)
<1> DEFINE h2 == (h \cup {Copy(w + 1), <<"out", w + 1>>}) \ {<<"out", w + 1>>}
<1>1. \A o \in h : o # <<"out", w + 1>>
  BY ObjectsDiffer DEF Accounts
<1>2. h2 = h \cup {Copy(w + 1)}
  BY <1>1, ObjectsDiffer
<1>3. 1..(w + 1) = (1..w) \cup {w + 1} /\ w + 1 \in Nat
  OBVIOUS
<1> HIDE DEF h2
<1>4. \A m \in M : Owns(m, h2, c, Q)
  BY <1>2 DEF Accounts, Owns
<1>5. \A n \in 1..c : /\ Msg(n) \in h2 => Msg(n) \in h
                      /\ MsgBody(n) \in h2 => MsgBody(n) \in h
                      /\ Frame(n) \in h2 => Frame(n) \in h
                      /\ Payload(n) \in h2 => Payload(n) \in h
  BY <1>2, ObjectsDiffer
<1>6. ASSUME NEW o \in h2
      PROVE  \/ o = Client \/ o = Reader
             \/ \E n \in 1..(w + 1) : o = Copy(n)
             \/ \E n \in 1..c : \/ o = Frame(n) \/ o = Buffer(n) \/ o = Payload(n)
                                \/ o = Msg(n) \/ o = MsgBody(n)
  <2>1. CASE o \in h
    BY <2>1, <1>3 DEF Accounts
  <2>2. CASE o = Copy(w + 1)
    BY <2>2, <1>3
  <2>3. QED
    BY <2>1, <2>2, <1>2
<1>7. Accounts(h2, c, w + 1, p, Q, M)
  BY <1>2, <1>4, <1>5, <1>6 DEF Accounts
<1>8. QED
  BY <1>7 DEF h2

(* The client is freed with its reader; the frames in the queue are nobody's *)
(* any more.                                                                 *)
LEMMA ClientBooked ==
  ASSUME NEW h, NEW c \in Nat, NEW w \in Nat, NEW p, NEW Q, NEW M,
         Accounts(h, c, w, p, Q, M)
  PROVE  Accounts(h \ {Reader, Client}, c, w, "null", {}, M)
<1> DEFINE h2 == h \ {Reader, Client}
<1>1. \A m \in M : Owns(m, h2, c, {})
  BY ObjectsDiffer DEF Accounts, Owns
<1>2. \A o \in h2 : o \in h
  OBVIOUS
<1> HIDE DEF h2
<1>3. "null" # "set"
  OBVIOUS
<1>4. Accounts(h2, c, w, "null", {}, M)
  BY <1>1, <1>2, <1>3 DEF Accounts
<1>5. QED
  BY <1>4 DEF h2

----------------------------------------------------------------------------
(* The inductive invariant *)

LEMMA OwnershipInitInv == Init => OwnershipInv
<1> SUFFICES ASSUME Init PROVE OwnershipInv
  OBVIOUS
<1>1. Numbers = {} /\ Messages = {}
  BY ShortLists DEF Init, Numbers, Ids, Messages
<1>2. Accounts({Client, Reader}, 0, 0, "set", {}, {})
  BY DEF Accounts
<1>3. Queue /\ Place /\ Gone
  BY DEF Init, Queue, Distinct, Place, Gone, Slot, NoFault
<1>4. QED
  BY <1>1, <1>2, <1>3 DEF OwnershipInv, Book, Init

(* A call of ws_reader_handle with number d, in the words of the book. *)
LEMMA HandleBooked ==
  ASSUME OwnershipInv, Handle
  PROVE  /\ this \in Nat /\ this = calls + 1 /\ calls' = this /\ this \notin Numbers
         /\ Messages = {} /\ msg = <<>> /\ msg' = <<>> /\ msg_queue = <<>>
         /\ ptr = "set" /\ ptr' = ptr /\ writes' = writes /\ freeing' = freeing
         /\ fault = NoFault
         /\ Accounts(heap, calls, writes, ptr, Numbers, {})
<1>1. pc = "loop" /\ fault = NoFault /\ calls' = this /\ this = calls + 1
  BY DEF Handle, Running, this
<1>2. msg = <<>> /\ msg_queue = <<>> /\ ptr = "set"
  BY <1>1 DEF OwnershipInv, Place, Gone
<1>3. Messages = {}
  BY <1>2, ShortLists DEF Messages
<1>4. this \notin Numbers
  BY <1>1 DEF OwnershipInv, Book, Accounts
<1>5. QED
  BY <1>1, <1>2, <1>3, <1>4 DEF OwnershipInv, Book, Handle

(* It leaves at most one message, in the queue, for the loop to take. *)
LEMMA HandleKeeps ==
  ASSUME OwnershipInv, Handle, fault' = fault, Queue',
         NEW b \in BOOLEAN, Return(b),
         \/ msg_queue' = <<>> /\ Messages' = {}
         \/ b /\ \E m : msg_queue' = <<m>>,
         Accounts(heap', this, writes, ptr, Numbers', Messages')
  PROVE  OwnershipInv'
<1>1. pc' = (IF b THEN "next" ELSE "leave")
  BY DEF Return
<1>2. /\ this \in Nat /\ calls' = this /\ msg' = <<>> /\ ptr = "set" /\ ptr' = ptr
      /\ writes' = writes /\ freeing' = freeing /\ fault = NoFault /\ writes \in Nat
  BY HandleBooked DEF OwnershipInv, Book
<1>3. Place'
  BY <1>1, <1>2 DEF Place, Slot
<1>4. Gone'
  BY <1>1, <1>2 DEF Gone
<1>5. Book'
  BY <1>2 DEF Book
<1>6. QED
  BY <1>3, <1>4, <1>5 DEF OwnershipInv

(* Every way out of ws_reader_handle that changes neither queue: of the      *)
(* frame and its payload one is not there any more, and no message is.       *)
LEMMA HandleFails ==
  ASSUME OwnershipInv, Handle, UNCHANGED queueVars, NEW b \in BOOLEAN, Return(b),
         NEW new, NEW freed, Memory(new, {}, freed), IsInjective(freed),
         new \subseteq {Frame(this), Buffer(this), Payload(this), Msg(this), MsgBody(this)},
         ToSet(freed) \subseteq new,
         Msg(this) \in new => Msg(this) \in ToSet(freed),
         MsgBody(this) \in new => MsgBody(this) \in ToSet(freed),
         Payload(this) \in new => Frame(this) \in ToSet(freed)
  PROVE  OwnershipInv'
<1> DEFINE d == this
<1>1. heap' = (heap \cup new) \ ToSet(freed) /\ fault' = fault
  BY MemoryUsed
<1>2. /\ d \in Nat /\ d = calls + 1 /\ d \notin Numbers /\ d \notin 1..calls
      /\ msg' = <<>> /\ msg_queue = <<>> /\ Messages = {}
      /\ Accounts(heap, calls, writes, ptr, Numbers, {})
      /\ calls \in Nat /\ writes \in Nat
  BY HandleBooked DEF OwnershipInv, Book
<1>3. Queue' /\ Numbers' = Numbers /\ msg_queue' = <<>> /\ Messages' = {}
  BY <1>2, ShortLists DEF OwnershipInv, Queue, Numbers, Messages, queueVars
<1> HIDE DEF d
<1>4. /\ Frame(d) \notin heap /\ Payload(d) \notin heap
      /\ Msg(d) \notin heap /\ MsgBody(d) \notin heap /\ Buffer(d) \notin heap
  BY <1>2, ObjectsDiffer DEF Accounts
<1>5. /\ heap' \subseteq heap \cup {Frame(d), Buffer(d), Payload(d), Msg(d), MsgBody(d)}
      /\ heap \subseteq heap'
      /\ Msg(d) \notin heap' /\ MsgBody(d) \notin heap'
      /\ ~(Frame(d) \in heap' /\ Payload(d) \in heap')
  BY <1>1, <1>4 DEF d
<1>6. Accounts(heap', d, writes, ptr, Numbers, {})
  <2> DEFINE Q == Numbers
             none == {}
             h2 == heap'
  <2>1. /\ Q \subseteq Q \cup {d} /\ d \notin Q
        /\ \A o \in heap : o \in h2 \/ \E n \in Q : n \notin Q /\ o = Frame(n)
        /\ \A n \in Q : n \notin Q => Frame(n) \notin h2
        /\ \A m \in none : m.id = d /\ Owns(m, h2, d, Q)
        /\ h2 \subseteq heap \cup {Frame(d), Buffer(d), Payload(d), Msg(d), MsgBody(d)}
        /\ Msg(d) \notin h2 /\ MsgBody(d) \notin h2
        /\ ~(Frame(d) \in h2 /\ Payload(d) \in h2)
    BY <1>2, <1>5
  <2>2. Accounts(heap, calls, writes, ptr, Q, {})
    BY <1>2
  <2> HIDE DEF Q, none, h2
  <2>3. Accounts(h2, d, writes, ptr, Q, none)
    BY <1>2, <2>1, <2>2, CallBooked
  <2>4. QED
    BY <2>3 DEF Q, none, h2
<1>7. QED
  BY <1>1, <1>3, <1>6, HandleKeeps DEF d

LEMMA FailingWaysKeep ==
  ASSUME OwnershipInv, HandleBadHeader \/ HandleMismatch \/ HandleBadBody \/ HandlePushFails
  PROVE  OwnershipInv'
<1> USE DEF ws_frame_free
<1> DEFINE list == <<Frame(this)>>
<1>1. <<>> \o list = list /\ ToSet(list) = {Frame(this)} /\ IsInjective(list)
  BY ShortLists
<1>2. CASE HandleBadHeader
  <2>1. Memory({Frame(this)}, {}, list)
    BY <1>1, <1>2 DEF HandleBadHeader
  <2>2. QED
    BY <1>1, <1>2, <2>1, HandleFails, ObjectsDiffer DEF HandleBadHeader
<1>3. CASE HandleMismatch
  <2> DEFINE new == {Frame(this), Buffer(this)}
  <2>1. Memory(new, {}, list) /\ Handle /\ Return(FALSE) /\ UNCHANGED queueVars
    BY <1>1, <1>3 DEF HandleMismatch
  <2>2. /\ Msg(this) \notin new /\ MsgBody(this) \notin new /\ Payload(this) \notin new
        /\ new \subseteq {Frame(this), Buffer(this), Payload(this), Msg(this), MsgBody(this)}
        /\ ToSet(list) \subseteq new
    BY <1>1, ObjectsDiffer
  <2> HIDE DEF new, list
  <2>3. QED
    BY <1>1, <2>1, <2>2, HandleFails
<1>4. CASE HandleBadBody
  <2> DEFINE new == {Frame(this), Buffer(this)}
             empty == <<>>
  <2>1. Memory(new, {}, empty) /\ Handle /\ Return(FALSE) /\ UNCHANGED queueVars
    BY <1>4 DEF HandleBadBody
  <2>2. /\ Msg(this) \notin new /\ MsgBody(this) \notin new /\ Payload(this) \notin new
        /\ new \subseteq {Frame(this), Buffer(this), Payload(this), Msg(this), MsgBody(this)}
        /\ ToSet(empty) \subseteq new /\ IsInjective(empty)
    BY ShortLists, ObjectsDiffer
  <2> HIDE DEF new, empty
  <2>3. QED
    BY <2>1, <2>2, HandleFails
<1>5. CASE HandlePushFails
  <2> DEFINE new == {Frame(this), Buffer(this), Payload(this)}
  <2>1. Memory(new, {}, list) /\ Handle /\ Return(FALSE) /\ UNCHANGED queueVars
    BY <1>1, <1>5 DEF HandlePushFails, Decoded
  <2>2. /\ Msg(this) \notin new /\ MsgBody(this) \notin new /\ Frame(this) \in ToSet(list)
        /\ new \subseteq {Frame(this), Buffer(this), Payload(this), Msg(this), MsgBody(this)}
        /\ ToSet(list) \subseteq new
    BY <1>1, ObjectsDiffer
  <2> HIDE DEF new, list
  <2>3. QED
    BY <1>1, <2>1, <2>2, HandleFails
<1>6. QED
  BY <1>2, <1>3, <1>4, <1>5

(* A control frame, its body read or not: its message takes the payload over.*)
LEMMA ControlKeeps ==
  ASSUME OwnershipInv, Handle, UNCHANGED frame_queue, Return(TRUE),
         NEW new, Memory(new, {}, <<>>), NEW m, msg_queue' = Append(msg_queue, m),
         m.id = this,
         \/ m.body = <<>> /\ new = {Frame(this), Buffer(this), Msg(this)}
         \/ /\ m.body = <<Payload(this)>>
            /\ new = {Frame(this), Buffer(this), Payload(this), Msg(this)}
  PROVE  OwnershipInv'
<1> DEFINE d == this
<1>1. heap' = heap \cup new /\ fault' = fault
  BY MemoryUsed, ShortLists
<1>2. /\ d \in Nat /\ d = calls + 1 /\ d \notin Numbers /\ d \notin 1..calls
      /\ msg' = <<>> /\ msg_queue = <<>> /\ Messages = {}
      /\ Accounts(heap, calls, writes, ptr, Numbers, {})
      /\ calls \in Nat /\ writes \in Nat
  BY HandleBooked DEF OwnershipInv, Book
<1>3. msg_queue' = <<m>>
  BY <1>2
<1>4. Queue' /\ Numbers' = Numbers /\ Messages' = {m}
  BY <1>2, <1>3, ShortLists DEF OwnershipInv, Queue, Numbers, Messages
<1> HIDE DEF d
<1>5. /\ Frame(d) \notin heap /\ Payload(d) \notin heap
      /\ Msg(d) \notin heap /\ MsgBody(d) \notin heap /\ Buffer(d) \notin heap
  BY <1>2, ObjectsDiffer DEF Accounts
<1>6. /\ heap' \subseteq heap \cup {Frame(d), Buffer(d), Payload(d), Msg(d), MsgBody(d)}
      /\ heap \subseteq heap'
      /\ Msg(d) \in heap' /\ MsgBody(d) \notin heap'
      /\ Payload(d) \in heap' <=> m.body = <<Payload(d)>>
  BY <1>1, <1>5, ObjectsDiffer DEF d
<1>7. m.id = d /\ Owns(m, heap', d, Numbers)
  BY <1>2, <1>6 DEF Owns, d
<1>8. Accounts(heap', d, writes, ptr, Numbers, {m})
  BY <1>2, <1>6, <1>7, CallBooked
<1>9. QED
  BY <1>1, <1>3, <1>4, <1>8, HandleKeeps DEF d

LEMMA CloseUnreadKeeps == ASSUME OwnershipInv, HandleCloseUnread PROVE OwnershipInv'
<1> DEFINE new == {Frame(this), Buffer(this), Msg(this)}
           m == [id |-> this, type |-> "close", body |-> <<>>]
           list == <<Msg(this)>> \o ws_frame_free(<<>>) \o <<Frame(this)>>
<1>1. Handle /\ UNCHANGED frame_queue
  BY DEF HandleCloseUnread
<1>2. CASE Memory(new, {}, <<>>) /\ msg_queue' = Append(msg_queue, m) /\ Return(TRUE)
  <2>1. m.id = this /\ m.body = <<>>
    OBVIOUS
  <2> HIDE DEF m
  <2>2. QED
    BY <1>1, <1>2, <2>1, ControlKeeps
<1>3. CASE Memory(new, {}, list) /\ Return(FALSE) /\ UNCHANGED msg_queue
  <2>1. ToSet(list) = {Msg(this), Frame(this)} /\ IsInjective(list)
    BY FrameFreed, ObjectsDiffer
  <2>2. /\ MsgBody(this) \notin new /\ Payload(this) \notin new
        /\ new \subseteq {Frame(this), Buffer(this), Payload(this), Msg(this), MsgBody(this)}
        /\ ToSet(list) \subseteq new /\ Msg(this) \in ToSet(list)
    BY <2>1, ObjectsDiffer
  <2>3. UNCHANGED queueVars
    BY <1>1, <1>3 DEF queueVars
  <2> HIDE DEF new, list
  <2>4. QED
    BY <1>1, <1>3, <2>1, <2>2, <2>3, HandleFails
<1>4. QED
  BY <1>2, <1>3 DEF HandleCloseUnread

LEMMA ControlFrameKeeps ==
  ASSUME OwnershipInv, NEW o \in Control, HandleControl(o) PROVE OwnershipInv'
<1> DEFINE new == {Frame(this), Buffer(this), Payload(this), Msg(this)}
           m == [id |-> this, type |-> o, body |-> <<Payload(this)>>]
           list == <<Msg(this)>> \o ws_frame_free(<<>>) \o <<Frame(this)>>
<1>1. Handle /\ UNCHANGED frame_queue
  BY DEF HandleControl
<1>2. CASE Memory(new, {}, <<>>) /\ msg_queue' = Append(msg_queue, m) /\ Return(TRUE)
  <2>1. m.id = this /\ m.body = <<Payload(this)>>
    OBVIOUS
  <2> HIDE DEF m
  <2>2. QED
    BY <1>1, <1>2, <2>1, ControlKeeps
<1>3. CASE Memory(new, {}, list) /\ Return(FALSE) /\ UNCHANGED msg_queue
  <2>1. ToSet(list) = {Msg(this), Frame(this)} /\ IsInjective(list)
    BY FrameFreed, ObjectsDiffer
  <2>2. /\ MsgBody(this) \notin new /\ Frame(this) \in ToSet(list)
        /\ new \subseteq {Frame(this), Buffer(this), Payload(this), Msg(this), MsgBody(this)}
        /\ ToSet(list) \subseteq new /\ Msg(this) \in ToSet(list)
    BY <2>1, ObjectsDiffer
  <2>3. UNCHANGED queueVars
    BY <1>1, <1>3 DEF queueVars
  <2> HIDE DEF new, list
  <2>4. QED
    BY <1>1, <1>3, <2>1, <2>2, <2>3, HandleFails
<1>4. Decoded \cup {Msg(this)} = new
  BY DEF Decoded
<1>5. QED
  BY <1>2, <1>3, <1>4 DEF HandleControl

(* What the frame that is pushed adds to the queue. *)
LEMMA PushedFrame ==
  ASSUME OwnershipInv, Handle, NEW o \in Opcodes
  PROVE  /\ Queued(o) \in Seq(QueuedFrame) /\ Distinct(Queued(o))
         /\ Ids(Queued(o)) = Numbers \cup {this}
         /\ Len(Queued(o)) \in Nat \ {0}
<1> DEFINE f == [id |-> this, opcode |-> o]
<1>1. this \in Nat /\ this \notin Numbers
  BY HandleBooked
<1>2. f \in QueuedFrame /\ f.id = this
  BY <1>1 DEF QueuedFrame
<1>3. frame_queue \in Seq(QueuedFrame) /\ Distinct(frame_queue)
  BY DEF OwnershipInv, Queue
<1>4. Queued(o) = Append(frame_queue, f)
  BY DEF Queued
<1> HIDE DEF f
<1>5. QED
  BY <1>1, <1>2, <1>3, <1>4, QueueAppended DEF Numbers

(* A frame stays in the queue: there is no fin, or no room for the body. *)
LEMMA FragmentKeeps ==
  ASSUME OwnershipInv, Handle, NEW o \in Opcodes, frame_queue' = Queued(o),
         NEW freed, Memory(Decoded \cup ToSet(freed), {}, freed),
         freed = <<>> \/ freed = <<Msg(this)>>,
         Return(TRUE), UNCHANGED msg_queue
  PROVE  OwnershipInv'
<1> DEFINE d == this
<1>1. /\ IsInjective(freed) /\ ToSet(freed) \subseteq {Msg(d)}
      /\ ToSet(freed) \subseteq heap \cup (Decoded \cup ToSet(freed))
  BY ShortLists
<1>2. heap' = (heap \cup (Decoded \cup ToSet(freed))) \ ToSet(freed) /\ fault' = fault
  BY <1>1, MemoryUsed
<1>3. /\ d \in Nat /\ d = calls + 1 /\ d \notin Numbers /\ d \notin 1..calls
      /\ msg' = <<>> /\ msg_queue = <<>> /\ Messages = {}
      /\ Accounts(heap, calls, writes, ptr, Numbers, {})
      /\ calls \in Nat /\ writes \in Nat
  BY HandleBooked DEF OwnershipInv, Book
<1>4. Queue' /\ Numbers' = Numbers \cup {d} /\ msg_queue' = <<>> /\ Messages' = {}
  BY <1>3, PushedFrame, ShortLists DEF Queue, Numbers, Messages
<1> HIDE DEF d
<1>5. /\ Frame(d) \notin heap /\ Payload(d) \notin heap
      /\ Msg(d) \notin heap /\ MsgBody(d) \notin heap /\ Buffer(d) \notin heap
  BY <1>3, ObjectsDiffer DEF Accounts
<1>6. heap' = heap \cup {Frame(d), Buffer(d), Payload(d)}
  BY <1>1, <1>2, <1>5, ObjectsDiffer DEF Decoded, d
<1>7. Accounts(heap', d, writes, ptr, Numbers', {})
  <2> DEFINE Q == Numbers
             Q2 == Numbers \cup {d}
             none == {}
             h2 == heap'
  <2>1. /\ Q2 \subseteq Q \cup {d}
        /\ \A x \in heap : x \in h2
        /\ \A n \in Q : n \in Q2
        /\ \A m \in none : m.id = d /\ Owns(m, h2, d, Q2)
        /\ h2 \subseteq heap \cup {Frame(d), Buffer(d), Payload(d), Msg(d), MsgBody(d)}
        /\ Msg(d) \notin h2 /\ MsgBody(d) \notin h2
        /\ d \in Q2 /\ Frame(d) \in h2 /\ Payload(d) \in h2
    BY <1>5, <1>6, ObjectsDiffer
  <2>2. Accounts(heap, calls, writes, ptr, Q, {})
    BY <1>3
  <2> HIDE DEF Q, Q2, none, h2
  <2>3. Accounts(h2, d, writes, ptr, Q2, none)
    BY <1>3, <2>1, <2>2, CallBooked
  <2>4. QED
    BY <2>3, <1>4 DEF Q2, none, h2
<1>8. QED
  BY <1>2, <1>4, <1>7, HandleKeeps DEF d

(* The last frame of a message: the queued frames go, all or the first ones, *)
(* and with them the message if they could not all be copied.                *)
LEMMA LastKeeps ==
  ASSUME OwnershipInv, Handle, NEW o \in Opcodes, HandleLast(o)
  PROVE  OwnershipInv'
<1> DEFINE d == this
           fs == Queued(o)
           new == Decoded \cup {Msg(d), MsgBody(d)}
           F == {Frame(n) : n \in Numbers \cup {d}}
           m == [id |-> d, type |-> Type(fs), body |-> <<MsgBody(d)>>]
<1>1. /\ d \in Nat /\ d = calls + 1 /\ d \notin Numbers /\ d \notin 1..calls
      /\ msg' = <<>> /\ msg_queue = <<>>
      /\ Accounts(heap, calls, writes, ptr, Numbers, {})
      /\ calls \in Nat /\ writes \in Nat
  BY HandleBooked DEF OwnershipInv, Book
<1>2. /\ fs \in Seq(QueuedFrame) /\ Distinct(fs) /\ Ids(fs) = Numbers \cup {d}
  BY PushedFrame
<1>3. /\ ToSet(Freed(fs)) = F /\ IsInjective(Freed(fs))
      /\ Copied(fs) \subseteq F \cup {Payload(n) : n \in Numbers \cup {d}}
  BY <1>2, FramesFreed DEF Freed
<1>4. /\ \A n \in Numbers \cup {d} : Frame(n) \in heap \cup new /\ Payload(n) \in heap \cup new
  BY <1>1 DEF Accounts, Decoded
<1>5. Copied(fs) \subseteq heap \cup new /\ ToSet(Freed(fs)) \subseteq heap \cup new
  BY <1>3, <1>4
<1>6. heap' = (heap \cup new) \ F /\ fault' = fault
  <2>1. Memory(new, Copied(fs), Freed(fs))
    BY DEF HandleLast
  <2> HIDE DEF new, F, fs
  <2>2. QED
    BY <2>1, <1>3, <1>5, MemoryUsed
<1>7. msg_queue' = <<m>> /\ Return(TRUE)
  <2>1. msg_queue' = Append(msg_queue, m) /\ Return(TRUE)
    BY DEF HandleLast
  <2>2. msg_queue = <<>>
    BY <1>1
  <2> HIDE DEF m
  <2>3. QED
    BY ONLY <2>1, <2>2, AppendFirst
<1>8. Queue' /\ Numbers' = {} /\ Messages' = {m}
  <2>1. frame_queue' = <<>>
    BY <1>2 DEF HandleLast, Popped
  <2>2. QED
    BY <1>1, <1>7, <2>1, ShortLists DEF Queue, Distinct, Numbers, Ids, Messages
<1>9. m.id = d /\ m.body = <<MsgBody(d)>>
  OBVIOUS
<1> HIDE DEF d, fs, m
<1>10. /\ heap' \subseteq heap \cup {Frame(d), Buffer(d), Payload(d), Msg(d), MsgBody(d)}
       /\ \A x \in heap : x \in heap' \/ \E n \in Numbers : n \notin {} /\ x = Frame(n)
       /\ \A n \in Numbers : n \notin {} => Frame(n) \notin heap'
       /\ Frame(d) \notin heap' /\ Msg(d) \in heap' /\ MsgBody(d) \in heap'
  <2>1. Frame(d) \notin heap
    BY <1>1, ObjectsDiffer DEF Accounts
  <2>2. QED
    BY <1>6, <2>1, ObjectsDiffer DEF Decoded, d
<1>11. Owns(m, heap', d, {})
  BY <1>1, <1>9, <1>10 DEF Owns
<1>12. Accounts(heap', d, writes, ptr, {}, {m})
  <2> DEFINE Q2 == {}
             h2 == heap'
             M2 == {m}
  <2>1. /\ Q2 \subseteq Numbers \cup {d} /\ d \notin Q2
        /\ h2 \subseteq heap \cup {Frame(d), Buffer(d), Payload(d), Msg(d), MsgBody(d)}
        /\ \A x \in heap : x \in h2 \/ \E n \in Numbers : n \notin Q2 /\ x = Frame(n)
        /\ \A n \in Numbers : n \notin Q2 => Frame(n) \notin h2
        /\ Frame(d) \notin h2
        /\ \A x \in M2 : x.id = d /\ Owns(x, h2, d, Q2)
        /\ \E x \in M2 : x.id = d /\ x.body = <<MsgBody(d)>>
    BY <1>9, <1>10, <1>11
  <2> HIDE DEF Q2, h2, M2
  <2>2. Accounts(h2, d, writes, ptr, Q2, M2)
    BY <1>1, <2>1, CallBooked
  <2>3. QED
    BY <2>2 DEF Q2, h2, M2
<1>13. QED
  BY <1>6, <1>7, <1>8, <1>12, HandleKeeps DEF d

LEMMA LastFailsKeeps ==
  ASSUME OwnershipInv, NEW o \in Opcodes, Handle, Return(TRUE), UNCHANGED msg_queue,
         NEW k \in 1..Len(Queued(o)), NEW done, done = SubSeq(Queued(o), 1, k),
         Memory(Decoded \cup {Msg(this), MsgBody(this)}, Copied(done),
                Freed(done) \o <<MsgBody(this), Msg(this)>>),
         frame_queue' = Popped(Queued(o), k)
  PROVE  OwnershipInv'
<1> DEFINE d == this
           fs == Queued(o)
           new == Decoded \cup {Msg(d), MsgBody(d)}
           D == Ids(done)
           F == {Frame(n) : n \in D}
           Q2 == (Numbers \cup {d}) \ D
           freed == Freed(done) \o <<MsgBody(d), Msg(d)>>
<1>1. /\ d \in Nat /\ d = calls + 1 /\ d \notin Numbers /\ d \notin 1..calls
      /\ msg' = <<>> /\ msg_queue = <<>>
      /\ Accounts(heap, calls, writes, ptr, Numbers, {})
      /\ calls \in Nat /\ writes \in Nat
  BY HandleBooked DEF OwnershipInv, Book
<1>2. /\ fs \in Seq(QueuedFrame) /\ Distinct(fs) /\ Ids(fs) = Numbers \cup {d}
  BY PushedFrame
<1>3. /\ done \in Seq(QueuedFrame) /\ Distinct(done) /\ D \subseteq Numbers \cup {d}
      /\ Queue' /\ Numbers' = Q2
  <2> HIDE DEF fs
  <2>1. k \in 1..Len(fs)
    BY DEF fs
  <2>2. /\ SubSeq(fs, 1, k) \in Seq(QueuedFrame) /\ Distinct(SubSeq(fs, 1, k))
        /\ Popped(fs, k) \in Seq(QueuedFrame) /\ Distinct(Popped(fs, k))
        /\ Ids(SubSeq(fs, 1, k)) \subseteq Ids(fs)
        /\ Ids(Popped(fs, k)) = Ids(fs) \ Ids(SubSeq(fs, 1, k))
    BY <1>2, <2>1, QueueSplit
  <2>3. QED
    BY <1>2, <2>2 DEF fs, Queue, Numbers
<1>4. /\ Freed(done) \in Seq({Frame(n) : n \in Nat})
      /\ ToSet(Freed(done)) = F /\ IsInjective(Freed(done))
      /\ Copied(done) \subseteq F \cup {Payload(n) : n \in D}
  BY <1>3, FramesFreed DEF Freed
<1>5. ToSet(freed) = F \cup {MsgBody(d), Msg(d)} /\ IsInjective(freed)
  <2> DEFINE S == {Frame(n) : n \in Nat} \cup {MsgBody(d), Msg(d)}
             s == Freed(done)
             t == <<MsgBody(d), Msg(d)>>
  <2>1. s \in Seq(S) /\ t \in Seq(S)
    BY <1>4
  <2>2. ToSet(t) = {MsgBody(d), Msg(d)} /\ IsInjective(t)
    BY ShortLists, ObjectsDiffer
  <2>3. ToSet(s) \cap ToSet(t) = {} /\ IsInjective(s)
    <3>1. \A x \in ToSet(s) : \E n \in D : x = Frame(n)
      BY <1>4
    <3>2. IsInjective(s)
      BY <1>4
    <3> HIDE DEF s, t, D
    <3>3. QED
      BY <2>2, <3>1, <3>2, ObjectsDiffer
  <2> HIDE DEF S, s, t
  <2>4. ToSet(s \o t) = ToSet(s) \cup ToSet(t) /\ IsInjective(s \o t)
    BY <2>1, <2>2, <2>3, ListsJoined
  <2>5. QED
    BY <1>4, <2>2, <2>4 DEF s, t
<1>6. /\ \A n \in Numbers \cup {d} : Frame(n) \in heap \cup new /\ Payload(n) \in heap \cup new
  BY <1>1 DEF Accounts, Decoded
<1>7. Copied(done) \subseteq heap \cup new /\ ToSet(freed) \subseteq heap \cup new
  BY <1>3, <1>4, <1>5, <1>6
<1>8. heap' = (heap \cup new) \ (F \cup {MsgBody(d), Msg(d)}) /\ fault' = fault
  <2>1. Memory(new, Copied(done), freed)
    OBVIOUS
  <2> HIDE DEF new, F, freed
  <2>2. QED
    BY <2>1, <1>5, <1>7, MemoryUsed
<1>9. msg_queue' = <<>> /\ Messages' = {}
  BY <1>1, ShortLists DEF Messages
<1> HIDE DEF d, D
<1>10. Frame(d) \notin heap /\ MsgBody(d) \notin heap /\ Msg(d) \notin heap
  BY <1>1, ObjectsDiffer DEF Accounts
<1>11. Accounts(heap', d, writes, ptr, Q2, {})
  <2> DEFINE h2 == heap'
             none == {}
  <2>1. /\ Q2 \subseteq Numbers \cup {d}
        /\ h2 \subseteq heap \cup {Frame(d), Buffer(d), Payload(d), Msg(d), MsgBody(d)}
        /\ Msg(d) \notin h2 /\ MsgBody(d) \notin h2
    BY <1>8 DEF Decoded, d
  <2>2. \A x \in heap : x \in h2 \/ \E n \in Numbers : n \notin Q2 /\ x = Frame(n)
    BY <1>3, <1>8, <1>10
  <2>3. \A n \in Numbers : n \notin Q2 => Frame(n) \notin h2
    BY <1>8
  <2>4. /\ d \in Q2 => Frame(d) \in h2 /\ Payload(d) \in h2
        /\ Frame(d) \in h2 => d \in Q2
    BY <1>8, ObjectsDiffer DEF Decoded, d
  <2>5. \A m \in none : m.id = d /\ Owns(m, h2, d, Q2)
    OBVIOUS
  <2> HIDE DEF Q2, h2, none
  <2>6. Accounts(h2, d, writes, ptr, Q2, none)
    BY <1>1, <2>1, <2>2, <2>3, <2>4, <2>5, CallBooked
  <2>7. QED
    BY <2>6 DEF h2, none
<1>12. QED
  BY <1>3, <1>8, <1>9, <1>11, HandleKeeps DEF d

LEMMA ReaderKeeps == ASSUME OwnershipInv, ws_reader_handle PROVE OwnershipInv'
<1>1. CASE HandleNothing
  <2>1. PICK b \in BOOLEAN : pc' = IF b THEN "next" ELSE "leave"
    BY <1>1 DEF HandleNothing, Return
  <2>2. /\ pc = "loop" /\ UNCHANGED <<ptr, heap, queueVars, msg, countVars, freeing, fault>>
    BY <1>1 DEF HandleNothing
  <2>3. Queue' /\ Book'
    BY <2>2 DEF OwnershipInv, Queue, Book, Numbers, Ids, Messages, queueVars, countVars
  <2>4. Place' /\ Gone'
    BY <2>1, <2>2 DEF OwnershipInv, Place, Gone, Slot, queueVars
  <2>5. QED
    BY <2>3, <2>4 DEF OwnershipInv
<1>2. CASE HandleBadHeader \/ HandleMismatch \/ HandleBadBody \/ HandlePushFails
  BY <1>2, FailingWaysKeep
<1>3. CASE HandleCloseUnread
  BY <1>3, CloseUnreadKeeps
<1>4. CASE \E o \in Control : HandleControl(o)
  BY <1>4, ControlFrameKeeps
<1>5. ASSUME NEW o \in Opcodes \ Control, HandleFragment(o) PROVE OwnershipInv'
  <2> DEFINE freed == <<>>
  <2>1. Decoded \cup ToSet(freed) = Decoded
    BY ShortLists
  <2>2. /\ Handle /\ frame_queue' = Queued(o) /\ Return(TRUE) /\ UNCHANGED msg_queue
        /\ Memory(Decoded \cup ToSet(freed), {}, freed)
    BY <1>5, <2>1 DEF HandleFragment
  <2>3. freed = <<>> \/ freed = <<Msg(this)>>
    OBVIOUS
  <2> HIDE DEF freed
  <2>4. QED
    BY <2>2, <2>3, FragmentKeeps
<1>6. ASSUME NEW o \in Opcodes \ Control, HandleLast(o) PROVE OwnershipInv'
  BY <1>6, LastKeeps DEF HandleLast
<1>7. ASSUME NEW o \in Opcodes \ Control, HandleLastFails(o) PROVE OwnershipInv'
  <2>1. Handle /\ Return(TRUE) /\ UNCHANGED msg_queue
    BY <1>7 DEF HandleLastFails
  <2>2. CASE Memory(Decoded \cup {Msg(this)}, {}, <<Msg(this)>>) /\ frame_queue' = Queued(o)
    <3> DEFINE freed == <<Msg(this)>>
    <3>1. ToSet(freed) = {Msg(this)}
      BY ShortLists
    <3>2. Memory(Decoded \cup ToSet(freed), {}, freed)
      BY <2>2, <3>1
    <3>3. freed = <<>> \/ freed = <<Msg(this)>>
      OBVIOUS
    <3> HIDE DEF freed
    <3>4. QED
      BY <2>1, <2>2, <3>2, <3>3, FragmentKeeps
  <2>3. ASSUME NEW k \in 1..Len(Queued(o)), NEW done, done = SubSeq(Queued(o), 1, k),
               Memory(Decoded \cup {Msg(this), MsgBody(this)}, Copied(done),
                      Freed(done) \o <<MsgBody(this), Msg(this)>>),
               frame_queue' = Popped(Queued(o), k)
        PROVE  OwnershipInv'
    BY <2>1, <2>3, LastFailsKeeps
  <2>4. QED
    BY <1>7, <2>2, <2>3 DEF HandleLastFails
<1>8. QED
  BY <1>1, <1>2, <1>3, <1>4, <1>5, <1>6, <1>7 DEF ws_reader_handle

----------------------------------------------------------------------------
(* The loop of ws_client_on_msg and the application *)

(* Outside of the reader the loop holds the only message there is. *)
LEMMA LoopHolds ==
  ASSUME OwnershipInv, pc \in {"msg", "check", "leave", "out"}
  PROVE  /\ msg_queue = <<>> /\ Messages = ToSet(msg)
         /\ msg # <<>> => msg = <<Held>> /\ Messages = {Held} /\ HeldObjects \subseteq heap
         /\ msg = <<>> => Messages = {}
<1>1. msg_queue = <<>> /\ Slot(msg)
  BY DEF OwnershipInv, Place
<1>2. Messages = ToSet(msg) /\ (msg = <<>> => Messages = {})
  BY <1>1, ShortLists DEF Messages
<1>3. ASSUME msg # <<>>
      PROVE  msg = <<Held>> /\ Messages = {Held} /\ HeldObjects \subseteq heap
  <2>1. PICK m : msg = <<m>>
    BY <1>1, <1>3 DEF Slot
  <2>2. Held = m
    BY <2>1 DEF Held
  <2>3. Messages = {m}
    BY <1>2, <2>1, ShortLists
  <2>4. calls \in Nat /\ writes \in Nat /\ Accounts(heap, calls, writes, ptr, Numbers, {m})
    BY <2>3 DEF OwnershipInv, Book
  <2>5. ({Msg(m.id)} \cup ToSet(m.body)) \subseteq heap
    BY <2>4, MessageBooked
  <2>6. QED
    BY <2>1, <2>2, <2>3, <2>5 DEF HeldObjects
<1>4. QED
  BY <1>1, <1>2, <1>3

(* What is freed when the message goes out of scope. *)
LEMMA MessageFreed ==
  ASSUME OwnershipInv, pc \in {"check", "leave"}
  PROVE  /\ free_ws_message \in Seq(heap) /\ ToSet(free_ws_message) \subseteq heap
         /\ IsInjective(free_ws_message)
         /\ Client \notin ToSet(free_ws_message) /\ Reader \notin ToSet(free_ws_message)
         /\ Accounts(heap \ ToSet(free_ws_message), calls, writes, ptr, Numbers, {})
<1>1. calls \in Nat /\ writes \in Nat /\ Accounts(heap, calls, writes, ptr, Numbers, Messages)
  BY DEF OwnershipInv, Book
<1>2. CASE msg = <<>>
  <2>1. free_ws_message = <<>> /\ Messages = {}
    BY <1>2, LoopHolds DEF free_ws_message
  <2>2. ToSet(free_ws_message) = {} /\ IsInjective(free_ws_message)
    BY <2>1, ShortLists
  <2>3. heap \ {} = heap /\ <<>> \in Seq(heap)
    OBVIOUS
  <2>4. QED
    BY <1>1, <2>1, <2>2, <2>3
<1>3. CASE msg # <<>>
  <2> DEFINE m == Held
             g == {Msg(m.id)} \cup ToSet(m.body)
             list == m.body \o <<Msg(m.id)>>
  <2>1. free_ws_message = list /\ Messages = {m}
    BY <1>3, LoopHolds DEF free_ws_message, ws_message_free
  <2>2. Accounts(heap, calls, writes, ptr, Numbers, {m})
    BY <1>1, <2>1
  <2>3. Owns(m, heap, calls, Numbers)
    BY <2>2 DEF Accounts
  <2> HIDE DEF m
  <2>4. /\ Accounts(heap \ g, calls, writes, ptr, Numbers, {}) /\ g \subseteq heap
        /\ Client \notin g /\ Reader \notin g /\ Msg(m.id) \notin ToSet(m.body)
    BY <1>1, <2>2, MessageBooked, ObjectsDiffer
  <2>5. m.body \in Seq(heap) /\ IsInjective(m.body) /\ <<Msg(m.id)>> \in Seq(heap)
    <3>1. CASE m.body = <<>>
      BY <3>1, <2>4, ShortLists
    <3>2. ASSUME NEW x \in heap, m.body = <<x>> PROVE m.body \in Seq(heap) /\ IsInjective(m.body)
      BY <3>2, ShortLists
    <3>3. QED
      BY <2>3, <2>4, <3>1, <3>2 DEF Owns
  <2>6. ToSet(list) = g /\ IsInjective(list) /\ list \in Seq(heap)
    <3> DEFINE s == m.body
               t == <<Msg(m.id)>>
    <3>1. /\ ToSet(t) = {Msg(m.id)} /\ IsInjective(t) /\ ToSet(s) \cap ToSet(t) = {}
          /\ s \in Seq(heap) /\ t \in Seq(heap) /\ IsInjective(s)
      BY <2>4, <2>5, ShortLists
    <3> HIDE DEF s, t
    <3>2. /\ ToSet(s \o t) = ToSet(s) \cup ToSet(t) /\ IsInjective(s \o t)
          /\ s \o t \in Seq(heap)
      BY <3>1, ListsJoined
    <3>3. QED
      BY <3>1, <3>2 DEF s, t
  <2>7. QED
    BY <2>1, <2>4, <2>6
<1>4. QED
  BY <1>2, <1>3

(* ws_client_write uses the client, and the message it answers. *)
LEMMA WriteKeeps ==
  ASSUME OwnershipInv, NEW used, used \subseteq heap,
         ws_client_write(used), UNCHANGED <<ptr, queueVars, msg, calls>>
  PROVE  Queue' /\ Book' /\ fault' = fault
<1>1. writes \in Nat /\ calls \in Nat /\ writes' = writes + 1
      /\ Accounts(heap, calls, writes, ptr, Numbers, Messages)
  BY DEF OwnershipInv, Book, ws_client_write
<1>2. Queue' /\ Numbers' = Numbers /\ Messages' = Messages
  BY DEF OwnershipInv, Queue, Numbers, Ids, Messages, queueVars
<1> DEFINE w == writes + 1
           out == <<"out", w>>
           list == <<out>> \o ws_frame_free(<<Copy(w)>>)
           new == {Copy(w), out}
<1>3. Memory(new, used, list)
  BY <1>1 DEF ws_client_write, Out
<1>4. list = <<out>> /\ ToSet(list) = {out} /\ IsInjective(list)
  <2>1. list = <<out>>
    BY FrameFreed, ObjectsDiffer
  <2>2. QED
    BY <2>1, ShortLists
<1>5. heap' = (heap \cup new) \ {out} /\ fault' = fault
  <2>1. ToSet(list) \subseteq heap \cup new /\ used \subseteq heap \cup new
    BY <1>4
  <2> HIDE DEF list, new, out
  <2>2. QED
    BY <1>3, <1>4, <2>1, MemoryUsed
<1>6. Accounts(heap', calls, w, ptr, Numbers, Messages)
  BY <1>1, <1>5, WriteBooked
<1>7. QED
  BY <1>1, <1>2, <1>5, <1>6 DEF Book

(* Steps that leave the memory and the queues alone. *)
LEMMA QuietKeeps ==
  ASSUME OwnershipInv, UNCHANGED <<ptr, heap, queueVars, msg, countVars, freeing, fault>>,
         \/ pc = "out" /\ ptr = "set" /\ pc' = "loop"
         \/ pc = "msg" /\ pc' = "check"
         \/ pc = "msg" /\ pc' = "leave"
  PROVE  OwnershipInv'
<1>1. Queue' /\ Book'
  BY DEF OwnershipInv, Queue, Book, Numbers, Ids, Messages, queueVars, countVars
<1>2. Place'
  BY DEF OwnershipInv, Place, Slot, queueVars
<1>3. Gone'
  BY DEF OwnershipInv, Gone, Place, queueVars
<1>4. QED
  BY <1>1, <1>2, <1>3 DEF OwnershipInv

LEMMA NextMsgKeeps == ASSUME OwnershipInv, NextMsg PROVE OwnershipInv'
<1>1. /\ pc = "next" /\ UNCHANGED <<ptr, heap, frame_queue, countVars, freeing, fault>>
      /\ ptr = "set" /\ msg = <<>>
  BY DEF NextMsg, OwnershipInv, Gone, Place
<1>2. CASE msg_queue = <<>> /\ pc' = "leave" /\ UNCHANGED <<msg, msg_queue>>
  <2>1. Queue' /\ Book'
    BY <1>1, <1>2 DEF OwnershipInv, Queue, Book, Numbers, Ids, Messages, countVars
  <2>2. Place' /\ Gone'
    BY <1>1, <1>2 DEF OwnershipInv, Place, Gone, Slot
  <2>3. QED
    BY <2>1, <2>2 DEF OwnershipInv
<1>3. CASE /\ msg_queue # <<>> /\ pc' = "msg"
           /\ msg' = <<Head(msg_queue)>> /\ msg_queue' = Tail(msg_queue)
  <2>1. PICK m : msg_queue = <<m>>
    BY <1>3 DEF OwnershipInv, Place, Slot
  <2>2. msg' = <<m>> /\ msg_queue' = <<>>
    BY <1>3, <2>1
  <2>3. Messages' = Messages
    BY <1>1, <2>1, <2>2, ShortLists DEF Messages
  <2>4. Queue' /\ Book'
    BY <1>1, <2>3 DEF OwnershipInv, Queue, Book, Numbers, Ids, countVars
  <2>5. Place' /\ Gone'
    BY <1>1, <1>3, <2>2 DEF OwnershipInv, Place, Gone, Slot
  <2>6. QED
    BY <2>4, <2>5 DEF OwnershipInv
<1>4. QED
  BY <1>2, <1>3 DEF NextMsg

(* The message is handed on: it is used while it is there, with its client. *)
LEMMA DispatchKeeps ==
  ASSUME OwnershipInv, Dispatch, pc' \in {"check", "leave"}, UNCHANGED <<ptr, queueVars, freeing>>,
         ws_client_write(HeldObjects \cup {Client}) \/ NoWrite(HeldObjects)
  PROVE  OwnershipInv'
<1>1. /\ pc = "msg" /\ fault = NoFault /\ msg # <<>> /\ ptr = "set" /\ msg_queue = <<>>
      /\ UNCHANGED <<msg, calls>>
  BY DEF Dispatch, Running, OwnershipInv, Place, Gone
<1>2. HeldObjects \subseteq heap
  BY <1>1, LoopHolds
<1>3. Client \in heap
  BY <1>1 DEF OwnershipInv, Book, Accounts
<1>4. Queue' /\ Book' /\ fault' = fault
  <2>1. CASE ws_client_write(HeldObjects \cup {Client})
    <3>1. HeldObjects \cup {Client} \subseteq heap
      BY <1>2, <1>3
    <3>2. UNCHANGED <<ptr, queueVars, msg, calls>>
      BY <1>1
    <3> DEFINE used == HeldObjects \cup {Client}
    <3> HIDE DEF used
    <3>3. QED
      BY <2>1, <3>1, <3>2, WriteKeeps DEF used
  <2>2. CASE NoWrite(HeldObjects)
    <3> DEFINE none == {}
               list == <<>>
    <3>1. /\ Memory(none, HeldObjects, list) /\ UNCHANGED writes
          /\ ToSet(list) = {} /\ IsInjective(list) /\ none = {}
      BY <2>2, ShortLists DEF NoWrite
    <3> HIDE DEF none, list
    <3>2. heap' = heap /\ fault' = fault
      BY <1>2, <3>1, MemoryUsed
    <3>3. QED
      BY <1>1, <3>1, <3>2
         DEF OwnershipInv, Queue, Book, Numbers, Ids, Messages, queueVars
  <2>3. QED
    BY <2>1, <2>2
<1>5. Place' /\ Gone'
  BY <1>1, <1>4 DEF OwnershipInv, Place, Gone, Slot, queueVars
<1>6. QED
  BY <1>4, <1>5 DEF OwnershipInv

(* The queues of a client that is freed are empty. *)
LEMMA DestroyKeeps ==
  ASSUME Destroy, msg' = <<>> \/ msg' = msg, NEW M, M = ToSet(msg')
  PROVE  Queue' /\ Numbers' = {} /\ Messages' = M /\ msg_queue' = <<>> /\ ptr' = "null"
<1>1. frame_queue' = <<>> /\ msg_queue' = <<>> /\ ptr' = "null"
  BY DEF Destroy
<1>2. Queue' /\ Numbers' = {}
  BY <1>1 DEF Queue, Distinct, Numbers, Ids
<1>3. Messages' = M
  BY <1>1, ShortLists DEF Messages
<1>4. QED
  BY <1>1, <1>2, <1>3

LEMMA CallbackFreesKeeps == ASSUME OwnershipInv, OnDataFrees PROVE OwnershipInv'
<1>1. /\ pc = "msg" /\ fault = NoFault /\ msg # <<>> /\ ptr = "set"
      /\ UNCHANGED <<msg, calls>> /\ UNCHANGED writes /\ Held.type = "text"
      /\ pc' \in {"check", "leave"} /\ Destroy
      /\ freeing' = IF pc' = "check" THEN "callback" ELSE freeing
  BY DEF OnDataFrees, Dispatch, Running, OwnershipInv, Place, Gone
<1>2. HeldObjects \subseteq heap /\ Messages = ToSet(msg)
  BY <1>1, LoopHolds
<1>3. /\ calls \in Nat /\ writes \in Nat /\ Client \in heap /\ Reader \in heap
      /\ Accounts(heap, calls, writes, ptr, Numbers, Messages)
  BY <1>1 DEF OwnershipInv, Book, Accounts
<1>4. heap' = heap \ {Reader, Client} /\ fault' = fault
  <2> DEFINE none == {}
             list == <<Reader, Client>>
  <2>1. /\ Memory(none, HeldObjects, list) /\ none = {}
        /\ ToSet(list) = {Reader, Client} /\ IsInjective(list)
    BY ShortLists, ObjectsDiffer DEF OnDataFrees
  <2> HIDE DEF none, list
  <2>2. QED
    BY <1>2, <1>3, <2>1, MemoryUsed
<1>5. /\ Queue' /\ Numbers' = {} /\ Messages' = Messages /\ msg_queue' = <<>>
      /\ ptr' = "null"
  BY <1>1, <1>2, DestroyKeeps
<1>6. Accounts(heap', calls, writes, "null", {}, Messages)
  BY <1>3, <1>4, ClientBooked
<1>7. Book'
  BY <1>1, <1>3, <1>5, <1>6 DEF Book
<1>8. Held' = Held
  BY <1>1 DEF Held
<1>9. Place' /\ Gone'
  BY <1>1, <1>4, <1>5, <1>8 DEF OwnershipInv, Place, Gone, Slot
<1>10. QED
  BY <1>5, <1>7, <1>9 DEF OwnershipInv

LEMMA CheckFlagKeeps == ASSUME OwnershipInv, CheckFlag PROVE OwnershipInv'
<1>1. pc = "check" /\ fault = NoFault /\ UNCHANGED <<ptr, queueVars, countVars, freeing>>
  BY DEF CheckFlag, Running
<1>2. CASE ptr = "null"
  <2>1. fault' = "null" /\ UNCHANGED <<pc, heap, msg>>
    BY <1>2 DEF CheckFlag
  <2>2. Queue' /\ Book'
    BY <1>1, <2>1 DEF OwnershipInv, Queue, Book, Numbers, Ids, Messages, queueVars, countVars
  <2>3. Place' /\ Gone'
    BY <1>1, <1>2, <2>1 DEF OwnershipInv, Place, Gone, Slot, queueVars
  <2>4. QED
    BY <2>2, <2>3 DEF OwnershipInv
<1>3. CASE ptr # "null"
  <2>1. /\ ptr = "set" /\ pc' \in {"loop", "out"} /\ msg' = <<>>
        /\ Memory({}, {Client}, free_ws_message)
    BY <1>3 DEF CheckFlag, OwnershipInv, Gone
  <2>2. Client \in heap
    BY <2>1 DEF OwnershipInv, Book, Accounts
  <2>3. heap' = heap \ ToSet(free_ws_message) /\ fault' = fault
    <3> DEFINE none == {}
               used == {Client}
    <3>1. /\ Memory(none, used, free_ws_message) /\ used \subseteq heap /\ none = {}
      BY <2>1, <2>2
    <3> HIDE DEF none, used
    <3>2. QED
      BY <1>1, <3>1, MemoryUsed, MessageFreed
  <2>4. msg_queue' = <<>> /\ Messages' = {} /\ Numbers' = Numbers /\ Queue'
    BY <1>1, <2>1, LoopHolds, ShortLists
       DEF OwnershipInv, Queue, Numbers, Ids, Messages, queueVars
  <2>5. Book'
    BY <1>1, <2>3, <2>4, MessageFreed DEF OwnershipInv, Book, countVars
  <2>6. Place' /\ Gone'
    BY <1>1, <2>1, <2>3, <2>4 DEF OwnershipInv, Place, Gone, Slot
  <2>7. QED
    BY <2>4, <2>5, <2>6 DEF OwnershipInv
<1>4. QED
  BY <1>2, <1>3

LEMMA LeaveKeeps == ASSUME OwnershipInv, Leave PROVE OwnershipInv'
<1>1. /\ pc = "leave" /\ fault = NoFault /\ pc' = "out" /\ msg' = <<>>
      /\ UNCHANGED <<countVars, freeing>> /\ ToSet(msg') = {}
  BY ShortLists DEF Leave, Running
<1> DEFINE list == free_ws_message
           last == <<Reader, Client>>
           none == {}
<1>2. /\ list \in Seq(heap) /\ ToSet(list) \subseteq heap /\ IsInjective(list)
      /\ Client \notin ToSet(list) /\ Reader \notin ToSet(list)
      /\ Accounts(heap \ ToSet(list), calls, writes, ptr, Numbers, {})
      /\ calls \in Nat /\ writes \in Nat
  BY <1>1, MessageFreed DEF OwnershipInv, Book
<1>3. CASE msg # <<>> /\ Held.type = "close"
  <2>1. Destroy /\ Memory(none, {}, list \o last)
    BY <1>3 DEF Leave
  <2>2. ptr = "set"
    BY <1>1, <1>3 DEF OwnershipInv, Gone
  <2>3. Client \in heap /\ Reader \in heap
    BY <2>2 DEF OwnershipInv, Book, Accounts
  <2>4. last \in Seq(heap) /\ ToSet(last) = {Reader, Client} /\ IsInjective(last)
    BY <2>3, ShortLists, ObjectsDiffer
  <2>5. none = {}
    OBVIOUS
  <2> HIDE DEF list, last, none
  <2>6. ToSet(list) \cap ToSet(last) = {}
    BY <1>2, <2>4
  <2>7. ToSet(list \o last) = ToSet(list) \cup {Reader, Client} /\ IsInjective(list \o last)
    BY <1>2, <2>4, <2>6, ListsJoined
  <2>8. ToSet(list \o last) \subseteq heap \cup none
    BY <1>2, <2>3, <2>7
  <2>9. heap' = (heap \ ToSet(list)) \ {Reader, Client} /\ fault' = fault
    BY <2>1, <2>5, <2>7, <2>8, MemoryUsed
  <2>10. Queue' /\ Numbers' = {} /\ Messages' = {} /\ msg_queue' = <<>> /\ ptr' = "null"
    BY <1>1, <2>1, DestroyKeeps
  <2>11. Accounts(heap', calls, writes, "null", {}, {})
    BY <1>2, <2>9, ClientBooked
  <2>12. Book'
    BY <1>1, <1>2, <2>10, <2>11 DEF Book, countVars
  <2>13. Place' /\ Gone'
    BY <1>1, <2>9, <2>10 DEF OwnershipInv, Place, Gone, Slot
  <2>14. QED
    BY <2>10, <2>12, <2>13 DEF OwnershipInv
<1>4. CASE ~(msg # <<>> /\ Held.type = "close")
  <2>1. UNCHANGED <<ptr, queueVars>> /\ Memory(none, {}, list) /\ none = {}
    BY <1>4 DEF Leave
  <2> HIDE DEF list, none
  <2>2. heap' = heap \ ToSet(list) /\ fault' = fault
    BY <1>2, <2>1, MemoryUsed
  <2>3. msg_queue' = <<>> /\ Messages' = {} /\ Numbers' = Numbers /\ Queue'
    BY <1>1, <2>1, LoopHolds, ShortLists
       DEF OwnershipInv, Queue, Numbers, Ids, Messages, queueVars
  <2>4. Book'
    BY <1>1, <1>2, <2>1, <2>2, <2>3 DEF Book, countVars
  <2>5. Place' /\ Gone'
    BY <1>1, <2>1, <2>2, <2>3 DEF OwnershipInv, Place, Gone, Slot
  <2>6. QED
    BY <2>3, <2>4, <2>5 DEF OwnershipInv
<1>5. QED
  BY <1>3, <1>4

LEMMA ApplicationKeeps == ASSUME OwnershipInv, AppWrite \/ AppFree PROVE OwnershipInv'
<1>1. pc = "out" /\ ptr = "set" /\ fault = NoFault /\ msg = <<>> /\ msg_queue = <<>>
  BY DEF AppWrite, AppFree, Running, OwnershipInv, Place
<1>2. /\ calls \in Nat /\ writes \in Nat /\ Client \in heap /\ Reader \in heap
      /\ Accounts(heap, calls, writes, ptr, Numbers, Messages) /\ Messages = {}
  BY <1>1, LoopHolds DEF OwnershipInv, Book, Accounts
<1>3. CASE AppWrite
  <2> DEFINE used == {Client}
  <2>1. /\ ws_client_write(used) /\ UNCHANGED <<ptr, queueVars, msg, calls>>
        /\ UNCHANGED <<pc, freeing>> /\ used \subseteq heap
    BY <1>2, <1>3 DEF AppWrite
  <2> HIDE DEF used
  <2>2. Queue' /\ Book' /\ fault' = fault
    BY <2>1, WriteKeeps
  <2>3. Place' /\ Gone'
    BY <1>1, <2>1, <2>2 DEF OwnershipInv, Place, Gone, Slot, queueVars
  <2>4. QED
    BY <2>2, <2>3 DEF OwnershipInv
<1>4. CASE AppFree
  <2> DEFINE none == {}
             list == <<Reader, Client>>
  <2>1. /\ Memory(none, {}, list) /\ none = {} /\ Destroy /\ UNCHANGED <<pc, msg, countVars, freeing>>
        /\ ToSet(list) = {Reader, Client} /\ IsInjective(list) /\ ToSet(msg') = {}
    BY <1>1, <1>4, ShortLists, ObjectsDiffer DEF AppFree
  <2> HIDE DEF none, list
  <2>2. heap' = heap \ {Reader, Client} /\ fault' = fault
    BY <1>2, <2>1, MemoryUsed
  <2>3. Queue' /\ Numbers' = {} /\ Messages' = {} /\ msg_queue' = <<>> /\ ptr' = "null"
    BY <2>1, DestroyKeeps
  <2>4. Accounts(heap', calls, writes, "null", {}, {})
    BY <1>2, <2>2, ClientBooked
  <2>5. Book'
    BY <1>2, <2>1, <2>3, <2>4 DEF Book, countVars
  <2>6. Place' /\ Gone'
    BY <1>1, <2>1, <2>2, <2>3 DEF OwnershipInv, Place, Gone, Slot
  <2>7. QED
    BY <2>3, <2>5, <2>6 DEF OwnershipInv
<1>5. QED
  BY <1>3, <1>4

LEMMA OwnershipNextInv == OwnershipInv /\ [Next]_vars => OwnershipInv'
<1> SUFFICES ASSUME OwnershipInv, [Next]_vars PROVE OwnershipInv'
  OBVIOUS
<1>1. CASE ws_reader_handle
  BY <1>1, ReaderKeeps
<1>2. CASE NextMsg
  BY <1>2, NextMsgKeeps
<1>3. CASE OnMsg \/ OnClose \/ OnOther
  <2>1. UNCHANGED <<ptr, heap, queueVars, msg, countVars, freeing, fault>>
    BY <1>3 DEF OnMsg, OnClose, OnOther, Dispatch, countVars
  <2>2. \/ pc = "out" /\ ptr = "set" /\ pc' = "loop"
        \/ pc = "msg" /\ pc' = "check"
        \/ pc = "msg" /\ pc' = "leave"
    BY <1>3 DEF OnMsg, OnClose, OnOther, Dispatch
  <2>3. QED
    BY <2>1, <2>2, QuietKeeps
<1>4. CASE OnPing \/ OnData
  <2>1. /\ Dispatch /\ pc' \in {"check", "leave"} /\ UNCHANGED <<ptr, queueVars, freeing>>
        /\ ws_client_write(HeldObjects \cup {Client}) \/ NoWrite(HeldObjects)
    BY <1>4 DEF OnPing, OnData
  <2>2. QED
    BY <2>1, DispatchKeeps
<1>5. CASE OnDataFrees
  BY <1>5, CallbackFreesKeeps
<1>6. CASE CheckFlag
  BY <1>6, CheckFlagKeeps
<1>7. CASE Leave
  BY <1>7, LeaveKeeps
<1>8. CASE AppWrite \/ AppFree
  BY <1>8, ApplicationKeeps
<1>9. CASE UNCHANGED vars
  BY <1>9 DEF vars, OwnershipInv, Queue, Place, Gone, Book, Numbers, Ids, Messages,
              Slot, Held, queueVars, countVars
<1>10. QED
  BY <1>1, <1>2, <1>3, <1>4, <1>5, <1>6, <1>7, <1>8, <1>9 DEF Next

LEMMA OwnershipInvariance == Spec => []OwnershipInv
  BY OwnershipInitInv, OwnershipNextInv, PTL DEF Spec

----------------------------------------------------------------------------
(* What follows from the book *)

(* What the messages of a set own. *)
Contents(M) == UNION {MsgObjects(m) : m \in M}

LEMMA ContentsOf ==
  ASSUME NEW M, NEW x PROVE x \in Contents(M) <=> \E m \in M : x \in MsgObjects(m)
  BY DEF Contents

(* What can be reached, in the words of the book. *)
LEMMA ReachableBooked ==
  ASSUME OwnershipInv
  PROVE  Reachable = (IF ptr = "set" THEN {Client, Reader} ELSE {})
                     \cup {Frame(n) : n \in Numbers} \cup {Payload(n) : n \in Numbers}
                     \cup Contents(Messages)
<1>1. Copied(frame_queue) = {Frame(n) : n \in Numbers} \cup {Payload(n) : n \in Numbers}
  <2>1. /\ ToSet(Frames(frame_queue)) = {Frame(n) : n \in Numbers}
    BY FramesFreed DEF OwnershipInv, Queue, Numbers
  <2>2. {Payload(frame_queue[i].id) : i \in 1..Len(frame_queue)} = {Payload(n) : n \in Numbers}
    <3>1. \A i \in 1..Len(frame_queue) : frame_queue[i].id \in Numbers
      BY DEF Numbers, Ids
    <3>2. \A n \in Numbers : \E i \in 1..Len(frame_queue) : n = frame_queue[i].id
      BY DEF Numbers, Ids
    <3>3. QED
      BY <3>1, <3>2
  <2>3. QED
    BY <2>1, <2>2 DEF Copied
<1>2. ASSUME NEW q, Slot(q)
      PROVE  UNION {MsgObjects(q[i]) : i \in 1..Len(q)} = Contents(ToSet(q))
  <2>1. CASE q = <<>>
    BY <2>1, ShortLists DEF Contents
  <2>2. ASSUME NEW m, q = <<m>>
        PROVE  UNION {MsgObjects(q[i]) : i \in 1..Len(q)} = Contents(ToSet(q))
    <3>1. 1..Len(q) = {1} /\ q[1] = m
      BY <2>2
    <3>2. ToSet(q) = {m}
      BY <2>2, ShortLists
    <3>3. {MsgObjects(q[i]) : i \in 1..Len(q)} = {MsgObjects(x) : x \in ToSet(q)}
      BY <3>1, <3>2
    <3>4. QED
      BY <3>3 DEF Contents
  <2>3. QED
    BY <1>2, <2>1, <2>2 DEF Slot
<1>3. /\ UNION {MsgObjects(msg_queue[i]) : i \in 1..Len(msg_queue)} = Contents(ToSet(msg_queue))
      /\ UNION {MsgObjects(msg[i]) : i \in 1..Len(msg)} = Contents(ToSet(msg))
  BY <1>2 DEF OwnershipInv, Place
<1>4. Contents(Messages) = Contents(ToSet(msg_queue)) \cup Contents(ToSet(msg))
  BY ContentsOf DEF Messages
<1>5. QED
  BY <1>1, <1>3, <1>4 DEF Reachable

(* Nothing is used after it was freed or freed twice by the reader, the loop *)
(* and the application, and what the client can reach is allocated, for any  *)
(* number of frames and writes and with allocations that fail anywhere; NULL *)
(* is read only after a callback that freed its own client and went on.      *)
THEOREM MemoryCorrect == Spec => []MemorySafe
<1>1. ASSUME OwnershipInv PROVE MemorySafe
  <2>1. fault # "freed" /\ (fault = "null" => freeing = "callback")
    BY <1>1 DEF OwnershipInv, Gone, NoFault
  <2>2. Accounts(heap, calls, writes, ptr, Numbers, Messages)
    BY <1>1 DEF OwnershipInv, Book
  <2>3. ASSUME NEW m \in Messages PROVE MsgObjects(m) \subseteq heap
    <3>1. Owns(m, heap, calls, Numbers)
      BY <2>2 DEF Accounts
    <3>2. ToSet(m.body) \subseteq heap
      <4>1. ASSUME NEW x \in heap, m.body = <<x>> PROVE ToSet(m.body) \subseteq heap
        BY <4>1, ShortLists
      <4>2. CASE m.body = <<>>
        BY <4>2, ShortLists
      <4>3. QED
        BY <3>1, <4>1, <4>2 DEF Owns
    <3>3. QED
      BY <3>1, <3>2 DEF MsgObjects, Owns
  <2>4. Reachable \subseteq heap
    BY <1>1, <2>2, <2>3, ReachableBooked, ContentsOf DEF Accounts
  <2>5. QED
    BY <2>1, <2>4 DEF MemorySafe
<1>2. QED
  BY <1>1, OwnershipInvariance, PTL

(* Whatever the socket and the allocator do, each call of ws_reader_handle   *)
(* leaves at most its read buffer and one of its frame and payload behind,   *)
(* both only in a reader that was destroyed with the frame in its queue; no  *)
(* message is ever lost.                                                     *)
THEOREM LeaksCorrect == Spec => []LeaksBounded
<1>1. ASSUME OwnershipInv PROVE LeaksBounded
  <2> SUFFICES ASSUME NEW i \in 1..calls
               PROVE  LET kinds == {o[1] : o \in {p \in Lost : p[2] = i}} \ {"copy"}
                      IN /\ kinds \subseteq {"buffer", "payload", "frame"}
                         /\ {"payload", "frame"} \subseteq kinds => ptr = "null"
    BY DEF LeaksBounded
  <2> DEFINE kinds == {o[1] : o \in {p \in Lost : p[2] = i}} \ {"copy"}
  <2>1. calls \in Nat /\ Accounts(heap, calls, writes, ptr, Numbers, Messages)
    BY <1>1 DEF OwnershipInv, Book
  <2>2. ASSUME NEW o \in Lost, o[2] = i
        PROVE  o = Frame(i) \/ o = Buffer(i) \/ o = Payload(i) \/ o = Copy(i)
    <3>1. o \in heap /\ o \notin Reachable
      BY <2>2 DEF Lost
    <3>2. o # Client /\ o # Reader
      BY <2>1, <2>2 DEF Client, Reader
    <3>3. ASSUME NEW n, o = Copy(n) PROVE n = i
      BY <2>2, <3>3 DEF Copy
    <3>4. ASSUME NEW n, o = Frame(n) \/ o = Buffer(n) \/ o = Payload(n) \/ o = Msg(n) \/ o = MsgBody(n)
          PROVE  n = i
      BY <2>2, <3>4 DEF Frame, Buffer, Payload, Msg, MsgBody
    <3>5. o # Msg(i)
      <4>1. SUFFICES ASSUME o = Msg(i) PROVE FALSE
        OBVIOUS
      <4>2. PICK m \in Messages : m.id = i
        BY <2>1, <3>1, <4>1 DEF Accounts
      <4>3. o \in MsgObjects(m)
        BY <4>1, <4>2 DEF MsgObjects
      <4>4. QED
        BY <1>1, <3>1, <4>3, ReachableBooked, ContentsOf
    <3>6. o # MsgBody(i)
      <4>1. SUFFICES ASSUME o = MsgBody(i) PROVE FALSE
        OBVIOUS
      <4>2. PICK m \in Messages : m.id = i /\ m.body = <<MsgBody(i)>>
        BY <2>1, <3>1, <4>1 DEF Accounts
      <4>3. o \in MsgObjects(m)
        BY <4>1, <4>2, ShortLists DEF MsgObjects
      <4>4. QED
        BY <1>1, <3>1, <4>3, ReachableBooked, ContentsOf
    <3>7. QED
      BY <2>1, <3>1, <3>2, <3>3, <3>4, <3>5, <3>6 DEF Accounts
  <2>3. kinds \subseteq {"buffer", "payload", "frame"}
    BY <2>2 DEF Frame, Buffer, Payload, Copy
  <2>4. ASSUME {"payload", "frame"} \subseteq kinds PROVE ptr = "null"
    <3>1. Frame(i) \in Lost
      <4>1. PICK o \in Lost : o[2] = i /\ o[1] = "frame"
        BY <2>4
      <4>2. QED
        BY <2>2, <4>1 DEF Frame, Buffer, Payload, Copy
    <3>2. Payload(i) \in Lost
      <4>1. PICK o \in Lost : o[2] = i /\ o[1] = "payload"
        BY <2>4
      <4>2. QED
        BY <2>2, <4>1 DEF Frame, Buffer, Payload, Copy
    <3>3. /\ Frame(i) \in heap /\ Payload(i) \in heap
          /\ Frame(i) \notin Reachable /\ Payload(i) \notin Reachable
      BY <3>1, <3>2 DEF Lost
    <3>4. i \notin Numbers
      BY <1>1, <3>3, ReachableBooked
    <3>5. ASSUME NEW m \in Messages, m.id = i, m.body = <<Payload(i)>> PROVE FALSE
      <4>1. Payload(i) \in MsgObjects(m)
        BY <3>5, ShortLists DEF MsgObjects
      <4>2. QED
        BY <1>1, <3>3, <4>1, ReachableBooked, ContentsOf
    <3>6. QED
      BY <2>1, <3>3, <3>4, <3>5 DEF Accounts
  <2>5. QED
    BY <2>3, <2>4
<1>2. QED
  BY <1>1, OwnershipInvariance, PTL

=============================================================================
