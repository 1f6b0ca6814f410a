-------------------------- MODULE ChunkWriterProofs --------------------------
(***************************************************************************)
(* Proofs about ChunkWriter, for all chunk sizes, lengths, times, pools    *)
(* and connections: no message is written beyond its buffer, a client      *)
(* loses step only at an empty or a late message, and the ticks of the one *)
(* video clock go to one frame each.                                       *)
(***************************************************************************)
EXTENDS ChunkWriter, TLAPS, WellFoundedInduction, FiniteSetTheorems

(* The messages of the handlers: their chunk stream ids take one byte.       *)
Message == [size : Nat \ {0}, id : 2..6, type : Types, time : Nat, len : Nat]

-----------------------------------------------------------------------------
(* Arithmetic                                                                *)

(* Division as the code uses it.                                             *)
LEMMA Division ==
  ASSUME NEW n \in Nat, NEW k \in Nat \ {0}
  PROVE  /\ n \div k \in Nat
         /\ n % k \in 0..(k - 1)
         /\ n = (n \div k) * k + (n % k)
  OBVIOUS

(* A product with a natural factor, once the other one is positive.          *)
LEMMA Products ==
  ASSUME NEW a \in Nat, NEW b \in Nat, NEW k \in Nat \ {0}, a <= b
  PROVE  a * k \in Nat /\ a * k <= b * k /\ (a = 0 => a * k = 0) /\ (a > 0 => a * k >= k)
  OBVIOUS

(* The order of the natural numbers, in the form that WFMin can use.         *)
LEMMA NatOrder == IsWellFoundedOn({xy \in Nat \X Nat : xy[1] < xy[2]}, Nat)
  BY NatLessThanWellFounded DEF OpToRel

(* Least returns the smallest element of a set of numbers.                   *)
LEMMA LeastIsLeast ==
  ASSUME NEW S \in SUBSET Nat, S # {}
  PROVE  Least(S) \in S /\ \A y \in S : Least(S) <= y
<1>1. PICK x \in S : \A y \in S : ~(<<y, x>> \in {xy \in Nat \X Nat : xy[1] < xy[2]})
  BY NatOrder, WFMin
<1>2. \A y \in S : x <= y
  <2>1. ASSUME NEW y \in S  PROVE x <= y
    <3>1. <<y, x>> \in Nat \X Nat /\ x \in Nat /\ y \in Nat
      OBVIOUS
    <3>2. ~(y < x)
      BY <1>1, <3>1
    <3> QED  BY <3>1, <3>2
  <2> QED  BY <2>1
<1> QED  BY <1>2 DEF Least

(* Full chunks and the rest make up the message.                             *)
LEMMA Parts ==
  ASSUME NEW m \in Message
  PROVE  /\ Full(m) \in Nat /\ Rest(m) \in 0..(m.size - 1)
         /\ Full(m) * m.size \in Nat
         /\ m.len = Full(m) * m.size + Rest(m)
         /\ (Full(m) = 0 <=> m.len < m.size)
         /\ (m.len = 0 <=> Full(m) = 0 /\ Rest(m) = 0)
         /\ m.len > m.size /\ Rest(m) # 0 <=> Full(m) > 0 /\ Rest(m) # 0
<1>1. m.len \in Nat /\ m.size \in Nat \ {0}
  BY DEF Message
<1>2. Full(m) \in Nat /\ Rest(m) \in 0..(m.size - 1) /\ m.len = Full(m) * m.size + Rest(m)
  BY <1>1, Division DEF Full, Rest
<1>3. Full(m) * m.size \in Nat /\ (Full(m) = 0 => Full(m) * m.size = 0) /\ (Full(m) > 0 => Full(m) * m.size >= m.size)
  BY <1>1, <1>2, Products
<1> QED  BY <1>1, <1>2, <1>3

(* One header less than there are chunks follows the first one.              *)
LEMMA Headers ==
  ASSUME NEW m \in Message
  PROVE  /\ LaterHeaders(m) \in Nat
         /\ m.len = 0 => LaterHeaders(m) = 0
         /\ m.len > 0 => 1 + LaterHeaders(m) = Full(m) + (IF Rest(m) = 0 THEN 0 ELSE 1)
  BY Parts DEF LaterHeaders

(* The ids in use take one byte.                                             *)
LEMMA OneByte ==
  ASSUME NEW m \in Message
  PROVE  Basic(m.id) = 1
  BY DEF Basic, Message

(* What a send writes, with the chunk size that is in force.                 *)
LEMMA WrittenIs ==
  ASSUME NEW m \in Message
  PROVE  Written(m) = 12 + m.len + LaterHeaders(m)
  BY OneByte, Headers, Parts DEF Written, Message

(* What a send announces, with the chunk size that is in force.              *)
LEMMA AnnouncedIs ==
  ASSUME NEW m \in Message
  PROVE  Announced(m) = 12 + m.len + LaterHeaders(m) - (IF m.len = 0 THEN 1 ELSE 0)
                           + (IF m.time >= ExtTime THEN 4 ELSE 0)
<1>1. Announced(m) = 11 + m.len + Full(m) - (IF Rest(m) = 0 THEN 1 ELSE 0)
                        + 1 + (IF m.time >= ExtTime THEN 4 ELSE 0)
  BY OneByte DEF Announced, Full, Rest
<1> QED  BY <1>1, Headers, Parts, WriterAssumption DEF Message

(* The smaller of two numbers.                                               *)
LEMMA LeastOfTwo ==
  ASSUME NEW a \in Nat, NEW b \in Nat
  PROVE  Least({a, b}) = IF a <= b THEN a ELSE b
<1>1. Least({a, b}) \in {a, b} /\ \A y \in {a, b} : Least({a, b}) <= y
  BY LeastIsLeast
<1> QED  BY <1>1

(* A quotient is known by its remainder.                                     *)
LEMMA Quotient ==
  ASSUME NEW q \in Nat, NEW k \in Nat \ {0}, NEW r \in 0..(k - 1), NEW n \in Nat, n = q * k + r
  PROVE  n \div k = q
<1> DEFINE d == n \div k
<1>1. d \in Nat /\ n % k \in 0..(k - 1) /\ n = d * k + (n % k)
  BY Division
<1> HIDE DEF d
<1>2. ASSUME d < q PROVE FALSE
  <2>1. (d + 1) * k <= q * k
    BY <1>1, <1>2, Products
  <2>2. (d + 1) * k = d * k + k /\ d * k \in Nat /\ q * k \in Nat
    BY <1>1
  <2> QED  BY <1>1, <2>1, <2>2
<1>3. ASSUME q < d PROVE FALSE
  <2>1. (q + 1) * k <= d * k
    BY <1>1, <1>3, Products
  <2>2. (q + 1) * k = q * k + k /\ d * k \in Nat /\ q * k \in Nat
    BY <1>1
  <2> QED  BY <1>1, <2>1, <2>2
<1> QED  BY <1>1, <1>2, <1>3 DEF d

(* The number of chunks, by the code and by the protocol.                    *)
LEMMA SameCount ==
  ASSUME NEW m \in Message, m.len > 0
  PROVE  (m.len + m.size - 1) \div m.size = 1 + LaterHeaders(m)
<1> DEFINE n == m.len + m.size - 1
           q == Full(m) + (IF Rest(m) = 0 THEN 0 ELSE 1)
           r == IF Rest(m) = 0 THEN m.size - 1 ELSE Rest(m) - 1
<1>1. m.len \in Nat /\ m.size \in Nat \ {0}
  BY DEF Message
<1>2. n \in Nat /\ q \in Nat /\ r \in 0..(m.size - 1)
  BY <1>1, Parts
<1>3. n = q * m.size + r
  <2>1. (Full(m) + 1) * m.size = Full(m) * m.size + m.size /\ (Full(m) + 0) * m.size = Full(m) * m.size
    BY <1>1, Parts
  <2> QED  BY <1>1, <2>1, Parts
<1> HIDE DEF n, q, r
<1>4. n \div m.size = q
  BY <1>1, <1>2, <1>3, Quotient
<1> QED  BY <1>4, Headers DEF n, q

(* The size of the body of each chunk.                                       *)
LEMMA SameBodies ==
  ASSUME NEW m \in Message, m.len > 0, NEW i \in 1..(1 + LaterHeaders(m))
  PROVE  Least({m.size, m.len - (i - 1) * m.size}) = IF i <= Full(m) THEN m.size ELSE Rest(m)
<1>1. m.len \in Nat /\ m.size \in Nat \ {0} /\ i \in Nat
  BY Headers DEF Message
<1>2. CASE i <= Full(m)
  <2>1. i * m.size <= Full(m) * m.size
    BY <1>1, <1>2, Parts, Products
  <2>2. (i - 1) * m.size = i * m.size - m.size /\ i * m.size \in Nat
    BY <1>1
  <2>3. m.len - (i - 1) * m.size \in Nat /\ m.size <= m.len - (i - 1) * m.size
    BY <1>1, <2>1, <2>2, Parts
  <2>4. Least({m.size, m.len - (i - 1) * m.size}) = m.size
    BY <1>1, <2>3, LeastOfTwo
  <2> QED  BY <1>2, <2>4
<1>3. CASE i > Full(m)
  <2>1. i - 1 = Full(m)
    BY <1>1, <1>3, Headers, Parts
  <2>2. m.len - (i - 1) * m.size = Rest(m)
    BY <1>1, <2>1, Parts
  <2>3. Rest(m) \in Nat /\ Rest(m) < m.size
    BY <1>1, Parts
  <2>4. Least({m.size, Rest(m)}) = Rest(m)
    BY <1>1, <2>3, LeastOfTwo
  <2>5. ~(i <= Full(m))
    BY <1>1, <1>3, Parts
  <2> QED  BY <2>2, <2>4, <2>5
<1> QED  BY <1>1, <1>2, <1>3, Parts

(* A message that is neither empty nor late is cut as the protocol says.     *)
LEMMA CutRight ==
  ASSUME NEW m \in Message, m.len > 0, m.time < ExtTime
  PROVE  Chunks(m) = Expected(m.size, m)
<1>1. Announced(m) - Written(m) = 0 /\ Basic(m.id) = 1
  BY AnnouncedIs, WrittenIs, OneByte, Headers, WriterAssumption DEF Message
<1>2. 1 + LaterHeaders(m) = (m.len + m.size - 1) \div m.size /\ m.len # 0
  BY SameCount DEF Message
<1>3. \A i \in 1..(1 + LaterHeaders(m)) :
        /\ (IF i <= Full(m) THEN m.size ELSE Rest(m)) \in Nat
        /\ Least({m.size, m.len - (i - 1) * m.size}) = IF i <= Full(m) THEN m.size ELSE Rest(m)
  BY SameBodies, Parts DEF Message
<1>4. ~(m.time >= ExtTime)
  BY WriterAssumption DEF Message
<1>5. \A i \in 1..(1 + LaterHeaders(m)) :
        (IF i <= Full(m) THEN m.size ELSE Rest(m)) + (IF i = 1 + LaterHeaders(m) THEN 0 ELSE 0)
          = Least({m.size, m.len - (i - 1) * m.size})
  BY <1>3
<1> QED  BY <1>1, <1>2, <1>4, <1>5 DEF Chunks, Expected

(* No message exceeds its buffer.                                            *)
LEMMA Fits ==
  ASSUME NEW m \in Message, Alloc(Announced(m)) # Null
  PROVE  Written(m) <= Alloc(Announced(m))
<1> DEFINE a == Alloc(Announced(m))
<1>1. Fitting(Announced(m)) \in SUBSET Nat /\ Fitting(Announced(m)) # {}
  BY WriterAssumption DEF Alloc, Fitting
<1>2. a \in Fitting(Announced(m))
  BY <1>1, LeastIsLeast DEF Alloc
<1>3. a \in Nat /\ a >= 16 /\ a >= Announced(m)
  BY <1>2, WriterAssumption DEF Fitting
<1>4. m.len \in Nat /\ LaterHeaders(m) \in Nat /\ (m.len = 0 => LaterHeaders(m) = 0)
  BY Headers DEF Message
<1> HIDE DEF a
<1>5. Written(m) <= a
  BY <1>3, <1>4, WrittenIs, AnnouncedIs
<1> QED  BY <1>5 DEF a

-----------------------------------------------------------------------------
(* The inductive invariant                                                   *)

(* The chunk size in force after message m, and after n messages of s.       *)
After(m) == IF m.type = "size" THEN NewChunkSize ELSE m.size
SizeAt(s, n) == IF n = 0 THEN InitChunkSize ELSE After(s[n])

Cuts == {Chunks(m) : m \in Message}

TypeInv ==
  /\ outchunksiz \in [Conns -> Nat \ {0}]
  /\ p \in Nat
  /\ wire \in [Conns -> Seq(Cuts)]
  /\ sent \in [Conns -> Seq(Message)]
  /\ received \in [Conns -> Nat]
  /\ insize \in [Conns -> Nat \ {0}]
  /\ lost \in [Conns -> BOOLEAN]
  /\ down \in BOOLEAN

(* The wire holds the chunks of the messages that were not read.             *)
WireInv(c) ==
  /\ received[c] + Len(wire[c]) <= Len(sent[c])
  /\ ~down => received[c] + Len(wire[c]) = Len(sent[c])
  /\ \A k \in 1..Len(wire[c]) : wire[c][k] = Chunks(sent[c][received[c] + k])

(* Each message was sent with the size in force, and either side goes by the *)
(* size in force after its last message.                                     *)
SizeInv(c) ==
  /\ \A i \in 1..Len(sent[c]) : sent[c][i].size = SizeAt(sent[c], i - 1)
  /\ outchunksiz[c] = SizeAt(sent[c], Len(sent[c]))
  /\ insize[c] = SizeAt(sent[c], received[c])

LostInv(c) ==
  lost[c] =>
    /\ received[c] < Len(sent[c])
    /\ sent[c][received[c] + 1].len = 0 \/ sent[c][received[c] + 1].time >= ExtTime

IInv == TypeInv /\ \A c \in Conns : WireInv(c) /\ SizeInv(c) /\ LostInv(c)

(* The invariant holds at the start.                                         *)
LEMMA InitIInv == Init => IInv
<1> SUFFICES ASSUME Init  PROVE IInv
  OBVIOUS
<1>1. TypeInv
  <2>1. InitChunkSize \in Nat \ {0}
    BY WriterAssumption
  <2>2. \A S : <<>> \in Seq(S)
    OBVIOUS
  <2>3. wire \in [Conns -> Seq(Cuts)] /\ sent \in [Conns -> Seq(Message)]
    BY <2>2 DEF Init
  <2> QED  BY <2>1, <2>3 DEF Init, TypeInv
<1>2. ASSUME NEW c \in Conns  PROVE WireInv(c) /\ SizeInv(c) /\ LostInv(c)
  <2>1. wire[c] = <<>> /\ sent[c] = <<>> /\ received[c] = 0 /\ ~lost[c]
        /\ outchunksiz[c] = InitChunkSize /\ insize[c] = InitChunkSize
    BY DEF Init
  <2>2. Len(wire[c]) = 0 /\ Len(sent[c]) = 0
    BY <2>1
  <2>3. WireInv(c)
    BY <2>1, <2>2 DEF WireInv
  <2>4. SizeInv(c)
    BY <2>1, <2>2 DEF SizeInv, SizeAt
  <2> QED  BY <2>1, <2>3, <2>4 DEF LostInv
<1> QED  BY <1>1, <1>2 DEF IInv

(* Each of msgs has the size in force when it is sent, the first one size o. *)
InForce(o, msgs) ==
  \A i \in 1..Len(msgs) : msgs[i].size = IF i = 1 THEN o ELSE After(msgs[i - 1])

(* A run of chunks after another.                                            *)
LEMMA Joined ==
  ASSUME NEW S, NEW a \in Seq(S), NEW b \in Seq(S)
  PROVE  /\ a \o b \in Seq(S) /\ Len(a \o b) = Len(a) + Len(b)
         /\ \A i \in 1..Len(a) : (a \o b)[i] = a[i]
         /\ \A i \in 1..Len(b) : (a \o b)[Len(a) + i] = b[i]
  OBVIOUS

CutAll(msgs) == [i \in DOMAIN msgs |-> Chunks(msgs[i])]

(* Cutting gives chunks.                                                     *)
LEMMA CutAllType ==
  ASSUME NEW msgs \in Seq(Message)
  PROVE  /\ CutAll(msgs) \in Seq(Cuts) /\ Len(CutAll(msgs)) = Len(msgs)
         /\ \A i \in 1..Len(msgs) : CutAll(msgs)[i] = Chunks(msgs[i])
<1>1. DOMAIN msgs = 1..Len(msgs) /\ Len(msgs) \in Nat /\ \A i \in 1..Len(msgs) : msgs[i] \in Message
  OBVIOUS
<1>2. \A i \in 1..Len(msgs) : Chunks(msgs[i]) \in Cuts
  BY <1>1 DEF Cuts
<1> QED  BY <1>1, <1>2 DEF CutAll

(* Indices after the first.                                                  *)
LEMMA Shift ==
  ASSUME NEW a \in Int, NEW b \in Int, NEW d \in Int, NEW k \in Int, NEW i \in Int, a + b = d, k = b + i
  PROVE  a + k = d + i
  OBVIOUS

(* The chunks of new messages continue those of the old ones.                *)
LEMMA WireGrows ==
  ASSUME NEW s \in Seq(Message), NEW msgs \in Seq(Message), NEW w \in Seq(Cuts), NEW r \in Nat,
         r + Len(w) = Len(s), \A k \in 1..Len(w) : w[k] = Chunks(s[r + k])
  PROVE  /\ r + Len(w \o CutAll(msgs)) = Len(s \o msgs)
         /\ \A k \in 1..Len(w \o CutAll(msgs)) : (w \o CutAll(msgs))[k] = Chunks((s \o msgs)[r + k])
<1> DEFINE new == CutAll(msgs)
<1>1. new \in Seq(Cuts) /\ Len(new) = Len(msgs) /\ \A i \in 1..Len(msgs) : new[i] = Chunks(msgs[i])
  BY CutAllType
<1> HIDE DEF new
<1>2. Len(w) \in Nat /\ Len(s) \in Nat /\ Len(msgs) \in Nat
  OBVIOUS
<1>3. Len(w \o new) = Len(w) + Len(msgs) /\ Len(s \o msgs) = Len(s) + Len(msgs)
  <2>1. Len(w \o new) = Len(w) + Len(new)
    BY <1>1, Joined
  <2>2. Len(s \o msgs) = Len(s) + Len(msgs)
    BY Joined
  <2> QED  BY <1>1, <2>1, <2>2
<1>4. ASSUME NEW k \in 1..Len(w \o new)  PROVE (w \o new)[k] = Chunks((s \o msgs)[r + k])
  <2>1. CASE k <= Len(w)
    <3>1. k \in 1..Len(w) /\ r + k \in 1..Len(s)
      BY <1>2, <2>1
    <3> QED  BY <1>1, <3>1, Joined
  <2>2. CASE k > Len(w)
    <3>1. PICK i \in 1..Len(msgs) : k = Len(w) + i
      <4>1. k - Len(w) \in 1..Len(msgs) /\ k = Len(w) + (k - Len(w))
        BY <1>2, <1>3, <2>2
      <4> QED  BY <4>1
    <3>2. r + k = Len(s) + i
      <4> DEFINE b == Len(w)  d == Len(s)
      <4>1. i \in Int /\ k \in Int /\ r \in Int /\ b \in Int /\ d \in Int
        BY <1>2, <3>1
      <4>2. r + b = d /\ k = b + i
        BY <3>1
      <4> HIDE DEF b, d
      <4>3. r + k = d + i
        BY <4>1, <4>2, Shift
      <4> QED  BY <4>3 DEF d
    <3>3. (w \o new)[k] = new[i]
      BY <1>1, <3>1, Joined
    <3>4. (s \o msgs)[Len(s) + i] = msgs[i]
      BY Joined
    <3>5. (s \o msgs)[r + k] = msgs[i]
      BY <3>2, <3>4
    <3> QED  BY <1>1, <3>1, <3>3, <3>5
  <2>3. k \in Int /\ (k <= Len(w) \/ k > Len(w))
    BY <1>2, <1>3
  <2> QED  BY <2>1, <2>2, <2>3
<1>5. r + (Len(w) + Len(msgs)) = Len(s) + Len(msgs)
  BY <1>2
<1> QED  BY <1>3, <1>4, <1>5 DEF new

(* The sizes of new messages continue those of the old ones.                 *)
LEMMA SizesGrow ==
  ASSUME NEW s \in Seq(Message), NEW msgs \in Seq(Message), Len(msgs) > 0,
         \A i \in 1..Len(s) : s[i].size = SizeAt(s, i - 1),
         InForce(SizeAt(s, Len(s)), msgs)
  PROVE  /\ \A i \in 1..Len(s \o msgs) : (s \o msgs)[i].size = SizeAt(s \o msgs, i - 1)
         /\ SizeAt(s \o msgs, Len(s \o msgs)) = After(msgs[Len(msgs)])
         /\ \A n \in 0..Len(s) : SizeAt(s \o msgs, n) = SizeAt(s, n)
<1> DEFINE t == s \o msgs
<1>1. /\ Len(s) \in Nat /\ Len(msgs) \in Nat /\ Len(t) = Len(s) + Len(msgs)
      /\ \A i \in 1..Len(s) : t[i] = s[i]
      /\ \A i \in 1..Len(msgs) : t[Len(s) + i] = msgs[i]
  BY Joined
<1> HIDE DEF t
<1>2. \A n \in 0..Len(s) : SizeAt(t, n) = SizeAt(s, n)
  BY <1>1 DEF SizeAt
<1>3. SizeAt(t, Len(t)) = After(msgs[Len(msgs)])
  <2>1. Len(msgs) \in 1..Len(msgs) /\ Len(t) # 0
    BY <1>1
  <2>2. t[Len(t)] = msgs[Len(msgs)]
    BY <1>1, <2>1
  <2> QED  BY <2>1, <2>2 DEF SizeAt
<1>4. ASSUME NEW i \in 1..Len(t)  PROVE t[i].size = SizeAt(t, i - 1)
  <2>1. CASE i <= Len(s)
    <3>1. i \in 1..Len(s) /\ i - 1 \in 0..Len(s)
      BY <1>1, <2>1
    <3> QED  BY <1>1, <1>2, <3>1
  <2>2. CASE i = Len(s) + 1
    <3>1. t[i] = msgs[1] /\ i - 1 = Len(s) /\ Len(s) \in 0..Len(s) /\ 1 \in 1..Len(msgs)
      BY <1>1, <2>2
    <3>2. msgs[1].size = SizeAt(s, Len(s))
      BY <3>1 DEF InForce
    <3> QED  BY <1>2, <3>1, <3>2
  <2>3. CASE i > Len(s) + 1
    <3>1. PICK j \in 2..Len(msgs) : i = Len(s) + j
      <4>1. i - Len(s) \in 2..Len(msgs) /\ i = Len(s) + (i - Len(s))
        BY <1>1, <2>3
      <4> QED  BY <4>1
    <3>2. j \in 1..Len(msgs) /\ j - 1 \in 1..Len(msgs) /\ i - 1 = Len(s) + (j - 1) /\ i - 1 # 0 /\ j # 1
      BY <1>1, <3>1
    <3>3. t[i] = msgs[j] /\ t[i - 1] = msgs[j - 1]
      BY <1>1, <3>1, <3>2
    <3>4. msgs[j].size = After(msgs[j - 1])
      BY <3>2 DEF InForce
    <3> QED  BY <3>2, <3>3, <3>4 DEF SizeAt
  <2> QED  BY <1>1, <2>1, <2>2, <2>3
<1> QED  BY <1>2, <1>3, <1>4 DEF t

(* Sending msgs keeps the invariant when each of them has the size in force. *)
LEMMA SendIInv ==
  ASSUME IInv, MayCall, NEW c \in Conns, NEW msgs \in Seq(Message), Len(msgs) > 0,
         InForce(outchunksiz[c], msgs), Send(c, msgs),
         outchunksiz' = [outchunksiz EXCEPT ![c] = After(msgs[Len(msgs)])],
         p' \in Nat
  PROVE  IInv'
<1>1. TypeInv /\ WireInv(c) /\ SizeInv(c) /\ LostInv(c)
  BY DEF IInv
<1>2. /\ sent[c] \in Seq(Message) /\ wire[c] \in Seq(Cuts) /\ received[c] \in Nat
      /\ Len(sent[c]) \in Nat /\ Len(wire[c]) \in Nat /\ Len(msgs) \in Nat
  <2>1. sent[c] \in Seq(Message) /\ wire[c] \in Seq(Cuts) /\ received[c] \in Nat
    BY <1>1 DEF TypeInv
  <2> QED  BY <2>1
<1>3. received' = received /\ insize' = insize /\ lost' = lost
  BY DEF Send
<1>4. sent' = [sent EXCEPT ![c] = @ \o msgs] /\ sent'[c] = sent[c] \o msgs
  BY <1>1 DEF Send, TypeInv
<1>5. After(msgs[Len(msgs)]) \in Nat \ {0}
  <2>1. msgs[Len(msgs)] \in Message
    BY <1>2
  <2> QED  BY <2>1, WriterAssumption DEF After, Message
<1>6. /\ sent'[c] \in Seq(Message) /\ Len(sent'[c]) = Len(sent[c]) + Len(msgs)
      /\ \A i \in 1..Len(sent[c]) : sent'[c][i] = sent[c][i]
  BY <1>2, <1>4, Joined
<1>7. \/ wire' = wire /\ down'
      \/ wire' = [wire EXCEPT ![c] = @ \o CutAll(msgs)] /\ down' = down
  BY DEF Send, CutAll
<1>8. TypeInv'
  <2>1. wire[c] \o CutAll(msgs) \in Seq(Cuts)
    BY <1>2, CutAllType, Joined
  <2>2. wire' \in [Conns -> Seq(Cuts)]
    BY <1>1, <1>7, <2>1 DEF TypeInv
  <2>3. down' \in BOOLEAN
    BY <1>1, <1>7 DEF TypeInv
  <2>4. sent' \in [Conns -> Seq(Message)]
    BY <1>1, <1>4, <1>6 DEF TypeInv
  <2>5. outchunksiz' \in [Conns -> Nat \ {0}]
    BY <1>1, <1>5 DEF TypeInv
  <2> QED  BY <1>1, <1>3, <2>2, <2>3, <2>4, <2>5 DEF TypeInv
<1>9. WireInv(c)'
  <2>1. received[c] + Len(wire[c]) = Len(sent[c]) /\ \A k \in 1..Len(wire[c]) : wire[c][k] = Chunks(sent[c][received[c] + k])
    BY <1>1 DEF WireInv, MayCall
  <2>2. CASE wire' = wire /\ down'
    <3>1. \A k \in 1..Len(wire[c]) : received[c] + k \in 1..Len(sent[c])
      BY <1>2, <2>1
    <3>2. received[c] + Len(wire[c]) <= Len(sent'[c])
      BY <1>2, <1>6, <2>1
    <3> QED  BY <1>3, <1>6, <2>1, <2>2, <3>1, <3>2 DEF WireInv
  <2>3. CASE wire' = [wire EXCEPT ![c] = @ \o CutAll(msgs)]
    <3>1. wire'[c] = wire[c] \o CutAll(msgs)
      BY <1>1, <2>3 DEF TypeInv
    <3> DEFINE w == wire[c]  s == sent[c]  r == received[c]
    <3>4. s \in Seq(Message) /\ w \in Seq(Cuts) /\ r \in Nat /\ r + Len(w) = Len(s)
          /\ \A k \in 1..Len(w) : w[k] = Chunks(s[r + k])
      BY <1>2, <2>1
    <3>5. wire'[c] = w \o CutAll(msgs) /\ sent'[c] = s \o msgs
      BY <1>4, <3>1
    <3> HIDE DEF w, s, r
    <3>7. /\ r + Len(w \o CutAll(msgs)) = Len(s \o msgs)
          /\ \A k \in 1..Len(w \o CutAll(msgs)) : (w \o CutAll(msgs))[k] = Chunks((s \o msgs)[r + k])
      BY <3>4, WireGrows
    <3>2. /\ received[c] + Len(wire'[c]) = Len(sent'[c])
          /\ \A k \in 1..Len(wire'[c]) : wire'[c][k] = Chunks(sent'[c][received[c] + k])
      BY <3>5, <3>7 DEF r
    <3>3. Len(sent'[c]) <= Len(sent'[c])
      BY <1>2, <1>6
    <3> QED  BY <1>3, <3>2, <3>3 DEF WireInv
  <2> QED  BY <1>7, <2>2, <2>3
<1>10. SizeInv(c)'
  <2>1. /\ \A i \in 1..Len(sent'[c]) : sent'[c][i].size = SizeAt(sent'[c], i - 1)
        /\ SizeAt(sent'[c], Len(sent'[c])) = After(msgs[Len(msgs)])
        /\ \A n \in 0..Len(sent[c]) : SizeAt(sent'[c], n) = SizeAt(sent[c], n)
    BY <1>1, <1>2, <1>4, SizesGrow DEF SizeInv
  <2>2. outchunksiz'[c] = After(msgs[Len(msgs)])
    BY <1>1 DEF TypeInv
  <2>3. received[c] \in 0..Len(sent[c])
    BY <1>1, <1>2 DEF WireInv
  <2> QED  BY <1>1, <1>3, <2>1, <2>2, <2>3 DEF SizeInv
<1>11. LostInv(c)'
  <2>1. received[c] < Len(sent[c]) => received[c] + 1 \in 1..Len(sent[c]) /\ received[c] < Len(sent'[c])
    BY <1>2, <1>6
  <2> QED  BY <1>1, <1>3, <1>6, <2>1 DEF LostInv
<1>12. ASSUME NEW d \in Conns \ {c}  PROVE (WireInv(d) /\ SizeInv(d) /\ LostInv(d))'
  <2>1. sent'[d] = sent[d] /\ wire'[d] = wire[d] /\ outchunksiz'[d] = outchunksiz[d]
    BY <1>1, <1>4, <1>7 DEF TypeInv
  <2>2. WireInv(d) /\ SizeInv(d) /\ LostInv(d) /\ ~down
    BY DEF IInv, MayCall
  <2>3. WireInv(d)'
    BY <1>3, <2>1, <2>2 DEF WireInv
  <2>4. SizeInv(d)'
    BY <1>3, <2>1, <2>2 DEF SizeInv
  <2>5. LostInv(d)'
    BY <1>3, <2>1, <2>2 DEF LostInv
  <2> QED  BY <2>3, <2>4, <2>5
<1> QED  BY <1>8, <1>9, <1>10, <1>11, <1>12 DEF IInv

(* Receive keeps the invariant.                                              *)
LEMMA ReceiveIInv ==
  ASSUME IInv, NEW c \in Conns, Receive(c)
  PROVE  IInv'
<1> DEFINE r == received[c]  s == sent[c]  w == wire[c]  m == s[r + 1]
<1>1. /\ TypeInv /\ WireInv(c) /\ SizeInv(c) /\ LostInv(c)
  BY DEF IInv
<1>2. s \in Seq(Message) /\ w \in Seq(Cuts) /\ r \in Nat /\ insize[c] \in Nat \ {0}
  BY <1>1 DEF TypeInv
<1>3. Len(s) \in Nat /\ Len(w) \in Nat /\ Len(w) > 0
  BY <1>2 DEF Receive
<1>4. r + 1 \in 1..Len(s) /\ r < Len(s) /\ w[1] = Chunks(m) /\ r \in Nat
  <2>1. 1 \in 1..Len(w) /\ r + Len(w) <= Len(s)
    BY <1>1, <1>3 DEF WireInv
  <2>2. w[1] = Chunks(s[r + 1])
    BY <1>1, <2>1 DEF WireInv
  <2> QED  BY <1>2, <1>3, <2>1, <2>2
<1>5. m \in Message /\ m.size = insize[c]
  <2>1. m \in Message
    BY <1>2, <1>4
  <2>2. m.size = SizeAt(s, (r + 1) - 1)
    BY <1>1, <1>4 DEF SizeInv
  <2> QED  BY <1>1, <1>4, <2>1, <2>2 DEF SizeInv
<1>6. UNCHANGED <<outchunksiz, p, sent, down>>
  BY DEF Receive
<1>7. ASSUME NEW d \in Conns \ {c},
             UNCHANGED <<wire[d], received[d], insize[d], lost[d]>>
      PROVE  (WireInv(d) /\ SizeInv(d) /\ LostInv(d))'
  <2>1. WireInv(d) /\ SizeInv(d) /\ LostInv(d)
    BY DEF IInv
  <2>2. sent'[d] = sent[d] /\ outchunksiz'[d] = outchunksiz[d] /\ down' = down
    BY <1>6
  <2>3. WireInv(d)'
    BY <1>7, <2>1, <2>2 DEF WireInv
  <2>4. SizeInv(d)'
    BY <1>7, <2>1, <2>2 DEF SizeInv
  <2>5. LostInv(d)'
    BY <1>7, <2>1, <2>2 DEF LostInv
  <2> QED  BY <2>3, <2>4, <2>5
<1>8. CASE Head(w) = Expected(insize[c], m)
  <2>1. /\ received' = [received EXCEPT ![c] = @ + 1]
        /\ insize' = [insize EXCEPT ![c] = IF m.type = "size" THEN NewChunkSize ELSE @]
        /\ wire' = [wire EXCEPT ![c] = Tail(@)]
        /\ lost' = lost /\ ~lost[c]
    BY <1>8 DEF Receive
  <2>2. received'[c] = r + 1 /\ wire'[c] = Tail(w) /\ insize'[c] = After(m)
    BY <1>1, <1>5, <2>1 DEF TypeInv, After
  <2>3. Tail(w) \in Seq(Cuts) /\ Len(Tail(w)) = Len(w) - 1 /\ \A k \in 1..Len(Tail(w)) : Tail(w)[k] = w[k + 1]
    BY <1>2, <1>3
  <2>4. After(m) \in Nat \ {0}
    BY <1>5, WriterAssumption DEF After, Message
  <2>5. TypeInv'
    <3>1. wire' \in [Conns -> Seq(Cuts)]
      BY <1>1, <2>1, <2>3 DEF TypeInv
    <3>2. received' \in [Conns -> Nat]
      BY <1>1, <1>2, <2>1 DEF TypeInv
    <3>3. insize' \in [Conns -> Nat \ {0}]
      BY <1>1, <2>1, WriterAssumption DEF TypeInv
    <3> QED  BY <1>1, <1>6, <2>1, <3>1, <3>2, <3>3 DEF TypeInv
  <2>6. WireInv(c)'
    <3>1. r + 1 + (Len(w) - 1) = r + Len(w)
      BY <1>2, <1>3
    <3>2. ASSUME NEW k \in 1..Len(Tail(w))  PROVE Tail(w)[k] = Chunks(s[r + 1 + k])
      <4>1. k + 1 \in 1..Len(w) /\ r + (k + 1) = r + 1 + k
        BY <1>2, <1>3, <2>3
      <4>2. w[k + 1] = Chunks(s[r + (k + 1)])
        BY <1>1, <4>1 DEF WireInv
      <4> QED  BY <2>3, <4>1, <4>2
    <3>3. /\ r + Len(w) <= Len(s)
          /\ ~down => r + Len(w) = Len(s)
      BY <1>1 DEF WireInv
    <3>4. r + 1 + Len(Tail(w)) = r + Len(w)
      BY <2>3, <3>1
    <3> QED  BY <1>6, <2>2, <3>2, <3>3, <3>4 DEF WireInv
  <2>7. SizeInv(c)'
    <3>1. SizeAt(s, r + 1) = After(m)
      BY <1>4 DEF SizeAt
    <3> QED  BY <1>1, <1>6, <2>2, <3>1 DEF SizeInv
  <2>8. LostInv(c)'
    BY <2>1 DEF LostInv
  <2>9. ASSUME NEW d \in Conns \ {c}  PROVE UNCHANGED <<wire[d], received[d], insize[d], lost[d]>>
    BY <1>1, <2>1 DEF TypeInv
  <2> QED  BY <1>7, <2>5, <2>6, <2>7, <2>8, <2>9 DEF IInv
<1>9. CASE Head(w) # Expected(insize[c], m)
  <2>1. /\ lost' = [lost EXCEPT ![c] = TRUE]
        /\ received' = received /\ insize' = insize /\ wire' = wire
    BY <1>9 DEF Receive
  <2>2. m.len = 0 \/ m.time >= ExtTime
    <3>1. m.len \in Nat /\ m.time \in Nat /\ ExtTime \in Nat
      BY <1>5, WriterAssumption DEF Message
    <3>2. Head(w) = Chunks(m)
      BY <1>2, <1>3, <1>4
    <3>3. Chunks(m) # Expected(m.size, m)
      BY <1>5, <1>9, <3>2
    <3>4. ~(m.len > 0 /\ m.time < ExtTime)
      BY <1>5, <3>3, CutRight
    <3> QED  BY <3>1, <3>4
  <2>3. TypeInv'
    BY <1>1, <1>6, <2>1 DEF TypeInv
  <2>4. WireInv(c)' /\ SizeInv(c)'
    BY <1>1, <1>6, <2>1 DEF WireInv, SizeInv
  <2>5. LostInv(c)'
    BY <1>4, <1>6, <2>1, <2>2 DEF LostInv
  <2>6. ASSUME NEW d \in Conns \ {c}  PROVE UNCHANGED <<wire[d], received[d], insize[d], lost[d]>>
    BY <1>1, <2>1 DEF TypeInv
  <2> QED  BY <1>7, <2>3, <2>4, <2>5, <2>6 DEF IInv
<1> QED  BY <1>8, <1>9

(* A single message with the size in force.                                  *)
LEMMA OneIInv ==
  ASSUME IInv, MayCall, NEW c \in Conns, NEW id \in 2..6, NEW type \in Types \ {"size"},
         NEW time \in Nat, NEW len \in Nat,
         Send(c, << Msg(outchunksiz[c], id, type, time, len) >>), UNCHANGED outchunksiz, p' \in Nat
  PROVE  IInv'
<1> DEFINE m == Msg(outchunksiz[c], id, type, time, len)
<1>1. m \in Message /\ m.size = outchunksiz[c] /\ After(m) = outchunksiz[c]
  BY DEF Msg, Message, IInv, TypeInv, After
<1> HIDE DEF m
<1>2. <<m>> \in Seq(Message) /\ Len(<<m>>) = 1 /\ Len(<<m>>) > 0 /\ <<m>>[1] = m
  BY <1>1
<1>3. InForce(outchunksiz[c], <<m>>)
  BY <1>1, <1>2 DEF InForce
<1>4. outchunksiz' = [outchunksiz EXCEPT ![c] = After(<<m>>[Len(<<m>>)])]
  BY <1>1, <1>2 DEF IInv, TypeInv
<1>5. Send(c, <<m>>)
  BY DEF m
<1> QED  BY <1>2, <1>3, <1>4, <1>5, SendIInv

(* The chunk size in force is unchanged by the four messages before the change. *)
LEMMA FourInForce ==
  ASSUME NEW a \in Message, NEW b \in Message, NEW d \in Message, NEW e \in Message,
         b.size = After(a), d.size = After(b), e.size = After(d)
  PROVE  /\ <<a, b, d, e>> \in Seq(Message) /\ Len(<<a, b, d, e>>) > 0
         /\ <<a, b, d, e>>[Len(<<a, b, d, e>>)] = e
         /\ InForce(a.size, <<a, b, d, e>>)
<1> DEFINE t == <<a, b, d, e>>
<1>1. t \in Seq(Message) /\ Len(t) = 4 /\ t[1] = a /\ t[2] = b /\ t[3] = d /\ t[4] = e
  OBVIOUS
<1> HIDE DEF t
<1>2. InForce(a.size, t)
  <2>1. ASSUME NEW i \in 1..Len(t)  PROVE t[i].size = IF i = 1 THEN a.size ELSE After(t[i - 1])
    <3>1. i = 1 \/ i = 2 \/ i = 3 \/ i = 4
      BY <1>1
    <3> QED  BY <1>1, <3>1
  <2> QED  BY <2>1 DEF InForce
<1>3. Len(t) > 0 /\ t[Len(t)] = e
  BY <1>1
<1> QED  BY <1>1, <1>2, <1>3 DEF t

(* Connect keeps the invariant.                                              *)
LEMMA ConnectIInv ==
  ASSUME IInv, MayCall, NEW c \in Conns, Connect(c)
  PROVE  IInv'
<1> DEFINE o == outchunksiz[c]
           a == Msg(o, 2, "control", 0, 4)
           b == Msg(o, 2, "control", 0, 5)
           d == Msg(o, 2, "size", 0, 4)
           e == Msg(NewChunkSize, 3, "command", 0, ConnectAnswer)
<1>1. o \in Nat \ {0} /\ NewChunkSize \in Nat \ {0} /\ p' \in Nat
  BY WriterAssumption DEF IInv, TypeInv, Connect
<1>2. a \in Message /\ b \in Message /\ d \in Message /\ e \in Message
  BY <1>1 DEF Msg, Message, Types, ConnectAnswer
<1>3. /\ a.size = o /\ b.size = After(a) /\ d.size = After(b) /\ e.size = After(d)
      /\ After(e) = NewChunkSize
  BY DEF Msg, After
<1>4. Send(c, <<a, b, d, e>>) /\ outchunksiz' = [outchunksiz EXCEPT ![c] = NewChunkSize]
  BY DEF Connect, Welcome
<1> HIDE DEF a, b, d, e
<1> QED  BY <1>1, <1>2, <1>3, <1>4, FourInForce, SendIInv

(* Play keeps the invariant.                                                 *)
LEMMA PlayIInv ==
  ASSUME IInv, MayCall, NEW c \in Conns, Play(c)
  PROVE  IInv'
<1> DEFINE o == outchunksiz[c]
           a == Msg(o, 2, "control", 0, 6)
           b == Msg(o, 5, "command", 0, 100)
           d == Msg(o, 5, "meta", 0, 24)
           e == Msg(o, 5, "command", 0, 111)
<1>1. o \in Nat \ {0} /\ p' \in Nat
  BY DEF IInv, TypeInv, Play
<1>2. a \in Message /\ b \in Message /\ d \in Message /\ e \in Message
  BY <1>1 DEF Msg, Message, Types
<1>3. a.size = o /\ b.size = After(a) /\ d.size = After(b) /\ e.size = After(d) /\ After(e) = o
  BY DEF Msg, After
<1>4. Send(c, <<a, b, d, e>>) /\ outchunksiz' = [outchunksiz EXCEPT ![c] = o]
  BY DEF Play, IInv, TypeInv
<1> HIDE DEF a, b, d, e
<1> QED  BY <1>1, <1>2, <1>3, <1>4, FourInForce, SendIInv

(* Every step keeps the invariant.                                           *)
LEMMA NextIInv == IInv /\ [Next]_vars => IInv'
<1> SUFFICES ASSUME IInv, [Next]_vars  PROVE IInv'
  OBVIOUS
<1>1. p \in Nat /\ FrameTime \in Nat /\ p + FrameTime \in Nat /\ Lengths \subseteq Nat /\ Times \subseteq Nat
  BY WriterAssumption DEF IInv, TypeInv
<1>2. ASSUME NEW c \in Conns, MayCall, CreateStream(c)  PROVE IInv'
  BY <1>1, <1>2, OneIInv DEF CreateStream, Answer, Types
<1>3. ASSUME NEW c \in Conns, MayCall, PublishStatus(c)  PROVE IInv'
  BY <1>1, <1>3, OneIInv DEF PublishStatus, Answer, Types
<1>4. ASSUME NEW c \in Conns, MayCall, NEW len \in Lengths, NEW time \in Times, Relay(c, 3, "meta", time, len)
      PROVE  IInv'
  BY <1>1, <1>4, OneIInv DEF Relay, Types
<1>5. ASSUME NEW c \in Conns, MayCall, NEW len \in Lengths, NEW time \in Times, Relay(c, 4, "audio", time, len)
      PROVE  IInv'
  BY <1>1, <1>5, OneIInv DEF Relay, Types
<1>6. ASSUME NEW c \in Conns, MayCall, NEW len \in Lengths, RelayVideo(c, len)  PROVE IInv'
  BY <1>1, <1>6, OneIInv DEF RelayVideo, VideoTime, Types
<1>7. ASSUME NEW c \in Conns, Handler(c)  PROVE IInv'
  BY <1>2, <1>3, <1>4, <1>5, <1>6, <1>7, ConnectIInv, PlayIInv DEF Handler
<1>8. CASE UNCHANGED vars
  <2>1. TypeInv'
    BY <1>8 DEF IInv, TypeInv, vars
  <2>2. ASSUME NEW c \in Conns  PROVE (WireInv(c) /\ SizeInv(c) /\ LostInv(c))'
    BY <1>8 DEF IInv, WireInv, SizeInv, LostInv, vars
  <2> QED  BY <2>1, <2>2 DEF IInv
<1> QED  BY <1>7, <1>8, ReceiveIInv DEF Next, Over

(* The invariant always holds.                                               *)
LEMMA Invariant == Spec => []IInv
  BY InitIInv, NextIInv, PTL DEF Spec

-----------------------------------------------------------------------------

(* No message is written beyond the buffer that video_rtmp_send allocates    *)
(* for it, whatever the chunk size, the length, the time and the pools.      *)
THEOREM SendsWithinBuffer == Spec => []WithinBuffer
<1>1. IInv => WithinBuffer
  <2> SUFFICES ASSUME IInv, NEW c \in Conns, NEW m \in Messages(c), Alloc(Announced(m)) # Null
               PROVE  Written(m) <= Alloc(Announced(m))
    BY DEF WithinBuffer
  <2>1. sent[c] \in Seq(Message)
    BY DEF IInv, TypeInv
  <2>2. m \in Message
    BY <2>1 DEF Messages
  <2> QED  BY <2>2, Fits
<1> QED  BY <1>1, Invariant, PTL

(* A client that goes by the protocol loses step only at a message that is   *)
(* empty or late: the chunks that video_rtmp_send cuts, across the change of *)
(* the chunk size by connect, are otherwise those it expects.                *)
THEOREM ClientsInStep == Spec => []InStep
<1>1. IInv => InStep
  BY DEF IInv, LostInv, InStep
<1> QED  BY <1>1, Invariant, PTL

(* A client that has read every message uses the server's chunk size.        *)
THEOREM ChunkSizesAgree == Spec => []SizesAgree
<1>1. IInv => SizesAgree
  BY DEF IInv, SizeInv, SizesAgree
<1> QED  BY <1>1, Invariant, PTL

-----------------------------------------------------------------------------
(* The video clock                                                           *)

(* The frames among the messages s[c] of every client c, and their times.    *)
Frames(s) ==
  {ci \in Conns \X (Nat \ {0}) : ci[2] <= Len(s[ci[1]]) /\ s[ci[1]][ci[2]].type = "video"}
Stamp(s, ci) == s[ci[1]][ci[2]].time

(* The clock shows q: each tick up to q is the time of one frame.            *)
Clocked(s, q) ==
  LET n == Cardinality(Frames(s)) IN
  /\ IsFiniteSet(Frames(s)) /\ q = FrameTime * n
  /\ {Stamp(s, ci) : ci \in Frames(s)} = {FrameTime * k : k \in 1..n}
  /\ \A a, b \in Frames(s) : a[1] = b[1] /\ a[2] < b[2] => Stamp(s, a) < Stamp(s, b)

ClockInv ==
  /\ calls \in 0..MaxCalls
  /\ \A c \in Conns : Len(sent[c]) <= 4 * calls
  /\ Clocked(sent, p)

(* After msgs were sent to c.                                                *)
Extended(s, t, c, msgs) == t = [s EXCEPT ![c] = @ \o msgs]

(* ci is a frame among them.                                                 *)
Added(s, c, msgs, ci) ==
  \E i \in 1..Len(msgs) : ci = <<c, Len(s[c]) + i>> /\ msgs[i].type = "video"

(* A frame of s keeps its place and its time in t, when t goes on from s.    *)
LEMMA FrameKept ==
  ASSUME NEW s \in [Conns -> Seq(Message)], NEW t \in [Conns -> Seq(Message)],
         NEW c \in Conns, NEW msgs \in Seq(Message), Extended(s, t, c, msgs), NEW ci \in Frames(s)
  PROVE  ci \in Frames(t) /\ Stamp(t, ci) = Stamp(s, ci)
<1>1. ci[1] \in Conns /\ ci[2] \in Nat \ {0} /\ ci[2] <= Len(s[ci[1]])
      /\ s[ci[1]][ci[2]].type = "video" /\ ci \in Conns \X (Nat \ {0})
  BY DEF Frames
<1>2. CASE ci[1] = c
  <2>1. s[c] \in Seq(Message) /\ t[c] = s[c] \o msgs /\ ci[2] \in 1..Len(s[c])
    BY <1>1, <1>2 DEF Extended
  <2>2. Len(t[c]) = Len(s[c]) + Len(msgs) /\ t[c][ci[2]] = s[c][ci[2]]
    BY <2>1, Joined
  <2>3. Len(s[c]) \in Nat /\ Len(msgs) \in Nat
    BY <2>1
  <2> QED  BY <1>1, <1>2, <2>2, <2>3 DEF Frames, Stamp
<1>3. CASE ci[1] # c
  <2>1. t[ci[1]] = s[ci[1]]
    BY <1>1, <1>3 DEF Extended
  <2> QED  BY <1>1, <2>1 DEF Frames, Stamp
<1> QED  BY <1>2, <1>3

(* The frames of t are those of s and what was added.                        *)
LEMMA FrameNew ==
  ASSUME NEW s \in [Conns -> Seq(Message)], NEW t \in [Conns -> Seq(Message)],
         NEW c \in Conns, NEW msgs \in Seq(Message), Extended(s, t, c, msgs),
         NEW ci \in Frames(t), ci \notin Frames(s)
  PROVE  Added(s, c, msgs, ci)
<1>1. ci[1] \in Conns /\ ci[2] \in Nat \ {0} /\ ci[2] <= Len(t[ci[1]]) /\ ci = <<ci[1], ci[2]>>
      /\ t[ci[1]][ci[2]].type = "video" /\ ci \in Conns \X (Nat \ {0})
  BY DEF Frames
<1>2. ci[1] = c
  <2>1. SUFFICES ASSUME ci[1] # c  PROVE FALSE
    OBVIOUS
  <2>2. t[ci[1]] = s[ci[1]]
    BY <1>1, <2>1 DEF Extended
  <2> QED  BY <1>1, <2>2 DEF Frames
<1>3. s[c] \in Seq(Message) /\ t[c] = s[c] \o msgs /\ Len(s[c]) \in Nat /\ Len(msgs) \in Nat
  BY DEF Extended
<1>4. /\ Len(t[c]) = Len(s[c]) + Len(msgs)
      /\ \A i \in 1..Len(s[c]) : t[c][i] = s[c][i]
      /\ \A i \in 1..Len(msgs) : t[c][Len(s[c]) + i] = msgs[i]
  BY <1>3, Joined
<1>5. ci[2] > Len(s[c])
  <2>1. SUFFICES ASSUME ci[2] <= Len(s[c])  PROVE FALSE
    BY <1>1, <1>3
  <2>2. s[c][ci[2]] = t[c][ci[2]]
    BY <1>1, <1>3, <1>4, <2>1
  <2> QED  BY <1>1, <1>2, <2>1, <2>2 DEF Frames
<1>6. PICK i : i = ci[2] - Len(s[c])
  OBVIOUS
<1>7. i \in 1..Len(msgs) /\ Len(s[c]) + i = ci[2]
  <2>1. ci[2] \in Int /\ ci[2] <= Len(s[c]) + Len(msgs) /\ ci[2] > Len(s[c])
    BY <1>1, <1>2, <1>4, <1>5
  <2> QED  BY <1>3, <1>6, <2>1
<1>8. msgs[i].type = "video"
  <2>1. PICK a \in Seq(Message) : a = s[c]
    BY <1>3
  <2>2. PICK u : u = a \o msgs
    OBVIOUS
  <2>3. \A j \in 1..Len(msgs) : u[Len(a) + j] = msgs[j]
    BY <2>2, Joined
  <2>4. u[ci[2]] = msgs[i]
    BY <1>7, <2>1, <2>3
  <2>5. t[c] = u
    BY <1>3, <2>1, <2>2
  <2>6. t[c][ci[2]].type = "video"
    BY <1>1, <1>2
  <2> QED  BY <2>4, <2>5, <2>6
<1> QED  BY <1>1, <1>2, <1>7, <1>8 DEF Added

(* Messages without a frame leave the clock alone.                           *)
LEMMA NoTick ==
  ASSUME NEW s \in [Conns -> Seq(Message)], NEW t \in [Conns -> Seq(Message)],
         NEW c \in Conns, NEW msgs \in Seq(Message), Extended(s, t, c, msgs),
         \A i \in 1..Len(msgs) : msgs[i].type # "video", NEW q, Clocked(s, q)
  PROVE  Clocked(t, q)
<1>1. \A ci \in Frames(s) : ci \in Frames(t) /\ Stamp(t, ci) = Stamp(s, ci)
  BY FrameKept
<1>2. \A ci \in Frames(t) : ci \in Frames(s)
  <2>1. SUFFICES ASSUME NEW ci \in Frames(t), ci \notin Frames(s)  PROVE FALSE
    OBVIOUS
  <2>2. Added(s, c, msgs, ci)
    BY <2>1, FrameNew
  <2> QED  BY <2>2 DEF Added
<1>3. Frames(t) = Frames(s)
  BY <1>1, <1>2
<1>4. {Stamp(t, ci) : ci \in Frames(t)} = {Stamp(s, ci) : ci \in Frames(s)}
  BY <1>1, <1>3
<1>5. ASSUME NEW a \in Frames(t), NEW b \in Frames(t), a[1] = b[1], a[2] < b[2]
      PROVE  Stamp(t, a) < Stamp(t, b)
  <2>1. a \in Frames(s) /\ b \in Frames(s) /\ Stamp(t, a) = Stamp(s, a) /\ Stamp(t, b) = Stamp(s, b)
    BY <1>1, <1>3
  <2>2. Stamp(s, a) < Stamp(s, b)
    BY <1>5, <2>1 DEF Clocked
  <2> QED  BY <2>1, <2>2
<1> QED  BY <1>3, <1>4, <1>5 DEF Clocked

(* A frame is the next tick.                                                 *)
LEMMA Tick ==
  ASSUME NEW s \in [Conns -> Seq(Message)], NEW t \in [Conns -> Seq(Message)],
         NEW c \in Conns, NEW m \in Message, Extended(s, t, c, <<m>>),
         NEW q \in Nat, m.type = "video", m.time = q + FrameTime, Clocked(s, q)
  PROVE  Clocked(t, q + FrameTime)
<1>1. PICK F : F = Frames(s)
  OBVIOUS
<1>2. PICK x : x = <<c, Len(s[c]) + 1>>
  OBVIOUS
<1>3. s[c] \in Seq(Message) /\ Len(s[c]) \in Nat /\ t[c] = s[c] \o <<m>>
      /\ <<m>> \in Seq(Message) /\ Len(<<m>>) = 1 /\ <<m>>[1] = m
  BY DEF Extended
<1>4. Len(t[c]) = Len(s[c]) + 1 /\ t[c][Len(s[c]) + 1] = m
  BY <1>3, Joined
<1>5. x[1] = c /\ x[2] = Len(s[c]) + 1 /\ x \in Conns \X (Nat \ {0})
  BY <1>2, <1>3
<1>6. x \in Frames(t) /\ Stamp(t, x) = q + FrameTime /\ x \notin Frames(s)
  BY <1>3, <1>4, <1>5 DEF Frames, Stamp
<1>7. \A ci \in Frames(s) : ci \in Frames(t) /\ Stamp(t, ci) = Stamp(s, ci)
  BY <1>3, FrameKept
<1>8. \A ci \in Frames(t) : ci \in Frames(s) \/ ci = x
  <2>1. SUFFICES ASSUME NEW ci \in Frames(t), ci \notin Frames(s)  PROVE ci = x
    OBVIOUS
  <2>2. PICK msgs \in Seq(Message) : msgs = <<m>>
    BY <1>3
  <2>3. Extended(s, t, c, msgs)
    BY <2>2
  <2>4. Added(s, c, msgs, ci)
    BY <2>1, <2>3, FrameNew
  <2>5. PICK i \in 1..Len(msgs) : ci = <<c, Len(s[c]) + i>>
    BY <2>4 DEF Added
  <2> QED  BY <1>2, <1>3, <2>2, <2>5
<1>9. Frames(t) = F \cup {x} /\ x \notin F
  BY <1>1, <1>6, <1>7, <1>8
<1>10. IsFiniteSet(F) /\ Cardinality(F) \in Nat /\ q = FrameTime * Cardinality(F)
  BY <1>1, FS_CardinalityType DEF Clocked
<1>11. PICK n \in Nat : n = Cardinality(F)
  BY <1>10
<1>12. IsFiniteSet(Frames(t)) /\ Cardinality(Frames(t)) = n + 1
  <2>1. IsFiniteSet(F \cup {x}) /\ Cardinality(F \cup {x}) = IF x \in F THEN Cardinality(F) ELSE Cardinality(F) + 1
    BY <1>10, FS_AddElement
  <2> QED  BY <1>9, <1>11, <2>1
<1>13. q = FrameTime * n /\ q + FrameTime = FrameTime * (n + 1) /\ FrameTime \in Nat
  BY <1>10, <1>11, WriterAssumption
<1>14. {Stamp(s, ci) : ci \in F} = {FrameTime * k : k \in 1..n}
  BY <1>1, <1>11 DEF Clocked
<1>15. {Stamp(t, ci) : ci \in Frames(t)} = {FrameTime * k : k \in 1..(n + 1)}
  <2>1. {Stamp(t, ci) : ci \in Frames(t)} = {Stamp(s, ci) : ci \in F} \cup {q + FrameTime}
    <3>1. \A ci \in F : ci \in Frames(t) /\ Stamp(t, ci) = Stamp(s, ci)
      BY <1>1, <1>7
    <3>2. Stamp(t, x) = q + FrameTime /\ x \in Frames(t)
      BY <1>6
    <3>3. \A ci \in Frames(t) : ci \in F \/ ci = x
      BY <1>9
    <3>4. ASSUME NEW y \in {Stamp(t, ci) : ci \in Frames(t)}
          PROVE  y \in {Stamp(s, ci) : ci \in F} \cup {q + FrameTime}
      <4>1. PICK ci \in Frames(t) : y = Stamp(t, ci)
        BY <3>4
      <4> QED  BY <3>1, <3>2, <3>3, <4>1
    <3>5. ASSUME NEW y \in {Stamp(s, ci) : ci \in F} \cup {q + FrameTime}
          PROVE  y \in {Stamp(t, ci) : ci \in Frames(t)}
      <4>1. CASE y = q + FrameTime
        BY <3>2, <4>1
      <4>2. CASE \E ci \in F : y = Stamp(s, ci)
        <5>1. PICK ci \in F : y = Stamp(s, ci)
          BY <4>2
        <5> QED  BY <3>1, <5>1
      <4> QED  BY <3>5, <4>1, <4>2
    <3> QED  BY <3>4, <3>5
  <2>2. {FrameTime * k : k \in 1..(n + 1)} = {FrameTime * k : k \in 1..n} \cup {FrameTime * (n + 1)}
    <3>1. 1..(n + 1) = (1..n) \cup {n + 1}
      OBVIOUS
    <3> QED  BY <3>1
  <2> QED  BY <1>13, <1>14, <2>1, <2>2
<1>16. \A ci \in F : Stamp(s, ci) < q + FrameTime
  <2>1. SUFFICES ASSUME NEW ci \in F  PROVE Stamp(s, ci) < q + FrameTime
    OBVIOUS
  <2>2. PICK k \in 1..n : Stamp(s, ci) = FrameTime * k
    BY <1>14
  <2>3. FrameTime * (n - k) >= 0 /\ FrameTime * n = FrameTime * k + FrameTime * (n - k)
    BY <1>13
  <2>4. FrameTime > 0 /\ FrameTime * k \in Nat
    BY WriterAssumption
  <2> QED  BY <1>13, <2>2, <2>3, <2>4
<1>17. ASSUME NEW a \in Frames(t), NEW b \in Frames(t), a[1] = b[1], a[2] < b[2]
       PROVE  Stamp(t, a) < Stamp(t, b)
  <2>1. CASE b = x
    <3>1. a \in F
      <4>1. x[2] \in Nat /\ a[2] < x[2]
        BY <1>3, <1>5, <1>17, <2>1
      <4>2. a # x
        BY <4>1
      <4> QED  BY <1>9, <4>2
    <3> QED  BY <1>1, <1>6, <1>7, <1>16, <2>1, <3>1
  <2>2. CASE b # x
    <3>1. b \in F /\ b[1] \in Conns /\ b[2] \in Nat /\ b[2] <= Len(s[b[1]])
      BY <1>1, <1>9, <2>2 DEF Frames
    <3>2. a # x
      BY <1>3, <1>5, <1>17, <3>1
    <3>3. a \in F
      BY <1>9, <3>2
    <3>4. Stamp(s, a) < Stamp(s, b)
      BY <1>1, <1>17, <3>1, <3>3 DEF Clocked
    <3> QED  BY <1>1, <1>7, <3>1, <3>3, <3>4
  <2> QED  BY <2>1, <2>2
<1> QED  BY <1>12, <1>13, <1>15, <1>17 DEF Clocked

(* A handler that sends up to four messages, none of them a frame.           *)
LEMMA QuietHandler ==
  ASSUME IInv, ClockInv, MayCall, NEW c \in Conns, NEW msgs \in Seq(Message), Len(msgs) \in 1..4,
         \A i \in 1..Len(msgs) : msgs[i].type # "video", Send(c, msgs), p' = p
  PROVE  ClockInv'
<1>1. sent \in [Conns -> Seq(Message)] /\ sent' = [sent EXCEPT ![c] = @ \o msgs] /\ calls' = calls + 1
  BY DEF IInv, TypeInv, Send
<1>2. sent[c] \in Seq(Message) /\ sent[c] \o msgs \in Seq(Message) /\ Len(sent[c] \o msgs) = Len(sent[c]) + Len(msgs)
  BY <1>1, Joined
<1>3. PICK t : t = sent'
  OBVIOUS
<1>4. t \in [Conns -> Seq(Message)] /\ t = [sent EXCEPT ![c] = @ \o msgs] /\ Extended(sent, t, c, msgs)
  BY <1>1, <1>2, <1>3 DEF Extended
<1>5. Clocked(t, p)
  BY <1>1, <1>4, NoTick DEF ClockInv
<1>6. calls \in Nat /\ calls + 1 \in 0..MaxCalls
  BY WriterAssumption DEF ClockInv, MayCall
<1>7. ASSUME NEW d \in Conns  PROVE Len(t[d]) <= 4 * (calls + 1)
  <2>1. sent[d] \in Seq(Message) /\ Len(sent[d]) \in Nat /\ Len(sent[d]) <= 4 * calls
    BY <1>1 DEF ClockInv
  <2>2. Len(t[d]) <= Len(sent[d]) + 4
    <3>1. CASE d = c
      <4>1. t[c] = sent[c] \o msgs
        BY <1>1, <1>4
      <4>2. Len(msgs) \in Nat /\ Len(msgs) <= 4
        OBVIOUS
      <4> QED  BY <1>2, <2>1, <3>1, <4>1, <4>2
    <3>2. CASE d # c
      <4>1. t[d] = sent[d]
        BY <1>1, <1>4, <3>2
      <4> QED  BY <2>1, <4>1
    <3> QED  BY <3>1, <3>2
  <2> QED  BY <1>6, <2>1, <2>2, <1>4
<1> QED  BY <1>1, <1>3, <1>5, <1>6, <1>7 DEF ClockInv

(* The handler that sends one.                                               *)
LEMMA FrameHandler ==
  ASSUME IInv, ClockInv, MayCall, NEW c \in Conns, NEW len \in Nat, RelayVideo(c, len)
  PROVE  ClockInv'
<1>1. PICK m : m = Msg(outchunksiz[c], 6, "video", VideoTime, len)
  OBVIOUS
<1>2. sent \in [Conns -> Seq(Message)] /\ p \in Nat /\ p' = p + FrameTime /\ Send(c, <<m>>)
  BY <1>1 DEF IInv, TypeInv, RelayVideo
<1>3. m \in Message /\ m.type = "video" /\ m.time = p + FrameTime
  <2>1. outchunksiz[c] \in Nat \ {0} /\ p + FrameTime \in Nat
    BY <1>2, WriterAssumption DEF IInv, TypeInv
  <2> QED  BY <1>1, <2>1 DEF Msg, Message, Types, VideoTime
<1>4. sent' = [sent EXCEPT ![c] = @ \o <<m>>] /\ calls' = calls + 1
  BY <1>2 DEF Send
<1>5. <<m>> \in Seq(Message) /\ Len(<<m>>) = 1
  BY <1>3
<1>6. sent[c] \in Seq(Message) /\ sent[c] \o <<m>> \in Seq(Message) /\ Len(sent[c] \o <<m>>) = Len(sent[c]) + 1
  BY <1>2, <1>5, Joined
<1>7. PICK t : t = sent'
  OBVIOUS
<1>8. t \in [Conns -> Seq(Message)] /\ t = [sent EXCEPT ![c] = @ \o <<m>>] /\ Extended(sent, t, c, <<m>>)
  BY <1>2, <1>4, <1>6, <1>7 DEF Extended
<1>9. Clocked(t, p + FrameTime)
  BY <1>2, <1>3, <1>8, Tick DEF ClockInv
<1>10. calls \in Nat /\ calls + 1 \in 0..MaxCalls
  BY WriterAssumption DEF ClockInv, MayCall
<1>11. ASSUME NEW d \in Conns  PROVE Len(t[d]) <= 4 * (calls + 1)
  <2>1. sent[d] \in Seq(Message) /\ Len(sent[d]) \in Nat /\ Len(sent[d]) <= 4 * calls
    BY <1>2 DEF ClockInv
  <2>2. Len(t[d]) <= Len(sent[d]) + 1
    BY <1>6, <1>8, <2>1
  <2> QED  BY <1>10, <2>1, <2>2, <1>8
<1> QED  BY <1>2, <1>4, <1>7, <1>9, <1>10, <1>11 DEF ClockInv

(* One message that is no frame.                                             *)
LEMMA QuietMessage ==
  ASSUME IInv, ClockInv, MayCall, NEW c \in Conns, NEW id \in 2..6, NEW type \in Types \ {"video"},
         NEW time \in Nat, NEW len \in Nat,
         Send(c, << Msg(outchunksiz[c], id, type, time, len) >>), p' = p
  PROVE  ClockInv'
<1>1. PICK m : m = Msg(outchunksiz[c], id, type, time, len)
  OBVIOUS
<1>2. m \in Message /\ m.type # "video"
  BY <1>1 DEF Msg, Message, IInv, TypeInv
<1>3. <<m>> \in Seq(Message) /\ Len(<<m>>) = 1 /\ <<m>>[1] = m
  BY <1>2
<1>4. PICK msgs \in Seq(Message) : msgs = <<m>>
  BY <1>3
<1>5. Send(c, msgs) /\ Len(msgs) \in 1..4 /\ \A i \in 1..Len(msgs) : msgs[i].type # "video"
  BY <1>1, <1>2, <1>3, <1>4
<1> QED  BY <1>5, QuietHandler

(* Four of them.                                                             *)
LEMMA FourQuiet ==
  ASSUME NEW a \in Message, NEW b \in Message, NEW d \in Message, NEW e \in Message,
         a.type # "video", b.type # "video", d.type # "video", e.type # "video"
  PROVE  /\ <<a, b, d, e>> \in Seq(Message) /\ Len(<<a, b, d, e>>) \in 1..4
         /\ \A i \in 1..Len(<<a, b, d, e>>) : <<a, b, d, e>>[i].type # "video"
<1>1. PICK t : t = <<a, b, d, e>>
  OBVIOUS
<1>2. t \in Seq(Message) /\ Len(t) = 4 /\ t[1] = a /\ t[2] = b /\ t[3] = d /\ t[4] = e
  BY <1>1
<1>3. ASSUME NEW i \in 1..Len(t)  PROVE t[i].type # "video"
  <2>1. i = 1 \/ i = 2 \/ i = 3 \/ i = 4
    BY <1>2
  <2> QED  BY <1>2, <2>1
<1> QED  BY <1>1, <1>2, <1>3

(* The answer to connect, and the one to play.                               *)
LEMMA QuietCommands ==
  ASSUME IInv, ClockInv, MayCall, NEW c \in Conns, Connect(c) \/ Play(c)
  PROVE  ClockInv'
<1>1. outchunksiz[c] \in Nat \ {0} /\ NewChunkSize \in Nat \ {0}
  BY WriterAssumption DEF IInv, TypeInv
<1>2. \A n \in Nat \ {0}, id \in 2..6, type \in Types \ {"video"}, len \in Nat :
        Msg(n, id, type, 0, len) \in Message /\ Msg(n, id, type, 0, len).type # "video"
  BY DEF Msg, Message
<1>3. CASE Connect(c)
  <2>1. PICK a : a = Msg(outchunksiz[c], 2, "control", 0, 4)
    OBVIOUS
  <2>2. PICK b : b = Msg(outchunksiz[c], 2, "control", 0, 5)
    OBVIOUS
  <2>3. PICK d : d = Msg(outchunksiz[c], 2, "size", 0, 4)
    OBVIOUS
  <2>4. PICK e : e = Msg(NewChunkSize, 3, "command", 0, ConnectAnswer)
    OBVIOUS
  <2>5. a \in Message /\ b \in Message /\ d \in Message /\ e \in Message
        /\ a.type # "video" /\ b.type # "video" /\ d.type # "video" /\ e.type # "video"
    <3>1. a \in Message /\ a.type # "video" /\ b \in Message /\ b.type # "video"
      BY <1>1, <1>2, <2>1, <2>2 DEF Types
    <3>2. d \in Message /\ d.type # "video"
      BY <1>1, <1>2, <2>3 DEF Types
    <3>3. e \in Message /\ e.type # "video"
      BY <1>1, <1>2, <2>4 DEF Types, ConnectAnswer
    <3> QED  BY <3>1, <3>2, <3>3
  <2>6. Send(c, <<a, b, d, e>>) /\ p' = p
    BY <1>3, <2>1, <2>2, <2>3, <2>4 DEF Connect, Welcome
  <2> QED  BY <2>5, <2>6, FourQuiet, QuietHandler
<1>4. CASE Play(c)
  <2>1. PICK a : a = Msg(outchunksiz[c], 2, "control", 0, 6)
    OBVIOUS
  <2>2. PICK b : b = Msg(outchunksiz[c], 5, "command", 0, 100)
    OBVIOUS
  <2>3. PICK d : d = Msg(outchunksiz[c], 5, "meta", 0, 24)
    OBVIOUS
  <2>4. PICK e : e = Msg(outchunksiz[c], 5, "command", 0, 111)
    OBVIOUS
  <2>5. a \in Message /\ b \in Message /\ d \in Message /\ e \in Message
        /\ a.type # "video" /\ b.type # "video" /\ d.type # "video" /\ e.type # "video"
    <3>1. a \in Message /\ a.type # "video"
      BY <1>1, <1>2, <2>1 DEF Types
    <3>4. b \in Message /\ b.type # "video"
      BY <1>1, <1>2, <2>2 DEF Types
    <3>2. d \in Message /\ d.type # "video"
      BY <1>1, <1>2, <2>3 DEF Types
    <3>3. e \in Message /\ e.type # "video"
      BY <1>1, <1>2, <2>4 DEF Types
    <3> QED  BY <3>1, <3>2, <3>3, <3>4
  <2>6. Send(c, <<a, b, d, e>>) /\ p' = p
    BY <1>4, <2>1, <2>2, <2>3, <2>4 DEF Play
  <2> QED  BY <2>5, <2>6, FourQuiet, QuietHandler
<1> QED  BY <1>3, <1>4

(* At the start nothing was sent.                                            *)
LEMMA ClockInit == Init => ClockInv
<1>1. SUFFICES ASSUME Init  PROVE ClockInv
  OBVIOUS
<1>2. \A c \in Conns : sent[c] = <<>> /\ Len(sent[c]) = 0
  BY <1>1 DEF Init
<1>3. Frames(sent) = {}
  BY <1>2 DEF Frames
<1>4. IsFiniteSet(Frames(sent)) /\ Cardinality(Frames(sent)) = 0
  BY <1>3, FS_EmptySet
<1>5. p = 0 /\ 0 = FrameTime * 0 /\ calls = 0 /\ 0 \in 0..MaxCalls /\ 1..0 = {}
  BY <1>1, WriterAssumption DEF Init
<1>6. Clocked(sent, p)
  BY <1>3, <1>4, <1>5 DEF Clocked
<1> QED  BY <1>2, <1>5, <1>6 DEF ClockInv

(* Every step keeps the clock.                                               *)
LEMMA ClockStep == IInv /\ ClockInv /\ [Next]_vars => ClockInv'
<1> SUFFICES ASSUME IInv, ClockInv, [Next]_vars  PROVE ClockInv'
  OBVIOUS
<1>1. (\A x \in Lengths : x \in Nat) /\ \A x \in Times : x \in Nat
  BY WriterAssumption
<1>2. ASSUME NEW c \in Conns, MayCall, CreateStream(c) \/ PublishStatus(c)  PROVE ClockInv'
  BY <1>2, QuietMessage DEF CreateStream, PublishStatus, Answer, Types
<1>3. ASSUME NEW c \in Conns, MayCall, NEW len \in Lengths, NEW time \in Times,
             Relay(c, 3, "meta", time, len) \/ Relay(c, 4, "audio", time, len)
      PROVE  ClockInv'
  BY <1>1, <1>3, QuietMessage DEF Relay, Types
<1>4. ASSUME NEW c \in Conns, MayCall, NEW len \in Lengths, RelayVideo(c, len)  PROVE ClockInv'
  BY <1>1, <1>4, FrameHandler
<1>5. ASSUME NEW c \in Conns, Handler(c)  PROVE ClockInv'
  BY <1>2, <1>3, <1>4, <1>5, QuietCommands DEF Handler
<1>6. ASSUME UNCHANGED <<sent, p, calls>>  PROVE ClockInv'
  BY <1>6 DEF ClockInv
<1> QED  BY <1>5, <1>6 DEF Next, Receive, Over, vars

(* The clock is what was sent.                                               *)
LEMMA ClockHolds == Spec => []ClockInv
  BY Invariant, ClockInit, ClockStep, PTL DEF Spec

(* ClockSplit: the static p of message.c goes to the frames of all           *)
(* connections in turn, each tick to one of them, so that each subscriber    *)
(* sees rising times, whose steps are as wide as the others had frames.      *)
THEOREM OneClock == Spec => []ClockSplit
<1>1. IInv /\ ClockInv => ClockSplit
  <2>1. SUFFICES ASSUME IInv, ClockInv  PROVE ClockSplit
    OBVIOUS
  <2>2. PICK V : V = {ci \in Conns \X (1..(4 * MaxCalls)) :
                        ci[2] <= Len(sent[ci[1]]) /\ sent[ci[1]][ci[2]].type = "video"}
    OBVIOUS
  <2>3. ASSUME NEW c \in Conns, NEW i \in Nat \ {0}, i <= Len(sent[c])  PROVE i \in 1..(4 * MaxCalls)
    <3>1. Len(sent[c]) \in Nat /\ Len(sent[c]) <= 4 * calls /\ calls \in 0..MaxCalls /\ MaxCalls \in Nat
      BY <2>1, WriterAssumption DEF IInv, TypeInv, ClockInv
    <3> QED  BY <2>3, <3>1
  <2>4. V = Frames(sent)
    <3>1. \A ci \in V : ci \in Frames(sent)
      BY <2>2 DEF Frames
    <3>2. \A ci \in Frames(sent) : ci \in V
      BY <2>2, <2>3 DEF Frames
    <3> QED  BY <3>1, <3>2
  <2>5. /\ {sent[ci[1]][ci[2]].time : ci \in V} = {FrameTime * k : k \in 1..Cardinality(V)}
        /\ \A a, b \in V : a[1] = b[1] /\ a[2] < b[2] => sent[a[1]][a[2]].time < sent[b[1]][b[2]].time
    BY <2>1, <2>4 DEF ClockInv, Clocked, Stamp
  <2> QED  BY <2>2, <2>5 DEF ClockSplit
<1> QED  BY <1>1, Invariant, ClockHolds, PTL

=============================================================================
