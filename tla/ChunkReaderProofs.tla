------------------------- MODULE ChunkReaderProofs -------------------------
(***************************************************************************)
(* What ChunkReader says of every client, chunk size and way of splitting   *)
(* the stream.  Three inductive invariants, each resting on the ones before *)
(* it: who holds each buffer (BufferInv), the types (TypeInv), and where    *)
(* the reader is in the stream (StreamInv): as long as the client did       *)
(* nothing unusual, what is on its way is whole chunks, each of which       *)
(* carries the client's account before and after it, and the reader's       *)
(* records say what the account at its place in the stream says.  Whatever  *)
(* the reader does with the next bytes follows from that.                   *)
(***************************************************************************)
EXTENDS ChunkReader, SequenceTheorems, WellFoundedInduction, FiniteSetTheorems, TLAPS

-----------------------------------------------------------------------------
(* Sequences                                                                 *)

(* What remains of a sequence.                                               *)
LEMMA DropProperties ==
  ASSUME NEW S, NEW s \in Seq(S), NEW n \in 0..Len(s)
  PROVE  /\ Drop(s, n) \in Seq(S)
         /\ Len(Drop(s, n)) = Len(s) - n
         /\ \A i \in 1..(Len(s) - n) : Drop(s, n)[i] = s[i + n]
<1>1. Len(s) \in Nat /\ \A i \in (n + 1)..Len(s) : s[i] \in S
  OBVIOUS
<1>2. /\ SubSeq(s, n + 1, Len(s)) \in Seq(S)
      /\ Len(SubSeq(s, n + 1, Len(s))) = IF n + 1 <= Len(s) THEN Len(s) - (n + 1) + 1 ELSE 0
      /\ \A i \in 1..(Len(s) - (n + 1) + 1) : SubSeq(s, n + 1, Len(s))[i] = s[(n + 1) + i - 1]
  BY <1>1, SubSeqProperties
<1> QED  BY <1>1, <1>2 DEF Drop

(* What precedes it.                                                         *)
LEMMA FrontProperties ==
  ASSUME NEW S, NEW s \in Seq(S), NEW n \in 0..Len(s)
  PROVE  /\ SubSeq(s, 1, n) \in Seq(S)
         /\ Len(SubSeq(s, 1, n)) = n
         /\ \A i \in 1..n : SubSeq(s, 1, n)[i] = s[i]
<1>1. Len(s) \in Nat /\ \A i \in 1..n : s[i] \in S
  OBVIOUS
<1>2. /\ SubSeq(s, 1, n) \in Seq(S)
      /\ Len(SubSeq(s, 1, n)) = IF 1 <= n THEN n - 1 + 1 ELSE 0
      /\ \A i \in 1..(n - 1 + 1) : SubSeq(s, 1, n)[i] = s[1 + i - 1]
  BY <1>1, SubSeqProperties
<1> QED  BY <1>1, <1>2

(* Taking a piece off a sequence loses nothing.                              *)
LEMMA FrontAndRest ==
  ASSUME NEW S, NEW s \in Seq(S), NEW n \in 0..Len(s)
  PROVE  SubSeq(s, 1, n) \o Drop(s, n) = s
<1>1. PICK f : f = SubSeq(s, 1, n)
  OBVIOUS
<1>2. PICK r : r = Drop(s, n)
  OBVIOUS
<1>3. Len(s) \in Nat /\ f \in Seq(S) /\ Len(f) = n /\ \A i \in 1..n : f[i] = s[i]
  BY <1>1, FrontProperties
<1>4. r \in Seq(S) /\ Len(r) = Len(s) - n /\ \A i \in 1..(Len(s) - n) : r[i] = s[i + n]
  BY <1>2, DropProperties
<1>5. PICK u : u = f \o r
  OBVIOUS
<1>6. u \in Seq(S) /\ Len(u) = Len(f) + Len(r)
      /\ \A i \in 1..Len(f) + Len(r) : u[i] = IF i <= Len(f) THEN f[i] ELSE r[i - Len(f)]
  BY <1>3, <1>4, <1>5, ConcatProperties
<1>7. Len(u) = Len(s)
  BY <1>3, <1>4, <1>6
<1>8. ASSUME NEW i \in 1..Len(s)  PROVE u[i] = s[i]
  <2>1. CASE i <= n
    BY <2>1, <1>3, <1>4, <1>6
  <2>2. CASE i > n
    <3>1. i - n \in 1..(Len(s) - n) /\ (i - n) + n = i /\ i \in 1..Len(f) + Len(r)
      BY <2>2, <1>3, <1>4
    <3>2. r[i - n] = s[i]
      BY <3>1, <1>4
    <3>3. u[i] = r[i - n]
      BY <3>1, <2>2, <1>3, <1>6
    <3> QED  BY <3>2, <3>3
  <2> QED  BY <2>1, <2>2, <1>3
<1>9. u = s
  BY <1>6, <1>7, <1>8, SeqEqual
<1> QED  BY <1>1, <1>2, <1>5, <1>9

(* Dropping from the first of two sequences.                                 *)
LEMMA DropOfConcat ==
  ASSUME NEW S, NEW s \in Seq(S), NEW t \in Seq(S), NEW n \in 0..Len(s)
  PROVE  Drop(s \o t, n) = Drop(s, n) \o t
<1>1. PICK u : u = s \o t
  OBVIOUS
<1>2. PICK r : r = Drop(s, n)
  OBVIOUS
<1>3. PICK v : v = r \o t
  OBVIOUS
<1>4. PICK w : w = Drop(u, n)
  OBVIOUS
<1>5. Len(s) \in Nat /\ Len(t) \in Nat
  OBVIOUS
<1>6. u \in Seq(S) /\ Len(u) = Len(s) + Len(t)
      /\ \A i \in 1..Len(s) + Len(t) : u[i] = IF i <= Len(s) THEN s[i] ELSE t[i - Len(s)]
  BY <1>1, ConcatProperties
<1>7. r \in Seq(S) /\ Len(r) = Len(s) - n /\ \A i \in 1..(Len(s) - n) : r[i] = s[i + n]
  BY <1>2, DropProperties
<1>8. v \in Seq(S) /\ Len(v) = Len(r) + Len(t)
      /\ \A i \in 1..Len(r) + Len(t) : v[i] = IF i <= Len(r) THEN r[i] ELSE t[i - Len(r)]
  BY <1>3, <1>7, ConcatProperties
<1>9. n \in 0..Len(u)
  BY <1>5, <1>6
<1>10. w \in Seq(S) /\ Len(w) = Len(u) - n /\ \A i \in 1..(Len(u) - n) : w[i] = u[i + n]
  BY <1>4, <1>6, <1>9, DropProperties
<1>11. Len(w) = Len(v) /\ Len(w) = Len(s) + Len(t) - n
  BY <1>5, <1>6, <1>7, <1>8, <1>10
<1>12. ASSUME NEW i \in 1..Len(w)  PROVE w[i] = v[i]
  <2>1. i \in Int /\ i \in 1..(Len(u) - n) /\ i + n \in 1..Len(s) + Len(t) /\ i \in 1..Len(r) + Len(t)
    BY <1>5, <1>6, <1>7, <1>8, <1>10, <1>11
  <2>2. w[i] = u[i + n]
    BY <2>1, <1>10
  <2>3. CASE i <= Len(s) - n
    <3>1. i \in 1..(Len(s) - n) /\ i + n <= Len(s) /\ i <= Len(r)
      BY <2>1, <2>3, <1>5, <1>7
    <3>2. u[i + n] = s[i + n] /\ v[i] = r[i] /\ r[i] = s[i + n]
      BY <2>1, <3>1, <1>6, <1>7, <1>8
    <3> QED  BY <2>2, <3>2
  <2>4. CASE ~(i <= Len(s) - n)
    <3>1. ~(i + n <= Len(s)) /\ ~(i <= Len(r)) /\ i + n - Len(s) = i - Len(r)
      BY <2>1, <2>4, <1>5, <1>7
    <3>2. u[i + n] = t[i + n - Len(s)] /\ v[i] = t[i - Len(r)]
      BY <2>1, <3>1, <1>6, <1>8
    <3> QED  BY <2>2, <3>1, <3>2
  <2> QED  BY <2>3, <2>4
<1>13. w = v
  BY <1>8, <1>10, <1>11, <1>12, SeqEqual
<1> QED  BY <1>1, <1>2, <1>3, <1>4, <1>13

(* Dropping twice.                                                           *)
LEMMA DropTwice ==
  ASSUME NEW S, NEW s \in Seq(S), NEW m \in 0..Len(s), NEW n \in 0..(Len(s) - m)
  PROVE  Drop(Drop(s, m), n) = Drop(s, m + n)
<1>1. Drop(s, m) \in Seq(S) /\ Len(Drop(s, m)) = Len(s) - m /\ n \in 0..Len(Drop(s, m))
  BY DropProperties
<1>2. Drop(Drop(s, m), n) \in Seq(S) /\ Len(Drop(Drop(s, m), n)) = Len(s) - m - n
  BY <1>1, DropProperties
<1>3. m + n \in 0..Len(s) /\ Drop(s, m + n) \in Seq(S) /\ Len(Drop(s, m + n)) = Len(s) - (m + n)
  BY DropProperties
<1>4. ASSUME NEW i \in 1..(Len(s) - m - n)  PROVE Drop(Drop(s, m), n)[i] = Drop(s, m + n)[i]
  <2>1. Drop(Drop(s, m), n)[i] = Drop(s, m)[i + n]
    BY <1>1, DropProperties
  <2>2. i + n \in 1..(Len(s) - m)
    OBVIOUS
  <2>3. Drop(s, m)[i + n] = s[(i + n) + m]
    BY <2>2, DropProperties
  <2>4. Drop(s, m + n)[i] = s[i + (m + n)]
    BY <1>3, DropProperties
  <2>5. (i + n) + m = i + (m + n)
    OBVIOUS
  <2> QED  BY <2>1, <2>3, <2>4, <2>5
<1>5. Len(s) - m - n = Len(s) - (m + n)
  OBVIOUS
<1> QED  BY <1>2, <1>3, <1>4, <1>5, SeqEqual

(* Dropping nothing, and everything.                                         *)
LEMMA DropEnds ==
  ASSUME NEW S, NEW s \in Seq(S)
  PROVE  Drop(s, 0) = s /\ Drop(s, Len(s)) = <<>>
<1>1. Drop(s, 0) = s
  BY SubSeqFull DEF Drop
<1>2. Drop(s, Len(s)) \in Seq(S) /\ Len(Drop(s, Len(s))) = 0
  BY DropProperties
<1> QED  BY <1>1, <1>2, EmptySeq

(* A sequence without elements.                                              *)
LEMMA NoElements ==
  ASSUME NEW S, NEW s \in Seq(S)
  PROVE  s = <<>> <=> Len(s) = 0
  BY EmptySeq

-----------------------------------------------------------------------------
(* Numbers                                                                   *)

(* The order of the natural numbers, in the form that WFMin can use.         *)
LEMMA NatOrder == IsWellFoundedOn({xy \in Nat \X Nat : xy[1] < xy[2]}, Nat)
  BY NatLessThanWellFounded DEF OpToRel

(* Least returns the smallest element of a set of numbers.                   *)
LEMMA LeastIsLeast ==
  ASSUME NEW S \in SUBSET Nat, S # {}
  PROVE  Least(S) \in S /\ \A y \in S : Least(S) <= y
<1>1. PICK x \in S : \A y \in S : ~(<<y, x>> \in {xy \in Nat \X Nat : xy[1] < xy[2]})
  BY NatOrder, WFMin
<1>2. \A y \in S : x <= y
  <2>1. ASSUME NEW y \in S  PROVE x <= y
    <3>1. <<y, x>> \in Nat \X Nat /\ x \in Nat /\ y \in Nat
      OBVIOUS
    <3>2. ~(y < x)
      BY <1>1, <3>1
    <3> QED  BY <3>1, <3>2
  <2> QED  BY <2>1
<1> QED  BY <1>2 DEF Least

(* The smaller of two numbers, and of three.                                 *)
LEMMA LeastOfTwo ==
  ASSUME NEW a \in Nat, NEW b \in Nat
  PROVE  Least({a, b}) = IF a <= b THEN a ELSE b
<1>1. Least({a, b}) \in {a, b} /\ \A y \in {a, b} : Least({a, b}) <= y
  BY LeastIsLeast
<1> QED  BY <1>1

(* The smallest of three numbers is one of them, and no larger than any.     *)
LEMMA LeastOfThree ==
  ASSUME NEW a \in Nat, NEW b \in Nat, NEW c \in Nat
  PROVE  /\ Least({a, b, c}) \in {a, b, c}
         /\ Least({a, b, c}) <= a /\ Least({a, b, c}) <= b /\ Least({a, b, c}) <= c
  BY LeastIsLeast

(* A quotient and its remainder.                                             *)
LEMMA Division ==
  ASSUME NEW n \in Nat, NEW s \in Nat \ {0}
  PROVE  /\ n \div s \in Nat
         /\ n % s \in 0..(s - 1)
         /\ n = (n \div s) * s + (n % s)
  OBVIOUS

(* Numbers that agree up to a multiple of s, and are smaller than it.        *)
LEMMA SmallMultiple ==
  ASSUME NEW s \in Nat \ {0}, NEW a \in Int, NEW b \in Int, NEW j \in 0..(s - 1), NEW k \in 0..(s - 1),
         a * s + j = b * s + k
  PROVE  j = k
<1>1. (a - b) * s = k - j
  OBVIOUS
<1>2. a - b >= 1 => (a - b) * s >= s
  OBVIOUS
<1>3. a - b <= -1 => (a - b) * s <= -s
  OBVIOUS
<1> QED  BY <1>1, <1>2, <1>3

(* A part of a chunk after a whole number of chunks.                         *)
LEMMA Remainders ==
  ASSUME NEW s \in Nat \ {0}, NEW n \in Nat, n % s = 0, NEW k \in 0..s
  PROVE  (n + k) % s = IF k = s THEN 0 ELSE k
<1>1. n = (n \div s) * s /\ n \div s \in Nat
  BY Division
<1>2. n + k \in Nat /\ (n + k) \div s \in Nat /\ (n + k) % s \in 0..(s - 1)
      /\ n + k = ((n + k) \div s) * s + ((n + k) % s)
  <2>1. PICK t \in Nat : t = n + k
    OBVIOUS
  <2>2. t \div s \in Nat /\ t % s \in 0..(s - 1) /\ t = (t \div s) * s + (t % s)
    BY Division
  <2> QED  BY <2>1, <2>2
<1>3. PICK q \in Nat : q = n \div s
  BY <1>1
<1>4. PICK p \in Nat : p = (n + k) \div s
  BY <1>2
<1>5. PICK r \in 0..(s - 1) : r = (n + k) % s
  BY <1>2
<1>6. q * s + k = p * s + r
  BY <1>1, <1>2, <1>3, <1>4, <1>5
<1>7. CASE k = s
  <2>1. (q + 1) * s + 0 = p * s + r
    BY <1>6, <1>7
  <2>2. q + 1 \in Int /\ p \in Int /\ 0 \in 0..(s - 1)
    OBVIOUS
  <2>3. r = 0
    BY <2>1, <2>2, SmallMultiple
  <2> QED  BY <2>3, <1>5, <1>7
<1>8. CASE k # s
  <2>1. k \in 0..(s - 1) /\ q \in Int /\ p \in Int
    BY <1>8
  <2>2. k = r
    BY <2>1, <1>6, SmallMultiple
  <2> QED  BY <2>2, <1>5, <1>8
<1> QED  BY <1>7, <1>8

-----------------------------------------------------------------------------
(* The buffers                                                               *)

(* Who holds each of the four buffers, and when nothing is held.             *)
BufferInv ==
  /\ conn \in {"open", "closing", "gone"}
  /\ state \in {"s0", "s1", "s2", "header", "body"}
  /\ hsdata \in {"none", "c1", "c2"}
  /\ ref \in [Buffers -> Nat]
  /\ writes \subseteq {"handshake", "reply"}
  /\ state \in {"s0", "s1"} \/ conn = "gone" => writes = {}
  /\ ref["read"] \in {0, 1}
  /\ ~Reading => buf = <<>>
  /\ conn = "gone" => ~Reading
  /\ ref["reply"] = IF "reply" \in writes THEN 1 ELSE 0
  /\ ref["header"] = IF conn # "gone" THEN 1 ELSE 0
  /\ ref["handshake"] = (IF "handshake" \in writes THEN 1 ELSE 0)
                        + (IF conn # "gone" /\ OwnsHandshake THEN 1 ELSE 0)
  /\ "handshake" \in writes => hsdata = "c1"

(* The client leaves the reader alone.                                       *)
LEMMA ClientOnly == Client => UNCHANGED readerVars
<1>1. Hello \/ Acknowledge => UNCHANGED readerVars
  BY DEF Hello, Acknowledge
<1>2. ASSUME NEW id, NEW fmt, NEW message, NEW time, Begin(id, fmt, message, time)  PROVE UNCHANGED readerVars
  BY <1>2 DEF Begin
<1>3. ASSUME NEW id, Continue(id) \/ Abort(id)  PROVE UNCHANGED readerVars
  BY <1>3 DEF Continue, Abort
<1> QED  BY <1>1, <1>2, <1>3 DEF Client

(* BufferInv at the start, and where nothing of it changes.                  *)
LEMMA BufferInit == Init => BufferInv
  BY DEF Init, BufferInv, Buffers, Reading, OwnsHandshake

(* BufferInv says nothing of the variables other than these.                 *)
LEMMA BufferUnchanged ==
  ASSUME BufferInv, UNCHANGED <<conn, state, buf, hsdata, bufVars>>
  PROVE  BufferInv'
  BY DEF BufferInv, bufVars, Buffers, Reading, OwnsHandshake

(* The calls of the reader.                                                  *)
LEMMA BufferCall ==
  ASSUME BufferInv, Call
  PROVE  BufferInv'
<1> USE DEF Reading, Calling, OwnsHandshake
<1>1. CASE HandshakeS0
  BY <1>1 DEF BufferInv, HandshakeS0, bufVars, hsVars
<1>2. CASE HandshakeS1
  <2>1. conn' = conn /\ conn = "open" /\ state = "s1" /\ writes = {} /\ ref["read"] = 1
    BY <1>2 DEF BufferInv, HandshakeS1
  <2>2. CASE hslen + HandshakeTake < HandshakeSize
    BY <1>2, <2>1, <2>2 DEF BufferInv, HandshakeS1
  <2>3. CASE ~(hslen + HandshakeTake < HandshakeSize)
    <3>1. /\ hsdata' = "c1" /\ state' = "s2" /\ writes' = {"reply", "handshake"}
          /\ ref' = [ref EXCEPT !["reply"] = 1]
      BY <1>2, <2>1, <2>3 DEF HandshakeS1
    <3>2. ref["handshake"] = 1 /\ ref["header"] = 1
      BY <2>1 DEF BufferInv
    <3>3. /\ ref' \in [Buffers -> Nat] /\ ref'["reply"] = 1 /\ ref'["read"] = 1
          /\ ref'["handshake"] = 1 /\ ref'["header"] = 1
      BY <2>1, <3>1, <3>2 DEF BufferInv, Buffers
    <3> QED  BY <2>1, <3>1, <3>3 DEF BufferInv
  <2> QED  BY <2>2, <2>3
<1>3. CASE HandshakeS2
  BY <1>3 DEF BufferInv, HandshakeS2, bufVars, Count
<1>4. CASE ReadHeader
  <2>1. UNCHANGED <<hsVars, bufVars>> /\ conn = "open" /\ state = "header" /\ ref["read"] = 1
        /\ conn' \in {"open", "closing"} /\ state' \in {"header", "body"}
    BY <1>4 DEF ReadHeader, HeaderComplete
  <2> QED  BY <2>1 DEF BufferInv, hsVars, bufVars
<1>5. CASE ReadBody
  <2>1. UNCHANGED <<hsVars, bufVars>> /\ conn = "open" /\ state = "body" /\ ref["read"] = 1
        /\ conn' \in {"open", "closing"} /\ state' \in {"header", "body"}
    BY <1>5 DEF ReadBody, Message, NextHeader
  <2> QED  BY <2>1 DEF BufferInv, hsVars, bufVars
<1>6. CASE Misread
  BY <1>6, BufferUnchanged DEF Misread, bufVars, hsVars
<1> QED  BY <1>1, <1>2, <1>3, <1>4, <1>5, <1>6 DEF Call

(* Every step.                                                               *)
LEMMA BufferStep ==
  ASSUME BufferInv, [Next]_vars
  PROVE  BufferInv'
<1> USE DEF Reading, OwnsHandshake
<1>1. CASE Client
  <2>1. UNCHANGED readerVars
    BY <1>1, ClientOnly
  <2> QED  BY <2>1, BufferUnchanged DEF readerVars, bufVars, hsVars
<1>2. CASE ReadBegin
  BY <1>2 DEF BufferInv, ReadBegin, hsVars, Buffers
<1>3. CASE Call
  BY <1>3, BufferCall
<1>4. CASE ReadEnd
  BY <1>4 DEF BufferInv, ReadEnd, hsVars, Buffers
<1>5. ASSUME NEW b \in Buffers, WriteDone(b)  PROVE BufferInv'
  <2>1. b \in writes /\ writes' = writes \ {b} /\ ref' = [ref EXCEPT ![b] = @ - 1] /\ b \in {"handshake", "reply"}
        /\ UNCHANGED <<conn, state, buf, hsdata>>
    BY <1>5 DEF WriteDone, BufferInv, hsVars
  <2>2. CASE b = "reply"
    BY <2>1, <2>2 DEF BufferInv, Buffers
  <2>3. CASE b = "handshake"
    BY <2>1, <2>3 DEF BufferInv, Buffers
  <2> QED  BY <2>1, <2>2, <2>3
<1>6. CASE Hangup
  BY <1>6 DEF BufferInv, Hangup, hsVars, bufVars
<1>7. CASE Remove
  <2>1. /\ conn = "closing" /\ conn' = "gone" /\ writes = {} /\ writes' = {} /\ UNCHANGED <<state, buf, hsdata>>
        /\ ref' = [ref EXCEPT !["header"] = @ - 1, !["handshake"] = IF OwnsHandshake THEN @ - 1 ELSE @]
        /\ ref["read"] # 1
    BY <1>7 DEF Remove, hsVars
  <2>2. ref["header"] = 1 /\ ref["handshake"] = (IF OwnsHandshake THEN 1 ELSE 0)
        /\ ref["reply"] = 0 /\ ref["read"] = 0
        /\ ref \in [Buffers -> Nat] /\ buf = <<>>
    BY <2>1 DEF BufferInv
  <2>3. ref'["header"] = 0 /\ ref'["handshake"] = 0 /\ ref'["reply"] = 0 /\ ref'["read"] = 0
        /\ ref' \in [Buffers -> Nat]
    BY <2>1, <2>2 DEF Buffers
  <2> QED  BY <2>1, <2>2, <2>3 DEF BufferInv
<1>8. CASE UNCHANGED vars
  BY <1>8, BufferUnchanged DEF vars, bufVars, hsVars
<1> QED  BY <1>1, <1>2, <1>3, <1>4, <1>5, <1>6, <1>7, <1>8 DEF Next, Over

(* A buffer that libuv has once.                                             *)
LEMMA HeldOnce ==
  ASSUME NEW b, NEW S
  PROVE  Cardinality({b} \cap S) = IF b \in S THEN 1 ELSE 0
<1>1. CASE b \in S
  <2>1. {b} \cap S = {b}
    BY <1>1
  <2> QED  BY <1>1, <2>1, FS_Singleton
<1>2. CASE b \notin S
  <2>1. {b} \cap S = {}
    BY <1>2
  <2> QED  BY <1>2, <2>1, FS_EmptySet
<1> QED  BY <1>1, <1>2

(* What the counts say of the buffers at every moment, and of the echo.      *)
LEMMA BufferResult == BufferInv => BuffersBalanced /\ EchoIntact
<1> SUFFICES ASSUME BufferInv  PROVE BuffersBalanced /\ EchoIntact
  OBVIOUS
<1>1. EchoIntact
  BY DEF BufferInv, EchoIntact
<1>2. ASSUME NEW b \in Buffers
      PROVE  ref[b] = (IF b \in writes THEN 1 ELSE 0)
               + (IF b = "header" /\ conn # "gone" THEN 1 ELSE 0)
               + (IF b = "handshake" /\ conn # "gone" /\ OwnsHandshake THEN 1 ELSE 0)
               + (IF b = "read" /\ Reading THEN 1 ELSE 0)
  <2> USE DEF BufferInv, Reading
  <2>1. CASE b = "read"
    BY <2>1
  <2>2. CASE b = "header"
    BY <2>2
  <2>3. CASE b = "handshake"
    BY <2>3
  <2>4. CASE b = "reply"
    BY <2>4
  <2> QED  BY <2>1, <2>2, <2>3, <2>4 DEF Buffers
<1>3. BuffersBalanced
  BY <1>2, HeldOnce DEF BuffersBalanced
<1> QED  BY <1>1, <1>3

(* The counts of the four buffers are what those who hold them account for,  *)
(* in every state of a connection.                                           *)
THEOREM Buffering == Spec => []BufferInv
  BY BufferInit, BufferStep, PTL DEF Spec

(* BuffersBalanced: whatever order the writes, the hangup and the removal of *)
(* a connection end in, each of its buffers has one reference for each of    *)
(* its holders, so that video_rtmp_remconn and the callbacks of the writes   *)
(* release it exactly once.                                                  *)
THEOREM BuffersReleased == Spec => []BuffersBalanced
  BY Buffering, BufferResult, PTL

(* EchoIntact: what video_rtmp_handshake_s1 echoes is C1 for as long as      *)
(* libuv writes it: video_rtmp_handshake_s2 counts C2 in the length of the   *)
(* same buffer and never stores it there.                                    *)
THEOREM Echo == Spec => []EchoIntact
  BY Buffering, BufferResult, PTL

(* SilentAfterClose: once disconnected, a connection hands over no message   *)
(* and writes nothing, although video_rtmp_readconn may be in the middle of  *)
(* a read.                                                                   *)
THEOREM Silence == Spec => SilentAfterClose
<1>1. ASSUME [Next]_vars, conn # "open"
      PROVE  dispatched' = dispatched /\ writes' \subseteq writes
  <2> USE <1>1 DEF chunkVars, bufVars
  <2>1. CASE Client
    BY <2>1, ClientOnly DEF readerVars
  <2>2. CASE Call
    BY <2>2 DEF Call, HandshakeS0, HandshakeS1, HandshakeS2, ReadHeader, ReadBody, Misread, Calling
  <2>3. CASE ReadBegin \/ ReadEnd \/ Hangup \/ Remove
    BY <2>3 DEF ReadBegin, ReadEnd, Hangup, Remove
  <2>4. ASSUME NEW b \in Buffers, WriteDone(b)  PROVE dispatched' = dispatched /\ writes' \subseteq writes
    BY <2>4 DEF WriteDone
  <2>5. CASE UNCHANGED vars
    BY <2>5 DEF vars
  <2> QED  BY <2>1, <2>2, <2>3, <2>4, <2>5 DEF Next, Over
<1>2. [Next]_vars => [conn # "open" => dispatched' = dispatched /\ writes' \subseteq writes]_vars
  BY <1>1
<1> QED  BY <1>2, PTL DEF Spec, SilentAfterClose

-----------------------------------------------------------------------------
(* The types of the variables                                                *)

(* What a message is to the client, and what it notes of its messages.       *)
MessageForm == [type : Types, length : Nat, size : Nat \ {0}]
SentType == [type : Types, length : Nat, size : Nat \ {0}, time : Nat]
CompletedType(n) == [msg : 1..n, drift : Nat, hit : BOOLEAN]
OutType == [msg : Nat, done : Nat]
LastType ==
  [fmt : 0..3, length : Nat, type : Types, time : Nat, diff : Nat, drift : Nat, hit : BOOLEAN]
AccountType ==
  [size : Nat \ {0}, ended : Nat, out : [ChunkIds -> OutType], last : [ChunkIds -> LastType]]

(* The chunks of a client that has begun n messages, and their bytes.        *)
HeadForm(n) ==
  [fmt : 0..3, id : ChunkIds, time : Nat, length : Nat, type : Types, msg : 1..n, from : Nat, body : Nat,
   before : AccountType, after : AccountType]
HeadType(n) == {h \in HeadForm(n) : h.fmt < 2 => h.from = 0}
ChunkByte(n) ==
  {t \in [kind : {"head", "ext", "body"}, at : Nat \ {0}, h : HeadType(n)] : t.kind = KindAt(t.h, t.at)}
Byte(n) == [kind : {"c0"}, version : {3, 6}] \cup [kind : {"c1", "c2"}] \cup ChunkByte(n)

(* What the reader notes of a chunk stream, and of a message.                *)
ClockType == Nat \cup {Garbled}
RecordType(n) ==
  [length : Nat, type : Types, time : ClockType, diff : Nat, got : Nat, msg : 1..n]
DispatchedType(n) == [msg : 1..n, type : Types, length : Nat, time : ClockType]

(* The client: a message in the middle was begun, and not more of it sent    *)
(* than there is.                                                            *)
ClientTypes ==
  /\ phase \in {"c0", "c2", "chunks"}
  /\ sent \in Seq(SentType)
  /\ completed \in Seq(CompletedType(Len(sent)))
  /\ out \in [ChunkIds -> OutType]
  /\ last \in [ChunkIds -> LastType]
  /\ outsize \in Nat \ {0}
  /\ \A id \in ChunkIds :
       out[id].msg # 0 =>
         phase = "chunks" /\ out[id].msg \in 1..Len(sent) /\ out[id].done <= sent[out[id].msg].length

(* The reader: in a body there is a current record, and it holds no more     *)
(* than its message.                                                         *)
ReaderTypes ==
  /\ wire \in Seq(Byte(Len(sent)))
  /\ buf \in Seq(Byte(Len(sent)))
  /\ state \in {"s0", "s1", "s2", "header", "body"}
  /\ hslen \in 0..HandshakeSize
  /\ state = "s0" => hslen = 0
  /\ state \in {"s1", "s2"} => hslen < HandshakeSize
  /\ hlen \in Nat
  /\ insize \in Nat \ {0}
  /\ misread \in BOOLEAN
  /\ DOMAIN chunks \subseteq Int
  /\ chunks \in [DOMAIN chunks -> RecordType(Len(sent))]
  /\ state = "body" /\ conn # "gone" => current \in DOMAIN chunks
  /\ ~misread => \A x \in DOMAIN chunks : chunks[x].got <= chunks[x].length
  /\ dispatched \in Seq(DispatchedType(Len(sent)))

(* Types grow with the number of messages.                                   *)
LEMMA SeqGrows ==
  ASSUME NEW S, NEW T, S \subseteq T, NEW s \in Seq(S)
  PROVE  s \in Seq(T)
  OBVIOUS

(* So do the types that mention the number of messages, as it grows.         *)
LEMMA TypesGrow ==
  ASSUME NEW n \in Nat, NEW m \in Nat, n <= m
  PROVE  /\ Byte(n) \subseteq Byte(m)
         /\ CompletedType(n) \subseteq CompletedType(m)
         /\ RecordType(n) \subseteq RecordType(m)
         /\ DispatchedType(n) \subseteq DispatchedType(m)
         /\ ChunkByte(n) \subseteq ChunkByte(m)
<1>1. 1..n \subseteq 1..m
  OBVIOUS
<1>2. CompletedType(n) \subseteq CompletedType(m)
  BY <1>1 DEF CompletedType
<1>3. RecordType(n) \subseteq RecordType(m)
  BY <1>1 DEF RecordType
<1>4. DispatchedType(n) \subseteq DispatchedType(m)
  BY <1>1 DEF DispatchedType
<1>5. HeadForm(n) \subseteq HeadForm(m)
  BY <1>1 DEF HeadForm
<1>6. HeadType(n) \subseteq HeadType(m)
  BY <1>5 DEF HeadType
<1>7. ChunkByte(n) \subseteq ChunkByte(m)
  BY <1>6 DEF ChunkByte
<1>8. Byte(n) \subseteq Byte(m)
  BY <1>7 DEF Byte
<1> QED  BY <1>2, <1>3, <1>4, <1>7, <1>8

(* The fields of a chunk.                                                    *)
LEMMA HeadFields ==
  ASSUME NEW n \in Nat, NEW h \in HeadType(n)
  PROVE  /\ h.fmt \in 0..3 /\ h.id \in ChunkIds /\ h.time \in Nat /\ h.length \in Nat /\ h.type \in Types
         /\ h.msg \in 1..n /\ h.from \in Nat /\ h.body \in Nat
         /\ h.before \in AccountType /\ h.after \in AccountType
         /\ h.fmt < 2 => h.from = 0
<1>1. h \in HeadForm(n) /\ (h.fmt < 2 => h.from = 0)
  BY DEF HeadType
<1> QED  BY <1>1 DEF HeadForm

(* Ids of chunk streams are numbers.                                         *)
LEMMA IdNumber == \A id \in ChunkIds : id \in Int
  BY ClientAssumption

(* The bytes of a chunk.                                                     *)
LEMMA HeaderSizes ==
  ASSUME NEW n \in Nat, NEW h \in HeadType(n)
  PROVE  /\ HeaderBytes(h) \in Nat \ {0}
         /\ HeadEnd(h) \in Nat /\ HeadEnd(h) >= HeaderBytes(h)
         /\ h.time < ExtTime => HeadEnd(h) = HeaderBytes(h)
         /\ ChunkEnd(h) = HeadEnd(h) + h.body /\ ChunkEnd(h) \in Nat
<1>1. h.fmt \in 0..3 /\ h.id \in Int /\ h.body \in Nat /\ h.time \in Nat
  BY HeadFields, IdNumber
<1>2. FieldBytes(h.fmt) \in Nat
  BY <1>1, SizeAssumption DEF FieldBytes
<1>3. IdBytes(h.id) \in {1, 2, 3}
  <2>1. CASE h.id < 64
    BY <2>1, <1>1 DEF IdBytes
  <2>2. CASE h.id \in 64..319
    BY <2>2, <1>1 DEF IdBytes
  <2>3. CASE h.id > 319
    BY <2>3, <1>1 DEF IdBytes
  <2> QED  BY <2>1, <2>2, <2>3, <1>1
<1>4. HeaderBytes(h) \in Nat \ {0}
  BY <1>2, <1>3 DEF HeaderBytes
<1>5. HeadEnd(h) \in Nat /\ HeadEnd(h) >= HeaderBytes(h) /\ (h.time < ExtTime => HeadEnd(h) = HeaderBytes(h))
  BY <1>1, <1>4, SizeAssumption DEF HeadEnd
<1> QED  BY <1>1, <1>4, <1>5 DEF ChunkEnd

(* The bytes of a chunk are as many as it has, each with its place in it.    *)
LEMMA ChunkTokensShape ==
  ASSUME NEW n \in Nat, NEW h \in HeadType(n)
  PROVE  /\ ChunkTokens(h) \in Seq(Byte(n))
         /\ Len(ChunkTokens(h)) = ChunkEnd(h)
         /\ \A i \in 1..ChunkEnd(h) : ChunkTokens(h)[i] = [kind |-> KindAt(h, i), at |-> i, h |-> h]
<1>1. ChunkEnd(h) \in Nat
  BY HeaderSizes
<1>2. ASSUME NEW i \in 1..ChunkEnd(h)  PROVE [kind |-> KindAt(h, i), at |-> i, h |-> h] \in ChunkByte(n)
  <2>1. KindAt(h, i) \in {"head", "ext", "body"}
    BY DEF KindAt
  <2>2. i \in Nat \ {0}
    BY <1>1
  <2> QED  BY <2>1, <2>2 DEF ChunkByte
<1>3. \A i \in 1..ChunkEnd(h) : [kind |-> KindAt(h, i), at |-> i, h |-> h] \in Byte(n)
  BY <1>2 DEF Byte
<1> QED  BY <1>1, <1>3 DEF ChunkTokens

(* What a byte taken for one of a header is.                                 *)
LEMMA HeadTokens ==
  ASSUME NEW n \in Nat, NEW t \in Byte(n), t.kind \in {"head", "ext", "body"}
  PROVE  /\ t \in ChunkByte(n) /\ t.h \in HeadType(n) /\ t.at \in Nat \ {0}
         /\ t.kind = "head" => t.at <= HeaderBytes(t.h)
<1>1. t \in ChunkByte(n)
  BY DEF Byte
<1> QED  BY <1>1 DEF ChunkByte, KindAt

(* What a chunk notes of the client's books is well formed.                  *)
LEMMA AccountTyped ==
  ASSUME ClientTypes
  PROVE  Account \in AccountType
  BY DEF ClientTypes, Account, AccountType

(* The ids that the reader makes are numbers.                                *)
LEMMA DecodedNumber ==
  ASSUME NEW id \in ChunkIds
  PROVE  DecodedId(id) \in Int
<1>1. id \in Int
  BY IdNumber
<1>2. ASSUME NEW byte \in Int  PROVE Signed(byte) \in Int
  BY DEF Signed
<1>3. PICK low : low = (id - 64) % 256
  OBVIOUS
<1>4. PICK high : high = (id - 64) \div 256
  OBVIOUS
<1>5. low \in Int /\ high \in Int
  BY <1>1, <1>3, <1>4
<1>6. PICK x : x = Signed(low)
  OBVIOUS
<1>7. PICK y : y = Signed(high)
  OBVIOUS
<1>8. x \in Int /\ y \in Int
  BY <1>2, <1>5, <1>6, <1>7
<1>9. DecodedId(id) = CASE id < 64        -> id
                        [] id \in 64..319 -> 64 + x
                        [] id > 319       -> 64 + x * 256 + y
  BY <1>3, <1>4, <1>6, <1>7, Zenon DEF DecodedId
<1>10. id < 64 \/ id \in 64..319 \/ id > 319
  BY <1>1
<1>11. DecodedId(id) \in {id, 64 + x, 64 + x * 256 + y}
  BY <1>9, <1>10
<1> QED  BY <1>1, <1>8, <1>11

(* What the client does with its books.                                      *)
LEMMA AdvanceTypes ==
  ASSUME ClientTypes, NEW id \in ChunkIds, NEW m \in 1..Len(sent'), NEW n \in Nat, NEW message,
         message.length \in Nat, message.size \in Nat \ {0}, n <= message.length,
         NEW header \in LastType, Len(sent') \in Nat, Len(sent) <= Len(sent'),
         Advance(id, m, n, message, header)
  PROVE  /\ out' \in [ChunkIds -> OutType]
         /\ completed' \in Seq(CompletedType(Len(sent')))
         /\ outsize' \in Nat \ {0}
         /\ \A x \in ChunkIds \ {id} : out'[x] = out[x]
         /\ out'[id].msg # 0 => out'[id].msg = m /\ out'[id].done = n
<1>1. Len(sent) \in Nat
  BY DEF ClientTypes
<1>2. [msg |-> 0, done |-> 0] \in OutType /\ [msg |-> m, done |-> n] \in OutType
  BY DEF OutType
<1>3. out' \in [ChunkIds -> OutType] /\ (\A x \in ChunkIds \ {id} : out'[x] = out[x])
      /\ out'[id] \in {[msg |-> 0, done |-> 0], [msg |-> m, done |-> n]}
  BY <1>2 DEF Advance, ClientTypes
<1>4. [msg |-> m, drift |-> header.drift, hit |-> header.hit] \in CompletedType(Len(sent'))
  BY DEF CompletedType, LastType
<1>5. completed \in Seq(CompletedType(Len(sent')))
  BY <1>1, TypesGrow, SeqGrows DEF ClientTypes
<1>6. completed' \in Seq(CompletedType(Len(sent')))
  BY <1>4, <1>5 DEF Advance
<1>7. outsize' \in Nat \ {0}
  BY DEF Advance, ClientTypes
<1> QED  BY <1>3, <1>6, <1>7

(* The chunk h that is sent when a message begins, and when it goes on.       *)
Begun(h, id, fmt, message, time) ==
  /\ wire' = wire \o ChunkTokens(h)
  /\ h.fmt = fmt /\ h.id = id /\ h.time = time /\ h.length = message.length /\ h.type = message.type
  /\ h.msg = Len(sent) + 1 /\ h.from = 0 /\ h.body = Least({outsize, message.length})
  /\ h.before = Account /\ h.after = Account'

(* The same for a message that goes on.                                      *)
Continued(h, id) ==
  /\ wire' = wire \o ChunkTokens(h)
  /\ h.fmt = 3 /\ h.id = id /\ h.time = 0 /\ h.length = sent[out[id].msg].length
  /\ h.type = sent[out[id].msg].type /\ h.msg = out[id].msg /\ h.from = out[id].done
  /\ h.body = Least({outsize, sent[out[id].msg].length - out[id].done})
  /\ h.before = Account /\ h.after = Account'

(* Beginning a message keeps the types of the client, and sends one chunk.   *)
LEMMA BeginTypes ==
  ASSUME ClientTypes, NEW id \in ChunkIds, NEW fmt \in 0..3, NEW message \in MessageForm, NEW time \in Nat,
         Begin(id, fmt, message, time)
  PROVE  /\ ClientTypes'
         /\ Len(sent') = Len(sent) + 1 /\ \A i \in 1..Len(sent) : sent'[i] = sent[i]
         /\ \E h \in HeadType(Len(sent')) : Begun(h, id, fmt, message, time)
<1> DEFINE m == Len(sent) + 1
           n == Least({outsize, message.length})
           h == [fmt |-> fmt, id |-> id, time |-> time, length |-> message.length,
                 type |-> message.type, msg |-> m, from |-> 0, body |-> n,
                 before |-> Account, after |-> Account']
           l == last[id]
           meant == IF fmt = 0 THEN time ELSE l.time + time
           drift == IF fmt = 0 THEN 0 ELSE l.drift
           new == [fmt    |-> IF fmt = 3 THEN l.fmt ELSE fmt,
                   length |-> message.length, type |-> message.type,
                   time   |-> meant, diff |-> IF fmt = 0 THEN 0 ELSE time,
                   drift  |-> drift, hit |-> (fmt > 0 /\ l.hit) \/ meant + drift = ExtTime]
           s == [type |-> message.type, length |-> message.length, size |-> message.size, time |-> meant]
<1>1. /\ phase = "chunks" /\ phase' = phase
      /\ last' = [last EXCEPT ![id] = new]
      /\ sent' = Append(sent, s)
      /\ Advance(id, m, n, message, last'[id])
      /\ wire' = wire \o ChunkTokens(h)
  BY DEF Begin
<1>2. message.type \in Types /\ message.length \in Nat /\ message.size \in Nat \ {0}
  BY DEF MessageForm
<1>3. Len(sent) \in Nat /\ outsize \in Nat \ {0} /\ l \in LastType
  BY DEF ClientTypes
<1>4. n \in Nat /\ n <= message.length
  BY <1>2, <1>3, LeastOfTwo
<1>5. l.fmt \in 0..3 /\ l.time \in Nat /\ l.drift \in Nat /\ l.hit \in BOOLEAN
  BY <1>3 DEF LastType
<1>6. meant \in Nat /\ drift \in Nat
  BY <1>5
<1>7. new \in LastType
  BY <1>2, <1>5, <1>6 DEF LastType
<1>8. s \in SentType
  BY <1>2, <1>6 DEF SentType
<1> HIDE DEF n, l, meant, drift, new, s
<1>9. last' \in [ChunkIds -> LastType] /\ last'[id] = new
  BY <1>1, <1>7 DEF ClientTypes
<1>10. sent' \in Seq(SentType) /\ Len(sent') = Len(sent) + 1 /\ sent'[m] = s
       /\ \A i \in 1..Len(sent) : sent'[i] = sent[i]
  BY <1>1, <1>3, <1>8 DEF ClientTypes
<1>11. m \in 1..Len(sent') /\ Len(sent') \in Nat /\ Len(sent) <= Len(sent')
  BY <1>3, <1>10
<1>12. /\ out' \in [ChunkIds -> OutType]
       /\ completed' \in Seq(CompletedType(Len(sent')))
       /\ outsize' \in Nat \ {0}
       /\ \A x \in ChunkIds \ {id} : out'[x] = out[x]
       /\ out'[id].msg # 0 => out'[id].msg = m /\ out'[id].done = n
  <2> HIDE DEF m
  <2> QED  BY <1>1, <1>2, <1>4, <1>7, <1>9, <1>11, AdvanceTypes
<1>13. ASSUME NEW x \in ChunkIds, out'[x].msg # 0
       PROVE  out'[x].msg \in 1..Len(sent') /\ out'[x].done <= sent'[out'[x].msg].length
  <2>1. CASE x = id
    <3>1. out'[x].msg = m /\ out'[x].done = n
      BY <2>1, <1>12, <1>13
    <3>2. s.length = message.length
      BY DEF s
    <3> QED  BY <3>1, <3>2, <1>4, <1>10, <1>11
  <2>2. CASE x # id
    <3>1. out'[x] = out[x] /\ out[x].msg # 0
      BY <2>2, <1>12, <1>13
    <3>2. out[x].msg \in 1..Len(sent) /\ out[x].done <= sent[out[x].msg].length
      BY <3>1 DEF ClientTypes
    <3>3. sent'[out[x].msg] = sent[out[x].msg]
      BY <3>2, <1>10
    <3> QED  BY <3>1, <3>2, <3>3, <1>3, <1>10
  <2> QED  BY <2>1, <2>2
<1>14. ClientTypes'
  <2>1. phase' = "chunks"
    BY <1>1
  <2> QED  BY <2>1, <1>9, <1>10, <1>12, <1>13 DEF ClientTypes
<1>15. h \in HeadType(Len(sent'))
  <2>1. Account \in AccountType
    BY AccountTyped
  <2>2. Account' \in AccountType
    BY <1>14 DEF ClientTypes, Account, AccountType
  <2>3. PICK a \in AccountType : a = Account
    BY <2>1
  <2>4. PICK b \in AccountType : b = Account'
    BY <2>2
  <2>5. PICK k : k = [fmt |-> fmt, id |-> id, time |-> time, length |-> message.length,
                      type |-> message.type, msg |-> m, from |-> 0, body |-> n, before |-> a, after |-> b]
    OBVIOUS
  <2> HIDE DEF m
  <2>6. k \in HeadForm(Len(sent'))
    BY <2>5, <1>2, <1>4, <1>11 DEF HeadForm
  <2>7. k.from = 0
    BY <2>5
  <2>8. k \in HeadType(Len(sent'))
    BY <2>6, <2>7 DEF HeadType
  <2>9. h = k
    BY <2>3, <2>4, <2>5
  <2> HIDE DEF h
  <2> QED  BY <2>8, <2>9
<1>16. /\ h.fmt = fmt /\ h.id = id /\ h.time = time /\ h.length = message.length /\ h.type = message.type
       /\ h.msg = Len(sent) + 1 /\ h.from = 0 /\ h.body = Least({outsize, message.length})
       /\ h.before = Account /\ h.after = Account'
  BY DEF n
<1>17. Begun(h, id, fmt, message, time)
  BY <1>1, <1>16 DEF Begun
<1> HIDE DEF h, m
<1> QED  BY <1>10, <1>14, <1>15, <1>17

(* Going on with a message keeps them, and sends another.                    *)
LEMMA ContinueTypes ==
  ASSUME ClientTypes, NEW id \in ChunkIds, Continue(id)
  PROVE  /\ ClientTypes'
         /\ sent' = sent
         /\ \E h \in HeadType(Len(sent')) : Continued(h, id)
<1> DEFINE m == out[id].msg
           message == sent[m]
           n == Least({outsize, message.length - out[id].done})
           h == [fmt |-> 3, id |-> id, time |-> 0, length |-> message.length,
                 type |-> message.type, msg |-> m, from |-> out[id].done, body |-> n,
                 before |-> Account, after |-> Account']
           l == last[id]
           new == [l EXCEPT !.drift = @ + l.diff, !.hit = @ \/ l.time + l.drift + l.diff = ExtTime]
<1>1. /\ m # 0
      /\ last' = [last EXCEPT ![id].drift = @ + l.diff, ![id].hit = @ \/ l.time + l.drift + l.diff = ExtTime]
      /\ Advance(id, m, out[id].done + n, message, last'[id])
      /\ wire' = wire \o ChunkTokens(h)
      /\ sent' = sent /\ phase' = phase
  BY DEF Continue
<1>2. Len(sent) \in Nat /\ outsize \in Nat \ {0} /\ l \in LastType /\ out[id].done \in Nat
  BY DEF ClientTypes, OutType
<1>3. phase = "chunks" /\ m \in 1..Len(sent) /\ out[id].done <= message.length
  BY <1>1 DEF ClientTypes
<1>4. message.type \in Types /\ message.length \in Nat /\ message.size \in Nat \ {0}
  <2>1. message \in SentType
    BY <1>3 DEF ClientTypes
  <2> QED  BY <2>1 DEF SentType
<1>5. n \in Nat /\ out[id].done + n <= message.length /\ out[id].done + n \in Nat
  <2>1. PICK k \in Nat : k = message.length - out[id].done
    BY <1>2, <1>3, <1>4
  <2>2. n \in Nat /\ n <= k
    BY <2>1, <1>2, LeastOfTwo
  <2> QED  BY <2>1, <2>2, <1>2, <1>4
<1>6. new \in LastType
  <2>1. l.drift \in Nat /\ l.diff \in Nat
    BY <1>2 DEF LastType
  <2>2. PICK d \in Nat : d = l.drift + l.diff
    BY <2>1
  <2>3. PICK b \in BOOLEAN : b = (l.hit \/ l.time + l.drift + l.diff = ExtTime)
    OBVIOUS
  <2>4. new = [l EXCEPT !.drift = d, !.hit = b]
    BY <2>2, <2>3
  <2>5. [l EXCEPT !.drift = d, !.hit = b] \in LastType
    BY <1>2 DEF LastType
  <2> QED  BY <2>4, <2>5
<1>7. last' = [last EXCEPT ![id] = new]
  <2>1. last \in [ChunkIds -> LastType]
    BY DEF ClientTypes
  <2> QED  BY <2>1, <1>1
<1> HIDE DEF n, new
<1>8. last' \in [ChunkIds -> LastType] /\ last'[id] = new
  BY <1>6, <1>7 DEF ClientTypes
<1>9. /\ out' \in [ChunkIds -> OutType]
      /\ completed' \in Seq(CompletedType(Len(sent')))
      /\ outsize' \in Nat \ {0}
      /\ \A x \in ChunkIds \ {id} : out'[x] = out[x]
      /\ out'[id].msg # 0 => out'[id].msg = m /\ out'[id].done = out[id].done + n
  <2>1. m \in 1..Len(sent') /\ Len(sent') \in Nat /\ Len(sent) <= Len(sent')
    BY <1>1, <1>2, <1>3
  <2>2. PICK k \in Nat : k = out[id].done + n
    BY <1>5
  <2> HIDE DEF m, message
  <2> QED  BY <2>1, <2>2, <1>1, <1>4, <1>5, <1>6, <1>8, AdvanceTypes
<1>10. ClientTypes'
  <2>1. ASSUME NEW x \in ChunkIds, out'[x].msg # 0
        PROVE  out'[x].msg \in 1..Len(sent) /\ out'[x].done <= sent[out'[x].msg].length
    <3>1. CASE x = id
      BY <3>1, <2>1, <1>3, <1>5, <1>9
    <3>2. CASE x # id
      BY <3>2, <2>1, <1>9 DEF ClientTypes
    <3> QED  BY <3>1, <3>2
  <2>2. phase' = "chunks" /\ sent' \in Seq(SentType)
    BY <1>1, <1>3 DEF ClientTypes
  <2> QED  BY <2>1, <2>2, <1>1, <1>8, <1>9 DEF ClientTypes
<1>11. h \in HeadType(Len(sent'))
  <2>1. Account \in AccountType
    BY AccountTyped
  <2>2. Account' \in AccountType
    BY <1>10 DEF ClientTypes, Account, AccountType
  <2>3. PICK a \in AccountType : a = Account
    BY <2>1
  <2>4. PICK b \in AccountType : b = Account'
    BY <2>2
  <2>5. PICK f \in Nat : f = out[id].done
    BY <1>2
  <2>6. PICK k : k = [fmt |-> 3, id |-> id, time |-> 0, length |-> message.length,
                      type |-> message.type, msg |-> m, from |-> f, body |-> n, before |-> a, after |-> b]
    OBVIOUS
  <2>7. k.fmt = 3 /\ h = k
    BY <2>3, <2>4, <2>5, <2>6
  <2> HIDE DEF m, message, h
  <2>8. k \in HeadForm(Len(sent'))
    BY <2>6, <1>1, <1>2, <1>3, <1>4, <1>5 DEF HeadForm
  <2>9. k \in HeadType(Len(sent'))
    BY <2>7, <2>8 DEF HeadType
  <2> QED  BY <2>7, <2>9
<1>12. /\ h.fmt = 3 /\ h.id = id /\ h.time = 0 /\ h.length = sent[out[id].msg].length
       /\ h.type = sent[out[id].msg].type /\ h.msg = out[id].msg /\ h.from = out[id].done
       /\ h.body = Least({outsize, sent[out[id].msg].length - out[id].done})
       /\ h.before = Account /\ h.after = Account'
  BY DEF n
<1>13. Continued(h, id)
  BY <1>1, <1>12 DEF Continued
<1> HIDE DEF h
<1> QED  BY <1>1, <1>10, <1>11, <1>13

(* The numbers of the client.                                                *)
LEMMA Inputs == (\A x \in Lengths : x \in Nat) /\ (\A x \in Times : x \in Nat) /\ (\A x \in Deltas : x \in Nat)
  BY ClientAssumption

(* A run of equal bytes.                                                     *)
LEMMA CopiesShape ==
  ASSUME NEW S, NEW token \in S
  PROVE  Copies(HandshakeSize, token) \in Seq(S) /\ Len(Copies(HandshakeSize, token)) = HandshakeSize
  BY SizeAssumption DEF Copies

(* The client on the type of the stream.                                     *)
LEMMA ClientStepTypes ==
  ASSUME ClientTypes, wire \in Seq(Byte(Len(sent))), Client
  PROVE  ClientTypes' /\ Len(sent') \in Nat /\ Len(sent) <= Len(sent') /\ wire' \in Seq(Byte(Len(sent')))
<1>0. Len(sent) \in Nat
  BY DEF ClientTypes
<1>1. CASE Hello
  <2>1. PICK v \in {3, 6} :
          wire' = wire \o <<[kind |-> "c0", version |-> v]>> \o Copies(HandshakeSize, [kind |-> "c1"])
    BY <1>1 DEF Hello
  <2>2. UNCHANGED <<sent, completed, out, last, outsize>> /\ phase = "c0" /\ phase' = "c2"
    BY <1>1 DEF Hello
  <2>3. ClientTypes'
    BY <2>2 DEF ClientTypes
  <2>4. PICK a \in Byte(Len(sent)) : a = [kind |-> "c0", version |-> v]
    BY DEF Byte
  <2>5. Copies(HandshakeSize, [kind |-> "c1"]) \in Seq(Byte(Len(sent)))
    <3>1. [kind |-> "c1"] \in Byte(Len(sent))
      BY DEF Byte
    <3> QED  BY <3>1, CopiesShape
  <2>6. PICK t \in Seq(Byte(Len(sent))) : t = Copies(HandshakeSize, [kind |-> "c1"])
    BY <2>5
  <2>7. wire' = wire \o <<a>> \o t
    BY <2>1, <2>4, <2>6
  <2>8. wire' \in Seq(Byte(Len(sent)))
    BY <2>7
  <2> QED  BY <1>0, <2>2, <2>3, <2>8
<1>2. CASE Acknowledge
  <2>1. wire' = wire \o Copies(HandshakeSize, [kind |-> "c2"])
        /\ UNCHANGED <<sent, completed, out, last, outsize>> /\ phase' = "chunks"
    BY <1>2 DEF Acknowledge
  <2>2. ClientTypes'
    BY <2>1 DEF ClientTypes
  <2>3. [kind |-> "c2"] \in Byte(Len(sent))
    BY DEF Byte
  <2>4. PICK t \in Seq(Byte(Len(sent))) : t = Copies(HandshakeSize, [kind |-> "c2"])
    BY <2>3, CopiesShape
  <2>5. wire' = wire \o t
    BY <2>1, <2>4
  <2>6. wire' \in Seq(Byte(Len(sent)))
    BY <2>5, ConcatProperties
  <2> QED  BY <1>0, <2>1, <2>2, <2>6
<1>3. ASSUME NEW id \in ChunkIds, NEW fmt \in 0..3, NEW type \in Types, NEW length \in Lengths \cup {SizeLength},
             NEW size \in ChunkSizes \cup {outsize}, NEW time \in Times \cup Deltas,
             Begin(id, fmt, [type |-> type, length |-> length, size |-> size], time)
      PROVE  ClientTypes' /\ Len(sent') \in Nat /\ Len(sent) <= Len(sent') /\ wire' \in Seq(Byte(Len(sent')))
  <2>1. length \in Nat
    BY Inputs, SizeAssumption
  <2>2. size \in Nat \ {0}
    BY SizeAssumption DEF ClientTypes
  <2>3. time \in Nat
    BY Inputs
  <2>4. PICK message \in MessageForm : message = [type |-> type, length |-> length, size |-> size]
    BY <2>1, <2>2 DEF MessageForm
  <2>5. Begin(id, fmt, message, time)
    BY <1>3, <2>4
  <2>6. ClientTypes' /\ Len(sent') = Len(sent) + 1
    BY <2>3, <2>5, BeginTypes
  <2>7. PICK h \in HeadType(Len(sent')) : wire' = wire \o ChunkTokens(h)
    <3>1. PICK h \in HeadType(Len(sent')) : Begun(h, id, fmt, message, time)
      BY <2>3, <2>5, BeginTypes
    <3> QED  BY <3>1 DEF Begun
  <2>8. Len(sent') \in Nat /\ Len(sent) <= Len(sent')
    BY <1>0, <2>6
  <2>9. ChunkTokens(h) \in Seq(Byte(Len(sent'))) /\ wire \in Seq(Byte(Len(sent')))
    BY <1>0, <2>8, ChunkTokensShape, TypesGrow, SeqGrows
  <2> QED  BY <2>6, <2>7, <2>8, <2>9, ConcatProperties
<1>4. ASSUME NEW id \in ChunkIds, Continue(id)
      PROVE  ClientTypes' /\ Len(sent') \in Nat /\ Len(sent) <= Len(sent') /\ wire' \in Seq(Byte(Len(sent')))
  <2>1. ClientTypes' /\ sent' = sent
    BY <1>4, ContinueTypes
  <2>2. PICK h \in HeadType(Len(sent)) : wire' = wire \o ChunkTokens(h)
    <3>1. PICK h \in HeadType(Len(sent')) : Continued(h, id)
      BY <1>4, ContinueTypes
    <3> QED  BY <2>1, <3>1 DEF Continued
  <2>3. ChunkTokens(h) \in Seq(Byte(Len(sent)))
    BY <1>0, ChunkTokensShape
  <2> QED  BY <1>0, <2>1, <2>2, <2>3, ConcatProperties
<1>5. ASSUME NEW id \in ChunkIds, Abort(id)
      PROVE  ClientTypes' /\ Len(sent') \in Nat /\ Len(sent) <= Len(sent') /\ wire' \in Seq(Byte(Len(sent')))
  <2>1. out' = [out EXCEPT ![id] = [msg |-> 0, done |-> 0]]
        /\ UNCHANGED <<phase, sent, completed, last, outsize, wire>>
    BY <1>5 DEF Abort
  <2>2. [msg |-> 0, done |-> 0] \in OutType
    BY DEF OutType
  <2>3. ClientTypes'
    BY <2>1, <2>2 DEF ClientTypes
  <2> QED  BY <1>0, <2>1, <2>3
<1> QED  BY <1>1, <1>2, <1>3, <1>4, <1>5 DEF Client

-----------------------------------------------------------------------------
(* The reader's steps on the types.                                          *)

(* The client adds to the wire; the reader keeps its types.                  *)
LEMMA ClientStepReaderTypes ==
  ASSUME ClientTypes, ReaderTypes, Client
  PROVE  ReaderTypes'
<1>1. Len(sent) \in Nat /\ Len(sent') \in Nat /\ Len(sent) <= Len(sent') /\ wire' \in Seq(Byte(Len(sent')))
  BY ClientStepTypes DEF ClientTypes, ReaderTypes
<1>2. UNCHANGED <<conn, state, buf, hslen, hlen, chunks, current, insize, dispatched, misread>>
  BY ClientOnly DEF readerVars, hsVars, chunkVars
<1>3. PICK n \in Nat : n = Len(sent)
  BY <1>1
<1>4. PICK m \in Nat : m = Len(sent') /\ n <= m
  BY <1>1, <1>3
<1>5. Byte(n) \subseteq Byte(m) /\ RecordType(n) \subseteq RecordType(m)
      /\ DispatchedType(n) \subseteq DispatchedType(m)
  BY <1>4, TypesGrow
<1>6. buf' \in Seq(Byte(m)) /\ dispatched' \in Seq(DispatchedType(m))
  BY <1>2, <1>3, <1>5, SeqGrows DEF ReaderTypes
<1>7. chunks' \in [DOMAIN chunks' -> RecordType(m)]
  BY <1>2, <1>3, <1>5 DEF ReaderTypes
<1> QED  BY <1>1, <1>2, <1>4, <1>6, <1>7 DEF ReaderTypes

(* A chunk record is put in its place.                                       *)
LEMMA PutChunkEffect ==
  ASSUME NEW T, NEW id, NEW c \in T, chunks \in [DOMAIN chunks -> T], PutChunk(id, c)
  PROVE  /\ DOMAIN chunks' = DOMAIN chunks \cup {id}
         /\ chunks' \in [DOMAIN chunks' -> T]
         /\ chunks'[id] = c
         /\ \A x \in DOMAIN chunks \ {id} : chunks'[x] = chunks[x]
  BY DEF PutChunk

(* The record that a header finds, and the one it makes.                     *)
RawType == [length : Nat, type : Types, time : ClockType, diff : Nat, got : Nat, msg : Nat]

(* The record that a header finds for its id, a new one included.            *)
LEMMA ChunkTyped ==
  ASSUME ClientTypes, ReaderTypes, NEW id
  PROVE  /\ Chunk(id) \in RawType
         /\ ~misread => Chunk(id).got <= Chunk(id).length
<1>1. CASE id \in DOMAIN chunks
  <2>1. chunks[id] \in RecordType(Len(sent)) /\ Len(sent) \in Nat
    BY <1>1 DEF ReaderTypes, ClientTypes
  <2>2. chunks[id] \in RawType
    BY <2>1 DEF RecordType, RawType
  <2> QED  BY <1>1, <2>2 DEF Chunk, ReaderTypes
<1>2. CASE id \notin DOMAIN chunks
  <2>1. FreshChunk(id) \in RawType /\ FreshChunk(id).got <= FreshChunk(id).length
    BY DEF FreshChunk, RawType, ClockType, Types
  <2> QED  BY <1>2, <2>1 DEF Chunk
<1> QED  BY <1>1, <1>2

(* The record it makes: which fields are the header's and which are kept.    *)
LEMMA FieldsSet ==
  ASSUME NEW n \in Nat, NEW h \in HeadType(n), NEW c \in RawType
  PROVE  /\ Fields(c, h) \in RecordType(n)
         /\ Fields(c, h).length = (IF h.fmt < 2 THEN h.length ELSE c.length)
         /\ Fields(c, h).type = (IF h.fmt < 2 THEN h.type ELSE c.type)
         /\ Fields(c, h).got = c.got
         /\ Fields(c, h).msg = h.msg
         /\ h.time < ExtTime =>
              /\ Fields(c, h).diff = (CASE h.fmt = 0 -> 0 [] h.fmt \in {1, 2} -> h.time [] h.fmt = 3 -> c.diff)
              /\ Fields(c, h).time = TimeAfter(IF h.fmt = 0 THEN h.time ELSE c.time, Fields(c, h).diff)
<1> DEFINE field == Least({h.time, ExtTime})
           diff == CASE h.fmt = 0 -> 0 [] h.fmt \in {1, 2} -> field [] h.fmt = 3 -> c.diff
           time == TimeAfter(IF h.fmt = 0 THEN field ELSE c.time, diff)
           r == [length |-> IF h.fmt < 2 THEN h.length ELSE c.length,
                 type |-> IF h.fmt < 2 THEN h.type ELSE c.type,
                 time |-> time, diff |-> diff, got |-> c.got, msg |-> h.msg]
<1>1. h.fmt \in 0..3 /\ h.time \in Nat /\ h.length \in Nat /\ h.type \in Types /\ h.msg \in 1..n
  BY HeadFields
<1>2. c.length \in Nat /\ c.type \in Types /\ c.time \in ClockType /\ c.diff \in Nat /\ c.got \in Nat
  BY DEF RawType
<1>3. field = (IF h.time <= ExtTime THEN h.time ELSE ExtTime) /\ field \in Nat
  BY <1>1, SizeAssumption, LeastOfTwo
<1>4. diff \in Nat
  BY <1>1, <1>2, <1>3
<1>5. Fields(c, h) = r
  <2> HIDE DEF field
  <2>1. Fields(c, h) = [c EXCEPT !.length = IF h.fmt < 2 THEN h.length ELSE @,
               !.type = IF h.fmt < 2 THEN h.type ELSE @,
               !.diff = diff,
               !.time = TimeAfter(IF h.fmt = 0 THEN field ELSE @, diff),
               !.msg = h.msg]
    BY DEF Fields, field
  <2> HIDE DEF diff
  <2> QED  BY <2>1 DEF RawType
<1>6. time \in ClockType
  <2>1. PICK a \in ClockType : a = IF h.fmt = 0 THEN field ELSE c.time
    BY <1>2, <1>3 DEF ClockType
  <2>2. PICK d \in Nat : d = diff
    BY <1>4
  <2>3. TimeAfter(a, d) \in ClockType
    BY DEF TimeAfter, ClockType, Garbled
  <2> QED  BY <2>1, <2>2, <2>3
<1> HIDE DEF field, diff, time
<1>7. r \in RecordType(n)
  BY <1>1, <1>2, <1>4, <1>6 DEF RecordType
<1>8. /\ r.length = (IF h.fmt < 2 THEN h.length ELSE c.length)
      /\ r.type = (IF h.fmt < 2 THEN h.type ELSE c.type)
      /\ r.got = c.got /\ r.msg = h.msg /\ r.diff = diff /\ r.time = time
  OBVIOUS
<1> HIDE DEF r
<1>9. ASSUME h.time < ExtTime
      PROVE  /\ diff = (CASE h.fmt = 0 -> 0 [] h.fmt \in {1, 2} -> h.time [] h.fmt = 3 -> c.diff)
             /\ time = TimeAfter(IF h.fmt = 0 THEN h.time ELSE c.time, diff)
  <2>1. field = h.time
    BY <1>1, <1>3, <1>9, SizeAssumption
  <2> HIDE DEF field
  <2>2. diff = (CASE h.fmt = 0 -> 0 [] h.fmt \in {1, 2} -> h.time [] h.fmt = 3 -> c.diff)
    BY <2>1 DEF diff
  <2> HIDE DEF diff
  <2> QED  BY <2>1, <2>2 DEF time
<1> QED  BY <1>5, <1>7, <1>8, <1>9

(* What a call uses up of the read.                                          *)
LEMMA HandshakeTakeBounds ==
  ASSUME NEW S, buf \in Seq(S), hslen \in 0..HandshakeSize
  PROVE  /\ HandshakeTake \in 0..Len(buf) /\ HandshakeTake <= HandshakeSize - hslen
         /\ hslen < HandshakeSize /\ buf # <<>> => HandshakeTake >= 1
         /\ hslen + HandshakeTake < HandshakeSize => HandshakeTake = Len(buf)
<1>1. Len(buf) \in Nat /\ (buf # <<>> => Len(buf) > 0)
  BY EmptySeq
<1>2. PICK k \in Nat : k = HandshakeSize - hslen
  BY SizeAssumption
<1>3. HandshakeTake = IF k <= Len(buf) THEN k ELSE Len(buf)
  BY <1>1, <1>2, LeastOfTwo DEF HandshakeTake
<1> QED  BY <1>1, <1>2, <1>3, SizeAssumption

(* What is left of a read is well formed.                                    *)
LEMMA DropBuf ==
  ASSUME ReaderTypes, NEW n \in 0..Len(buf)
  PROVE  Drop(buf, n) \in Seq(Byte(Len(sent))) /\ Len(Drop(buf, n)) = Len(buf) - n /\ Len(buf) \in Nat
  BY DropProperties DEF ReaderTypes

(* One call of read_header takes part of a header, or the rest of it.        *)
LEMMA HeaderCall ==
  ASSUME ClientTypes, ReaderTypes, ReadHeader
  PROVE  \E h \in HeadType(Len(sent)), n \in 1..Len(buf) :
           /\ Head(buf).h = h /\ Head(buf).at = hlen + 1 /\ Head(buf).kind = "head"
           /\ hlen + n <= HeaderBytes(h)
           /\ buf' = Drop(buf, n) /\ hlen' = hlen + n
           /\ hlen + n # HeaderBytes(h) => n = Len(buf) /\ UNCHANGED <<chunks, current, misread, conn, state>>
           /\ hlen + n = HeaderBytes(h) => HeaderComplete(h)
           /\ UNCHANGED <<clientVars, wire, hsVars, insize, dispatched, bufVars>>
<1> DEFINE h == Head(buf).h
           need == HeaderBytes(h) - hlen
           n == Least({need, Len(buf)})
<1>1. /\ buf # <<>> /\ Head(buf).kind = "head" /\ Head(buf).at = hlen + 1
      /\ buf' = Drop(buf, n) /\ hlen' = hlen + n
      /\ IF n < need THEN UNCHANGED <<chunks, current, misread, conn, state>> ELSE HeaderComplete(h)
      /\ UNCHANGED <<clientVars, wire, hsVars, insize, dispatched, bufVars>>
  BY DEF ReadHeader, Calling, AtHeader
<1>2. Len(sent) \in Nat /\ buf \in Seq(Byte(Len(sent))) /\ hlen \in Nat
  BY DEF ClientTypes, ReaderTypes
<1>3. Head(buf) \in Byte(Len(sent)) /\ Len(buf) \in Nat /\ Len(buf) > 0
  BY <1>1, <1>2, HeadTailProperties, EmptySeq
<1>4. h \in HeadType(Len(sent)) /\ hlen + 1 <= HeaderBytes(h)
  BY <1>1, <1>2, <1>3, HeadTokens
<1>5. HeaderBytes(h) \in Nat
  BY <1>2, <1>4, HeaderSizes
<1> HIDE DEF h
<1>6. need \in Nat /\ need >= 1
  BY <1>2, <1>4, <1>5
<1>7. n = IF need <= Len(buf) THEN need ELSE Len(buf)
  BY <1>3, <1>6, LeastOfTwo
<1> HIDE DEF n
<1>8. n \in 1..Len(buf) /\ hlen + n <= HeaderBytes(h)
  BY <1>2, <1>3, <1>5, <1>6, <1>7
<1>9. hlen + n # HeaderBytes(h) => n < need /\ n = Len(buf)
  BY <1>2, <1>3, <1>5, <1>6, <1>7
<1>10. hlen + n = HeaderBytes(h) => ~(n < need)
  BY <1>2, <1>3, <1>5, <1>6, <1>7
<1> QED  BY <1>1, <1>4, <1>8, <1>9, <1>10 DEF h

(* One call of read_body takes no more than the chunk, the message and the   *)
(* read have.                                                                *)
LEMMA BodyTakeBounds ==
  ASSUME ClientTypes, ReaderTypes, Calling("body")
  PROVE  /\ current \in DOMAIN chunks /\ chunks[current] \in RecordType(Len(sent))
         /\ chunks[current].got \in Nat /\ chunks[current].length \in Nat
         /\ chunks[current].got <= chunks[current].length
         /\ UntilChunk(chunks[current]) \in Nat \ {0}
         /\ UntilChunk(chunks[current]) = insize - (chunks[current].got % insize)
         /\ UntilDone(chunks[current]) = chunks[current].length - chunks[current].got
         /\ BodyTake \in {UntilChunk(chunks[current]), UntilDone(chunks[current]), Len(buf)}
         /\ BodyTake \in Nat /\ BodyTake <= UntilChunk(chunks[current]) /\ BodyTake <= UntilDone(chunks[current])
         /\ BodyTake <= Len(buf)
         /\ Len(buf) \in Nat \ {0}
<1> DEFINE c == chunks[current]
<1>1. current \in DOMAIN chunks /\ c \in RecordType(Len(sent)) /\ c.got <= c.length /\ insize \in Nat \ {0}
  BY DEF Calling, ReaderTypes
<1>2. c.got \in Nat /\ c.length \in Nat
  BY <1>1 DEF RecordType
<1>3. Len(buf) \in Nat \ {0}
  BY EmptySeq DEF Calling, ReaderTypes
<1>4. PICK g \in Nat : g = c.got
  BY <1>2
<1>5. g % insize \in 0..(insize - 1)
  BY <1>1, Division
<1>6. PICK a \in Nat \ {0} : a = insize - (g % insize)
  BY <1>1, <1>5
<1>7. PICK b \in Nat : b = c.length - c.got
  BY <1>1, <1>2
<1>8. UntilChunk(c) = a /\ UntilDone(c) = b
  BY <1>4, <1>6, <1>7 DEF UntilChunk, UntilDone
<1>9. BodyTake = Least({a, b, Len(buf)})
  BY <1>8 DEF BodyTake
<1>10. BodyTake \in {a, b, Len(buf)} /\ BodyTake <= a /\ BodyTake <= b /\ BodyTake <= Len(buf)
  BY <1>3, <1>9, LeastOfThree
<1> QED  BY <1>1, <1>2, <1>3, <1>4, <1>6, <1>7, <1>8, <1>10

(* A call keeps the types, and makes progress.                               *)
Progress == ~misread' => Len(buf') < Len(buf) \/ state' # state

(* The three calls of the handshake.                                         *)
LEMMA HandshakeTypes ==
  ASSUME ClientTypes, ReaderTypes, HandshakeS0 \/ HandshakeS1 \/ HandshakeS2
  PROVE  ReaderTypes' /\ Progress
<1>1. CASE HandshakeS0
  <2>1. buf # <<>> /\ buf' = Tail(buf) /\ state = "s0" /\ state' \in {"s0", "s1"}
        /\ conn' \in {conn, "closing"} /\ conn = "open"
        /\ UNCHANGED <<sent, wire, hslen, hlen, chunks, current, insize, dispatched, misread>>
    BY <1>1 DEF HandshakeS0, Calling, clientVars, hsVars, chunkVars
  <2>2. buf' \in Seq(Byte(Len(sent))) /\ Len(buf') = Len(buf) - 1 /\ Len(buf) \in Nat
    BY <2>1, HeadTailProperties DEF ReaderTypes
  <2>3. hslen = 0 /\ 0 < HandshakeSize
    BY <2>1, SizeAssumption DEF ReaderTypes
  <2> QED  BY <2>1, <2>2, <2>3 DEF ReaderTypes, Progress
<1>2. CASE HandshakeS1
  <2>1. /\ buf # <<>> /\ buf' = Drop(buf, HandshakeTake) /\ state = "s1" /\ conn' = conn
        /\ UNCHANGED <<sent, wire, hlen, chunks, current, insize, dispatched, misread>>
        /\ \/ hslen + HandshakeTake < HandshakeSize /\ hslen' = hslen + HandshakeTake /\ state' = state
           \/ hslen' = 0 /\ state' = "s2"
    BY <1>2 DEF HandshakeS1, Calling, clientVars, hsVars, chunkVars
  <2>2. hslen \in 0..HandshakeSize /\ hslen < HandshakeSize /\ buf \in Seq(Byte(Len(sent)))
    BY <2>1 DEF ReaderTypes
  <2>3. HandshakeTake \in 0..Len(buf) /\ HandshakeTake >= 1
    BY <2>1, <2>2, HandshakeTakeBounds
  <2>4. buf' \in Seq(Byte(Len(sent))) /\ Len(buf') < Len(buf)
    BY <2>1, <2>3, DropBuf
  <2>5. hslen' \in 0..HandshakeSize /\ hslen' < HandshakeSize /\ state' \in {"s1", "s2"}
    BY <2>1, <2>2, <2>3, SizeAssumption
  <2> QED  BY <2>1, <2>4, <2>5 DEF ReaderTypes, Progress
<1>3. CASE HandshakeS2
  <2>1. /\ buf # <<>> /\ buf' = Drop(buf, HandshakeTake) /\ state = "s2" /\ conn' = conn
        /\ hslen' = hslen + HandshakeTake
        /\ IF hslen' = HandshakeSize THEN state' = "header" /\ hlen' = 0 ELSE UNCHANGED <<state, hlen>>
        /\ UNCHANGED <<sent, wire, chunks, current, insize, dispatched, misread>>
    BY <1>3 DEF HandshakeS2, Calling, clientVars, bufVars
  <2>2. hslen \in 0..HandshakeSize /\ hslen < HandshakeSize /\ buf \in Seq(Byte(Len(sent)))
    BY <2>1 DEF ReaderTypes
  <2>3. HandshakeTake \in 0..Len(buf) /\ HandshakeTake >= 1 /\ HandshakeTake <= HandshakeSize - hslen
    BY <2>1, <2>2, HandshakeTakeBounds
  <2>4. buf' \in Seq(Byte(Len(sent))) /\ Len(buf') < Len(buf)
    BY <2>1, <2>3, DropBuf
  <2>5. hslen' \in 0..HandshakeSize /\ (hslen' < HandshakeSize \/ state' = "header")
    BY <2>1, <2>2, <2>3, SizeAssumption
  <2>6. state' \in {"s2", "header"} /\ hlen' \in Nat
    BY <2>1 DEF ReaderTypes
  <2> QED  BY <2>1, <2>4, <2>5, <2>6 DEF ReaderTypes, Progress
<1> QED  BY <1>1, <1>2, <1>3

(* A header.                                                                 *)
LEMMA HeaderTypes ==
  ASSUME ClientTypes, ReaderTypes, ReadHeader
  PROVE  ReaderTypes' /\ Progress
<1>1. PICK h \in HeadType(Len(sent)), n \in 1..Len(buf) :
        /\ hlen + n <= HeaderBytes(h)
        /\ buf' = Drop(buf, n) /\ hlen' = hlen + n
        /\ hlen + n # HeaderBytes(h) => n = Len(buf) /\ UNCHANGED <<chunks, current, misread, conn, state>>
        /\ hlen + n = HeaderBytes(h) => HeaderComplete(h)
        /\ UNCHANGED <<clientVars, wire, hsVars, insize, dispatched, bufVars>>
  BY HeaderCall
<1>2. Len(sent) \in Nat /\ hlen \in Nat /\ state = "header" /\ conn = "open" /\ ~misread
  BY DEF ClientTypes, ReaderTypes, ReadHeader, Calling
<1>3. buf' \in Seq(Byte(Len(sent))) /\ Len(buf') < Len(buf) /\ hlen' \in Nat
  BY <1>1, <1>2, DropBuf
<1>4. UNCHANGED <<sent, wire, hslen, insize, dispatched>>
  BY <1>1 DEF clientVars, hsVars
<1>5. CASE hlen + n # HeaderBytes(h)
  BY <1>1, <1>2, <1>3, <1>4, <1>5 DEF ReaderTypes, Progress
<1>6. CASE hlen + n = HeaderBytes(h)
  <2> DEFINE id == DecodedId(h.id)
             r == Chunk(id)
             c == Fields(r, h)
  <2>1. /\ PutChunk(id, c) /\ current' = id
        /\ misread' = (r.got # h.from \/ (h.from > 0 /\ r.msg # h.msg))
        /\ state' \in {"header", "body"} /\ conn' \in {"open", "closing"}
    BY <1>1, <1>2, <1>6 DEF HeaderComplete
  <2>2. h.id \in ChunkIds /\ h.fmt \in 0..3 /\ (h.fmt < 2 => h.from = 0) /\ h.length \in Nat
    BY <1>2, HeadFields
  <2>3. id \in Int
    BY <2>2, DecodedNumber
  <2>4. r \in RawType /\ r.got <= r.length
    BY <1>2, ChunkTyped
  <2>5. c \in RecordType(Len(sent)) /\ c.length = (IF h.fmt < 2 THEN h.length ELSE r.length) /\ c.got = r.got
    BY <1>2, <2>4, FieldsSet
  <2>6. ~misread' => c.got <= c.length
    <3>1. ~misread' => r.got = h.from
      BY <2>1
    <3>2. r.got \in Nat /\ r.length \in Nat
      BY <2>4 DEF RawType
    <3> HIDE DEF id, r, c
    <3>3. CASE h.fmt < 2
      BY <2>2, <2>5, <3>1, <3>3
    <3>4. CASE ~(h.fmt < 2)
      BY <2>4, <2>5, <3>4
    <3> QED  BY <3>3, <3>4
  <2> HIDE DEF id, r, c
  <2>7. chunks \in [DOMAIN chunks -> RecordType(Len(sent))]
    BY DEF ReaderTypes
  <2>8. /\ DOMAIN chunks' = DOMAIN chunks \cup {id}
        /\ chunks' \in [DOMAIN chunks' -> RecordType(Len(sent))]
        /\ chunks'[id] = c
        /\ \A x \in DOMAIN chunks \ {id} : chunks'[x] = chunks[x]
    BY <2>1, <2>5, <2>7, PutChunkEffect
  <2>9. DOMAIN chunks' \subseteq Int
    BY <2>3, <2>8 DEF ReaderTypes
  <2>10. ~misread' => \A x \in DOMAIN chunks' : chunks'[x].got <= chunks'[x].length
    BY <1>2, <2>6, <2>8 DEF ReaderTypes
  <2>11. misread' \in BOOLEAN
    BY <2>1
  <2> QED  BY <1>2, <1>3, <1>4, <2>1, <2>8, <2>9, <2>10, <2>11 DEF ReaderTypes, Progress
<1> QED  BY <1>5, <1>6

(* A body: part of it, the end of a chunk, and the end of a message.         *)
LEMMA BodyTypes ==
  ASSUME ClientTypes, ReaderTypes, ReadBody
  PROVE  ReaderTypes' /\ Progress
<1> DEFINE c == chunks[current]
           got == c.got + BodyTake
<1>1. /\ Calling("body")
      /\ buf' = Drop(buf, BodyTake)
      /\ IF got = c.length
         THEN Message(c) /\ NextHeader /\ PutChunk(current, [c EXCEPT !.got = 0])
         ELSE /\ PutChunk(current, [c EXCEPT !.got = got])
              /\ IF (got % insize) = 0 THEN NextHeader ELSE UNCHANGED <<state, hlen>>
              /\ UNCHANGED <<dispatched, insize, conn>>
      /\ UNCHANGED <<clientVars, wire, hsVars, current, bufVars, misread>>
  BY DEF ReadBody
<1>2. conn = "open" /\ state = "body" /\ ~misread
  BY <1>1 DEF Calling
<1>3. /\ current \in DOMAIN chunks /\ c \in RecordType(Len(sent)) /\ c.got \in Nat /\ c.length \in Nat
      /\ c.got <= c.length /\ BodyTake \in Nat /\ got <= c.length /\ BodyTake <= Len(buf) /\ Len(buf) \in Nat
      /\ BodyTake = 0 => got = c.length
  BY <1>1, BodyTakeBounds
<1>4. buf' \in Seq(Byte(Len(sent))) /\ Len(buf') = Len(buf) - BodyTake
  BY <1>1, <1>3, DropBuf
<1>5. UNCHANGED <<sent, wire, hslen, current, misread>>
  BY <1>1 DEF clientVars, hsVars
<1>6. PICK g \in Nat : g <= c.length /\ PutChunk(current, [c EXCEPT !.got = g])
  BY <1>1, <1>3
<1>7. PICK d \in RecordType(Len(sent)) : d = [c EXCEPT !.got = g] /\ d.got <= d.length
  <2>1. [c EXCEPT !.got = g] \in RecordType(Len(sent))
    BY <1>3 DEF RecordType
  <2>2. [c EXCEPT !.got = g].got = g /\ [c EXCEPT !.got = g].length = c.length
    BY <1>3 DEF RecordType
  <2> QED  BY <1>6, <2>1, <2>2
<1>8. chunks \in [DOMAIN chunks -> RecordType(Len(sent))]
  BY DEF ReaderTypes
<1>9. /\ DOMAIN chunks' = DOMAIN chunks \cup {current}
      /\ chunks' \in [DOMAIN chunks' -> RecordType(Len(sent))]
      /\ chunks'[current] = d
      /\ \A x \in DOMAIN chunks \ {current} : chunks'[x] = chunks[x]
  <2>1. PICK i : i = current
    OBVIOUS
  <2>2. PICK T : T = RecordType(Len(sent))
    OBVIOUS
  <2> HIDE DEF c
  <2>3. d \in T /\ PutChunk(i, d) /\ chunks \in [DOMAIN chunks -> T]
    BY <1>6, <1>7, <1>8, <2>1, <2>2
  <2> QED  BY <2>1, <2>2, <2>3, PutChunkEffect
<1>10. DOMAIN chunks' = DOMAIN chunks /\ \A x \in DOMAIN chunks' : chunks'[x].got <= chunks'[x].length
  BY <1>2, <1>3, <1>7, <1>9 DEF ReaderTypes
<1>11. state' \in {"header", "body"} /\ hlen' \in Nat /\ (got = c.length => state' = "header")
  BY <1>1, <1>2 DEF NextHeader, ReaderTypes
<1>12. insize' \in Nat \ {0} /\ dispatched' \in Seq(DispatchedType(Len(sent)))
  <2>1. CASE got = c.length
    <3>1. dispatched' = Append(dispatched, [msg |-> c.msg, type |-> c.type, length |-> c.length, time |-> c.time])
          /\ insize' = IF c.type = "size" THEN sent[c.msg].size ELSE insize
      BY <1>1, <2>1 DEF Message
    <3>2. c.msg \in 1..Len(sent) /\ c.type \in Types /\ c.time \in ClockType
      BY <1>3 DEF RecordType
    <3>3. [msg |-> c.msg, type |-> c.type, length |-> c.length, time |-> c.time] \in DispatchedType(Len(sent))
      BY <1>3, <3>2 DEF DispatchedType
    <3>4. sent[c.msg] \in SentType
      BY <3>2 DEF ClientTypes
    <3>5. sent[c.msg].size \in Nat \ {0}
      BY <3>4 DEF SentType
    <3> QED  BY <3>1, <3>3, <3>5 DEF ReaderTypes
  <2>2. CASE got # c.length
    BY <1>1, <2>2 DEF ReaderTypes
  <2> QED  BY <2>1, <2>2
<1> HIDE DEF c
<1>13. Progress
  BY <1>2, <1>3, <1>4, <1>11 DEF Progress
<1>14. ReaderTypes'
  BY <1>3, <1>4, <1>5, <1>9, <1>10, <1>11, <1>12 DEF ReaderTypes
<1> QED  BY <1>13, <1>14

(* The other steps of the connection.                                        *)
LEMMA ConnectionTypes ==
  ASSUME ClientTypes, ReaderTypes,
         ReadBegin \/ ReadEnd \/ Misread \/ (\E b \in Buffers : WriteDone(b)) \/ Hangup \/ Remove
  PROVE  ReaderTypes'
<1> USE DEF clientVars, hsVars, chunkVars, bufVars
<1>1. CASE ReadBegin
  <2>1. PICK n \in 1..Least({ReadSize, Len(wire)}) : buf' = SubSeq(wire, 1, n) /\ wire' = Drop(wire, n)
    BY <1>1 DEF ReadBegin
  <2>2. wire \in Seq(Byte(Len(sent))) /\ Len(wire) \in Nat
    BY DEF ReaderTypes
  <2>3. Least({ReadSize, Len(wire)}) \in Nat /\ Least({ReadSize, Len(wire)}) <= Len(wire)
    BY <2>2, LeastOfTwo, SizeAssumption
  <2>4. n \in 0..Len(wire)
    BY <2>2, <2>3
  <2>5. buf' \in Seq(Byte(Len(sent))) /\ wire' \in Seq(Byte(Len(sent)))
    BY <2>1, <2>2, <2>4, FrontProperties, DropProperties
  <2> QED  BY <1>1, <2>5 DEF ReadBegin, ReaderTypes
<1>2. CASE ReadEnd
  <2>1. buf' = <<>> /\ <<>> \in Seq(Byte(Len(sent)))
    BY <1>2, EmptySeq DEF ReadEnd
  <2> QED  BY <1>2, <2>1 DEF ReadEnd, ReaderTypes
<1>3. CASE Misread
  BY <1>3 DEF Misread, ReaderTypes
<1>4. ASSUME NEW b \in Buffers, WriteDone(b)  PROVE ReaderTypes'
  BY <1>4 DEF WriteDone, ReaderTypes
<1>5. CASE Hangup
  BY <1>5 DEF Hangup, ReaderTypes
<1>6. CASE Remove
  <2>1. /\ chunks' = [x \in {} |-> 0] /\ conn' = "gone"
        /\ UNCHANGED <<sent, wire, state, buf, hslen, hlen, current, insize, dispatched, misread>>
    BY <1>6 DEF Remove
  <2>2. DOMAIN chunks' = {} /\ chunks' \in [DOMAIN chunks' -> RecordType(Len(sent))]
    BY <2>1
  <2> QED  BY <2>1, <2>2 DEF ReaderTypes
<1> QED  BY <1>1, <1>2, <1>3, <1>4, <1>5, <1>6

-----------------------------------------------------------------------------
(* The type invariant and the progress of the loop                           *)

(* The client and the reader together.                                       *)
TypeInv == ClientTypes /\ ReaderTypes

(* At the start.                                                             *)
LEMMA TypeInit == Init => TypeInv
<1> SUFFICES ASSUME Init  PROVE TypeInv
  OBVIOUS
<1>1. ClientTypes
  <2>1. [msg |-> 0, done |-> 0] \in OutType
    BY DEF OutType
  <2>2. [fmt |-> 3, length |-> 0, type |-> "data", time |-> 0, diff |-> 0, drift |-> 0, hit |-> FALSE] \in LastType
    BY DEF LastType, Types
  <2> QED  BY <2>1, <2>2, SizeAssumption DEF Init, ClientTypes
<1>2. ReaderTypes
  <2>1. DOMAIN chunks = {} /\ chunks \in [DOMAIN chunks -> RecordType(Len(sent))]
    BY DEF Init
  <2>2. <<>> \in Seq(Byte(Len(sent))) /\ <<>> \in Seq(DispatchedType(Len(sent)))
    BY EmptySeq
  <2>3. 0 \in 0..HandshakeSize /\ InitChunkSize \in Nat \ {0}
    BY SizeAssumption
  <2> QED  BY <2>1, <2>2, <2>3 DEF Init, ReaderTypes
<1> QED  BY <1>1, <1>2 DEF TypeInv

(* Each call of the reader.                                                  *)
LEMMA CallTypes ==
  ASSUME TypeInv, Call
  PROVE  TypeInv' /\ Progress
<1>1. UNCHANGED clientVars
  BY DEF Call, HandshakeS0, HandshakeS1, HandshakeS2, ReadHeader, ReadBody, Misread
<1>2. ClientTypes'
  BY <1>1 DEF clientVars, TypeInv, ClientTypes
<1>3. Misread => Progress
  BY DEF Misread, Progress
<1>4. ReaderTypes' /\ Progress
  BY <1>3, HandshakeTypes, HeaderTypes, BodyTypes, ConnectionTypes DEF Call, TypeInv
<1> QED  BY <1>2, <1>4 DEF TypeInv

(* Each step of the client, the reader and libuv.                            *)
LEMMA TypeStep ==
  ASSUME TypeInv, [Next]_vars
  PROVE  TypeInv'
<1>1. CASE Client
  BY <1>1, ClientStepTypes, ClientStepReaderTypes DEF TypeInv, ReaderTypes
<1>2. CASE Call
  BY <1>2, CallTypes
<1>3. CASE ReadBegin \/ ReadEnd \/ (\E b \in Buffers : WriteDone(b)) \/ Hangup \/ Remove
  <2>1. UNCHANGED clientVars
    BY <1>3 DEF ReadBegin, ReadEnd, WriteDone, Hangup, Remove
  <2>2. ClientTypes'
    BY <2>1 DEF clientVars, TypeInv, ClientTypes
  <2> QED  BY <1>3, <2>2, ConnectionTypes DEF TypeInv
<1>4. CASE UNCHANGED vars
  BY <1>4 DEF vars, clientVars, hsVars, chunkVars, bufVars, TypeInv, ClientTypes, ReaderTypes
<1> QED  BY <1>1, <1>2, <1>3, <1>4 DEF Next, Over

(* Every variable has its type, however the client's chunks and the reads    *)
(* fall, the unusual ones and the misread ones included.                     *)
THEOREM TypesHold == Spec => []TypeInv
  BY TypeInit, TypeStep, PTL DEF Spec

(* TypeOK: the state, the handshake's count, the chunk size and the          *)
(* reference counts of a connection are what the functions of rtmp.c,        *)
(* handshake.c and message.c take them for, for any client.                  *)
THEOREM Typing == Spec => []TypeOK
<1>1. TypeInv /\ BufferInv => TypeOK
  BY DEF TypeInv, ReaderTypes, BufferInv, TypeOK, Buffers
<1> QED  BY <1>1, TypesHold, Buffering, PTL

(* EveryCallProgresses: each call of the loop in video_rtmp_readconn takes a *)
(* byte or goes on to another state, so that the loop cannot spin on what it *)
(* was given.                                                                *)
THEOREM LoopEnds == Spec => EveryCallProgresses
<1>1. TypeInv /\ [Next]_vars => [Call /\ ~misread' => Len(buf') < Len(buf) \/ state' # state]_vars
  BY CallTypes DEF Progress
<1> QED  BY <1>1, TypesHold, PTL DEF Spec, EveryCallProgresses

-----------------------------------------------------------------------------
(* The stream                                                                *)

(* What was sent and not yet taken by a call, what of it belongs to the      *)
(* handshake, and what of it is chunks.                                      *)
Stream == buf \o wire
HandshakeLeft == IF state = "s2" THEN HandshakeSize - hslen ELSE 0
Flight == IF phase = "chunks" THEN Drop(Stream, HandshakeLeft) ELSE <<>>

(* The reader is where the client is with its handshake.                     *)
HandshakeInv ==
  /\ state \in {"s0", "s1", "s2"} => hlen = 0
  /\ phase = "c0" => state = "s0" /\ Stream = <<>>
  /\ phase = "c2" =>
       /\ state \in {"s0", "s1", "s2"}
       /\ state = "s0" => Len(Stream) = HandshakeSize + 1
       /\ state = "s1" => Len(Stream) = HandshakeSize - hslen
       /\ state = "s2" => Stream = <<>> /\ hslen = 0
  /\ phase = "chunks" => state \in {"s2", "header", "body"} /\ HandshakeLeft <= Len(Stream)

(* The stream is what was read and then what was not.                        *)
LEMMA StreamShape ==
  ASSUME ReaderTypes
  PROVE  /\ Stream \in Seq(Byte(Len(sent))) /\ Len(Stream) = Len(buf) + Len(wire)
         /\ Len(Stream) \in Nat /\ Len(buf) \in Nat /\ Len(wire) \in Nat
         /\ \A i \in 1..Len(buf) : Stream[i] = buf[i]
<1>1. buf \in Seq(Byte(Len(sent))) /\ wire \in Seq(Byte(Len(sent)))
  BY DEF ReaderTypes
<1>2. PICK s : s = buf \o wire
  OBVIOUS
<1>3. Len(buf) \in Nat /\ Len(wire) \in Nat
  BY <1>1
<1>4. s \in Seq(Byte(Len(sent))) /\ Len(s) = Len(buf) + Len(wire)
      /\ \A i \in 1..(Len(buf) + Len(wire)) : s[i] = IF i <= Len(buf) THEN buf[i] ELSE wire[i - Len(buf)]
  BY <1>1, <1>2, ConcatProperties
<1>5. \A i \in 1..Len(buf) : i \in 1..(Len(buf) + Len(wire)) /\ i <= Len(buf)
  BY <1>3
<1>6. Len(s) \in Nat
  BY <1>3, <1>4
<1> QED  BY <1>2, <1>3, <1>4, <1>5, <1>6 DEF Stream

(* The handshake has no negative rest.                                       *)
LEMMA LeftBounds ==
  ASSUME ReaderTypes
  PROVE  HandshakeLeft \in Nat
  BY SizeAssumption DEF ReaderTypes, HandshakeLeft

(* A read in full, or a call that takes n bytes, on the stream.              *)
LEMMA StreamTaken ==
  ASSUME ReaderTypes, NEW n \in 0..Len(buf), buf' = Drop(buf, n), wire' = wire
  PROVE  Stream' = Drop(Stream, n) /\ Len(Stream') = Len(Stream) - n /\ n \in 0..Len(Stream)
<1>1. buf \in Seq(Byte(Len(sent))) /\ wire \in Seq(Byte(Len(sent)))
  BY DEF ReaderTypes
<1>2. Stream' = Drop(buf, n) \o wire
  BY DEF Stream
<1>3. Drop(buf \o wire, n) = Drop(buf, n) \o wire
  BY <1>1, DropOfConcat
<1>4. Stream' = Drop(Stream, n)
  BY <1>2, <1>3 DEF Stream
<1>5. n \in 0..Len(Stream)
  BY StreamShape
<1>6. Len(Drop(Stream, n)) = Len(Stream) - n
  BY <1>5, StreamShape, DropProperties
<1> QED  BY <1>4, <1>5, <1>6

(* A read moves bytes within the stream.                                     *)
LEMMA StreamRead ==
  ASSUME ReaderTypes, BufferInv, ReadBegin
  PROVE  Stream' = Stream
<1>1. buf = <<>> /\ wire \in Seq(Byte(Len(sent)))
  BY DEF ReaderTypes, BufferInv, ReadBegin
<1>2. PICK n \in 1..Least({ReadSize, Len(wire)}) : buf' = SubSeq(wire, 1, n) /\ wire' = Drop(wire, n)
  BY DEF ReadBegin
<1>3. Least({ReadSize, Len(wire)}) \in Nat /\ Least({ReadSize, Len(wire)}) <= Len(wire) /\ Len(wire) \in Nat
  BY <1>1, LeastOfTwo, SizeAssumption
<1>4. n \in 0..Len(wire)
  BY <1>3
<1>5. SubSeq(wire, 1, n) \o Drop(wire, n) = wire
  BY <1>1, <1>4, FrontAndRest
<1>6. Stream' = wire
  BY <1>2, <1>5 DEF Stream
<1>7. <<>> \o wire = wire
  BY <1>1, ConcatEmptySeq
<1> QED  BY <1>1, <1>6, <1>7 DEF Stream

(* The handshake and the flight, step by step.                               *)
LEMMA HelloFlight ==
  ASSUME TypeInv, HandshakeInv, Hello
  PROVE  HandshakeInv' /\ Flight = <<>> /\ Flight' = <<>>
<1>1. phase = "c0" /\ phase' = "c2" /\ UNCHANGED <<state, hlen, hslen, buf>>
  BY DEF Hello, readerVars, hsVars, chunkVars
<1>2. state = "s0" /\ Stream = <<>> /\ hlen = 0
  BY <1>1 DEF HandshakeInv
<1>3. buf = <<>> /\ wire = <<>>
  <2>1. buf \in Seq(Byte(Len(sent))) /\ wire \in Seq(Byte(Len(sent)))
    BY DEF TypeInv, ReaderTypes
  <2> QED  BY <1>2, <2>1, ConcatEqualIffEmpty DEF Stream
<1>4. Len(Stream') = HandshakeSize + 1
  <2>1. PICK v : wire' = wire \o <<[kind |-> "c0", version |-> v]>> \o Copies(HandshakeSize, [kind |-> "c1"])
    BY DEF Hello
  <2>2. PICK a : a = [kind |-> "c0", version |-> v]
    OBVIOUS
  <2>3. PICK b : b = [kind |-> "c1"]
    OBVIOUS
  <2>4. PICK t : t = Copies(HandshakeSize, b)
    OBVIOUS
  <2>5. t \in Seq({a, b}) /\ Len(t) = HandshakeSize
    BY <2>4, CopiesShape
  <2>6. Stream' = <<>> \o (<<>> \o <<a>> \o t)
    BY <1>1, <1>3, <2>1, <2>2, <2>3, <2>4 DEF Stream
  <2>7. <<a>> \in Seq({a, b}) /\ Len(<<a>>) = 1 /\ <<>> \o <<a>> = <<a>>
    OBVIOUS
  <2>8. <<a>> \o t \in Seq({a, b}) /\ Len(<<a>> \o t) = 1 + HandshakeSize
    BY <2>5, <2>7, ConcatProperties
  <2>9. Stream' = <<a>> \o t
    BY <2>6, <2>7, <2>8, ConcatEmptySeq
  <2> QED  BY <2>8, <2>9, SizeAssumption
<1> QED  BY <1>1, <1>2, <1>4 DEF HandshakeInv, Flight

(* The client goes on to its chunks after C2, and none is sent yet.          *)
LEMMA AcknowledgeFlight ==
  ASSUME TypeInv, HandshakeInv, Acknowledge
  PROVE  HandshakeInv' /\ Flight = <<>> /\ Flight' = <<>>
<1>1. phase = "c2" /\ state = "s2" /\ phase' = "chunks" /\ UNCHANGED <<state, hlen, hslen, buf>>
      /\ wire' = wire \o Copies(HandshakeSize, [kind |-> "c2"])
  BY DEF Acknowledge, readerVars, hsVars, chunkVars
<1>2. Stream = <<>> /\ hlen = 0 /\ hslen = 0
  BY <1>1 DEF HandshakeInv
<1>3. buf = <<>> /\ wire = <<>>
  <2>1. buf \in Seq(Byte(Len(sent))) /\ wire \in Seq(Byte(Len(sent)))
    BY DEF TypeInv, ReaderTypes
  <2> QED  BY <1>2, <2>1, ConcatEqualIffEmpty DEF Stream
<1>4. PICK b : b = [kind |-> "c2"]
  OBVIOUS
<1>5. PICK t : t = Copies(HandshakeSize, b)
  OBVIOUS
<1>6. t \in Seq({b}) /\ Len(t) = HandshakeSize
  BY <1>5, CopiesShape
<1>7. Stream' = <<>> \o (<<>> \o t)
  BY <1>1, <1>3, <1>4, <1>5 DEF Stream
<1>8. Stream' = t
  BY <1>6, <1>7, ConcatEmptySeq
<1>9. HandshakeLeft' = HandshakeSize
  BY <1>1, <1>2, SizeAssumption DEF HandshakeLeft
<1>10. Drop(t, HandshakeSize) = <<>>
  BY <1>6, DropEnds
<1>11. Flight' = <<>> /\ Flight = <<>>
  BY <1>1, <1>8, <1>9, <1>10 DEF Flight
<1>12. HandshakeLeft' <= Len(Stream')
  BY <1>6, <1>8, <1>9, SizeAssumption
<1> QED  BY <1>1, <1>2, <1>11, <1>12 DEF HandshakeInv

(* What a client sends after its handshake is added to the flight.           *)
LEMMA GrownFlight ==
  ASSUME TypeInv, HandshakeInv, phase = "chunks", phase' = phase, UNCHANGED readerVars,
         NEW S, wire \in Seq(S), buf \in Seq(S), NEW t \in Seq(S), wire' = wire \o t
  PROVE  HandshakeInv' /\ Flight' = Flight \o t /\ Flight \in Seq(S)
<1>1. UNCHANGED <<state, hlen, hslen, buf>>
  BY DEF readerVars, hsVars, chunkVars
<1>2. PICK s : s = Stream
  OBVIOUS
<1>3. s \in Seq(S) /\ Len(s) \in Nat
  BY <1>2, ConcatProperties DEF Stream
<1>4. Stream' = s \o t
  BY <1>1, <1>2, ConcatAssociative DEF Stream
<1>5. HandshakeLeft' = HandshakeLeft
  BY <1>1 DEF HandshakeLeft
<1>6. HandshakeLeft \in 0..Len(s)
  BY <1>2, <1>3, LeftBounds DEF HandshakeInv, TypeInv
<1>7. Len(Stream') = Len(s) + Len(t) /\ Len(t) \in Nat
  BY <1>3, <1>4, ConcatProperties
<1>8. HandshakeLeft' <= Len(Stream')
  BY <1>3, <1>5, <1>6, <1>7
<1>9. Drop(s \o t, HandshakeLeft) = Drop(s, HandshakeLeft) \o t /\ Drop(s, HandshakeLeft) \in Seq(S)
  BY <1>3, <1>6, DropOfConcat, DropProperties
<1>10. Flight' = Flight \o t /\ Flight \in Seq(S)
  BY <1>2, <1>4, <1>5, <1>9 DEF Flight
<1> QED  BY <1>1, <1>8, <1>10 DEF HandshakeInv

(* The reader's calls in the handshake take no byte of the flight.           *)
LEMMA HandshakeFlight ==
  ASSUME TypeInv, HandshakeInv, HandshakeS0 \/ HandshakeS1 \/ HandshakeS2, conn' = "open"
  PROVE  HandshakeInv' /\ Flight' = Flight
<1>0. ReaderTypes /\ buf # <<>> /\ phase' = phase /\ wire' = wire
  BY DEF HandshakeS0, HandshakeS1, HandshakeS2, Calling, clientVars, TypeInv
<1>1. Stream # <<>> /\ Len(buf) > 0
  <2>1. buf \in Seq(Byte(Len(sent))) /\ wire \in Seq(Byte(Len(sent)))
    BY <1>0 DEF ReaderTypes
  <2> QED  BY <1>0, <2>1, ConcatEqualIffEmpty, EmptySeq DEF Stream
<1>2. hslen \in 0..HandshakeSize /\ buf \in Seq(Byte(Len(sent))) /\ Len(buf) \in Nat /\ Len(Stream) \in Nat
      /\ phase \in {"c0", "c2", "chunks"}
  BY <1>0, StreamShape DEF ReaderTypes, TypeInv, ClientTypes
<1>3. CASE HandshakeS0
  <2>1. state = "s0" /\ state' = "s1" /\ buf' = Tail(buf) /\ UNCHANGED <<hlen, hslen>>
    BY <1>3 DEF HandshakeS0, Calling, hsVars, chunkVars
  <2>2. phase = "c2" /\ Len(Stream) = HandshakeSize + 1 /\ hlen = 0 /\ hslen = 0
    BY <1>1, <1>2, <2>1 DEF HandshakeInv, TypeInv, ReaderTypes
  <2>3. buf' = Drop(buf, 1)
    BY <1>0, <1>2, <2>1, TailIsSubSeq DEF Drop
  <2>4. 1 \in 0..Len(buf)
    BY <1>1, <1>2
  <2>5. Len(Stream') = Len(Stream) - 1
    BY <1>0, <2>3, <2>4, StreamTaken
  <2> QED  BY <1>0, <2>1, <2>2, <2>5, SizeAssumption DEF HandshakeInv, Flight
<1>4. CASE HandshakeS1
  <2>1. /\ state = "s1" /\ buf' = Drop(buf, HandshakeTake) /\ UNCHANGED hlen
        /\ IF hslen + HandshakeTake < HandshakeSize THEN hslen' = hslen + HandshakeTake /\ state' = state
           ELSE hslen' = 0 /\ state' = "s2"
    BY <1>4 DEF HandshakeS1, Calling, chunkVars
  <2>2. phase = "c2" /\ Len(Stream) = HandshakeSize - hslen /\ hlen = 0
    BY <1>2, <2>1 DEF HandshakeInv
  <2>3. /\ HandshakeTake \in 0..Len(buf) /\ HandshakeTake <= HandshakeSize - hslen
    BY <1>2, HandshakeTakeBounds
  <2>4. Stream' = Drop(Stream, HandshakeTake) /\ Len(Stream') = Len(Stream) - HandshakeTake
    BY <1>0, <2>1, <2>3, StreamTaken
  <2>5. CASE hslen + HandshakeTake < HandshakeSize
    <3>1. Len(Stream') = HandshakeSize - hslen'
      BY <1>2, <2>1, <2>2, <2>3, <2>4, <2>5, SizeAssumption
    <3> QED  BY <1>0, <2>1, <2>2, <2>5, <3>1 DEF HandshakeInv, Flight
  <2>6. CASE ~(hslen + HandshakeTake < HandshakeSize)
    <3>1. HandshakeTake = Len(Stream)
      BY <1>2, <2>2, <2>3, <2>6, SizeAssumption
    <3>2. Drop(Stream, Len(Stream)) = <<>>
      BY <1>0, StreamShape, DropEnds
    <3>3. Stream' = <<>>
      BY <2>4, <3>1, <3>2
    <3> QED  BY <1>0, <2>1, <2>2, <2>6, <3>3 DEF HandshakeInv, Flight
  <2> QED  BY <2>5, <2>6
<1>5. CASE HandshakeS2
  <2>1. /\ state = "s2" /\ buf' = Drop(buf, HandshakeTake) /\ hslen' = hslen + HandshakeTake
        /\ IF hslen' = HandshakeSize THEN state' = "header" /\ hlen' = 0 ELSE UNCHANGED <<state, hlen>>
    BY <1>5 DEF HandshakeS2, Calling
  <2>2. phase = "chunks" /\ hlen = 0
    BY <1>1, <1>2, <2>1 DEF HandshakeInv
  <2>3. HandshakeLeft = HandshakeSize - hslen /\ HandshakeLeft <= Len(Stream) /\ HandshakeLeft \in Nat
    BY <1>0, <2>1, <2>2, LeftBounds DEF HandshakeInv, HandshakeLeft
  <2>4. /\ HandshakeTake \in 0..Len(buf) /\ HandshakeTake <= HandshakeSize - hslen
    BY <1>2, HandshakeTakeBounds
  <2>5. Stream' = Drop(Stream, HandshakeTake) /\ Len(Stream') = Len(Stream) - HandshakeTake
        /\ HandshakeTake \in 0..Len(Stream)
    BY <1>0, <2>1, <2>4, StreamTaken
  <2>6. HandshakeLeft' = HandshakeLeft - HandshakeTake
    BY <1>2, <2>1, <2>3, <2>4, SizeAssumption DEF HandshakeLeft
  <2>7. HandshakeLeft' \in 0..(Len(Stream) - HandshakeTake) /\ HandshakeTake + HandshakeLeft' = HandshakeLeft
    BY <1>2, <2>3, <2>4, <2>5, <2>6, SizeAssumption
  <2>8. Drop(Drop(Stream, HandshakeTake), HandshakeLeft') = Drop(Stream, HandshakeLeft)
    <3>1. PICK s : s = Stream
      OBVIOUS
    <3>2. PICK m : m = HandshakeTake
      OBVIOUS
    <3>3. PICK n : n = HandshakeLeft'
      OBVIOUS
    <3>4. s \in Seq(Byte(Len(sent))) /\ m \in 0..Len(s) /\ n \in 0..(Len(s) - m)
      BY <1>0, <2>5, <2>7, <3>1, <3>2, <3>3, StreamShape
    <3>5. Drop(Drop(s, m), n) = Drop(s, m + n)
      BY <3>4, DropTwice
    <3> QED  BY <2>7, <3>1, <3>2, <3>3, <3>5
  <2>9. Flight' = Flight
    BY <1>0, <2>2, <2>5, <2>8 DEF Flight
  <2>10. HandshakeLeft' <= Len(Stream')
    BY <2>5, <2>7
  <2> QED  BY <1>0, <2>1, <2>2, <2>9, <2>10 DEF HandshakeInv
<1> QED  BY <1>3, <1>4, <1>5

(* After the handshake, the flight is the whole stream.                      *)
LEMMA StandingFlight ==
  ASSUME TypeInv, HandshakeInv, state \in {"header", "body"}
  PROVE  /\ phase = "chunks" /\ Flight = Stream /\ Len(buf) <= Len(Flight)
         /\ \A i \in 1..Len(buf) : Flight[i] = buf[i]
         /\ buf # <<>> => Flight # <<>> /\ Flight[1] = Head(buf)
<1>1. phase = "chunks"
  BY DEF HandshakeInv, TypeInv, ClientTypes
<1>2. HandshakeLeft = 0
  BY DEF HandshakeLeft
<1>3. Stream \in Seq(Byte(Len(sent))) /\ Len(Stream) = Len(buf) + Len(wire) /\ Len(wire) \in Nat /\ Len(buf) \in Nat
      /\ \A i \in 1..Len(buf) : Stream[i] = buf[i]
  BY StreamShape DEF TypeInv
<1>4. Drop(Stream, 0) = Stream
  BY <1>3, DropEnds
<1>5. Flight = Stream
  BY <1>1, <1>2, <1>4 DEF Flight
<1>6. ASSUME buf # <<>>  PROVE Flight # <<>> /\ Flight[1] = Head(buf)
  <2>1. Len(buf) > 0 /\ Head(buf) = buf[1]
    BY <1>6, EmptySeq DEF TypeInv, ReaderTypes
  <2>2. Flight # <<>>
    BY <2>1, <1>3, <1>5, EmptySeq
  <2> QED  BY <2>1, <2>2, <1>3, <1>5
<1> QED  BY <1>1, <1>3, <1>5, <1>6

(* What a later call takes is taken from the front of the flight.            *)
LEMMA TakenFlight ==
  ASSUME TypeInv, HandshakeInv, state \in {"header", "body"}, state' \in {"header", "body"},
         NEW n \in 0..Len(buf), buf' = Drop(buf, n), wire' = wire, phase' = phase
  PROVE  HandshakeInv' /\ Flight' = Drop(Flight, n)
<1>1. phase = "chunks" /\ Flight = Stream
  BY StandingFlight
<1>2. HandshakeLeft' = 0
  BY DEF HandshakeLeft
<1>3. Stream \in Seq(Byte(Len(sent))) /\ Len(Stream) = Len(buf) + Len(wire) /\ Len(wire) \in Nat /\ Len(buf) \in Nat
  BY StreamShape DEF TypeInv
<1>4. Stream' = Drop(Stream, n) /\ Len(Stream') = Len(Stream) - n
  BY StreamTaken DEF TypeInv
<1>5. Drop(Drop(Stream, n), 0) = Drop(Stream, n)
  <2>1. n \in 0..Len(Stream)
    BY <1>3
  <2>2. Drop(Stream, n) \in Seq(Byte(Len(sent)))
    BY <1>3, <2>1, DropProperties
  <2> QED  BY <2>2, DropEnds
<1>6. Flight' = Drop(Stream, n)
  BY <1>1, <1>2, <1>4, <1>5 DEF Flight
<1>7. HandshakeLeft' <= Len(Stream')
  BY <1>2, <1>3, <1>4
<1> QED  BY <1>1, <1>6, <1>7 DEF HandshakeInv

-----------------------------------------------------------------------------
(* The chunks of the stream                                                  *)

(* A chunk stream that has had a header, by an account of the client.        *)
Used(a, id) == a.last[id].fmt # 3

(* No two chunk streams in use have ids that the reader takes for one.       *)
NoAlias(a) ==
  \A i, j \in ChunkIds : Used(a, i) /\ Used(a, j) /\ DecodedId(i) = DecodedId(j) => i = j

(* The time that the code has for a chunk stream.                            *)
Clock(l) == IF l.hit THEN Garbled ELSE l.time + l.drift

(* The last chunk of a message.                                              *)
Ends(h) == h.from + h.body = h.length

(* What the header of a chunk makes of the account before it.                *)
ChunkShape(h) ==
  LET b == h.before
      a == h.after
      l == b.last[h.id]
      n == a.last[h.id]
  IN
  /\ h.time < ExtTime
  /\ h.from = b.out[h.id].done /\ (h.from = 0 \/ h.from < h.length)
  /\ h.from > 0 => b.out[h.id].msg = h.msg
  /\ h.from % b.size = 0
  /\ h.body = Least({b.size, h.length - h.from})
  /\ h.fmt > 0 => Used(b, h.id)
  /\ h.fmt > 1 => l.length = h.length /\ l.type = h.type
  /\ n.fmt # 3 /\ n.length = h.length /\ n.type = h.type
  /\ n.diff = (CASE h.fmt = 0 -> 0 [] h.fmt \in {1, 2} -> h.time [] h.fmt = 3 -> l.diff)
  /\ Clock(n) = TimeAfter(IF h.fmt = 0 THEN h.time ELSE Clock(l), n.diff)
  /\ \A x \in ChunkIds \ {h.id} : a.last[x] = b.last[x] /\ a.out[x] = b.out[x]
  /\ NoAlias(a)
  /\ IF Ends(h)
     THEN a.out[h.id] = [msg |-> 0, done |-> 0] /\ a.ended = b.ended + 1
     ELSE a.out[h.id] = [msg |-> h.msg, done |-> h.from + h.body] /\ a.ended = b.ended /\ a.size = b.size

(* What it has to do with the messages of the client.                        *)
ChunkMeant(h) ==
  LET a == h.after
      n == a.last[h.id]
      message == sent[h.msg]
  IN
  /\ h.msg \in DOMAIN sent /\ h.length = message.length /\ h.type = message.type
  /\ n.time = message.time
  /\ Ends(h) =>
       /\ a.size = IF h.type = "size" THEN message.size ELSE h.before.size
       /\ a.ended \in DOMAIN completed
       /\ completed[a.ended] = [msg |-> h.msg, drift |-> n.drift, hit |-> n.hit]

(* From its byte i on, F is the rest of a chunk and then another one, or the *)
(* end of F, where the client's account is a.                                *)
Whole(F, i, a) ==
  LET h == F[i].h
      e == i + ChunkEnd(h) - F[i].at
  IN
  /\ F[i].at \in 1..ChunkEnd(h) /\ e <= Len(F)
  /\ \A j \in i..e : F[j].h = h /\ F[j].at = F[i].at + (j - i)
  /\ IF e = Len(F) THEN h.after = a ELSE F[e + 1].at = 1 /\ F[e + 1].h.before = h.after

(* Every byte of F is in a whole chunk, up to the account a.                 *)
Carries(F, a) == \A i \in 1..Len(F) : Whole(F, i, a)

(* The account of the client when it sent what F begins with.                *)
ComingUp(F, a) == IF F = <<>> THEN a ELSE F[1].h.before

(* The fields of a byte of the flight.                                       *)
LEMMA ByteFields ==
  ASSUME NEW N \in Nat, NEW F \in Seq(ChunkByte(N)), NEW i \in 1..Len(F)
  PROVE  /\ F[i].h \in HeadType(N) /\ F[i].at \in Nat /\ F[i].kind = KindAt(F[i].h, F[i].at)
         /\ ChunkEnd(F[i].h) \in Nat /\ Len(F) \in Nat
<1>1. F[i] \in ChunkByte(N) /\ Len(F) \in Nat
  BY ElementOfSeq
<1>2. F[i].h \in HeadType(N) /\ F[i].at \in Nat /\ F[i].kind = KindAt(F[i].h, F[i].at)
  BY <1>1 DEF ChunkByte
<1> QED  BY <1>1, <1>2, HeaderSizes

(* It is so still when the first bytes are taken.                            *)
LEMMA CarriesDrop ==
  ASSUME NEW N \in Nat, NEW F \in Seq(ChunkByte(N)), NEW a, Carries(F, a), NEW n \in 0..Len(F)
  PROVE  Drop(F, n) \in Seq(ChunkByte(N)) /\ Carries(Drop(F, n), a)
<1>1. PICK G : G = Drop(F, n)
  OBVIOUS
<1>2. G \in Seq(ChunkByte(N)) /\ Len(G) = Len(F) - n /\ \A i \in 1..(Len(F) - n) : G[i] = F[i + n]
  BY <1>1, DropProperties
<1>3. Len(F) \in Nat /\ n \in Nat /\ n <= Len(F)
  OBVIOUS
<1>4. ASSUME NEW i \in 1..Len(G)  PROVE Whole(G, i, a)
  <2>1. i + n \in 1..Len(F) /\ G[i] = F[i + n]
    BY <1>2, <1>3
  <2>2. Whole(F, i + n, a)
    BY <2>1 DEF Carries
  <2>3. PICK h : h = F[i + n].h
    OBVIOUS
  <2>4. PICK k \in Nat : k = F[i + n].at
    BY <2>1, ByteFields
  <2>5. PICK E \in Nat : E = ChunkEnd(h)
    BY <2>1, <2>3, ByteFields
  <2>6. PICK e \in Int : e = i + E - k
    OBVIOUS
  <2>7. /\ k \in 1..E /\ e + n <= Len(F)
        /\ \A j \in (i + n)..(e + n) : F[j].h = h /\ F[j].at = k + (j - (i + n))
        /\ IF e + n = Len(F) THEN h.after = a ELSE F[e + n + 1].at = 1 /\ F[e + n + 1].h.before = h.after
    <3>1. i + n + E - k = e + n
      BY <2>6, <1>3
    <3> QED  BY <3>1, <2>2, <2>3, <2>4, <2>5 DEF Whole
  <2>8. k \in 1..E /\ e <= Len(G)
    BY <2>7, <1>2, <1>3
  <2>9. ASSUME NEW j \in i..e  PROVE G[j].h = h /\ G[j].at = k + (j - i)
    <3>1. j + n \in (i + n)..(e + n) /\ j \in 1..(Len(F) - n) /\ (j + n) - (i + n) = j - i
      BY <2>7, <2>8, <1>2, <1>3
    <3>2. G[j] = F[j + n]
      BY <3>1, <1>2
    <3> QED  BY <3>1, <3>2, <2>7
  <2>10. IF e = Len(G) THEN h.after = a ELSE G[e + 1].at = 1 /\ G[e + 1].h.before = h.after
    <3>1. CASE e = Len(G)
      BY <3>1, <2>7, <1>2, <1>3
    <3>2. CASE e # Len(G)
      <4>0. e >= 1
        BY <2>6, <2>8, <1>2, <1>3
      <4>1. e + 1 \in 1..(Len(F) - n) /\ e + n # Len(F) /\ (e + 1) + n = e + n + 1
        <5>1. Len(G) = Len(F) - n
          BY <1>2
        <5>2. e <= Len(G)
          BY <2>8
        <5>3. e < Len(F) - n
          BY <5>1, <5>2, <3>2, <1>3
        <5> QED  BY <4>0, <5>3, <1>3
      <4>2. G[e + 1] = F[e + n + 1]
        BY <4>1, <1>2
      <4> QED  BY <4>1, <4>2, <3>2, <2>7
    <3> QED  BY <3>1, <3>2
  <2> QED  BY <2>1, <2>3, <2>4, <2>5, <2>6, <2>8, <2>9, <2>10 DEF Whole
<1> QED  BY <1>1, <1>2, <1>4 DEF Carries

(* And when another chunk is added, which begins where the books are now.    *)
LEMMA CarriesAppend ==
  ASSUME NEW N \in Nat, NEW F \in Seq(ChunkByte(N)), NEW a, Carries(F, a),
         NEW h \in HeadType(N), h.before = a
  PROVE  F \o ChunkTokens(h) \in Seq(ChunkByte(N)) /\ Carries(F \o ChunkTokens(h), h.after)
<1>1. PICK T : T = ChunkTokens(h)
  OBVIOUS
<1>2. PICK E \in Nat : E = ChunkEnd(h) /\ E >= 1
  BY HeaderSizes, HeadFields
<1>0. T \in Seq(Byte(N)) /\ Len(T) = E /\ \A i \in 1..E : T[i] = [kind |-> KindAt(h, i), at |-> i, h |-> h]
  BY <1>1, <1>2, ChunkTokensShape, Zenon
<1>3. Len(T) = E /\ \A i \in 1..E : T[i].at = i /\ T[i].h = h
  BY <1>0
<1>4. T \in Seq(ChunkByte(N))
  <2>1. T \in Seq(Byte(N)) /\ \A i \in 1..E : T[i].kind = KindAt(h, i)
    BY <1>0
  <2>2. ASSUME NEW i \in 1..E  PROVE T[i] \in ChunkByte(N)
    <3>1. T[i] \in Byte(N)
      BY <2>1, <1>3, ElementOfSeq
    <3>2. T[i].kind \in {"head", "ext", "body"}
      BY <2>1 DEF KindAt
    <3> QED  BY <3>1, <3>2, HeadTokens
  <2> QED  BY <2>1, <2>2, <1>3
<1>5. PICK G : G = F \o T
  OBVIOUS
<1>6. G \in Seq(ChunkByte(N)) /\ Len(G) = Len(F) + E
      /\ \A i \in 1..(Len(F) + E) : G[i] = IF i <= Len(F) THEN F[i] ELSE T[i - Len(F)]
  BY <1>3, <1>4, <1>5, ConcatProperties
<1>7. Len(F) \in Nat
  OBVIOUS
<1>8. ASSUME NEW i \in 1..Len(F)  PROVE Whole(G, i, h.after)
  <2>1. i \in 1..(Len(F) + E) /\ G[i] = F[i]
    BY <1>6, <1>7
  <2>2. PICK f : f = F[i].h
    OBVIOUS
  <2>3. PICK k \in Nat : k = F[i].at
    BY ByteFields
  <2>4. PICK D \in Nat : D = ChunkEnd(f)
    BY <2>2, ByteFields
  <2>5. PICK e \in Int : e = i + D - k
    OBVIOUS
  <2>6. /\ k \in 1..D /\ e <= Len(F)
        /\ \A j \in i..e : F[j].h = f /\ F[j].at = k + (j - i)
        /\ IF e = Len(F) THEN f.after = a ELSE F[e + 1].at = 1 /\ F[e + 1].h.before = f.after
    BY <2>2, <2>3, <2>4, <2>5 DEF Whole, Carries
  <2>7. ASSUME NEW j \in i..e  PROVE G[j].h = f /\ G[j].at = k + (j - i)
    <3>1. j \in 1..(Len(F) + E) /\ j <= Len(F)
      BY <2>6, <1>7
    <3> QED  BY <3>1, <1>6, <2>6
  <2>8. e # Len(G) /\ e <= Len(G) /\ e + 1 \in 1..(Len(F) + E)
    BY <2>5, <2>6, <1>2, <1>6, <1>7
  <2>9. G[e + 1].at = 1 /\ G[e + 1].h.before = f.after
    <3>1. CASE e = Len(F)
      <4>1. G[e + 1] = T[1]
        <5>1. ~(e + 1 <= Len(F)) /\ (e + 1) - Len(F) = 1
          BY <3>1, <1>7
        <5> QED  BY <5>1, <2>8, <1>6
      <4>2. T[1].at = 1 /\ T[1].h = h
        BY <1>2, <1>3
      <4> QED  BY <3>1, <4>1, <4>2, <2>6
    <3>2. CASE e # Len(F)
      <4>1. e + 1 <= Len(F)
        BY <3>2, <2>6, <1>7
      <4>2. G[e + 1] = F[e + 1]
        BY <4>1, <2>8, <1>6
      <4> QED  BY <3>2, <4>2, <2>6
    <3> QED  BY <3>1, <3>2
  <2> QED  BY <2>1, <2>2, <2>3, <2>4, <2>5, <2>6, <2>7, <2>8, <2>9 DEF Whole
<1>9. ASSUME NEW i \in (Len(F) + 1)..(Len(F) + E)  PROVE Whole(G, i, h.after)
  <2>1. i \in Int /\ i \in 1..(Len(F) + E) /\ ~(i <= Len(F)) /\ i - Len(F) \in 1..E
    BY <1>7
  <2>2. G[i].h = h /\ G[i].at = i - Len(F)
    BY <2>1, <1>3, <1>6
  <2>3. i + E - (i - Len(F)) = Len(G)
    BY <2>1, <1>6, <1>7
  <2>4. ASSUME NEW j \in i..Len(G)  PROVE G[j].h = h /\ G[j].at = (i - Len(F)) + (j - i)
    <3>1. j \in 1..(Len(F) + E) /\ ~(j <= Len(F)) /\ j - Len(F) \in 1..E /\ (i - Len(F)) + (j - i) = j - Len(F)
      BY <2>1, <1>6, <1>7
    <3>2. G[j] = T[j - Len(F)]
      BY <3>1, <1>6
    <3> QED  BY <3>1, <3>2, <1>3
  <2>5. Len(G) <= Len(G)
    BY <1>6, <1>7
  <2>6. Whole(G, i, h.after)
    BY <2>1, <2>2, <2>3, <2>4, <2>5, <1>2 DEF Whole
  <2> QED  BY <2>6
<1>10. ASSUME NEW i \in 1..Len(G)  PROVE Whole(G, i, h.after)
  <2>1. i \in 1..Len(F) \/ i \in (Len(F) + 1)..(Len(F) + E)
    BY <1>6, <1>7
  <2> QED  BY <2>1, <1>8, <1>9
<1> QED  BY <1>1, <1>5, <1>6, <1>10 DEF Carries

(* F begins with the last bytes of a chunk, as many as left; n of them are   *)
(* taken.                                                                    *)
Opens(F, a, n, left) ==
  /\ left \in 1..Len(F)
  /\ \A i \in 1..left : F[i].h = F[1].h /\ F[i].at = F[1].at + (i - 1)
  /\ n < left => /\ Drop(F, n) # <<>> /\ Drop(F, n)[1].h = F[1].h /\ Drop(F, n)[1].at = F[1].at + n
                 /\ ComingUp(Drop(F, n), a) = F[1].h.before
  /\ n = left => /\ Drop(F, n) # <<>> => Drop(F, n)[1].at = 1
                 /\ ComingUp(Drop(F, n), a) = F[1].h.after

(* The chunk that F begins with or is in the middle of.                      *)
LEMMA FirstChunk ==
  ASSUME NEW N \in Nat, NEW F \in Seq(ChunkByte(N)), NEW a, Carries(F, a), F # <<>>,
         NEW n \in Nat, NEW left, left = ChunkEnd(F[1].h) - F[1].at + 1, n <= left
  PROVE  F[1].h \in HeadType(N) /\ F[1].at \in Nat \ {0} /\ Opens(F, a, n, left)
<1>1. Len(F) \in Nat /\ 1 \in 1..Len(F)
  BY EmptySeq
<1>2. PICK h \in HeadType(N) : h = F[1].h
  BY <1>1, ByteFields
<1>3. PICK k \in Nat : k = F[1].at
  BY <1>1, ByteFields
<1>4. PICK E \in Nat : E = ChunkEnd(h)
  BY <1>2, HeaderSizes
<1>5. Whole(F, 1, a)
  BY <1>1 DEF Carries
<1>6. left = E - k + 1
  BY <1>2, <1>3, <1>4
<1>7. /\ k \in 1..E /\ 1 + E - k <= Len(F)
      /\ \A j \in 1..(1 + E - k) : F[j].h = h /\ F[j].at = k + (j - 1)
      /\ IF 1 + E - k = Len(F) THEN h.after = a ELSE F[1 + E - k + 1].at = 1 /\ F[1 + E - k + 1].h.before = h.after
  BY <1>2, <1>3, <1>4, <1>5 DEF Whole
<1>8. left = 1 + E - k
  BY <1>6
<1>9. /\ left \in 1..Len(F)
      /\ \A j \in 1..left : F[j].h = h /\ F[j].at = k + (j - 1)
      /\ IF left = Len(F) THEN h.after = a ELSE F[left + 1].at = 1 /\ F[left + 1].h.before = h.after
  <2>1. left \in 1..Len(F)
    BY <1>1, <1>7, <1>8
  <2> QED  BY <2>1, <1>7, <1>8
<1>10. PICK G : G = Drop(F, n)
  OBVIOUS
<1>11. n \in 0..Len(F)
  BY <1>1, <1>9
<1>12. G \in Seq(ChunkByte(N)) /\ Len(G) = Len(F) - n /\ \A i \in 1..(Len(F) - n) : G[i] = F[i + n]
  BY <1>10, <1>11, DropProperties
<1>13. ASSUME n < left
       PROVE  G # <<>> /\ G[1].h = h /\ G[1].at = k + n /\ ComingUp(G, a) = h.before
  <2>1. Len(G) > 0 /\ 1 \in 1..(Len(F) - n) /\ n + 1 \in 1..left /\ (n + 1) - 1 = n /\ 1 + n = n + 1
    BY <1>1, <1>9, <1>12, <1>13
  <2>2. G[1] = F[n + 1]
    BY <2>1, <1>12
  <2>3. G[1].h = h /\ G[1].at = k + n
    BY <2>1, <2>2, <1>9
  <2>4. G # <<>>
    BY <2>1, EmptySeq
  <2> QED  BY <2>3, <2>4 DEF ComingUp
<1>14. ASSUME n = left
       PROVE  (G # <<>> => G[1].at = 1) /\ ComingUp(G, a) = h.after
  <2>1. CASE left = Len(F)
    <3>1. Len(G) = 0
      BY <2>1, <1>1, <1>12, <1>14
    <3>2. G = <<>>
      BY <3>1, <1>12, EmptySeq
    <3> QED  BY <3>2, <2>1, <1>9 DEF ComingUp
  <2>2. CASE left # Len(F)
    <3>1. Len(G) > 0 /\ 1 \in 1..(Len(F) - n) /\ 1 + n = left + 1
      BY <2>2, <1>1, <1>9, <1>12, <1>14
    <3>2. G[1] = F[left + 1]
      BY <3>1, <1>12
    <3>3. G # <<>>
      BY <3>1, EmptySeq
    <3> QED  BY <2>2, <3>2, <3>3, <1>9 DEF ComingUp
  <2> QED  BY <2>1, <2>2
<1>15. k \in Nat \ {0}
  BY <1>7
<1> QED  BY <1>2, <1>3, <1>9, <1>10, <1>13, <1>14, <1>15 DEF Opens

-----------------------------------------------------------------------------
(* The chunk records                                                         *)

(* The record of a chunk stream in use says what the account a says of it.   *)
Agrees(a, id) ==
  LET l == a.last[id]
      r == Chunk(DecodedId(id))
  IN
  Used(a, id) =>
    /\ r.length = l.length /\ r.type = l.type /\ r.diff = l.diff /\ r.time = Clock(l)
    /\ r.got = a.out[id].done
    /\ a.out[id].msg # 0 => r.msg = a.out[id].msg

(* There is no record but of a chunk stream in use.                          *)
Known(a) == \A x \in DOMAIN chunks : \E id \in ChunkIds : Used(a, id) /\ x = DecodedId(id)

(* The records say what the account a says, of every chunk stream.           *)
Synced(a) == Known(a) /\ \A id \in ChunkIds : Agrees(a, id)

(* Putting a record leaves the others.                                       *)
LEMMA RecordKept ==
  ASSUME NEW x, NEW d, PutChunk(x, d), NEW y
  PROVE  /\ DOMAIN chunks' = DOMAIN chunks \cup {x} /\ chunks'[x] = d
         /\ y # x => Chunk(y)' = Chunk(y)
         /\ Chunk(x)' = d
<1>1. chunks' = [z \in DOMAIN chunks \cup {x} |-> IF z = x THEN d ELSE chunks[z]]
  BY DEF PutChunk
<1>2. DOMAIN chunks' = DOMAIN chunks \cup {x} /\ chunks'[x] = d
  BY <1>1
<1>3. ASSUME y # x  PROVE Chunk(y)' = Chunk(y)
  <2>1. CASE y \in DOMAIN chunks
    BY <2>1, <1>1, <1>2, <1>3 DEF Chunk
  <2>2. CASE y \notin DOMAIN chunks
    BY <2>2, <1>2, <1>3 DEF Chunk
  <2> QED  BY <2>1, <2>2
<1>4. Chunk(x)' = d
  BY <1>2 DEF Chunk
<1> QED  BY <1>2, <1>3, <1>4

(* One record is put in its place, and the others still agree.               *)
LEMMA OthersKept ==
  ASSUME NEW a, NEW id \in ChunkIds, NEW d, NoAlias(a), Used(a, id),
         \A x \in DOMAIN chunks : x = DecodedId(id) \/ \E j \in ChunkIds : Used(a, j) /\ x = DecodedId(j),
         \A j \in ChunkIds \ {id} : Agrees(a, j),
         PutChunk(DecodedId(id), d)
  PROVE  /\ Known(a)'
         /\ \A j \in ChunkIds \ {id} : Agrees(a, j)'
         /\ DecodedId(id) \in DOMAIN chunks' /\ chunks'[DecodedId(id)] = d /\ Chunk(DecodedId(id))' = d
<1>1. PICK x : x = DecodedId(id)
  OBVIOUS
<1>2. PutChunk(x, d)
  BY <1>1
<1>3. DOMAIN chunks' = DOMAIN chunks \cup {x} /\ chunks'[x] = d /\ Chunk(x)' = d
  BY <1>2, RecordKept
<1>4. Known(a)'
  <2>1. ASSUME NEW y \in DOMAIN chunks'  PROVE \E j \in ChunkIds : Used(a, j) /\ y = DecodedId(j)
    BY <1>1, <1>3, <2>1
  <2> QED  BY <2>1 DEF Known
<1>5. ASSUME NEW j \in ChunkIds \ {id}  PROVE Agrees(a, j)'
  <2>1. SUFFICES ASSUME Used(a, j)  PROVE Agrees(a, j)'
    BY DEF Agrees
  <2>2. DecodedId(j) # x
    BY <1>1, <2>1 DEF NoAlias
  <2>3. PICK y : y = DecodedId(j)
    OBVIOUS
  <2>4. Chunk(y)' = Chunk(y)
    BY <1>2, <2>2, <2>3, RecordKept
  <2>5. Agrees(a, j)
    OBVIOUS
  <2> QED  BY <2>3, <2>4, <2>5 DEF Agrees
<1> QED  BY <1>1, <1>3, <1>4, <1>5

(* A complete header finds the record that it needs, and makes the one that  *)
(* the client means.                                                         *)
LEMMA HeaderMakes ==
  ASSUME TypeInv, ~misread, NEW h \in HeadType(Len(sent)), ChunkShape(h), Synced(h.before), HeaderComplete(h)
  PROVE  LET c == chunks'[current']
             n == h.after.last[h.id]
         IN
         /\ misread' = FALSE
         /\ current' = DecodedId(h.id) /\ current' \in DOMAIN chunks' /\ c \in RecordType(Len(sent))
         /\ Chunk(DecodedId(h.id))' = c
         /\ c.length = h.length /\ c.type = h.type /\ c.got = h.from /\ c.msg = h.msg
         /\ c.diff = n.diff /\ c.time = Clock(n)
         /\ Known(h.after)' /\ \A j \in ChunkIds \ {h.id} : Agrees(h.after, j)'
<1>0. Len(sent) \in Nat
  BY DEF TypeInv, ClientTypes
<1>1. PICK a \in AccountType : a = h.after
  BY <1>0, HeadFields
<1>2. PICK b \in AccountType : b = h.before
  BY <1>0, HeadFields
<1>3. PICK id \in ChunkIds : id = h.id
  BY <1>0, HeadFields
<1>4. /\ h.fmt \in 0..3 /\ h.time \in Nat /\ h.length \in Nat /\ h.msg \in 1..Len(sent) /\ h.from \in Nat
      /\ h.fmt < 2 => h.from = 0
  BY <1>0, HeadFields
<1>5. PICK n \in LastType : n = a.last[id]
  BY DEF AccountType
<1>6. PICK l \in LastType : l = b.last[id]
  BY DEF AccountType
<1>7. PICK x : x = DecodedId(id)
  OBVIOUS
<1>8. PICK r \in RawType : r = Chunk(x)
  BY ChunkTyped DEF TypeInv
<1>9. /\ h.time < ExtTime
      /\ h.from = b.out[id].done
      /\ h.from > 0 => b.out[id].msg = h.msg
      /\ h.fmt > 0 => Used(b, id)
      /\ h.fmt > 1 => l.length = h.length /\ l.type = h.type
      /\ n.fmt # 3
      /\ n.diff = (CASE h.fmt = 0 -> 0 [] h.fmt \in {1, 2} -> h.time [] h.fmt = 3 -> l.diff)
      /\ Clock(n) = TimeAfter(IF h.fmt = 0 THEN h.time ELSE Clock(l), n.diff)
      /\ \A j \in ChunkIds \ {id} : a.last[j] = b.last[j] /\ a.out[j] = b.out[j]
      /\ NoAlias(a)
  BY <1>1, <1>2, <1>3, <1>5, <1>6 DEF ChunkShape
<1>10. Used(a, id)
  BY <1>5, <1>9 DEF Used
<1>11. \A j \in ChunkIds \ {id} : (Used(a, j) <=> Used(b, j)) /\ (Used(b, j) => DecodedId(j) # x)
  <2>1. ASSUME NEW j \in ChunkIds \ {id}  PROVE (Used(a, j) <=> Used(b, j))
    BY <1>9 DEF Used
  <2>2. ASSUME NEW j \in ChunkIds \ {id}, Used(b, j)  PROVE DecodedId(j) # x
    BY <2>1, <2>2, <1>7, <1>9, <1>10 DEF NoAlias
  <2> QED  BY <2>1, <2>2
<1>12. Known(b) /\ \A j \in ChunkIds : Agrees(b, j)
  BY <1>2 DEF Synced
<1>13. Used(b, id) => /\ r.length = l.length /\ r.type = l.type /\ r.diff = l.diff /\ r.time = Clock(l)
                      /\ r.got = b.out[id].done
                      /\ b.out[id].msg # 0 => r.msg = b.out[id].msg
  BY <1>6, <1>7, <1>8, <1>12 DEF Agrees
<1>14. r.got = h.from /\ (h.from > 0 => r.msg = h.msg)
  <2>1. CASE Used(b, id)
    BY <2>1, <1>4, <1>9, <1>13
  <2>2. CASE ~Used(b, id)
    <3>1. h.from = 0
      BY <2>2, <1>4, <1>9
    <3>2. x \notin DOMAIN chunks
      <4>1. SUFFICES ASSUME x \in DOMAIN chunks  PROVE FALSE
        OBVIOUS
      <4>2. PICK j \in ChunkIds : Used(b, j) /\ x = DecodedId(j)
        BY <4>1, <1>12 DEF Known
      <4> QED  BY <4>2, <2>2, <1>11
    <3>3. r.got = 0
      BY <3>2, <1>8 DEF Chunk, FreshChunk
    <3> QED  BY <3>1, <3>3
  <2> QED  BY <2>1, <2>2
<1>15. PICK c \in RecordType(Len(sent)) : c = Fields(r, h)
  BY <1>0, FieldsSet
<1>16. /\ PutChunk(x, c) /\ current' = x
       /\ misread' = (r.got # h.from \/ (h.from > 0 /\ r.msg # h.msg))
  BY <1>3, <1>7, <1>8, <1>15 DEF HeaderComplete
<1>17. misread' = FALSE
  BY <1>14, <1>16
<1>18. /\ c.length = (IF h.fmt < 2 THEN h.length ELSE r.length)
       /\ c.type = (IF h.fmt < 2 THEN h.type ELSE r.type)
       /\ c.got = r.got /\ c.msg = h.msg
       /\ c.diff = (CASE h.fmt = 0 -> 0 [] h.fmt \in {1, 2} -> h.time [] h.fmt = 3 -> r.diff)
       /\ c.time = TimeAfter(IF h.fmt = 0 THEN h.time ELSE r.time, c.diff)
  BY <1>0, <1>9, <1>15, FieldsSet
<1>19. c.length = h.length /\ c.type = h.type
  BY <1>4, <1>9, <1>13, <1>18
<1>20. c.diff = n.diff
  <2>1. h.fmt = 3 => r.diff = l.diff
    BY <1>9, <1>13
  <2> QED  BY <2>1, <1>4, <1>9, <1>18
<1>21. c.time = Clock(n)
  <2>1. (IF h.fmt = 0 THEN h.time ELSE r.time) = (IF h.fmt = 0 THEN h.time ELSE Clock(l))
    BY <1>4, <1>9, <1>13
  <2> QED  BY <2>1, <1>9, <1>18, <1>20
<1>22. \A y \in DOMAIN chunks : y = DecodedId(id) \/ \E j \in ChunkIds : Used(a, j) /\ y = DecodedId(j)
  <2>1. ASSUME NEW y \in DOMAIN chunks, y # DecodedId(id)
        PROVE  \E j \in ChunkIds : Used(a, j) /\ y = DecodedId(j)
    <3>1. PICK j \in ChunkIds : Used(b, j) /\ y = DecodedId(j)
      BY <1>12 DEF Known
    <3>2. j # id
      BY <2>1, <3>1
    <3> QED  BY <3>1, <3>2, <1>11
  <2> QED  BY <2>1
<1>23. \A j \in ChunkIds \ {id} : Agrees(a, j)
  <2>1. ASSUME NEW j \in ChunkIds \ {id}  PROVE Agrees(a, j)
    <3>1. Agrees(b, j) /\ a.last[j] = b.last[j] /\ a.out[j] = b.out[j] /\ (Used(a, j) <=> Used(b, j))
      BY <1>9, <1>11, <1>12
    <3> QED  BY <3>1 DEF Agrees
  <2> QED  BY <2>1
<1>24. /\ Known(a)'
       /\ \A j \in ChunkIds \ {id} : Agrees(a, j)'
       /\ x \in DOMAIN chunks' /\ chunks'[x] = c /\ Chunk(x)' = c
  <2>1. PutChunk(DecodedId(id), c)
    BY <1>7, <1>16
  <2> QED  BY <2>1, <1>7, <1>9, <1>10, <1>22, <1>23, OthersKept
<1>25. current' \in DOMAIN chunks' /\ chunks'[current'] = c /\ current' = DecodedId(h.id)
       /\ Chunk(DecodedId(h.id))' = c
  BY <1>3, <1>7, <1>16, <1>24
<1>26. c.diff = h.after.last[h.id].diff /\ c.time = Clock(h.after.last[h.id])
  BY <1>1, <1>3, <1>5, <1>20, <1>21
<1>27. Known(h.after)' /\ \A j \in ChunkIds \ {h.id} : Agrees(h.after, j)'
  BY <1>1, <1>3, <1>24
<1> QED  BY <1>14, <1>17, <1>18, <1>19, <1>25, <1>26, <1>27

-----------------------------------------------------------------------------
(* The client                                                                *)

(* The books of a client that does nothing unusual.                          *)
ClientInv ==
  /\ NoAlias(Account)
  /\ \A id \in ChunkIds :
       IF out[id].msg = 0 THEN out[id].done = 0
       ELSE /\ last[id].fmt # 3
            /\ last[id].length = sent[out[id].msg].length
            /\ last[id].type = sent[out[id].msg].type
            /\ last[id].time = sent[out[id].msg].time
            /\ out[id].done < last[id].length /\ out[id].done % outsize = 0

(* The fields of the client's account are its books.                         *)
LEMMA AccountFields ==
  /\ Account.size = outsize /\ Account.ended = Len(completed) /\ Account.out = out /\ Account.last = last
  /\ Account'.size = outsize' /\ Account'.ended = Len(completed') /\ Account'.out = out' /\ Account'.last = last'
  /\ \A id : (Used(Account, id) <=> last[id].fmt # 3) /\ (Used(Account', id) <=> last'[id].fmt # 3)
  BY DEF Account, Used

(* Nothing leaves no remainder.                                              *)
LEMMA ZeroRemainder ==
  ASSUME NEW s \in Nat \ {0}
  PROVE  0 % s = 0
<1>1. 0 \div s \in Nat /\ 0 % s \in 0..(s - 1) /\ 0 = (0 \div s) * s + (0 % s)
  BY Division
<1>2. PICK q \in Nat : q = 0 \div s
  BY <1>1
<1>3. PICK r \in Nat : r = 0 % s
  BY <1>1
<1>4. q * s >= 0
  OBVIOUS
<1> QED  BY <1>1, <1>2, <1>3, <1>4

(* What n bytes of message m on id do to the books.                          *)
Booked(id, m, done, message, new) ==
  /\ last'[id] = new /\ \A x \in ChunkIds \ {id} : last'[x] = last[x] /\ out'[x] = out[x]
  /\ IF done = message.length
     THEN /\ out'[id] = [msg |-> 0, done |-> 0]
          /\ outsize' = (IF message.type = "size" THEN message.size ELSE outsize)
          /\ Len(completed') = Len(completed) + 1
          /\ completed'[Len(completed')] = [msg |-> m, drift |-> new.drift, hit |-> new.hit]
     ELSE /\ out'[id] = [msg |-> m, done |-> done]
          /\ outsize' = outsize /\ Len(completed') = Len(completed)
  /\ Len(completed) <= Len(completed') /\ \A i \in 1..Len(completed) : completed'[i] = completed[i]

(* A chunk leaves them in order.                                             *)
LEMMA ClientKept ==
  ASSUME ClientTypes, ClientTypes', ClientInv,
         NEW id \in ChunkIds, NEW m \in Nat \ {0}, NEW done \in Nat, NEW message, NEW new,
         last' = [last EXCEPT ![id] = new], Advance(id, m, done, message, new),
         Len(sent) <= Len(sent'), \A i \in 1..Len(sent) : sent'[i] = sent[i],
         m \in 1..Len(sent'), sent'[m].length = message.length, sent'[m].type = message.type,
         message.length \in Nat,
         new.fmt # 3, new.length = message.length, new.type = message.type, new.time = sent'[m].time,
         done <= message.length, done # message.length => done % outsize = 0,
         \A j \in ChunkIds \ {id} : last[j].fmt # 3 => DecodedId(j) # DecodedId(id),
         outsize' # outsize => ~Straddled(outsize', id)
  PROVE  ClientInv' /\ Booked(id, m, done, message, new)
<1>1. last'[id] = new /\ (\A x \in ChunkIds \ {id} : last'[x] = last[x])
  BY DEF ClientTypes
<1>2. \A x \in ChunkIds \ {id} : out'[x] = out[x]
  BY DEF ClientTypes, Advance
<1>5. NoAlias(Account)'
  <2>1. ASSUME NEW i \in ChunkIds, NEW j \in ChunkIds, last'[i].fmt # 3, last'[j].fmt # 3,
               DecodedId(i) = DecodedId(j)
        PROVE  i = j
    <3>1. CASE i = id /\ j # id
      BY <1>1, <2>1, <3>1
    <3>2. CASE j = id /\ i # id
      BY <1>1, <2>1, <3>2
    <3>3. CASE i # id /\ j # id
      BY <1>1, <2>1, <3>3, AccountFields DEF ClientInv, NoAlias
    <3> QED  BY <3>1, <3>2, <3>3
  <2> QED  BY <2>1, AccountFields DEF NoAlias
<1>3. CASE done = message.length
  <2>1. /\ out'[id] = [msg |-> 0, done |-> 0]
        /\ outsize' = (IF message.type = "size" THEN message.size ELSE outsize)
    BY <1>3 DEF Advance, ClientTypes
  <2>2. completed' = Append(completed, [msg |-> m, drift |-> new.drift, hit |-> new.hit])
    BY <1>3 DEF Advance
  <2>3. completed \in Seq(CompletedType(Len(sent))) /\ Len(completed) \in Nat
    BY DEF ClientTypes
  <2>4. PICK r : r = [msg |-> m, drift |-> new.drift, hit |-> new.hit]
    OBVIOUS
  <2>5. completed' = Append(completed, r)
    BY <2>2, <2>4
  <2>6. Len(completed') = Len(completed) + 1 /\ completed'[Len(completed) + 1] = r
        /\ \A i \in 1..Len(completed) : completed'[i] = completed[i]
    BY <2>3, <2>5
  <2>7. Len(completed) <= Len(completed')
    BY <2>3, <2>6
  <2>8. completed'[Len(completed')] = [msg |-> m, drift |-> new.drift, hit |-> new.hit]
    BY <2>4, <2>6
  <2>9. ASSUME NEW x \in ChunkIds  
        PROVE  IF out'[x].msg = 0 THEN out'[x].done = 0
               ELSE /\ last'[x].fmt # 3
                    /\ last'[x].length = sent'[out'[x].msg].length
                    /\ last'[x].type = sent'[out'[x].msg].type
                    /\ last'[x].time = sent'[out'[x].msg].time
                    /\ out'[x].done < last'[x].length /\ out'[x].done % outsize' = 0
    <3>1. CASE x = id
      BY <2>1, <3>1
    <3>2. CASE x # id
      <4>1. out'[x] = out[x] /\ last'[x] = last[x]
        BY <1>1, <1>2, <3>2
      <4>2. IF out[x].msg = 0 THEN out[x].done = 0
               ELSE /\ last[x].fmt # 3
                    /\ last[x].length = sent[out[x].msg].length
                    /\ last[x].type = sent[out[x].msg].type
                    /\ last[x].time = sent[out[x].msg].time
                    /\ out[x].done < last[x].length /\ out[x].done % outsize = 0
        BY DEF ClientInv
      <4>3. out[x].msg # 0 => sent'[out[x].msg] = sent[out[x].msg]
        BY DEF ClientTypes
      <4>4. out[x].msg # 0 => out[x].done % outsize' = 0
        <5>1. outsize' # outsize /\ out[x].msg # 0 => (out[x].done % outsize') = 0
          BY <3>2 DEF Straddled
        <5> QED  BY <4>2, <5>1
      <4> QED  BY <4>1, <4>2, <4>3, <4>4
    <3> QED  BY <3>1, <3>2
  <2>11. ClientInv'
    BY <2>9, <1>5 DEF ClientInv
  <2> QED  BY <1>1, <1>2, <1>3, <2>1, <2>6, <2>7, <2>8, <2>11 DEF Booked
<1>4. CASE done # message.length
  <2>1. /\ out'[id] = [msg |-> m, done |-> done]
        /\ outsize' = outsize /\ completed' = completed
    BY <1>4 DEF Advance, ClientTypes
  <2>2. Len(completed) \in Nat
    BY DEF ClientTypes
  <2>9. ASSUME NEW x \in ChunkIds  
        PROVE  IF out'[x].msg = 0 THEN out'[x].done = 0
               ELSE /\ last'[x].fmt # 3
                    /\ last'[x].length = sent'[out'[x].msg].length
                    /\ last'[x].type = sent'[out'[x].msg].type
                    /\ last'[x].time = sent'[out'[x].msg].time
                    /\ out'[x].done < last'[x].length /\ out'[x].done % outsize' = 0
    <3>1. CASE x = id
      <4>1. out'[x].msg = m /\ out'[x].done = done /\ last'[x] = new
        BY <1>1, <2>1, <3>1
      <4>2. done < message.length
        BY <1>4
      <4>3. done % outsize' = 0
        BY <1>4, <2>1
      <4> QED  BY <4>1, <4>2, <4>3
    <3>2. CASE x # id
      <4>1. out'[x] = out[x] /\ last'[x] = last[x]
        BY <1>1, <1>2, <3>2
      <4>2. IF out[x].msg = 0 THEN out[x].done = 0
               ELSE /\ last[x].fmt # 3
                    /\ last[x].length = sent[out[x].msg].length
                    /\ last[x].type = sent[out[x].msg].type
                    /\ last[x].time = sent[out[x].msg].time
                    /\ out[x].done < last[x].length /\ out[x].done % outsize = 0
        BY DEF ClientInv
      <4>3. out[x].msg # 0 => sent'[out[x].msg] = sent[out[x].msg]
        BY DEF ClientTypes
      <4> QED  BY <2>1, <4>1, <4>2, <4>3
    <3> QED  BY <3>1, <3>2
  <2>11. ClientInv'
    BY <2>9, <1>5 DEF ClientInv
  <2> QED  BY <1>1, <1>2, <1>4, <2>1, <2>2, <2>11 DEF Booked
<1> QED  BY <1>3, <1>4

(* The first chunk of a message is what the reader takes it for.             *)
LEMMA BeginChunk ==
  ASSUME ClientTypes, ClientInv,
         NEW id \in ChunkIds, NEW fmt \in 0..3, NEW message \in MessageForm, NEW time \in Nat,
         Begin(id, fmt, message, time), odd' = {}
  PROVE  /\ ClientInv' /\ phase = "chunks" /\ phase' = phase
         /\ Len(completed) <= Len(completed') /\ \A i \in 1..Len(completed) : completed'[i] = completed[i]
         /\ \E h \in HeadType(Len(sent')) :
              wire' = wire \o ChunkTokens(h) /\ h.before = Account /\ h.after = Account'
              /\ ChunkShape(h) /\ ChunkMeant(h)'
<1> DEFINE m == Len(sent) + 1
           n == Least({outsize, message.length})
           l == last[id]
           meant == IF fmt = 0 THEN time ELSE l.time + time
           drift == IF fmt = 0 THEN 0 ELSE l.drift
           new == [fmt    |-> IF fmt = 3 THEN l.fmt ELSE fmt,
                   length |-> message.length, type |-> message.type,
                   time   |-> meant, diff |-> IF fmt = 0 THEN 0 ELSE time,
                   drift  |-> drift, hit |-> (fmt > 0 /\ l.hit) \/ meant + drift = ExtTime]
           s == [type |-> message.type, length |-> message.length, size |-> message.size, time |-> meant]
<1>1. /\ phase = "chunks" /\ phase' = phase
      /\ out[id].msg = 0 /\ MayCompress(fmt, id, message, time)
      /\ last' = [last EXCEPT ![id] = new]
      /\ sent' = Append(sent, s)
      /\ Advance(id, m, n, message, last'[id])
  BY DEF Begin
<1>2. time < ExtTime /\ ~Aliased(id) /\ (outsize' # outsize => ~Straddled(outsize', id))
  <2>1. odd' = odd \cup (IF time >= ExtTime THEN {"ext"} ELSE {})
                \cup (IF Aliased(id) THEN {"alias"} ELSE {})
                \cup (IF outsize' # outsize /\ Straddled(outsize', id) THEN {"resize"} ELSE {})
    BY DEF Begin
  <2>2. ~(time >= ExtTime) /\ ~Aliased(id) /\ ~(outsize' # outsize /\ Straddled(outsize', id))
    BY <2>1
  <2> QED  BY <2>2, SizeAssumption
<1>3. message.type \in Types /\ message.length \in Nat /\ message.size \in Nat \ {0}
  BY DEF MessageForm
<1>4. Len(sent) \in Nat /\ outsize \in Nat \ {0} /\ sent \in Seq(SentType)
  BY DEF ClientTypes
<1>5. n \in Nat /\ n <= message.length /\ (n # message.length => n = outsize)
  BY <1>3, <1>4, LeastOfTwo
<1>6. l \in LastType
  BY DEF ClientTypes
<1>7. l.fmt \in 0..3 /\ l.time \in Nat /\ l.drift \in Nat /\ l.hit \in BOOLEAN /\ l.diff \in Nat
  BY <1>6 DEF LastType
<1>8. /\ fmt > 0 => l.fmt # 3
      /\ fmt > 1 => message.length = l.length /\ message.type = l.type
      /\ fmt = 3 => l.fmt \in {1, 2} /\ time = l.diff
  BY <1>1 DEF MayCompress
<1>9. PICK w : w = new
  OBVIOUS
<1>10. /\ w.fmt # 3 /\ w.length = message.length /\ w.type = message.type /\ w.time = meant
       /\ w.diff = (IF fmt = 0 THEN 0 ELSE time) /\ w.drift = drift
       /\ w.hit <=> (fmt > 0 /\ l.hit) \/ meant + drift = ExtTime
  <2>1. (IF fmt = 3 THEN l.fmt ELSE fmt) # 3
    BY <1>8
  <2> HIDE DEF meant, drift
  <2> QED  BY <2>1, <1>9
<1>11. last' = [last EXCEPT ![id] = w] /\ last'[id] = w
  BY <1>1, <1>9 DEF ClientTypes
<1>12. /\ Len(sent') = Len(sent) + 1 /\ sent'[m].length = message.length /\ sent'[m].type = message.type
       /\ sent'[m].size = message.size /\ sent'[m].time = meant
       /\ \A i \in 1..Len(sent) : sent'[i] = sent[i]
  <2>1. PICK x : x = s
    OBVIOUS
  <2>2. x.length = message.length /\ x.type = message.type /\ x.size = message.size /\ x.time = meant
    BY <2>1
  <2>3. sent' = Append(sent, x)
    BY <1>1, <2>1
  <2>4. Len(sent') = Len(sent) + 1 /\ sent'[Len(sent) + 1] = x /\ \A i \in 1..Len(sent) : sent'[i] = sent[i]
    BY <1>4, <2>3
  <2> QED  BY <2>2, <2>4
<1>13. PICK k \in Nat : k = Len(sent)
  BY <1>4
<1>14. m = k + 1 /\ m \in Nat \ {0} /\ m \in 1..Len(sent') /\ Len(sent) <= Len(sent')
  BY <1>12, <1>13
<1>15. ClientTypes'
  BY BeginTypes
<1> HIDE DEF new, s
<1>16. Advance(id, m, n, message, w)
  BY <1>1, <1>11
<1>17. n # message.length => n % outsize = 0
  <2>1. outsize % outsize = 0
    <3>1. 0 % outsize = 0
      BY <1>4, ZeroRemainder
    <3>2. (0 + outsize) % outsize = 0
      BY <1>4, <3>1, Remainders
    <3> QED  BY <3>2, <1>4
  <2> QED  BY <2>1, <1>5
<1>18. \A j \in ChunkIds \ {id} : last[j].fmt # 3 => DecodedId(j) # DecodedId(id)
  BY <1>2 DEF Aliased
<1>19. /\ ClientInv'
       /\ \A x \in ChunkIds \ {id} : last'[x] = last[x] /\ out'[x] = out[x]
       /\ IF n = message.length
          THEN /\ out'[id] = [msg |-> 0, done |-> 0]
               /\ outsize' = (IF message.type = "size" THEN message.size ELSE outsize)
               /\ Len(completed') = Len(completed) + 1
               /\ completed'[Len(completed')] = [msg |-> m, drift |-> w.drift, hit |-> w.hit]
          ELSE /\ out'[id] = [msg |-> m, done |-> n]
               /\ outsize' = outsize /\ Len(completed') = Len(completed)
       /\ Len(completed) <= Len(completed') /\ \A i \in 1..Len(completed) : completed'[i] = completed[i]
  <2>1. PICK mm \in Nat \ {0} : mm = m
    BY <1>14
  <2>2. PICK nn \in Nat : nn = n
    BY <1>5
  <2>3. Advance(id, mm, nn, message, w) /\ mm \in 1..Len(sent') /\ sent'[mm].length = message.length
        /\ sent'[mm].type = message.type /\ w.time = sent'[mm].time
        /\ nn <= message.length /\ (nn # message.length => nn % outsize = 0)
    BY <1>5, <1>10, <1>12, <1>14, <1>16, <1>17, <2>1, <2>2
  <2> HIDE DEF m, n, meant, drift
  <2>4. ClientInv' /\ Booked(id, mm, nn, message, w)
    <3>1. /\ last' = [last EXCEPT ![id] = w]
          /\ Len(sent) <= Len(sent') /\ \A i \in 1..Len(sent) : sent'[i] = sent[i]
          /\ message.length \in Nat /\ w.fmt # 3 /\ w.length = message.length /\ w.type = message.type
          /\ ClientTypes'
      BY <1>3, <1>10, <1>11, <1>12, <1>14, <1>15
    <3> QED  BY <2>3, <3>1, <1>2, <1>18, ClientKept
  <2>5. Booked(id, m, n, message, w)
    BY <2>1, <2>2, <2>4
  <2> QED  BY <2>4, <2>5 DEF Booked
<1>20. PICK h \in HeadType(Len(sent')) :
         /\ wire' = wire \o ChunkTokens(h)
         /\ h.fmt = fmt /\ h.id = id /\ h.time = time /\ h.length = message.length /\ h.type = message.type
         /\ h.msg = m /\ h.from = 0 /\ h.body = n
         /\ h.before = Account /\ h.after = Account'
  <2>1. PICK h \in HeadType(Len(sent')) : Begun(h, id, fmt, message, time)
    BY BeginTypes
  <2> QED  BY <2>1 DEF Begun
<1>21. Ends(h) <=> n = message.length
  BY <1>5, <1>20 DEF Ends
<1>22. Clock(w) = TimeAfter(IF fmt = 0 THEN time ELSE Clock(l), w.diff)
  <2> USE DEF Clock, TimeAfter, Garbled
  <2>1. CASE fmt = 0
    BY <1>2, <1>10, <2>1, SizeAssumption
  <2>2. CASE fmt # 0
    <3>1. fmt > 0 /\ meant = l.time + time /\ drift = l.drift /\ w.diff = time
      BY <1>10, <2>2
    <3>2. w.hit <=> l.hit \/ l.time + time + l.drift = ExtTime
      BY <1>10, <3>1
    <3>3. l.time + time + l.drift = l.time + l.drift + time
      BY <1>7
    <3> HIDE DEF meant, drift
    <3>4. CASE l.hit
      BY <3>2, <3>4, <2>2
    <3>5. CASE ~l.hit
      <4>1. Clock(l) = l.time + l.drift /\ Clock(l) # Garbled
        BY <3>5, <1>7
      <4>2. TimeAfter(Clock(l), w.diff) =
                  IF l.time + l.drift + time = ExtTime THEN Garbled ELSE l.time + l.drift + time
        BY <3>1, <4>1
      <4>3. Clock(w) = IF l.time + l.drift + time = ExtTime THEN Garbled ELSE l.time + l.drift + time
        BY <1>10, <3>1, <3>2, <3>3, <3>5
      <4> QED  BY <4>2, <4>3, <2>2
    <3> QED  BY <3>4, <3>5
  <2> QED  BY <2>1, <2>2
<1>23. ChunkShape(h)
  <2> DEFINE a == h.after
             b == h.before
  <2>1. /\ a.last[id] = w /\ a.out = out' /\ a.last = last' /\ a.size = outsize' /\ a.ended = Len(completed')
        /\ b.last[id] = l /\ b.out = out /\ b.last = last /\ b.size = outsize /\ b.ended = Len(completed)
    BY <1>11, <1>20, AccountFields
  <2>2. NoAlias(a)
    BY <1>19, <1>20 DEF ClientInv
  <2>3. b.out[id].done = 0 /\ 0 % b.size = 0
    BY <1>1, <1>4, <2>1, ZeroRemainder DEF ClientInv
  <2>4. h.body = Least({b.size, h.length - h.from})
    <3>1. h.length - h.from = message.length
      BY <1>3, <1>20
    <3>2. h.body = Least({outsize, message.length})
      BY <1>20
    <3> QED  BY <3>1, <3>2, <2>1
  <2>5. /\ h.fmt > 0 => Used(b, id)
        /\ h.fmt > 1 => l.length = h.length /\ l.type = h.type
        /\ w.diff = (CASE h.fmt = 0 -> 0 [] h.fmt \in {1, 2} -> h.time [] h.fmt = 3 -> l.diff)
    BY <1>8, <1>10, <1>20, <2>1 DEF Used
  <2>6. IF Ends(h)
        THEN a.out[h.id] = [msg |-> 0, done |-> 0] /\ a.ended = b.ended + 1
        ELSE a.out[h.id] = [msg |-> h.msg, done |-> h.from + h.body] /\ a.ended = b.ended /\ a.size = b.size
    <3>1. CASE n = message.length
      <4>1. out'[id] = [msg |-> 0, done |-> 0] /\ Len(completed') = Len(completed) + 1
        BY <1>19, <3>1
      <4> QED  BY <1>20, <1>21, <2>1, <3>1, <4>1
    <3>2. CASE n # message.length
      <4>1. out'[id] = [msg |-> m, done |-> n] /\ Len(completed') = Len(completed) /\ outsize' = outsize
        BY <1>19, <3>2
      <4>2. h.from + h.body = n
        BY <1>5, <1>20
      <4>3. a.out[h.id] = [msg |-> h.msg, done |-> h.from + h.body]
        BY <1>20, <2>1, <4>1, <4>2
      <4> QED  BY <1>21, <2>1, <3>2, <4>1, <4>3
    <3> QED  BY <3>1, <3>2
  <2> HIDE DEF a, b, m, n, l, meant, drift
  <2>7. h.time < ExtTime /\ h.id = id /\ h.fmt = fmt /\ h.from = 0 /\ h.time = time
        /\ h.length = message.length /\ h.type = message.type
    BY <1>2, <1>20
  <2>8. w.fmt # 3 /\ w.length = h.length /\ w.type = h.type
    BY <1>10, <2>7
  <2>9. \A x \in ChunkIds \ {id} : a.last[x] = b.last[x] /\ a.out[x] = b.out[x]
    BY <1>19, <2>1
  <2> QED  BY <1>22, <2>1, <2>2, <2>3, <2>4, <2>5, <2>6, <2>7, <2>8, <2>9 DEF ChunkShape, a, b
<1>24. ChunkMeant(h)'
  <2>1. /\ h.msg \in DOMAIN sent' /\ h.length = sent'[h.msg].length /\ h.type = sent'[h.msg].type
        /\ sent'[h.msg].size = message.size /\ h.after.last[h.id] = w /\ w.time = sent'[h.msg].time
    <3>1. DOMAIN sent' = 1..Len(sent')
      BY <1>15 DEF ClientTypes
    <3> QED  BY <1>10, <1>11, <1>12, <1>14, <1>20, <3>1, AccountFields
  <2>2. Ends(h) =>
          /\ h.after.size = (IF h.type = "size" THEN sent'[h.msg].size ELSE h.before.size)
          /\ h.after.ended \in DOMAIN completed'
          /\ completed'[h.after.ended] = [msg |-> h.msg, drift |-> w.drift, hit |-> w.hit]
    <3>1. DOMAIN completed' = 1..Len(completed') /\ Len(completed) \in Nat
      BY <1>15 DEF ClientTypes
    <3>2. SUFFICES ASSUME n = message.length
          PROVE  /\ h.after.size = (IF h.type = "size" THEN sent'[h.msg].size ELSE h.before.size)
                 /\ h.after.ended \in DOMAIN completed'
                 /\ completed'[h.after.ended] = [msg |-> h.msg, drift |-> w.drift, hit |-> w.hit]
      BY <1>21
    <3>3. Len(completed') \in 1..Len(completed')
      BY <3>1, <3>2, <1>19
    <3> QED  BY <3>1, <3>2, <3>3, <2>1, <1>19, <1>20, AccountFields
  <2> QED  BY <2>1, <2>2 DEF ChunkMeant
<1> QED  BY <1>1, <1>19, <1>20, <1>23, <1>24

(* So is another chunk of it.                                                *)
LEMMA ContinueChunk ==
  ASSUME ClientTypes, ClientInv, NEW id \in ChunkIds, Continue(id), odd' = {}
  PROVE  /\ ClientInv' /\ phase = "chunks" /\ phase' = phase
         /\ Len(completed) <= Len(completed') /\ \A i \in 1..Len(completed) : completed'[i] = completed[i]
         /\ \E h \in HeadType(Len(sent')) :
              wire' = wire \o ChunkTokens(h) /\ h.before = Account /\ h.after = Account'
              /\ ChunkShape(h) /\ ChunkMeant(h)'
<1> DEFINE message == sent[out[id].msg]
           n == Least({outsize, message.length - out[id].done})
           l == last[id]
           new == [l EXCEPT !.drift = @ + l.diff, !.hit = @ \/ l.time + l.drift + l.diff = ExtTime]
<1>1. /\ out[id].msg # 0
      /\ last' = [last EXCEPT ![id].drift = @ + l.diff, ![id].hit = @ \/ l.time + l.drift + l.diff = ExtTime]
      /\ Advance(id, out[id].msg, out[id].done + n, message, last'[id])
      /\ sent' = sent /\ phase' = phase
      /\ odd' = odd \cup (IF outsize' # outsize /\ Straddled(outsize', id) THEN {"resize"} ELSE {})
  BY DEF Continue
<1>2. outsize' # outsize => ~Straddled(outsize', id)
  <2>1. ~(outsize' # outsize /\ Straddled(outsize', id))
    BY <1>1
  <2> QED  BY <2>1
<1>3. Len(sent) \in Nat /\ outsize \in Nat \ {0} /\ l \in LastType
  BY DEF ClientTypes
<1>4. phase = "chunks" /\ out[id].msg \in 1..Len(sent) /\ out[id] \in OutType
  BY <1>1 DEF ClientTypes
<1>5. PICK m \in Nat \ {0} : m = out[id].msg
  BY <1>1, <1>3, <1>4
<1>6. PICK f \in Nat : f = out[id].done
  BY <1>4 DEF OutType
<1>7. message.type \in Types /\ message.length \in Nat /\ message.size \in Nat \ {0}
  <2>1. message \in SentType
    BY <1>4 DEF ClientTypes
  <2> QED  BY <2>1 DEF SentType
<1>8. /\ l.fmt # 3 /\ l.length = message.length /\ l.type = message.type /\ l.time = message.time
      /\ f < message.length /\ f % outsize = 0
  BY <1>1, <1>6 DEF ClientInv
<1>9. l.time \in Nat /\ l.drift \in Nat /\ l.hit \in BOOLEAN /\ l.diff \in Nat
  BY <1>3 DEF LastType
<1>10. PICK w : w = new
  OBVIOUS
<1>11. /\ w.fmt = l.fmt /\ w.length = l.length /\ w.type = l.type /\ w.time = l.time /\ w.diff = l.diff
       /\ w.drift = l.drift + l.diff
       /\ w.hit <=> l.hit \/ l.time + l.drift + l.diff = ExtTime
  <2>1. PICK d : d = l.drift + l.diff
    OBVIOUS
  <2>2. PICK b \in BOOLEAN : b = (l.hit \/ l.time + l.drift + l.diff = ExtTime)
    OBVIOUS
  <2>3. w = [l EXCEPT !.drift = d, !.hit = b]
    BY <1>10, <2>1, <2>2
  <2>4. [l EXCEPT !.drift = d, !.hit = b].hit = b /\ [l EXCEPT !.drift = d, !.hit = b].drift = d
    BY <1>3 DEF LastType
  <2>5. /\ w.fmt = l.fmt /\ w.length = l.length /\ w.type = l.type /\ w.time = l.time /\ w.diff = l.diff
        /\ w.drift = d /\ w.hit = b
    BY <2>3, <2>4
  <2> QED  BY <2>1, <2>2, <2>5
<1>12. last' = [last EXCEPT ![id] = w] /\ last'[id] = w
  <2>1. last \in [ChunkIds -> LastType]
    BY DEF ClientTypes
  <2> QED  BY <2>1, <1>1, <1>10
<1>13. PICK k \in Nat : k = message.length - f
  BY <1>7, <1>8
<1>14. n \in Nat /\ n <= k /\ (n # k => n = outsize) /\ n = Least({outsize, k})
  <2>1. n = Least({outsize, k})
    BY <1>6, <1>13
  <2> QED  BY <2>1, <1>3, LeastOfTwo
<1>15. PICK g \in Nat : g = f + n
  BY <1>14
<1>16. g <= message.length /\ (g = message.length <=> n = k)
  BY <1>7, <1>13, <1>14, <1>15
<1>17. g # message.length => g % outsize = 0
  <2>1. PICK s \in Nat \ {0} : s = outsize
    BY <1>3
  <2>2. s \in 0..s /\ f % s = 0
    BY <2>1, <1>8
  <2>3. (f + s) % s = 0
    BY <2>2, Remainders
  <2> QED  BY <2>1, <2>3, <1>14, <1>15, <1>16
<1>18. Advance(id, m, g, message, w)
  BY <1>1, <1>5, <1>6, <1>12, <1>15
<1>19. ClientTypes'
  BY ContinueTypes
<1>20. \A j \in ChunkIds \ {id} : last[j].fmt # 3 => DecodedId(j) # DecodedId(id)
  BY <1>8, AccountFields DEF ClientInv, NoAlias
<1> HIDE DEF new, n, l
<1>21. ClientInv' /\ Booked(id, m, g, message, w)
  <2>1. PICK s : s = message
    OBVIOUS
  <2> HIDE DEF message
  <2>2. /\ Len(sent) <= Len(sent') /\ \A i \in 1..Len(sent) : sent'[i] = sent[i]
        /\ m \in 1..Len(sent') /\ sent'[m] = s
    BY <1>1, <1>3, <1>4, <1>5, <2>1 DEF message
  <2>3. /\ s.length \in Nat /\ w.fmt # 3 /\ w.length = s.length /\ w.type = s.type /\ w.time = s.time
        /\ g <= s.length /\ (g # s.length => g % outsize = 0)
    BY <1>7, <1>8, <1>11, <1>16, <1>17, <2>1
  <2>4. Advance(id, m, g, s, w)
    BY <1>18, <2>1
  <2>5. ClientInv' /\ Booked(id, m, g, s, w)
    BY <2>2, <2>3, <2>4, <1>2, <1>12, <1>19, <1>20, ClientKept
  <2> QED  BY <2>1, <2>5
<1>22. PICK h \in HeadType(Len(sent')) : Continued(h, id)
  BY ContinueTypes
<1>23. /\ wire' = wire \o ChunkTokens(h)
       /\ h.fmt = 3 /\ h.id = id /\ h.time = 0 /\ h.length = message.length
       /\ h.type = message.type /\ h.msg = m /\ h.from = f /\ h.body = n
       /\ h.before = Account /\ h.after = Account'
  BY <1>5, <1>6, <1>22 DEF Continued, n
<1>24. Ends(h) <=> g = message.length
  BY <1>15, <1>23 DEF Ends
<1>25. Clock(w) = TimeAfter(Clock(l), w.diff)
  <2>1. PICK t \in Nat : t = l.time + l.drift
    BY <1>9
  <2>6. w.time = l.time /\ w.drift = l.drift + l.diff
    BY <1>11
  <2>2. w.time + w.drift = t + l.diff /\ l.time + l.drift + l.diff = t + l.diff
    BY <1>9, <2>1, <2>6
  <2>3. Clock(w) = IF l.hit \/ t + l.diff = ExtTime THEN Garbled ELSE t + l.diff
    <3>1. w.hit <=> l.hit \/ t + l.diff = ExtTime
      <4>1. w.hit <=> l.hit \/ l.time + l.drift + l.diff = ExtTime
        BY <1>11
      <4> QED  BY <2>2, <4>1
    <3>2. Clock(w) = IF w.hit THEN Garbled ELSE t + l.diff
      BY <2>2 DEF Clock
    <3> QED  BY <3>1, <3>2
  <2>4. Clock(l) = IF l.hit THEN Garbled ELSE t
    BY <2>1 DEF Clock
  <2>5. t # Garbled
    BY DEF Garbled
  <2> QED  BY <2>3, <2>4, <2>5, <1>11 DEF TimeAfter
<1>26. h.time < ExtTime
  BY <1>23, SizeAssumption
<1>27. ChunkShape(h)
  <2> DEFINE a == h.after
             b == h.before
  <2>1. /\ a.last[id] = w /\ a.out = out' /\ a.last = last' /\ a.size = outsize' /\ a.ended = Len(completed')
        /\ b.last[id] = l /\ b.out = out /\ b.last = last /\ b.size = outsize /\ b.ended = Len(completed)
    BY <1>12, <1>23, AccountFields DEF l
  <2>2. NoAlias(a)
    BY <1>21, <1>23 DEF ClientInv
  <2>3. h.from = b.out[id].done /\ h.from < h.length /\ b.out[id].msg = h.msg /\ h.from % b.size = 0
    BY <1>5, <1>6, <1>8, <1>23, <2>1
  <2>4. h.body = Least({b.size, h.length - h.from})
    BY <1>13, <1>14, <1>23, <2>1
  <2>5. /\ Used(b, id) /\ l.length = h.length /\ l.type = h.type
        /\ w.diff = (CASE h.fmt = 0 -> 0 [] h.fmt \in {1, 2} -> h.time [] h.fmt = 3 -> l.diff)
    BY <1>8, <1>11, <1>23, <2>1 DEF Used
  <2>6. IF Ends(h)
        THEN a.out[id] = [msg |-> 0, done |-> 0] /\ a.ended = b.ended + 1
        ELSE a.out[id] = [msg |-> h.msg, done |-> h.from + h.body] /\ a.ended = b.ended /\ a.size = b.size
    <3>1. CASE g = message.length
      <4>1. out'[id] = [msg |-> 0, done |-> 0] /\ Len(completed') = Len(completed) + 1
        BY <1>21, <3>1 DEF Booked
      <4> QED  BY <1>24, <2>1, <3>1, <4>1
    <3>2. CASE g # message.length
      <4>1. out'[id] = [msg |-> m, done |-> g] /\ Len(completed') = Len(completed) /\ outsize' = outsize
        BY <1>21, <3>2 DEF Booked
      <4>2. a.out[id] = [msg |-> h.msg, done |-> h.from + h.body]
        BY <1>15, <1>23, <2>1, <4>1
      <4> QED  BY <1>24, <2>1, <3>2, <4>1, <4>2
    <3> QED  BY <3>1, <3>2
  <2>7. \A x \in ChunkIds \ {id} : a.last[x] = b.last[x] /\ a.out[x] = b.out[x]
    BY <1>21, <2>1 DEF Booked
  <2>8. w.fmt # 3 /\ w.length = h.length /\ w.type = h.type
    BY <1>8, <1>11, <1>23
  <2>9. h.id = id /\ h.fmt = 3
    BY <1>23
  <2> HIDE DEF a, b, message
  <2> QED  BY <1>25, <1>26, <2>1, <2>2, <2>3, <2>4, <2>5, <2>6, <2>7, <2>8, <2>9 DEF ChunkShape, a, b
<1>28. ChunkMeant(h)'
  <2>1. /\ h.msg \in DOMAIN sent' /\ sent'[h.msg] = message /\ h.after.last[h.id] = w /\ w.time = message.time
    <3>1. DOMAIN sent = 1..Len(sent)
      BY DEF ClientTypes
    <3>2. h.msg \in DOMAIN sent' /\ sent'[h.msg] = sent[out[id].msg]
      BY <1>1, <1>4, <1>5, <1>23, <3>1
    <3>3. h.after.last[h.id] = w
      BY <1>12, <1>23, AccountFields
    <3>4. w.time = message.time
      BY <1>8, <1>11
    <3> QED  BY <3>2, <3>3, <3>4
  <2>2. Ends(h) =>
          /\ h.after.size = (IF h.type = "size" THEN message.size ELSE h.before.size)
          /\ h.after.ended \in DOMAIN completed'
          /\ completed'[h.after.ended] = [msg |-> h.msg, drift |-> w.drift, hit |-> w.hit]
    <3>1. DOMAIN completed' = 1..Len(completed') /\ Len(completed) \in Nat
      BY <1>19 DEF ClientTypes
    <3>2. SUFFICES ASSUME g = message.length
          PROVE  /\ h.after.size = (IF h.type = "size" THEN message.size ELSE h.before.size)
                 /\ h.after.ended \in DOMAIN completed'
                 /\ completed'[h.after.ended] = [msg |-> h.msg, drift |-> w.drift, hit |-> w.hit]
      BY <1>24
    <3>3. /\ outsize' = (IF message.type = "size" THEN message.size ELSE outsize)
          /\ Len(completed') = Len(completed) + 1
          /\ completed'[Len(completed')] = [msg |-> m, drift |-> w.drift, hit |-> w.hit]
      BY <3>2, <1>21 DEF Booked
    <3>4. Len(completed') \in 1..Len(completed')
      BY <3>1, <3>3
    <3> QED  BY <3>1, <3>3, <3>4, <1>23, AccountFields
  <2> QED  BY <2>1, <2>2, <1>23 DEF ChunkMeant
<1>29. Len(completed) <= Len(completed') /\ \A i \in 1..Len(completed) : completed'[i] = completed[i]
  BY <1>21 DEF Booked
<1> QED  BY <1>1, <1>4, <1>21, <1>23, <1>27, <1>28, <1>29

-----------------------------------------------------------------------------
(* The invariant of the stream                                               *)

(* All that is on its way is whole chunks, of which the first may be read in *)
(* part.                                                                     *)
FlightInv ==
  /\ Flight \in Seq(ChunkByte(Len(sent)))
  /\ \A i \in 1..Len(Flight) : ChunkShape(Flight[i].h) /\ ChunkMeant(Flight[i].h)
  /\ Carries(Flight, Account)

(* The account of the client at the reader's place in the stream.            *)
Upcoming == ComingUp(Flight, Account)

(* What d says of a message is right for the one completed as number i.      *)
Answers(i, d) ==
  /\ i \in DOMAIN completed /\ d.msg = completed[i].msg
  /\ d.msg \in DOMAIN sent /\ d.type = sent[d.msg].type /\ d.length = sent[d.msg].length
  /\ d.time = IF completed[i].hit THEN Garbled ELSE sent[d.msg].time + completed[i].drift

(* It is right for every message handed over.                                *)
DispatchInv == \A i \in 1..Len(dispatched) : Answers(i, dispatched[i])

(* In a header, or before one.                                               *)
HeaderInv ==
  /\ IF Flight = <<>> THEN hlen = 0 ELSE Flight[1].at = hlen + 1 /\ hlen < HeaderBytes(Flight[1].h)
  /\ insize = Upcoming.size /\ Len(dispatched) = Upcoming.ended /\ Synced(Upcoming)

(* After the header of an empty message, which only another byte dispatches. *)
EmptyInv ==
  LET c == chunks[current] IN
  /\ c.got = 0
  /\ Flight # <<>> => Flight[1].at = 1
  /\ Answers(Len(dispatched) + 1, c)
  /\ Upcoming.size = (IF c.type = "size" THEN sent[c.msg].size ELSE insize)
  /\ Upcoming.ended = Len(dispatched) + 1 /\ Synced(Upcoming)

(* In the body of a chunk.                                                   *)
BodyInv ==
  LET c == chunks[current]
      h == Flight[1].h
      l == h.after.last[h.id]
  IN
  /\ Flight # <<>> /\ Flight[1].at > HeaderBytes(h)
  /\ current = DecodedId(h.id)
  /\ c.got = h.from + (Flight[1].at - HeaderBytes(h) - 1)
  /\ c.length = h.length /\ c.type = h.type /\ c.msg = h.msg /\ c.diff = l.diff /\ c.time = Clock(l)
  /\ insize = h.before.size /\ Len(dispatched) = h.before.ended
  /\ Known(h.after) /\ \A j \in ChunkIds \ {h.id} : Agrees(h.after, j)

(* Where the reader is in the first chunk of the flight.                     *)
PlaceInv ==
  /\ state # "body" => HeaderInv
  /\ state = "body" /\ chunks[current].length = 0 => EmptyInv
  /\ state = "body" /\ chunks[current].length # 0 => BodyInv

(* All of that, for an orderly client.                                       *)
StreamInv ==
  odd = {} =>
    /\ ~misread /\ DispatchInv
    /\ conn = "open" => HandshakeInv /\ ClientInv /\ FlightInv /\ PlaceInv

(* What was true of messages and chunks remains true.                        *)
Grown ==
  /\ Len(sent) <= Len(sent') /\ \A i \in 1..Len(sent) : sent'[i] = sent[i]
  /\ Len(completed) <= Len(completed') /\ \A i \in 1..Len(completed) : completed'[i] = completed[i]

(* Messages and completed messages keep their numbers.                       *)
LEMMA GrownDomains ==
  ASSUME ClientTypes, ClientTypes', Grown
  PROVE  /\ \A i \in DOMAIN sent : i \in DOMAIN sent' /\ sent'[i] = sent[i]
         /\ \A i \in DOMAIN completed : i \in DOMAIN completed' /\ completed'[i] = completed[i]
<1>1. DOMAIN sent = 1..Len(sent) /\ DOMAIN sent' = 1..Len(sent') /\ Len(sent) \in Nat /\ Len(sent') \in Nat
  BY DEF ClientTypes
<1>2. DOMAIN completed = 1..Len(completed) /\ DOMAIN completed' = 1..Len(completed')
      /\ Len(completed) \in Nat /\ Len(completed') \in Nat
  BY DEF ClientTypes
<1> QED  BY <1>1, <1>2 DEF Grown

(* What a record says of a message remains right.                            *)
LEMMA AnswersKept ==
  ASSUME ClientTypes, ClientTypes', Grown, NEW i, NEW d, Answers(i, d)
  PROVE  Answers(i, d)'
<1>1. i \in DOMAIN completed' /\ completed'[i] = completed[i]
      /\ d.msg \in DOMAIN sent' /\ sent'[d.msg] = sent[d.msg]
  BY GrownDomains DEF Answers
<1> QED  BY <1>1 DEF Answers

(* So does what a chunk has to do with its message.                          *)
LEMMA MeantKept ==
  ASSUME ClientTypes, ClientTypes', Grown, NEW h, ChunkMeant(h)
  PROVE  ChunkMeant(h)'
<1>1. h.msg \in DOMAIN sent' /\ sent'[h.msg] = sent[h.msg]
  BY GrownDomains DEF ChunkMeant
<1>2. Ends(h) => h.after.ended \in DOMAIN completed' /\ completed'[h.after.ended] = completed[h.after.ended]
  BY GrownDomains DEF ChunkMeant
<1> QED  BY <1>1, <1>2 DEF ChunkMeant

(* So does what was said of the messages handed over.                        *)
LEMMA DispatchKept ==
  ASSUME ClientTypes, ClientTypes', Grown, DispatchInv, UNCHANGED dispatched
  PROVE  DispatchInv'
  BY AnswersKept DEF DispatchInv

(* What the records say changes with the records only.                       *)
LEMMA SyncedKept ==
  ASSUME NEW a, UNCHANGED chunks
  PROVE  /\ Synced(a) => Synced(a)'
         /\ Known(a) => Known(a)'
         /\ \A j \in ChunkIds : Agrees(a, j) => Agrees(a, j)'
<1>1. \A x : Chunk(x)' = Chunk(x)
  BY DEF Chunk
<1>2. \A j \in ChunkIds : Agrees(a, j) => Agrees(a, j)'
  BY <1>1 DEF Agrees
<1>3. Known(a) => Known(a)'
  BY DEF Known
<1> QED  BY <1>2, <1>3 DEF Synced

(* A flight with another chunk at its end, h.                                *)
LEMMA ChunkFlight ==
  ASSUME TypeInv, ClientTypes', HandshakeInv, FlightInv, phase = "chunks", phase' = phase, UNCHANGED readerVars,
         Grown, NEW h \in HeadType(Len(sent')), wire' = wire \o ChunkTokens(h),
         h.before = Account, h.after = Account',
         ChunkShape(h), ChunkMeant(h)'
  PROVE  /\ HandshakeInv' /\ FlightInv' /\ Upcoming' = Upcoming /\ Flight' # <<>>
         /\ Flight = <<>> => Flight'[1].at = 1 /\ Flight'[1].h = h
         /\ Flight # <<>> => Flight'[1] = Flight[1]
<1>1. PICK N \in Nat : N = Len(sent')
  BY DEF ClientTypes
<1>2. h \in HeadType(N) /\ Len(sent) \in Nat /\ Len(sent) <= N
  BY <1>1 DEF Grown, TypeInv, ClientTypes
<1>3. Byte(Len(sent)) \subseteq Byte(N)
  BY <1>2, TypesGrow
<1>4. wire \in Seq(Byte(N)) /\ buf \in Seq(Byte(N))
  BY <1>3, SeqGrows DEF TypeInv, ReaderTypes
<1>5. PICK t : t = ChunkTokens(h)
  OBVIOUS
<1>6. t \in Seq(Byte(N)) /\ Len(t) = ChunkEnd(h)
      /\ (\A i \in 1..ChunkEnd(h) : t[i] = [kind |-> KindAt(h, i), at |-> i, h |-> h])
  BY <1>2, <1>5, ChunkTokensShape
<1>7. wire' = wire \o t
  BY <1>5
<1>8. HandshakeInv' /\ Flight' = Flight \o t
  BY <1>4, <1>6, <1>7, GrownFlight
<1>9. PICK F : F = Flight
  OBVIOUS
<1>10. ChunkByte(Len(sent)) \subseteq ChunkByte(N)
  BY <1>2, TypesGrow
<1>11. F \in Seq(ChunkByte(N)) /\ Carries(F, Account)
       /\ \A i \in 1..Len(F) : ChunkShape(F[i].h) /\ ChunkMeant(F[i].h)
  BY <1>9, <1>10, SeqGrows DEF FlightInv
<1>12. PICK a : a = Account
  OBVIOUS
<1>13. F \o t \in Seq(ChunkByte(N)) /\ Carries(F \o t, h.after)
  BY <1>2, <1>5, <1>11, <1>12, CarriesAppend
<1>14. PICK G : G = F \o t
  OBVIOUS
<1>15. ChunkEnd(h) \in Nat \ {0}
  <2>1. HeaderBytes(h) \in Nat \ {0} /\ HeadEnd(h) \in Nat /\ HeadEnd(h) >= HeaderBytes(h)
        /\ ChunkEnd(h) = HeadEnd(h) + h.body
    BY <1>2, HeaderSizes
  <2>2. h.body \in Nat
    BY <1>2, HeadFields
  <2> QED  BY <2>1, <2>2
<1>16. Len(F) \in Nat /\ Len(G) = Len(F) + ChunkEnd(h)
       /\ (\A i \in 1..Len(F) : G[i] = F[i]) /\ (\A i \in 1..ChunkEnd(h) : G[Len(F) + i] = t[i])
  <2>1. F \in Seq(ChunkByte(N)) /\ t \in Seq(Byte(N))
    BY <1>6, <1>11
  <2>2. Len(F) \in Nat /\ Len(t) \in Nat
    BY <2>1
  <2>3. Len(G) = Len(F) + Len(t)
        /\ \A i \in 1..(Len(F) + Len(t)) : G[i] = IF i <= Len(F) THEN F[i] ELSE t[i - Len(F)]
    BY <1>14, <2>1
  <2> QED  BY <2>2, <2>3, <1>6, <1>15
<1>17. Flight' = G /\ G \in Seq(ChunkByte(Len(sent'))) /\ Carries(G, Account')
  BY <1>1, <1>8, <1>9, <1>13, <1>14
<1>18. ASSUME NEW i \in 1..Len(G)  PROVE ChunkShape(G[i].h) /\ ChunkMeant(G[i].h)'
  <2>1. CASE i <= Len(F)
    <3>1. i \in 1..Len(F) /\ G[i] = F[i]
      BY <1>16, <2>1
    <3>2. PICK k : k = F[i].h
      OBVIOUS
    <3>3. ChunkShape(k) /\ ChunkMeant(k)
      BY <1>11, <3>1, <3>2
    <3>4. ChunkMeant(k)'
      BY <3>3, MeantKept DEF TypeInv
    <3> QED  BY <3>1, <3>2, <3>3, <3>4
  <2>2. CASE i > Len(F)
    <3>1. PICK j \in 1..ChunkEnd(h) : i = Len(F) + j
      <4>1. i - Len(F) \in 1..ChunkEnd(h) /\ i = Len(F) + (i - Len(F))
        BY <2>2, <1>15, <1>16
      <4> QED  BY <4>1
    <3>2. G[i].h = h
      BY <3>1, <1>6, <1>16
    <3> QED  BY <3>2
  <2> QED  BY <2>1, <2>2, <1>16
<1>19. FlightInv'
  BY <1>17, <1>18 DEF FlightInv
<1>20. G # <<>>
  <2>1. Len(G) # 0
    BY <1>15, <1>16
  <2> QED  BY <2>1, EmptySeq
<1>21. F = <<>> => G[1].at = 1 /\ G[1].h = h
  <2>1. SUFFICES ASSUME F = <<>>  PROVE G[1].at = 1 /\ G[1].h = h
    OBVIOUS
  <2>2. Len(F) = 0 /\ 1 \in 1..ChunkEnd(h)
    BY <2>1, <1>15
  <2>3. G[1] = t[1] /\ t[1] = [kind |-> KindAt(h, 1), at |-> 1, h |-> h]
    BY <2>2, <1>6, <1>16
  <2> QED  BY <2>3
<1>22. F # <<>> => G[1] = F[1]
  <2>1. F # <<>> => 1 \in 1..Len(F)
    BY <1>11, <1>16, NoElements
  <2> QED  BY <2>1, <1>16
<1>23. ComingUp(G, Account') = ComingUp(F, Account)
  BY <1>20, <1>21, <1>22 DEF ComingUp
<1> QED  BY <1>8, <1>9, <1>17, <1>19, <1>20, <1>21, <1>22, <1>23 DEF Upcoming

(* The client's steps.                                                       *)
LEMMA ChunkStep ==
  ASSUME TypeInv, ClientTypes', HandshakeInv, FlightInv, PlaceInv, phase = "chunks", phase' = phase,
         UNCHANGED readerVars, Grown,
         NEW h \in HeadType(Len(sent')), wire' = wire \o ChunkTokens(h), h.before = Account, h.after = Account',
         ChunkShape(h), ChunkMeant(h)'
  PROVE  HandshakeInv' /\ FlightInv' /\ PlaceInv'
<1>1. /\ HandshakeInv' /\ FlightInv' /\ Upcoming' = Upcoming /\ Flight' # <<>>
      /\ Flight = <<>> => Flight'[1].at = 1 /\ Flight'[1].h = h
      /\ Flight # <<>> => Flight'[1] = Flight[1]
  BY ChunkFlight
<1>2. PICK u : u = Upcoming
  OBVIOUS
<1>3. UNCHANGED <<state, hlen, insize, dispatched, chunks, current>>
  BY DEF readerVars, chunkVars
<1>4. ASSUME HeaderInv  PROVE HeaderInv'
  <2>1. Synced(u) /\ insize = u.size /\ Len(dispatched) = u.ended
    BY <1>2, <1>4 DEF HeaderInv
  <2>2. Synced(u)'
    BY <1>3, <2>1, SyncedKept
  <2>3. Flight'[1].at = hlen' + 1 /\ hlen' < HeaderBytes(Flight'[1].h)
    <3>1. CASE Flight = <<>>
      <4>1. Len(sent') \in Nat
        BY DEF ClientTypes
      <4>2. HeaderBytes(h) \in Nat \ {0}
        BY <4>1, HeaderSizes
      <4>3. hlen = 0
        BY <3>1, <1>4 DEF HeaderInv
      <4> QED  BY <3>1, <4>2, <4>3, <1>1, <1>3
    <3>2. CASE Flight # <<>>
      <4>1. Flight[1].at = hlen + 1 /\ hlen < HeaderBytes(Flight[1].h)
        BY <3>2, <1>4 DEF HeaderInv
      <4> QED  BY <3>2, <4>1, <1>1, <1>3
    <3> QED  BY <3>1, <3>2
  <2>4. insize' = u.size /\ Len(dispatched') = u.ended
    BY <1>3, <2>1
  <2> QED  BY <1>1, <1>2, <2>2, <2>3, <2>4 DEF HeaderInv
<1>5. ASSUME EmptyInv  PROVE EmptyInv'
  <2>1. PICK c : c = chunks[current]
    OBVIOUS
  <2>2. PICK i : i = Len(dispatched) + 1
    OBVIOUS
  <2>3. /\ c.got = 0 /\ Answers(i, c)
        /\ u.size = (IF c.type = "size" THEN sent[c.msg].size ELSE insize)
        /\ u.ended = i /\ Synced(u)
        /\ Flight # <<>> => Flight[1].at = 1
    BY <1>2, <1>5, <2>1, <2>2 DEF EmptyInv
  <2>4. Answers(i, c)'
    BY <2>3, AnswersKept DEF TypeInv
  <2>5. Synced(u)'
    BY <1>3, <2>3, SyncedKept
  <2>6. sent'[c.msg] = sent[c.msg]
    <3>1. c.msg \in DOMAIN sent
      BY <2>3 DEF Answers
    <3> QED  BY <3>1, GrownDomains DEF TypeInv
  <2>7. c = chunks'[current'] /\ i = Len(dispatched') + 1 /\ insize' = insize
    BY <1>3, <2>1, <2>2
  <2>8. u.size = (IF c.type = "size" THEN sent'[c.msg].size ELSE insize')
    BY <2>3, <2>6, <2>7
  <2>9. Flight'[1].at = 1
    BY <1>1, <2>3
  <2> QED  BY <1>1, <1>2, <2>3, <2>4, <2>5, <2>7, <2>8, <2>9 DEF EmptyInv
<1>6. ASSUME BodyInv  PROVE BodyInv'
  <2>1. PICK a : a = Flight[1].h.after
    OBVIOUS
  <2>2. PICK id : id = Flight[1].h.id
    OBVIOUS
  <2>3. Flight # <<>> /\ Known(a) /\ \A j \in ChunkIds \ {id} : Agrees(a, j)
    BY <1>6, <2>1, <2>2 DEF BodyInv
  <2>4. Known(a)' /\ \A j \in ChunkIds \ {id} : Agrees(a, j)'
    BY <1>3, <2>3, SyncedKept
  <2>5. Flight'[1] = Flight[1]
    BY <1>1, <2>3
  <2> QED  BY <1>1, <1>3, <1>6, <2>1, <2>2, <2>4, <2>5 DEF BodyInv
<1> QED  BY <1>1, <1>3, <1>4, <1>5, <1>6 DEF PlaceInv

(* Where nothing moves in the stream.                                        *)
LEMMA StandingStep ==
  ASSUME PlaceInv, UNCHANGED <<sent, completed, out, last, outsize, hlen, insize, dispatched, chunks, current>>,
         Flight' = Flight, state' = state \/ (state # "body" /\ state' # "body")
  PROVE  /\ PlaceInv'
         /\ FlightInv => FlightInv'
         /\ ClientInv => ClientInv'
         /\ DispatchInv => DispatchInv'
<1>1. Account' = Account
  BY DEF Account
<1>2. Upcoming' = Upcoming
  BY <1>1 DEF Upcoming
<1>3. PICK u : u = Upcoming
  OBVIOUS
<1>4. \A i, d : Answers(i, d)' <=> Answers(i, d)
  BY DEF Answers
<1>5. ASSUME HeaderInv  PROVE HeaderInv'
  <2>1. Synced(u)'
    BY <1>3, <1>5, SyncedKept DEF HeaderInv
  <2> QED  BY <1>2, <1>3, <1>5, <2>1 DEF HeaderInv
<1>6. ASSUME EmptyInv  PROVE EmptyInv'
  <2>1. Synced(u)'
    BY <1>3, <1>6, SyncedKept DEF EmptyInv
  <2>2. Answers(Len(dispatched) + 1, chunks[current])'
    BY <1>4, <1>6 DEF EmptyInv
  <2> QED  BY <1>2, <1>3, <1>6, <2>1, <2>2 DEF EmptyInv
<1>7. ASSUME BodyInv  PROVE BodyInv'
  <2>1. PICK a : a = Flight[1].h.after
    OBVIOUS
  <2>2. PICK id : id = Flight[1].h.id
    OBVIOUS
  <2>3. Known(a) /\ \A j \in ChunkIds \ {id} : Agrees(a, j)
    BY <1>7, <2>1, <2>2 DEF BodyInv
  <2>4. Known(a)' /\ \A j \in ChunkIds \ {id} : Agrees(a, j)'
    BY <2>3, SyncedKept
  <2> QED  BY <1>7, <2>1, <2>2, <2>4 DEF BodyInv
<1>8. PlaceInv'
  BY <1>5, <1>6, <1>7 DEF PlaceInv
<1>9. FlightInv => FlightInv'
  <2>1. SUFFICES ASSUME FlightInv  PROVE FlightInv'
    OBVIOUS
  <2>2. \A h : ChunkMeant(h)' <=> ChunkMeant(h)
    BY DEF ChunkMeant
  <2> QED  BY <1>1, <2>1, <2>2 DEF FlightInv
<1>10. ClientInv => ClientInv'
  BY <1>1 DEF ClientInv
<1>11. DispatchInv => DispatchInv'
  BY <1>4 DEF DispatchInv
<1> QED  BY <1>8, <1>9, <1>10, <1>11

(* Each step of the client.                                                  *)
LEMMA StreamClient ==
  ASSUME TypeInv, TypeInv', StreamInv, Client
  PROVE  StreamInv'
<1>1. SUFFICES ASSUME odd' = {}  PROVE StreamInv'
  BY DEF StreamInv
<1>2. UNCHANGED readerVars
  BY ClientOnly
<1>3. conn = "open" /\ ~misread /\ conn' = "open" /\ ~misread'
  <2>1. MaySend
    <3>1. Hello \/ Acknowledge => MaySend
      BY DEF Hello, Acknowledge
    <3>2. \A id : Continue(id) \/ Abort(id) => MaySend
      BY DEF Continue, Abort
    <3>3. \A id, fmt, message, time : Begin(id, fmt, message, time) => MaySend
      BY DEF Begin
    <3> QED  BY <3>1, <3>2, <3>3 DEF Client
  <2> QED  BY <2>1, <1>2 DEF MaySend, readerVars
<1>4. ClientTypes /\ ClientTypes'
  BY DEF TypeInv
<1>5. CASE Hello \/ Acknowledge
  <2>1. odd = {} /\ UNCHANGED <<sent, completed, out, last, outsize>>
    BY <1>1, <1>5 DEF Hello, Acknowledge
  <2>2. HandshakeInv /\ ClientInv /\ FlightInv /\ PlaceInv /\ DispatchInv
    BY <2>1, <1>3 DEF StreamInv
  <2>3. HandshakeInv' /\ Flight = <<>> /\ Flight' = <<>>
    BY <1>5, <2>2, HelloFlight, AcknowledgeFlight
  <2>4. UNCHANGED <<state, hlen, insize, dispatched, chunks, current>>
    BY <1>2 DEF readerVars, chunkVars
  <2>5. PlaceInv' /\ FlightInv' /\ ClientInv' /\ DispatchInv'
    BY <2>1, <2>2, <2>3, <2>4, StandingStep
  <2> QED  BY <1>3, <2>3, <2>5 DEF StreamInv
<1>6. ASSUME NEW id \in ChunkIds, Abort(id)  PROVE FALSE
  BY <1>1, <1>6 DEF Abort
<1>7. ASSUME odd = {}, phase = "chunks", phase' = phase, ClientInv', Grown,
             NEW h \in HeadType(Len(sent')), wire' = wire \o ChunkTokens(h),
             h.before = Account, h.after = Account', ChunkShape(h), ChunkMeant(h)'
      PROVE  StreamInv'
  <2>1. HandshakeInv /\ FlightInv /\ PlaceInv /\ DispatchInv
    BY <1>3, <1>7 DEF StreamInv
  <2>2. HandshakeInv' /\ FlightInv' /\ PlaceInv'
    BY <1>2, <1>4, <1>7, <2>1, ChunkStep
  <2>3. UNCHANGED dispatched
    BY <1>2 DEF readerVars, chunkVars
  <2>4. DispatchInv'
    BY <1>4, <1>7, <2>1, <2>3, DispatchKept
  <2> QED  BY <1>3, <1>7, <2>2, <2>4 DEF StreamInv
<1>8. ASSUME NEW id \in ChunkIds,
             NEW fmt \in 0..3, NEW type \in Types, NEW length \in Lengths \cup {SizeLength},
             NEW size \in ChunkSizes \cup {outsize}, NEW time \in Times \cup Deltas,
             Begin(id, fmt, [type |-> type, length |-> length, size |-> size], time)
      PROVE  StreamInv'
  <2>1. length \in Nat /\ size \in Nat \ {0} /\ time \in Nat
    <3>1. outsize \in Nat \ {0}
      BY <1>4 DEF ClientTypes
    <3> QED  BY <3>1, SizeAssumption, Inputs
  <2>2. PICK message \in MessageForm : message = [type |-> type, length |-> length, size |-> size]
    BY <2>1 DEF MessageForm
  <2>3. Begin(id, fmt, message, time)
    BY <1>8, <2>2
  <2>4. odd = {}
    <3>1. odd \subseteq odd'
      BY <2>3 DEF Begin
    <3> QED  BY <3>1, <1>1
  <2>5. ClientInv
    BY <2>4, <1>3 DEF StreamInv
  <2>6. PICK t \in Nat : t = time
    BY <2>1
  <2>7. Begin(id, fmt, message, t)
    BY <2>3, <2>6
  <2>8. /\ ClientInv' /\ phase = "chunks" /\ phase' = phase
        /\ Len(completed) <= Len(completed') /\ \A i \in 1..Len(completed) : completed'[i] = completed[i]
        /\ \E h \in HeadType(Len(sent')) :
             wire' = wire \o ChunkTokens(h) /\ h.before = Account /\ h.after = Account'
             /\ ChunkShape(h) /\ ChunkMeant(h)'
    BY <1>1, <1>4, <2>5, <2>7, BeginChunk
  <2>9. Len(sent) <= Len(sent') /\ \A i \in 1..Len(sent) : sent'[i] = sent[i]
    <3>1. Len(sent') = Len(sent) + 1 /\ \A i \in 1..Len(sent) : sent'[i] = sent[i]
      BY <1>4, <2>7, BeginTypes
    <3>2. Len(sent) \in Nat
      BY <1>4 DEF ClientTypes
    <3> QED  BY <3>1, <3>2
  <2>10. Grown
    BY <2>8, <2>9 DEF Grown
  <2> QED  BY <1>7, <2>4, <2>8, <2>10
<1>9. ASSUME NEW id \in ChunkIds, Continue(id)  PROVE StreamInv'
  <2>1. odd = {}
    <3>1. odd \subseteq odd'
      BY <1>9 DEF Continue
    <3> QED  BY <3>1, <1>1
  <2>2. ClientInv
    BY <2>1, <1>3 DEF StreamInv
  <2>3. /\ ClientInv' /\ phase = "chunks" /\ phase' = phase
        /\ Len(completed) <= Len(completed') /\ \A i \in 1..Len(completed) : completed'[i] = completed[i]
        /\ \E h \in HeadType(Len(sent')) :
             wire' = wire \o ChunkTokens(h) /\ h.before = Account /\ h.after = Account'
             /\ ChunkShape(h) /\ ChunkMeant(h)'
    BY <1>1, <1>4, <1>9, <2>2, ContinueChunk
  <2>4. sent' = sent /\ Len(sent) \in Nat
    BY <1>9, <1>4, ContinueTypes DEF ClientTypes
  <2>5. Grown
    BY <2>3, <2>4 DEF Grown
  <2> QED  BY <1>7, <2>1, <2>3, <2>5
<1> QED  BY <1>5, <1>6, <1>8, <1>9 DEF Client

(* A call that takes n bytes of the flight.                                  *)
LEMMA Taken ==
  ASSUME TypeInv, HandshakeInv, FlightInv, state \in {"header", "body"}, state' \in {"header", "body"},
         NEW n \in 0..Len(buf), buf' = Drop(buf, n), wire' = wire, UNCHANGED clientVars
  PROVE  /\ HandshakeInv' /\ FlightInv'
         /\ Flight' = Drop(Flight, n) /\ Upcoming' = ComingUp(Drop(Flight, n), Account)
         /\ \A d : \A i : Answers(i, d) <=> Answers(i, d)'
<1>1. UNCHANGED <<phase, sent, completed, out, last, outsize>>
  BY DEF clientVars
<1>2. /\ HandshakeInv'
      /\ Flight' = Drop(Flight, n) /\ Len(buf) <= Len(Flight)
  BY <1>1, TakenFlight, StandingFlight
<1>3. Account' = Account
  BY <1>1 DEF Account
<1>4. PICK F : F = Flight
  OBVIOUS
<1>5. PICK a : a = Account
  OBVIOUS
<1>6. PICK N \in Nat : N = Len(sent)
  BY DEF TypeInv, ClientTypes
<1>7. F \in Seq(ChunkByte(N)) /\ Carries(F, a) /\ \A i \in 1..Len(F) : ChunkShape(F[i].h) /\ ChunkMeant(F[i].h)
  BY <1>4, <1>5, <1>6 DEF FlightInv
<1>8. n \in 0..Len(F)
  <2>1. Len(F) \in Nat /\ Len(buf) \in Nat
    BY <1>7 DEF TypeInv, ReaderTypes
  <2> QED  BY <2>1, <1>2, <1>4
<1>9. PICK G : G = Drop(F, n)
  OBVIOUS
<1>10. G \in Seq(ChunkByte(N)) /\ Carries(G, a)
  BY <1>7, <1>8, <1>9, CarriesDrop
<1>11. Len(G) = Len(F) - n /\ \A i \in 1..(Len(F) - n) : G[i] = F[i + n]
  BY <1>7, <1>8, <1>9, DropProperties
<1>12. ASSUME NEW i \in 1..Len(G)  PROVE ChunkShape(G[i].h) /\ ChunkMeant(G[i].h)
  <2>1. G[i] = F[i + n] /\ i + n \in 1..Len(F)
    BY <1>7, <1>8, <1>11
  <2> QED  BY <2>1, <1>7
<1>13. \A h : ChunkMeant(h) <=> ChunkMeant(h)'
  BY <1>1 DEF ChunkMeant
<1>14. Flight' = G
  BY <1>2, <1>4, <1>9
<1>15. FlightInv'
  BY <1>1, <1>3, <1>5, <1>6, <1>10, <1>12, <1>13, <1>14 DEF FlightInv
<1>16. Upcoming' = ComingUp(Drop(Flight, n), Account)
  BY <1>3, <1>4, <1>9, <1>14 DEF Upcoming
<1>17. \A d : \A i : Answers(i, d) <=> Answers(i, d)'
  BY <1>1 DEF Answers
<1> QED  BY <1>2, <1>15, <1>16, <1>17

(* The first chunk of a flight.                                              *)
LEMMA FlightChunk ==
  ASSUME TypeInv, FlightInv, Flight # <<>>,
         NEW n \in Nat, NEW left, left = ChunkEnd(Flight[1].h) - Flight[1].at + 1, n <= left
  PROVE  /\ Flight[1].h \in HeadType(Len(sent)) /\ Flight[1].at \in Nat \ {0} /\ left \in 1..Len(Flight)
         /\ ChunkShape(Flight[1].h) /\ ChunkMeant(Flight[1].h)
         /\ \A i \in 1..left : /\ Flight[i].h = Flight[1].h /\ Flight[i].at = Flight[1].at + (i - 1)
                               /\ Flight[i].kind = KindAt(Flight[1].h, Flight[1].at + (i - 1))
         /\ n < left => /\ Drop(Flight, n) # <<>> /\ Drop(Flight, n)[1].h = Flight[1].h
                        /\ Drop(Flight, n)[1].at = Flight[1].at + n
                        /\ ComingUp(Drop(Flight, n), Account) = Flight[1].h.before
         /\ n = left => /\ Drop(Flight, n) # <<>> => Drop(Flight, n)[1].at = 1
                        /\ ComingUp(Drop(Flight, n), Account) = Flight[1].h.after
<1>1. PICK F : F = Flight
  OBVIOUS
<1>2. PICK a : a = Account
  OBVIOUS
<1>3. PICK N \in Nat : N = Len(sent)
  BY DEF TypeInv, ClientTypes
<1>4. F \in Seq(ChunkByte(N)) /\ Carries(F, a) /\ F # <<>> /\ left = ChunkEnd(F[1].h) - F[1].at + 1
  BY <1>1, <1>2, <1>3 DEF FlightInv
<1>5. /\ F[1].h \in HeadType(N) /\ F[1].at \in Nat \ {0}
      /\ left \in 1..Len(F)
      /\ \A i \in 1..left : F[i].h = F[1].h /\ F[i].at = F[1].at + (i - 1)
      /\ n < left => /\ Drop(F, n) # <<>> /\ Drop(F, n)[1].h = F[1].h /\ Drop(F, n)[1].at = F[1].at + n
                     /\ ComingUp(Drop(F, n), a) = F[1].h.before
      /\ n = left => /\ Drop(F, n) # <<>> => Drop(F, n)[1].at = 1
                     /\ ComingUp(Drop(F, n), a) = F[1].h.after
  <2>1. F[1].h \in HeadType(N) /\ F[1].at \in Nat \ {0} /\ Opens(F, a, n, left)
    BY <1>4, FirstChunk
  <2> QED  BY <2>1 DEF Opens
<1>6. Len(F) \in Nat /\ 1 \in 1..Len(F)
  BY <1>4, <1>5
<1>7. ChunkShape(F[1].h) /\ ChunkMeant(F[1].h)
  BY <1>1, <1>6 DEF FlightInv
<1>8. ASSUME NEW i \in 1..left  PROVE F[i].kind = KindAt(F[1].h, F[1].at + (i - 1))
  <2>1. i \in 1..Len(F)
    BY <1>5, <1>6
  <2>2. F[i].kind = KindAt(F[i].h, F[i].at)
    BY <2>1, <1>4, ByteFields
  <2> QED  BY <2>2, <1>5
<1> QED  BY <1>1, <1>2, <1>3, <1>5, <1>7, <1>8

(* A header in part, and a complete one.                                     *)
LEMMA StreamHeader ==
  ASSUME TypeInv, StreamInv, ReadHeader
  PROVE  StreamInv'
<1>1. SUFFICES ASSUME odd' = {}  PROVE StreamInv'
  BY DEF StreamInv
<1>2. state = "header" /\ conn = "open" /\ UNCHANGED clientVars
  BY DEF ReadHeader, Calling
<1>3. odd = {} /\ UNCHANGED <<sent, completed, out, last, outsize, phase>>
  BY <1>1, <1>2 DEF clientVars
<1>4. ~misread /\ DispatchInv /\ HandshakeInv /\ ClientInv /\ FlightInv /\ HeaderInv
  BY <1>2, <1>3 DEF StreamInv, PlaceInv
<1>5. PICK h \in HeadType(Len(sent)), n \in 1..Len(buf) :
        /\ Head(buf).h = h /\ Head(buf).at = hlen + 1 /\ Head(buf).kind = "head"
        /\ hlen + n <= HeaderBytes(h)
        /\ buf' = Drop(buf, n) /\ hlen' = hlen + n
        /\ hlen + n # HeaderBytes(h) => n = Len(buf) /\ UNCHANGED <<chunks, current, misread, conn, state>>
        /\ hlen + n = HeaderBytes(h) => HeaderComplete(h)
        /\ UNCHANGED <<clientVars, wire, hsVars, insize, dispatched, bufVars>>
  BY HeaderCall DEF TypeInv
<1>6. Len(buf) \in Nat /\ n \in 0..Len(buf) /\ n \in Nat \ {0} /\ hlen \in Nat /\ Len(sent) \in Nat
  BY DEF TypeInv, ReaderTypes, ClientTypes
<1>7. wire' = wire /\ insize' = insize /\ dispatched' = dispatched
  BY <1>5
<1>8. DispatchInv'
  <2>1. \A i : \A d : Answers(i, d) <=> Answers(i, d)'
    BY <1>3 DEF Answers
  <2> QED  BY <2>1, <1>4, <1>7 DEF DispatchInv
<1>9. ClientInv'
  <2>1. Account' = Account
    BY <1>3 DEF Account
  <2> QED  BY <2>1, <1>3, <1>4 DEF ClientInv
<1>10. Flight # <<>> /\ Flight[1].h = h /\ Flight[1].at = hlen + 1
  BY <1>2, <1>4, <1>5, StandingFlight DEF ReadHeader, Calling
<1>11. PICK b : b = h.before
  OBVIOUS
<1>12. insize = b.size /\ Len(dispatched) = b.ended /\ Synced(b)
  BY <1>4, <1>10, <1>11 DEF HeaderInv, Upcoming, ComingUp
<1>13. HeaderBytes(h) \in Nat \ {0} /\ HeadEnd(h) \in Nat /\ ChunkEnd(h) \in Nat
       /\ HeadEnd(h) = HeaderBytes(h) /\ ChunkEnd(h) = HeaderBytes(h) + h.body /\ h.body \in Nat
       /\ h.length \in Nat /\ h.from \in Nat /\ ChunkShape(h) /\ ChunkMeant(h)
  <2>1. 1 \in 1..Len(Flight)
    BY <1>4, <1>10, NoElements DEF FlightInv
  <2>2. ChunkShape(h) /\ ChunkMeant(h)
    BY <1>4, <1>10, <2>1 DEF FlightInv
  <2>3. h.time < ExtTime
    BY <2>2 DEF ChunkShape
  <2>4. h.body \in Nat /\ h.length \in Nat /\ h.from \in Nat
    BY <1>6, HeadFields
  <2> QED  BY <1>6, <2>2, <2>3, <2>4, HeaderSizes
<1>14. PICK left : left = ChunkEnd(h) - (hlen + 1) + 1
  OBVIOUS
<1>15. left = ChunkEnd(Flight[1].h) - Flight[1].at + 1 /\ left = HeaderBytes(h) + h.body - hlen /\ n <= left
  <2>1. PICK s \in Nat : s = HeaderBytes(h)
    BY <1>13
  <2>2. PICK d \in Nat : d = h.body
    BY <1>13
  <2>3. ChunkEnd(h) = s + d /\ hlen + n <= s
    BY <1>5, <1>13, <2>1, <2>2
  <2>4. left = s + d - hlen /\ n <= left
    BY <1>6, <1>14, <2>3
  <2> QED  BY <1>10, <1>14, <2>1, <2>2, <2>4
<1>16. /\ n < left => /\ Drop(Flight, n) # <<>> /\ Drop(Flight, n)[1].h = h
                      /\ Drop(Flight, n)[1].at = hlen + 1 + n
                      /\ ComingUp(Drop(Flight, n), Account) = b
       /\ n = left => /\ Drop(Flight, n) # <<>> => Drop(Flight, n)[1].at = 1
                      /\ ComingUp(Drop(Flight, n), Account) = h.after
  BY <1>4, <1>6, <1>10, <1>11, <1>15, FlightChunk
<1>17. CASE hlen + n # HeaderBytes(h)
  <2>1. UNCHANGED <<chunks, current, misread, conn, state>> /\ state' = "header"
    BY <1>2, <1>5, <1>17
  <2>2. HandshakeInv' /\ FlightInv' /\ Flight' = Drop(Flight, n) /\ Upcoming' = ComingUp(Drop(Flight, n), Account)
    BY <1>2, <1>4, <1>5, <1>6, <1>7, <2>1, Taken
  <2>3. n < left /\ hlen + 1 + n = hlen' + 1 /\ hlen' < HeaderBytes(h)
    <3>1. PICK s \in Nat : s = HeaderBytes(h)
      BY <1>13
    <3>2. PICK d \in Nat : d = h.body
      BY <1>13
    <3>3. left = s + d - hlen /\ hlen + n <= s /\ hlen + n # s /\ hlen' = hlen + n
      BY <1>5, <1>15, <1>17, <3>1, <3>2
    <3>4. n < left /\ hlen + 1 + n = hlen' + 1 /\ hlen' < s
      BY <1>6, <3>3
    <3> QED  BY <3>1, <3>4
  <2>4. Upcoming' = b /\ Flight' # <<>> /\ Flight'[1].h = h /\ Flight'[1].at = hlen' + 1
    BY <1>16, <2>2, <2>3
  <2>5. Synced(b)'
    BY <1>12, <2>1, SyncedKept
  <2>6. HeaderInv'
    BY <1>7, <1>12, <2>3, <2>4, <2>5 DEF HeaderInv
  <2> QED  BY <1>4, <1>8, <1>9, <2>1, <2>2, <2>6 DEF StreamInv, PlaceInv
<1>18. CASE hlen + n = HeaderBytes(h)
  <2>1. HeaderComplete(h)
    BY <1>5, <1>18
  <2>8. PICK c : c = chunks'[current']
    OBVIOUS
  <2>9. PICK l : l = h.after.last[h.id]
    OBVIOUS
  <2>2. /\ misread' = FALSE
        /\ current' = DecodedId(h.id) /\ c \in RecordType(Len(sent))
        /\ Chunk(DecodedId(h.id))' = c
        /\ c.length = h.length /\ c.type = h.type /\ c.got = h.from /\ c.msg = h.msg
        /\ c.diff = l.diff /\ c.time = Clock(l)
        /\ Known(h.after)' /\ \A j \in ChunkIds \ {h.id} : Agrees(h.after, j)'
    BY <1>4, <1>11, <1>12, <1>13, <2>1, <2>8, <2>9, HeaderMakes
  <2>3. SUFFICES ASSUME conn' = "open"  PROVE HandshakeInv' /\ FlightInv' /\ PlaceInv'
    BY <1>8, <1>9, <2>2 DEF StreamInv
  <2>4. state' = "body"
    BY <2>1, <2>3 DEF HeaderComplete
  <2>5. HandshakeInv' /\ FlightInv' /\ Flight' = Drop(Flight, n) /\ Upcoming' = ComingUp(Drop(Flight, n), Account)
    BY <1>2, <1>4, <1>5, <1>6, <1>7, <2>4, Taken
  <2>6. CASE h.length = 0
    <3>1. h.from = 0 /\ h.body = 0 /\ Ends(h)
      <4>1. h.from = 0
        BY <2>6, <1>13 DEF ChunkShape
      <4>2. h.body = Least({b.size, h.length - h.from})
        BY <1>11, <1>13 DEF ChunkShape
      <4>3. b.size \in Nat /\ h.length - h.from = 0
        BY <1>12, <2>6, <4>1 DEF TypeInv, ReaderTypes
      <4>4. Least({b.size, 0}) = 0
        BY <4>3, LeastOfTwo
      <4> QED  BY <2>6, <4>1, <4>2, <4>3, <4>4 DEF Ends
    <3>2. n = left
      BY <1>6, <1>13, <1>15, <1>18, <3>1
    <3>3. Upcoming' = h.after /\ (Flight' # <<>> => Flight'[1].at = 1)
      BY <1>16, <2>5, <3>2
    <3>4. PICK a : a = h.after
      OBVIOUS
    <3>5. /\ a.out[h.id] = [msg |-> 0, done |-> 0] /\ a.ended = b.ended + 1
          /\ l.length = h.length /\ l.type = h.type
      BY <1>11, <1>13, <2>9, <3>1, <3>4 DEF ChunkShape
    <3>6. /\ h.msg \in DOMAIN sent /\ h.length = sent[h.msg].length /\ h.type = sent[h.msg].type
          /\ l.time = sent[h.msg].time
          /\ a.size = (IF h.type = "size" THEN sent[h.msg].size ELSE b.size)
          /\ a.ended \in DOMAIN completed
          /\ completed[a.ended] = [msg |-> h.msg, drift |-> l.drift, hit |-> l.hit]
      BY <1>11, <1>13, <2>9, <3>1, <3>4 DEF ChunkMeant
    <3>7. Answers(a.ended, c)
      <4>1. c.time = IF completed[a.ended].hit THEN Garbled ELSE sent[c.msg].time + completed[a.ended].drift
        BY <2>2, <3>6 DEF Clock
      <4> QED  BY <2>2, <3>6, <4>1 DEF Answers
    <3>8. Answers(a.ended, c)'
      BY <1>3, <3>7 DEF Answers
    <3>9. a.ended = Len(dispatched') + 1
      BY <1>7, <1>12, <3>5
    <3>10. Synced(a)'
      <4>1. Agrees(a, h.id)'
        BY <2>2, <2>9, <3>1, <3>4, <3>5, <2>6 DEF Agrees
      <4>2. Known(a)' /\ \A j \in ChunkIds \ {h.id} : Agrees(a, j)'
        BY <2>2, <3>4
      <4> QED  BY <4>1, <4>2 DEF Synced
    <3>11. a.size = (IF c.type = "size" THEN sent'[c.msg].size ELSE insize')
      BY <1>3, <1>7, <1>12, <2>2, <3>6
    <3>12. EmptyInv'
      BY <2>2, <2>8, <3>1, <3>3, <3>4, <3>8, <3>9, <3>10, <3>11 DEF EmptyInv
    <3> QED  BY <2>2, <2>4, <2>5, <2>6, <2>8, <3>12 DEF PlaceInv
  <2>7. CASE h.length # 0
    <3>1. h.body > 0
      <4>1. h.body = Least({b.size, h.length - h.from}) /\ h.from < h.length
        BY <2>7, <1>11, <1>13 DEF ChunkShape
      <4>2. PICK k \in Nat \ {0} : k = h.length - h.from
        BY <1>13, <4>1
      <4>3. b.size \in Nat \ {0}
        BY <1>12 DEF TypeInv, ReaderTypes
      <4>4. Least({b.size, k}) > 0
        BY <4>2, <4>3, LeastOfTwo
      <4> QED  BY <4>1, <4>2, <4>4
    <3>2. n < left
      BY <1>6, <1>13, <1>15, <1>18, <3>1
    <3>3. Flight' # <<>> /\ Flight'[1].h = h /\ Flight'[1].at = HeaderBytes(h) + 1
      <4>1. hlen + 1 + n = HeaderBytes(h) + 1
        BY <1>6, <1>13, <1>18
      <4> QED  BY <1>16, <2>5, <3>2, <4>1
    <3>5. insize' = h.before.size /\ Len(dispatched') = h.before.ended
      BY <1>7, <1>11, <1>12
    <3>6. c.got = h.from + (Flight'[1].at - HeaderBytes(h) - 1) /\ Flight'[1].at > HeaderBytes(h)
      <4>1. PICK s \in Nat : s = HeaderBytes(h)
        BY <1>13
      <4>2. PICK f \in Nat : f = h.from
        BY <1>13
      <4>3. PICK p : p = Flight'[1].at
        OBVIOUS
      <4>4. p = s + 1
        BY <3>3, <4>1, <4>3
      <4>5. f + (p - s - 1) = f /\ p > s
        BY <4>4
      <4> QED  BY <2>2, <4>1, <4>2, <4>3, <4>5
    <3>7. BodyInv'
      <4>1. PICK g : g = h.from + (Flight'[1].at - HeaderBytes(h) - 1)
        OBVIOUS
      <4>2. c.got = g /\ g = h.from + (Flight'[1].at - HeaderBytes(Flight'[1].h) - 1)
        BY <3>3, <3>6, <4>1
      <4> QED  BY <2>2, <2>8, <2>9, <3>3, <3>5, <3>6, <4>2 DEF BodyInv
    <3> QED  BY <2>2, <2>4, <2>5, <2>7, <2>8, <3>7 DEF PlaceInv
  <2> QED  BY <2>6, <2>7
<1> QED  BY <1>17, <1>18

(* How far it is to the end of a chunk with a body: its place in the message *)
(* is a multiple of the chunk size, so that the remainder is what was read   *)
(* of the chunk.                                                             *)
ChunkEndsAt(size, length, from, body, k) ==
  /\ body \in Nat /\ from + body <= length
  /\ body - k \in {size - ((from + k) % size), length - (from + k)}
  /\ body - k <= size - ((from + k) % size) /\ body - k <= length - (from + k)
  /\ from + body # length => (from + body) % size = 0
  /\ \A n \in Nat : k + n < body /\ n > 0 => (from + k + n) % size # 0

(* A chunk that begins at a multiple of the chunk size ends where the        *)
(* remainder of the count in the message is zero again, or with the message, *)
(* and nowhere before.                                                       *)
LEMMA RestOfChunk ==
  ASSUME NEW size \in Nat \ {0}, NEW length \in Nat, NEW from \in Nat, from < length, from % size = 0,
         NEW body, body = Least({size, length - from}), NEW k \in Nat, k < body
  PROVE  ChunkEndsAt(size, length, from, body, k)
<1>1. PICK r \in Nat : r = length - from
  OBVIOUS
<1>2. body = IF size <= r THEN size ELSE r
  BY <1>1, LeastOfTwo
<1>3. body \in Nat /\ body <= r /\ body <= size /\ from + r = length
  BY <1>1, <1>2
<1>8. \A n \in Nat : n % size = 0 => \A j \in 0..size : (n + j) % size = IF j = size THEN 0 ELSE j
  BY Remainders
<1>4. (from + k) % size = k
  <2>1. k \in 0..size /\ k # size
    BY <1>3
  <2>2. (from + k) % size = IF k = size THEN 0 ELSE k
    BY <1>8, <2>1
  <2> QED  BY <2>1, <2>2
<1>5. /\ from + body <= length /\ body - k \in {size - k, length - (from + k)}
      /\ body - k <= size - k /\ body - k <= length - (from + k)
  BY <1>1, <1>2, <1>3
<1>6. ASSUME from + body # length  PROVE (from + body) % size = 0
  <2>1. body = size
    BY <1>2, <1>3, <1>6
  <2>2. size \in 0..size
    OBVIOUS
  <2> QED  BY <2>1, <2>2, Remainders
<1>7. ASSUME NEW n \in Nat, k + n < body, n > 0  PROVE (from + k + n) % size # 0
  <2>1. PICK j \in Nat : j = k + n
    OBVIOUS
  <2>2. j \in 0..size /\ j # size /\ j # 0
    BY <1>3, <1>7, <2>1
  <2>3. (from + j) % size = IF j = size THEN 0 ELSE j
    BY <1>8, <2>2
  <2>4. from + k + n = from + j
    BY <2>1
  <2> QED  BY <2>2, <2>3, <2>4
<1> QED  BY <1>3, <1>4, <1>5, <1>6, <1>7 DEF ChunkEndsAt

(* What the rest of the first chunk is, for a reader in its body.            *)
InBody(h, c, left) ==
  /\ h = Flight[1].h /\ c = chunks[current] /\ left = ChunkEnd(h) - Flight[1].at + 1
  /\ h \in HeadType(Len(sent)) /\ ChunkShape(h) /\ ChunkMeant(h)
  /\ left \in Nat \ {0} /\ BodyTake \in 1..left /\ BodyTake \in 0..Len(buf)
  /\ Flight[1].at \in Nat /\ HeaderBytes(h) \in Nat /\ HeadEnd(h) = HeaderBytes(h)
  /\ c.got \in Nat /\ c.got + left = h.from + h.body
  /\ h.from \in Nat /\ h.body \in Nat /\ h.from + h.body <= h.length /\ h.length \in Nat
  /\ h.from + h.body # h.length => (h.from + h.body) % insize = 0
  /\ \A n \in Nat : n < left /\ n > 0 => (c.got + n) % insize # 0

(* In the body of a chunk the reader counts as many bytes to its end as      *)
(* there are.                                                                *)
LEMMA BodyRest ==
  ASSUME TypeInv, HandshakeInv, FlightInv, BodyInv, Calling("body"), chunks[current].length # 0
  PROVE  \E h, c, left : InBody(h, c, left)
<1>1. Flight # <<>> /\ Flight[1].at > HeaderBytes(Flight[1].h)
  BY DEF BodyInv
<1>2. PICK F : F = Flight
  OBVIOUS
<1>3. PICK N \in Nat : N = Len(sent)
  BY DEF TypeInv, ClientTypes
<1>4. F \in Seq(ChunkByte(N)) /\ 1 \in 1..Len(F)
  BY <1>1, <1>2, <1>3, NoElements DEF FlightInv
<1>5. PICK h \in HeadType(N) : h = Flight[1].h
  BY <1>2, <1>4, ByteFields
<1>6. PICK p \in Nat : p = Flight[1].at
  BY <1>2, <1>4, ByteFields
<1>7. PICK c : c = chunks[current]
  OBVIOUS
<1>8. ChunkShape(h) /\ ChunkMeant(h)
  BY <1>2, <1>4, <1>5 DEF FlightInv
<1>9. h.time < ExtTime
  BY <1>8 DEF ChunkShape
<1>10. PICK s \in Nat : s = HeaderBytes(h) /\ HeadEnd(h) = s /\ ChunkEnd(h) = s + h.body
  BY <1>9, HeaderSizes
<1>11. /\ h.length \in Nat /\ h.from \in Nat /\ h.body \in Nat
  BY HeadFields
<1>12. p > s /\ c.got = h.from + (p - s - 1) /\ c.length = h.length /\ insize = h.before.size
  BY <1>1, <1>5, <1>6, <1>7, <1>10 DEF BodyInv
<1>13. PICK size \in Nat \ {0} : size = insize
  BY DEF TypeInv, ReaderTypes
<1>14. /\ h.from < h.length /\ h.from % size = 0 /\ h.body = Least({size, h.length - h.from})
  <2>1. h.length # 0
    BY <1>7, <1>12
  <2>2. /\ h.from = 0 \/ h.from < h.length
        /\ h.from % h.before.size = 0 /\ h.body = Least({h.before.size, h.length - h.from})
    BY <1>8 DEF ChunkShape
  <2> QED  BY <2>1, <2>2, <1>11, <1>12, <1>13
<1>15. PICK k \in Nat : k = p - s - 1
  BY <1>12
<1>16. PICK left : left = ChunkEnd(h) - p + 1
  OBVIOUS
<1>17. left = h.body - k
  <2>1. PICK d \in Nat : d = h.body
    BY <1>11
  <2> QED  BY <1>10, <1>15, <1>16, <2>1
<1>18. left \in Nat \ {0}
  <2>1. PICK z \in Nat : z = 0
    OBVIOUS
  <2>2. left = ChunkEnd(F[1].h) - F[1].at + 1 /\ Carries(F, Account)
    BY <1>2, <1>5, <1>6, <1>16 DEF FlightInv
  <2>3. PICK a : a = Account
    OBVIOUS
  <2>4. Whole(F, 1, a)
    BY <1>4, <2>2, <2>3 DEF Carries
  <2>5. p \in 1..ChunkEnd(h)
    BY <1>2, <1>5, <1>6, <2>4 DEF Whole
  <2>6. ChunkEnd(h) \in Nat
    BY HeaderSizes
  <2> QED  BY <2>5, <2>6, <1>16
<1>19. k < h.body
  BY <1>11, <1>17, <1>18
<1>20. /\ h.from + h.body <= h.length
       /\ left \in {size - ((h.from + k) % size), h.length - (h.from + k)}
       /\ left <= size - ((h.from + k) % size) /\ left <= h.length - (h.from + k)
       /\ h.from + h.body # h.length => (h.from + h.body) % size = 0
       /\ \A n \in Nat : k + n < h.body /\ n > 0 => (h.from + k + n) % size # 0
  <2>1. PICK f \in Nat : f = h.from
    BY <1>11
  <2>2. PICK d \in Nat : d = h.body
    BY <1>11
  <2>3. PICK e \in Nat : e = h.length
    BY <1>11
  <2>4. f < e /\ f % size = 0 /\ d = Least({size, e - f}) /\ k < d
    BY <1>14, <1>19, <2>1, <2>2, <2>3
  <2>5. ChunkEndsAt(size, e, f, d, k)
    BY <2>4, RestOfChunk
  <2> QED  BY <2>1, <2>2, <2>3, <2>5, <1>17 DEF ChunkEndsAt
<1>21. c.got = h.from + k /\ c.got \in Nat /\ c.got + left = h.from + h.body
  BY <1>11, <1>12, <1>15, <1>17
<1>22. BodyTake \in 1..left /\ BodyTake \in 0..Len(buf)
  <2>1. /\ UntilChunk(c) = size - (c.got % size) /\ UntilDone(c) = c.length - c.got
        /\ BodyTake \in {UntilChunk(c), UntilDone(c), Len(buf)}
        /\ BodyTake \in Nat /\ BodyTake <= UntilChunk(c) /\ BodyTake <= UntilDone(c)
        /\ BodyTake <= Len(buf) /\ Len(buf) \in Nat \ {0}
    BY <1>7, <1>13, BodyTakeBounds DEF TypeInv
  <2>2. UntilChunk(c) = size - ((h.from + k) % size) /\ UntilDone(c) = h.length - (h.from + k)
    BY <2>1, <1>12, <1>21
  <2>3. left \in {UntilChunk(c), UntilDone(c)} /\ left <= UntilChunk(c) /\ left <= UntilDone(c)
    BY <2>2, <1>20
  <2> QED  BY <2>1, <2>3, <1>18
<1>23. \A n \in Nat : n < left /\ n > 0 => (c.got + n) % size # 0
  <2>1. ASSUME NEW n \in Nat, n < left, n > 0  PROVE (c.got + n) % size # 0
    <3>1. k + n < h.body
      BY <2>1, <1>11, <1>17
    <3> QED  BY <3>1, <2>1, <1>20, <1>21
  <2> QED  BY <2>1
<1>24. InBody(h, c, left)
  BY <1>3, <1>5, <1>6, <1>7, <1>8, <1>10, <1>11, <1>13, <1>16, <1>18, <1>20, <1>21, <1>22, <1>23 DEF InBody
<1> QED  BY <1>24

(* In an orderly stream nothing is misread.                                  *)
LEMMA NothingMisread ==
  ASSUME TypeInv, odd = {}, StreamInv, Misread
  PROVE  FALSE
<1>1. conn = "open" /\ buf # <<>> /\ state \in {"header", "body"}
  BY DEF Misread, Calling
<1>2. HandshakeInv /\ FlightInv /\ PlaceInv
  BY <1>1 DEF StreamInv
<1>3. Flight # <<>> /\ Flight[1] = Head(buf) /\ \A i \in 1..Len(buf) : Flight[i] = buf[i]
  BY <1>1, <1>2, StandingFlight
<1>4. CASE Calling("header") /\ ~AtHeader
  <2>1. Flight[1].at = hlen + 1 /\ hlen < HeaderBytes(Flight[1].h)
    BY <1>2, <1>3, <1>4 DEF Calling, PlaceInv, HeaderInv
  <2>2. Flight[1].kind = KindAt(Flight[1].h, Flight[1].at)
        /\ Flight[1].h \in HeadType(Len(sent)) /\ Len(sent) \in Nat
    BY <1>2, <1>3, NoElements, ByteFields DEF FlightInv, TypeInv, ClientTypes
  <2>3. HeaderBytes(Flight[1].h) \in Nat
    BY <2>2, HeaderSizes
  <2>4. hlen + 1 <= HeaderBytes(Flight[1].h)
    BY <2>1, <2>3 DEF TypeInv, ReaderTypes
  <2>5. Flight[1].kind = "head"
    BY <2>1, <2>2, <2>4 DEF KindAt
  <2> QED  BY <1>3, <1>4, <2>1, <2>5 DEF AtHeader
<1>5. CASE Calling("body") /\ ~AtBody
  <2>1. CASE chunks[current].length = 0
    <3>1. chunks[current].got = 0
      BY <1>2, <1>5, <2>1 DEF Calling, PlaceInv, EmptyInv
    <3>2. BodyTake \in Nat /\ BodyTake <= chunks[current].length - chunks[current].got
      BY <1>5, BodyTakeBounds DEF TypeInv
    <3>3. BodyTake = 0
      BY <3>1, <3>2, <2>1
    <3> QED  BY <3>3, <1>5 DEF AtBody
  <2>2. CASE chunks[current].length # 0
    <3>1. BodyInv
      BY <1>2, <1>5, <2>2 DEF Calling, PlaceInv
    <3>2. PICK h, c, left : InBody(h, c, left)
      BY <3>1, <1>2, <1>5, <2>2, BodyRest
    <3>3. PICK i \in 1..BodyTake : ~(buf[i].kind = "body" /\ buf[i].h.msg = chunks[current].msg)
      BY <1>5 DEF AtBody
    <3>4. BodyTake \in 1..left /\ BodyTake \in 0..Len(buf) /\ left \in Nat \ {0} /\ Len(buf) \in Nat
      BY <3>2 DEF InBody, TypeInv, ReaderTypes
    <3>5. i \in 1..left /\ i \in 1..Len(buf)
      BY <3>3, <3>4
    <3>6. PICK n \in Nat : n = 0
      OBVIOUS
    <3>7. left = ChunkEnd(Flight[1].h) - Flight[1].at + 1 /\ n <= left /\ h = Flight[1].h
      BY <3>2, <3>4, <3>6 DEF InBody
    <3>8. Flight[i].h = h /\ Flight[i].kind = KindAt(h, Flight[1].at + (i - 1))
      BY <1>2, <1>3, <3>5, <3>7, FlightChunk
    <3>9. Flight[1].at \in Nat /\ HeaderBytes(h) \in Nat /\ HeadEnd(h) = HeaderBytes(h)
      BY <3>2 DEF InBody
    <3>10. Flight[1].at > HeaderBytes(h) /\ chunks[current].msg = h.msg
      BY <3>1, <3>7 DEF BodyInv
    <3>11. Flight[1].at + (i - 1) > HeaderBytes(h)
      BY <3>4, <3>5, <3>9, <3>10
    <3>12. Flight[i].kind = "body"
      BY <3>8, <3>9, <3>11 DEF KindAt
    <3> QED  BY <1>3, <3>3, <3>5, <3>8, <3>10, <3>12
  <2> QED  BY <2>1, <2>2
<1> QED  BY <1>4, <1>5 DEF Misread

(* One more message is handed over, and it is the right one.                 *)
LEMMA OneMoreDispatched ==
  ASSUME TypeInv, UNCHANGED clientVars, DispatchInv, NEW c, Answers(Len(dispatched) + 1, c), Message(c)
  PROVE  /\ DispatchInv' /\ Len(dispatched') = Len(dispatched) + 1
         /\ insize' = IF c.type = "size" THEN sent[c.msg].size ELSE insize
<1>1. PICK d : d = [msg |-> c.msg, type |-> c.type, length |-> c.length, time |-> c.time]
  OBVIOUS
<1>2. dispatched' = Append(dispatched, d) /\ insize' = IF c.type = "size" THEN sent[c.msg].size ELSE insize
  BY <1>1 DEF Message
<1>3. dispatched \in Seq(DispatchedType(Len(sent)))
  BY DEF TypeInv, ReaderTypes
<1>4. Len(dispatched) \in Nat /\ Len(dispatched') = Len(dispatched) + 1 /\ dispatched'[Len(dispatched) + 1] = d
      /\ \A i \in 1..Len(dispatched) : dispatched'[i] = dispatched[i]
  BY <1>2, <1>3
<1>5. d.msg = c.msg /\ d.type = c.type /\ d.length = c.length /\ d.time = c.time
  BY <1>1
<1>6. Answers(Len(dispatched) + 1, d)
  BY <1>5 DEF Answers
<1>7. ASSUME NEW i \in 1..Len(dispatched')  PROVE Answers(i, dispatched'[i])
  <2>1. CASE i = Len(dispatched) + 1
    BY <2>1, <1>4, <1>6
  <2>2. CASE i # Len(dispatched) + 1
    <3>1. i \in 1..Len(dispatched)
      BY <2>2, <1>4
    <3> QED  BY <3>1, <1>4 DEF DispatchInv
  <2> QED  BY <2>1, <2>2
<1>8. \A i : \A x : Answers(i, x) <=> Answers(i, x)'
  BY DEF clientVars, Answers
<1>9. DispatchInv'
  BY <1>7, <1>8 DEF DispatchInv
<1> QED  BY <1>2, <1>4, <1>9

(* A header has a first byte.                                                *)
LEMMA FirstHeader ==
  ASSUME NEW N \in Nat, NEW F \in Seq(ChunkByte(N)), F # <<>>
  PROVE  0 < HeaderBytes(F[1].h)
<1>1. F[1].h \in HeadType(N)
  BY NoElements, ByteFields
<1>2. HeaderBytes(F[1].h) \in Nat \ {0}
  BY <1>1, HeaderSizes
<1> QED  BY <1>2

(* A step of the reader leaves the books as they are.                        *)
LEMMA SameMeaning ==
  ASSUME UNCHANGED clientVars
  PROVE  /\ UNCHANGED <<phase, sent, completed, out, last, outsize, odd>>
         /\ Account' = Account
         /\ ClientInv => ClientInv'
         /\ DispatchInv /\ dispatched' = dispatched => DispatchInv'
<1>1. UNCHANGED <<phase, sent, completed, out, last, outsize, odd>>
  BY DEF clientVars
<1>2. Account' = Account
  BY <1>1 DEF Account
<1>3. ClientInv => ClientInv'
  BY <1>1, <1>2 DEF ClientInv
<1>4. \A i : \A x : Answers(i, x) <=> Answers(i, x)'
  BY <1>1 DEF Answers
<1>5. DispatchInv /\ dispatched' = dispatched => DispatchInv'
  BY <1>4 DEF DispatchInv
<1> QED  BY <1>1, <1>2, <1>3, <1>5

(* An empty message is handed over, when there is another byte.              *)
LEMMA StreamEmptyBody ==
  ASSUME TypeInv, TypeInv', ReadBody, ~misread, DispatchInv, HandshakeInv, ClientInv, FlightInv, EmptyInv,
         chunks[current].length = 0
  PROVE  StreamInv'
<1>1. PICK c : c = chunks[current]
  OBVIOUS
<1>2. /\ Calling("body") /\ buf' = Drop(buf, BodyTake)
      /\ c.got + BodyTake = c.length => Message(c) /\ NextHeader /\ PutChunk(current, [c EXCEPT !.got = 0])
      /\ UNCHANGED <<clientVars, wire, current, misread>>
  BY <1>1 DEF ReadBody
<1>3. c.length = 0 /\ c.got = 0 /\ c \in RecordType(Len(sent)) /\ current \in DOMAIN chunks
      /\ BodyTake \in Nat /\ BodyTake <= c.length - c.got /\ Len(buf) \in Nat
  BY <1>1, <1>2, BodyTakeBounds DEF EmptyInv, TypeInv
<1>4. PICK n \in 0..Len(buf) : n = 0 /\ BodyTake = n
  BY <1>3
<1>5. Message(c) /\ NextHeader /\ PutChunk(current, [c EXCEPT !.got = 0]) /\ buf' = Drop(buf, n)
  BY <1>2, <1>3, <1>4
<1>6. /\ state' = "header" /\ hlen' = 0
  BY <1>5 DEF NextHeader
<1>7. PICK u : u = Upcoming
  OBVIOUS
<1>8. /\ Answers(Len(dispatched) + 1, c)
      /\ u.size = (IF c.type = "size" THEN sent[c.msg].size ELSE insize)
      /\ u.ended = Len(dispatched) + 1 /\ Synced(u)
      /\ Flight # <<>> => Flight[1].at = 1
  BY <1>1, <1>7 DEF EmptyInv
<1>9. DispatchInv' /\ Len(dispatched') = Len(dispatched) + 1
      /\ insize' = (IF c.type = "size" THEN sent[c.msg].size ELSE insize)
  BY <1>2, <1>5, <1>8, OneMoreDispatched
<1>10. ClientInv' /\ Account' = Account
  BY <1>2, SameMeaning
<1>11. HandshakeInv' /\ FlightInv' /\ Flight' = Drop(Flight, n) /\ Upcoming' = ComingUp(Drop(Flight, n), Account)
  BY <1>2, <1>5, <1>6, Taken DEF Calling
<1>12. Drop(Flight, n) = Flight
  BY <1>4, DropEnds DEF FlightInv
<1>13. Flight' = Flight /\ Upcoming' = u
  BY <1>7, <1>11, <1>12 DEF Upcoming
<1>14. [c EXCEPT !.got = 0] = c
  BY <1>3 DEF RecordType
<1>15. Synced(u)'
  <2>1. PICK x : x = current
    OBVIOUS
  <2>2. PutChunk(x, c) /\ x \in DOMAIN chunks /\ chunks[x] = c
    BY <1>1, <1>3, <1>5, <1>14, <2>1
  <2>3. DOMAIN chunks' = DOMAIN chunks /\ \A y \in DOMAIN chunks : chunks'[y] = chunks[y]
    BY <2>2 DEF PutChunk
  <2>4. \A y : Chunk(y)' = Chunk(y)
    BY <2>3 DEF Chunk
  <2>5. ASSUME NEW j \in ChunkIds  PROVE Agrees(u, j)'
    BY <1>8, <2>4 DEF Synced, Agrees
  <2>6. Known(u)'
    BY <1>8, <2>3 DEF Synced, Known
  <2> QED  BY <2>5, <2>6 DEF Synced
<1>16. Flight # <<>> => 0 < HeaderBytes(Flight[1].h)
  <2>1. Len(sent) \in Nat /\ Flight \in Seq(ChunkByte(Len(sent)))
    BY DEF FlightInv, TypeInv, ClientTypes
  <2> QED  BY <2>1, FirstHeader
<1>17. HeaderInv'
  BY <1>6, <1>8, <1>9, <1>13, <1>15, <1>16 DEF HeaderInv
<1> QED  BY <1>2, <1>6, <1>9, <1>10, <1>11, <1>17 DEF StreamInv, PlaceInv

(* Part of a body, the rest of a chunk, and the end of a message.            *)
LEMMA StreamFullBody ==
  ASSUME TypeInv, TypeInv', ReadBody, ~misread, DispatchInv, HandshakeInv, ClientInv, FlightInv, BodyInv,
         chunks[current].length # 0
  PROVE  StreamInv'
<1>1. Calling("body")
  BY DEF ReadBody
<1>2. PICK h, c, left : InBody(h, c, left)
  BY <1>1, BodyRest
<1>3. PICK x : x = current
  OBVIOUS
<1>4. PICK n \in Nat : n = BodyTake
  BY <1>2 DEF InBody
<1>5. PICK g : g = c.got + n
  OBVIOUS
<1>6. /\ buf' = Drop(buf, n)
      /\ UNCHANGED <<clientVars, wire, current, misread>>
      /\ g = c.length => Message(c) /\ NextHeader /\ PutChunk(x, [c EXCEPT !.got = 0])
      /\ g # c.length => /\ PutChunk(x, [c EXCEPT !.got = g])
                         /\ IF (g % insize) = 0 THEN NextHeader ELSE UNCHANGED <<state, hlen>>
                         /\ UNCHANGED <<dispatched, insize, conn>>
  BY <1>2, <1>3, <1>4, <1>5 DEF ReadBody, InBody
<1>7. /\ h = Flight[1].h /\ c = chunks[current] /\ left = ChunkEnd(Flight[1].h) - Flight[1].at + 1
      /\ h \in HeadType(Len(sent)) /\ ChunkShape(h) /\ ChunkMeant(h)
      /\ left \in Nat \ {0} /\ n \in 1..left /\ n \in 0..Len(buf) /\ n <= left
      /\ Flight[1].at \in Nat /\ HeaderBytes(h) \in Nat
      /\ c.got \in Nat /\ c.got + left = h.from + h.body
      /\ h.from \in Nat /\ h.body \in Nat /\ h.from + h.body <= h.length /\ h.length \in Nat
  BY <1>2, <1>4 DEF InBody
<1>8. (h.from + h.body # h.length => (h.from + h.body) % insize = 0)
      /\ (\A k \in Nat : k < left /\ k > 0 => (c.got + k) % insize # 0)
  BY <1>2 DEF InBody
<1>9. PICK a : a = h.after
  OBVIOUS
<1>10. PICK l : l = a.last[h.id]
  OBVIOUS
<1>11. /\ Flight # <<>> /\ Flight[1].at > HeaderBytes(h)
       /\ x = DecodedId(h.id)
       /\ c.got = h.from + (Flight[1].at - HeaderBytes(h) - 1)
       /\ c.length = h.length /\ c.type = h.type /\ c.msg = h.msg /\ c.diff = l.diff /\ c.time = Clock(l)
       /\ insize = h.before.size /\ Len(dispatched) = h.before.ended
       /\ Known(a) /\ \A j \in ChunkIds \ {h.id} : Agrees(a, j)
  BY <1>3, <1>7, <1>9, <1>10 DEF BodyInv
<1>12. /\ n < left => /\ Drop(Flight, n) # <<>> /\ Drop(Flight, n)[1].h = h
                      /\ Drop(Flight, n)[1].at = Flight[1].at + n
       /\ n = left => /\ Drop(Flight, n) # <<>> => Drop(Flight, n)[1].at = 1
                      /\ ComingUp(Drop(Flight, n), Account) = a
  BY <1>7, <1>9, <1>11, FlightChunk
<1>13. c \in RecordType(Len(sent)) /\ x \in DOMAIN chunks /\ x \in DOMAIN chunks
  BY <1>1, <1>3, <1>7, BodyTakeBounds DEF TypeInv
<1>14. /\ NoAlias(a) /\ Used(a, h.id) /\ l.length = h.length /\ l.type = h.type
       /\ IF Ends(h)
          THEN a.out[h.id] = [msg |-> 0, done |-> 0] /\ a.ended = h.before.ended + 1
          ELSE /\ a.out[h.id] = [msg |-> h.msg, done |-> h.from + h.body]
               /\ a.ended = h.before.ended /\ a.size = h.before.size
  BY <1>7, <1>9, <1>10 DEF ChunkShape, Used
<1>15. h.id \in ChunkIds
  <2>1. Len(sent) \in Nat
    BY DEF TypeInv, ClientTypes
  <2> QED  BY <2>1, <1>7, HeadFields
<1>16. ASSUME NEW d, PutChunk(x, d)
       PROVE  /\ Known(a)' /\ \A j \in ChunkIds \ {h.id} : Agrees(a, j)'
              /\ chunks'[x] = d /\ Chunk(DecodedId(h.id))' = d
  <2>1. PutChunk(DecodedId(h.id), d)
    BY <1>11, <1>16
  <2>2. \A y \in DOMAIN chunks : y = DecodedId(h.id) \/ \E j \in ChunkIds : Used(a, j) /\ y = DecodedId(j)
    BY <1>11 DEF Known
  <2>3. PICK i \in ChunkIds : i = h.id
    BY <1>15
  <2>4. /\ Known(a)' /\ \A j \in ChunkIds \ {i} : Agrees(a, j)'
        /\ chunks'[DecodedId(i)] = d /\ Chunk(DecodedId(i))' = d
    BY <2>1, <2>2, <2>3, <1>11, <1>14, OthersKept
  <2> QED  BY <2>3, <2>4, <1>11
<1>17. ClientInv'
  BY <1>6, SameMeaning
<1>18. Ends(h) <=> h.from + h.body = c.length
  BY <1>11 DEF Ends
<1>19. CASE n = left
  <2>1. g = h.from + h.body
    BY <1>5, <1>7, <1>19
  <2>2. CASE Ends(h)
    <3>1. Message(c) /\ NextHeader /\ PutChunk(x, [c EXCEPT !.got = 0])
      BY <2>1, <2>2, <1>6, <1>18
    <3>2. state' = "header" /\ hlen' = 0
      BY <3>1 DEF NextHeader
    <3>3. PICK d : d = [c EXCEPT !.got = 0]
      OBVIOUS
    <3>4. /\ h.msg \in DOMAIN sent /\ h.length = sent[h.msg].length /\ h.type = sent[h.msg].type
          /\ l.time = sent[h.msg].time
          /\ a.size = (IF h.type = "size" THEN sent[h.msg].size ELSE h.before.size)
          /\ a.ended \in DOMAIN completed
          /\ completed[a.ended] = [msg |-> h.msg, drift |-> l.drift, hit |-> l.hit]
      BY <1>7, <1>9, <1>10, <2>2 DEF ChunkMeant
    <3>5. Answers(a.ended, c)
      <4>1. c.time = IF completed[a.ended].hit THEN Garbled ELSE sent[c.msg].time + completed[a.ended].drift
        BY <1>11, <3>4 DEF Clock
      <4> QED  BY <1>11, <3>4, <4>1 DEF Answers
    <3>6. a.ended = Len(dispatched) + 1
      BY <1>11, <1>14, <2>2
    <3>7. DispatchInv' /\ Len(dispatched') = a.ended
          /\ insize' = (IF c.type = "size" THEN sent[c.msg].size ELSE insize)
      BY <1>6, <3>1, <3>5, <3>6, OneMoreDispatched
    <3>8. HandshakeInv' /\ FlightInv' /\ Flight' = Drop(Flight, n) /\ Upcoming' = ComingUp(Drop(Flight, n), Account)
      BY <1>1, <1>6, <1>7, <3>2, Taken DEF Calling
    <3>9. Synced(a)'
      <4>1. d.got = 0 /\ d.length = c.length /\ d.type = c.type /\ d.diff = c.diff /\ d.time = c.time
        BY <1>13, <3>3 DEF RecordType
      <4>2. /\ Known(a)' /\ \A j \in ChunkIds \ {h.id} : Agrees(a, j)'
            /\ Chunk(DecodedId(h.id))' = d
        BY <1>16, <3>1, <3>3
      <4>3. Agrees(a, h.id)'
        BY <1>10, <1>11, <1>14, <2>2, <4>1, <4>2 DEF Agrees
      <4> QED  BY <4>2, <4>3 DEF Synced
    <3>10. HeaderInv'
      <4>1. Upcoming' = a /\ (Flight' # <<>> => Flight'[1].at = 1)
        BY <1>12, <1>19, <3>8
      <4>2. Flight' # <<>> => 0 < HeaderBytes(Flight'[1].h)
        <5>1. Len(sent') \in Nat /\ Flight' \in Seq(ChunkByte(Len(sent')))
          BY <3>8 DEF FlightInv, TypeInv, ClientTypes
        <5> QED  BY <5>1, FirstHeader
      <4>3. insize' = a.size
        BY <1>11, <3>4, <3>7
      <4> QED  BY <3>2, <3>7, <3>9, <4>1, <4>2, <4>3 DEF HeaderInv
    <3> QED  BY <1>6, <1>17, <3>2, <3>7, <3>8, <3>10 DEF StreamInv, PlaceInv
  <2>3. CASE ~Ends(h)
    <3>1. /\ PutChunk(x, [c EXCEPT !.got = g]) /\ NextHeader
          /\ UNCHANGED <<dispatched, insize, conn>>
      BY <2>1, <2>3, <1>6, <1>8, <1>11, <1>18
    <3>2. state' = "header" /\ hlen' = 0
      BY <3>1 DEF NextHeader
    <3>3. PICK d : d = [c EXCEPT !.got = g]
      OBVIOUS
    <3>4. DispatchInv'
      BY <1>6, <3>1, SameMeaning
    <3>5. HandshakeInv' /\ FlightInv' /\ Flight' = Drop(Flight, n) /\ Upcoming' = ComingUp(Drop(Flight, n), Account)
      BY <1>1, <1>6, <1>7, <3>2, Taken DEF Calling
    <3>6. Synced(a)'
      <4>1. d.got = g /\ d.length = c.length /\ d.type = c.type /\ d.diff = c.diff
            /\ d.time = c.time /\ d.msg = c.msg
        BY <1>13, <3>3 DEF RecordType
      <4>2. /\ Known(a)' /\ \A j \in ChunkIds \ {h.id} : Agrees(a, j)'
            /\ Chunk(DecodedId(h.id))' = d
        BY <1>16, <3>1, <3>3
      <4>3. a.out[h.id].done = g /\ a.out[h.id].msg = d.msg
        BY <1>11, <1>14, <2>1, <2>3, <4>1
      <4>4. Agrees(a, h.id)'
        BY <1>10, <1>11, <1>14, <4>1, <4>2, <4>3 DEF Agrees
      <4> QED  BY <4>2, <4>4 DEF Synced
    <3>7. a.size = insize' /\ Len(dispatched') = a.ended
      BY <1>11, <1>14, <2>3, <3>1
    <3>8. HeaderInv'
      <4>1. Upcoming' = a /\ (Flight' # <<>> => Flight'[1].at = 1)
        BY <1>12, <1>19, <3>5
      <4>2. Flight' # <<>> => 0 < HeaderBytes(Flight'[1].h)
        <5>1. Len(sent') \in Nat /\ Flight' \in Seq(ChunkByte(Len(sent')))
          BY <3>5 DEF FlightInv, TypeInv, ClientTypes
        <5> QED  BY <5>1, FirstHeader
      <4> QED  BY <3>2, <3>6, <3>7, <4>1, <4>2 DEF HeaderInv
    <3> QED  BY <1>6, <1>17, <3>1, <3>2, <3>4, <3>5, <3>8 DEF StreamInv, PlaceInv
  <2> QED  BY <2>2, <2>3
<1>20. CASE n # left
  <2>1. n < left /\ n > 0
    BY <1>7, <1>20
  <2>2. g # c.length /\ g % insize # 0
    <3>1. g < h.from + h.body /\ g \in Nat
      BY <1>5, <1>7, <2>1
    <3>2. g < h.length
      BY <1>7, <3>1
    <3>3. g # c.length
      BY <1>11, <3>1, <3>2
    <3> QED  BY <3>3, <1>5, <1>8, <2>1
  <2>3. PutChunk(x, [c EXCEPT !.got = g]) /\ UNCHANGED <<state, hlen, dispatched, insize, conn>>
    BY <1>6, <2>2
  <2>4. DispatchInv'
    BY <1>6, <2>3, SameMeaning
  <2>5. HandshakeInv' /\ FlightInv' /\ Flight' = Drop(Flight, n)
    BY <1>1, <1>6, <1>7, <2>3, Taken DEF Calling
  <2>6. PICK d : d = [c EXCEPT !.got = g]
    OBVIOUS
  <2>7. d.got = g /\ d.length = c.length /\ d.type = c.type /\ d.diff = c.diff /\ d.time = c.time /\ d.msg = c.msg
    BY <1>13, <2>6 DEF RecordType
  <2>8. Known(a)' /\ (\A j \in ChunkIds \ {h.id} : Agrees(a, j)') /\ chunks'[x] = d /\ x = current'
    BY <1>3, <1>6, <1>16, <2>3, <2>6
  <2>9. Flight' # <<>> /\ Flight'[1].h = h /\ Flight'[1].at = Flight[1].at + n
    BY <1>12, <2>1, <2>5
  <2>10. g = h.from + (Flight'[1].at - HeaderBytes(h) - 1) /\ Flight'[1].at > HeaderBytes(h)
    <3>1. PICK p \in Nat : p = Flight[1].at
      BY <1>7
    <3>2. PICK s \in Nat : s = HeaderBytes(h)
      BY <1>7
    <3>3. PICK f \in Nat : f = h.from
      BY <1>7
    <3>4. PICK q : q = Flight'[1].at
      OBVIOUS
    <3>5. p > s /\ c.got = f + (p - s - 1) /\ q = p + n
      BY <1>11, <2>9, <3>1, <3>2, <3>3, <3>4
    <3>6. g = f + (q - s - 1) /\ q > s
      BY <1>5, <3>5
    <3> QED  BY <3>2, <3>3, <3>4, <3>6
  <2>11. BodyInv'
    <3>1. PICK k : k = h.from + (Flight'[1].at - HeaderBytes(h) - 1)
      OBVIOUS
    <3>2. d.got = k /\ k = h.from + (Flight'[1].at - HeaderBytes(Flight'[1].h) - 1)
      BY <2>7, <2>9, <2>10, <3>1
    <3>3. d.length = h.length /\ d.type = h.type /\ d.msg = h.msg /\ d.diff = l.diff /\ d.time = Clock(l)
      BY <1>11, <2>7
    <3>4. insize' = h.before.size /\ Len(dispatched') = h.before.ended
      BY <1>11, <2>3
    <3> QED  BY <1>9, <1>10, <1>11, <2>8, <2>9, <2>10, <3>2, <3>3, <3>4 DEF BodyInv
  <2>12. chunks'[current'].length # 0
    BY <1>7, <1>11, <2>7, <2>8
  <2>13. state' = "body"
    BY <1>1, <2>3 DEF Calling
  <2> QED  BY <1>6, <1>17, <2>4, <2>5, <2>11, <2>12, <2>13 DEF StreamInv, PlaceInv
<1> QED  BY <1>19, <1>20

(* A call of read_body.                                                      *)
LEMMA StreamBody ==
  ASSUME TypeInv, TypeInv', StreamInv, ReadBody
  PROVE  StreamInv'
<1>1. SUFFICES ASSUME odd' = {}  PROVE StreamInv'
  BY DEF StreamInv
<1>2. conn = "open" /\ state = "body" /\ ~misread /\ UNCHANGED clientVars
  BY DEF ReadBody, Calling
<1>3. odd = {}
  BY <1>1, <1>2 DEF clientVars
<1>4. DispatchInv /\ HandshakeInv /\ ClientInv /\ FlightInv /\ PlaceInv
  BY <1>2, <1>3 DEF StreamInv
<1>5. CASE chunks[current].length = 0
  BY <1>2, <1>4, <1>5, StreamEmptyBody DEF PlaceInv
<1>6. CASE chunks[current].length # 0
  BY <1>2, <1>4, <1>6, StreamFullBody DEF PlaceInv
<1> QED  BY <1>5, <1>6

(* The calls of the handshake.                                               *)
LEMMA StreamHandshake ==
  ASSUME TypeInv, StreamInv, HandshakeS0 \/ HandshakeS1 \/ HandshakeS2
  PROVE  StreamInv'
<1>1. SUFFICES ASSUME odd' = {}  PROVE StreamInv'
  BY DEF StreamInv
<1>2. conn = "open" /\ UNCHANGED <<clientVars, insize, dispatched, chunks, current, misread>>
      /\ state \in {"s0", "s1", "s2"} /\ state' # "body"
  BY DEF HandshakeS0, HandshakeS1, HandshakeS2, Calling, chunkVars
<1>3. UNCHANGED <<sent, completed, out, last, outsize, odd>>
  BY <1>2 DEF clientVars
<1>4. ~misread /\ DispatchInv /\ HandshakeInv /\ ClientInv /\ FlightInv /\ PlaceInv
  BY <1>1, <1>2, <1>3 DEF StreamInv
<1>5. ~misread' /\ DispatchInv'
  BY <1>2, <1>4, SameMeaning
<1>6. SUFFICES ASSUME conn' = "open"  PROVE HandshakeInv' /\ ClientInv' /\ FlightInv' /\ PlaceInv'
  BY <1>5 DEF StreamInv
<1>7. HandshakeInv' /\ Flight' = Flight
  BY <1>4, <1>6, HandshakeFlight
<1>8. hlen' = hlen
  <2>1. hlen = 0
    BY <1>2, <1>4 DEF HandshakeInv
  <2> QED  BY <2>1 DEF HandshakeS0, HandshakeS1, HandshakeS2, chunkVars
<1>9. FlightInv' /\ ClientInv' /\ PlaceInv'
  BY <1>2, <1>3, <1>4, <1>7, <1>8, StandingStep
<1> QED  BY <1>7, <1>9

(* What libuv does: nothing moves in the stream.                             *)
LEMMA StreamConnection ==
  ASSUME TypeInv, BufferInv, StreamInv,
         ReadBegin \/ ReadEnd \/ (\E b \in Buffers : WriteDone(b)) \/ Hangup \/ Remove \/ UNCHANGED vars
  PROVE  StreamInv'
<1>1. SUFFICES ASSUME odd' = {}  PROVE StreamInv'
  BY DEF StreamInv
<1>2. UNCHANGED <<clientVars, state, hsVars, hlen, current, insize, dispatched, misread>>
      /\ (conn' # "open" \/ (conn = "open" /\ chunks' = chunks))
  BY DEF ReadBegin, ReadEnd, WriteDone, Hangup, Remove, vars, chunkVars
<1>3. UNCHANGED <<phase, sent, completed, out, last, outsize, odd>>
  BY <1>2 DEF clientVars
<1>4. ~misread /\ DispatchInv
  BY <1>1, <1>3 DEF StreamInv
<1>5. ~misread' /\ DispatchInv'
  BY <1>2, <1>4, SameMeaning
<1>6. SUFFICES ASSUME conn' = "open"  PROVE HandshakeInv' /\ ClientInv' /\ FlightInv' /\ PlaceInv'
  BY <1>5 DEF StreamInv
<1>7. HandshakeInv /\ ClientInv /\ FlightInv /\ PlaceInv
  BY <1>1, <1>2, <1>3, <1>6 DEF StreamInv
<1>8. Stream' = Stream
  <2>1. CASE ReadBegin
    BY <2>1, StreamRead DEF TypeInv
  <2>2. CASE ~ReadBegin
    <3>1. buf' = buf /\ wire' = wire
      <4>1. CASE ReadEnd
        BY <4>1, <1>2, <1>4, <1>6 DEF ReadEnd
      <4>2. CASE ~ReadEnd
        BY <2>2, <4>2 DEF WriteDone, Hangup, Remove, vars
      <4> QED  BY <4>1, <4>2
    <3> QED  BY <3>1 DEF Stream
  <2> QED  BY <2>1, <2>2
<1>9. hslen' = hslen /\ state' = state /\ hlen' = hlen
  BY <1>2 DEF hsVars
<1>10. HandshakeLeft' = HandshakeLeft
  BY <1>9 DEF HandshakeLeft
<1>11. Flight' = Flight
  BY <1>3, <1>8, <1>10 DEF Flight
<1>12. HandshakeInv'
  BY <1>3, <1>7, <1>8, <1>9, <1>10 DEF HandshakeInv
<1>13. FlightInv' /\ ClientInv' /\ PlaceInv'
  BY <1>2, <1>3, <1>6, <1>7, <1>9, <1>11, StandingStep
<1> QED  BY <1>12, <1>13

(* At the start.                                                             *)
LEMMA StreamInit == Init => StreamInv
<1>1. SUFFICES ASSUME Init  PROVE StreamInv
  OBVIOUS
<1>2. TypeInv
  BY <1>1, TypeInit
<1>3. Flight = <<>>
  BY <1>1 DEF Init, Flight
<1>4. HandshakeInv
  <2>1. Stream = <<>>
    <3>1. buf = <<>> /\ wire = <<>>
      BY <1>1 DEF Init
    <3>2. <<>> \o <<>> = <<>>
      OBVIOUS
    <3> QED  BY <3>1, <3>2 DEF Stream
  <2> QED  BY <2>1, <1>1 DEF Init, HandshakeInv
<1>5. \A id \in ChunkIds : out[id].msg = 0 /\ out[id].done = 0 /\ last[id].fmt = 3
  BY <1>1 DEF Init
<1>6. ClientInv
  BY <1>5, AccountFields DEF ClientInv, NoAlias
<1>7. FlightInv
  <2>1. Len(Flight) = 0 /\ Flight \in Seq(ChunkByte(Len(sent)))
    BY <1>3
  <2>2. 1..0 = {}
    OBVIOUS
  <2> QED  BY <2>1, <2>2 DEF FlightInv, Carries
<1>8. Upcoming = Account
  BY <1>3 DEF Upcoming, ComingUp
<1>9. Synced(Account)
  <2>1. \A id \in ChunkIds : ~Used(Account, id)
    BY <1>5, AccountFields
  <2>2. DOMAIN chunks = {}
    BY <1>1 DEF Init
  <2> QED  BY <2>1, <2>2 DEF Synced, Known, Agrees
<1>10. HeaderInv
  <2>1. hlen = 0 /\ insize = outsize /\ Len(dispatched) = Len(completed)
    BY <1>1 DEF Init
  <2> QED  BY <2>1, <1>3, <1>8, <1>9, AccountFields DEF HeaderInv
<1>11. state # "body" /\ ~misread /\ Len(dispatched) = 0
  BY <1>1 DEF Init
<1>12. DispatchInv
  <2>1. 1..0 = {}
    OBVIOUS
  <2> QED  BY <2>1, <1>11 DEF DispatchInv
<1> QED  BY <1>4, <1>6, <1>7, <1>10, <1>11, <1>12 DEF StreamInv, PlaceInv

(* Each step of the client, the reader and libuv.                            *)
LEMMA StreamStep ==
  ASSUME TypeInv, TypeInv', BufferInv, StreamInv, [Next]_vars
  PROVE  StreamInv'
<1>1. CASE Client
  BY <1>1, StreamClient
<1>2. CASE Call
  <2>1. CASE HandshakeS0 \/ HandshakeS1 \/ HandshakeS2
    BY <2>1, StreamHandshake
  <2>2. CASE ReadHeader
    BY <2>2, StreamHeader
  <2>3. CASE ReadBody
    BY <2>3, StreamBody
  <2>4. CASE Misread
    <3>1. odd # {}
      BY <2>4, NothingMisread
    <3>2. odd' = odd
      BY <2>4 DEF Misread, clientVars
    <3> QED  BY <3>1, <3>2 DEF StreamInv
  <2> QED  BY <1>2, <2>1, <2>2, <2>3, <2>4 DEF Call
<1>3. CASE ReadBegin \/ ReadEnd \/ (\E b \in Buffers : WriteDone(b)) \/ Hangup \/ Remove \/ UNCHANGED vars
  BY <1>3, StreamConnection
<1> QED  BY <1>1, <1>2, <1>3 DEF Next, Over

(* In an orderly stream the reader is always where the client meant it to    *)
(* be.                                                                       *)
THEOREM Streaming == Spec => []StreamInv
<1>1. Init => StreamInv
  BY StreamInit
<1>2. TypeInv /\ TypeInv' /\ BufferInv /\ StreamInv /\ [Next]_vars => StreamInv'
  BY StreamStep
<1> QED  BY <1>1, <1>2, TypesHold, Buffering, PTL DEF Spec

(* MisreadExplained: whatever the sizes, the ids and the cuts are, the       *)
(* reader takes a byte for one it is not only when the client has used an    *)
(* extended timestamp, ABORT, two ids that it cannot tell apart, or a new    *)
(* chunk size in the middle of a message.                                    *)
THEOREM Understood == Spec => []MisreadExplained
<1>1. StreamInv => MisreadExplained
  BY DEF StreamInv, MisreadExplained
<1> QED  BY <1>1, Streaming, PTL

(* InOrderIntact: what video_rtmp_body hands to video_rtmp_message are the   *)
(* client's completed messages, in their order, each with its own type and   *)
(* length, none twice and none left out.                                     *)
THEOREM InOrder == Spec => []InOrderIntact
<1>1. TypeInv /\ StreamInv => InOrderIntact
  <2>1. SUFFICES ASSUME TypeInv, StreamInv, odd = {}
        PROVE  /\ Len(dispatched) <= Len(completed)
               /\ \A i \in DOMAIN dispatched :
                    LET d == dispatched[i] IN
                    /\ d.msg = completed[i].msg
                    /\ d.type = sent[d.msg].type /\ d.length = sent[d.msg].length
    BY DEF InOrderIntact
  <2>2. DispatchInv
    BY <2>1 DEF StreamInv
  <2>3. DOMAIN dispatched = 1..Len(dispatched) /\ DOMAIN completed = 1..Len(completed)
        /\ Len(dispatched) \in Nat /\ Len(completed) \in Nat
    BY <2>1 DEF TypeInv, ClientTypes, ReaderTypes
  <2>4. Len(dispatched) <= Len(completed)
    <3>1. CASE Len(dispatched) = 0
      BY <3>1, <2>3
    <3>2. CASE Len(dispatched) # 0
      <4>1. Len(dispatched) \in 1..Len(dispatched)
        BY <3>2, <2>3
      <4>2. Len(dispatched) \in DOMAIN completed
        BY <4>1, <2>2 DEF DispatchInv, Answers
      <4> QED  BY <4>2, <2>3
    <3> QED  BY <3>1, <3>2
  <2> QED  BY <2>2, <2>3, <2>4 DEF DispatchInv, Answers
<1> QED  BY <1>1, TypesHold, Streaming, PTL

(* TimestampDrift: the time of a message handed over is off by exactly the   *)
(* differences that video_rtmp_header added once more for later chunks of a  *)
(* message, and it is garbage exactly where a sum was the mark of an         *)
(* extended time.                                                            *)
THEOREM Drift == Spec => []TimestampDrift
<1>1. TypeInv /\ StreamInv => TimestampDrift
  <2>1. SUFFICES ASSUME TypeInv, StreamInv, odd = {}, NEW i \in DOMAIN dispatched
        PROVE  dispatched[i].time =
                 IF completed[i].hit THEN Garbled
                 ELSE sent[dispatched[i].msg].time + completed[i].drift
    BY DEF TimestampDrift
  <2>2. i \in 1..Len(dispatched)
    BY <2>1 DEF TypeInv, ReaderTypes
  <2>3. Answers(i, dispatched[i])
    BY <2>1, <2>2 DEF StreamInv, DispatchInv
  <2> QED  BY <2>3 DEF Answers
<1> QED  BY <1>1, TypesHold, Streaming, PTL

(* Prompt: when the reads have caught up with the client, every completed    *)
(* message was handed over, but for an empty one in the last place, which    *)
(* waits for another byte.                                                   *)
THEOREM NothingHeldBack == Spec => []Prompt
<1>1. TypeInv /\ BufferInv /\ StreamInv => Prompt
  <2>1. SUFFICES ASSUME TypeInv, BufferInv, StreamInv, odd = {}, conn = "open", ~Reading, wire = <<>>
        PROVE  LET pending == Len(completed) - Len(dispatched) IN
               \/ pending = 0
               \/ pending = 1 /\ sent[completed[Len(completed)].msg].length = 0
    BY DEF Prompt
  <2>2. HandshakeInv /\ FlightInv /\ PlaceInv
    BY <2>1 DEF StreamInv
  <2>3. Stream = <<>>
    <3>1. buf = <<>>
      BY <2>1 DEF BufferInv, Reading
    <3>2. <<>> \o <<>> = <<>>
      OBVIOUS
    <3> QED  BY <2>1, <3>1, <3>2 DEF Stream
  <2>4. Flight = <<>>
    <3>1. SUFFICES ASSUME phase = "chunks"  PROVE Drop(Stream, HandshakeLeft) = <<>>
      BY DEF Flight
    <3>2. HandshakeLeft \in Nat /\ HandshakeLeft <= 0
      <4>1. HandshakeLeft <= Len(Stream) /\ Len(Stream) = 0
        BY <2>2, <2>3, <3>1 DEF HandshakeInv
      <4> QED  BY <2>1, <4>1, LeftBounds DEF TypeInv
    <3>3. HandshakeLeft = 0
      BY <3>2
    <3>4. <<>> \in Seq(Nat)
      OBVIOUS
    <3> QED  BY <2>3, <3>3, <3>4, DropEnds
  <2>5. Upcoming = Account
    BY <2>4 DEF Upcoming, ComingUp
  <2>6. Len(completed) \in Nat /\ Len(dispatched) \in Nat
    BY <2>1 DEF TypeInv, ClientTypes, ReaderTypes
  <2>7. CASE state # "body"
    <3>1. Len(dispatched) = Len(completed)
      BY <2>2, <2>5, <2>7, AccountFields DEF PlaceInv, HeaderInv
    <3> QED  BY <3>1, <2>6
  <2>8. CASE state = "body"
    <3>1. EmptyInv /\ chunks[current].length = 0
      BY <2>2, <2>4, <2>8 DEF PlaceInv, BodyInv
    <3>2. Len(completed) = Len(dispatched) + 1 /\ Answers(Len(completed), chunks[current])
      BY <3>1, <2>5, AccountFields DEF EmptyInv
    <3>3. sent[completed[Len(completed)].msg].length = 0
      BY <3>1, <3>2 DEF Answers
    <3> QED  BY <3>2, <3>3, <2>6
  <2> QED  BY <2>7, <2>8
<1> QED  BY <1>1, TypesHold, Buffering, Streaming, PTL

=============================================================================
