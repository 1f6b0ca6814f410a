------------------------------ MODULE AmfProofs ------------------------------
(***************************************************************************)
(* Proofs about Amf, for all values of any size and depth: what the        *)
(* decoder gets to the end of, it has read as it was meant; an answer fits *)
(* its buffer; and it is well formed unless it has strict arrays or        *)
(* strings with a zero byte.                                               *)
(***************************************************************************)
EXTENDS Amf, TLAPS, SequenceTheorems, WellFoundedInduction

-----------------------------------------------------------------------------
(* Bytes                                                                     *)

(* The order of the natural numbers, in the form that WFMin can use.         *)
LEMMA NatOrder == IsWellFoundedOn({xy \in Nat \X Nat : xy[1] < xy[2]}, Nat)
  BY NatLessThanWellFounded DEF OpToRel

(* A set of numbers has a least one.                                         *)
LEMMA LeastExists ==
  ASSUME NEW S \in SUBSET Nat, S # {}
  PROVE  \E x \in S : \A y \in S : x <= y
<1>1. PICK x \in S : \A y \in S : ~(<<y, x>> \in {xy \in Nat \X Nat : xy[1] < xy[2]})
  BY NatOrder, WFMin
<1>2. ASSUME NEW y \in S  PROVE x <= y
  <2>1. <<y, x>> \in Nat \X Nat /\ x \in Nat /\ y \in Nat
    OBVIOUS
  <2>2. ~(y < x)
    BY <1>1, <2>1
  <2> QED  BY <2>1, <2>2
<1> QED  BY <1>2

(* What C sees of a string is a part of it, all of it if it has no zero.     *)
LEMMA CStrFacts ==
  ASSUME NEW s \in Seq(Byte)
  PROVE  /\ CStr(s) \in Seq(Byte) /\ Len(CStr(s)) <= Len(s)
         /\ Len(CStr(s)) = Len(s) => CStr(s) = s
         /\ 0 \notin ToSet(s) => CStr(s) = s
<1> DEFINE zeros == {i \in DOMAIN s : s[i] = 0}
<1>1. DOMAIN s = 1..Len(s) /\ Len(s) \in Nat
  OBVIOUS
<1>2. CASE zeros = {}
  BY <1>2 DEF CStr
<1>3. CASE zeros # {}
  <2>1. zeros \in SUBSET Nat /\ zeros \subseteq 1..Len(s)
    BY <1>1
  <2> DEFINE least == CHOOSE i \in zeros : \A j \in zeros : i <= j
  <2>2. least \in zeros
    BY <1>3, <2>1, LeastExists
  <2>3. CStr(s) = SubSeq(s, 1, least - 1)
    BY <1>3 DEF CStr
  <2>4. least \in 1..Len(s)
    BY <2>1, <2>2
  <2>5. 0 \in ToSet(s)
    BY <2>2 DEF ToSet
  <2> HIDE DEF least
  <2>6. CStr(s) \in Seq(Byte) /\ Len(CStr(s)) = least - 1
    BY <2>3, <2>4
  <2> QED  BY <2>4, <2>5, <2>6
<1> QED  BY <1>2, <1>3

LEMMA IsSequence ==
  ASSUME NEW n \in Nat, NEW S, NEW f \in [1..n -> S]
  PROVE  f \in Seq(S) /\ Len(f) = n
  OBVIOUS

LEMMA ConcatFacts ==
  ASSUME NEW S, NEW s \in Seq(S), NEW t \in Seq(S)
  PROVE  /\ s \o t \in Seq(S) /\ Len(s) \in Nat /\ Len(t) \in Nat /\ Len(s \o t) = Len(s) + Len(t)
         /\ \A i \in 1..Len(s) : (s \o t)[i] = s[i]
         /\ \A i \in 1..Len(t) : (s \o t)[Len(s) + i] = t[i]
<1>1. Len(s) \in Nat /\ Len(t) \in Nat
  OBVIOUS
<1>2. /\ s \o t \in Seq(S) /\ Len(s \o t) = Len(s) + Len(t)
      /\ \A i \in 1..(Len(s) + Len(t)) : (s \o t)[i] = IF i <= Len(s) THEN s[i] ELSE t[i - Len(s)]
  BY ConcatProperties
<1>3. ASSUME NEW i \in 1..Len(t)  PROVE (s \o t)[Len(s) + i] = t[i]
  <2>1. Len(s) + i \in 1..(Len(s) + Len(t)) /\ ~(Len(s) + i <= Len(s)) /\ (Len(s) + i) - Len(s) = i
    BY <1>1
  <2> QED  BY <1>2, <2>1
<1>4. ASSUME NEW i \in 1..Len(s)  PROVE (s \o t)[i] = s[i]
  <2>1. i \in 1..(Len(s) + Len(t)) /\ i <= Len(s)
    BY <1>1
  <2> QED  BY <1>2, <2>1
<1> QED  BY <1>1, <1>2, <1>3, <1>4

(* The bytes of a number are bytes.                                          *)
LEMMA BytesFacts ==
  ASSUME NEW n \in Nat, NEW k \in {2, 4}
  PROVE  Bytes(n, k) \in Seq(Byte) /\ Len(Bytes(n, k)) = k
<1>1. ASSUME NEW i \in 1..k  PROVE (n \div Unit(k - i)) % 256 \in Byte
  <2>1. Unit(k - i) \in Nat \ {0}
    BY SMT DEF Unit
  <2>2. n \div Unit(k - i) \in Nat
    BY <2>1, SMT
  <2> QED  BY <2>2, SMT DEF Byte
<1>2. Bytes(n, k) \in [1..k -> Byte]
  BY <1>1 DEF Bytes
<1> QED  BY <1>2, IsSequence

LEMMA BytesAt ==
  ASSUME NEW n, NEW k, NEW i \in 1..k
  PROVE  Bytes(n, k)[i] = (n \div Unit(k - i)) % 256
  BY DEF Bytes

(* Two bytes give their number back, and so do four below 2^24, the highest  *)
(* of which is zero.                                                         *)
LEMMA TwoBytes ==
  ASSUME NEW n \in Nat, n < 65536
  PROVE  Number2(Bytes(n, 2)) = n
<1>1. Bytes(n, 2)[1] = (n \div 256) % 256 /\ Bytes(n, 2)[2] = (n \div 1) % 256
  <2>1. \A i \in 1..2 : Bytes(n, 2)[i] = (n \div Unit(2 - i)) % 256
    BY BytesAt
  <2>2. Unit(2 - 1) = 256 /\ Unit(2 - 2) = 1
    BY SMT DEF Unit
  <2> QED  BY <2>1, <2>2, SMT
<1>2. n \div 1 = n /\ n \div 256 < 256 /\ n \div 256 \in Nat
  BY SMT
<1>3. (n \div 256) % 256 = n \div 256
  BY <1>2, SMT
<1>4. 256 * (n \div 256) + (n % 256) = n
  BY SMT
<1> QED  BY <1>1, <1>2, <1>3, <1>4, SMT DEF Number2

LEMMA FourBytes ==
  ASSUME NEW n \in Nat, n < 16777216
  PROVE  Number4(Bytes(n, 4)) = n /\ Bytes(n, 4)[1] = 0
<1>1. /\ Bytes(n, 4)[1] = (n \div 16777216) % 256 /\ Bytes(n, 4)[2] = (n \div 65536) % 256
      /\ Bytes(n, 4)[3] = (n \div 256) % 256 /\ Bytes(n, 4)[4] = (n \div 1) % 256
  <2>1. \A i \in 1..4 : Bytes(n, 4)[i] = (n \div Unit(4 - i)) % 256
    BY BytesAt
  <2>2. Unit(4 - 1) = 16777216 /\ Unit(4 - 2) = 65536 /\ Unit(4 - 3) = 256 /\ Unit(4 - 4) = 1
    BY SMT DEF Unit
  <2> QED  BY <2>1, <2>2, SMT
<1>2. n \div 1 = n /\ n \div 65536 < 256 /\ n \div 65536 \in Nat /\ n \div 16777216 = 0
  BY SMT
<1>3. 65536 * ((n \div 65536) % 256) + 256 * ((n \div 256) % 256) + (n % 256) = n
  <2>1. (n \div 65536) % 256 = n \div 65536
    BY <1>2, SMT
  <2>2. n \div 65536 = (n \div 256) \div 256 /\ n \div 256 \in Nat
    BY SMT
  <2>3. n \div 256 = 256 * ((n \div 256) \div 256) + ((n \div 256) % 256)
    BY <2>2, SMT
  <2>4. n = 256 * (n \div 256) + (n % 256)
    BY SMT
  <2> QED  BY <2>1, <2>2, <2>3, <2>4, SMT
<1> QED  BY <1>1, <1>2, <1>3, SMT DEF Number4

(* Bodies are shorter than what has no length within them.                   *)
LEMMA HugeFacts == Huge \in Nat /\ MaxBody \in Nat /\ MaxBody < Huge
  BY BodyAssumption, SMT DEF Huge

LEMMA ByteFacts == Byte \subseteq Nat /\ \A b \in Byte : b < 256
  BY DEF Byte

LEMMA BytesAreNumbers ==
  ASSUME NEW bs \in Seq(Byte), NEW i \in 1..Len(bs)
  PROVE  bs[i] \in Byte /\ bs[i] \in Nat
<1>1. bs[i] \in Byte
  OBVIOUS
<1> QED  BY <1>1, ByteFacts

(* Lengths are numbers, read as they are meant or as beyond every body.      *)
LEMMA LimitedFacts ==
  ASSUME NEW bs \in Seq(Byte), Len(bs) = 4
  PROVE  Limited(bs) \in Nat
<1>1. bs[1] \in Nat /\ bs[2] \in Nat /\ bs[3] \in Nat /\ bs[4] \in Nat
  <2>1. \A i \in 1..Len(bs) : bs[i] \in Nat
    BY BytesAreNumbers
  <2> QED  BY <2>1
<1>3. Number4(bs) \in Nat
  BY <1>1, SMT DEF Number4
<1> QED  BY <1>3, HugeFacts DEF Limited

LEMMA LengthFacts ==
  ASSUME NEW bs \in Seq(Byte), Len(bs) \in {2, 4}
  PROVE  Length(bs) \in Nat
<1>1. CASE Len(bs) = 2
  <2>2. bs[1] \in Nat /\ bs[2] \in Nat
    BY <1>1, BytesAreNumbers
  <2>3. Number2(bs) \in Nat
    BY <2>2, SMT DEF Number2
  <2> QED  BY <1>1, <2>3, HugeFacts DEF Length
<1>2. CASE Len(bs) = 4
  BY <1>2, LimitedFacts, HugeFacts DEF Length
<1> QED  BY <1>1, <1>2

LEMMA LengthOfTwo ==
  ASSUME NEW n \in Nat, n < 65536
  PROVE  Length(Bytes(n, 2)) \in {n, Huge}
<1>1. Len(Bytes(n, 2)) = 2
  BY BytesFacts
<1> QED  BY <1>1, TwoBytes DEF Length

LEMMA LengthOfFour ==
  ASSUME NEW n \in Nat, n < 16777216
  PROVE  Length(Bytes(n, 4)) \in {n, Huge}
<1>1. Len(Bytes(n, 4)) = 4
  BY BytesFacts
<1>2. Limited(Bytes(n, 4)) = n
  BY FourBytes, SMT DEF Limited
<1> QED  BY <1>1, <1>2 DEF Length

(* An exchange of the halves, and once more.                                 *)
LEMMA SwapFacts ==
  ASSUME NEW bs \in Seq(Byte)
  PROVE  /\ SwapGeneric(bs) \in Seq(Byte) /\ Len(SwapGeneric(bs)) = Len(bs)
         /\ \A i \in 1..Len(bs) : SwapGeneric(bs)[i] = bs[Len(bs) - i + 1]
         /\ SwapGeneric(bs) = Reverse(bs)
<1>1. DOMAIN bs = 1..Len(bs) /\ Len(bs) \in Nat
  OBVIOUS
<1>2. \A i \in 1..Len(bs) : bs[Len(bs) - i + 1] \in Byte
  OBVIOUS
<1>3. SwapGeneric(bs) = [i \in 1..Len(bs) |-> bs[Len(bs) - i + 1]]
  BY <1>1 DEF SwapGeneric
<1>4. SwapGeneric(bs) \in [1..Len(bs) -> Byte]
  BY <1>2, <1>3
<1> QED  BY <1>1, <1>3, <1>4 DEF Reverse

LEMMA SwapTwice ==
  ASSUME NEW bs \in Seq(Byte)
  PROVE  SwapGeneric(Reverse(bs)) = bs
<1>1. SwapGeneric(bs) = Reverse(bs) /\ Reverse(bs) \in Seq(Byte) /\ Len(Reverse(bs)) = Len(bs)
  BY SwapFacts
<1>2. \A i \in 1..Len(bs) : Reverse(bs)[i] = bs[Len(bs) - i + 1]
  BY SwapFacts
<1>3. SwapGeneric(Reverse(bs)) \in Seq(Byte) /\ Len(SwapGeneric(Reverse(bs))) = Len(bs)
  BY <1>1, SwapFacts
<1>4. ASSUME NEW i \in 1..Len(bs)  PROVE SwapGeneric(Reverse(bs))[i] = bs[i]
  <2>1. SwapGeneric(Reverse(bs))[i] = Reverse(bs)[Len(bs) - i + 1]
    BY <1>1, SwapFacts
  <2>2. Len(bs) - i + 1 \in 1..Len(bs) /\ Len(bs) - (Len(bs) - i + 1) + 1 = i
    OBVIOUS
  <2> QED  BY <1>2, <2>1, <2>2
<1> QED  BY <1>3, <1>4, SeqEqual

(* The size of an array is read as it is meant or as larger than any body.   *)
LEMMA CountFacts ==
  ASSUME NEW bs \in Seq(Byte), Len(bs) = 4
  PROVE  Count(bs) \in Nat
  BY SwapFacts, LimitedFacts DEF Count

LEMMA CountOfFew ==
  ASSUME NEW n \in Nat, n < 256
  PROVE  Count(Bytes(n, 4)) = n \/ Count(Bytes(n, 4)) > MaxBody
<1> DEFINE bs == SwapGeneric(Bytes(n, 4))
<1>1. \A i \in 1..4 : bs[i] = Bytes(n, 4)[5 - i]
  <2>1. Bytes(n, 4) \in Seq(Byte) /\ Len(Bytes(n, 4)) = 4
    BY BytesFacts
  <2>2. \A i \in 1..4 : bs[i] = Bytes(n, 4)[4 - i + 1]
    BY <2>1, SwapFacts
  <2> QED  BY <2>2
<1>2. \A i \in 1..4 : Bytes(n, 4)[i] = (n \div Unit(4 - i)) % 256
  BY BytesAt
<1>3. Unit(4 - 1) = 16777216 /\ Unit(4 - 2) = 65536 /\ Unit(4 - 3) = 256 /\ Unit(4 - 4) = 1
  BY SMT DEF Unit
<1>4. Bytes(n, 4)[1] = 0 /\ Bytes(n, 4)[2] = 0 /\ Bytes(n, 4)[3] = 0 /\ Bytes(n, 4)[4] = n
  BY <1>2, <1>3, SMT
<1>5. bs[1] = n /\ bs[2] = 0 /\ bs[3] = 0 /\ bs[4] = 0
  BY <1>1, <1>4
<1> HIDE DEF bs
<1>6. CASE n >= 16
  <2>1. Limited(bs) = Huge
    BY <1>5, <1>6 DEF Limited
  <2> QED  BY <2>1, HugeFacts DEF Count, bs
<1>7. CASE n < 16
  <2>1. Limited(bs) = 16777216 * n
    BY <1>5, <1>7, SMT DEF Limited, Number4
  <2>2. 16777216 * n = n \/ 16777216 * n > MaxBody
    BY BodyAssumption, SMT
  <2> QED  BY <2>1, <2>2 DEF Count, bs
<1> QED  BY <1>6, <1>7

-----------------------------------------------------------------------------
(* Values                                                                    *)

LEMMA TypeFacts ==
  /\ Type.NUMBER = 0 /\ Type.BOOLEAN = 1 /\ Type.STRING = 2 /\ Type.OBJECT = 3 /\ Type.NULL = 5
  /\ Type.ECMAARRAY = 8 /\ Type.OBJECTEND = 9 /\ Type.STRICTARRAY = 10 /\ Type.LONGSTRING = 12
  BY DEF Type

(* What the type of a value says of its fields.                              *)
LEMMA ShapeFacts ==
  ASSUME NEW V, NEW v \in Shapes(V)
  PROVE  /\ v.type \in {0, 1, 2, 3, 5, 8, 10, 12}
         /\ v.type = 0 => v.dbl \in [1..8 -> Byte] /\ v = Number(v.dbl)
         /\ v.type = 1 => v.bool \in Byte /\ v = Bool(v.bool)
         /\ v.type = 2 => v.str \in Short /\ v = Str(v.str)
         /\ v.type = 3 => v.map \in Seq(Key \X V) /\ v = Object(v.map)
         /\ v.type = 5 => v = Null
         /\ v.type = 8 => v.map \in Seq(Key \X V) /\ Len(v.map) < 256 /\ v = Ecma(v.map)
         /\ v.type = 10 => v.list \in Seq(V) /\ Len(v.list) < 256 /\ v = Strict(v.list)
         /\ v.type = 12 => v.str \in Seq(Byte) /\ v = Long(v.str)
<1> USE TypeFacts
<1>1. CASE v \in [type : {Type.NUMBER}, dbl : [1..8 -> Byte]]
  BY <1>1 DEF Number
<1>2. CASE v \in [type : {Type.BOOLEAN}, bool : Byte]
  BY <1>2 DEF Bool
<1>3. CASE v \in [type : {Type.STRING}, str : Short]
  BY <1>3 DEF Str
<1>4. CASE v \in [type : {Type.LONGSTRING}, str : Seq(Byte)]
  BY <1>4 DEF Long
<1>5. CASE v \in [type : {Type.OBJECT}, map : Seq(Key \X V)]
  BY <1>5 DEF Object
<1>6. CASE v \in [type : {Type.ECMAARRAY}, map : {m \in Seq(Key \X V) : Len(m) < 256}]
  BY <1>6 DEF Ecma
<1>7. CASE v \in [type : {Type.STRICTARRAY}, list : {l \in Seq(V) : Len(l) < 256}]
  BY <1>7 DEF Strict
<1>8. CASE v \in [type : {Type.NULL}]
  BY <1>8 DEF Null
<1> QED  BY <1>1, <1>2, <1>3, <1>4, <1>5, <1>6, <1>7, <1>8 DEF Shapes

(* What has the shape of a value of V has it for every larger set.           *)
LEMMA ShapesGrow ==
  ASSUME NEW V, NEW W, V \subseteq W
  PROVE  Shapes(V) \subseteq Shapes(W)
<1>1. Seq(V) \subseteq Seq(W) /\ Seq(Key \X V) \subseteq Seq(Key \X W)
  <2>1. Key \X V \subseteq Key \X W
    OBVIOUS
  <2> QED  BY <2>1, SeqMonotonic
<1> HIDE DEF Key, Short, Byte
<1>2. [type : {Type.OBJECT}, map : Seq(Key \X V)] \subseteq [type : {Type.OBJECT}, map : Seq(Key \X W)]
  BY <1>1
<1>3. [type : {Type.ECMAARRAY}, map : {m \in Seq(Key \X V) : Len(m) < 256}]
        \subseteq [type : {Type.ECMAARRAY}, map : {m \in Seq(Key \X W) : Len(m) < 256}]
  <2>1. {m \in Seq(Key \X V) : Len(m) < 256} \subseteq {m \in Seq(Key \X W) : Len(m) < 256}
    BY <1>1
  <2> QED  BY <2>1
<1>4. [type : {Type.STRICTARRAY}, list : {l \in Seq(V) : Len(l) < 256}]
        \subseteq [type : {Type.STRICTARRAY}, list : {l \in Seq(W) : Len(l) < 256}]
  <2>1. {l \in Seq(V) : Len(l) < 256} \subseteq {l \in Seq(W) : Len(l) < 256}
    BY <1>1
  <2> QED  BY <2>1
<1> QED  BY <1>2, <1>3, <1>4 DEF Shapes

(* The values of the clients and of the answers.                             *)
All == Values \cup {Str(Text(n)) : n \in 0..29} \cup {One, Null, Capabilities, Success, Started}

LEMMA TextFacts ==
  ASSUME NEW n \in 0..29
  PROVE  Text(n) \in Short /\ Text(n) \in Key /\ Str(Text(n)) \in All
<1>1. Text(n) \in [1..n -> Byte] /\ \A i \in 1..n : Text(n)[i] = 97
  BY DEF Text, Byte
<1>2. Text(n) \in Seq(Byte) /\ Len(Text(n)) = n /\ DOMAIN Text(n) = 1..n
  BY <1>1
<1>3. Text(n) \in Short
  BY <1>2, SMT DEF Short
<1>4. 0 \notin ToSet(Text(n))
  BY <1>1, <1>2 DEF ToSet
<1> QED  BY <1>3, <1>4 DEF Key, All

LEMMA AllShapes == All \subseteq Shapes(All)
<1>1. Values \subseteq Shapes(All)
  <2>1. Values \subseteq All
    BY DEF All
  <2> QED  BY <2>1, ShapesGrow, ValuesAssumption
<1>2. ASSUME NEW n \in 0..29  PROVE Str(Text(n)) \in Shapes(All)
  BY TextFacts DEF Shapes, Str
<1>3. One \in Shapes(All)
  <2>1. <<0, 0, 0, 0, 0, 0, 240, 63>> \in [1..8 -> Byte]
    BY DEF Byte
  <2> QED  BY <2>1 DEF One, Number, Shapes
<1>4. Null \in Shapes(All)
  BY DEF Null, Shapes
<1>5. ASSUME NEW m \in Seq(Key \X All)  PROVE Object(m) \in Shapes(All)
  BY DEF Object, Shapes
<1>6. \A n \in 0..29 : Text(n) \in Key /\ Str(Text(n)) \in All
  BY TextFacts
<1>7. One \in All
  BY DEF All
<1>8. Capabilities \in Shapes(All)
  <2>1. << <<Text(6), Str(Text(13))>>, <<Text(12), One>> >> \in Seq(Key \X All)
    BY <1>6, <1>7
  <2> QED  BY <2>1, <1>5 DEF Capabilities
<1>9. Success \in Shapes(All)
  <2>1. << <<Text(5), Str(Text(6))>>, <<Text(4), Str(Text(29))>>,
           <<Text(11), Str(Text(21))>>, <<Text(14), One>> >> \in Seq(Key \X All)
    BY <1>6, <1>7
  <2> QED  BY <2>1, <1>5 DEF Success
<1>10. Started \in Shapes(All)
  <2>1. << <<Text(5), Str(Text(6))>>, <<Text(4), Str(Text(23))>>, <<Text(11), Str(Text(17))>> >>
          \in Seq(Key \X All)
    BY <1>6
  <2> QED  BY <2>1, <1>5 DEF Started
<1> QED  BY <1>1, <1>2, <1>3, <1>4, <1>8, <1>9, <1>10 DEF All

-----------------------------------------------------------------------------
(* The stack of calls                                                        *)

(* What calls are over: values, and the lists of the first call.             *)
Node == All \cup {Strict(l) : l \in Seq(All)}

LEMMA NodeFacts ==
  ASSUME NEW v \in Node
  PROVE  /\ v.type \in {0, 1, 2, 3, 5, 8, 10, 12}
         /\ v.type \in {3, 8} => Keyed(v) /\ v.map \in Seq(Key \X All) /\ Size(v) = Len(v.map)
         /\ v.type = 10 => ~Keyed(v) /\ v.list \in Seq(All) /\ Size(v) = Len(v.list)
         /\ v.type \notin {3, 8, 10} => ~Keyed(v) /\ Size(v) = 0
         /\ Keyed(v) <=> v.type \in {3, 8}
<1>1. CASE v \in All
  BY <1>1, AllShapes, ShapeFacts, TypeFacts DEF Keyed, Size
<1>2. ASSUME NEW l \in Seq(All), v = Strict(l)  PROVE v.type = 10 /\ v.list = l
  BY <1>2, TypeFacts DEF Strict
<1>3. CASE v \notin All
  BY <1>2, <1>3, TypeFacts DEF Keyed, Size, Node
<1> QED  BY <1>1, <1>3

(* The parts of a value are values, and have keys where they must.           *)
LEMMA PartFacts ==
  ASSUME NEW v \in Node
  PROVE  /\ Size(v) \in Nat
         /\ \A i \in 1..Size(v) : Child(v, i) \in All
         /\ Keyed(v) => \A i \in 1..Size(v) : v.map[i][1] \in Key /\ v.map[i] = <<v.map[i][1], Child(v, i)>>
         /\ ~Keyed(v) => \A i \in 1..Size(v) : Child(v, i) = v.list[i]
<1>1. CASE v.type \in {3, 8}
  <2>1. Keyed(v) /\ v.map \in Seq(Key \X All) /\ Size(v) = Len(v.map)
    BY <1>1, NodeFacts
  <2>2. \A i \in 1..Size(v) : v.map[i] \in Key \X All
    BY <2>1
  <2>3. \A i \in 1..Size(v) : Child(v, i) = v.map[i][2]
    BY <2>1 DEF Child
  <2> QED  BY <2>1, <2>2, <2>3
<1>2. CASE v.type = 10
  <2>1. ~Keyed(v) /\ v.list \in Seq(All) /\ Size(v) = Len(v.list)
    BY <1>2, NodeFacts
  <2>2. \A i \in 1..Size(v) : Child(v, i) = v.list[i]
    BY <2>1 DEF Child
  <2> QED  BY <2>1, <2>2
<1>3. CASE v.type \notin {3, 8, 10}
  BY <1>3, NodeFacts
<1> QED  BY <1>1, <1>2, <1>3

(* Every call but the last is at a part, which the next call is for.         *)
Place == [v : Node, at : Nat]
Linked(st) ==
  \A k \in 1..(Len(st) - 1) : st[k].at \in 1..Size(st[k].v) /\ st[k + 1].v = Child(st[k].v, st[k].at)
Stack == {st \in Seq(Place) : Len(st) >= 1 /\ Linked(st) /\ st[Len(st)].at <= Size(st[Len(st)].v)}

LEMMA PlaceFacts ==
  ASSUME NEW p \in Place
  PROVE  p.v \in Node /\ p.at \in Nat /\ p = [v |-> p.v, at |-> p.at]
  BY DEF Place

(* All but the last of a sequence.                                           *)
LEMMA FrontFacts ==
  ASSUME NEW S, NEW s \in Seq(S), Len(s) > 0
  PROVE  /\ Front(s) \in Seq(S) /\ Len(Front(s)) = Len(s) - 1
         /\ \A k \in 1..(Len(s) - 1) : Front(s)[k] = s[k]
<1> DEFINE n == Len(s) - 1
<1>1. n \in Nat /\ \A k \in 1..n : s[k] \in S
  OBVIOUS
<1>2. Front(s) = SubSeq(s, 1, n)
  BY DEF Front
<1> HIDE DEF n
<1>3. /\ SubSeq(s, 1, n) \in Seq(S)
      /\ Len(SubSeq(s, 1, n)) = IF 1 <= n THEN n - 1 + 1 ELSE 0
      /\ \A i \in 1..(n - 1 + 1) : SubSeq(s, 1, n)[i] = s[1 + i - 1]
  BY <1>1, SubSeqProperties
<1>4. Front(s) \in Seq(S) /\ Len(Front(s)) = n /\ \A k \in 1..n : Front(s)[k] = s[k]
  BY <1>1, <1>2, <1>3
<1> QED  BY <1>4 DEF n

LEMMA StackFacts ==
  ASSUME NEW st \in Stack
  PROVE  /\ st \in Seq(Place) /\ Len(st) \in Nat \ {0}
         /\ Last(st) = st[Len(st)] /\ Last(st) \in Place /\ Last(st).v \in Node /\ Last(st).at \in Nat
         /\ Last(st).at <= Size(Last(st).v) /\ Size(Last(st).v) \in Nat
         /\ Inside(st) <=> Last(st).at # Size(Last(st).v)
         /\ \A k \in 1..Len(st) : st[k] \in Place /\ st[k].v \in Node /\ st[k].at \in Nat
<1>1. st \in Seq(Place) /\ Len(st) \in Nat \ {0} /\ Last(st) = st[Len(st)] /\ st[Len(st)].at <= Size(st[Len(st)].v)
  BY DEF Stack, Last
<1>2. \A k \in 1..Len(st) : st[k] \in Place /\ st[k].v \in Node /\ st[k].at \in Nat
  <2>1. \A k \in 1..Len(st) : st[k] \in Place
    BY <1>1
  <2> QED  BY <2>1, PlaceFacts
<1>3. Last(st) \in Place /\ Last(st).v \in Node /\ Last(st).at \in Nat
  BY <1>1, <1>2
<1>4. Size(Last(st).v) \in Nat
  BY <1>3, PartFacts
<1> QED  BY <1>1, <1>2, <1>3, <1>4 DEF Inside

LEMMA StartFacts ==
  ASSUME NEW vs \in Seq(All)
  PROVE  /\ Start(vs) \in Stack /\ Len(Start(vs)) = 1
         /\ Start(vs)[1].v = Strict(vs) /\ Start(vs)[1].at = 0
         /\ Strict(vs) \in Node /\ Strict(vs).type = 10 /\ Strict(vs).list = vs /\ Size(Strict(vs)) = Len(vs)
<1>1. Strict(vs) \in Node /\ Strict(vs).type = 10 /\ Strict(vs).list = vs
  BY TypeFacts DEF Node, Strict
<1>2. Size(Strict(vs)) = Len(vs) /\ Len(vs) \in Nat
  BY <1>1, NodeFacts
<1>3. Start(vs) \in Seq(Place) /\ Len(Start(vs)) = 1 /\ Start(vs)[1] = [v |-> Strict(vs), at |-> 0]
  BY <1>1 DEF Start, Place
<1>4. Start(vs) \in Stack
  <2>1. Linked(Start(vs))
    BY <1>3 DEF Linked
  <2>2. Start(vs)[Len(Start(vs))].at <= Size(Start(vs)[Len(Start(vs))].v)
    BY <1>2, <1>3
  <2>3. Len(Start(vs)) >= 1
    BY <1>3
  <2> QED  BY <1>3, <2>1, <2>2, <2>3 DEF Stack
<1> QED  BY <1>1, <1>2, <1>3, <1>4

(* A call for the next part.                                                 *)
LEMMA EnterFacts ==
  ASSUME NEW st \in Stack, Inside(st)
  PROVE  /\ Step(st) \in Stack /\ Len(Step(st)) = Len(st) + 1
         /\ \A k \in 1..(Len(st) - 1) : Step(st)[k] = st[k]
         /\ Step(st)[Len(st)] = [v |-> Last(st).v, at |-> Last(st).at + 1]
         /\ Step(st)[Len(st) + 1] = [v |-> NextChild(st), at |-> 0]
         /\ NextChild(st) \in All
         /\ Keyed(Last(st).v) => NextKey(st) \in Key
<1> DEFINE i == Last(st).at + 1
           top == [v |-> Last(st).v, at |-> i]
           new == [v |-> NextChild(st), at |-> 0]
<1>1. /\ st \in Seq(Place) /\ Len(st) \in Nat \ {0} /\ Last(st) = st[Len(st)]
      /\ Last(st).v \in Node /\ i \in 1..Size(Last(st).v)
  BY StackFacts DEF Inside
<1>2. NextChild(st) = Child(Last(st).v, i) /\ NextChild(st) \in All
  BY <1>1, PartFacts DEF NextChild
<1>3. Keyed(Last(st).v) => NextKey(st) \in Key
  BY <1>1, PartFacts DEF NextKey
<1>4. top \in Place /\ new \in Place
  BY <1>1, <1>2 DEF Place, Node
<1>5. Step(st) = Front(st) \o <<top, new>>
  BY DEF Step, Enter
<1> HIDE DEF top, new
<1>6. Front(st) \in Seq(Place) /\ Len(Front(st)) = Len(st) - 1 /\ \A k \in 1..(Len(st) - 1) : Front(st)[k] = st[k]
  BY <1>1, FrontFacts
<1>7. <<top, new>> \in Seq(Place) /\ Len(<<top, new>>) = 2 /\ <<top, new>>[1] = top /\ <<top, new>>[2] = new
  BY <1>4
<1>8. /\ Step(st) \in Seq(Place) /\ Len(Step(st)) = Len(st) + 1
      /\ \A k \in 1..(Len(st) + 1) :
           Step(st)[k] = IF k <= Len(st) - 1 THEN Front(st)[k] ELSE <<top, new>>[k - (Len(st) - 1)]
  BY <1>1, <1>5, <1>6, <1>7, ConcatProperties
<1>9. /\ \A k \in 1..(Len(st) - 1) : Step(st)[k] = st[k]
      /\ Step(st)[Len(st)] = top /\ Step(st)[Len(st) + 1] = new
  <2>1. \A k \in 1..(Len(st) - 1) : Step(st)[k] = st[k]
    BY <1>1, <1>6, <1>8
  <2>2. Len(st) - (Len(st) - 1) = 1 /\ (Len(st) + 1) - (Len(st) - 1) = 2
    BY <1>1
  <2>3. Step(st)[Len(st)] = <<top, new>>[1]
    BY <1>1, <1>8, <2>2
  <2>4. Step(st)[Len(st) + 1] = <<top, new>>[2]
    BY <1>1, <1>8, <2>2
  <2> QED  BY <1>7, <2>1, <2>3, <2>4
<1>10. Linked(Step(st))
  <2>1. ASSUME NEW k \in 1..Len(st)
        PROVE  Step(st)[k].at \in 1..Size(Step(st)[k].v) /\ Step(st)[k + 1].v = Child(Step(st)[k].v, Step(st)[k].at)
    <3>1. CASE k = Len(st)
      BY <3>1, <1>1, <1>2, <1>9 DEF top, new
    <3>2. CASE k < Len(st) - 1
      <4>1. k \in 1..(Len(st) - 1) /\ k + 1 \in 1..(Len(st) - 1)
        BY <3>2, <1>1
      <4> QED  BY <4>1, <1>9 DEF Stack, Linked
    <3>3. CASE k = Len(st) - 1
      <4>1. k \in 1..(Len(st) - 1) /\ k + 1 = Len(st)
        BY <3>3, <1>1
      <4>2. Step(st)[k] = st[k] /\ Step(st)[k + 1].v = st[k + 1].v
        BY <4>1, <1>1, <1>9 DEF top
      <4> QED  BY <4>1, <4>2 DEF Stack, Linked
    <3> QED  BY <3>1, <3>2, <3>3, <1>1
  <2> QED  BY <2>1, <1>8 DEF Linked
<1>11. Step(st)[Len(Step(st))].at <= Size(Step(st)[Len(Step(st))].v)
  <2>1. NextChild(st) \in Node
    BY <1>2 DEF Node
  <2>2. Size(NextChild(st)) \in Nat
    BY <2>1, PartFacts
  <2> QED  BY <1>8, <1>9, <2>2 DEF new
<1> QED  BY <1>1, <1>2, <1>3, <1>8, <1>9, <1>10, <1>11 DEF Stack, top, new

LEMMA EnterTop ==
  ASSUME NEW st \in Stack, Inside(st)
  PROVE  /\ Last(Step(st)) = [v |-> NextChild(st), at |-> 0] /\ Last(Step(st)).v = NextChild(st)
         /\ ~Finished(Step(st))
<1>1. /\ Step(st) \in Stack /\ Len(Step(st)) = Len(st) + 1
      /\ Step(st)[Len(st) + 1] = [v |-> NextChild(st), at |-> 0]
  BY EnterFacts
<1>2. Last(Step(st)) = [v |-> NextChild(st), at |-> 0]
  BY <1>1 DEF Last
<1>3. Len(Step(st)) # 1
  <2>1. Len(st) \in Nat \ {0}
    BY StackFacts
  <2>2. ASSUME NEW n \in Nat \ {0}  PROVE n + 1 # 1
    OBVIOUS
  <2> QED  BY <1>1, <2>1, <2>2
<1> QED  BY <1>2, <1>3 DEF Finished

(* The return of a call whose parts are done.                                *)
LEMMA ReturnFacts ==
  ASSUME NEW st \in Stack, ~Inside(st), Len(st) > 1
  PROVE  /\ Step(st) \in Stack /\ Len(Step(st)) = Len(st) - 1
         /\ \A k \in 1..(Len(st) - 1) : Step(st)[k] = st[k]
         /\ Last(st).v = Child(Last(Step(st)).v, Last(Step(st)).at)
         /\ Last(Step(st)).at \in 1..Size(Last(Step(st)).v)
         /\ Last(st).v \in All
<1>1. st \in Seq(Place) /\ Len(st) \in Nat \ {0} /\ Last(st) = st[Len(st)]
  BY StackFacts
<1>2. Step(st) = Front(st)
  BY DEF Step
<1>3. Front(st) \in Seq(Place) /\ Len(Front(st)) = Len(st) - 1 /\ \A k \in 1..(Len(st) - 1) : Front(st)[k] = st[k]
  BY <1>1, FrontFacts
<1>4. Linked(Front(st))
  BY <1>1, <1>3 DEF Linked, Stack
<1>5. /\ st[Len(st) - 1].at \in 1..Size(st[Len(st) - 1].v)
      /\ st[Len(st)].v = Child(st[Len(st) - 1].v, st[Len(st) - 1].at)
  <2>1. Len(st) - 1 \in 1..(Len(st) - 1) /\ (Len(st) - 1) + 1 = Len(st)
    BY <1>1
  <2> QED  BY <2>1 DEF Stack, Linked
<1>6. Last(Front(st)) = st[Len(st) - 1]
  BY <1>1, <1>3 DEF Last
<1>7. st[Len(st) - 1].v \in Node
  BY <1>1, StackFacts
<1>8. Size(st[Len(st) - 1].v) \in Nat
  BY <1>7, PartFacts
<1>9. Front(st) \in Stack
  BY <1>1, <1>3, <1>4, <1>5, <1>6, <1>8 DEF Stack, Last
<1>10. Last(st).v \in All
  BY <1>1, <1>5, <1>7, PartFacts
<1> QED  BY <1>1, <1>2, <1>3, <1>5, <1>6, <1>9, <1>10

-----------------------------------------------------------------------------
(* The format                                                                *)

LEMMA FormatStrFacts ==
  ASSUME NEW s \in Seq(Byte), NEW k \in {2, 4}
  PROVE  FormatStr(s, k) \in Seq(Byte) /\ Len(FormatStr(s, k)) = k + Len(s)
<1>1. Bytes(Len(s), k) \in Seq(Byte) /\ Len(Bytes(Len(s), k)) = k
  <2>1. Len(s) \in Nat
    OBVIOUS
  <2> QED  BY <2>1, BytesFacts
<1> QED  BY <1>1, ConcatProperties DEF FormatStr

(* What follows the type of a value.                                         *)
Tail0(v) ==
  CASE v.type = Type.NUMBER -> Reverse(v.dbl)
    [] v.type = Type.BOOLEAN -> <<v.bool>>
    [] v.type = Type.STRING -> FormatStr(v.str, 2)
    [] v.type = Type.LONGSTRING -> FormatStr(v.str, 4)
    [] v.type \in {Type.ECMAARRAY, Type.STRICTARRAY} -> Bytes(Size(v), 4)
    [] OTHER -> <<>>

LEMMA TailCases ==
  ASSUME NEW v \in All
  PROVE  /\ v.type \in {0, 1, 2, 3, 5, 8, 10, 12}
         /\ v.type = 0 => Tail0(v) = Reverse(v.dbl) /\ v.dbl \in Seq(Byte) /\ Len(v.dbl) = 8
         /\ v.type = 1 => Tail0(v) = <<v.bool>> /\ v.bool \in Byte
         /\ v.type = 2 => Tail0(v) = FormatStr(v.str, 2) /\ v.str \in Seq(Byte) /\ Len(v.str) < 65536
         /\ v.type = 12 => Tail0(v) = FormatStr(v.str, 4) /\ v.str \in Seq(Byte)
         /\ v.type \in {8, 10} => Tail0(v) = Bytes(Size(v), 4) /\ Size(v) \in Nat /\ Size(v) < 256
         /\ v.type \in {3, 5} => Tail0(v) = <<>>
<1>1. v.type \in {0, 1, 2, 3, 5, 8, 10, 12}
  BY AllShapes, ShapeFacts
<1>2. ASSUME v.type = 0  PROVE v.dbl \in Seq(Byte) /\ Len(v.dbl) = 8
  <2>1. v.dbl \in [1..8 -> Byte]
    BY <1>2, AllShapes, ShapeFacts
  <2> QED  BY <2>1, IsSequence
<1>3. ASSUME v.type = 1  PROVE v.bool \in Byte
  BY <1>3, AllShapes, ShapeFacts
<1>4. ASSUME v.type = 2  PROVE v.str \in Seq(Byte) /\ Len(v.str) < 65536
  <2>1. v.str \in Short
    BY <1>4, AllShapes, ShapeFacts
  <2> QED  BY <2>1, SMT DEF Short
<1>5. ASSUME v.type = 12  PROVE v.str \in Seq(Byte)
  BY <1>5, AllShapes, ShapeFacts
<1>6. ASSUME v.type \in {8, 10}  PROVE Size(v) \in Nat /\ Size(v) < 256
  <2>1. v \in Node
    BY DEF Node
  <2>2. Size(v) = (IF v.type = 8 THEN Len(v.map) ELSE Len(v.list)) /\ Size(v) \in Nat
    BY <1>6, <2>1, NodeFacts, PartFacts
  <2>3. (v.type = 8 => Len(v.map) < 256) /\ (v.type = 10 => Len(v.list) < 256)
    BY AllShapes, ShapeFacts
  <2> QED  BY <1>6, <2>2, <2>3
<1>7. /\ v.type = 0 => Tail0(v) = Reverse(v.dbl)
      /\ v.type = 1 => Tail0(v) = <<v.bool>>
      /\ v.type = 2 => Tail0(v) = FormatStr(v.str, 2)
      /\ v.type = 12 => Tail0(v) = FormatStr(v.str, 4)
      /\ v.type \in {8, 10} => Tail0(v) = Bytes(Size(v), 4)
      /\ v.type \in {3, 5} => Tail0(v) = <<>>
  BY TypeFacts DEF Tail0
<1> QED  BY <1>1, <1>2, <1>3, <1>4, <1>5, <1>6, <1>7

LEMMA FormatOfFacts ==
  ASSUME NEW v \in All
  PROVE  /\ FormatOf(v) = <<v.type>> \o Tail0(v)
         /\ FormatOf(v) \in Seq(Byte) /\ Tail0(v) \in Seq(Byte) /\ Len(FormatOf(v)) = 1 + Len(Tail0(v))
         /\ FormatOf(v)[1] = v.type /\ \A i \in 1..Len(Tail0(v)) : FormatOf(v)[i + 1] = Tail0(v)[i]
         /\ EstimateOf(v) \in Nat \ {0} /\ CutOff(v) \in Nat
         /\ Len(FormatOf(v)) = EstimateOf(v) + CutOff(v)
         /\ CutOff(v) = 0 /\ v.type \in {2, 12} => CStr(v.str) = v.str
<1>1. FormatOf(v) = <<v.type>> \o Tail0(v)
  BY DEF FormatOf, Tail0
<1>2. /\ Tail0(v) \in Seq(Byte) /\ 1 + Len(Tail0(v)) = EstimateOf(v) + CutOff(v)
      /\ EstimateOf(v) \in Nat \ {0} /\ CutOff(v) \in Nat
      /\ CutOff(v) = 0 /\ v.type \in {2, 12} => CStr(v.str) = v.str
  <2>0. EstimateOf(v) = 1 + (IF v.type = 0 THEN 8 ELSE IF v.type = 1 THEN 1
                             ELSE IF v.type = 2 THEN 2 + Len(CStr(v.str))
                             ELSE IF v.type = 12 THEN 4 + Len(CStr(v.str))
                             ELSE IF v.type \in {8, 10} THEN 4 ELSE 0)
    BY TypeFacts DEF EstimateOf
  <2>1. CutOff(v) = IF v.type \in {2, 12} THEN Len(v.str) - Len(CStr(v.str)) ELSE 0
    BY TypeFacts DEF CutOff
  <2>2. CASE v.type = 0
    <3>1. Tail0(v) \in Seq(Byte) /\ Len(Tail0(v)) = 8
      <4>1. Tail0(v) = Reverse(v.dbl) /\ v.dbl \in Seq(Byte) /\ Len(v.dbl) = 8
        BY <2>2, TailCases
      <4> QED  BY <4>1, SwapFacts
    <3>2. EstimateOf(v) = 9 /\ CutOff(v) = 0
      BY <2>0, <2>1, <2>2
    <3> QED  BY <2>2, <3>1, <3>2
  <2>3. CASE v.type = 1
    <3>1. Tail0(v) \in Seq(Byte) /\ Len(Tail0(v)) = 1
      <4>1. Tail0(v) = <<v.bool>> /\ v.bool \in Byte
        BY <2>3, TailCases
      <4> QED  BY <4>1
    <3>2. EstimateOf(v) = 2 /\ CutOff(v) = 0
      BY <2>0, <2>1, <2>3
    <3> QED  BY <2>3, <3>1, <3>2
  <2>4. CASE v.type \in {2, 12}
    <3> DEFINE k == IF v.type = 2 THEN 2 ELSE 4
    <3>1. Tail0(v) = FormatStr(v.str, k) /\ v.str \in Seq(Byte) /\ k \in {2, 4}
      BY <2>4, TailCases
    <3> DEFINE a == Len(v.str)
               b == Len(CStr(v.str))
    <3>2. EstimateOf(v) = 1 + (k + b) /\ CutOff(v) = a - b
      BY <2>0, <2>1, <2>4
    <3> HIDE DEF k
    <3>3. Tail0(v) \in Seq(Byte) /\ Len(Tail0(v)) = k + a
      BY <3>1, FormatStrFacts
    <3>4. b \in Nat /\ a \in Nat /\ b <= a /\ (b = a => CStr(v.str) = v.str)
      BY <3>1, CStrFacts
    <3> HIDE DEF a, b
    <3>5. EstimateOf(v) \in Nat \ {0} /\ CutOff(v) \in Nat /\ 1 + Len(Tail0(v)) = EstimateOf(v) + CutOff(v)
      BY <3>1, <3>2, <3>3, <3>4
    <3>6. CutOff(v) = 0 => CStr(v.str) = v.str
      BY <3>2, <3>4
    <3> QED  BY <3>3, <3>5, <3>6
  <2>5. CASE v.type \in {8, 10}
    <3>1. Tail0(v) \in Seq(Byte) /\ Len(Tail0(v)) = 4
      BY <2>5, TailCases, BytesFacts
    <3>2. EstimateOf(v) = 5 /\ CutOff(v) = 0
      BY <2>0, <2>1, <2>5
    <3> QED  BY <2>5, <3>1, <3>2
  <2>6. CASE v.type \in {3, 5}
    <3>1. Tail0(v) \in Seq(Byte) /\ Len(Tail0(v)) = 0
      <4>1. Tail0(v) = <<>>
        BY <2>6, TailCases
      <4> QED  BY <4>1, EmptySeq
    <3>2. EstimateOf(v) = 1 /\ CutOff(v) = 0
      BY <2>0, <2>1, <2>6
    <3> QED  BY <2>6, <3>1, <3>2
  <2> QED  BY <2>2, <2>3, <2>4, <2>5, <2>6, TailCases
<1>3. v.type \in Byte
  BY TailCases DEF Byte
<1>4. <<v.type>> \in Seq(Byte) /\ Len(<<v.type>>) = 1 /\ <<v.type>>[1] = v.type
  BY <1>3
<1>5. /\ FormatOf(v) \in Seq(Byte) /\ Len(FormatOf(v)) = 1 + Len(Tail0(v))
      /\ \A i \in 1..(1 + Len(Tail0(v))) : FormatOf(v)[i] = IF i <= 1 THEN <<v.type>>[i] ELSE Tail0(v)[i - 1]
  BY <1>1, <1>2, <1>4, ConcatProperties
<1>6. Len(Tail0(v)) \in Nat
  BY <1>2
<1>7. FormatOf(v)[1] = v.type /\ \A i \in 1..Len(Tail0(v)) : FormatOf(v)[i + 1] = Tail0(v)[i]
  BY <1>4, <1>5, <1>6
<1> QED  BY <1>1, <1>2, <1>5, <1>7

LEMMA KeyFacts ==
  ASSUME NEW key \in Key
  PROVE  /\ key \in Seq(Byte) /\ Len(key) \in Nat /\ Len(key) < 65536 /\ CStr(key) = key
         /\ EstimateKey(key) = 2 + Len(key)
<1>1. key \in Seq(Byte) /\ Len(key) < 65536 /\ 0 \notin ToSet(key)
  BY SMT DEF Key, Short
<1>2. Len(key) \in Nat
  BY <1>1
<1>3. CStr(key) = key
  BY <1>1, CStrFacts
<1> QED  BY <1>1, <1>2, <1>3 DEF EstimateKey

(* What the format has before the next part.                                 *)
KeyPart(st) == IF Keyed(Last(st).v) THEN FormatStr(NextKey(st), 2) ELSE <<>>

LEMMA KeyPartFacts ==
  ASSUME NEW st \in Stack, Inside(st)
  PROVE  /\ KeyPart(st) \in Seq(Byte) /\ FormatOf(NextChild(st)) \in Seq(Byte)
         /\ FormatStep(st) = KeyPart(st) \o FormatOf(NextChild(st))
         /\ Len(KeyPart(st)) = IF Keyed(Last(st).v) THEN 2 + Len(NextKey(st)) ELSE 0
         /\ EstimateStep(st) = Len(KeyPart(st)) + EstimateOf(NextChild(st))
<1>1. NextChild(st) \in All
  BY EnterFacts
<1>2. FormatStep(st) = KeyPart(st) \o FormatOf(NextChild(st))
  BY DEF FormatStep, KeyPart
<1>3. FormatOf(NextChild(st)) \in Seq(Byte)
  BY <1>1, FormatOfFacts
<1>4. CASE Keyed(Last(st).v)
  <2>1. NextKey(st) \in Key
    BY <1>4, EnterFacts
  <2>2. NextKey(st) \in Seq(Byte) /\ EstimateKey(NextKey(st)) = 2 + Len(NextKey(st))
    BY <2>1, KeyFacts
  <2>3. KeyPart(st) \in Seq(Byte) /\ Len(KeyPart(st)) = 2 + Len(NextKey(st))
    BY <1>4, <2>2, FormatStrFacts DEF KeyPart
  <2>4. EstimateStep(st) = EstimateKey(NextKey(st)) + EstimateOf(NextChild(st))
    BY <1>4 DEF EstimateStep
  <2> QED  BY <1>2, <1>3, <1>4, <2>2, <2>3, <2>4
<1>5. CASE ~Keyed(Last(st).v)
  <2>1. KeyPart(st) \in Seq(Byte) /\ Len(KeyPart(st)) = 0
    <3>1. KeyPart(st) = <<>>
      BY <1>5 DEF KeyPart
    <3> QED  BY <3>1, EmptySeq
  <2>2. EstimateStep(st) = 0 + EstimateOf(NextChild(st))
    BY <1>5 DEF EstimateStep
  <2> QED  BY <1>2, <1>3, <1>5, <2>1, <2>2
<1> QED  BY <1>4, <1>5

LEMMA EndMarkFacts ==
  EndMark \in Seq(Byte) /\ Len(EndMark) = 3 /\ EndMark[1] = 0 /\ EndMark[2] = 0 /\ EndMark[3] = 9
  BY TypeFacts DEF EndMark, Byte

(* The estimate of a step is the length that the format has, but for what    *)
(* zero bytes cut off.                                                       *)
CutStep(st) == IF Inside(st) THEN CutOff(NextChild(st)) ELSE 0

LEMMA StepLengths ==
  ASSUME NEW st \in Stack
  PROVE  /\ FormatStep(st) \in Seq(Byte)
         /\ EstimateStep(st) \in Nat /\ CutStep(st) \in Nat
         /\ Len(FormatStep(st)) = EstimateStep(st) + CutStep(st)
         /\ Inside(st) => EstimateStep(st) > 0
<1>1. CASE Inside(st)
  <2> DEFINE c == NextChild(st)
  <2>1. c \in All
    BY <1>1, EnterFacts
  <2>2. /\ EstimateOf(c) \in Nat \ {0} /\ CutOff(c) \in Nat
        /\ Len(FormatOf(c)) = EstimateOf(c) + CutOff(c) /\ FormatOf(c) \in Seq(Byte)
    BY <2>1, FormatOfFacts
  <2>3. /\ KeyPart(st) \in Seq(Byte) /\ FormatStep(st) = KeyPart(st) \o FormatOf(c)
        /\ EstimateStep(st) = Len(KeyPart(st)) + EstimateOf(c)
    BY <1>1, KeyPartFacts
  <2>4. CutStep(st) = CutOff(c)
    BY <1>1 DEF CutStep
  <2> HIDE DEF c
  <2>5. FormatStep(st) \in Seq(Byte) /\ Len(FormatStep(st)) = Len(KeyPart(st)) + Len(FormatOf(c))
    BY <2>2, <2>3, ConcatProperties
  <2>6. Len(KeyPart(st)) \in Nat
    BY <2>3
  <2> QED  BY <2>2, <2>3, <2>4, <2>5, <2>6
<1>2. CASE ~Inside(st) /\ Last(st).v.type = 3
  <2>1. FormatStep(st) = EndMark /\ EstimateStep(st) = 3 /\ CutStep(st) = 0
    BY <1>2, TypeFacts DEF FormatStep, EstimateStep, CutStep
  <2> QED  BY <1>2, <2>1, EndMarkFacts
<1>3. CASE ~Inside(st) /\ Last(st).v.type # 3
  <2>1. FormatStep(st) = <<>> /\ EstimateStep(st) = 0 /\ CutStep(st) = 0
    BY <1>3, TypeFacts DEF FormatStep, EstimateStep, CutStep
  <2> QED  BY <1>3, <2>1, EmptySeq
<1> QED  BY <1>1, <1>2, <1>3

-----------------------------------------------------------------------------
(* The walks                                                                 *)

LEMMA OneOrMore ==
  ASSUME NEW n \in Nat \ {0}
  PROVE  n = 1 \/ n > 1
  OBVIOUS

LEMMA StepInStack ==
  ASSUME NEW st \in Stack, ~Finished(st)
  PROVE  Step(st) \in Stack /\ Step(st)[1].v = st[1].v
<1>1. Len(st) = 1 \/ Len(st) > 1
  <2>1. Len(st) \in Nat \ {0}
    BY StackFacts
  <2> QED  BY <2>1, OneOrMore
<1>2. CASE Inside(st)
  <2>1. CASE Len(st) = 1
    <3>1. Step(st)[1].v = Last(st).v /\ Last(st) = st[1]
      <4>1. Step(st)[Len(st)] = [v |-> Last(st).v, at |-> Last(st).at + 1]
        BY <1>2, EnterFacts
      <4> QED  BY <2>1, <4>1 DEF Last
    <3> QED  BY <1>2, <3>1, EnterFacts
  <2>2. CASE Len(st) > 1
    <3>1. 1 \in 1..(Len(st) - 1)
      BY <2>2, StackFacts
    <3> QED  BY <1>2, <3>1, EnterFacts
  <2> QED  BY <1>1, <2>1, <2>2
<1>3. CASE ~Inside(st)
  <2>1. Len(st) # 1
    BY <1>3 DEF Finished
  <2>2. Len(st) > 1
    BY <1>1, <2>1
  <2>3. 1 \in 1..(Len(st) - 1)
    BY <2>2, StackFacts
  <2> QED  BY <1>3, <2>2, <2>3, ReturnFacts
<1> QED  BY <1>2, <1>3

(* A walk over the values vs, step by step, and where it is at every step.   *)
Marks == [st : Stack, n : Nat]
Path(t, vs) ==
  /\ t \in Seq(Marks) /\ Len(t) >= 1 /\ t[1] = Mark(Start(vs), 0)
  /\ \A k \in 1..(Len(t) - 1) : t[k + 1].st = Step(t[k].st) /\ ~Finished(t[k].st)
  /\ \A k \in 1..Len(t) : t[k].st[1].v = Strict(vs)

LEMMA PathFacts ==
  ASSUME NEW t, NEW vs, Path(t, vs)
  PROVE  /\ t \in Seq(Marks) /\ Len(t) \in Nat \ {0}
         /\ \A k \in 1..Len(t) : t[k].st \in Stack /\ t[k].n \in Nat /\ t[k].st[1].v = Strict(vs)
         /\ Last(t) = t[Len(t)]
<1>1. t \in Seq(Marks) /\ Len(t) \in Nat \ {0}
  BY DEF Path
<1>2. \A k \in 1..Len(t) : t[k] \in Marks
  BY <1>1
<1>3. \A m \in Marks : m.st \in Stack /\ m.n \in Nat
  BY DEF Marks
<1>4. \A k \in 1..Len(t) : t[k].st[1].v = Strict(vs)
  BY DEF Path
<1> QED  BY <1>1, <1>2, <1>3, <1>4 DEF Last

LEMMA PathBegins ==
  ASSUME NEW vs \in Seq(All)
  PROVE  LET t == <<Mark(Start(vs), 0)>> IN Path(t, vs) /\ Len(t) = 1 /\ t[1].st = Start(vs) /\ t[1].n = 0
<1>1. Mark(Start(vs), 0) \in Marks /\ Mark(Start(vs), 0).st = Start(vs) /\ Mark(Start(vs), 0).n = 0
  BY StartFacts DEF Mark, Marks
<1>2. Start(vs)[1].v = Strict(vs)
  BY StartFacts
<1> HIDE DEF Mark
<1> QED  BY <1>1, <1>2 DEF Path

LEMMA PathGoesOn ==
  ASSUME NEW t, NEW vs, NEW n \in Nat, Path(t, vs), ~Finished(t[Len(t)].st)
  PROVE  LET u == Append(t, Mark(Step(t[Len(t)].st), n)) IN
         /\ Path(u, vs) /\ Len(u) = Len(t) + 1
         /\ \A k \in 1..Len(t) : u[k] = t[k]
         /\ u[Len(t) + 1].st = Step(t[Len(t)].st) /\ u[Len(t) + 1].n = n
<1> DEFINE m == Mark(Step(t[Len(t)].st), n)
           u == Append(t, m)
<1>1. /\ t \in Seq(Marks) /\ Len(t) \in Nat \ {0} /\ t[Len(t)].st \in Stack
      /\ \A k \in 1..Len(t) : t[k].st[1].v = Strict(vs)
  BY PathFacts
<1>2. m \in Marks /\ m.st = Step(t[Len(t)].st) /\ m.n = n /\ m.st[1].v = Strict(vs)
  BY <1>1, StepInStack DEF Mark, Marks
<1> HIDE DEF m
<1>3. u \in Seq(Marks) /\ Len(u) = Len(t) + 1 /\ (\A k \in 1..Len(t) : u[k] = t[k]) /\ u[Len(t) + 1] = m
  BY <1>1, <1>2, AppendProperties
<1> HIDE DEF u
<1>4. Path(u, vs)
  <2>1. u[1] = Mark(Start(vs), 0)
    BY <1>1, <1>3 DEF Path
  <2>2. ASSUME NEW k \in 1..(Len(u) - 1)  PROVE u[k + 1].st = Step(u[k].st) /\ ~Finished(u[k].st)
    <3>1. CASE k = Len(t)
      BY <3>1, <1>1, <1>2, <1>3
    <3>2. CASE k < Len(t)
      <4>1. k \in 1..(Len(t) - 1) /\ k \in 1..Len(t) /\ k + 1 \in 1..Len(t)
        BY <3>2, <1>1, <1>3
      <4> QED  BY <4>1, <1>3 DEF Path
    <3> QED  BY <3>1, <3>2, <1>1, <1>3
  <2>3. ASSUME NEW k \in 1..Len(u)  PROVE u[k].st[1].v = Strict(vs)
    <3>1. k \in 1..Len(t) \/ k = Len(t) + 1
      BY <1>1, <1>3
    <3> QED  BY <3>1, <1>1, <1>2, <1>3
  <2> QED  BY <1>1, <1>3, <2>1, <2>2, <2>3 DEF Path
<1>5. /\ Path(u, vs) /\ Len(u) = Len(t) + 1
      /\ \A k \in 1..Len(t) : u[k] = t[k]
      /\ u[Len(t) + 1].st = Step(t[Len(t)].st) /\ u[Len(t) + 1].n = n
  BY <1>2, <1>3, <1>4
<1> QED  BY <1>5 DEF u, m

(* A walk ends where nothing is left.                                        *)
LEMMA PathEnds ==
  ASSUME NEW t, NEW vs, Path(t, vs), Finished(t[Len(t)].st), NEW k \in 1..Len(t)
  PROVE  /\ k = Len(t) <=> Finished(t[k].st)
         /\ k # Len(t) => k + 1 \in 1..Len(t) /\ t[k + 1].st = Step(t[k].st)
<1>1. Len(t) \in Nat \ {0}
  BY PathFacts
<1>2. CASE k = Len(t)
  BY <1>2
<1>3. CASE k # Len(t)
  <2>1. k \in 1..(Len(t) - 1) /\ k + 1 \in 1..Len(t)
    BY <1>1, <1>3
  <2> QED  BY <1>3, <2>1 DEF Path
<1> QED  BY <1>2, <1>3

(* What the client has composed: the format of its steps.                    *)
Composed(t, b, vs) ==
  /\ Path(t, vs) /\ b \in Seq(Byte) /\ Len(b) = t[Len(t)].n
  /\ \A k \in 1..(Len(t) - 1) :
       LET f == FormatStep(t[k].st) IN
       /\ t[k + 1].n = t[k].n + Len(f) /\ t[k + 1].n <= Len(b)
       /\ \A i \in 1..Len(f) : b[t[k].n + i] = f[i]

(* What the estimate has counted.                                            *)
Counted(t, e, vs) ==
  /\ Path(t, vs) /\ e = t[Len(t)].n
  /\ \A k \in 1..(Len(t) - 1) : t[k + 1].n = t[k].n + EstimateStep(t[k].st) /\ t[k + 1].n <= e

LEMMA ComposedBegins ==
  ASSUME NEW vs \in Seq(All)
  PROVE  Composed(<<Mark(Start(vs), 0)>>, <<>>, vs) /\ Counted(<<Mark(Start(vs), 0)>>, 0, vs)
<1> DEFINE t == <<Mark(Start(vs), 0)>>
<1>1. Path(t, vs) /\ Len(t) = 1 /\ t[1].n = 0
  BY PathBegins
<1> HIDE DEF t
<1>2. Composed(t, <<>>, vs) /\ Counted(t, 0, vs)
  BY <1>1, EmptySeq DEF Composed, Counted
<1> QED  BY <1>2 DEF t

LEMMA ComposedGoesOn ==
  ASSUME NEW t, NEW b, NEW vs, Composed(t, b, vs), ~Finished(t[Len(t)].st)
  PROVE  LET c == b \o FormatStep(t[Len(t)].st) IN
         Composed(Append(t, Mark(Step(t[Len(t)].st), Len(c))), c, vs)
<1> DEFINE st == t[Len(t)].st
           f == FormatStep(st)
           c == b \o f
           u == Append(t, Mark(Step(st), Len(c)))
<1>1. /\ Path(t, vs) /\ b \in Seq(Byte) /\ Len(b) = t[Len(t)].n /\ st \in Stack /\ Len(t) \in Nat \ {0}
      /\ \A k \in 1..Len(t) : t[k].n \in Nat /\ t[k].st \in Stack
  BY PathFacts DEF Composed
<1>2. f \in Seq(Byte)
  BY <1>1, StepLengths
<1> HIDE DEF f
<1>3. /\ c \in Seq(Byte) /\ Len(c) = Len(b) + Len(f) /\ Len(b) \in Nat /\ Len(f) \in Nat
      /\ \A i \in 1..Len(b) : c[i] = b[i]
      /\ \A i \in 1..Len(f) : c[Len(b) + i] = f[i]
  <2>1. b \in Seq(Byte)
    BY <1>1
  <2>2. /\ b \o f \in Seq(Byte) /\ Len(b \o f) = Len(b) + Len(f) /\ Len(b) \in Nat /\ Len(f) \in Nat
        /\ \A i \in 1..Len(b) : (b \o f)[i] = b[i]
        /\ \A i \in 1..Len(f) : (b \o f)[Len(b) + i] = f[i]
    BY <1>2, <2>1, ConcatFacts
  <2> QED  BY <2>2
<1> HIDE DEF c
<1>4. /\ Path(u, vs) /\ Len(u) = Len(t) + 1
      /\ \A k \in 1..Len(t) : u[k] = t[k]
      /\ u[Len(t) + 1].n = Len(c)
  BY <1>1, <1>3, PathGoesOn
<1> HIDE DEF u
<1>5. ASSUME NEW k \in 1..(Len(u) - 1)
      PROVE  /\ u[k + 1].n = u[k].n + Len(FormatStep(u[k].st)) /\ u[k + 1].n <= Len(c)
             /\ \A i \in 1..Len(FormatStep(u[k].st)) : c[u[k].n + i] = FormatStep(u[k].st)[i]
  <2>1. CASE k = Len(t)
    <3>1. u[k] = t[Len(t)] /\ u[k + 1].n = Len(c) /\ u[k].n = Len(b) /\ FormatStep(u[k].st) = f
      BY <2>1, <1>1, <1>4 DEF f
    <3> QED  BY <3>1, <1>3
  <2>2. CASE k < Len(t)
    <3> DEFINE g == FormatStep(t[k].st)
    <3>1. k \in 1..(Len(t) - 1) /\ k \in 1..Len(t) /\ k + 1 \in 1..Len(t)
      BY <2>2, <1>1, <1>4
    <3>2. /\ t[k + 1].n = t[k].n + Len(g) /\ t[k + 1].n <= Len(b)
          /\ \A i \in 1..Len(g) : b[t[k].n + i] = g[i]
      BY <3>1 DEF Composed
    <3>3. u[k] = t[k] /\ u[k + 1] = t[k + 1] /\ t[k].n \in Nat
      BY <3>1, <1>1, <1>4
    <3>4. t[k].st \in Stack
      BY <3>1, <1>1
    <3>5. Len(g) \in Nat
      BY <3>4, StepLengths
    <3> HIDE DEF g
    <3>6. ASSUME NEW i \in 1..Len(g)  PROVE c[t[k].n + i] = b[t[k].n + i]
      <4>1. t[k].n \in Nat /\ Len(g) \in Nat /\ Len(b) \in Nat /\ t[k].n + Len(g) <= Len(b)
        BY <3>2, <3>3, <3>5, <1>3
      <4>2. t[k].n + i \in 1..Len(b)
        BY <4>1
      <4> QED  BY <4>2, <1>3
    <3>7. t[k + 1].n <= Len(c)
      BY <3>2, <3>3, <3>5, <1>3
    <3> QED  BY <3>2, <3>3, <3>6, <3>7 DEF g
  <2> QED  BY <2>1, <2>2, <1>1, <1>4
<1>6. Composed(u, c, vs)
  BY <1>1, <1>3, <1>4, <1>5 DEF Composed
<1> QED  BY <1>6 DEF u, c, f

LEMMA CountedGoesOn ==
  ASSUME NEW t, NEW e, NEW vs, Counted(t, e, vs), ~Finished(t[Len(t)].st)
  PROVE  LET d == e + EstimateStep(t[Len(t)].st) IN
         Counted(Append(t, Mark(Step(t[Len(t)].st), d)), d, vs)
<1> DEFINE st == t[Len(t)].st
           d == e + EstimateStep(st)
           u == Append(t, Mark(Step(st), d))
<1>1. /\ Path(t, vs) /\ e = t[Len(t)].n /\ st \in Stack /\ Len(t) \in Nat \ {0}
      /\ \A k \in 1..Len(t) : t[k].n \in Nat
  BY PathFacts DEF Counted
<1>2. EstimateStep(st) \in Nat /\ e \in Nat /\ d \in Nat /\ e <= d
  <2>1. EstimateStep(st) \in Nat /\ e \in Nat
    BY <1>1, StepLengths
  <2> QED  BY <2>1
<1>3. /\ Path(u, vs) /\ Len(u) = Len(t) + 1
      /\ \A k \in 1..Len(t) : u[k] = t[k]
      /\ u[Len(t) + 1].n = d
  BY <1>1, <1>2, PathGoesOn
<1> HIDE DEF u
<1>4. ASSUME NEW k \in 1..(Len(u) - 1)
      PROVE  u[k + 1].n = u[k].n + EstimateStep(u[k].st) /\ u[k + 1].n <= d
  <2>1. CASE k = Len(t)
    <3>1. u[k] = t[Len(t)] /\ u[k + 1].n = d /\ u[k].n = e
      BY <2>1, <1>1, <1>3
    <3> QED  BY <3>1, <1>2
  <2>2. CASE k < Len(t)
    <3>1. k \in 1..(Len(t) - 1) /\ k \in 1..Len(t) /\ k + 1 \in 1..Len(t)
      BY <2>2, <1>1, <1>3
    <3>2. t[k + 1].n = t[k].n + EstimateStep(t[k].st) /\ t[k + 1].n <= e
      BY <3>1 DEF Counted
    <3>3. u[k] = t[k] /\ u[k + 1] = t[k + 1] /\ t[k + 1].n \in Nat
      BY <3>1, <1>1, <1>3
    <3>4. u[k + 1].n <= d
      BY <3>2, <3>3, <1>2
    <3> QED  BY <3>2, <3>3, <3>4
  <2> QED  BY <2>1, <2>2, <1>1, <1>3
<1> HIDE DEF d
<1>5. Counted(u, d, vs)
  BY <1>1, <1>3, <1>4 DEF Counted
<1> QED  BY <1>5 DEF u, d

-----------------------------------------------------------------------------
(* Encoding                                                                  *)

(* What a cell of a buffer holds: a byte, or what was there before.          *)
Cell == 0..256

LEMMA CellFacts == Byte \subseteq Cell /\ Dirty \in Cell /\ Dirty \notin Byte
  BY DEF Cell, Byte, Dirty

(* From t to u the bytes bs were written within the buffer, and nothing else.*)
Buffer(t) == t.buf \in Seq(Cell) /\ t.at \in Nat
Wrote(t, u, bs) ==
  /\ Buffer(t) /\ Buffer(u) /\ Len(u.buf) = Len(t.buf)
  /\ u.at = t.at + Len(bs) /\ u.at <= Len(t.buf)
  /\ \A i \in 1..Len(t.buf) : i <= t.at \/ i > u.at => u.buf[i] = t.buf[i]
  /\ \A i \in 1..Len(bs) : u.buf[t.at + i] = bs[i]

LEMMA PutWrites ==
  ASSUME NEW t, NEW bs \in Seq(Byte), Buffer(t), t.at + Len(bs) <= Len(t.buf)
  PROVE  Wrote(t, Put(t, bs), bs)
<1> DEFINE n == Len(t.buf)
           k == Len(bs)
           end == t.at + k
           u == Put(t, bs)
<1>1. n \in Nat /\ k \in Nat /\ t.at \in Nat /\ end \in Nat /\ end <= n /\ ~(end > n)
  BY DEF Buffer
<1>2. /\ u.buf = [i \in 1..n |-> IF i \in (t.at + 1)..end THEN bs[i - t.at] ELSE t.buf[i]]
      /\ u.at = end
  BY <1>1 DEF Put
<1>3. \A i \in 1..n : t.buf[i] \in Cell
  BY DEF Buffer
<1>4. \A i \in 1..k : bs[i] \in Cell
  BY CellFacts
<1> HIDE DEF n, k, u
<1>5. ASSUME NEW i \in 1..n
      PROVE  /\ u.buf[i] = IF i \in (t.at + 1)..end THEN bs[i - t.at] ELSE t.buf[i]
             /\ u.buf[i] \in Cell
  <2>1. u.buf[i] = IF i \in (t.at + 1)..end THEN bs[i - t.at] ELSE t.buf[i]
    BY <1>2
  <2>2. CASE i \in (t.at + 1)..end
    <3>1. i - t.at \in 1..k
      BY <2>2, <1>1
    <3> QED  BY <3>1, <2>1, <2>2, <1>4
  <2>3. CASE i \notin (t.at + 1)..end
    BY <2>1, <2>3, <1>3
  <2> QED  BY <2>1, <2>2, <2>3
<1>6. u.buf \in [1..n -> Cell]
  <2>1. u.buf = [i \in 1..n |-> u.buf[i]]
    BY <1>2
  <2> QED  BY <2>1, <1>5
<1>7. u.buf \in Seq(Cell) /\ Len(u.buf) = n
  BY <1>1, <1>6, IsSequence
<1>8. ASSUME NEW i \in 1..n, i <= t.at \/ i > end  PROVE u.buf[i] = t.buf[i]
  <2>1. i \notin (t.at + 1)..end
    BY <1>1, <1>8
  <2> QED  BY <2>1, <1>5
<1>9. ASSUME NEW i \in 1..k  PROVE u.buf[t.at + i] = bs[i]
  <2>1. t.at + i \in 1..n /\ t.at + i \in (t.at + 1)..end /\ (t.at + i) - t.at = i
    BY <1>1
  <2> QED  BY <2>1, <1>5
<1>10. Buffer(t) /\ Buffer(u) /\ Len(u.buf) = Len(t.buf)
  BY <1>1, <1>2, <1>7 DEF Buffer, n
<1>11. u.at = t.at + Len(bs) /\ u.at <= Len(t.buf)
  BY <1>1, <1>2 DEF n, k
<1>12. /\ \A i \in 1..Len(t.buf) : i <= t.at \/ i > u.at => u.buf[i] = t.buf[i]
       /\ \A i \in 1..Len(bs) : u.buf[t.at + i] = bs[i]
  BY <1>2, <1>8, <1>9 DEF n, k
<1>13. Wrote(t, u, bs)
  BY <1>10, <1>11, <1>12 DEF Wrote
<1> QED  BY <1>13 DEF u

LEMMA WroteMore ==
  ASSUME NEW t, NEW u, NEW w, NEW a \in Seq(Byte), NEW b \in Seq(Byte), Wrote(t, u, a), Wrote(u, w, b)
  PROVE  Wrote(t, w, a \o b)
<1> DEFINE n == Len(t.buf)
           j == Len(a)
           k == Len(b)
           c == a \o b
<1>1. /\ c \in Seq(Byte) /\ j \in Nat /\ k \in Nat /\ Len(c) = j + k
      /\ \A i \in 1..j : c[i] = a[i]
      /\ \A i \in 1..k : c[j + i] = b[i]
  BY ConcatFacts
<1>2. /\ Buffer(t) /\ Buffer(u) /\ Buffer(w) /\ Len(u.buf) = n /\ Len(w.buf) = n
      /\ n \in Nat /\ t.at \in Nat /\ u.at = t.at + j /\ w.at = u.at + k /\ w.at <= n
  BY DEF Wrote, Buffer
<1>3. /\ \A i \in 1..n : i <= t.at \/ i > u.at => u.buf[i] = t.buf[i]
      /\ \A i \in 1..j : u.buf[t.at + i] = a[i]
  BY DEF Wrote
<1>4. /\ \A i \in 1..n : i <= u.at \/ i > w.at => w.buf[i] = u.buf[i]
      /\ \A i \in 1..k : w.buf[u.at + i] = b[i]
  BY <1>2 DEF Wrote
<1> HIDE DEF c, n, j, k
<1>5. ASSUME NEW i \in 1..n, i <= t.at \/ i > w.at  PROVE w.buf[i] = t.buf[i]
  <2>1. (i <= u.at \/ i > w.at) /\ (i <= t.at \/ i > u.at)
    BY <1>1, <1>2, <1>5
  <2> QED  BY <2>1, <1>3, <1>4
<1>6. ASSUME NEW i \in 1..(j + k)  PROVE w.buf[t.at + i] = c[i]
  <2>1. CASE i <= j
    <3>1. i \in 1..j /\ t.at + i \in 1..n /\ t.at + i <= u.at
      BY <2>1, <1>1, <1>2
    <3>2. w.buf[t.at + i] = u.buf[t.at + i]
      BY <3>1, <1>4
    <3> QED  BY <3>1, <3>2, <1>1, <1>3
  <2>2. CASE i > j
    <3>1. i - j \in 1..k /\ u.at + (i - j) = t.at + i /\ j + (i - j) = i
      BY <2>2, <1>1, <1>2
    <3>2. w.buf[u.at + (i - j)] = b[i - j] /\ c[j + (i - j)] = b[i - j]
      BY <3>1, <1>1, <1>4
    <3> QED  BY <3>1, <3>2
  <2> QED  BY <2>1, <2>2, <1>1
<1>7. w.at = t.at + Len(c)
  BY <1>1, <1>2
<1> QED  BY <1>1, <1>2, <1>5, <1>6, <1>7 DEF Wrote, n, c

LEMMA WroteNothing ==
  ASSUME NEW t, Buffer(t), t.at <= Len(t.buf)
  PROVE  Wrote(t, t, <<>>)
<1>1. t.at = t.at + 0
  BY DEF Buffer
<1> QED  BY <1>1, EmptySeq DEF Wrote

(* A string, up to its first zero byte, and its length.                      *)
LEMMA PutStrWrites ==
  ASSUME NEW t, NEW s \in Seq(Byte), NEW k \in {2, 4}, Buffer(t), t.at + (k + Len(CStr(s))) <= Len(t.buf)
  PROVE  Wrote(t, PutStr(t, s, k), FormatStr(CStr(s), k))
<1> DEFINE c == CStr(s)
           bs == Bytes(Len(c), k)
           u == Put(t, bs)
<1>1. c \in Seq(Byte)
  BY CStrFacts
<1>2. Len(c) \in Nat
  BY <1>1
<1>3. bs \in Seq(Byte) /\ Len(bs) = k
  BY <1>2, BytesFacts
<1>4. t.at + k <= Len(t.buf) /\ t.at \in Nat /\ Len(t.buf) \in Nat /\ (t.at + k) + Len(c) <= Len(t.buf)
  BY <1>2 DEF Buffer
<1>5. Wrote(t, u, bs)
  BY <1>3, <1>4, PutWrites
<1>6. Buffer(u) /\ u.at + Len(c) <= Len(u.buf)
  BY <1>3, <1>4, <1>5 DEF Wrote
<1>7. Wrote(u, Put(u, c), c)
  BY <1>1, <1>6, PutWrites
<1> HIDE DEF u
<1>8. Wrote(t, Put(u, c), bs \o c)
  BY <1>1, <1>3, <1>5, <1>7, WroteMore
<1> QED  BY <1>8 DEF PutStr, FormatStr, u

(* A value that is no strict array: what is written is as long as estimated, *)
(* and is the format of the value unless something is cut off.               *)
LEMMA PutOfWrites ==
  ASSUME NEW t, NEW v \in All, ~IsStrict(v), Buffer(t), t.at + EstimateOf(v) <= Len(t.buf)
  PROVE  \E bs \in Seq(Byte) :
            /\ Len(bs) = EstimateOf(v) /\ (CutOff(v) = 0 => bs = FormatOf(v))
            /\ Wrote(t, PutOf(t, v), bs)
<1> DEFINE head == <<v.type>>
           u == Put(t, head)
<1>1. /\ FormatOf(v) = head \o Tail0(v) /\ Tail0(v) \in Seq(Byte) /\ Len(FormatOf(v)) = 1 + Len(Tail0(v))
      /\ EstimateOf(v) \in Nat \ {0} /\ CutOff(v) \in Nat
      /\ Len(FormatOf(v)) = EstimateOf(v) + CutOff(v)
      /\ FormatOf(v) \in Seq(Byte)
  BY FormatOfFacts
<1>2. v.type \in {0, 1, 2, 3, 5, 8, 12}
  BY TailCases, TypeFacts DEF IsStrict
<1>3. head \in Seq(Byte) /\ Len(head) = 1
  <2>1. v.type \in Byte
    BY <1>2 DEF Byte
  <2> QED  BY <2>1
<1>4. t.at \in Nat /\ Len(t.buf) \in Nat /\ t.at + 1 <= Len(t.buf)
  BY <1>1 DEF Buffer
<1>5. Wrote(t, u, head)
  BY <1>3, <1>4, PutWrites
<1>6. Buffer(u) /\ u.at = t.at + 1 /\ Len(u.buf) = Len(t.buf)
  BY <1>3, <1>5 DEF Wrote
<1>7. ASSUME NEW bs \in Seq(Byte), 1 + Len(bs) = EstimateOf(v), CutOff(v) = 0 => bs = Tail0(v),
             Wrote(u, PutOf(t, v), bs)
      PROVE  \E b \in Seq(Byte) :
                /\ Len(b) = EstimateOf(v) /\ (CutOff(v) = 0 => b = FormatOf(v))
                /\ Wrote(t, PutOf(t, v), b)
  <2> HIDE DEF u, head
  <2>1. head \o bs \in Seq(Byte) /\ Len(head \o bs) = EstimateOf(v)
    <3>1. head \o bs \in Seq(Byte) /\ Len(head \o bs) = Len(head) + Len(bs)
      BY <1>3, ConcatFacts
    <3> QED  BY <1>3, <1>7, <3>1
  <2>2. Wrote(t, PutOf(t, v), head \o bs)
    BY <1>3, <1>5, <1>7, WroteMore
  <2>3. CutOff(v) = 0 => head \o bs = FormatOf(v)
    BY <1>1, <1>7
  <2> QED  BY <2>1, <2>2, <2>3
<1>8. ASSUME NEW bs \in Seq(Byte), bs = Tail0(v), CutOff(v) = 0, PutOf(t, v) = Put(u, bs)
      PROVE  Wrote(u, PutOf(t, v), bs) /\ 1 + Len(bs) = EstimateOf(v)
  <2>1. 1 + Len(bs) = EstimateOf(v) /\ Len(bs) \in Nat
    BY <1>1, <1>8
  <2>2. u.at + Len(bs) <= Len(u.buf)
    BY <1>1, <1>4, <1>6, <2>1
  <2> HIDE DEF u
  <2>3. Wrote(u, Put(u, bs), bs)
    BY <1>6, <2>2, PutWrites
  <2> QED  BY <1>8, <2>1, <2>3
<1>9. CASE v.type \in {0, 1, 8}
  <2>1. CutOff(v) = 0
    BY <1>9, TypeFacts DEF CutOff
  <2>2. PutOf(t, v) = Put(u, Tail0(v))
    <3>1. CASE v.type = 0
      <4>1. PutOf(t, v) = Put(u, SwapGeneric(v.dbl))
        BY <3>1, TypeFacts DEF PutOf
      <4>2. Tail0(v) = Reverse(v.dbl) /\ v.dbl \in Seq(Byte)
        BY <3>1, TailCases
      <4>3. SwapGeneric(v.dbl) = Reverse(v.dbl)
        BY <4>2, SwapFacts
      <4> QED  BY <4>1, <4>2, <4>3
    <3>2. CASE v.type = 1
      <4>1. PutOf(t, v) = Put(u, <<v.bool>>)
        BY <3>2, TypeFacts DEF PutOf
      <4>2. Tail0(v) = <<v.bool>>
        BY <3>2, TailCases
      <4> QED  BY <4>1, <4>2
    <3>3. CASE v.type = 8
      <4>1. PutOf(t, v) = Put(u, Bytes(Size(v), 4))
        BY <3>3, TypeFacts DEF PutOf
      <4>2. Tail0(v) = Bytes(Size(v), 4)
        BY <3>3, TailCases
      <4> QED  BY <4>1, <4>2
    <3> QED  BY <1>9, <3>1, <3>2, <3>3
  <2>3. Wrote(u, PutOf(t, v), Tail0(v)) /\ 1 + Len(Tail0(v)) = EstimateOf(v)
    BY <1>1, <1>8, <2>1, <2>2
  <2> QED  BY <1>1, <1>7, <2>3
<1>10. CASE v.type \in {2, 12}
  <2> DEFINE k == IF v.type = 2 THEN 2 ELSE 4
             c == CStr(v.str)
             bs == FormatStr(c, k)
  <2>1. k \in {2, 4} /\ v.str \in Seq(Byte) /\ Tail0(v) = FormatStr(v.str, k)
    BY <1>10, TailCases
  <2>2. PutOf(t, v) = PutStr(u, v.str, k)
    BY <1>10, TypeFacts DEF PutOf
  <2>3. EstimateOf(v) = 1 + (k + Len(c))
    BY <1>10, TypeFacts DEF EstimateOf
  <2>4. CutOff(v) = 0 => c = v.str
    BY <1>10, FormatOfFacts
  <2>5. c \in Seq(Byte)
    BY <2>1, CStrFacts
  <2> HIDE DEF k, u, c
  <2>6. bs \in Seq(Byte) /\ Len(bs) = k + Len(c) /\ Len(c) \in Nat
    <3>1. Len(c) \in Nat
      BY <2>5
    <3>2. FormatStr(c, k) \in Seq(Byte) /\ Len(FormatStr(c, k)) = k + Len(c)
      BY <2>1, <2>5, FormatStrFacts
    <3> QED  BY <3>1, <3>2
  <2>7. u.at + (k + Len(c)) <= Len(u.buf)
    BY <1>1, <1>4, <1>6, <2>1, <2>3, <2>6
  <2>8. Wrote(u, PutStr(u, v.str, k), bs)
    BY <1>6, <2>1, <2>7, PutStrWrites DEF c
  <2>9. CutOff(v) = 0 => bs = Tail0(v)
    BY <2>1, <2>4
  <2>10. 1 + Len(bs) = EstimateOf(v)
    BY <2>3, <2>6
  <2> QED  BY <1>7, <2>2, <2>6, <2>8, <2>9, <2>10
<1>11. CASE v.type \in {3, 5}
  <2>1. CutOff(v) = 0
    BY <1>11, TypeFacts DEF CutOff
  <2>2. PutOf(t, v) = u
    BY <1>11, TypeFacts DEF PutOf
  <2>3. Tail0(v) = <<>>
    BY <1>11, TailCases
  <2>4. EstimateOf(v) = 1 + 0
    BY <1>11, TypeFacts DEF EstimateOf
  <2>5. Wrote(u, u, <<>>)
    <3>1. u.at <= Len(u.buf)
      BY <1>4, <1>6
    <3> HIDE DEF u
    <3> QED  BY <1>6, <3>1, WroteNothing
  <2>6. <<>> \in Seq(Byte) /\ Len(<<>>) = 0
    BY EmptySeq
  <2>7. 1 + Len(<<>>) = EstimateOf(v)
    BY <2>4, <2>6
  <2> QED  BY <1>7, <2>2, <2>3, <2>5, <2>6, <2>7
<1> QED  BY <1>2, <1>9, <1>10, <1>11

(* A strict array: its type is written, and its size where its first part    *)
(* will be.                                                                  *)
LEMMA PutOfStays ==
  ASSUME NEW t, NEW v \in All, IsStrict(v), Buffer(t), t.at + EstimateOf(v) <= Len(t.buf)
  PROVE  LET u == PutOf(t, v) IN
         /\ EstimateOf(v) = 5
         /\ Buffer(u) /\ Len(u.buf) = Len(t.buf) /\ u.at = t.at + 1
         /\ \A i \in 1..Len(t.buf) : i <= t.at \/ i > t.at + 5 => u.buf[i] = t.buf[i]
<1> DEFINE head == <<v.type>>
           u == Put(t, head)
           bs == Bytes(Size(v), 4)
           w == Put(u, bs)
<1>1. v.type = 10
  BY TypeFacts DEF IsStrict
<1>2. EstimateOf(v) = 5
  <2>1. EstimateOf(v) = 1 + 4
    BY <1>1, TypeFacts DEF EstimateOf
  <2> QED  BY <2>1
<1>3. head \in Seq(Byte) /\ Len(head) = 1
  BY <1>1 DEF Byte
<1>4. t.at \in Nat /\ Len(t.buf) \in Nat /\ t.at + 1 <= Len(t.buf) /\ (t.at + 1) + 4 <= Len(t.buf)
  BY <1>2 DEF Buffer
<1>5. Wrote(t, u, head)
  BY <1>3, <1>4, PutWrites
<1>6. bs \in Seq(Byte) /\ Len(bs) = 4
  <2>1. Size(v) \in Nat
    BY <1>1, TailCases
  <2> QED  BY <2>1, BytesFacts
<1>7. Buffer(u) /\ u.at = t.at + 1 /\ Len(u.buf) = Len(t.buf) /\ u.at + Len(bs) <= Len(u.buf)
  BY <1>3, <1>4, <1>5, <1>6 DEF Wrote
<1>8. PutOf(t, v) = [buf |-> w.buf, at |-> u.at]
  BY <1>1, TypeFacts DEF PutOf, PutStay
<1> HIDE DEF u, bs
<1>9. Wrote(u, w, bs)
  BY <1>6, <1>7, PutWrites
<1> HIDE DEF w
<1>10. Buffer(PutOf(t, v)) /\ Len(PutOf(t, v).buf) = Len(t.buf) /\ PutOf(t, v).at = t.at + 1
  BY <1>4, <1>7, <1>8, <1>9 DEF Wrote, Buffer
<1>11. ASSUME NEW i \in 1..Len(t.buf), i <= t.at \/ i > t.at + 5  PROVE PutOf(t, v).buf[i] = t.buf[i]
  <2>1. u.buf[i] = t.buf[i]
    <3>1. i <= t.at \/ i > u.at
      BY <1>4, <1>7, <1>11
    <3> QED  BY <3>1, <1>5 DEF Wrote
  <2>2. w.buf[i] = u.buf[i]
    <3>1. w.at = u.at + 4
      BY <1>6, <1>9 DEF Wrote
    <3>2. i \in 1..Len(u.buf) /\ (i <= u.at \/ i > w.at)
      BY <1>4, <1>7, <1>11, <3>1
    <3> QED  BY <3>2, <1>9 DEF Wrote
  <2> QED  BY <2>1, <2>2, <1>8
<1> QED  BY <1>2, <1>10, <1>11

(* A step of the encoding.                                                   *)
StrictStep(st) == Inside(st) /\ IsStrict(NextChild(st))
Keyed0(t, st) == IF Keyed(Last(st).v) THEN PutStr(t, NextKey(st), 2) ELSE t

LEMMA KeyWrites ==
  ASSUME NEW t, NEW st \in Stack, Inside(st), Buffer(t), t.at + Len(KeyPart(st)) <= Len(t.buf)
  PROVE  Wrote(t, Keyed0(t, st), KeyPart(st))
<1>1. CASE Keyed(Last(st).v)
  <2>1. NextKey(st) \in Key
    BY <1>1, EnterFacts
  <2>2. NextKey(st) \in Seq(Byte) /\ CStr(NextKey(st)) = NextKey(st)
    BY <2>1, KeyFacts
  <2>3. Len(KeyPart(st)) = 2 + Len(CStr(NextKey(st)))
    BY <1>1, <2>2, KeyPartFacts
  <2>4. t.at + (2 + Len(CStr(NextKey(st)))) <= Len(t.buf)
    BY <2>3
  <2>5. Wrote(t, PutStr(t, NextKey(st), 2), FormatStr(CStr(NextKey(st)), 2))
    BY <2>2, <2>4, PutStrWrites
  <2> QED  BY <1>1, <2>2, <2>5 DEF KeyPart, Keyed0
<1>2. CASE ~Keyed(Last(st).v)
  <2>1. KeyPart(st) = <<>> /\ Keyed0(t, st) = t
    BY <1>2 DEF KeyPart, Keyed0
  <2>2. t.at <= Len(t.buf)
    <3>1. t.at + 0 <= Len(t.buf)
      BY <2>1, EmptySeq
    <3> QED  BY <3>1 DEF Buffer
  <2> QED  BY <2>1, <2>2, WroteNothing
<1> QED  BY <1>1, <1>2

LEMMA StepWrites ==
  ASSUME NEW t, NEW st \in Stack, ~StrictStep(st), Buffer(t), t.at + EstimateStep(st) <= Len(t.buf)
  PROVE  \E bs \in Seq(Byte) :
            /\ Len(bs) = EstimateStep(st) /\ (CutStep(st) = 0 => bs = FormatStep(st))
            /\ Wrote(t, PutStep(t, st), bs)
<1>1. CASE Inside(st)
  <2> DEFINE c == NextChild(st)
             key == KeyPart(st)
             u == Keyed0(t, st)
  <2>1. c \in All /\ ~IsStrict(c)
    BY <1>1, EnterFacts DEF StrictStep
  <2>2. /\ key \in Seq(Byte) /\ FormatStep(st) = key \o FormatOf(c)
        /\ EstimateStep(st) = Len(key) + EstimateOf(c) /\ CutStep(st) = CutOff(c)
    BY <1>1, KeyPartFacts DEF CutStep
  <2>3. EstimateOf(c) \in Nat /\ Len(key) \in Nat /\ t.at \in Nat /\ Len(t.buf) \in Nat
    <3>1. EstimateOf(c) \in Nat
      BY <2>1, FormatOfFacts
    <3>2. Len(key) \in Nat
      BY <2>2
    <3> QED  BY <3>1, <3>2 DEF Buffer
  <2>4. PutStep(t, st) = PutOf(u, c)
    BY <1>1 DEF PutStep, Keyed0
  <2> HIDE DEF c, key
  <2>5. t.at + Len(key) <= Len(t.buf) /\ (t.at + Len(key)) + EstimateOf(c) <= Len(t.buf)
    BY <2>2, <2>3
  <2>6. Wrote(t, u, key)
    BY <1>1, <2>5, KeyWrites DEF key
  <2> HIDE DEF u
  <2>7. Buffer(u) /\ u.at + EstimateOf(c) <= Len(u.buf)
    BY <2>5, <2>6 DEF Wrote
  <2>8. PICK bs \in Seq(Byte) :
          /\ Len(bs) = EstimateOf(c) /\ (CutOff(c) = 0 => bs = FormatOf(c))
          /\ Wrote(u, PutOf(u, c), bs)
    BY <2>1, <2>7, PutOfWrites
  <2>9. key \o bs \in Seq(Byte) /\ Len(key \o bs) = Len(key) + Len(bs)
    BY <2>2, ConcatFacts
  <2>10. Wrote(t, PutStep(t, st), key \o bs)
    BY <2>2, <2>4, <2>6, <2>8, WroteMore
  <2>11. CutStep(st) = 0 => key \o bs = FormatStep(st)
    BY <2>2, <2>8
  <2>12. Len(key \o bs) = EstimateStep(st)
    BY <2>2, <2>8, <2>9
  <2> QED  BY <2>9, <2>10, <2>11, <2>12
<1>2. CASE ~Inside(st) /\ Last(st).v.type = 3
  <2>1. FormatStep(st) = EndMark /\ EstimateStep(st) = 3 /\ PutStep(t, st) = Put(t, EndMark)
    BY <1>2, TypeFacts DEF FormatStep, EstimateStep, PutStep
  <2>2. EndMark \in Seq(Byte) /\ Len(EndMark) = 3
    BY EndMarkFacts
  <2>3. Wrote(t, Put(t, EndMark), EndMark)
    BY <2>1, <2>2, PutWrites
  <2> QED  BY <2>1, <2>2, <2>3
<1>3. CASE ~Inside(st) /\ Last(st).v.type # 3
  <2>1. FormatStep(st) = <<>> /\ EstimateStep(st) = 0 /\ PutStep(t, st) = t
    BY <1>3, TypeFacts DEF FormatStep, EstimateStep, PutStep
  <2>2. t.at <= Len(t.buf)
    <3>1. t.at + 0 <= Len(t.buf)
      BY <2>1
    <3> QED  BY <3>1 DEF Buffer
  <2>3. Wrote(t, t, <<>>) /\ <<>> \in Seq(Byte) /\ Len(<<>>) = 0
    BY <2>2, WroteNothing, EmptySeq
  <2> QED  BY <2>1, <2>3
<1> QED  BY <1>1, <1>2, <1>3

LEMMA StepStays ==
  ASSUME NEW t, NEW st \in Stack, StrictStep(st), Buffer(t), t.at + EstimateStep(st) <= Len(t.buf)
  PROVE  LET u == PutStep(t, st) IN
         /\ EstimateStep(st) \in Nat /\ EstimateStep(st) > 4
         /\ Buffer(u) /\ Len(u.buf) = Len(t.buf) /\ u.at = t.at + (EstimateStep(st) - 4)
         /\ \A i \in 1..Len(t.buf) : i > u.at + 4 => u.buf[i] = t.buf[i]
<1> DEFINE c == NextChild(st)
           key == KeyPart(st)
           u == Keyed0(t, st)
           w == PutOf(u, c)
<1>1. c \in All /\ IsStrict(c) /\ Inside(st)
  BY EnterFacts DEF StrictStep
<1>2. key \in Seq(Byte) /\ EstimateStep(st) = Len(key) + EstimateOf(c)
  BY <1>1, KeyPartFacts
<1>3. EstimateOf(c) \in Nat /\ Len(key) \in Nat /\ t.at \in Nat /\ Len(t.buf) \in Nat
  <2>1. EstimateOf(c) \in Nat
    BY <1>1, FormatOfFacts
  <2>2. Len(key) \in Nat
    BY <1>2
  <2> QED  BY <2>1, <2>2 DEF Buffer
<1>4. PutStep(t, st) = w
  BY <1>1 DEF PutStep, Keyed0
<1> HIDE DEF c, key
<1>5. t.at + Len(key) <= Len(t.buf) /\ (t.at + Len(key)) + EstimateOf(c) <= Len(t.buf)
  BY <1>2, <1>3
<1>6. Wrote(t, u, key)
  BY <1>1, <1>5, KeyWrites DEF key
<1> HIDE DEF u
<1>7. Buffer(u) /\ u.at = t.at + Len(key) /\ Len(u.buf) = Len(t.buf) /\ u.at + EstimateOf(c) <= Len(u.buf)
  BY <1>5, <1>6 DEF Wrote
<1>8. /\ EstimateOf(c) = 5
      /\ Buffer(w) /\ Len(w.buf) = Len(u.buf) /\ w.at = u.at + 1
      /\ \A i \in 1..Len(u.buf) : i <= u.at \/ i > u.at + 5 => w.buf[i] = u.buf[i]
  BY <1>1, <1>7, PutOfStays
<1> HIDE DEF w
<1>9. ASSUME NEW i \in 1..Len(t.buf), i > w.at + 4  PROVE w.buf[i] = t.buf[i]
  <2>1. i > u.at + 5 /\ i > u.at
    BY <1>3, <1>7, <1>8, <1>9
  <2>2. u.buf[i] = t.buf[i]
    BY <2>1, <1>6 DEF Wrote
  <2> QED  BY <2>1, <2>2, <1>7, <1>8
<1>10. EstimateStep(st) = Len(key) + 5
  BY <1>2, <1>8
<1>11. w.at = t.at + (EstimateStep(st) - 4) /\ EstimateStep(st) \in Nat /\ EstimateStep(st) > 4
  BY <1>3, <1>7, <1>8, <1>10
<1> QED  BY <1>4, <1>7, <1>8, <1>9, <1>11

(* What has been written of an answer, at a step: as long as the format, but *)
(* for four bytes of every strict array and for what zero bytes cut off;     *)
(* the format itself if there is nothing of that; and beyond it, and beyond  *)
(* the size of an array, nothing is written.  After a number, and when all   *)
(* calls are done, less is written beyond.                                   *)
DirtyAfter(o, n) == \A i \in 1..Len(o.buf) : i > o.at + n => o.buf[i] = Dirty
Encoded(o, st, f, s, c) ==
  /\ Buffer(o) /\ f \in Seq(Byte) /\ s \in Nat /\ c \in Nat
  /\ Len(f) = o.at + 4 * s + c
  /\ s = 0 /\ c = 0 => \A i \in 1..o.at : o.buf[i] = f[i]
  /\ DirtyAfter(o, 4)
  /\ Last(st).v.type = 0 => DirtyAfter(o, 0)
  /\ Finished(st) => DirtyAfter(o, 3)

(* The last value of an answer is a number or an object.                     *)
EndsWell(v) == Size(v) > 0 /\ Child(v, Size(v)).type \in {0, 3}

LEMMA WroteClean ==
  ASSUME NEW o, NEW u, NEW bs \in Seq(Byte), Wrote(o, u, bs), NEW j \in Nat, NEW k \in Nat,
         DirtyAfter(o, j), j <= Len(bs) + k
  PROVE  DirtyAfter(u, k)
<1>1. /\ o.at \in Nat /\ Len(bs) \in Nat /\ u.at = o.at + Len(bs) /\ Len(u.buf) = Len(o.buf)
      /\ \A i \in 1..Len(o.buf) : i > u.at => u.buf[i] = o.buf[i]
  BY DEF Wrote, Buffer
<1>2. ASSUME NEW i \in 1..Len(u.buf), i > u.at + k  PROVE u.buf[i] = Dirty
  <2>1. i \in 1..Len(o.buf) /\ i > u.at /\ i > o.at + j
    BY <1>1, <1>2
  <2> QED  BY <1>1, <2>1 DEF DirtyAfter
<1> QED  BY <1>2 DEF DirtyAfter

LEMMA EncodedGoesOn ==
  ASSUME NEW o, NEW st \in Stack, NEW f, NEW s, NEW c, Encoded(o, st, f, s, c), ~Finished(st),
         o.at + EstimateStep(st) <= Len(o.buf), EndsWell(st[1].v)
  PROVE  LET u == PutStep(o, st)
             s2 == IF StrictStep(st) THEN s + 1 ELSE s
             c2 == IF Inside(st) THEN c + CutOff(NextChild(st)) ELSE c
         IN /\ Encoded(u, Step(st), f \o FormatStep(st), s2, c2)
            /\ u.at + 4 * s2 = o.at + 4 * s + EstimateStep(st) /\ Len(u.buf) = Len(o.buf)
<1> DEFINE u == PutStep(o, st)
           e == EstimateStep(st)
           x == CutStep(st)
           g == FormatStep(st)
           h == f \o g
           c2 == IF Inside(st) THEN c + CutOff(NextChild(st)) ELSE c
<1>1. /\ Buffer(o) /\ f \in Seq(Byte) /\ s \in Nat /\ c \in Nat /\ o.at \in Nat /\ Len(o.buf) \in Nat
      /\ Len(f) = o.at + 4 * s + c
      /\ DirtyAfter(o, 4)
  BY DEF Encoded, Buffer
<1>2. e \in Nat /\ x \in Nat /\ g \in Seq(Byte) /\ Len(g) = e + x /\ (Inside(st) => e > 0)
  BY StepLengths
<1>3. c2 = c + x
  BY <1>1 DEF CutStep
<1>4. /\ h \in Seq(Byte) /\ Len(h) = Len(f) + Len(g) /\ Len(f) \in Nat
      /\ \A i \in 1..Len(f) : h[i] = f[i]
      /\ \A i \in 1..Len(g) : h[Len(f) + i] = g[i]
  <2>1. f \in Seq(Byte) /\ g \in Seq(Byte)
    BY <1>1, <1>2
  <2> HIDE DEF g
  <2> QED  BY <2>1, ConcatFacts
<1>5. c2 \in Nat
  BY <1>1, <1>2, <1>3
<1> HIDE DEF u, x, g, h, c2
<1>6. o.at + e <= Len(o.buf)
  OBVIOUS
<1>7. CASE StrictStep(st)
  <2>1. Inside(st) /\ IsStrict(NextChild(st))
    BY <1>7 DEF StrictStep
  <2>2. /\ e > 4 /\ Buffer(u) /\ Len(u.buf) = Len(o.buf) /\ u.at = o.at + (e - 4)
        /\ \A i \in 1..Len(o.buf) : i > u.at + 4 => u.buf[i] = o.buf[i]
    BY <1>1, <1>6, <1>7, StepStays DEF u
  <2> HIDE DEF e
  <2>3. x = 0
    BY <2>1, TypeFacts DEF x, CutStep, CutOff, IsStrict
  <2>4. DirtyAfter(u, 4)
    <3>1. ASSUME NEW i \in 1..Len(u.buf), i > u.at + 4  PROVE u.buf[i] = Dirty
      <4>1. i \in 1..Len(o.buf) /\ i > o.at + 4
        BY <3>1, <1>1, <1>2, <2>2
      <4> QED  BY <3>1, <4>1, <2>2, <1>1 DEF DirtyAfter
    <3> QED  BY <3>1 DEF DirtyAfter
  <2>5. Last(Step(st)).v.type # 0
    <3>1. Last(Step(st)).v = NextChild(st)
      BY <2>1, EnterTop
    <3> QED  BY <2>1, <3>1, TypeFacts DEF IsStrict
  <2>6. ~Finished(Step(st))
    BY <2>1, EnterTop
  <2>7. u.at \in Nat /\ u.at + 4 * (s + 1) = o.at + 4 * s + e /\ s + 1 \in Nat /\ s + 1 # 0
    <3>1. ASSUME NEW p \in Nat, NEW q \in Nat, NEW n \in Nat, q = p + (n - 4)
          PROVE  q + 4 * (s + 1) = p + 4 * s + n /\ s + 1 \in Nat /\ s + 1 # 0
      BY <1>1, <3>1
    <3>2. u.at \in Nat
      BY <2>2 DEF Buffer
    <3>3. o.at \in Nat /\ e \in Nat /\ u.at = o.at + (e - 4)
      BY <1>1, <1>2, <2>2
    <3> QED  BY <3>1, <3>2, <3>3
  <2>8. Len(h) = u.at + 4 * (s + 1) + c2
    <3>1. ASSUME NEW q \in Nat, NEW p \in Nat, NEW n \in Nat, NEW y \in Nat, q + 4 * (s + 1) = p + 4 * s + n
          PROVE  p + 4 * s + y + (n + 0) = q + 4 * (s + 1) + (y + 0)
      BY <1>1, <3>1
    <3> QED  BY <1>1, <1>2, <1>3, <1>4, <2>3, <2>7, <3>1
  <2>9. Encoded(u, Step(st), h, s + 1, c2)
    BY <1>4, <1>5, <2>2, <2>4, <2>5, <2>6, <2>7, <2>8 DEF Encoded
  <2> QED  BY <1>7, <2>2, <2>7, <2>9 DEF u, e, h, g, c2
<1>8. CASE ~StrictStep(st)
  <2>1. PICK bs \in Seq(Byte) : Len(bs) = e /\ (x = 0 => bs = g) /\ Wrote(o, u, bs)
    BY <1>1, <1>6, <1>8, StepWrites DEF u, x, g
  <2>2. /\ Buffer(u) /\ Len(u.buf) = Len(o.buf) /\ u.at = o.at + e
        /\ \A i \in 1..Len(o.buf) : i <= o.at \/ i > u.at => u.buf[i] = o.buf[i]
        /\ \A i \in 1..Len(bs) : u.buf[o.at + i] = bs[i]
    BY <2>1 DEF Wrote
  <2>3. DirtyAfter(u, 4)
    <3>1. 4 <= Len(bs) + 4
      BY <1>2, <2>1
    <3> QED  BY <1>1, <2>1, <3>1, WroteClean
  <2>4. ASSUME Last(Step(st)).v.type = 0  PROVE DirtyAfter(u, 0)
    <3>1. CASE Inside(st)
      <4>1. Last(Step(st)).v = NextChild(st)
        BY <3>1, EnterTop
      <4>2. EstimateOf(NextChild(st)) = 1 + 8
        BY <2>4, <4>1, TypeFacts DEF EstimateOf
      <4>3. e = Len(KeyPart(st)) + EstimateOf(NextChild(st)) /\ KeyPart(st) \in Seq(Byte)
        BY <3>1, KeyPartFacts
      <4>4. Len(KeyPart(st)) \in Nat
        BY <4>3
      <4>5. 4 <= Len(bs) + 0
        BY <2>1, <4>2, <4>3, <4>4
      <4> QED  BY <1>1, <2>1, <4>5, WroteClean
    <3>2. CASE ~Inside(st)
      <4>1. Len(st) # 1
        BY <3>2 DEF Finished
      <4>2. Len(st) > 1
        BY <4>1, StackFacts, OneOrMore
      <4>3. Last(Step(st)).at \in 1..Size(Last(Step(st)).v) /\ Step(st) \in Stack
        BY <3>2, <4>2, ReturnFacts
      <4>4. Last(Step(st)).v \in Node
        BY <4>3, StackFacts
      <4>5. Size(Last(Step(st)).v) = 0
        BY <2>4, <4>4, NodeFacts
      <4> QED  BY <4>3, <4>5
    <3> QED  BY <3>1, <3>2
  <2>5. ASSUME Finished(Step(st))  PROVE DirtyAfter(u, 3)
    <3>1. CASE Inside(st)
      BY <3>1, <2>5, EnterTop
    <3>2. CASE ~Inside(st)
      <4>1. Len(st) # 1
        BY <3>2 DEF Finished
      <4>2. Len(st) > 1
        BY <4>1, StackFacts, OneOrMore
      <4>3. /\ Step(st) \in Stack /\ Step(st)[1].v = st[1].v
            /\ Last(st).v = Child(Last(Step(st)).v, Last(Step(st)).at)
        BY <3>2, <4>2, ReturnFacts, StepInStack
      <4>4. Len(Step(st)) = 1 /\ ~Inside(Step(st))
        BY <2>5 DEF Finished
      <4>5. Last(Step(st)) = Step(st)[1] /\ Last(Step(st)).at = Size(Last(Step(st)).v)
        BY <4>3, <4>4, StackFacts
      <4>6. Last(st).v = Child(st[1].v, Size(st[1].v))
        BY <4>3, <4>5
      <4>7. Last(st).v.type \in {0, 3}
        BY <4>6 DEF EndsWell
      <4>8. CASE Last(st).v.type = 0
        <5>1. DirtyAfter(o, 0)
          BY <4>8 DEF Encoded
        <5>2. 0 <= Len(bs) + 3
          BY <1>2, <2>1
        <5> QED  BY <2>1, <5>1, <5>2, WroteClean
      <4>9. CASE Last(st).v.type = 3
        <5>1. e = 3
          BY <3>2, <4>9, TypeFacts DEF EstimateStep
        <5>2. 4 <= Len(bs) + 3
          BY <2>1, <5>1
        <5> QED  BY <1>1, <2>1, <5>2, WroteClean
      <4> QED  BY <4>7, <4>8, <4>9
    <3> QED  BY <3>1, <3>2
  <2> HIDE DEF e
  <2>6. ASSUME s = 0, c2 = 0, NEW i \in 1..u.at  PROVE u.buf[i] = h[i]
    <3>1. c = 0 /\ x = 0 /\ Len(f) = o.at /\ bs = g /\ Len(g) = e
      BY <2>6, <1>1, <1>2, <1>3, <2>1
    <3>2. \A k \in 1..o.at : o.buf[k] = f[k]
      BY <2>6, <3>1 DEF Encoded
    <3>3. CASE i <= o.at
      <4>1. i \in 1..o.at /\ i \in 1..Len(o.buf)
        <5>1. ASSUME NEW p \in Nat, NEW q \in Nat, NEW n \in Nat, NEW m \in Nat, p + n <= m,
                     NEW k \in 1..q, k <= p
              PROVE  k \in 1..p /\ k \in 1..m
          BY <5>1
        <5>2. o.at \in Nat /\ Len(o.buf) \in Nat /\ e \in Nat
          BY <1>1, <1>2 DEF Buffer
        <5>3. u.at \in Nat
          BY <2>2 DEF Buffer
        <5> QED  BY <3>3, <1>6, <5>1, <5>2, <5>3
      <4>2. u.buf[i] = o.buf[i]
        BY <4>1, <2>2
      <4> QED  BY <3>1, <3>2, <4>1, <4>2, <1>4
    <3>4. CASE i > o.at
      <4>1. i - o.at \in 1..e /\ o.at + (i - o.at) = i
        <5>1. ASSUME NEW p \in Nat, NEW k \in 1..(p + e), k > p  PROVE k - p \in 1..e /\ p + (k - p) = k
          BY <1>2, <5>1
        <5>2. i \in 1..(o.at + e)
          BY <2>2
        <5> QED  BY <3>4, <5>1, <5>2, <1>1
      <4>2. u.buf[o.at + (i - o.at)] = bs[i - o.at]
        BY <4>1, <2>1, <2>2
      <4>3. h[Len(f) + (i - o.at)] = g[i - o.at]
        BY <4>1, <3>1, <1>4
      <4> QED  BY <3>1, <4>1, <4>2, <4>3
    <3> QED  BY <3>3, <3>4, <1>1, <1>2, <2>2
  <2>7. u.at + 4 * s = o.at + 4 * s + e
    BY <1>1, <1>2, <2>2
  <2>8. Len(h) = u.at + 4 * s + c2
    BY <1>1, <1>2, <1>3, <1>4, <2>2
  <2>9. Encoded(u, Step(st), h, s, c2)
    BY <1>1, <1>4, <1>5, <2>2, <2>3, <2>4, <2>5, <2>6, <2>8 DEF Encoded
  <2> QED  BY <1>8, <2>2, <2>7, <2>9 DEF u, e, h, g, c2
<1> QED  BY <1>7, <1>8

LEMMA EncodedBegins ==
  ASSUME NEW vs \in Seq(All), Len(vs) > 0, NEW e \in Nat
  PROVE  LET o == [buf |-> [i \in 1..e |-> Dirty], at |-> 0] IN
         Encoded(o, Start(vs), <<>>, 0, 0) /\ Len(o.buf) = e
<1> DEFINE buf == [i \in 1..e |-> Dirty]
           o == [buf |-> buf, at |-> 0]
<1>1. buf \in [1..e -> Cell] /\ \A i \in 1..e : buf[i] = Dirty
  BY CellFacts
<1>2. buf \in Seq(Cell) /\ Len(buf) = e
  BY <1>1, IsSequence
<1> HIDE DEF buf
<1>3. o.buf = buf /\ o.at = 0 /\ Buffer(o)
  BY <1>2 DEF Buffer
<1> HIDE DEF o
<1>4. DirtyAfter(o, 4)
  BY <1>1, <1>2, <1>3 DEF DirtyAfter
<1>5. /\ Start(vs) \in Stack /\ Last(Start(vs)) = Start(vs)[1] /\ Start(vs)[1].v = Strict(vs)
      /\ Strict(vs).type = 10 /\ Size(Strict(vs)) = Len(vs) /\ Start(vs)[1].at = 0
  BY StartFacts DEF Last
<1>6. Inside(Start(vs))
  BY <1>5 DEF Inside
<1>7. ~Finished(Start(vs)) /\ Last(Start(vs)).v.type # 0
  BY <1>5, <1>6 DEF Finished
<1>8. Len(<<>>) = o.at + 4 * 0 + 0 /\ <<>> \in Seq(Byte)
  BY <1>3, EmptySeq
<1>9. \A i \in 1..o.at : o.buf[i] = <<>>[i]
  BY <1>3
<1>10. Encoded(o, Start(vs), <<>>, 0, 0)
  BY <1>3, <1>4, <1>7, <1>8, <1>9 DEF Encoded
<1> QED  BY <1>2, <1>3, <1>10 DEF o, buf

(* When the calls are done, what fills the buffer is the format or it is not.*)
LEMMA EncodedEnds ==
  ASSUME NEW o, NEW st, NEW f, NEW s, NEW c, Encoded(o, st, f, s, c), Finished(st), o.at + 4 * s = Len(o.buf)
  PROVE  o.buf = f <=> s = 0 /\ c = 0
<1>1. /\ o.buf \in Seq(Cell) /\ o.at \in Nat /\ f \in Seq(Byte) /\ s \in Nat /\ c \in Nat
      /\ Len(f) = o.at + 4 * s + c /\ DirtyAfter(o, 3)
      /\ s = 0 /\ c = 0 => \A i \in 1..o.at : o.buf[i] = f[i]
  BY DEF Encoded, Buffer
<1> DEFINE n == Len(o.buf)
<1>2. n \in Nat /\ o.at + 4 * s = n /\ Len(f) = n + c
  BY <1>1
<1>3. ASSUME s = 0, c = 0  PROVE o.buf = f
  <2>1. Len(f) = n /\ o.at = n
    BY <1>1, <1>2, <1>3
  <2>2. f \in Seq(Cell)
    BY <1>1, CellFacts, SeqMonotonic
  <2>3. \A i \in 1..Len(o.buf) : o.buf[i] = f[i]
    BY <1>1, <1>3, <2>1
  <2> QED  BY <1>1, <2>1, <2>2, <2>3, SeqEqual
<1>4. ASSUME o.buf = f  PROVE s = 0 /\ c = 0
  <2>1. c = 0
    <3>1. n = n + c
      BY <1>2, <1>4
    <3> QED  BY <1>1, <1>2, <3>1
  <2>2. ASSUME s # 0  PROVE FALSE
    <3>1. o.at + 4 \in 1..n
      BY <1>1, <1>2, <2>2
    <3>2. o.buf[o.at + 4] = Dirty
      <4>1. o.at + 4 > o.at + 3
        BY <1>1
      <4> QED  BY <1>1, <3>1, <4>1 DEF DirtyAfter
    <3>3. f[o.at + 4] \in Byte
      <4>1. o.at + 4 \in 1..Len(f)
        BY <1>4, <3>1
      <4> HIDE DEF n
      <4> QED  BY <1>1, <4>1, BytesAreNumbers
    <3> QED  BY <1>4, <3>2, <3>3, CellFacts
  <2> QED  BY <2>1, <2>2
<1> QED  BY <1>3, <1>4

(* The answers end well, whatever the client's value is.                     *)
LEMMA AnswersEndWell ==
  ASSUME NEW a \in All, NEW b \in All, NEW c \in All, NEW d \in All, d.type \in {0, 3}
  PROVE  /\ <<a, b, c, d>> \in Seq(All) /\ Len(<<a, b, c, d>>) = 4
         /\ EndsWell(Strict(<<a, b, c, d>>))
<1> DEFINE vs == <<a, b, c, d>>
<1>1. vs \in Seq(All) /\ Len(vs) = 4 /\ vs[4] = d
  OBVIOUS
<1> HIDE DEF vs
<1>2. Strict(vs) \in Node /\ Strict(vs).list = vs /\ Size(Strict(vs)) = 4 /\ Strict(vs).type = 10
  BY <1>1, StartFacts
<1>3. Child(Strict(vs), 4) = d
  <2>1. ~Keyed(Strict(vs))
    BY <1>2, NodeFacts
  <2> QED  BY <1>1, <1>2, <2>1 DEF Child
<1>4. EndsWell(Strict(vs))
  BY <1>2, <1>3 DEF EndsWell
<1> QED  BY <1>1, <1>4 DEF vs

LEMMA OwnFacts ==
  /\ \A n \in 0..29 : Str(Text(n)) \in All
  /\ One \in All /\ Null \in All /\ Capabilities \in All /\ Success \in All /\ Started \in All
  /\ One.type = 0 /\ Success.type = 3 /\ Started.type = 3
  BY TypeFacts DEF All, One, Number, Success, Started, Object

-----------------------------------------------------------------------------
(* Reading the body                                                          *)

(* The body has the bytes s at place p.                                      *)
Held(p, s) == p \in Nat /\ p + Len(s) <= Len(body) /\ \A i \in 1..Len(s) : body[p + i] = s[i]

LEMMA HeldParts ==
  ASSUME NEW p, NEW s \in Seq(Byte), NEW t \in Seq(Byte), body \in Seq(Byte), Held(p, s \o t)
  PROVE  Held(p, s) /\ Held(p + Len(s), t)
<1> DEFINE u == s \o t
           j == Len(s)
           k == Len(t)
           n == Len(body)
<1>1. /\ Len(u) = j + k /\ j \in Nat /\ k \in Nat
      /\ \A i \in 1..j : u[i] = s[i]
      /\ \A i \in 1..k : u[j + i] = t[i]
  BY ConcatFacts
<1>2. p \in Nat /\ n \in Nat /\ p + Len(u) <= n /\ \A i \in 1..Len(u) : body[p + i] = u[i]
  BY DEF Held
<1> HIDE DEF u, j, k, n
<1>3. p + j + k <= n /\ p + j <= n /\ (p + j) + k <= n /\ p + j \in Nat
  BY <1>1, <1>2
<1>4. ASSUME NEW i \in 1..j  PROVE body[p + i] = s[i]
  <2>1. i \in 1..Len(u)
    BY <1>1
  <2> QED  BY <1>1, <1>2, <2>1
<1>5. ASSUME NEW i \in 1..k  PROVE body[(p + j) + i] = t[i]
  <2>1. j + i \in 1..Len(u) /\ p + (j + i) = (p + j) + i
    BY <1>1, <1>2
  <2> QED  BY <1>1, <1>2, <2>1
<1> QED  BY <1>2, <1>3, <1>4, <1>5 DEF Held, j, k, n

LEMMA PieceFacts ==
  ASSUME NEW p \in Nat, NEW n \in Nat, body \in Seq(Byte), p + n <= Len(body)
  PROVE  /\ Piece(p, n) \in Seq(Byte) /\ Len(Piece(p, n)) = n
         /\ \A i \in 1..n : Piece(p, n)[i] = body[p + i]
<1> DEFINE a == p + 1
           b == p + n
<1>1. a \in Int /\ b \in Int /\ Len(body) \in Nat /\ b - a + 1 = n /\ (a <= b <=> n > 0)
  OBVIOUS
<1>2. \A i \in a..b : body[i] \in Byte
  <2>1. \A i \in a..b : i \in 1..Len(body)
    OBVIOUS
  <2> QED  BY <2>1
<1>3. Piece(p, n) = SubSeq(body, a, b)
  BY DEF Piece
<1>4. \A i \in 1..n : a + i - 1 = p + i
  OBVIOUS
<1> HIDE DEF a, b
<1>5. /\ SubSeq(body, a, b) \in Seq(Byte)
      /\ Len(SubSeq(body, a, b)) = IF a <= b THEN b - a + 1 ELSE 0
      /\ \A i \in 1..(b - a + 1) : SubSeq(body, a, b)[i] = body[a + i - 1]
  BY <1>1, <1>2, SubSeqProperties
<1>6. Len(Piece(p, n)) = n
  BY <1>1, <1>3, <1>5
<1> QED  BY <1>1, <1>3, <1>4, <1>5, <1>6

LEMMA HeldPiece ==
  ASSUME NEW p, NEW s \in Seq(Byte), body \in Seq(Byte), Held(p, s)
  PROVE  Piece(p, Len(s)) = s /\ p \in Nat /\ p + Len(s) <= Len(body)
<1>1. p \in Nat /\ Len(s) \in Nat /\ p + Len(s) <= Len(body) /\ \A i \in 1..Len(s) : body[p + i] = s[i]
  BY DEF Held
<1>2. /\ Piece(p, Len(s)) \in Seq(Byte) /\ Len(Piece(p, Len(s))) = Len(s)
      /\ \A i \in 1..Len(s) : Piece(p, Len(s))[i] = body[p + i]
  BY <1>1, PieceFacts
<1>3. \A i \in 1..Len(Piece(p, Len(s))) : Piece(p, Len(s))[i] = s[i]
  BY <1>1, <1>2
<1>4. Piece(p, Len(s)) = s
  BY <1>2, <1>3, SeqEqual
<1> QED  BY <1>1, <1>4

(* The space of whatever is at a place is a number.                          *)
LEMMA StrSpaceIsNumber ==
  ASSUME NEW p \in Nat, NEW k \in {2, 4}, body \in Seq(Byte)
  PROVE  StrSpace(p, k) \in Nat
<1>1. CASE p + k > Len(body)
  BY <1>1, HugeFacts DEF StrSpace
<1>2. CASE ~(p + k > Len(body))
  <2>1. p + k <= Len(body) /\ k \in Nat
    BY <1>2
  <2>2. Piece(p, k) \in Seq(Byte) /\ Len(Piece(p, k)) = k
    BY <2>1, PieceFacts
  <2>3. Length(Piece(p, k)) \in Nat
    BY <2>2, LengthFacts
  <2>4. StrSpace(p, k) = k + Length(Piece(p, k))
    BY <1>2 DEF StrSpace
  <2> QED  BY <2>1, <2>3, <2>4
<1> QED  BY <1>1, <1>2

LEMMA SpaceIsNumber ==
  ASSUME NEW p \in Nat, body \in Seq(Byte)
  PROVE  Space(p) \in Nat \ {0}
<1>1. CASE p >= Len(body)
  <2>1. Space(p) = Huge
    BY <1>1 DEF Space
  <2> QED  BY <2>1, HugeFacts
<1>2. CASE ~(p >= Len(body))
  <2> DEFINE x == CASE body[p + 1] = Type.NUMBER -> 8
                    [] body[p + 1] = Type.BOOLEAN -> 1
                    [] body[p + 1] = Type.STRING -> StrSpace(p + 1, 2)
                    [] body[p + 1] = Type.LONGSTRING -> StrSpace(p + 1, 4)
                    [] body[p + 1] \in {Type.ECMAARRAY, Type.STRICTARRAY} -> 4
                    [] OTHER -> 0
  <2>1. Space(p) = 1 + x
    BY <1>2 DEF Space
  <2>2. StrSpace(p + 1, 2) \in Nat /\ StrSpace(p + 1, 4) \in Nat
    <3>1. p + 1 \in Nat /\ 2 \in {2, 4} /\ 4 \in {2, 4}
      OBVIOUS
    <3> QED  BY <3>1, StrSpaceIsNumber
  <2>3. x \in Nat
    BY <2>2, TypeFacts
  <2> HIDE DEF x
  <2> QED  BY <2>1, <2>3
<1> QED  BY <1>1, <1>2

(* A string of the format.                                                   *)
LEMMA StrHeld ==
  ASSUME NEW p, NEW s \in Seq(Byte), NEW k \in {2, 4}, body \in Seq(Byte), Held(p, FormatStr(s, k))
  PROVE  /\ p \in Nat /\ Len(s) \in Nat /\ p + (k + Len(s)) <= Len(body)
         /\ StrSpace(p, k) = k + Length(Bytes(Len(s), k))
         /\ Piece(p + k, Len(s)) = s
<1> DEFINE bs == Bytes(Len(s), k)
<1>1. Len(s) \in Nat /\ k \in Nat
  OBVIOUS
<1>2. bs \in Seq(Byte) /\ Len(bs) = k
  BY <1>1, BytesFacts
<1>3. Held(p, bs \o s)
  BY DEF FormatStr
<1> HIDE DEF bs
<1>4. Held(p, bs) /\ Held(p + k, s)
  <2>1. Held(p, bs) /\ Held(p + Len(bs), s)
    BY <1>2, <1>3, HeldParts
  <2> QED  BY <1>2, <2>1
<1>5. Piece(p, k) = bs /\ p \in Nat /\ p + k <= Len(body)
  <2>1. Piece(p, Len(bs)) = bs /\ p \in Nat /\ p + Len(bs) <= Len(body)
    BY <1>2, <1>4, HeldPiece
  <2> QED  BY <1>2, <2>1
<1>6. Piece(p + k, Len(s)) = s /\ (p + k) + Len(s) <= Len(body)
  BY <1>4, HeldPiece
<1>7. Len(body) \in Nat
  OBVIOUS
<1>8. ~(p + k > Len(body)) /\ p + (k + Len(s)) <= Len(body)
  BY <1>1, <1>5, <1>6, <1>7
<1>9. StrSpace(p, k) = k + Length(bs)
  BY <1>5, <1>8 DEF StrSpace
<1> QED  BY <1>1, <1>5, <1>6, <1>8, <1>9 DEF bs

(* What a call for a value has of it when n of its parts are there, and how  *)
(* many parts it expects.                                                    *)
Begun(v, n) ==
  CASE v.type = 3 -> Object(SubSeq(v.map, 1, n))
    [] v.type = 8 -> Ecma(SubSeq(v.map, 1, n))
    [] v.type = 10 -> Strict(SubSeq(v.list, 1, n))
    [] OTHER -> v
Parts(v) == IF v.type = 3 THEN ToTheEnd ELSE IF v.type \in {8, 10} THEN Count(Bytes(Size(v), 4)) ELSE 0

(* The length of a text, and the size of an array, is read as it is meant.   *)
ClearText(v) ==
  /\ v.type = 2 => Length(Bytes(Len(v.str), 2)) = Len(v.str)
  /\ v.type = 12 => Length(Bytes(Len(v.str), 4)) = Len(v.str)
ClearSize(v) == v.type \in {8, 10} => Count(Bytes(Size(v), 4)) = Size(v)

(* A value of the format at a place of the body, type by type.               *)
LEMMA TypeHeld ==
  ASSUME NEW p, NEW v \in All, body \in Seq(Byte), Held(p, FormatOf(v))
  PROVE  /\ p \in Nat /\ p + 1 \in Nat /\ p + 1 <= Len(body) /\ Len(body) \in Nat /\ body[p + 1] = v.type
         /\ ~(p >= Len(body))
         /\ Held(p + 1, Tail0(v)) /\ Tail0(v) \in Seq(Byte) /\ Len(FormatOf(v)) = 1 + Len(Tail0(v))
<1> DEFINE head == <<v.type>>
<1>1. /\ FormatOf(v) = head \o Tail0(v) /\ Tail0(v) \in Seq(Byte)
      /\ Len(FormatOf(v)) = 1 + Len(Tail0(v))
  BY FormatOfFacts
<1>2. head \in Seq(Byte) /\ Len(head) = 1 /\ head[1] = v.type
  <2>1. v.type \in Byte
    BY TailCases DEF Byte
  <2> QED  BY <2>1
<1> HIDE DEF head
<1>3. Held(p, head) /\ Held(p + 1, Tail0(v))
  <2>1. Held(p, head \o Tail0(v))
    BY <1>1
  <2>2. Held(p, head) /\ Held(p + Len(head), Tail0(v))
    BY <1>1, <1>2, <2>1, HeldParts
  <2> QED  BY <1>2, <2>2
<1>4. p \in Nat /\ p + 1 <= Len(body) /\ body[p + 1] = v.type
  BY <1>2, <1>3 DEF Held
<1>5. Len(body) \in Nat
  OBVIOUS
<1> QED  BY <1>1, <1>3, <1>4, <1>5

LEMMA TextHeld ==
  ASSUME NEW p, NEW v \in All, NEW key, NEW k, v.type \in {2, 12}, k = IF v.type = 2 THEN 2 ELSE 4,
         body \in Seq(Byte), Len(body) <= MaxBody, Held(p, FormatOf(v))
  PROVE  /\ ClearText(v) =>
              Space(p) = Len(FormatOf(v)) /\ Call(key, p, Space(p)) = Frame(key, v, 0)
         /\ ~ClearText(v) => Space(p) > Len(body)
<1>1. /\ p \in Nat /\ p + 1 \in Nat /\ p + 1 <= Len(body) /\ Len(body) \in Nat /\ body[p + 1] = v.type
      /\ ~(p >= Len(body))
      /\ Held(p + 1, Tail0(v)) /\ Len(FormatOf(v)) = 1 + Len(Tail0(v))
  BY TypeHeld
<1>2. v.str \in Seq(Byte) /\ Tail0(v) = FormatStr(v.str, k) /\ k \in {2, 4}
  <2>1. CASE v.type = 2
    BY <2>1, TailCases
  <2>2. CASE v.type = 12
    BY <2>2, TailCases
  <2> QED  BY <2>1, <2>2
<1> DEFINE n == Len(v.str)
           m == Length(Bytes(n, k))
<1>3. /\ n \in Nat /\ (p + 1) + (k + n) <= Len(body)
      /\ StrSpace(p + 1, k) = k + m
      /\ Piece((p + 1) + k, n) = v.str
  <2>1. Held(p + 1, FormatStr(v.str, k))
    BY <1>1, <1>2
  <2> QED  BY <1>2, <2>1, StrHeld
<1>4. Len(Tail0(v)) = k + n
  BY <1>2, FormatStrFacts
<1>5. ClearText(v) <=> m = n
  BY DEF ClearText
<1>6. m \in {n, Huge}
  <2>1. CASE k = 2
    <3>1. v.type = 2
      BY <2>1
    <3>2. n < 65536
      BY <3>1, TailCases, SMT
    <3> QED  BY <1>3, <2>1, <3>2, LengthOfTwo, SMT
  <2>2. CASE k = 4
    <3>1. n <= MaxBody
      <4>1. ASSUME NEW a \in Nat, NEW i \in Nat, NEW j \in Nat, NEW l \in Nat, (a + 1) + (i + j) <= l
            PROVE  j <= l
        BY <4>1
      <4>2. n <= Len(body)
        <5>1. k \in Nat
          BY <1>2
        <5> HIDE DEF n
        <5> QED  BY <1>1, <1>3, <4>1, <5>1
      <4> QED  BY <4>2, <1>1, <1>3, HugeFacts
    <3>2. n < 16777216
      BY <1>3, <3>1, BodyAssumption, SMT
    <3> QED  BY <1>3, <2>2, <3>2, LengthOfFour, SMT
  <2> QED  BY <1>2, <2>1, <2>2
<1>7. Space(p) = 1 + (k + m)
  <2>1. Space(p) = 1 + StrSpace(p + 1, k)
    <3>1. CASE v.type = 2
      BY <1>1, <3>1, TypeFacts DEF Space
    <3>2. CASE v.type = 12
      BY <1>1, <3>2, TypeFacts DEF Space
    <3> QED  BY <3>1, <3>2
  <2> QED  BY <1>3, <2>1
<1> HIDE DEF n, m
<1>8. k \in Nat
  BY <1>2
<1>9. ASSUME m = n
      PROVE  Space(p) = Len(FormatOf(v)) /\ Call(key, p, Space(p)) = Frame(key, v, 0)
  <2>1. Space(p) = 1 + (k + n) /\ Space(p) = Len(FormatOf(v))
    BY <1>1, <1>4, <1>7, <1>9
  <2>2. CASE v.type = 2
    <3>1. Space(p) - 3 = n /\ p + 3 = (p + 1) + k
      BY <1>1, <1>3, <2>1, <2>2
    <3>2. Call(key, p, Space(p)) = Frame(key, Str(Piece(p + 3, Space(p) - 3)), 0)
      BY <1>1, <2>2, TypeFacts DEF Call
    <3>3. v = Str(v.str)
      BY <2>2, AllShapes, ShapeFacts
    <3> QED  BY <1>3, <2>1, <3>1, <3>2, <3>3
  <2>3. CASE v.type = 12
    <3>1. Space(p) - 5 = n /\ p + 5 = (p + 1) + k
      BY <1>1, <1>3, <2>1, <2>3
    <3>2. Call(key, p, Space(p)) = Frame(key, Long(Piece(p + 5, Space(p) - 5)), 0)
      BY <1>1, <2>3, TypeFacts DEF Call
    <3>3. v = Long(v.str)
      BY <2>3, AllShapes, ShapeFacts
    <3> QED  BY <1>3, <2>1, <3>1, <3>2, <3>3
  <2> QED  BY <2>2, <2>3
<1>10. ASSUME m # n  PROVE Space(p) > Len(body)
  <2>1. m = Huge
    BY <1>6, <1>10
  <2>2. Len(body) < Huge /\ Huge \in Nat
    BY <1>1, HugeFacts
  <2> QED  BY <1>1, <1>7, <1>8, <2>1, <2>2
<1> QED  BY <1>5, <1>9, <1>10

(* A value is put together from its fields.                                  *)
LEMMA FieldFacts ==
  ASSUME NEW v \in All
  PROVE  /\ v.type = 0 => v = Number(v.dbl)
         /\ v.type = 1 => v = Bool(v.bool)
         /\ v.type = 2 => v = Str(v.str)
         /\ v.type = 3 => v = Object(v.map) /\ v.map \in Seq(Key \X All)
         /\ v.type = 5 => v = [type |-> 5]
         /\ v.type = 8 => v = Ecma(v.map) /\ v.map \in Seq(Key \X All)
         /\ v.type = 10 => v = Strict(v.list) /\ v.list \in Seq(All)
         /\ v.type = 12 => v = Long(v.str)
<1>1. v \in Shapes(All)
  BY AllShapes
<1>2. Null = [type |-> 5]
  BY TypeFacts DEF Null
<1>3. v.type = 5 => v = [type |-> 5]
  BY <1>1, <1>2, ShapeFacts
<1>4. /\ v.type = 3 => v.map \in Seq(Key \X All)
      /\ v.type = 8 => v.map \in Seq(Key \X All)
      /\ v.type = 10 => v.list \in Seq(All)
  BY <1>1, ShapeFacts
<1>5. /\ v.type = 0 => v = Number(v.dbl)
      /\ v.type = 1 => v = Bool(v.bool)
      /\ v.type = 2 => v = Str(v.str)
      /\ v.type = 12 => v = Long(v.str)
  BY <1>1, ShapeFacts
<1>6. /\ v.type = 3 => v = Object(v.map)
      /\ v.type = 8 => v = Ecma(v.map)
      /\ v.type = 10 => v = Strict(v.list)
  BY <1>1, ShapeFacts
<1> QED  BY <1>3, <1>4, <1>5, <1>6

LEMMA StartOf ==
  ASSUME NEW S, NEW s \in Seq(S)
  PROVE  SubSeq(s, 1, 0) = <<>> /\ SubSeq(s, 1, Len(s)) = s
  OBVIOUS

(* What the decoder makes of a value of the format.                          *)
LEMMA SpaceHeld ==
  ASSUME NEW p, NEW v \in All, NEW key, body \in Seq(Byte), Len(body) <= MaxBody, Held(p, FormatOf(v))
  PROVE  /\ ClearText(v) =>
              Space(p) = Len(FormatOf(v)) /\ Call(key, p, Space(p)) = Frame(key, Begun(v, 0), Parts(v))
         /\ ~ClearText(v) => Space(p) > Len(body)
<1>1. /\ p \in Nat /\ p + 1 \in Nat /\ p + 1 <= Len(body) /\ Len(body) \in Nat /\ body[p + 1] = v.type
      /\ ~(p >= Len(body))
      /\ Held(p + 1, Tail0(v)) /\ Len(FormatOf(v)) = 1 + Len(Tail0(v)) /\ Tail0(v) \in Seq(Byte)
  BY TypeHeld
<1>2. Piece(p + 1, Len(Tail0(v))) = Tail0(v)
  BY <1>1, HeldPiece
<1>3. v.type \in {0, 1, 2, 3, 5, 8, 10, 12}
  BY TailCases
<1>4. CASE v.type \in {2, 12}
  <2> DEFINE k == IF v.type = 2 THEN 2 ELSE 4
  <2>1. /\ ClearText(v) => Space(p) = Len(FormatOf(v)) /\ Call(key, p, Space(p)) = Frame(key, v, 0)
        /\ ~ClearText(v) => Space(p) > Len(body)
    <3>1. k = IF v.type = 2 THEN 2 ELSE 4
      OBVIOUS
    <3> HIDE DEF k
    <3> QED  BY <1>4, <3>1, TextHeld
  <2>2. Begun(v, 0) = v /\ Parts(v) = 0
    BY <1>4 DEF Begun, Parts
  <2> QED  BY <2>1, <2>2
<1>5. CASE v.type \notin {2, 12}
  <2>1. ClearText(v)
    BY <1>5 DEF ClearText
  <2>2. CASE v.type = 0
    <3>1. Tail0(v) = Reverse(v.dbl) /\ v.dbl \in Seq(Byte) /\ Len(v.dbl) = 8 /\ v = Number(v.dbl)
      <4>1. Tail0(v) = Reverse(v.dbl) /\ v.dbl \in Seq(Byte) /\ Len(v.dbl) = 8
        BY <2>2, TailCases
      <4>2. v = Number(v.dbl)
        BY <2>2, FieldFacts
      <4> QED  BY <4>1, <4>2
    <3>2. Len(Tail0(v)) = 8 /\ SwapGeneric(Tail0(v)) = v.dbl
      BY <3>1, SwapFacts, SwapTwice
    <3>3. Space(p) = 1 + 8
      BY <1>1, <2>2, TypeFacts DEF Space
    <3>4. Call(key, p, Space(p)) = Frame(key, Number(SwapGeneric(Piece(p + 1, 8))), 0)
      BY <1>1, <2>2, TypeFacts DEF Call
    <3>5. Begun(v, 0) = v /\ Parts(v) = 0
      BY <2>2 DEF Begun, Parts
    <3> QED  BY <1>1, <1>2, <2>1, <3>1, <3>2, <3>3, <3>4, <3>5
  <2>3. CASE v.type = 1
    <3>1. Tail0(v) = <<v.bool>> /\ v = Bool(v.bool)
      <4>1. Tail0(v) = <<v.bool>>
        BY <2>3, TailCases
      <4>2. v = Bool(v.bool)
        BY <2>3, FieldFacts
      <4> QED  BY <4>1, <4>2
    <3>2. Len(Tail0(v)) = 1 /\ Tail0(v)[1] = v.bool
      BY <3>1
    <3>3. Space(p) = 1 + 1
      BY <1>1, <2>3, TypeFacts DEF Space
    <3>4. Call(key, p, Space(p)) = Frame(key, Bool(body[p + 2]), 0)
      BY <1>1, <2>3, TypeFacts DEF Call
    <3>5. Begun(v, 0) = v /\ Parts(v) = 0
      BY <2>3 DEF Begun, Parts
    <3>6. body[p + 2] = v.bool
      <4>1. body[(p + 1) + 1] = v.bool
        BY <1>1, <3>2 DEF Held
      <4> QED  BY <1>1, <4>1
    <3> QED  BY <1>1, <2>1, <3>1, <3>2, <3>3, <3>4, <3>5, <3>6
  <2>4. CASE v.type \in {3, 5}
    <3>1. Tail0(v) = <<>>
      BY <2>4, TailCases
    <3>2. Len(Tail0(v)) = 0
      BY <3>1, EmptySeq
    <3>3. Space(p) = 1 + 0
      BY <1>1, <2>4, TypeFacts DEF Space
    <3>4. Call(key, p, Space(p)) = Frame(key, Begun(v, 0), Parts(v))
      <4>1. CASE v.type = 3
        <5>1. Call(key, p, Space(p)) = Frame(key, Object(<<>>), ToTheEnd)
          BY <1>1, <4>1, TypeFacts DEF Call
        <5>2. v.map \in Seq(Key \X All)
          BY <4>1, FieldFacts
        <5>3. SubSeq(v.map, 1, 0) = <<>>
          BY <5>2, StartOf
        <5>4. Begun(v, 0) = Object(SubSeq(v.map, 1, 0)) /\ Parts(v) = ToTheEnd
          BY <4>1 DEF Begun, Parts
        <5> QED  BY <5>1, <5>3, <5>4
      <4>2. CASE v.type = 5
        <5>1. Call(key, p, Space(p)) = Frame(key, [type |-> 5], 0)
          BY <1>1, <4>2, TypeFacts DEF Call
        <5>2. v = [type |-> 5]
          BY <4>2, FieldFacts
        <5>3. Begun(v, 0) = v /\ Parts(v) = 0
          BY <4>2 DEF Begun, Parts
        <5> QED  BY <5>1, <5>2, <5>3
      <4> QED  BY <2>4, <4>1, <4>2
    <3> QED  BY <1>1, <2>1, <3>2, <3>3, <3>4
  <2>5. CASE v.type \in {8, 10}
    <3>1. Tail0(v) = Bytes(Size(v), 4) /\ Size(v) \in Nat
      BY <2>5, TailCases
    <3>2. Len(Tail0(v)) = 4
      BY <3>1, BytesFacts
    <3>3. Space(p) = 1 + 4
      BY <1>1, <2>5, TypeFacts DEF Space
    <3>4. Piece(p + 1, 4) = Bytes(Size(v), 4)
      BY <1>2, <3>1, <3>2
    <3>5. Parts(v) = Count(Bytes(Size(v), 4))
      BY <2>5 DEF Parts
    <3>6. Call(key, p, Space(p)) = Frame(key, Begun(v, 0), Parts(v))
      <4>1. CASE v.type = 8
        <5>1. Call(key, p, Space(p)) = Frame(key, Ecma(<<>>), Count(Piece(p + 1, 4)))
          BY <1>1, <4>1, TypeFacts DEF Call
        <5>2. v.map \in Seq(Key \X All)
          BY <4>1, FieldFacts
        <5>3. SubSeq(v.map, 1, 0) = <<>>
          BY <5>2, StartOf
        <5>4. Begun(v, 0) = Ecma(SubSeq(v.map, 1, 0))
          BY <4>1 DEF Begun
        <5> QED  BY <3>4, <3>5, <5>1, <5>3, <5>4
      <4>2. CASE v.type = 10
        <5>1. Call(key, p, Space(p)) = Frame(key, Strict(<<>>), Count(Piece(p + 1, 4)))
          BY <1>1, <4>2, TypeFacts DEF Call
        <5>2. v.list \in Seq(All)
          BY <4>2, FieldFacts
        <5>3. SubSeq(v.list, 1, 0) = <<>>
          BY <5>2, StartOf
        <5>4. Begun(v, 0) = Strict(SubSeq(v.list, 1, 0))
          BY <4>2 DEF Begun
        <5> QED  BY <3>4, <3>5, <5>1, <5>3, <5>4
      <4> QED  BY <2>5, <4>1, <4>2
    <3> QED  BY <1>1, <2>1, <3>2, <3>3, <3>6
  <2> QED  BY <1>3, <1>5, <2>2, <2>3, <2>4, <2>5
<1> QED  BY <1>4, <1>5

(* The key of the next part.                                                 *)
ClearKey(st) == Keyed(Last(st).v) => Length(Bytes(Len(NextKey(st)), 2)) = Len(NextKey(st))
KeySpace(st, p) == IF Keyed(Last(st).v) THEN StrSpace(p, 2) ELSE 0
KeyRead(st, p) == IF Keyed(Last(st).v) THEN CStr(Piece(p + 2, KeySpace(st, p) - 2)) ELSE <<>>
KeyMeant(st) == IF Keyed(Last(st).v) THEN NextKey(st) ELSE <<>>

LEMMA ClearParts ==
  ASSUME NEW st \in Stack, Inside(st)
  PROVE  Clear(st) <=> ClearKey(st) /\ ClearText(NextChild(st)) /\ ClearSize(NextChild(st))
<1> DEFINE c == NextChild(st)
<1>1. Clear(st) <=> /\ ClearKey(st)
                    /\ c.type = 2 => Length(Bytes(Len(c.str), 2)) = Len(c.str)
                    /\ c.type = 12 => Length(Bytes(Len(c.str), 4)) = Len(c.str)
                    /\ c.type \in {8, 10} => Count(Bytes(Size(c), 4)) = Size(c)
  BY TypeFacts DEF Clear, ClearKey
<1> QED  BY <1>1 DEF ClearText, ClearSize

LEMMA KeyHeld ==
  ASSUME NEW st \in Stack, NEW p, Inside(st), body \in Seq(Byte), Len(body) <= MaxBody,
         Held(p, FormatStep(st))
  PROVE  /\ KeySpace(st, p) \in Nat
         /\ ClearKey(st) =>
              /\ KeySpace(st, p) = Len(KeyPart(st)) /\ KeyRead(st, p) = KeyMeant(st)
              /\ Held(p + KeySpace(st, p), FormatOf(NextChild(st)))
         /\ ~ClearKey(st) => KeySpace(st, p) > Len(body)
<1>1. /\ KeyPart(st) \in Seq(Byte) /\ FormatOf(NextChild(st)) \in Seq(Byte)
      /\ FormatStep(st) = KeyPart(st) \o FormatOf(NextChild(st))
  BY KeyPartFacts
<1>2. Held(p, KeyPart(st)) /\ Held(p + Len(KeyPart(st)), FormatOf(NextChild(st)))
  BY <1>1, HeldParts
<1>3. CASE Keyed(Last(st).v)
  <2> DEFINE key == NextKey(st)
             n == Len(key)
             m == Length(Bytes(n, 2))
  <2>1. key \in Key
    BY <1>3, EnterFacts
  <2>2. key \in Seq(Byte) /\ n \in Nat /\ CStr(key) = key
    BY <2>1, KeyFacts
  <2>3. KeyPart(st) = FormatStr(key, 2) /\ Len(KeyPart(st)) = 2 + n
    BY <1>3, KeyPartFacts DEF KeyPart
  <2>4. p \in Nat /\ StrSpace(p, 2) = 2 + m /\ Piece(p + 2, n) = key
    <3>1. Held(p, FormatStr(key, 2)) /\ 2 \in {2, 4}
      BY <1>2, <2>3
    <3> QED  BY <2>2, <3>1, StrHeld
  <2>5. m \in {n, Huge}
    <3>1. n < 65536
      BY <2>1, KeyFacts, SMT
    <3> QED  BY <2>2, <3>1, LengthOfTwo, SMT
  <2>6. KeySpace(st, p) = 2 + m /\ (ClearKey(st) <=> m = n)
    BY <1>3, <2>4 DEF KeySpace, ClearKey
  <2>7. KeyRead(st, p) = CStr(Piece(p + 2, KeySpace(st, p) - 2)) /\ KeyMeant(st) = key
    BY <1>3 DEF KeyRead, KeyMeant
  <2> HIDE DEF key, n, m
  <2>8. m \in Nat
    BY <2>2, <2>5, HugeFacts
  <2>9. ASSUME m = n
        PROVE  KeySpace(st, p) = Len(KeyPart(st)) /\ KeyRead(st, p) = KeyMeant(st)
    <3>1. KeySpace(st, p) - 2 = n
      BY <2>2, <2>6, <2>9
    <3> QED  BY <2>2, <2>3, <2>4, <2>6, <2>7, <2>9, <3>1
  <2>10. ASSUME m # n  PROVE KeySpace(st, p) > Len(body)
    <3>1. m = Huge
      BY <2>5, <2>10
    <3>2. Len(body) < Huge /\ Huge \in Nat /\ Len(body) \in Nat
      <4>1. Len(body) \in Nat
        OBVIOUS
      <4> QED  BY <4>1, HugeFacts
    <3> QED  BY <2>6, <3>1, <3>2
  <2>11. KeySpace(st, p) \in Nat
    BY <2>6, <2>8
  <2> QED  BY <1>2, <2>6, <2>9, <2>10, <2>11
<1>4. CASE ~Keyed(Last(st).v)
  <2>1. KeySpace(st, p) = 0 /\ KeyRead(st, p) = <<>> /\ KeyMeant(st) = <<>> /\ ClearKey(st)
    BY <1>4 DEF KeySpace, KeyRead, KeyMeant, ClearKey
  <2>2. Len(KeyPart(st)) = 0
    BY <1>4, KeyPartFacts
  <2> QED  BY <1>2, <2>1, <2>2
<1> QED  BY <1>3, <1>4

(* A call that is read as it is meant, and one that is not: it goes beyond   *)
(* the body, or expects more parts than there are bytes.                     *)
LEMMA CallHeld ==
  ASSUME NEW st \in Stack, NEW p, Inside(st), body \in Seq(Byte), Len(body) <= MaxBody,
         Held(p, FormatStep(st))
  PROVE  LET n == KeySpace(st, p)
             q == p + n
             end == q + Space(q)
             c == NextChild(st)
         IN /\ p \in Nat /\ n \in Nat /\ end \in Nat /\ end > p
            /\ Clear(st) =>
                 /\ end = p + Len(FormatStep(st)) /\ end <= Len(body)
                 /\ KeyRead(st, p) = KeyMeant(st)
                 /\ Call(KeyRead(st, p), q, Space(q)) = Frame(KeyMeant(st), Begun(c, 0), Parts(c))
                 /\ ClearSize(c)
            /\ ~Clear(st) /\ end <= Len(body) =>
                 /\ Call(KeyRead(st, p), q, Space(q)).left \in Nat
                 /\ Call(KeyRead(st, p), q, Space(q)).left > MaxBody
<1> DEFINE n == KeySpace(st, p)
           q == p + n
           m == Space(q)
           c == NextChild(st)
           k == Call(KeyRead(st, p), q, m)
<1>1. /\ KeyPart(st) \in Seq(Byte) /\ FormatOf(c) \in Seq(Byte)
      /\ FormatStep(st) = KeyPart(st) \o FormatOf(c)
  BY KeyPartFacts
<1>2. c \in All
  BY EnterFacts
<1>3. p \in Nat /\ n \in Nat /\ q \in Nat /\ Len(body) \in Nat
  <2>1. n \in Nat
    BY KeyHeld
  <2>2. p \in Nat /\ Len(body) \in Nat
    BY DEF Held
  <2> QED  BY <2>1, <2>2
<1>4. m \in Nat \ {0}
  BY <1>3, SpaceIsNumber
<1>5. Clear(st) <=> ClearKey(st) /\ ClearText(c) /\ ClearSize(c)
  BY ClearParts
<1>6. ClearKey(st) => n = Len(KeyPart(st)) /\ KeyRead(st, p) = KeyMeant(st) /\ Held(q, FormatOf(c))
  BY KeyHeld
<1>7. ~ClearKey(st) => n > Len(body)
  BY KeyHeld
<1>8. ASSUME ClearKey(st)
      PROVE  /\ ClearText(c) => m = Len(FormatOf(c)) /\ k = Frame(KeyRead(st, p), Begun(c, 0), Parts(c))
             /\ ~ClearText(c) => m > Len(body)
  BY <1>2, <1>6, <1>8, SpaceHeld
<1>9. ASSUME ClearKey(st)  PROVE q + Len(FormatOf(c)) <= Len(body)
  BY <1>6, <1>9 DEF Held
<1>10. Len(FormatStep(st)) = Len(KeyPart(st)) + Len(FormatOf(c)) /\ Len(FormatOf(c)) \in Nat
  <2> HIDE DEF c
  <2> QED  BY <1>1, ConcatFacts
<1> HIDE DEF n, m, c, k
<1>11. q + m \in Nat /\ q + m > p
  BY <1>3, <1>4
<1>12. ASSUME Clear(st)
       PROVE  /\ q + m = p + Len(FormatStep(st)) /\ q + m <= Len(body)
              /\ KeyRead(st, p) = KeyMeant(st)
              /\ k = Frame(KeyMeant(st), Begun(c, 0), Parts(c))
              /\ ClearSize(c)
  <2>1. m = Len(FormatOf(c)) /\ n = Len(KeyPart(st))
    BY <1>5, <1>6, <1>8, <1>12
  <2>2. q + m = p + Len(FormatStep(st))
    BY <1>3, <1>4, <1>10, <2>1
  <2> QED  BY <1>5, <1>6, <1>8, <1>9, <1>12, <2>1, <2>2
<1>13. ASSUME ~Clear(st), q + m <= Len(body)  PROVE k.left \in Nat /\ k.left > MaxBody
  <2>1. ClearKey(st)
    BY <1>3, <1>4, <1>7, <1>13
  <2>2. ClearText(c)
    BY <1>3, <1>4, <1>8, <1>13, <2>1
  <2>3. c.type \in {8, 10} /\ Count(Bytes(Size(c), 4)) # Size(c)
    BY <1>5, <1>13, <2>1, <2>2 DEF ClearSize
  <2>4. Size(c) \in Nat /\ Size(c) < 256
    BY <1>2, <2>3, TailCases
  <2>5. Count(Bytes(Size(c), 4)) > MaxBody
    BY <2>3, <2>4, CountOfFew
  <2>6. Count(Bytes(Size(c), 4)) \in Nat
    BY <2>4, BytesFacts, CountFacts
  <2>7. k.left = Parts(c) /\ Parts(c) = Count(Bytes(Size(c), 4))
    BY <1>8, <2>1, <2>2, <2>3 DEF Frame, Parts
  <2> QED  BY <2>5, <2>6, <2>7
<1> QED  BY <1>3, <1>11, <1>12, <1>13 DEF n, m, c, k

-----------------------------------------------------------------------------
(* The calls of the decoder                                                  *)

(* What the client's walk st makes of the calls of the decoder: each has the *)
(* parts that the walk is beyond.                                            *)
DoneAt(st, k) == IF k = Len(st) THEN st[k].at ELSE st[k].at - 1
KeyAt(st, k) == IF k > 1 /\ Keyed(st[k - 1].v) THEN st[k - 1].v.map[st[k - 1].at][1] ELSE <<>>
LeftAt(st, k) ==
  IF k = 1 \/ st[k].v.type = 3 THEN ToTheEnd
  ELSE IF st[k].v.type \in {8, 10} THEN Size(st[k].v) - st[k].at ELSE 0
FrameAt(st, k) == Frame(KeyAt(st, k), Begun(st[k].v, DoneAt(st, k)), LeftAt(st, k))
Frames(st) == [k \in 1..Len(st) |-> FrameAt(st, k)]

LEMMA FramesFacts ==
  ASSUME NEW st \in Stack
  PROVE  /\ Frames(st) \in Seq({FrameAt(st, k) : k \in 1..Len(st)}) /\ Len(Frames(st)) = Len(st)
         /\ \A k \in 1..Len(st) : Frames(st)[k] = FrameAt(st, k)
         /\ Last(Frames(st)) = FrameAt(st, Len(st))
<1> DEFINE S == {FrameAt(st, k) : k \in 1..Len(st)}
<1>1. Len(st) \in Nat \ {0}
  BY StackFacts
<1>2. Frames(st) \in [1..Len(st) -> S] /\ \A k \in 1..Len(st) : Frames(st)[k] = FrameAt(st, k)
  BY DEF Frames
<1> HIDE DEF S
<1>3. Frames(st) \in Seq(S) /\ Len(Frames(st)) = Len(st)
  BY <1>1, <1>2, IsSequence
<1>4. Len(st) \in 1..Len(st)
  BY <1>1
<1> QED  BY <1>2, <1>3, <1>4 DEF Last, S

(* A value with none of its parts, with one more, and with all of them.      *)
LEMMA BegunFacts ==
  ASSUME NEW v \in Node
  PROVE  /\ Begun(v, Size(v)) = v
         /\ \A n : Begun(v, n).type = v.type /\ (Keyed(Begun(v, n)) <=> Keyed(v))
<1>1. v.type \in {0, 1, 2, 3, 5, 8, 10, 12}
  BY NodeFacts
<1>2. ASSUME NEW n  PROVE Begun(v, n).type = v.type /\ (Keyed(Begun(v, n)) <=> Keyed(v))
  <2>1. Begun(v, n).type = v.type
    BY <1>1, TypeFacts DEF Begun, Object, Ecma, Strict
  <2> QED  BY <2>1 DEF Keyed
<1>3. ASSUME v \in All  PROVE Begun(v, Size(v)) = v
  <2>1. CASE v.type = 3
    <3>1. v = Object(v.map) /\ v.map \in Seq(Key \X All)
      BY <1>3, <2>1, FieldFacts
    <3>2. Size(v) = Len(v.map)
      BY <2>1, NodeFacts
    <3>3. SubSeq(v.map, 1, Size(v)) = v.map
      BY <3>1, <3>2, StartOf
    <3>4. Begun(v, Size(v)) = Object(SubSeq(v.map, 1, Size(v)))
      BY <2>1 DEF Begun
    <3> QED  BY <3>1, <3>3, <3>4
  <2>2. CASE v.type = 8
    <3>1. v = Ecma(v.map) /\ v.map \in Seq(Key \X All)
      BY <1>3, <2>2, FieldFacts
    <3>2. Size(v) = Len(v.map)
      BY <2>2, NodeFacts
    <3>3. SubSeq(v.map, 1, Size(v)) = v.map
      BY <3>1, <3>2, StartOf
    <3>4. Begun(v, Size(v)) = Ecma(SubSeq(v.map, 1, Size(v)))
      BY <2>2 DEF Begun
    <3> QED  BY <3>1, <3>3, <3>4
  <2>3. CASE v.type = 10
    <3>1. v = Strict(v.list) /\ v.list \in Seq(All)
      BY <1>3, <2>3, FieldFacts
    <3>2. Size(v) = Len(v.list)
      BY <2>3, NodeFacts
    <3>3. SubSeq(v.list, 1, Size(v)) = v.list
      BY <3>1, <3>2, StartOf
    <3>4. Begun(v, Size(v)) = Strict(SubSeq(v.list, 1, Size(v)))
      BY <2>3 DEF Begun
    <3> QED  BY <3>1, <3>3, <3>4
  <2>4. CASE v.type \notin {3, 8, 10}
    BY <2>4 DEF Begun
  <2> QED  BY <2>1, <2>2, <2>3, <2>4
<1>4. ASSUME v \notin All  PROVE Begun(v, Size(v)) = v
  <2>1. PICK l \in Seq(All) : v = Strict(l)
    BY <1>4 DEF Node
  <2>2. v.type = 10 /\ v.list = l /\ Size(v) = Len(l)
    BY <2>1, StartFacts
  <2>3. SubSeq(l, 1, Len(l)) = l
    BY StartOf
  <2>4. Begun(v, Size(v)) = Strict(SubSeq(v.list, 1, Size(v)))
    BY <2>2 DEF Begun
  <2> QED  BY <2>1, <2>2, <2>3, <2>4
<1> QED  BY <1>2, <1>3, <1>4

LEMMA OneMore ==
  ASSUME NEW S, NEW s \in Seq(S), NEW n \in Nat, n < Len(s)
  PROVE  Append(SubSeq(s, 1, n), s[n + 1]) = SubSeq(s, 1, n + 1)
<1> DEFINE a == SubSeq(s, 1, n)
           b == SubSeq(s, 1, n + 1)
<1>0. Len(s) \in Nat /\ \A i \in 1..Len(s) : s[i] \in S
  OBVIOUS
<1>1. a \in Seq(S) /\ Len(a) = n /\ \A i \in 1..n : a[i] = s[i]
  <2>1. \A i \in 1..n : s[i] \in S
    BY <1>0
  <2>2. /\ a \in Seq(S) /\ Len(a) = (IF 1 <= n THEN n - 1 + 1 ELSE 0)
        /\ \A i \in 1..(n - 1 + 1) : a[i] = s[1 + i - 1]
    BY <2>1, SubSeqProperties
  <2> HIDE DEF a
  <2> QED  BY <2>2
<1>2. b \in Seq(S) /\ Len(b) = n + 1 /\ \A i \in 1..(n + 1) : b[i] = s[i]
  <2>1. \A i \in 1..(n + 1) : s[i] \in S
    BY <1>0
  <2>2. /\ b \in Seq(S) /\ Len(b) = (IF 1 <= n + 1 THEN (n + 1) - 1 + 1 ELSE 0)
        /\ \A i \in 1..((n + 1) - 1 + 1) : b[i] = s[1 + i - 1]
    BY <2>1, SubSeqProperties
  <2> HIDE DEF b
  <2> QED  BY <2>2
<1> HIDE DEF a, b
<1>3. s[n + 1] \in S
  BY <1>0
<1>4. /\ Append(a, s[n + 1]) \in Seq(S) /\ Len(Append(a, s[n + 1])) = n + 1
      /\ \A i \in 1..n : Append(a, s[n + 1])[i] = a[i]
      /\ Append(a, s[n + 1])[n + 1] = s[n + 1]
  BY <1>1, <1>3, AppendProperties
<1>5. ASSUME NEW i \in 1..(n + 1)  PROVE Append(a, s[n + 1])[i] = b[i]
  <2>1. i \in 1..n \/ i = n + 1
    OBVIOUS
  <2> QED  BY <1>1, <1>2, <1>4, <2>1
<1>6. Append(a, s[n + 1]) = b
  BY <1>2, <1>4, <1>5, SeqEqual
<1> QED  BY <1>6 DEF a, b

(* A part goes to the value that it is part of.                              *)
LEMMA FilledFacts ==
  ASSUME NEW v \in Node, NEW n \in Nat, n < Size(v), NEW f, f.v = Child(v, n + 1),
         Keyed(v) => f.key = v.map[n + 1][1]
  PROVE  Filled(Begun(v, n), f) = Begun(v, n + 1)
<1>1. Keyed(Begun(v, n)) <=> Keyed(v)
  BY BegunFacts
<1>2. CASE v.type \in {3, 8}
  <2>1. Keyed(v) /\ v.map \in Seq(Key \X All) /\ Size(v) = Len(v.map)
    BY <1>2, NodeFacts
  <2>2. n + 1 \in 1..Size(v) /\ n < Len(v.map)
    BY <2>1
  <2>3. v.map[n + 1] = <<f.key, f.v>>
    <3>1. v.map[n + 1] = <<v.map[n + 1][1], Child(v, n + 1)>>
      BY <2>1, <2>2, PartFacts
    <3>2. f.key = v.map[n + 1][1] /\ f.v = Child(v, n + 1)
      BY <2>1
    <3> QED  BY <3>1, <3>2
  <2>4. Append(SubSeq(v.map, 1, n), <<f.key, f.v>>) = SubSeq(v.map, 1, n + 1)
    <3>1. Append(SubSeq(v.map, 1, n), v.map[n + 1]) = SubSeq(v.map, 1, n + 1)
      BY <2>1, <2>2, OneMore
    <3> QED  BY <2>3, <3>1
  <2> DEFINE a == SubSeq(v.map, 1, n)
             b == SubSeq(v.map, 1, n + 1)
             x == <<f.key, f.v>>
  <2>5. Filled(Begun(v, n), f) = [Begun(v, n) EXCEPT !.map = Append(@, x)]
    BY <1>1, <2>1 DEF Filled
  <2>6. /\ v.type = 3 => Begun(v, n) = Object(a) /\ Begun(v, n + 1) = Object(b)
        /\ v.type = 8 => Begun(v, n) = Ecma(a) /\ Begun(v, n + 1) = Ecma(b)
    BY DEF Begun
  <2>7. Append(a, x) = b
    BY <2>4
  <2> HIDE DEF a, b, x
  <2>8. /\ [Object(a) EXCEPT !.map = Append(@, x)] = Object(Append(a, x))
        /\ [Ecma(a) EXCEPT !.map = Append(@, x)] = Ecma(Append(a, x))
    <3>1. Object(a).map = a /\ Ecma(a).map = a
      BY DEF Object, Ecma
    <3>2. ASSUME NEW w
          PROVE  [Object(a) EXCEPT !.map = w] = Object(w) /\ [Ecma(a) EXCEPT !.map = w] = Ecma(w)
      BY DEF Object, Ecma
    <3> QED  BY <3>1, <3>2
  <2> QED  BY <1>2, <2>5, <2>6, <2>7, <2>8
<1>3. CASE v.type = 10
  <2>1. ~Keyed(v) /\ v.list \in Seq(All) /\ Size(v) = Len(v.list)
    BY <1>3, NodeFacts
  <2>2. n + 1 \in 1..Size(v) /\ n < Len(v.list)
    BY <2>1
  <2>3. f.v = v.list[n + 1]
    BY <2>1, <2>2, PartFacts
  <2> DEFINE a == SubSeq(v.list, 1, n)
             b == SubSeq(v.list, 1, n + 1)
  <2>4. Append(a, f.v) = b
    BY <2>1, <2>2, <2>3, OneMore
  <2>5. Filled(Begun(v, n), f) = [Begun(v, n) EXCEPT !.list = Append(@, f.v)]
    BY <1>1, <2>1 DEF Filled
  <2>6. Begun(v, n) = Strict(a) /\ Begun(v, n + 1) = Strict(b)
    BY <1>3 DEF Begun
  <2> HIDE DEF a, b
  <2>7. [Strict(a) EXCEPT !.list = Append(@, f.v)] = Strict(Append(a, f.v))
    <3>1. Strict(a).list = a
      BY DEF Strict
    <3>2. ASSUME NEW w  PROVE [Strict(a) EXCEPT !.list = w] = Strict(w)
      BY DEF Strict
    <3> QED  BY <3>1, <3>2
  <2> QED  BY <2>4, <2>5, <2>6, <2>7
<1>4. CASE v.type \notin {3, 8, 10}
  <2>1. Size(v) = 0
    BY <1>4, NodeFacts
  <2> QED  BY <2>1
<1> QED  BY <1>2, <1>3, <1>4

(* Another call, and the return of one, in any sequence of calls.            *)
Calls(S, fr, a, b, u) == fr \in Seq(S) /\ Len(fr) > 0 /\ u = Front(fr) \o <<a, b>>

Called(S, fr, a, b, u) ==
  /\ u \in Seq(S \cup {a, b}) /\ Len(u) = Len(fr) + 1
  /\ \A k \in 1..(Len(fr) - 1) : u[k] = fr[k]
  /\ u[Len(fr)] = a /\ u[Len(fr) + 1] = b

Returns(S, fr, a, u) == fr \in Seq(S) /\ Len(fr) > 1 /\ u = Append(Front(Front(fr)), a)

Returned(S, fr, a, u) ==
  /\ u \in Seq(S \cup {a}) /\ Len(u) = Len(fr) - 1
  /\ \A k \in 1..(Len(fr) - 2) : u[k] = fr[k]
  /\ u[Len(fr) - 1] = a

LEMMA CallShape ==
  ASSUME NEW S, NEW fr, NEW a, NEW b, NEW u, Calls(S, fr, a, b, u)
  PROVE  Called(S, fr, a, b, u)
<1>0. fr \in Seq(S) /\ Len(fr) > 0 /\ u = Front(fr) \o <<a, b>>
  BY DEF Calls
<1> DEFINE T == S \cup {a, b}
           p == <<a, b>>
           n == Len(fr)
<1>1. fr \in Seq(T) /\ n \in Nat \ {0}
  <2>1. S \subseteq T
    OBVIOUS
  <2> QED  BY <1>0, <2>1, SeqMonotonic
<1>2. p \in Seq(T) /\ Len(p) = 2 /\ p[1] = a /\ p[2] = b
  OBVIOUS
<1> HIDE DEF T, p
<1>3. Front(fr) \in Seq(T) /\ Len(Front(fr)) = n - 1 /\ \A k \in 1..(n - 1) : Front(fr)[k] = fr[k]
  BY <1>1, FrontFacts
<1>4. /\ u \in Seq(T) /\ Len(u) = Len(Front(fr)) + Len(p)
      /\ \A k \in 1..Len(Front(fr)) : u[k] = Front(fr)[k]
      /\ \A k \in 1..Len(p) : u[Len(Front(fr)) + k] = p[k]
  <2> DEFINE h == Front(fr)
  <2>1. u = h \o p
    BY <1>0 DEF p
  <2>2. h \in Seq(T)
    BY <1>3
  <2> HIDE DEF h
  <2>3. /\ h \o p \in Seq(T) /\ Len(h \o p) = Len(h) + Len(p)
        /\ \A k \in 1..Len(h) : (h \o p)[k] = h[k]
        /\ \A k \in 1..Len(p) : (h \o p)[Len(h) + k] = p[k]
    <3>1. p \in Seq(T)
      BY <1>2
    <3> QED  BY <2>2, <3>1, ConcatFacts
  <2>4. /\ u \in Seq(T) /\ Len(u) = Len(h) + Len(p)
        /\ \A k \in 1..Len(h) : u[k] = h[k]
        /\ \A k \in 1..Len(p) : u[Len(h) + k] = p[k]
    <3> DEFINE w == h \o p
    <3>1. u = w
      BY <2>1
    <3>2. /\ w \in Seq(T) /\ Len(w) = Len(h) + Len(p)
          /\ \A k \in 1..Len(h) : w[k] = h[k]
          /\ \A k \in 1..Len(p) : w[Len(h) + k] = p[k]
      BY <2>3
    <3> HIDE DEF w
    <3> QED  BY <3>1, <3>2
  <2> QED  BY <2>4 DEF h
<1> HIDE DEF n
<1>5. u \in Seq(T) /\ Len(u) = n + 1 /\ \A k \in 1..(n - 1) : u[k] = fr[k]
  BY <1>1, <1>2, <1>3, <1>4
<1>6. u[n] = a /\ u[n + 1] = b
  <2>1. u[(n - 1) + 1] = a /\ u[(n - 1) + 2] = b
    BY <1>2, <1>3, <1>4
  <2>2. (n - 1) + 1 = n /\ (n - 1) + 2 = n + 1
    BY <1>1
  <2> QED  BY <2>1, <2>2
<1> QED  BY <1>5, <1>6 DEF T, n, Called

LEMMA ReturnShape ==
  ASSUME NEW S, NEW fr, NEW a, NEW u, Returns(S, fr, a, u)
  PROVE  Returned(S, fr, a, u)
<1>0. fr \in Seq(S) /\ Len(fr) > 1 /\ u = Append(Front(Front(fr)), a)
  BY DEF Returns
<1> DEFINE T == S \cup {a}
           n == Len(fr)
<1>1. fr \in Seq(T) /\ n \in Nat /\ n > 1 /\ a \in T
  <2>1. S \subseteq T
    OBVIOUS
  <2> QED  BY <1>0, <2>1, SeqMonotonic
<1> HIDE DEF T
<1>2. Front(fr) \in Seq(T) /\ Len(Front(fr)) = n - 1 /\ \A k \in 1..(n - 1) : Front(fr)[k] = fr[k]
  BY <1>1, FrontFacts
<1> HIDE DEF n
<1>3. /\ Front(Front(fr)) \in Seq(T) /\ Len(Front(Front(fr))) = n - 2
      /\ \A k \in 1..(n - 2) : Front(Front(fr))[k] = fr[k]
  <2> DEFINE g == Front(fr)
  <2>1. g \in Seq(T) /\ Len(g) = n - 1 /\ Len(g) > 0 /\ n - 1 - 1 = n - 2
    BY <1>1, <1>2
  <2> HIDE DEF g
  <2>2. Front(g) \in Seq(T) /\ Len(Front(g)) = n - 2 /\ \A k \in 1..(n - 2) : Front(g)[k] = g[k]
    BY <2>1, FrontFacts
  <2>3. \A k \in 1..(n - 2) : k \in 1..(n - 1)
    BY <1>1
  <2> QED  BY <1>2, <2>2, <2>3 DEF g
<1> DEFINE h == Front(Front(fr))
<1> HIDE DEF h
<1>4. /\ Append(h, a) \in Seq(T) /\ Len(Append(h, a)) = Len(h) + 1
      /\ \A k \in 1..Len(h) : Append(h, a)[k] = h[k]
      /\ Append(h, a)[Len(h) + 1] = a
  BY <1>1, <1>3, AppendProperties DEF h
<1>5. Len(h) = n - 2 /\ Len(h) + 1 = n - 1
  BY <1>1, <1>3 DEF h
<1>6. u = Append(h, a)
  BY <1>0 DEF h
<1>7. u \in Seq(T) /\ Len(u) = n - 1 /\ (\A k \in 1..(n - 2) : u[k] = fr[k]) /\ u[n - 1] = a
  BY <1>3, <1>4, <1>5, <1>6 DEF h
<1> QED  BY <1>7 DEF T, n, Returned

-----------------------------------------------------------------------------
(* The decoder where the client was                                          *)

Synced(st) ==
  /\ st \in Stack /\ frames = Frames(st) /\ pos \in Nat
  /\ IF Finished(st) THEN pos = Len(body) ELSE Held(pos, FormatStep(st))

(* The beginning of a part is no end mark: an empty key is followed by a     *)
(* type, and 9 is the type of no value.                                      *)
LEMMA NoEndMark ==
  ASSUME NEW st \in Stack, Inside(st), Keyed(Last(st).v), body \in Seq(Byte), Held(pos, FormatStep(st))
  PROVE  ~AtEndMark
<1> SUFFICES ASSUME AtEndMark PROVE FALSE
  OBVIOUS
<1> DEFINE key == NextKey(st)
           c == NextChild(st)
           n == Len(key)
<1>1. key \in Key /\ c \in All
  BY EnterFacts
<1>2. key \in Seq(Byte) /\ n \in Nat /\ 2 \in {2, 4}
  BY <1>1, KeyFacts
<1>3. KeyPart(st) = FormatStr(key, 2) /\ FormatOf(c) \in Seq(Byte) /\ Held(pos, KeyPart(st) \o FormatOf(c))
  BY KeyPartFacts DEF KeyPart
<1>4. FormatOf(c)[1] = c.type /\ c.type # 9 /\ Len(FormatOf(c)) \in Nat \ {0}
  <2>1. FormatOf(c)[1] = c.type /\ Len(FormatOf(c)) = 1 + Len(Tail0(c)) /\ Tail0(c) \in Seq(Byte)
    BY <1>1, FormatOfFacts
  <2>2. Len(Tail0(c)) \in Nat
    BY <2>1
  <2>3. c.type # 9
    BY <1>1, TailCases
  <2> QED  BY <2>1, <2>2, <2>3
<1>5. FormatStr(key, 2) \in Seq(Byte) /\ Len(FormatStr(key, 2)) = 2 + n
  BY <1>2, FormatStrFacts
<1>6. Held(pos, FormatStr(key, 2)) /\ Held(pos + (2 + n), FormatOf(c))
  <2>1. Held(pos, FormatStr(key, 2)) /\ Held(pos + Len(FormatStr(key, 2)), FormatOf(c))
    BY <1>3, <1>5, HeldParts
  <2> QED  BY <1>5, <2>1
<1>7. Bytes(n, 2) \in Seq(Byte) /\ Len(Bytes(n, 2)) = 2 /\ Held(pos, Bytes(n, 2))
  <2>1. Bytes(n, 2) \in Seq(Byte) /\ Len(Bytes(n, 2)) = 2
    BY <1>2, BytesFacts
  <2>2. Held(pos, Bytes(n, 2) \o key)
    BY <1>6 DEF FormatStr
  <2> HIDE DEF key, n
  <2>3. Held(pos, Bytes(n, 2))
    BY <1>2, <2>1, <2>2, HeldParts
  <2> QED  BY <2>1, <2>3
<1>8. pos \in Nat /\ body[pos + 1] = Bytes(n, 2)[1] /\ body[pos + 2] = Bytes(n, 2)[2]
  BY <1>7 DEF Held
<1>9. body[pos + 1] = 0 /\ body[pos + 2] = 0 /\ body[pos + 3] = 9
  <2>1. pos + 3 <= Len(body) /\ Piece(pos, 3) = EndMark
    <3>1. Len(body) - pos >= 3 /\ Len(body) \in Nat
      BY DEF AtEndMark, Rest
    <3> QED  BY <1>8, <3>1 DEF AtEndMark
  <2>2. \A i \in 1..3 : Piece(pos, 3)[i] = body[pos + i]
    BY <1>8, <2>1, PieceFacts
  <2> QED  BY <2>1, <2>2, EndMarkFacts
<1>10. n = 0
  <2>1. n < 65536
    BY <1>1, KeyFacts, SMT
  <2>2. Number2(Bytes(n, 2)) = n
    BY <1>2, <2>1, TwoBytes, SMT
  <2>3. Number2(Bytes(n, 2)) = 256 * 0 + 0
    BY <1>8, <1>9, SMT DEF Number2
  <2> QED  BY <2>2, <2>3
<1>11. body[pos + 3] = c.type
  <2>1. body[(pos + (2 + n)) + 1] = FormatOf(c)[1]
    <3>1. 1 \in 1..Len(FormatOf(c))
      BY <1>4
    <3> QED  BY <1>6, <3>1 DEF Held
  <2>2. (pos + (2 + n)) + 1 = pos + 3
    BY <1>8, <1>10
  <2> QED  BY <1>4, <2>1, <2>2
<1> QED  BY <1>4, <1>9, <1>11

(* So the decoder goes on exactly when the client did.                       *)
LEMMA MoreSynced ==
  ASSUME NEW st, body \in Seq(Byte), Synced(st)
  PROVE  More(Last(frames)) <=> Inside(st)
<1> DEFINE v == Last(st).v
           f == FrameAt(st, Len(st))
<1>1. /\ st \in Stack /\ Last(st) = st[Len(st)] /\ v \in Node /\ Last(st).at \in Nat /\ Size(v) \in Nat
      /\ Last(st).at <= Size(v) /\ (Inside(st) <=> Last(st).at # Size(v)) /\ Len(st) \in Nat \ {0}
  BY StackFacts DEF Synced
<1>2. Last(frames) = f
  BY <1>1, FramesFacts DEF Synced
<1>3. f.left = LeftAt(st, Len(st)) /\ f.v = Begun(v, DoneAt(st, Len(st)))
  BY <1>1 DEF FrameAt, Frame
<1>4. f.v.type = v.type
  BY <1>1, <1>3, BegunFacts
<1>5. pos \in Nat /\ Len(body) \in Nat
  BY DEF Synced
<1>6. ASSUME Inside(st)  PROVE Rest > 0
  <2>1. ~Finished(st) /\ FormatStep(st) \in Seq(Byte) /\ Len(FormatStep(st)) > 0
    <3>1. EstimateStep(st) \in Nat /\ CutStep(st) \in Nat /\ EstimateStep(st) > 0
          /\ Len(FormatStep(st)) = EstimateStep(st) + CutStep(st) /\ FormatStep(st) \in Seq(Byte)
      BY <1>1, <1>6, StepLengths
    <3> QED  BY <1>6, <3>1 DEF Finished
  <2>2. pos + Len(FormatStep(st)) <= Len(body)
    BY <2>1 DEF Synced, Held
  <2>3. Len(FormatStep(st)) \in Nat
    BY <2>1
  <2> QED  BY <1>5, <2>1, <2>2, <2>3 DEF Rest
<1>7. CASE v.type = 3
  <2>1. LeftAt(st, Len(st)) = ToTheEnd /\ Keyed(v)
    BY <1>1, <1>7, NodeFacts DEF LeftAt
  <2>2. More(f) <=> Rest > 0 /\ ~AtEndMark
    BY <1>3, <1>4, <1>7, <2>1, TypeFacts DEF More
  <2>3. ASSUME Inside(st)  PROVE ~AtEndMark
    <3>1. Held(pos, FormatStep(st))
      BY <2>3 DEF Synced, Finished
    <3> QED  BY <1>1, <2>1, <2>3, <3>1, NoEndMark
  <2>4. ASSUME ~Inside(st)  PROVE ~More(f)
    <3>1. CASE Finished(st)
      <4>1. ~(Rest > 0)
        BY <1>5, <3>1 DEF Synced, Rest
      <4> QED  BY <2>2, <4>1
    <3>2. CASE ~Finished(st)
      <4>1. FormatStep(st) = EndMark
        BY <1>7, <2>4, TypeFacts DEF FormatStep
      <4>2. Held(pos, EndMark) /\ EndMark \in Seq(Byte) /\ Len(EndMark) = 3
        BY <3>2, <4>1, EndMarkFacts DEF Synced
      <4>3. Piece(pos, 3) = EndMark /\ pos + 3 <= Len(body)
        BY <4>2, HeldPiece
      <4>4. AtEndMark
        BY <1>5, <4>3 DEF AtEndMark, Rest
      <4> QED  BY <2>2, <4>4
    <3> QED  BY <3>1, <3>2
  <2> QED  BY <1>2, <1>6, <2>2, <2>3, <2>4
<1>8. CASE v.type # 3 /\ Len(st) = 1
  <2>1. LeftAt(st, Len(st)) = ToTheEnd
    BY <1>8 DEF LeftAt
  <2>2. More(f) <=> Rest > 0
    BY <1>3, <1>4, <1>8, <2>1, TypeFacts DEF More
  <2>3. ASSUME ~Inside(st)  PROVE ~(Rest > 0)
    <3>1. Finished(st)
      BY <1>8, <2>3 DEF Finished
    <3> QED  BY <1>5, <3>1 DEF Synced, Rest
  <2> QED  BY <1>2, <1>6, <2>2, <2>3
<1>9. CASE v.type # 3 /\ Len(st) # 1
  <2>1. LeftAt(st, Len(st)) = Size(v) - Last(st).at
    <3>1. CASE v.type \in {8, 10}
      BY <1>1, <1>9, <3>1 DEF LeftAt
    <3>2. CASE v.type \notin {8, 10}
      <4>1. Size(v) = 0
        BY <1>1, <1>9, <3>2, NodeFacts
      <4>2. Last(st).at = 0
        BY <1>1, <4>1
      <4> QED  BY <1>1, <1>9, <3>2, <4>1, <4>2 DEF LeftAt
    <3> QED  BY <3>1, <3>2
  <2>2. f.left \in Nat /\ f.left # ToTheEnd /\ (f.left > 0 <=> Last(st).at # Size(v))
    <3>1. ASSUME NEW a \in Nat, NEW n \in Nat, a <= n
          PROVE  n - a \in Nat /\ n - a # ToTheEnd /\ (n - a > 0 <=> a # n)
      BY <3>1 DEF ToTheEnd
    <3> HIDE DEF f, v
    <3>2. f.left = Size(v) - Last(st).at
      BY <1>3, <2>1
    <3> QED  BY <1>1, <3>1, <3>2
  <2>3. More(f) <=> f.left > 0
    BY <2>2 DEF More
  <2> HIDE DEF f, v
  <2> QED  BY <1>1, <1>2, <2>2, <2>3
<1> QED  BY <1>7, <1>8, <1>9

LEMMA SameSequence ==
  ASSUME NEW S, NEW T, NEW s \in Seq(S), NEW t \in Seq(T), Len(s) = Len(t),
         \A i \in 1..Len(s) : s[i] = t[i]
  PROVE  s = t
<1>1. s \in Seq(S \cup T) /\ t \in Seq(S \cup T)
  <2>1. S \subseteq S \cup T /\ T \subseteq S \cup T
    OBVIOUS
  <2> QED  BY <2>1, SeqMonotonic
<1> QED  BY <1>1, SeqEqual

(* The frames of the decoder for the step of a client to another part.       *)
LEMMA FramesEnter ==
  ASSUME NEW st \in Stack, Inside(st), ClearSize(NextChild(st))
  PROVE  LET f == FrameAt(st, Len(st)) IN
         Front(Frames(st)) \o <<Frame(f.key, f.v, IF f.left > 0 THEN f.left - 1 ELSE f.left),
                                Frame(KeyMeant(st), Begun(NextChild(st), 0), Parts(NextChild(st)))>>
           = Frames(Step(st))
<1> DEFINE n == Len(st)
           v == Last(st).v
           at == Last(st).at
           c == NextChild(st)
           f == FrameAt(st, n)
           a == Frame(f.key, f.v, IF f.left > 0 THEN f.left - 1 ELSE f.left)
           b == Frame(KeyMeant(st), Begun(c, 0), Parts(c))
           fr == Frames(st)
           S == {FrameAt(st, k) : k \in 1..n}
           u == Front(fr) \o <<a, b>>
           t == Step(st)
<1>1. /\ n \in Nat \ {0} /\ Last(st) = st[n] /\ v \in Node /\ at \in Nat /\ Size(v) \in Nat /\ at <= Size(v) /\ at # Size(v)
  BY StackFacts
<1>2. /\ t \in Stack /\ Len(t) = n + 1 /\ \A k \in 1..(n - 1) : t[k] = st[k]
      /\ t[n] = [v |-> v, at |-> at + 1] /\ t[n + 1] = [v |-> c, at |-> 0] /\ c \in All
  BY EnterFacts
<1>3. fr \in Seq(S) /\ Len(fr) = n /\ \A k \in 1..n : fr[k] = FrameAt(st, k)
  BY FramesFacts
<1>4. Frames(t) \in Seq({FrameAt(t, k) : k \in 1..Len(t)}) /\ Len(Frames(t)) = n + 1
      /\ \A k \in 1..(n + 1) : Frames(t)[k] = FrameAt(t, k)
  BY <1>2, FramesFacts
<1> HIDE DEF a, b, fr, S
<1>5. /\ u \in Seq(S \cup {a, b}) /\ Len(u) = n + 1
      /\ \A k \in 1..(n - 1) : u[k] = fr[k]
      /\ u[n] = a /\ u[n + 1] = b
  <2>1. u = Front(fr) \o <<a, b>> /\ Len(fr) > 0
    BY <1>1, <1>3
  <2> HIDE DEF u, n
  <2>2. Calls(S, fr, a, b, u)
    BY <1>3, <2>1 DEF Calls
  <2>3. Called(S, fr, a, b, u)
    BY <2>2, CallShape
  <2> QED  BY <1>3, <2>3 DEF Called
<1> HIDE DEF u, t
<1>6. ASSUME NEW k \in 1..n  PROVE KeyAt(t, k) = KeyAt(st, k)
  <2>1. CASE k > 1
    <3>1. k - 1 \in 1..(n - 1)
      BY <1>1, <2>1
    <3>2. t[k - 1] = st[k - 1]
      BY <3>1, <1>2
    <3> QED  BY <3>2 DEF KeyAt
  <2>2. CASE ~(k > 1)
    BY <2>2 DEF KeyAt
  <2> QED  BY <2>1, <2>2
<1>7. ASSUME NEW k \in 1..(n - 1)  PROVE FrameAt(t, k) = FrameAt(st, k)
  <2>1. k # n /\ k # Len(t) /\ k \in 1..n
    BY <1>1, <1>2
  <2>2. t[k] = st[k]
    BY <1>2
  <2> QED  BY <1>6, <2>1, <2>2 DEF FrameAt, DoneAt, LeftAt
<1>8. FrameAt(t, n) = a
  <2>1. t[n].v = v /\ t[n].at = at + 1
    BY <1>2
  <2>2. DoneAt(t, n) = at /\ DoneAt(st, n) = at
    <3>1. n # Len(t) /\ (at + 1) - 1 = at
      BY <1>1, <1>2
    <3> QED  BY <1>1, <2>1, <3>1 DEF DoneAt
  <2>3. KeyAt(t, n) = KeyAt(st, n)
    BY <1>1, <1>6
  <2>4. f.key = KeyAt(st, n) /\ f.v = Begun(v, at) /\ f.left = LeftAt(st, n)
    BY <1>1, <2>2 DEF FrameAt, Frame
  <2>5. LeftAt(t, n) = IF f.left > 0 THEN f.left - 1 ELSE f.left
    <3>1. CASE n = 1 \/ v.type = 3
      <4>1. LeftAt(t, n) = -1 /\ f.left = -1
        BY <1>1, <2>1, <2>4, <3>1 DEF LeftAt, ToTheEnd
      <4> QED  BY <4>1
    <3>2. CASE ~(n = 1 \/ v.type = 3)
      <4>1. v.type \in {8, 10}
        BY <1>1, <3>2, NodeFacts
      <4>2. LeftAt(t, n) = Size(v) - (at + 1) /\ f.left = Size(v) - at
        BY <1>1, <2>1, <2>4, <3>2, <4>1 DEF LeftAt
      <4> HIDE DEF v, at, f
      <4>3. f.left > 0 /\ f.left - 1 = Size(v) - (at + 1)
        BY <1>1, <4>2
      <4> QED  BY <4>2, <4>3
    <3> QED  BY <3>1, <3>2
  <2>6. FrameAt(t, n) = Frame(KeyAt(t, n), Begun(t[n].v, DoneAt(t, n)), LeftAt(t, n))
    BY DEF FrameAt
  <2> QED  BY <2>1, <2>2, <2>3, <2>4, <2>5, <2>6 DEF a
<1>9. FrameAt(t, n + 1) = b
  <2>1. t[n + 1].v = c /\ t[n + 1].at = 0 /\ t[(n + 1) - 1] = t[n] /\ n + 1 > 1 /\ n + 1 # 1 /\ t[n].v = v /\ t[n].at = at + 1
    <3>1. (n + 1) - 1 = n /\ n + 1 > 1 /\ n + 1 # 1
      BY <1>1
    <3> QED  BY <1>2, <3>1
  <2>2. DoneAt(t, n + 1) = 0
    BY <1>2, <2>1 DEF DoneAt
  <2>3. KeyAt(t, n + 1) = KeyMeant(st)
    <3>1. KeyAt(t, n + 1) = IF Keyed(v) THEN v.map[at + 1][1] ELSE <<>>
      BY <2>1 DEF KeyAt
    <3> QED  BY <3>1 DEF KeyMeant, NextKey
  <2>4. LeftAt(t, n + 1) = Parts(c)
    <3>1. LeftAt(t, n + 1) = IF c.type = 3 THEN ToTheEnd ELSE IF c.type \in {8, 10} THEN Size(c) - 0 ELSE 0
      BY <2>1 DEF LeftAt
    <3>2. ASSUME c.type \in {8, 10}  PROVE Size(c) - 0 = Count(Bytes(Size(c), 4))
      <4>1. Size(c) \in Nat /\ Count(Bytes(Size(c), 4)) = Size(c)
        BY <1>2, <3>2, TailCases DEF ClearSize
      <4> QED  BY <4>1
    <3> QED  BY <3>1, <3>2 DEF Parts
  <2> QED  BY <2>1, <2>2, <2>3, <2>4 DEF FrameAt, b
<1>10. ASSUME NEW k \in 1..(n + 1)  PROVE u[k] = Frames(t)[k]
  <2>1. k \in 1..(n - 1) \/ k = n \/ k = n + 1
    BY <1>1
  <2>2. CASE k \in 1..(n - 1)
    <3>1. k \in 1..n
      BY <1>1, <2>2
    <3> QED  BY <1>3, <1>4, <1>5, <1>7, <2>2, <3>1
  <2> QED  BY <1>4, <1>5, <1>8, <1>9, <2>1, <2>2
<1>11. u = Frames(t)
  BY <1>4, <1>5, <1>10, SameSequence
<1> QED  BY <1>11 DEF u, a, b, fr, t

(* And for its return from one.                                              *)
LEMMA FramesReturn ==
  ASSUME NEW st \in Stack, ~Inside(st), Len(st) > 1
  PROVE  LET f == FrameAt(st, Len(st))
             g == FrameAt(st, Len(st) - 1)
         IN Append(Front(Front(Frames(st))), Frame(g.key, Filled(g.v, f), g.left)) = Frames(Step(st))
<1> DEFINE n == Len(st)
           m == n - 1
           f == FrameAt(st, n)
           g == FrameAt(st, m)
           a == Frame(g.key, Filled(g.v, f), g.left)
           fr == Frames(st)
           S == {FrameAt(st, k) : k \in 1..n}
           u == Append(Front(Front(fr)), a)
           t == Step(st)
           v == st[m].v
           at == st[m].at
<1>1. n \in Nat \ {0} /\ n > 1 /\ m \in 1..n /\ m # n /\ n \in 1..n /\ n - 1 = m /\ m \in 1..m
  BY StackFacts
<1>2. /\ t \in Stack /\ Len(t) = m /\ \A k \in 1..m : t[k] = st[k]
      /\ Last(st).v = Child(Last(t).v, Last(t).at)
      /\ Last(t).at \in 1..Size(Last(t).v)
      /\ Last(st).v \in All
  BY ReturnFacts
<1>3. fr \in Seq(S) /\ Len(fr) = n /\ \A k \in 1..n : fr[k] = FrameAt(st, k)
  BY FramesFacts
<1>4. Frames(t) \in Seq({FrameAt(t, k) : k \in 1..Len(t)}) /\ Len(Frames(t)) = m
      /\ \A k \in 1..m : Frames(t)[k] = FrameAt(t, k)
  BY <1>2, FramesFacts
<1>5. /\ v \in Node /\ at \in 1..Size(v) /\ Last(st).v = Child(v, at) /\ Size(v) \in Nat
      /\ Last(st) = st[n] /\ Last(st).at = Size(Last(st).v)
  <2>1. Last(t) = st[m]
    BY <1>1, <1>2 DEF Last
  <2>2. v \in Node /\ Last(st) = st[n] /\ Last(st).at = Size(Last(st).v)
    BY <1>1, StackFacts
  <2> QED  BY <1>2, <2>1, <2>2, PartFacts
<1> HIDE DEF a, fr, S
<1>6. /\ u \in Seq(S \cup {a}) /\ Len(u) = n - 1
      /\ \A k \in 1..(n - 2) : u[k] = fr[k]
      /\ u[n - 1] = a
  <2>1. u = Append(Front(Front(fr)), a) /\ Len(fr) > 1
    BY <1>1, <1>3
  <2> HIDE DEF u, n
  <2>2. Returns(S, fr, a, u)
    BY <1>3, <2>1 DEF Returns
  <2>3. Returned(S, fr, a, u)
    BY <2>2, ReturnShape
  <2> QED  BY <1>3, <2>3 DEF Returned
<1> HIDE DEF u, t
<1>7. ASSUME NEW k \in 1..m  PROVE KeyAt(t, k) = KeyAt(st, k)
  <2>1. CASE k > 1
    <3>1. k - 1 \in 1..m
      BY <1>1, <2>1
    <3>2. t[k - 1] = st[k - 1]
      BY <3>1, <1>2
    <3> QED  BY <3>2 DEF KeyAt
  <2>2. CASE ~(k > 1)
    BY <2>2 DEF KeyAt
  <2> QED  BY <2>1, <2>2
<1>8. ASSUME NEW k \in 1..(n - 2)  PROVE FrameAt(t, k) = FrameAt(st, k)
  <2>1. k # n /\ k # Len(t) /\ k \in 1..m
    BY <1>1, <1>2
  <2>2. t[k] = st[k]
    BY <1>2, <2>1
  <2> QED  BY <1>7, <2>1, <2>2 DEF FrameAt, DoneAt, LeftAt
<1>9. FrameAt(t, m) = a
  <2>1. t[m].v = v /\ t[m].at = at /\ t[m] = st[m]
    BY <1>1, <1>2
  <2>2. DoneAt(t, m) = at /\ DoneAt(st, m) = at - 1 /\ DoneAt(st, n) = Size(Last(st).v)
    BY <1>1, <1>2, <1>5, <2>1 DEF DoneAt
  <2>3. KeyAt(t, m) = KeyAt(st, m) /\ LeftAt(t, m) = LeftAt(st, m)
    <3>1. KeyAt(t, m) = KeyAt(st, m)
      BY <1>1, <1>7
    <3> QED  BY <2>1, <3>1 DEF LeftAt
  <2>4. g.key = KeyAt(st, m) /\ g.v = Begun(v, at - 1) /\ g.left = LeftAt(st, m)
    BY <2>2 DEF FrameAt, Frame
  <2>5. f.v = Child(v, at) /\ (Keyed(v) => f.key = v.map[at][1])
    <3>1. f.v = Begun(Last(st).v, Size(Last(st).v)) /\ f.key = KeyAt(st, n)
      BY <1>5, <2>2 DEF FrameAt, Frame
    <3>2. Last(st).v \in Node
      BY <1>2 DEF Node
    <3>3. Begun(Last(st).v, Size(Last(st).v)) = Last(st).v
      BY <3>2, BegunFacts
    <3>4. Keyed(v) => KeyAt(st, n) = v.map[at][1]
      BY <1>1 DEF KeyAt
    <3> QED  BY <1>5, <3>1, <3>3, <3>4
  <2> HIDE DEF f, g, v, at
  <2>6. Filled(Begun(v, at - 1), f) = Begun(v, at)
    <3>1. at - 1 \in Nat /\ at - 1 < Size(v) /\ (at - 1) + 1 = at
      BY <1>5
    <3>2. Filled(Begun(v, at - 1), f) = Begun(v, (at - 1) + 1)
      <4>1. f.v = Child(v, (at - 1) + 1) /\ (Keyed(v) => f.key = v.map[(at - 1) + 1][1])
        BY <2>5, <3>1
      <4> QED  BY <1>5, <3>1, <4>1, FilledFacts
    <3> QED  BY <3>1, <3>2
  <2>7. FrameAt(t, m) = Frame(KeyAt(t, m), Begun(t[m].v, DoneAt(t, m)), LeftAt(t, m))
    BY DEF FrameAt
  <2> QED  BY <2>1, <2>2, <2>3, <2>4, <2>6, <2>7 DEF a
<1>10. ASSUME NEW k \in 1..m  PROVE u[k] = Frames(t)[k]
  <2>1. k \in 1..(n - 2) \/ k = m
    BY <1>1
  <2>2. CASE k \in 1..(n - 2)
    <3>1. k \in 1..n
      BY <1>1, <2>2
    <3> QED  BY <1>3, <1>4, <1>6, <1>8, <2>2, <3>1
  <2> QED  BY <1>4, <1>6, <1>9, <2>1, <2>2
<1>11. u = Frames(t)
  BY <1>4, <1>6, <1>10, SameSequence
<1> QED  BY <1>11 DEF u, a, fr, t

(* The decoder is at a step of the client's walk.                            *)
Followed == turn \in 1..Len(trail) /\ pos = trail[turn].n /\ frames = Frames(trail[turn].st)

LEMMA FollowedFacts ==
  ASSUME NEW vs, Composed(trail, body, vs), Finished(trail[Len(trail)].st), Followed
  PROVE  LET st == trail[turn].st IN
         /\ body \in Seq(Byte) /\ st \in Stack /\ st[1].v = Strict(vs) /\ Synced(st)
         /\ ~Finished(st) =>
              /\ turn + 1 \in 1..Len(trail) /\ trail[turn + 1].st = Step(st)
              /\ trail[turn + 1].n = pos + Len(FormatStep(st))
<1> DEFINE st == trail[turn].st
<1>1. Path(trail, vs) /\ body \in Seq(Byte) /\ turn \in 1..Len(trail) /\ Len(trail) \in Nat \ {0} /\ pos = trail[turn].n
  BY PathFacts DEF Composed, Followed
<1>2. st \in Stack /\ st[1].v = Strict(vs) /\ pos \in Nat
  BY <1>1, PathFacts
<1>3. turn = Len(trail) <=> Finished(st)
  BY <1>1, PathEnds
<1>4. CASE Finished(st)
  <2>1. pos = Len(body)
    BY <1>1, <1>3, <1>4 DEF Composed
  <2> QED  BY <1>1, <1>2, <1>4, <2>1 DEF Synced, Followed
<1>5. CASE ~Finished(st)
  <2>1. turn # Len(trail)
    BY <1>3, <1>5
  <2>2. turn + 1 \in 1..Len(trail) /\ trail[turn + 1].st = Step(st)
    BY <1>1, <2>1, PathEnds
  <2>3. turn \in 1..(Len(trail) - 1)
    BY <1>1, <2>1
  <2>4. /\ trail[turn + 1].n = pos + Len(FormatStep(st)) /\ trail[turn + 1].n <= Len(body)
        /\ \A i \in 1..Len(FormatStep(st)) : body[pos + i] = FormatStep(st)[i]
    BY <1>1, <2>3 DEF Composed
  <2>5. Held(pos, FormatStep(st))
    BY <1>2, <2>4 DEF Held
  <2> QED  BY <1>1, <1>2, <1>5, <2>2, <2>4, <2>5 DEF Synced, Followed
<1> QED  BY <1>4, <1>5

(* After what it does not read as it is meant, one of its calls expects more *)
(* parts than there are bytes: it will never return.                         *)
Astray ==
  /\ pos \in Nat /\ pos <= Len(body) /\ \E S : frames \in Seq(S)
  /\ \E k \in 2..Len(frames) : frames[k].left \in Nat /\ frames[k].left > Len(body) - pos

Decoding ==
  /\ values \in Commands /\ Composed(trail, body, values) /\ Finished(trail[Len(trail)].st)
  /\ Len(body) <= MaxBody
  /\ lost \in BOOLEAN /\ (lost => Astray) /\ (~lost => Followed)

LEMMA CallFollowed ==
  ASSUME Decoding, ~lost, DecodeCall
  PROVE  \/ phase' = "overrun" /\ lost' = TRUE
         \/ phase' = "decode" /\ Decoding'
<1> DEFINE st == trail[turn].st
           f == Last(frames)
           n == KeySpace(st, pos)
           q == pos + n
           end == q + Space(q)
           c == NextChild(st)
           x == Call(KeyRead(st, pos), q, Space(q))
           a == Frame(f.key, f.v, IF f.left > 0 THEN f.left - 1 ELSE f.left)
<1>1. /\ values \in Commands /\ Composed(trail, body, values) /\ Finished(trail[Len(trail)].st)
      /\ Len(body) <= MaxBody /\ Followed
  BY DEF Decoding
<1>2. /\ body \in Seq(Byte) /\ st \in Stack /\ Synced(st)
      /\ ~Finished(st) =>
           /\ turn + 1 \in 1..Len(trail) /\ trail[turn + 1].st = Step(st)
           /\ trail[turn + 1].n = pos + Len(FormatStep(st))
  BY <1>1, FollowedFacts
<1>3. Inside(st)
  <2>1. More(Last(frames))
    BY DEF DecodeCall
  <2> QED  BY <1>2, <2>1, MoreSynced
<1>4. ~Finished(st) /\ Held(pos, FormatStep(st))
  BY <1>2, <1>3 DEF Finished, Synced
<1>5. f = FrameAt(st, Len(st)) /\ frames = Frames(st) /\ (Keyed(f.v) <=> Keyed(Last(st).v))
  <2>1. f = FrameAt(st, Len(st)) /\ frames = Frames(st)
    BY <1>2, FramesFacts DEF Synced
  <2>2. f.v = Begun(Last(st).v, DoneAt(st, Len(st))) /\ Last(st).v \in Node
    BY <1>2, <2>1, StackFacts DEF FrameAt, Frame
  <2> QED  BY <2>1, <2>2, BegunFacts
<1>6. /\ pos \in Nat /\ n \in Nat /\ end \in Nat /\ end > pos
      /\ Clear(st) =>
           /\ end = pos + Len(FormatStep(st)) /\ end <= Len(body)
           /\ x = Frame(KeyMeant(st), Begun(c, 0), Parts(c)) /\ ClearSize(c)
      /\ ~Clear(st) /\ end <= Len(body) => x.left \in Nat /\ x.left > MaxBody
  BY <1>1, <1>2, <1>3, <1>4, CallHeld
<1>7. /\ turn' = turn + 1 /\ lost' = ~Clear(st)
      /\ \/ end <= Len(body) /\ pos' = end /\ frames' = Front(frames) \o <<a, x>> /\ phase' = "decode"
         \/ end > Len(body) /\ phase' = "overrun"
      /\ UNCHANGED <<values, body, trail>>
  <2>1. /\ (IF Keyed(f.v) THEN StrSpace(pos, 2) ELSE 0) = n
        /\ (IF Keyed(f.v) THEN CStr(Piece(pos + 2, n - 2)) ELSE <<>>) = KeyRead(st, pos)
    BY <1>5 DEF KeySpace, KeyRead
  <2>2. turn' = turn + 1 /\ lost' = ~Clear(st) /\ phase = "decode" /\ UNCHANGED <<values, body, trail>>
    BY DEF DecodeCall, Follow, clientVars
  <2> HIDE DEF f
  <2>3. \/ end <= Len(body) /\ pos' = end /\ frames' = Front(frames) \o <<a, x>> /\ UNCHANGED phase
        \/ end > Len(body) /\ phase' = "overrun"
    BY <2>1 DEF DecodeCall, f
  <2> QED  BY <2>2, <2>3
<1>8. Len(body) \in Nat
  BY <1>2
<1> HIDE DEF n, end, c, x, a, f
<1>9. CASE Clear(st)
  <2>1. end = pos + Len(FormatStep(st)) /\ end <= Len(body) /\ ~(end > Len(body))
    BY <1>6, <1>8, <1>9
  <2>2. pos' = end /\ frames' = Front(frames) \o <<a, x>> /\ phase' = "decode" /\ lost' = FALSE
    BY <1>7, <1>9, <2>1
  <2>3. Front(frames) \o <<a, x>> = Frames(Step(st))
    BY <1>2, <1>3, <1>5, <1>6, <1>9, FramesEnter DEF a, c
  <2>4. Followed'
    BY <1>2, <1>4, <1>7, <2>1, <2>2, <2>3 DEF Followed
  <2> QED  BY <1>1, <1>7, <2>2, <2>4 DEF Decoding
<1>10. CASE ~Clear(st)
  <2>1. lost' = TRUE
    BY <1>7, <1>10
  <2>2. CASE end <= Len(body)
    <3>1. pos' = end /\ frames' = Front(frames) \o <<a, x>> /\ phase' = "decode"
      BY <1>6, <1>7, <1>8, <2>2
    <3>2. x.left \in Nat /\ x.left > MaxBody
      BY <1>6, <1>10, <2>2
    <3>3. /\ frames \in Seq({FrameAt(st, k) : k \in 1..Len(st)}) /\ Len(frames) = Len(st) /\ Len(st) \in Nat \ {0}
      BY <1>2, <1>5, FramesFacts, StackFacts
    <3> DEFINE S == {FrameAt(st, k) : k \in 1..Len(st)}
    <3> HIDE DEF S
    <3>4. /\ frames' \in Seq(S \cup {a, x}) /\ Len(frames') = Len(st) + 1
          /\ frames'[Len(st) + 1] = x
      <4>1. frames \in Seq(S) /\ Len(frames) > 0
        BY <3>3 DEF S
      <4>2. /\ frames' \in Seq(S \cup {a, x}) /\ Len(frames') = Len(frames) + 1
            /\ frames'[Len(frames) + 1] = x
        <5>1. Calls(S, frames, a, x, frames')
          BY <3>1, <4>1 DEF Calls
        <5>2. Called(S, frames, a, x, frames')
          BY <5>1, CallShape
        <5> QED  BY <5>2 DEF Called
      <4> QED  BY <3>3, <4>2
    <3>5. Len(st) + 1 \in 2..Len(frames')
      BY <3>3, <3>4
    <3>6. x.left > Len(body) - end
      <4>1. MaxBody \in Nat
        BY HugeFacts
      <4> QED  BY <1>1, <1>6, <1>8, <3>2, <4>1
    <3>7. Astray'
      BY <1>6, <1>7, <2>2, <3>1, <3>2, <3>4, <3>5, <3>6 DEF Astray
    <3> QED  BY <1>1, <1>7, <2>1, <3>1, <3>7 DEF Decoding
  <2>3. CASE ~(end <= Len(body))
    BY <1>7, <2>1, <2>3
  <2> QED  BY <2>2, <2>3
<1> QED  BY <1>9, <1>10

LEMMA ReturnFollowed ==
  ASSUME Decoding, ~lost, DecodeReturn
  PROVE  lost' = FALSE /\ Decoding'
<1> DEFINE st == trail[turn].st
           n == Len(st)
           f == FrameAt(st, n)
           g == FrameAt(st, n - 1)
<1>1. /\ values \in Commands /\ Composed(trail, body, values) /\ Finished(trail[Len(trail)].st)
      /\ Len(body) <= MaxBody /\ Followed
  BY DEF Decoding
<1>2. /\ body \in Seq(Byte) /\ st \in Stack /\ Synced(st)
      /\ ~Finished(st) =>
           /\ turn + 1 \in 1..Len(trail) /\ trail[turn + 1].st = Step(st)
           /\ trail[turn + 1].n = pos + Len(FormatStep(st))
  BY <1>1, FollowedFacts
<1>3. ~Inside(st)
  <2>1. ~More(Last(frames))
    BY DEF DecodeReturn
  <2> QED  BY <1>2, <2>1, MoreSynced
<1>4. /\ frames = Frames(st) /\ Len(frames) = n /\ n \in Nat \ {0} /\ Last(frames) = f
      /\ \A k \in 1..n : frames[k] = FrameAt(st, k)
  BY <1>2, FramesFacts, StackFacts DEF Synced
<1>5. n > 1 /\ n # 1 /\ n - 1 \in 1..n
  <2>1. Len(frames) > 1
    BY DEF DecodeReturn
  <2> QED  BY <1>4, <2>1
<1>6. ~Finished(st) /\ Held(pos, FormatStep(st))
  BY <1>2, <1>5 DEF Finished, Synced
<1>7. /\ turn' = turn + 1 /\ lost' = ~Clear(st)
      /\ pos' = After(f)
      /\ frames' = Append(Front(Front(frames)), Frame(g.key, Filled(g.v, f), g.left))
      /\ UNCHANGED <<values, body, trail>>
  <2>1. /\ turn' = turn + 1 /\ lost' = ~Clear(st) /\ UNCHANGED <<values, body, trail>>
    BY DEF DecodeReturn, Follow, clientVars
  <2>2. frames[Len(frames) - 1] = g
    BY <1>4, <1>5
  <2> HIDE DEF f, g
  <2>3. /\ pos' = After(f)
        /\ frames' = Append(Front(Front(frames)), Frame(g.key, Filled(g.v, f), g.left))
    BY <1>4, <2>2 DEF DecodeReturn
  <2> QED  BY <2>1, <2>3
<1>8. lost' = FALSE
  BY <1>3, <1>7 DEF Clear
<1>9. frames' = Frames(Step(st))
  BY <1>2, <1>3, <1>4, <1>5, <1>7, FramesReturn
<1>10. pos \in Nat /\ Len(body) \in Nat /\ pos + Len(FormatStep(st)) <= Len(body)
  BY <1>2, <1>6 DEF Held
<1>11. After(f) = pos + Len(FormatStep(st))
  <2>1. f.left = LeftAt(st, n)
    BY DEF FrameAt, Frame
  <2>2. Last(st) = st[n] /\ Last(st).v \in Node /\ Last(st).at \in Nat /\ Last(st).at = Size(Last(st).v)
    BY <1>2, <1>3, StackFacts
  <2>3. CASE Last(st).v.type = 3
    <3>1. f.left = ToTheEnd
      BY <2>1, <2>2, <2>3 DEF LeftAt
    <3>2. FormatStep(st) = EndMark
      BY <1>3, <2>3, TypeFacts DEF FormatStep
    <3>3. Len(FormatStep(st)) = 3
      BY <3>2, EndMarkFacts
    <3>4. Rest > 0
      BY <1>10, <3>3 DEF Rest
    <3> QED  BY <3>1, <3>3, <3>4 DEF After
  <2>4. CASE Last(st).v.type # 3
    <3>1. f.left = 0
      <4>1. LeftAt(st, n) = IF st[n].v.type \in {8, 10} THEN Size(st[n].v) - st[n].at ELSE 0
        BY <1>5, <2>2, <2>4 DEF LeftAt
      <4> QED  BY <2>1, <2>2, <4>1
    <3>2. After(f) = pos
      BY <3>1 DEF After, ToTheEnd
    <3>3. FormatStep(st) = <<>>
      BY <1>3, <2>4, TypeFacts DEF FormatStep
    <3>4. Len(FormatStep(st)) = 0
      BY <3>3, EmptySeq
    <3> QED  BY <1>10, <3>2, <3>4
  <2> QED  BY <2>3, <2>4
<1>12. Followed'
  BY <1>2, <1>6, <1>7, <1>9, <1>11 DEF Followed
<1> QED  BY <1>1, <1>7, <1>8, <1>12 DEF Decoding

LEMMA CallAstray ==
  ASSUME Decoding, lost, DecodeCall
  PROVE  /\ lost' = TRUE
         /\ \/ phase' = "overrun"
            \/ phase' = "decode" /\ Decoding'
<1> DEFINE f == Last(frames)
           n == IF Keyed(f.v) THEN StrSpace(pos, 2) ELSE 0
           key == IF Keyed(f.v) THEN CStr(Piece(pos + 2, n - 2)) ELSE <<>>
           q == pos + n
           end == q + Space(q)
           x == Call(key, q, Space(q))
           a == Frame(f.key, f.v, IF f.left > 0 THEN f.left - 1 ELSE f.left)
<1>1. /\ lost' = TRUE
      /\ \/ end <= Len(body) /\ pos' = end /\ frames' = Front(frames) \o <<a, x>> /\ phase' = "decode"
         \/ end > Len(body) /\ phase' = "overrun"
      /\ UNCHANGED <<values, body, trail>>
  BY DEF DecodeCall, Follow, clientVars
<1>2. /\ values \in Commands /\ Composed(trail, body, values) /\ Finished(trail[Len(trail)].st)
      /\ Len(body) <= MaxBody /\ Astray
  BY DEF Decoding
<1>3. body \in Seq(Byte) /\ pos \in Nat /\ Len(body) \in Nat /\ pos <= Len(body)
  BY <1>2 DEF Composed, Astray
<1>4. n \in Nat
  <2>1. StrSpace(pos, 2) \in Nat
    <3>1. 2 \in {2, 4}
      OBVIOUS
    <3> QED  BY <1>3, <3>1, StrSpaceIsNumber
  <2> HIDE DEF f
  <2> QED  BY <2>1
<1>5. end \in Nat /\ end > pos
  <2>1. q \in Nat
    BY <1>3, <1>4
  <2> HIDE DEF n, q
  <2>2. Space(q) \in Nat \ {0}
    BY <1>3, <2>1, SpaceIsNumber
  <2> QED  BY <1>3, <1>4, <2>1, <2>2 DEF q
<1>6. PICK S : frames \in Seq(S)
  BY <1>2 DEF Astray
<1>7. PICK k \in 2..Len(frames) : frames[k].left \in Nat /\ frames[k].left > Len(body) - pos
  BY <1>2 DEF Astray
<1>8. Len(frames) \in Nat /\ k \in Nat /\ k <= Len(frames) /\ Len(frames) > 0
  <2>1. Len(frames) \in Nat
    BY <1>6
  <2> QED  BY <1>7, <2>1
<1> HIDE DEF n, key, q, end, x, a
<1>9. CASE end <= Len(body) /\ pos' = end /\ frames' = Front(frames) \o <<a, x>> /\ phase' = "decode"
  <2>1. /\ frames' \in Seq(S \cup {a, x}) /\ Len(frames') = Len(frames) + 1
        /\ \A j \in 1..(Len(frames) - 1) : frames'[j] = frames[j]
        /\ frames'[Len(frames)] = a
    <3>1. Calls(S, frames, a, x, frames')
      BY <1>6, <1>8, <1>9 DEF Calls
    <3>2. Called(S, frames, a, x, frames')
      BY <3>1, CallShape
    <3> QED  BY <3>2 DEF Called
  <2>2. k \in 2..Len(frames')
    BY <1>7, <1>8, <2>1
  <2>3. frames'[k].left \in Nat /\ frames'[k].left > Len(body) - end
    <3>1. CASE k = Len(frames)
      <4>1. f = frames[k]
        BY <3>1 DEF Last
      <4>2. f.left \in Nat /\ f.left > Len(body) - pos
        BY <1>7, <4>1
      <4>3. a.left = f.left - 1
        <5>1. f.left > 0
          BY <1>3, <4>2
        <5> QED  BY <5>1 DEF a, Frame
      <4>4. f.left - 1 \in Nat /\ f.left - 1 > Len(body) - end
        BY <1>3, <1>5, <4>2
      <4> QED  BY <2>1, <3>1, <4>3, <4>4
    <3>2. CASE k # Len(frames)
      <4>1. k \in 1..(Len(frames) - 1)
        BY <1>7, <1>8, <3>2
      <4>2. frames'[k] = frames[k]
        BY <2>1, <4>1
      <4> QED  BY <1>3, <1>5, <1>7, <4>2
    <3> QED  BY <3>1, <3>2
  <2>4. Astray'
    BY <1>1, <1>5, <1>9, <2>1, <2>2, <2>3 DEF Astray
  <2> QED  BY <1>1, <1>2, <1>9, <2>4 DEF Decoding
<1> QED  BY <1>1, <1>9

LEMMA ReturnAstray ==
  ASSUME Decoding, lost, DecodeReturn
  PROVE  lost' = TRUE /\ Decoding'
<1> DEFINE f == Last(frames)
           n == Len(frames)
           g == frames[n - 1]
           a == Frame(g.key, Filled(g.v, f), g.left)
<1>1. /\ lost' = TRUE /\ ~More(f) /\ n > 1
      /\ pos' = After(f)
      /\ frames' = Append(Front(Front(frames)), a)
      /\ UNCHANGED <<values, body, trail>>
  BY DEF DecodeReturn, Follow, clientVars
<1>2. /\ values \in Commands /\ Composed(trail, body, values) /\ Finished(trail[Len(trail)].st)
      /\ Len(body) <= MaxBody /\ Astray
  BY DEF Decoding
<1>3. body \in Seq(Byte) /\ pos \in Nat /\ Len(body) \in Nat /\ pos <= Len(body)
  BY <1>2 DEF Composed, Astray
<1>4. PICK S : frames \in Seq(S)
  BY <1>2 DEF Astray
<1>5. PICK k \in 2..n : frames[k].left \in Nat /\ frames[k].left > Len(body) - pos
  BY <1>2 DEF Astray
<1>6. n \in Nat /\ k \in Nat /\ k <= n /\ k >= 2
  <2>1. n \in Nat
    BY <1>4
  <2> QED  BY <1>5, <2>1
<1>7. k # n
  <2>1. SUFFICES ASSUME k = n PROVE FALSE
    OBVIOUS
  <2>2. f.left \in Nat /\ f.left > 0
    <3>1. f = frames[k]
      BY <2>1 DEF Last
    <3>2. f.left \in Nat /\ f.left > Len(body) - pos
      BY <1>5, <3>1
    <3> QED  BY <1>3, <3>2
  <2>3. More(f)
    BY <2>2 DEF More, ToTheEnd
  <2> QED  BY <1>1, <2>3
<1>8. After(f) \in Nat /\ pos <= After(f) /\ After(f) <= Len(body)
  <2>1. CASE f.left = ToTheEnd /\ Rest > 0
    <3>1. AtEndMark
      BY <1>1, <2>1 DEF More
    <3>2. Len(body) - pos >= 3
      BY <3>1 DEF AtEndMark, Rest
    <3>3. After(f) = pos + 3
      BY <2>1 DEF After
    <3> QED  BY <1>3, <3>2, <3>3
  <2>2. CASE ~(f.left = ToTheEnd /\ Rest > 0)
    BY <1>3, <2>2 DEF After
  <2> QED  BY <2>1, <2>2
<1> HIDE DEF f, a
<1>9. /\ frames' \in Seq(S \cup {a}) /\ Len(frames') = n - 1
      /\ \A j \in 1..(n - 2) : frames'[j] = frames[j]
      /\ frames'[n - 1] = a
  <2>1. Returns(S, frames, a, frames')
    BY <1>1, <1>4 DEF Returns
  <2>2. Returned(S, frames, a, frames')
    BY <2>1, ReturnShape
  <2> QED  BY <2>2 DEF Returned
<1>10. k \in 2..Len(frames') /\ (k \in 1..(n - 2) \/ k = n - 1)
  <2>1. k <= n - 1 /\ Len(frames') = n - 1
    BY <1>6, <1>7, <1>9
  <2> QED  BY <1>6, <2>1
<1>11. frames'[k].left = frames[k].left
  <2>1. CASE k \in 1..(n - 2)
    BY <1>9, <2>1
  <2>2. CASE k = n - 1
    <3>1. frames'[k] = a /\ g = frames[k]
      BY <1>9, <2>2
    <3> QED  BY <3>1 DEF a, Frame
  <2> QED  BY <1>10, <2>1, <2>2
<1>12. frames'[k].left \in Nat /\ frames'[k].left > Len(body) - After(f)
  BY <1>3, <1>5, <1>8, <1>11
<1> HIDE DEF n
<1>13. Astray'
  BY <1>1, <1>8, <1>9, <1>10, <1>12 DEF Astray
<1> QED  BY <1>1, <1>2, <1>13 DEF Decoding

(* What the decoder has of the list is a beginning of the client's values,   *)
(* and is all of them when it is done.                                       *)
LEMMA ListFollowed ==
  ASSUME NEW vs \in Seq(All), Composed(trail, body, vs), Finished(trail[Len(trail)].st), Followed
  PROVE  /\ IsPrefix(List, vs)
         /\ Len(frames) = 1 /\ ~More(frames[1]) => List = vs
<1> DEFINE st == trail[turn].st
           n == DoneAt(st, 1)
<1>1. body \in Seq(Byte) /\ st \in Stack /\ st[1].v = Strict(vs) /\ Synced(st)
  BY FollowedFacts
<1>2. Len(st) \in Nat \ {0} /\ 1 \in 1..Len(st)
  BY <1>1, StackFacts
<1>3. /\ Len(frames) = Len(st) /\ frames[1] = FrameAt(st, 1)
      /\ (Len(frames) = 1 => Last(frames) = frames[1])
  BY <1>1, <1>2, FramesFacts DEF Synced, Last
<1>4. Strict(vs).type = 10 /\ Strict(vs).list = vs /\ Size(Strict(vs)) = Len(vs) /\ Strict(vs) \in Node
  BY StartFacts
<1>5. List = SubSeq(vs, 1, n)
  <2>1. frames[1].v = Begun(Strict(vs), n)
    BY <1>1, <1>3 DEF FrameAt, Frame
  <2>2. Begun(Strict(vs), n) = Strict(SubSeq(vs, 1, n))
    BY <1>4 DEF Begun
  <2> QED  BY <2>1, <2>2 DEF List, Strict
<1>6. n \in 0..Len(vs)
  <2>1. st[1].at \in Nat /\ Len(vs) \in Nat
    BY <1>1, <1>2, StackFacts
  <2>2. CASE Len(st) = 1
    <3>1. Last(st).at <= Size(Last(st).v) /\ Last(st) = st[1]
      BY <1>1, <2>2, StackFacts
    <3>2. st[1].at <= Len(vs)
      BY <1>1, <1>4, <3>1
    <3>3. n = st[1].at
      BY <2>2 DEF DoneAt
    <3> HIDE DEF n, st
    <3> QED  BY <2>1, <3>2, <3>3
  <2>3. CASE Len(st) # 1
    <3>1. 1 \in 1..(Len(st) - 1)
      <4>1. Len(st) > 1
        BY <1>2, <2>3, OneOrMore
      <4> QED  BY <1>2, <4>1
    <3>2. st[1].at \in 1..Size(st[1].v)
      BY <1>1, <3>1 DEF Stack, Linked
    <3>3. st[1].at \in 1..Len(vs)
      BY <1>1, <1>4, <3>2
    <3>4. n = st[1].at - 1
      BY <2>3 DEF DoneAt
    <3> HIDE DEF n, st
    <3> QED  BY <2>1, <3>3, <3>4
  <2> QED  BY <2>2, <2>3
<1> HIDE DEF n
<1>7. IsPrefix(List, vs)
  <2>1. Len(vs) \in Nat /\ \A i \in 1..Len(vs) : vs[i] \in All
    OBVIOUS
  <2>2. Len(List) = n
    <3>1. \A i \in 1..n : vs[i] \in All
      BY <1>6, <2>1
    <3>2. Len(SubSeq(vs, 1, n)) = IF 1 <= n THEN n - 1 + 1 ELSE 0
      BY <1>6, <2>1, <3>1, SubSeqProperties
    <3> QED  BY <1>5, <1>6, <3>2
  <2>3. SubSeq(List, 1, n) = List
    <3>1. List \in Seq(All)
      <4>1. \A i \in 1..n : vs[i] \in All
        BY <1>6, <2>1
      <4> QED  BY <1>5, <1>6, <4>1, SubSeqProperties
    <3> QED  BY <2>2, <3>1, StartOf
  <2> QED  BY <1>5, <1>6, <2>1, <2>2, <2>3 DEF IsPrefix
<1>8. ASSUME Len(frames) = 1, ~More(frames[1])  PROVE List = vs
  <2>1. ~Inside(st) /\ Len(st) = 1
    BY <1>1, <1>3, <1>8, MoreSynced
  <2>2. st[1].at = Len(vs)
    <3>1. Last(st).at = Size(Last(st).v) /\ Last(st) = st[1]
      BY <1>1, <2>1, StackFacts
    <3> QED  BY <1>1, <1>4, <3>1
  <2>3. n = Len(vs)
    BY <2>1, <2>2 DEF n, DoneAt
  <2> QED  BY <1>5, <2>3, StartOf
<1> QED  BY <1>7, <1>8

LEMMA CommandFacts ==
  ASSUME NEW vs \in Commands
  PROVE  vs \in Seq(All) /\ Len(vs) >= 2 /\ vs[2] \in All
<1>1. vs \in Seq(Values) /\ Len(vs) >= 2 /\ Len(vs) \in Nat
  BY CommandsAssumption
<1>2. vs \in Seq(All)
  <2>1. Values \subseteq All
    BY DEF All
  <2> QED  BY <1>1, <2>1, SeqMonotonic
<1>3. 2 \in 1..Len(vs)
  BY <1>1
<1> QED  BY <1>1, <1>2, <1>3

LEMMA DecodingEnds ==
  ASSUME Decoding, Decoded
  PROVE  lost = FALSE /\ List = values /\ values \in Seq(All) /\ Len(values) >= 2 /\ values[2] \in All
<1>1. Len(frames) = 1 /\ ~More(frames[1])
  BY DEF Decoded
<1>2. values \in Seq(All) /\ Len(values) >= 2 /\ values[2] \in All
  BY CommandFacts DEF Decoding
<1>3. lost = FALSE
  <2>1. ~Astray
    <3>1. ASSUME NEW k \in 2..Len(frames)  PROVE FALSE
      BY <1>1
    <3> QED  BY <3>1 DEF Astray
  <2> QED  BY <2>1 DEF Decoding
<1>4. List = values
  BY <1>1, <1>2, <1>3, ListFollowed DEF Decoding
<1> QED  BY <1>2, <1>3, <1>4

-----------------------------------------------------------------------------
(* The invariant                                                             *)

(* Nothing is estimated and nothing is encoded yet.                          *)
Unwritten == form = <<>> /\ strict = 0 /\ cut = 0

IdleInv ==
  phase = "idle" => body = <<>> /\ pos = 0 /\ lost = FALSE /\ esteem = 0 /\ Unwritten

ComposeInv ==
  phase = "compose" =>
    /\ values \in Commands /\ Composed(trail, body, values) /\ walk = trail[Len(trail)].st
    /\ pos = 0 /\ lost = FALSE /\ esteem = 0 /\ Unwritten

DecodeInv ==
  /\ phase = "decode" => Decoding /\ esteem = 0 /\ Unwritten
  /\ phase = "overrun" => lost = TRUE

(* The values of an answer, and how far their estimate is.                   *)
AnswerInv ==
  phase \in {"estimate", "encode", "answered"} =>
    /\ lost = FALSE /\ List = values
    /\ answer \in Seq(All) /\ Len(answer) > 0 /\ EndsWell(Strict(answer))
    /\ Counted(trail, esteem, answer)
    /\ phase = "estimate" => walk = trail[Len(trail)].st /\ Unwritten

(* The encoding takes the steps of the estimate and what they ask for, but   *)
(* for four bytes of every strict array.                                     *)
EncodeInv ==
  phase \in {"encode", "answered"} =>
    /\ Finished(trail[Len(trail)].st) /\ turn \in 1..Len(trail) /\ walk = trail[turn].st
    /\ Len(out.buf) = esteem /\ out.at + 4 * strict = trail[turn].n
    /\ Encoded(out, walk, form, strict, cut)
    /\ phase = "answered" => Finished(walk)

IInv ==
  /\ phase \in {"idle", "compose", "decode", "overrun", "estimate", "encode", "answered"}
  /\ IdleInv /\ ComposeInv /\ DecodeInv /\ AnswerInv /\ EncodeInv

LEMMA LastMark ==
  ASSUME NEW S, NEW t \in Seq(S), NEW x, NEW n
  PROVE  LET u == Append(t, Mark(x, n)) IN u[Len(u)].st = x /\ u[Len(u)].n = n
<1> DEFINE m == Mark(x, n)
           T == S \cup {m}
           u == Append(t, m)
<1>1. t \in Seq(T) /\ m \in T
  <2>1. S \subseteq T
    OBVIOUS
  <2> QED  BY <2>1, SeqMonotonic
<1>2. m.st = x /\ m.n = n
  BY DEF Mark
<1> HIDE DEF m, T
<1>3. Len(u) = Len(t) + 1 /\ u[Len(t) + 1] = m
  BY <1>1, AppendProperties
<1> QED  BY <1>2, <1>3 DEF m

LEMMA InitInv == Init => IInv
<1> SUFFICES ASSUME Init PROVE IInv
  OBVIOUS
<1> QED  BY DEF Init, IInv, IdleInv, ComposeInv, DecodeInv, AnswerInv, EncodeInv, Unwritten

LEMMA CommandInv ==
  ASSUME IInv, Command
  PROVE  IInv'
<1>1. /\ body = <<>> /\ pos = 0 /\ lost = FALSE /\ esteem = 0 /\ Unwritten
      /\ phase' = "compose" /\ values' \in Commands
      /\ walk' = Start(values') /\ trail' = <<Mark(walk', 0)>>
      /\ UNCHANGED <<body, pos, lost, esteem, form, strict, cut>>
  BY DEF Command, IInv, IdleInv, decodeVars, answerVars, encodeVars
<1>2. values' \in Seq(All)
  BY <1>1, CommandFacts
<1>3. Composed(trail', body', values')
  BY <1>1, <1>2, ComposedBegins
<1>4. walk' = trail'[Len(trail')].st
  BY <1>1, <1>2, PathBegins
<1>5. ComposeInv'
  BY <1>1, <1>3, <1>4 DEF ComposeInv, Unwritten
<1> QED  BY <1>1, <1>5 DEF IInv, IdleInv, DecodeInv, AnswerInv, EncodeInv

LEMMA ComposeStepInv ==
  ASSUME IInv, Compose
  PROVE  IInv'
<1>1. /\ phase = "compose"
      /\ values \in Commands /\ Composed(trail, body, values) /\ walk = trail[Len(trail)].st
      /\ pos = 0 /\ lost = FALSE /\ esteem = 0 /\ Unwritten
  BY DEF Compose, IInv, ComposeInv
<1>2. /\ ~Finished(walk) /\ body' = body \o FormatStep(walk)
      /\ walk' = Step(walk) /\ trail' = Append(trail, Mark(walk', Len(body')))
      /\ UNCHANGED <<phase, values, pos, lost, esteem, form, strict, cut>>
  BY DEF Compose, decodeVars, answerVars, encodeVars
<1>3. Composed(trail', body', values)
  BY <1>1, <1>2, ComposedGoesOn
<1>4. walk' = trail'[Len(trail')].st
  <2>1. trail \in Seq(Marks)
    BY <1>1 DEF Composed, Path
  <2> QED  BY <1>2, <2>1, LastMark
<1>5. ComposeInv'
  BY <1>1, <1>2, <1>3, <1>4 DEF ComposeInv, Unwritten
<1> QED  BY <1>1, <1>2, <1>5 DEF IInv, IdleInv, DecodeInv, AnswerInv, EncodeInv

LEMMA SubmitInv ==
  ASSUME IInv, Submit
  PROVE  IInv'
<1>1. /\ values \in Commands /\ Composed(trail, body, values) /\ walk = trail[Len(trail)].st
      /\ pos = 0 /\ lost = FALSE /\ esteem = 0 /\ Unwritten
  BY DEF Submit, IInv, ComposeInv
<1>2. /\ Finished(walk) /\ Len(body) <= MaxBody
      /\ phase' = "decode" /\ frames' = Base /\ turn' = 1
      /\ UNCHANGED <<values, body, pos, lost, esteem, form, strict, cut, trail>>
  BY DEF Submit, clientVars, answerVars, encodeVars
<1>3. values \in Seq(All)
  BY <1>1, CommandFacts
<1> DEFINE st == Start(values)
<1>4. Len(trail) \in Nat \ {0} /\ trail[1].st = st /\ trail[1].n = 0
  <2>1. Path(trail, values)
    BY <1>1 DEF Composed
  <2>2. trail[1] = Mark(Start(values), 0)
    BY <2>1 DEF Path
  <2> QED  BY <2>1, <2>2, PathFacts DEF Mark
<1>5. Base = Frames(st)
  <2>1. /\ st \in Stack /\ Len(st) = 1 /\ st[1].v = Strict(values) /\ st[1].at = 0
        /\ Strict(values).type = 10 /\ Strict(values).list = values
    BY <1>3, StartFacts
  <2> HIDE DEF st
  <2>2. FrameAt(st, 1) = Frame(<<>>, Strict(<<>>), ToTheEnd)
    <3>1. DoneAt(st, 1) = 0 /\ KeyAt(st, 1) = <<>> /\ LeftAt(st, 1) = ToTheEnd
      BY <2>1 DEF DoneAt, KeyAt, LeftAt
    <3>2. Begun(Strict(values), 0) = Strict(SubSeq(values, 1, 0))
      BY <2>1 DEF Begun
    <3>3. SubSeq(values, 1, 0) = <<>>
      BY <1>3, StartOf
    <3> QED  BY <2>1, <3>1, <3>2, <3>3 DEF FrameAt
  <2>3. Frames(st) \in Seq({FrameAt(st, k) : k \in 1..Len(st)}) /\ Len(Frames(st)) = 1 /\ Frames(st)[1] = FrameAt(st, 1)
    <3>1. 1 \in 1..Len(st)
      BY <2>1
    <3> QED  BY <2>1, <3>1, FramesFacts
  <2> DEFINE x == Frame(<<>>, Strict(<<>>), ToTheEnd)
  <2>4. Base = <<x>>
    BY DEF Base
  <2> HIDE DEF x
  <2>5. Base \in Seq({x}) /\ Len(Base) = 1 /\ Base[1] = x
    BY <2>4
  <2>6. \A i \in 1..Len(Base) : Base[i] = Frames(st)[i]
    BY <2>2, <2>3, <2>5 DEF x
  <2> QED  BY <2>3, <2>5, <2>6, SameSequence
<1>6. Followed'
  BY <1>1, <1>2, <1>4, <1>5 DEF Followed
<1>7. Decoding'
  BY <1>1, <1>2, <1>6 DEF Decoding
<1>8. DecodeInv'
  BY <1>1, <1>2, <1>7 DEF DecodeInv, Unwritten
<1> QED  BY <1>2, <1>8 DEF IInv, IdleInv, ComposeInv, AnswerInv, EncodeInv

LEMMA DecodeCallInv ==
  ASSUME IInv, DecodeCall
  PROVE  IInv'
<1>1. Decoding /\ esteem = 0 /\ Unwritten /\ UNCHANGED <<esteem, form, strict, cut>>
  BY DEF DecodeCall, IInv, DecodeInv, answerVars, encodeVars
<1>2. \/ phase' = "overrun" /\ lost' = TRUE
      \/ phase' = "decode" /\ Decoding'
  BY <1>1, CallFollowed, CallAstray
<1>3. DecodeInv'
  BY <1>1, <1>2 DEF DecodeInv, Unwritten
<1> QED  BY <1>2, <1>3 DEF IInv, IdleInv, ComposeInv, AnswerInv, EncodeInv

LEMMA DecodeReturnInv ==
  ASSUME IInv, DecodeReturn
  PROVE  IInv'
<1>1. Decoding /\ esteem = 0 /\ Unwritten /\ phase = "decode" /\ UNCHANGED <<phase, esteem, form, strict, cut>>
  BY DEF DecodeReturn, IInv, DecodeInv, answerVars, encodeVars
<1>2. Decoding'
  BY <1>1, ReturnFollowed, ReturnAstray
<1>3. DecodeInv'
  BY <1>1, <1>2 DEF DecodeInv, Unwritten
<1> QED  BY <1>1, <1>3 DEF IInv, IdleInv, ComposeInv, AnswerInv, EncodeInv

LEMMA AnswerStepInv ==
  ASSUME IInv, Decoded, NEW a \in All, NEW c \in All, NEW d \in All, d.type \in {0, 3},
         NEW b, b = List[2] \/ b \in All, Answer(<<a, b, c, d>>)
  PROVE  IInv'
<1> DEFINE vs == <<a, b, c, d>>
<1>1. Decoding /\ esteem = 0 /\ Unwritten
  BY DEF Decoded, IInv, DecodeInv
<1>2. lost = FALSE /\ List = values /\ values[2] \in All
  BY <1>1, DecodingEnds
<1>3. vs \in Seq(All) /\ Len(vs) = 4 /\ EndsWell(Strict(vs))
  <2>1. b \in All
    BY <1>2
  <2> QED  BY <2>1, AnswersEndWell
<1> HIDE DEF vs
<1>4. /\ phase' = "estimate" /\ answer' = vs /\ walk' = Start(vs) /\ trail' = <<Mark(walk', 0)>>
      /\ UNCHANGED <<values, frames, lost, esteem, form, strict, cut>>
  BY DEF Answer, clientVars, decodeVars, encodeVars, vs
<1>5. Counted(trail', esteem', answer')
  BY <1>1, <1>3, <1>4, ComposedBegins
<1>6. walk' = trail'[Len(trail')].st
  BY <1>3, <1>4, PathBegins
<1>7. AnswerInv'
  <2>1. List' = values'
    BY <1>2, <1>4 DEF List
  <2>2. answer' \in Seq(All) /\ Len(answer') > 0 /\ EndsWell(Strict(answer'))
    BY <1>3, <1>4
  <2>3. lost' = FALSE /\ Unwritten'
    BY <1>1, <1>2, <1>4 DEF Unwritten
  <2> QED  BY <1>5, <1>6, <2>1, <2>2, <2>3 DEF AnswerInv
<1> QED  BY <1>4, <1>7 DEF IInv, IdleInv, ComposeInv, DecodeInv, EncodeInv

LEMMA AnswersInv ==
  ASSUME IInv, CommandConnect \/ CommandCreate \/ CommandPublish
  PROVE  IInv'
<1>1. /\ Str(Text(7)) \in All /\ Str(Text(8)) \in All /\ One \in All /\ Null \in All /\ Capabilities \in All
      /\ Success \in All /\ Started \in All
      /\ One.type \in {0, 3} /\ Success.type \in {0, 3} /\ Started.type \in {0, 3}
  <2>1. 7 \in 0..29 /\ 8 \in 0..29
    OBVIOUS
  <2> QED  BY <2>1, OwnFacts
<1>2. CASE CommandConnect
  <2>1. Decoded /\ Answer(<<Str(Text(7)), List[2], Capabilities, Success>>)
    BY <1>2 DEF CommandConnect, Named, ConnectAnswer
  <2> QED  BY <1>1, <2>1, AnswerStepInv
<1>3. CASE CommandCreate
  <2>1. Decoded /\ Answer(<<Str(Text(7)), List[2], Null, One>>)
    BY <1>3 DEF CommandCreate, Named, CreateAnswer
  <2> QED  BY <1>1, <2>1, AnswerStepInv
<1>4. CASE CommandPublish
  <2>1. Decoded /\ Answer(<<Str(Text(8)), One, Null, Started>>)
    BY <1>4 DEF CommandPublish, Named, OnStatus
  <2> QED  BY <1>1, <2>1, AnswerStepInv
<1> QED  BY <1>2, <1>3, <1>4

LEMMA EstimateInv ==
  ASSUME IInv, Estimate
  PROVE  IInv'
<1>1. /\ phase = "estimate" /\ lost = FALSE /\ List = values
      /\ answer \in Seq(All) /\ Len(answer) > 0 /\ EndsWell(Strict(answer))
      /\ Counted(trail, esteem, answer)
      /\ walk = trail[Len(trail)].st /\ Unwritten
  BY DEF Estimate, IInv, AnswerInv
<1>2. /\ ~Finished(walk) /\ esteem' = esteem + EstimateStep(walk)
      /\ walk' = Step(walk) /\ trail' = Append(trail, Mark(walk', esteem'))
      /\ UNCHANGED <<phase, values, frames, lost, answer, form, strict, cut>>
  BY DEF Estimate, clientVars, decodeVars, encodeVars
<1>3. Counted(trail', esteem', answer)
  BY <1>1, <1>2, CountedGoesOn
<1>4. walk' = trail'[Len(trail')].st
  <2>1. trail \in Seq(Marks)
    BY <1>1 DEF Counted, Path
  <2> QED  BY <1>2, <2>1, LastMark
<1>5. AnswerInv'
  <2>1. List' = values'
    BY <1>1, <1>2 DEF List
  <2> QED  BY <1>1, <1>2, <1>3, <1>4, <2>1 DEF AnswerInv, Unwritten
<1> QED  BY <1>1, <1>2, <1>5 DEF IInv, IdleInv, ComposeInv, DecodeInv, EncodeInv

LEMMA AllocInv ==
  ASSUME IInv, Alloc
  PROVE  IInv'
<1>1. /\ lost = FALSE /\ List = values
      /\ answer \in Seq(All) /\ Len(answer) > 0 /\ EndsWell(Strict(answer))
      /\ Counted(trail, esteem, answer)
      /\ walk = trail[Len(trail)].st /\ Unwritten
  BY DEF Alloc, IInv, AnswerInv
<1>2. /\ Finished(walk) /\ phase' = "encode"
      /\ out' = [buf |-> [i \in 1..esteem |-> Dirty], at |-> 0]
      /\ walk' = Start(answer) /\ turn' = 1
      /\ UNCHANGED <<values, frames, lost, answer, esteem, form, strict, cut, trail>>
  BY DEF Alloc, clientVars, decodeVars, answerVars
<1>3. /\ Len(trail) \in Nat \ {0} /\ trail[1].st = Start(answer) /\ trail[1].n = 0 /\ esteem \in Nat
  <2>1. Path(trail, answer) /\ esteem = trail[Len(trail)].n
    BY <1>1 DEF Counted
  <2>2. trail[1] = Mark(Start(answer), 0)
    BY <2>1 DEF Path
  <2>3. Len(trail) \in Nat \ {0} /\ \A k \in 1..Len(trail) : trail[k].n \in Nat
    BY <2>1, PathFacts
  <2> QED  BY <2>1, <2>2, <2>3 DEF Mark
<1>4. Encoded(out', Start(answer), <<>>, 0, 0) /\ Len(out'.buf) = esteem
  BY <1>1, <1>2, <1>3, EncodedBegins
<1>5. out'.at + 4 * 0 = 0
  BY <1>2
<1>6. EncodeInv'
  <2>1. form' = <<>> /\ strict' = 0 /\ cut' = 0
    BY <1>1, <1>2 DEF Unwritten
  <2>2. turn' \in 1..Len(trail)
    BY <1>2, <1>3
  <2> QED  BY <1>1, <1>2, <1>3, <1>4, <1>5, <2>1, <2>2 DEF EncodeInv
<1>7. AnswerInv'
  <2>1. List' = values'
    BY <1>1, <1>2 DEF List
  <2> QED  BY <1>1, <1>2, <2>1 DEF AnswerInv
<1> QED  BY <1>2, <1>6, <1>7 DEF IInv, IdleInv, ComposeInv, DecodeInv

LEMMA EncodeStepInv ==
  ASSUME IInv, Encode
  PROVE  IInv'
<1>1. /\ phase = "encode" /\ lost = FALSE /\ List = values
      /\ answer \in Seq(All) /\ Len(answer) > 0 /\ EndsWell(Strict(answer))
      /\ Counted(trail, esteem, answer)
  BY DEF Encode, IInv, AnswerInv
<1>2. /\ Finished(trail[Len(trail)].st) /\ turn \in 1..Len(trail) /\ walk = trail[turn].st
      /\ Len(out.buf) = esteem /\ out.at + 4 * strict = trail[turn].n
      /\ Encoded(out, walk, form, strict, cut)
  BY <1>1 DEF IInv, EncodeInv
<1>3. /\ ~Finished(walk) /\ out' = PutStep(out, walk)
      /\ walk' = Step(walk) /\ turn' = turn + 1
      /\ form' = form \o FormatStep(walk)
      /\ strict' = IF StrictStep(walk) THEN strict + 1 ELSE strict
      /\ cut' = IF Inside(walk) THEN cut + CutOff(NextChild(walk)) ELSE cut
      /\ UNCHANGED <<phase, values, frames, lost, answer, esteem, trail>>
  BY DEF Encode, StrictStep, clientVars, decodeVars, answerVars
<1>4. /\ Path(trail, answer) /\ walk \in Stack /\ walk[1].v = Strict(answer) /\ trail[turn].n \in Nat
      /\ Len(trail) \in Nat
  BY <1>1, <1>2, PathFacts DEF Counted
<1>5. turn + 1 \in 1..Len(trail) /\ trail[turn + 1].st = Step(walk) /\ turn \in 1..(Len(trail) - 1)
  <2>1. turn # Len(trail)
    BY <1>2, <1>3
  <2>2. turn + 1 \in 1..Len(trail) /\ trail[turn + 1].st = Step(walk)
    BY <1>2, <1>4, <2>1, PathEnds
  <2> QED  BY <1>2, <1>4, <2>1, <2>2
<1>6. trail[turn + 1].n = trail[turn].n + EstimateStep(walk) /\ trail[turn + 1].n <= esteem
  BY <1>1, <1>2, <1>5 DEF Counted
<1>7. out.at + EstimateStep(walk) <= Len(out.buf)
  <2>1. out.at \in Nat /\ strict \in Nat /\ EstimateStep(walk) \in Nat /\ esteem \in Nat
    <3>1. out.at \in Nat /\ strict \in Nat /\ Len(out.buf) \in Nat
      BY <1>2 DEF Encoded, Buffer
    <3> QED  BY <1>2, <1>4, <3>1, StepLengths
  <2> QED  BY <1>2, <1>6, <2>1
<1>8. /\ Encoded(out', walk', form', strict', cut')
      /\ out'.at + 4 * strict' = out.at + 4 * strict + EstimateStep(walk) /\ Len(out'.buf) = Len(out.buf)
  <2>1. EndsWell(walk[1].v)
    BY <1>1, <1>4
  <2> DEFINE u == PutStep(out, walk)
             s2 == IF StrictStep(walk) THEN strict + 1 ELSE strict
             c2 == IF Inside(walk) THEN cut + CutOff(NextChild(walk)) ELSE cut
  <2>2. /\ Encoded(u, Step(walk), form \o FormatStep(walk), s2, c2)
        /\ u.at + 4 * s2 = out.at + 4 * strict + EstimateStep(walk) /\ Len(u.buf) = Len(out.buf)
    BY <1>2, <1>3, <1>4, <1>7, <2>1, EncodedGoesOn
  <2>3. out' = u /\ strict' = s2 /\ cut' = c2
    BY <1>3
  <2> HIDE DEF u, s2, c2
  <2> QED  BY <1>3, <2>2, <2>3
<1>9. EncodeInv'
  <2>1. out'.at + 4 * strict' = trail[turn + 1].n
    BY <1>2, <1>6, <1>8
  <2> QED  BY <1>1, <1>2, <1>3, <1>5, <1>8, <2>1 DEF EncodeInv
<1>10. AnswerInv'
  <2>1. List' = values'
    BY <1>1, <1>3 DEF List
  <2> QED  BY <1>1, <1>3, <2>1 DEF AnswerInv
<1> QED  BY <1>1, <1>3, <1>9, <1>10 DEF IInv, IdleInv, ComposeInv, DecodeInv

LEMMA SendInv ==
  ASSUME IInv, Send
  PROVE  IInv'
<1>1. /\ phase = "encode" /\ Finished(walk) /\ phase' = "answered"
      /\ UNCHANGED <<values, walk, frames, lost, answer, esteem, out, form, strict, cut, trail, turn>>
  BY DEF Send, clientVars, decodeVars, answerVars, encodeVars
<1>2. EncodeInv'
  BY <1>1 DEF IInv, EncodeInv
<1>3. AnswerInv'
  BY <1>1 DEF IInv, AnswerInv, List
<1> QED  BY <1>1, <1>2, <1>3 DEF IInv, IdleInv, ComposeInv, DecodeInv

LEMMA DoneInv ==
  ASSUME Done
  PROVE  IInv'
<1>1. phase' = "idle" /\ IdleInv'
  BY DEF Done, IdleInv, Unwritten
<1> QED  BY <1>1 DEF IInv, ComposeInv, DecodeInv, AnswerInv, EncodeInv

LEMMA StutterInv ==
  ASSUME IInv, UNCHANGED vars
  PROVE  IInv'
<1>1. UNCHANGED <<phase, values, walk, body, pos, frames, answer, esteem, out, trail, turn, lost, form, strict, cut>>
  BY DEF vars, clientVars, decodeVars, answerVars, encodeVars
<1>2. IdleInv' /\ ComposeInv'
  BY <1>1 DEF IInv, IdleInv, ComposeInv, Unwritten
<1>3. DecodeInv'
  BY <1>1 DEF IInv, DecodeInv, Decoding, Astray, Followed, Unwritten
<1>4. AnswerInv' /\ EncodeInv'
  BY <1>1 DEF IInv, AnswerInv, EncodeInv, Unwritten, List
<1> QED  BY <1>1, <1>2, <1>3, <1>4 DEF IInv

LEMMA StepInv ==
  ASSUME IInv, [Next]_vars
  PROVE  IInv'
<1>1. CASE Command
  BY <1>1, CommandInv
<1>2. CASE Compose
  BY <1>2, ComposeStepInv
<1>3. CASE Submit
  BY <1>3, SubmitInv
<1>4. CASE DecodeCall
  BY <1>4, DecodeCallInv
<1>5. CASE DecodeReturn
  BY <1>5, DecodeReturnInv
<1>6. CASE CommandConnect \/ CommandCreate \/ CommandPublish
  BY <1>6, AnswersInv
<1>7. CASE Estimate
  BY <1>7, EstimateInv
<1>8. CASE Alloc
  BY <1>8, AllocInv
<1>9. CASE Encode
  BY <1>9, EncodeStepInv
<1>10. CASE Send
  BY <1>10, SendInv
<1>11. CASE Done
  BY <1>11, DoneInv
<1>12. CASE Over \/ UNCHANGED vars
  BY <1>12, StutterInv DEF Over
<1> QED  BY <1>1, <1>2, <1>3, <1>4, <1>5, <1>6, <1>7, <1>8, <1>9, <1>10, <1>11, <1>12 DEF Next

LEMMA InvHolds == Spec => []IInv
<1>1. Init => IInv
  BY InitInv
<1>2. IInv /\ [Next]_vars => IInv'
  BY StepInv
<1> QED  BY <1>1, <1>2, PTL DEF Spec

-----------------------------------------------------------------------------
(* The theorems                                                              *)

(* Whatever the client sends, of any size and depth: up to the first thing   *)
(* that video_amf_decode does not read as it is meant it is at the client's  *)
(* place in the body and has the client's values; with such a thing in it,   *)
(* it never gets to the end of the body, and without, it never reads beyond  *)
(* it.                                                                       *)
THEOREM DecodingIntact == Spec => []DecodedIntact
<1>1. ASSUME IInv  PROVE DecodedIntact
  <2>1. ASSUME phase = "decode", ~lost  PROVE pos = trail[turn].n /\ IsPrefix(List, values)
    <3>1. Decoding
      BY <1>1, <2>1 DEF IInv, DecodeInv
    <3>2. values \in Seq(All)
      BY <3>1, CommandFacts DEF Decoding
    <3> QED  BY <2>1, <3>1, <3>2, ListFollowed DEF Decoding, Followed
  <2>2. phase = "overrun" => lost
    BY <1>1 DEF IInv, DecodeInv
  <2>3. ASSUME Decoded  PROVE ~lost /\ List = values
    <3>1. Decoding
      BY <1>1, <2>3 DEF IInv, DecodeInv, Decoded
    <3> QED  BY <2>3, <3>1, DecodingEnds
  <2>4. phase \in {"estimate", "encode", "answered"} => ~lost /\ List = values
    BY <1>1 DEF IInv, AnswerInv
  <2> QED  BY <2>1, <2>2, <2>3, <2>4 DEF DecodedIntact
<1> QED  BY <1>1, InvHolds, PTL

(* video_amf_encode stays within the buffer that video_amf_estimate asks     *)
(* for, for every answer with every value that a client may have sent, and   *)
(* is short of it by the four bytes of every strict array.                   *)
THEOREM EstimatesCover == Spec => []EstimateCovers
<1>1. ASSUME IInv  PROVE EstimateCovers
  <2>1. phase \in {"encode", "answered"} => Len(out.buf) = esteem
    BY <1>1 DEF IInv, EncodeInv
  <2>2. ASSUME phase = "answered"  PROVE out.at = esteem - 4 * strict
    <3>1. /\ Finished(trail[Len(trail)].st) /\ turn \in 1..Len(trail) /\ walk = trail[turn].st
          /\ out.at + 4 * strict = trail[turn].n
          /\ Encoded(out, walk, form, strict, cut) /\ Finished(walk)
      BY <1>1, <2>2 DEF IInv, EncodeInv
    <3>2. Counted(trail, esteem, answer)
      BY <1>1, <2>2 DEF IInv, AnswerInv
    <3>3. turn = Len(trail)
      BY <3>1, <3>2, PathEnds DEF Counted
    <3>4. out.at + 4 * strict = esteem
      BY <3>1, <3>2, <3>3 DEF Counted
    <3>5. out.at \in Nat /\ strict \in Nat
      BY <3>1 DEF Encoded, Buffer
    <3> QED  BY <3>4, <3>5
  <2> QED  BY <2>1, <2>2 DEF EstimateCovers
<1> QED  BY <1>1, InvHolds, PTL

(* What is sent is the answer in the format exactly when the client's value  *)
(* has neither a strict array nor a string with a zero byte.                 *)
THEOREM AnswersIntact == Spec => []AnswerIntact
<1>1. ASSUME IInv  PROVE AnswerIntact
  <2>1. ASSUME phase = "answered"  PROVE out.buf = form <=> strict = 0 /\ cut = 0
    <3>1. /\ Finished(trail[Len(trail)].st) /\ turn \in 1..Len(trail) /\ walk = trail[turn].st
          /\ Len(out.buf) = esteem /\ out.at + 4 * strict = trail[turn].n
          /\ Encoded(out, walk, form, strict, cut) /\ Finished(walk)
      BY <1>1, <2>1 DEF IInv, EncodeInv
    <3>2. Counted(trail, esteem, answer)
      BY <1>1, <2>1 DEF IInv, AnswerInv
    <3>3. turn = Len(trail)
      BY <3>1, <3>2, PathEnds DEF Counted
    <3>4. out.at + 4 * strict = Len(out.buf)
      BY <3>1, <3>2, <3>3 DEF Counted
    <3> QED  BY <3>1, <3>4, EncodedEnds
  <2> QED  BY <2>1 DEF AnswerIntact
<1> QED  BY <1>1, InvHolds, PTL

=============================================================================
