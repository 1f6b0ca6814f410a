--------------------------------- MODULE Amf ---------------------------------
(***************************************************************************)
(* The AMF codec (amf/amf.c) as the command handlers of rtmp/message.c use *)
(* it: the body of a command is decoded value by value into a list, and    *)
(* the answer, which repeats the client's second value, is measured by     *)
(* video_amf_estimate and encoded into a buffer of that size.              *)
(*                                                                         *)
(* Bodies are sequences of real bytes.  A client encodes what it sends by  *)
(* the format itself, stated here on its own (FormatOf).  Values nest, and *)
(* the functions of the codec call themselves: a step is one such call or  *)
(* its return, over the stack of the calls that are not finished.          *)
(***************************************************************************)
EXTENDS Integers, Sequences, SequencesExt

CONSTANTS
  Values,    \* the values that clients send, their parts included
  Commands,  \* the commands they send: sequences of values
  MaxBody    \* the length of the longest body that the reader accepts

VARIABLES
  phase,   \* "idle" | "compose" | "decode" | "overrun" | "estimate" | "encode" | "answered"
  values,  \* the values of the command, as the client means them
  walk,    \* the calls under way over the values: of the client, of estimate, of encode
  body,    \* the body of the command
  pos,     \* how much of it is decoded
  frames,  \* the calls of video_amf_decode under way, the last one innermost
  answer,  \* the values of the answer
  esteem,  \* their estimate
  out      \* the buffer for the answer and the place that the encoding has reached

(* History: the walk over the values and how far it was at every step, first *)
(* the client's, then that of the estimate; the step of it that the decoding *)
(* or the encoding has reached; whether the decoder met something that it    *)
(* does not read as it is meant.                                             *)
VARIABLES trail, turn, lost

(* History of an encoding: what the format asks for up to here, the strict   *)
(* arrays met, and the bytes that zero bytes within strings cut off.         *)
VARIABLES form, strict, cut

clientVars == <<values, body>>
decodeVars == <<pos, frames, lost>>
answerVars == <<answer, esteem>>
encodeVars == <<out, form, strict, cut>>
vars == <<phase, clientVars, walk, decodeVars, answerVars, encodeVars, trail, turn>>

Type == [NUMBER |-> 0, BOOLEAN |-> 1, STRING |-> 2, OBJECT |-> 3, NULL |-> 5,
         ECMAARRAY |-> 8, OBJECTEND |-> 9, STRICTARRAY |-> 10, LONGSTRING |-> 12]

Number(d) == [type |-> Type.NUMBER, dbl |-> d]     \* d: eight bytes, the least one first
Bool(b) == [type |-> Type.BOOLEAN, bool |-> b]
Str(s) == [type |-> Type.STRING, str |-> s]
Long(s) == [type |-> Type.LONGSTRING, str |-> s]
Object(m) == [type |-> Type.OBJECT, map |-> m]     \* m: pairs of a key and a value
Ecma(m) == [type |-> Type.ECMAARRAY, map |-> m]
Strict(l) == [type |-> Type.STRICTARRAY, list |-> l]
Null == [type |-> Type.NULL]

Byte == 0..255
Short == {s \in Seq(Byte) : Len(s) < 65536}
Key == {s \in Short : 0 \notin ToSet(s)}

(* The values whose parts belong to V.                                       *)
Shapes(V) ==
  [type : {Type.NUMBER}, dbl : [1..8 -> Byte]]
    \cup [type : {Type.BOOLEAN}, bool : Byte]
    \cup [type : {Type.STRING}, str : Short]
    \cup [type : {Type.LONGSTRING}, str : Seq(Byte)]
    \cup [type : {Type.OBJECT}, map : Seq(Key \X V)]
    \cup [type : {Type.ECMAARRAY}, map : {m \in Seq(Key \X V) : Len(m) < 256}]
    \cup [type : {Type.STRICTARRAY}, list : {l \in Seq(V) : Len(l) < 256}]
    \cup [type : {Type.NULL}]

(* Clients send values of the format, to any depth; arrays of 256 and more   *)
(* are left out, as their size is read as one that may fit the body.         *)
ASSUME ValuesAssumption == Values \subseteq Shapes(Values)

(* A command has a name and the value that an answer repeats.                *)
ASSUME CommandsAssumption ==
  \A c \in Commands : c \in Seq(Values) /\ Len(c) >= 2 /\ c[1].type = Type.STRING

ASSUME BodyAssumption == MaxBody \in Nat /\ MaxBody < 16777216

-----------------------------------------------------------------------------
(* Bytes                                                                     *)

(* A string as strlen, strdup and strcmp see it.                             *)
CStr(s) ==
  LET zeros == {i \in DOMAIN s : s[i] = 0} IN
  IF zeros = {} THEN s ELSE SubSeq(s, 1, (CHOOSE i \in zeros : \A j \in zeros : i <= j) - 1)

(* video_byte_swap_generic exchanges the halves.  Mutant: it runs to the     *)
(* end, and swaps everything back.                                           *)
SwapGenericTwice(s) == s
SwapGeneric(s) == [i \in DOMAIN s |-> s[Len(s) - i + 1]]

(* The last k bytes of a number, and the number of two or four bytes, the    *)
(* highest byte first.                                                       *)
Unit(i) == IF i = 0 THEN 1 ELSE IF i = 1 THEN 256 ELSE IF i = 2 THEN 65536 ELSE 16777216
Bytes(n, k) == [i \in 1..k |-> (n \div Unit(k - i)) % 256]
Number2(bs) == 256 * bs[1] + bs[2]
Number4(bs) == 16777216 * bs[1] + 65536 * bs[2] + 256 * bs[3] + bs[4]

(* Above all bodies; how far makes no difference.                            *)
Huge == 268435456
Limited(bs) == IF bs[1] >= 16 THEN Huge ELSE Number4(bs)

(* A length is put together from signed characters: one above 127 sets all   *)
(* bits above it.                                                            *)
Length(bs) ==
  IF \E i \in DOMAIN bs : bs[i] > 127 THEN Huge
  ELSE IF Len(bs) = 2 THEN Number2(bs) ELSE Limited(bs)

(* The size of an array is copied and not swapped.                           *)
Count(bs) == Limited(SwapGeneric(bs))

EndMark == <<0, 0, Type.OBJECTEND>>

-----------------------------------------------------------------------------
(* The recursion: calls over the parts of values                             *)

Keyed(v) == v.type \in {Type.OBJECT, Type.ECMAARRAY}
Size(v) ==
  CASE Keyed(v) -> Len(v.map)
    [] v.type = Type.STRICTARRAY -> Len(v.list)
    [] OTHER -> 0
Child(v, i) == IF Keyed(v) THEN v.map[i][2] ELSE v.list[i]

(* A call is at the last of its value's parts that it has begun; the first   *)
(* call is the caller's, over a list of values.                              *)
Start(vs) == <<[v |-> Strict(vs), at |-> 0]>>
Inside(st) == Last(st).at < Size(Last(st).v)
NextChild(st) == Child(Last(st).v, Last(st).at + 1)
NextKey(st) == Last(st).v.map[Last(st).at + 1][1]
Enter(st) ==
  Front(st) \o <<[v |-> Last(st).v, at |-> Last(st).at + 1], [v |-> NextChild(st), at |-> 0]>>
Step(st) == IF Inside(st) THEN Enter(st) ELSE Front(st)
Finished(st) == Len(st) = 1 /\ ~Inside(st)
Mark(st, n) == [st |-> st, n |-> n]

-----------------------------------------------------------------------------
(* The client                                                                *)

FormatStr(s, k) == Bytes(Len(s), k) \o s
FormatOf(v) ==
  <<v.type>> \o
  CASE v.type = Type.NUMBER -> Reverse(v.dbl)
    [] v.type = Type.BOOLEAN -> <<v.bool>>
    [] v.type = Type.STRING -> FormatStr(v.str, 2)
    [] v.type = Type.LONGSTRING -> FormatStr(v.str, 4)
    [] v.type \in {Type.ECMAARRAY, Type.STRICTARRAY} -> Bytes(Size(v), 4)
    [] OTHER -> <<>>

(* What the format has at a step: the key and the beginning of a part, or    *)
(* the end of a value.                                                       *)
FormatStep(st) ==
  IF Inside(st) THEN (IF Keyed(Last(st).v) THEN FormatStr(NextKey(st), 2) ELSE <<>>) \o FormatOf(NextChild(st))
  ELSE IF Last(st).v.type = Type.OBJECT THEN EndMark ELSE <<>>

Command ==
  /\ phase = "idle" /\ phase' = "compose"
  /\ values' \in Commands
  /\ walk' = Start(values') /\ trail' = <<Mark(walk', 0)>>
  /\ UNCHANGED <<body, decodeVars, answerVars, encodeVars, turn>>

Compose ==
  /\ phase = "compose" /\ ~Finished(walk)
  /\ body' = body \o FormatStep(walk)
  /\ walk' = Step(walk) /\ trail' = Append(trail, Mark(walk', Len(body')))
  /\ UNCHANGED <<phase, values, decodeVars, answerVars, encodeVars, turn>>

-----------------------------------------------------------------------------
(* Decoding                                                                  *)

(* A call of video_amf_decode: the key that its value will have, what it has *)
(* of the value, and how many parts it still expects.                        *)
Frame(key, v, left) == [key |-> key, v |-> v, left |-> left]
ToTheEnd == -1  \* it goes on to the end mark, or to the end of the body
Base == <<Frame(<<>>, Strict(<<>>), ToTheEnd)>>  \* video_amf_decodeall
List == frames[1].v.list

Rest == Len(body) - pos
Piece(p, n) == SubSeq(body, p + 1, p + n)
AtEndMark == Rest >= 3 /\ Piece(pos, 3) = EndMark

(* The condition of the loop over the parts of a value.                      *)
More(f) == IF f.left = ToTheEnd THEN Rest > 0 /\ ~(f.v.type = Type.OBJECT /\ AtEndMark) ELSE f.left > 0

(* The space that a string or a value at place p takes, without the parts of *)
(* the value; what has no length within the body is larger than it.          *)
StrSpace(p, k) == IF p + k > Len(body) THEN Huge ELSE k + Length(Piece(p, k))
Space(p) ==
  IF p >= Len(body) THEN Huge
  ELSE 1 + CASE body[p + 1] = Type.NUMBER -> 8
             [] body[p + 1] = Type.BOOLEAN -> 1
             [] body[p + 1] = Type.STRING -> StrSpace(p + 1, 2)
             [] body[p + 1] = Type.LONGSTRING -> StrSpace(p + 1, 4)
             [] body[p + 1] \in {Type.ECMAARRAY, Type.STRICTARRAY} -> 4
             [] OTHER -> 0

(* The call for the value at place p of the body, which takes n bytes.       *)
Call(key, p, n) ==
  CASE body[p + 1] = Type.NUMBER -> Frame(key, Number(SwapGeneric(Piece(p + 1, 8))), 0)
    [] body[p + 1] = Type.BOOLEAN -> Frame(key, Bool(body[p + 2]), 0)
    [] body[p + 1] = Type.STRING -> Frame(key, Str(Piece(p + 3, n - 3)), 0)
    [] body[p + 1] = Type.LONGSTRING -> Frame(key, Long(Piece(p + 5, n - 5)), 0)
    [] body[p + 1] = Type.OBJECT -> Frame(key, Object(<<>>), ToTheEnd)
    [] body[p + 1] = Type.ECMAARRAY -> Frame(key, Ecma(<<>>), Count(Piece(p + 1, 4)))
    [] body[p + 1] = Type.STRICTARRAY -> Frame(key, Strict(<<>>), Count(Piece(p + 1, 4)))
    [] OTHER -> Frame(key, [type |-> body[p + 1]], 0)

(* What is next for the client is read as it is meant: no length with a byte *)
(* above 127, and no array, unless its size is the same backwards.           *)
Clear(st) ==
  Inside(st) =>
    LET c == NextChild(st) IN
    /\ Keyed(Last(st).v) => Length(Bytes(Len(NextKey(st)), 2)) = Len(NextKey(st))
    /\ c.type = Type.STRING => Length(Bytes(Len(c.str), 2)) = Len(c.str)
    /\ c.type = Type.LONGSTRING => Length(Bytes(Len(c.str), 4)) = Len(c.str)
    /\ c.type \in {Type.ECMAARRAY, Type.STRICTARRAY} => Count(Bytes(Size(c), 4)) = Size(c)

Follow == turn' = turn + 1 /\ lost' = (lost \/ ~Clear(trail[turn].st))

(* The body is complete.  One that is too long ends the connection.          *)
Submit ==
  /\ phase = "compose" /\ Finished(walk) /\ Len(body) <= MaxBody
  /\ phase' = "decode" /\ frames' = Base /\ turn' = 1
  /\ UNCHANGED <<clientVars, walk, pos, lost, answerVars, encodeVars, trail>>

(* Another part: its key, if it has one, and the call for its value.         *)
DecodeCall ==
  LET f == Last(frames)
      keySpace == IF Keyed(f.v) THEN StrSpace(pos, 2) ELSE 0
      key == IF Keyed(f.v) THEN CStr(Piece(pos + 2, keySpace - 2)) ELSE <<>>
      end == pos + keySpace + Space(pos + keySpace)
  IN /\ phase = "decode" /\ More(f) /\ Follow
     /\ \/ /\ end <= Len(body)
           /\ pos' = end
           /\ frames' = Front(frames) \o
                <<Frame(f.key, f.v, IF f.left > 0 THEN f.left - 1 ELSE f.left),
                  Call(key, pos + keySpace, Space(pos + keySpace))>>
           /\ UNCHANGED phase
        \/ end > Len(body) /\ phase' = "overrun" /\ UNCHANGED <<pos, frames>>
     /\ UNCHANGED <<clientVars, walk, answerVars, encodeVars, trail>>

(* A value with its parts is complete and goes to the one that it is part    *)
(* of.  Mutant: the end mark is recognised but not skipped.                  *)
AfterStay(f) == pos
After(f) == IF f.left = ToTheEnd /\ Rest > 0 THEN pos + 3 ELSE pos
Filled(v, f) ==
  IF Keyed(v) THEN [v EXCEPT !.map = Append(@, <<f.key, f.v>>)] ELSE [v EXCEPT !.list = Append(@, f.v)]

DecodeReturn ==
  LET f == Last(frames)
      g == frames[Len(frames) - 1]
  IN /\ phase = "decode" /\ ~More(f) /\ Len(frames) > 1 /\ Follow
     /\ pos' = After(f)
     /\ frames' = Append(Front(Front(frames)), Frame(g.key, Filled(g.v, f), g.left))
     /\ UNCHANGED <<phase, clientVars, walk, answerVars, encodeVars, trail>>

-----------------------------------------------------------------------------
(* Estimating                                                                *)

(* Mutant: the length of a key does not count.                               *)
EstimateKeyShort(key) == Len(CStr(key))
EstimateKey(key) == 2 + Len(CStr(key))
EstimateOf(v) ==
  1 + CASE v.type = Type.NUMBER -> 8
        [] v.type = Type.BOOLEAN -> 1
        [] v.type = Type.STRING -> 2 + Len(CStr(v.str))
        [] v.type = Type.LONGSTRING -> 4 + Len(CStr(v.str))
        [] v.type \in {Type.ECMAARRAY, Type.STRICTARRAY} -> 4
        [] OTHER -> 0
EstimateStep(st) ==
  IF Inside(st) THEN (IF Keyed(Last(st).v) THEN EstimateKey(NextKey(st)) ELSE 0) + EstimateOf(NextChild(st))
  ELSE IF Last(st).v.type = Type.OBJECT THEN 3 ELSE 0

(* The values of the answers; texts are told apart by their lengths.         *)
Text(n) == [i \in 1..n |-> 97]
One == Number(<<0, 0, 0, 0, 0, 0, 240, 63>>)
Capabilities == Object(<< <<Text(6), Str(Text(13))>>, <<Text(12), One>> >>)
Success ==
  Object(<< <<Text(5), Str(Text(6))>>, <<Text(4), Str(Text(29))>>,
            <<Text(11), Str(Text(21))>>, <<Text(14), One>> >>)
Started ==
  Object(<< <<Text(5), Str(Text(6))>>, <<Text(4), Str(Text(23))>>, <<Text(11), Str(Text(17))>> >>)
ConnectAnswer == <<Str(Text(7)), List[2], Capabilities, Success>>
CreateAnswer == <<Str(Text(7)), List[2], Null, One>>
OnStatus == <<Str(Text(8)), One, Null, Started>>

Answer(vs) ==
  /\ phase' = "estimate" /\ answer' = vs
  /\ walk' = Start(vs) /\ trail' = <<Mark(walk', 0)>>
  /\ UNCHANGED <<clientVars, decodeVars, esteem, encodeVars, turn>>

(* The names of the commands, told apart by a letter.                        *)
ConnectName == <<99>>
CreateName == <<67>>
PublishName == <<112>>
Decoded == phase = "decode" /\ Len(frames) = 1 /\ ~More(frames[1])
Named(name) == Decoded /\ CStr(List[1].str) = name
CommandConnect == Named(ConnectName) /\ Answer(ConnectAnswer)
CommandCreate == Named(CreateName) /\ Answer(CreateAnswer)
CommandPublish == Named(PublishName) /\ Answer(OnStatus)

Estimate ==
  /\ phase = "estimate" /\ ~Finished(walk)
  /\ esteem' = esteem + EstimateStep(walk)
  /\ walk' = Step(walk) /\ trail' = Append(trail, Mark(walk', esteem'))
  /\ UNCHANGED <<phase, clientVars, decodeVars, answer, encodeVars, turn>>

-----------------------------------------------------------------------------
(* Encoding                                                                  *)

(* Bytes written at the place t.at, which moves on, or stays.                *)
Put(t, bs) ==
  LET end == t.at + Len(bs) IN
  [buf |-> [i \in 1..(IF end > Len(t.buf) THEN end ELSE Len(t.buf)) |->
             IF i \in (t.at + 1)..end THEN bs[i - t.at] ELSE t.buf[i]],
   at |-> end]
PutStay(t, bs) == [buf |-> Put(t, bs).buf, at |-> t.at]
PutStr(t, s, k) == Put(Put(t, Bytes(Len(CStr(s)), k)), CStr(s))
PutOf(t, v) ==
  LET u == Put(t, <<v.type>>) IN
  CASE v.type = Type.NUMBER -> Put(u, SwapGeneric(v.dbl))
    [] v.type = Type.BOOLEAN -> Put(u, <<v.bool>>)
    [] v.type = Type.STRING -> PutStr(u, v.str, 2)
    [] v.type = Type.LONGSTRING -> PutStr(u, v.str, 4)
    [] v.type = Type.ECMAARRAY -> Put(u, Bytes(Size(v), 4))
       \* the first part goes where the size is
    [] v.type = Type.STRICTARRAY -> PutStay(u, Bytes(Size(v), 4))
    [] OTHER -> u
PutStep(t, st) ==
  IF Inside(st) THEN PutOf(IF Keyed(Last(st).v) THEN PutStr(t, NextKey(st), 2) ELSE t, NextChild(st))
  ELSE IF Last(st).v.type = Type.OBJECT THEN Put(t, EndMark) ELSE t

(* The buffer is as its last user left it.                                   *)
Dirty == 256
Alloc ==
  /\ phase = "estimate" /\ Finished(walk) /\ phase' = "encode"
  /\ out' = [buf |-> [i \in 1..esteem |-> Dirty], at |-> 0]
  /\ walk' = Start(answer) /\ turn' = 1
  /\ UNCHANGED <<clientVars, decodeVars, answerVars, form, strict, cut, trail>>

CutOff(v) == IF v.type \in {Type.STRING, Type.LONGSTRING} THEN Len(v.str) - Len(CStr(v.str)) ELSE 0
IsStrict(v) == v.type = Type.STRICTARRAY

Encode ==
  /\ phase = "encode" /\ ~Finished(walk)
  /\ out' = PutStep(out, walk)
  /\ walk' = Step(walk) /\ turn' = turn + 1
  /\ form' = form \o FormatStep(walk)
  /\ strict' = IF Inside(walk) /\ IsStrict(NextChild(walk)) THEN strict + 1 ELSE strict
  /\ cut' = IF Inside(walk) THEN cut + CutOff(NextChild(walk)) ELSE cut
  /\ UNCHANGED <<phase, clientVars, decodeVars, answerVars, trail>>

Send ==
  /\ phase = "encode" /\ Finished(walk) /\ phase' = "answered"
  /\ UNCHANGED <<clientVars, walk, decodeVars, answerVars, encodeVars, trail, turn>>

-----------------------------------------------------------------------------
Init ==
  /\ phase = "idle" /\ values = <<>> /\ walk = <<>> /\ body = <<>> /\ pos = 0 /\ frames = <<>>
  /\ answer = <<>> /\ esteem = 0 /\ out = [buf |-> <<>>, at |-> 0]
  /\ trail = <<>> /\ turn = 0 /\ lost = FALSE /\ form = <<>> /\ strict = 0 /\ cut = 0

(* The list is freed and the connection goes on with the next command: after *)
(* an answer, at a command that has none of these (play, what is not known,  *)
(* a publish of a name in use), and at a body that is too long.              *)
Done ==
  /\ \/ phase = "answered"
     \/ Decoded /\ ~Named(ConnectName) /\ ~Named(CreateName)
     \/ phase = "compose" /\ Finished(walk) /\ Len(body) > MaxBody
  /\ phase' = "idle" /\ values' = <<>> /\ walk' = <<>> /\ body' = <<>> /\ pos' = 0 /\ frames' = <<>>
  /\ answer' = <<>> /\ esteem' = 0 /\ out' = [buf |-> <<>>, at |-> 0]
  /\ trail' = <<>> /\ turn' = 0 /\ lost' = FALSE /\ form' = <<>> /\ strict' = 0 /\ cut' = 0

(* What was read beyond the body decides what happens.                       *)
Over == phase = "overrun" /\ UNCHANGED vars

Next ==
  \/ Command \/ Compose \/ Submit
  \/ DecodeCall \/ DecodeReturn
  \/ CommandConnect \/ CommandCreate \/ CommandPublish
  \/ Estimate \/ Alloc \/ Encode \/ Send
  \/ Done \/ Over

Spec == Init /\ [][Next]_vars

-----------------------------------------------------------------------------
(* Properties                                                                *)

(* Up to the first thing that the decoder does not read as it is meant (a    *)
(* length with a byte above 127, an array that is not empty) it is at the    *)
(* client's place in the body, at any depth, and has the client's values; it *)
(* never gets to the end of such a body, but reads on beyond it; and it      *)
(* reads beyond no other.  So a command is answered only if it was read as   *)
(* it was meant.                                                             *)
DecodedIntact ==
  /\ phase = "decode" /\ ~lost => pos = trail[turn].n /\ IsPrefix(List, values)
  /\ phase = "overrun" => lost
  /\ Decoded \/ phase \in {"estimate", "encode", "answered"} => ~lost /\ List = values

(* video_amf_encode stays within the buffer that video_amf_estimate asks     *)
(* for, and fills it up to four bytes for each strict array, whose size it   *)
(* overwrites.                                                               *)
EstimateCovers ==
  /\ phase \in {"encode", "answered"} => Len(out.buf) = esteem
  /\ phase = "answered" => out.at = esteem - 4 * strict

(* What is sent is the answer in the format, unless (and always unless) the  *)
(* client's value has strict arrays or strings with a zero byte.             *)
AnswerIntact == phase = "answered" => (out.buf = form <=> strict = 0 /\ cut = 0)

=============================================================================
