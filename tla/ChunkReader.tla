----------------------------- MODULE ChunkReader -----------------------------
(***************************************************************************)
(* The input of one connection: how the bytes that TCP delivers become     *)
(* messages (readconn in rtmp/rtmp.c, the handshake in rtmp/handshake.c,   *)
(* header, body and message in rtmp/message.c).                            *)
(*                                                                         *)
(* A read callback gets a piece of the stream that may end anywhere, and   *)
(* calls the function of the current state until the piece is used up.     *)
(* Each of these calls is one action.  A byte is a token that says what    *)
(* the client meant by it; the reader goes by its own count of bytes.      *)
(* Where it takes a byte for something it is not, what follows depends on  *)
(* the values of the bytes: misread is set and the reader stops there.     *)
(***************************************************************************)
EXTENDS Integers, Sequences, FiniteSets

CONSTANTS
  ReadSize,      \* bytes of a read buffer (2048)
  HandshakeSize, \* bytes of C1 and of C2 (1536)
  TimeBytes,     \* bytes of the time field (3)
  LengthBytes,   \* bytes of length and type together (4)
  StreamBytes,   \* bytes of the stream id (4)
  ExtBytes,      \* bytes of an extended timestamp (4)
  ExtTime,       \* the time that announces an extended timestamp (0xFFFFFF)
  MessageMax,    \* VIDEO_RTMP_MESSAGE_MAX
  InitChunkSize, \* the chunk size both sides begin with (128)
  SizeLength,    \* bytes of the body of SET_CHUNK_SIZE (4)
  \* what clients do
  ChunkIds,      \* the chunk streams they use
  Lengths,       \* the lengths of their messages
  Times,         \* their absolute times
  Deltas,        \* their time differences
  ChunkSizes,    \* the chunk sizes they set
  Unusual,       \* which of "ext", "abort", "resize", "refused" they do
  MaxSent,       \* bound: messages per client
  MaxAhead       \* bound: a client writes no chunk when so many bytes wait

ASSUME SizeAssumption ==
  /\ ReadSize \in Nat \ {0} /\ HandshakeSize \in Nat \ {0}
  /\ TimeBytes \in Nat /\ LengthBytes \in Nat /\ StreamBytes \in Nat
  /\ ExtBytes \in Nat /\ ExtTime \in Nat \ {0}
  /\ MessageMax \in Nat /\ SizeLength \in Nat
  /\ InitChunkSize \in Nat \ {0} /\ ChunkSizes \subseteq Nat \ {0}

ASSUME ClientAssumption ==
  /\ \A id \in ChunkIds : id \in Nat /\ 2 <= id /\ id <= 65599
  /\ Lengths \subseteq Nat
  /\ Times \subseteq Nat /\ Deltas \subseteq Nat
  /\ MaxSent \in Nat /\ MaxAhead \in Nat

VARIABLES
  \* the client and the network
  phase,      \* what the client sends next: "c0", "c2" or "chunks"
  sent,       \* history: the messages begun, in order
  completed,  \* history: the messages sent completely, in order, and their drift
  out,        \* out[id]: the message in progress and how much of it was sent
  last,       \* last[id]: the header that a compressed header refers to
  outsize,    \* the client's chunk size
  odd,        \* history: the unusual things that this client has done
  wire,       \* the bytes on their way
  \* video_rtmp_local_t
  conn,       \* the client handle: "open", "closing" or "gone"
  state,      \* local->state
  buf,        \* what is left of the current read
  hslen,      \* local->handshakebuf.len
  hsdata,     \* the contents of the handshake buffer once it is full
  hlen,       \* local->msgheaderbuf.len
  chunks,     \* local->chunks
  current,    \* local->header: an id of a chunk stream
  insize,     \* local->inchunksiz
  ref,        \* the reference counts of the buffers of this connection
  writes,     \* the buffers that libuv still has to write
  dispatched, \* history: the messages handed to video_rtmp_message
  misread

clientVars == <<phase, sent, completed, out, last, outsize, odd>>
hsVars == <<hslen, hsdata>>
chunkVars == <<hlen, chunks, current, insize, dispatched>>
bufVars == <<ref, writes>>
vars == <<clientVars, wire, conn, state, buf, hsVars, chunkVars, bufVars, misread>>

Buffers == {"read", "handshake", "header", "reply"}
Types == {"data", "size", "refused"}
NoChunk == 0
Garbled == -1
Least(S) == CHOOSE x \in S : \A y \in S : x <= y
Copies(n, token) == [i \in 1..n |-> token]
Drop(s, n) == SubSeq(s, n + 1, Len(s))

-----------------------------------------------------------------------------
(* The chunk format                                                          *)

FieldBytes(fmt) ==
  CASE fmt = 0 -> TimeBytes + LengthBytes + StreamBytes
    [] fmt = 1 -> TimeBytes + LengthBytes
    [] fmt = 2 -> TimeBytes
    [] fmt = 3 -> 0

IdBytes(id) == CASE id < 64 -> 1 [] id \in 64..319 -> 2 [] id > 319 -> 3
HeaderBytes(h) == IdBytes(h.id) + FieldBytes(h.fmt)

(* char is signed on the platforms this is built for                         *)
Signed(byte) == IF byte < 128 THEN byte ELSE byte - 256

(* The id that video_rtmp_header makes of the bytes of an id, the low byte   *)
(* of a long id coming first.  It is kept in an uint32_t, in which no other  *)
(* id takes the place of a negative one.                                     *)
DecodedId(id) ==
  LET low == (id - 64) % 256
      high == (id - 64) \div 256
  IN CASE id < 64        -> id
       [] id \in 64..319 -> 64 + Signed(low)
       [] id > 319       -> 64 + Signed(low) * 256 + Signed(high)

-----------------------------------------------------------------------------
(* The client and the network                                                *)

(* The bytes of a chunk: header, extended timestamp, h.body bytes of message *)
(* h.msg from the place h.from on.  Each byte knows its chunk and its place. *)
HeadEnd(h) == HeaderBytes(h) + (IF h.fmt < 3 /\ h.time >= ExtTime THEN ExtBytes ELSE 0)
ChunkEnd(h) == HeadEnd(h) + h.body
KindAt(h, i) == IF i <= HeaderBytes(h) THEN "head" ELSE IF i <= HeadEnd(h) THEN "ext" ELSE "body"
ChunkTokens(h) == [i \in 1..ChunkEnd(h) |-> [kind |-> KindAt(h, i), at |-> i, h |-> h]]

(* What the client knows of its stream.  A chunk keeps it as it was before   *)
(* and after the chunk: history, which the reader never looks at.            *)
Account == [size |-> outsize, ended |-> Len(completed), out |-> out, last |-> last]

(* A stream in use has an id that the reader takes for the same.            *)
Aliased(id) ==
  \E a \in ChunkIds \ {id} : last[a].fmt # 3 /\ DecodedId(a) = DecodedId(id)

MaySend == conn = "open" /\ ~misread /\ Len(wire) <= MaxAhead

Init ==
  /\ phase = "c0"
  /\ sent = <<>> /\ completed = <<>>
  /\ out = [id \in ChunkIds |-> [msg |-> 0, done |-> 0]]
  /\ last = [id \in ChunkIds |-> [fmt |-> 3, length |-> 0, type |-> "data", time |-> 0, diff |-> 0,
                               drift |-> 0, hit |-> FALSE]]
  /\ outsize = InitChunkSize
  /\ odd = {} /\ wire = <<>>
  /\ conn = "open" /\ state = "s0"
  /\ buf = <<>>
  /\ hslen = 0 /\ hsdata = "none"
  /\ hlen = 0
  /\ chunks = [id \in {} |-> 0]
  /\ current = NoChunk
  /\ insize = InitChunkSize
  /\ ref = [b \in Buffers |-> IF b \in {"handshake", "header"} THEN 1 ELSE 0]
  /\ writes = {}
  /\ dispatched = <<>>
  /\ misread = FALSE

readerVars == <<conn, state, buf, hsVars, chunkVars, bufVars, misread>>

(* C0 and C1.  Version 6 asks for encryption, which this server has not.     *)
Hello ==
  /\ MaySend /\ phase = "c0"
  /\ \E v \in {3, 6} :
       wire' = wire \o <<[kind |-> "c0", version |-> v]>> \o Copies(HandshakeSize, [kind |-> "c1"])
  /\ phase' = "c2"
  /\ UNCHANGED <<sent, completed, out, last, outsize, odd, readerVars>>

(* C2, after the answer to C1.                                               *)
Acknowledge ==
  /\ MaySend /\ phase = "c2" /\ state = "s2"
  /\ wire' = wire \o Copies(HandshakeSize, [kind |-> "c2"])
  /\ phase' = "chunks"
  /\ UNCHANGED <<sent, completed, out, last, outsize, odd, readerVars>>

(* A partly sent message whose progress is no multiple of the chunk size s.  *)
Straddled(s, id) == \E a \in ChunkIds \ {id} : out[a].msg # 0 /\ (out[a].done % s) # 0

(* Bookkeeping of a client that has sent n bytes of message m on id, whose   *)
(* header is now the given one.                                              *)
Advance(id, m, n, message, header) ==
  LET done == n = message.length IN
  /\ out' = [out EXCEPT ![id] = IF done THEN [msg |-> 0, done |-> 0] ELSE [msg |-> m, done |-> n]]
  /\ completed' = IF done THEN Append(completed, [msg |-> m, drift |-> header.drift, hit |-> header.hit])
                           ELSE completed
  /\ outsize' = IF done /\ message.type = "size" THEN message.size ELSE outsize

MayBegin(message) ==
  /\ message.type = "size" => message.length = SizeLength
  /\ message.type # "size" => message.size = outsize /\ message.length \in Lengths
  /\ message.type = "refused" => "refused" \in Unusual

(* A header of format fmt may refer to the header before it on the stream.   *)
(* A format 3 header begins a message only where differences are in use.     *)
MayCompress(fmt, id, message, time) ==
  /\ fmt > 0 => last[id].fmt # 3
  /\ fmt > 1 => message.length = last[id].length /\ message.type = last[id].type
  /\ fmt = 3 => last[id].fmt \in {1, 2} /\ time = last[id].diff

(* The first chunk of a new message.                                         *)
Begin(id, fmt, message, time) ==
  LET m == Len(sent) + 1
      n == Least({outsize, message.length})
      h == [fmt |-> fmt, id |-> id, time |-> time, length |-> message.length,
            type |-> message.type, msg |-> m, from |-> 0, body |-> n,
            before |-> Account, after |-> Account']
      l == last[id]
      meant == IF fmt = 0 THEN time ELSE l.time + time
      drift == IF fmt = 0 THEN 0 ELSE l.drift
  IN
  /\ MaySend /\ phase = "chunks" /\ Len(sent) < MaxSent
  /\ out[id].msg = 0
  /\ MayBegin(message) /\ MayCompress(fmt, id, message, time)
  /\ time >= ExtTime => "ext" \in Unusual
  /\ last' = [last EXCEPT ![id] =
       [fmt    |-> IF fmt = 3 THEN l.fmt ELSE fmt,
        length |-> message.length, type |-> message.type,
        time   |-> meant, diff |-> IF fmt = 0 THEN 0 ELSE time,
        drift  |-> drift, hit |-> (fmt > 0 /\ l.hit) \/ meant + drift = ExtTime]]
  /\ sent' = Append(sent, [type |-> message.type, length |-> message.length,
                           size |-> message.size, time |-> meant])
  /\ Advance(id, m, n, message, last'[id])
  /\ wire' = wire \o ChunkTokens(h)
  /\ odd' = odd \cup (IF time >= ExtTime THEN {"ext"} ELSE {})
                \cup (IF Aliased(id) THEN {"alias"} ELSE {})
                \cup (IF outsize' # outsize /\ Straddled(outsize', id) THEN {"resize"} ELSE {})
  /\ outsize' # outsize /\ Straddled(outsize', id) => "resize" \in Unusual
  /\ UNCHANGED <<phase, readerVars>>

(* Another chunk of the message in progress.  The code adds the difference   *)
(* of the stream to its time once more for each of these: drift counts it,   *)
(* and hit says that a time with its drift was that of the extended ones.    *)
Continue(id) ==
  LET m == out[id].msg
      message == sent[m]
      n == Least({outsize, message.length - out[id].done})
      h == [fmt |-> 3, id |-> id, time |-> 0, length |-> message.length,
            type |-> message.type, msg |-> m, from |-> out[id].done, body |-> n,
            before |-> Account, after |-> Account']
      l == last[id]
  IN
  /\ MaySend /\ m # 0
  /\ last' = [last EXCEPT ![id].drift = @ + l.diff, ![id].hit = @ \/ l.time + l.drift + l.diff = ExtTime]
  /\ Advance(id, m, out[id].done + n, message, last'[id])
  /\ wire' = wire \o ChunkTokens(h)
  /\ odd' = odd \cup (IF outsize' # outsize /\ Straddled(outsize', id) THEN {"resize"} ELSE {})
  /\ outsize' # outsize /\ Straddled(outsize', id) => "resize" \in Unusual
  /\ UNCHANGED <<phase, sent, readerVars>>

(* An ABORT message: the client gives up the message in progress.  Only its  *)
(* effect on the client is modelled: video_rtmp_message ignores the type.    *)
Abort(id) ==
  /\ MaySend /\ "abort" \in Unusual
  /\ out[id].msg # 0
  /\ out' = [out EXCEPT ![id] = [msg |-> 0, done |-> 0]]
  /\ odd' = odd \cup {"abort"}
  /\ UNCHANGED <<phase, sent, completed, last, outsize, wire, readerVars>>

Client ==
  \/ Hello \/ Acknowledge
  \/ \E id \in ChunkIds :
       \/ \E fmt \in 0..3, type \in Types, length \in Lengths \cup {SizeLength},
             size \in ChunkSizes \cup {outsize}, time \in Times \cup Deltas :
            /\ time \in IF fmt = 0 THEN Times ELSE Deltas
            /\ Begin(id, fmt, [type |-> type, length |-> length, size |-> size], time)
       \/ Continue(id) \/ Abort(id)

-----------------------------------------------------------------------------
(* The reader                                                                *)

Reading == ref["read"] = 1
(* Mutant: the loop goes on after a disconnect.                              *)
CallingClosed(s) == Reading /\ state = s /\ buf # <<>> /\ ~misread
Calling(s) == Reading /\ conn = "open" /\ state = s /\ buf # <<>> /\ ~misread

(* libuv has a piece of the stream for the connection.                       *)
ReadBegin ==
  /\ conn = "open" /\ ~Reading /\ ~misread
  /\ \E n \in 1..Least({ReadSize, Len(wire)}) :
       buf' = SubSeq(wire, 1, n) /\ wire' = Drop(wire, n)
  /\ ref' = [ref EXCEPT !["read"] = 1]
  /\ UNCHANGED <<clientVars, conn, state, hsVars, chunkVars, writes, misread>>

(* The loop of video_rtmp_readconn ends when the piece is used up or the     *)
(* connection was closed by one of the calls.                                *)
ReadEnd ==
  /\ Reading
  /\ buf = <<>> \/ conn # "open" \/ misread
  /\ buf' = <<>>
  /\ ref' = [ref EXCEPT !["read"] = @ - 1]
  /\ UNCHANGED <<clientVars, wire, conn, state, hsVars, chunkVars, writes, misread>>

(* video_rtmp_handshake_s0                                                   *)
HandshakeS0 ==
  /\ Calling("s0")
  /\ IF Head(buf) = [kind |-> "c0", version |-> 3]
     THEN state' = "s1" /\ UNCHANGED conn
     ELSE conn' = "closing" /\ UNCHANGED state
  /\ buf' = Tail(buf)
  /\ UNCHANGED <<clientVars, wire, hsVars, chunkVars, bufVars, misread>>

(* How much of the handshake buffer the current read can fill.               *)
HandshakeTake == Least({HandshakeSize - hslen, Len(buf)})

(* video_rtmp_handshake_s1: when C1 is complete, two buffers are written,    *)
(* S0 with S1 in one and, as S2, the buffer that holds C1 itself (in the new *)
(* form of the handshake its last bytes become a digest first).              *)
HandshakeS1 ==
  /\ Calling("s1")
  /\ buf' = Drop(buf, HandshakeTake)
  /\ IF hslen + HandshakeTake < HandshakeSize
     THEN hslen' = hslen + HandshakeTake /\ UNCHANGED <<state, hsdata, ref, writes>>
     ELSE /\ hsdata' = "c1"
          /\ ref' = [ref EXCEPT !["reply"] = 1]
          /\ writes' = writes \cup {"reply", "handshake"}
          /\ state' = "s2"
          /\ hslen' = 0
  /\ UNCHANGED <<clientVars, wire, conn, chunkVars, misread>>

(* video_rtmp_handshake_s2: C2 is counted, not stored.  Mutant: stored.      *)
Store == hsdata' = "c2"
Count == UNCHANGED hsdata
HandshakeS2 ==
  /\ Calling("s2")
  /\ buf' = Drop(buf, HandshakeTake)
  /\ hslen' = hslen + HandshakeTake
  /\ Count
  /\ IF hslen' = HandshakeSize THEN state' = "header" /\ hlen' = 0 ELSE UNCHANGED <<state, hlen>>
  /\ UNCHANGED <<clientVars, wire, conn, chunks, current, insize, dispatched, bufVars, misread>>

(* The chunk record of an id; a fresh one has no body yet.  Mutant           *)
(* FreshChunk: the record of an earlier chunk is not found.                  *)
FreshChunk(id) == [length |-> 0, type |-> "data", time |-> 0, diff |-> 0, got |-> 0, msg |-> 0]
Chunk(id) == IF id \in DOMAIN chunks THEN chunks[id] ELSE FreshChunk(id)

PutChunk(id, c) ==
  chunks' = [x \in DOMAIN chunks \cup {id} |-> IF x = id THEN c ELSE chunks[x]]

(* The time after a header: every header adds the difference of the stream,  *)
(* and the sum is what is tested for an extended timestamp, which is then    *)
(* copied from the place of the plain one.                                   *)
(* Mutant TimeAfterPlain: without the test.                                  *)
TimeAfterPlain(old, diff) == IF old = Garbled THEN Garbled ELSE old + diff
TimeAfter(old, diff) ==
  IF old = Garbled \/ old + diff = ExtTime THEN Garbled ELSE old + diff

(* The fields that a complete header sets.                                   *)
Fields(c, h) ==
  LET field == Least({h.time, ExtTime})
      diff == CASE h.fmt = 0 -> 0 [] h.fmt \in {1, 2} -> field [] h.fmt = 3 -> c.diff
  IN [c EXCEPT !.length = IF h.fmt < 2 THEN h.length ELSE @,
               !.type = IF h.fmt < 2 THEN h.type ELSE @,
               !.diff = diff,
               !.time = TimeAfter(IF h.fmt = 0 THEN field ELSE @, diff),
               !.msg = h.msg]

(* video_rtmp_header: as much of a chunk header as the read holds.           *)
AtHeader == Head(buf).kind = "head" /\ Head(buf).at = hlen + 1

HeaderComplete(h) ==
  LET id == DecodedId(h.id)
      c == Fields(Chunk(id), h)
  IN /\ PutChunk(id, c)
     /\ current' = id
     /\ misread' = (Chunk(id).got # h.from \/ (h.from > 0 /\ Chunk(id).msg # h.msg))
     /\ IF c.length > MessageMax
        THEN conn' = "closing" /\ UNCHANGED state
        ELSE state' = "body" /\ UNCHANGED conn

ReadHeader ==
  /\ Calling("header") /\ AtHeader
  /\ LET h == Head(buf).h
         need == HeaderBytes(h) - hlen
         n == Least({need, Len(buf)})
     IN /\ buf' = Drop(buf, n)
        /\ hlen' = hlen + n
        /\ IF n < need THEN UNCHANGED <<chunks, current, misread, conn, state>>
                       ELSE HeaderComplete(h)
  /\ UNCHANGED <<clientVars, wire, hsVars, insize, dispatched, bufVars>>

(* video_rtmp_body: the bytes up to the end of the chunk, of the message or  *)
(* of the read.                                                              *)
(* Mutant WholeChunk: as if a chunk had begun with this read.                *)
WholeChunk(c) == insize
UntilChunk(c) == insize - (c.got % insize)
UntilDone(c) == c.length - c.got
BodyTake == LET c == chunks[current] IN Least({UntilChunk(c), UntilDone(c), Len(buf)})
AtBody == \A i \in 1..BodyTake : buf[i].kind = "body" /\ buf[i].h.msg = chunks[current].msg

(* video_rtmp_message, as far as the reader is concerned: a new chunk size,  *)
(* or a command that ends in a disconnect.                                   *)
Message(c) ==
  /\ dispatched' = Append(dispatched, [msg |-> c.msg, type |-> c.type, length |-> c.length, time |-> c.time])
  /\ insize' = IF c.type = "size" THEN sent[c.msg].size ELSE insize
  /\ conn' = IF c.type = "refused" THEN "closing" ELSE conn

(* Mutant: only after a call that used up bytes.                             *)
NextHeaderAfterBytes ==
  IF BodyTake = 0 THEN UNCHANGED <<state, hlen>> ELSE state' = "header" /\ hlen' = 0
NextHeader == state' = "header" /\ hlen' = 0

ReadBody ==
  LET c == chunks[current]
      got == c.got + BodyTake
  IN
  /\ Calling("body") /\ AtBody
  /\ buf' = Drop(buf, BodyTake)
  /\ IF got = c.length
     THEN Message(c) /\ NextHeader /\ PutChunk(current, [c EXCEPT !.got = 0])
     ELSE /\ PutChunk(current, [c EXCEPT !.got = got])
          /\ IF (got % insize) = 0 THEN NextHeader ELSE UNCHANGED <<state, hlen>>
          /\ UNCHANGED <<dispatched, insize, conn>>
  /\ UNCHANGED <<clientVars, wire, hsVars, current, bufVars, misread>>

Misread ==
  /\ \/ Calling("header") /\ ~AtHeader
     \/ Calling("body") /\ ~AtBody
  /\ misread' = TRUE
  /\ UNCHANGED <<clientVars, wire, conn, state, buf, hsVars, chunkVars, bufVars>>

(* video_rtmp_writedone                                                      *)
WriteDone(b) ==
  /\ conn # "gone" /\ ~Reading /\ b \in writes
  /\ writes' = writes \ {b}
  /\ ref' = [ref EXCEPT ![b] = @ - 1]
  /\ UNCHANGED <<clientVars, wire, conn, state, buf, hsVars, chunkVars, misread>>

(* A read callback that reports an error or the end of the stream.           *)
Hangup ==
  /\ conn = "open" /\ ~Reading
  /\ conn' = "closing"
  /\ UNCHANGED <<clientVars, wire, state, buf, hsVars, chunkVars, bufVars, misread>>

(* The close callback, video_rtmp_remconn with video_rtmp_local_deinit.      *)
(* libuv has called back every write before it.                              *)
(* It owns the handshake buffer until that is written.  Mutants: in every    *)
(* state; only before C1.                                                    *)
OwnsAlways == TRUE
OwnsBeforeC1 == state = "s0"
OwnsHandshake == state \in {"s0", "s1"}
Remove ==
  /\ conn = "closing" /\ ~Reading /\ writes = {}
  /\ conn' = "gone"
  /\ chunks' = [id \in {} |-> 0]
  /\ ref' = [ref EXCEPT !["header"] = @ - 1, !["handshake"] = IF OwnsHandshake THEN @ - 1 ELSE @]
  /\ UNCHANGED <<clientVars, wire, state, buf, hsVars, hlen, current, insize, dispatched, writes, misread>>

(* The connection is over.                                                   *)
Over == conn = "gone" /\ UNCHANGED vars

Call == HandshakeS0 \/ HandshakeS1 \/ HandshakeS2 \/ ReadHeader \/ ReadBody \/ Misread

Next ==
  \/ Client
  \/ ReadBegin \/ Call \/ ReadEnd
  \/ \E b \in Buffers : WriteDone(b)
  \/ Hangup \/ Remove \/ Over

Spec == Init /\ [][Next]_vars

(* libuv reads what has arrived and a callback runs to its end.              *)
Fairness == WF_vars(ReadBegin) /\ WF_vars(Call) /\ WF_vars(ReadEnd)
FairSpec == Spec /\ Fairness

-----------------------------------------------------------------------------
(* Properties                                                                *)

(* The shape of the variables of the connection.                             *)
TypeOK ==
  /\ conn \in {"open", "closing", "gone"}
  /\ state \in {"s0", "s1", "s2", "header", "body"}
  /\ hslen \in 0..HandshakeSize
  /\ hsdata \in {"none", "c1", "c2"}
  /\ hlen \in Nat
  /\ insize \in Nat \ {0}
  /\ ref \in [Buffers -> Nat]
  /\ writes \subseteq Buffers
  /\ misread \in BOOLEAN

(* Wherever the stream is cut into reads and however the chunks of several   *)
(* messages interleave, video_rtmp_message gets the messages of the client,  *)
(* in the order in which they were completed, with their types and lengths.  *)
InOrderIntact ==
  odd = {} =>
    /\ Len(dispatched) <= Len(completed)
    /\ \A i \in DOMAIN dispatched :
         LET d == dispatched[i] IN
         /\ d.msg = completed[i].msg
         /\ d.type = sent[d.msg].type /\ d.length = sent[d.msg].length

(* The reader mistakes bytes only where a client uses what it does not       *)
(* support: extended timestamps (they are not skipped), ABORT (it is         *)
(* ignored), two ids it cannot tell apart, or a new chunk size while a       *)
(* message is cut in the middle of a chunk of that size (the end of a chunk  *)
(* is found by the length modulo the size).                                  *)
MisreadExplained == misread => odd # {}

(* The time of a message exceeds what the client meant by exactly one        *)
(* difference of its stream for every continuation chunk since the last      *)
(* absolute time: the code applies the difference per chunk, not per message.*)
(* A sum that happens to be ExtTime makes it, and later ones, garbage.       *)
TimestampDrift ==
  odd = {} =>
    \A i \in DOMAIN dispatched :
      dispatched[i].time =
        IF completed[i].hit THEN Garbled
        ELSE sent[dispatched[i].msg].time + completed[i].drift

(* When everything that was sent has been read, everything that was completed*)
(* has been dispatched, except that an empty message waits for another byte. *)
Prompt ==
  LET pending == Len(completed) - Len(dispatched) IN
  odd = {} /\ conn = "open" /\ ~Reading /\ wire = <<>> =>
    \/ pending = 0
    \/ pending = 1 /\ sent[completed[Len(completed)].msg].length = 0

(* Each buffer of the connection is released exactly once, by the connection *)
(* or, when libuv got it to write, by the callback of the write, in whatever *)
(* state of handshake or message the connection ends.                        *)
BuffersBalanced ==
  \A b \in Buffers :
    ref[b] = Cardinality({b} \cap writes)
               + (IF b = "header" /\ conn # "gone" THEN 1 ELSE 0)
               + (IF b = "handshake" /\ conn # "gone" /\ OwnsHandshake THEN 1 ELSE 0)
               + (IF b = "read" /\ Reading THEN 1 ELSE 0)

(* The answer to C1 is C1: nothing changes the handshake buffer while libuv  *)
(* has it, although its length counts C2 by then.                            *)
EchoIntact == "handshake" \in writes => hsdata = "c1"

(* A closed connection is silent: the rest of the read is dropped.           *)
SilentAfterClose ==
  [][conn # "open" => dispatched' = dispatched /\ writes' \subseteq writes]_vars

(* Every call uses up bytes or changes the state, so the loop over a read    *)
(* ends, and its own test for a call that did neither never disconnects.     *)
EveryCallProgresses ==
  [][Call /\ ~misread' => Len(buf') < Len(buf) \/ state' # state]_vars

(* A complete message that is not empty is dispatched in the end, unless the *)
(* connection is closed or the reader lost its way.                          *)
EventuallyDispatched ==
  \A i \in 1..MaxSent :
    (i <= Len(completed) /\ sent[completed[i].msg].length > 0)
      ~> (Len(dispatched) >= i \/ conn # "open" \/ odd # {})

=============================================================================
