----------------------------- MODULE ChunkWriter -----------------------------
(***************************************************************************)
(* The output of the RTMP thread: how video_rtmp_send (rtmp/message.c)     *)
(* cuts messages into chunks, and the handlers that send.                  *)
(*                                                                         *)
(* A message is written into one buffer whose size is computed beforehand, *)
(* apart from the writing, and which is given to libuv as a whole.  A      *)
(* client reads what arrives by the rules of the protocol, stated here on  *)
(* their own (Expected), with the chunk size that it was told.             *)
(***************************************************************************)
EXTENDS Integers, Sequences, FiniteSets

CONSTANTS
  Conns,         \* connections
  InitChunkSize, \* the chunk size both sides begin with (128)
  NewChunkSize,  \* the chunk size that a connect command sets (2048)
  FrameTime,     \* 1000/24 in the arithmetic of C (41)
  ExtTime,       \* the time that announces an extended timestamp (0xFFFFFF)
  Pools,         \* the buffer sizes of the slab (16 to VIDEO_RTMP_MESSAGE_MAX)
  Lengths,       \* lengths of the messages that are relayed
  Times,         \* their times
  MaxCalls       \* bound: handlers that run

ASSUME WriterAssumption ==
  /\ InitChunkSize \in Nat \ {0} /\ NewChunkSize \in Nat \ {0}
  /\ FrameTime \in Nat \ {0} /\ ExtTime \in Nat
  /\ Pools \subseteq Nat /\ \A n \in Pools : n >= 16
  /\ Lengths \subseteq Nat /\ Times \subseteq Nat /\ MaxCalls \in Nat

VARIABLES
  outchunksiz, \* outchunksiz[c]: local->outchunksiz
  p,           \* the video clock, a static of message.c
  wire,        \* wire[c]: the writes that libuv accepted and the client did not read
  sent,        \* history: sent[c], the messages sent
  received,    \* how many of them the client read
  insize,      \* insize[c]: the chunk size the client goes by
  lost,        \* lost[c]: what the client reads is not what it expects
  calls,       \* bound
  down         \* the process wrote through a null pointer

vars == <<outchunksiz, p, wire, sent, received, insize, lost, calls, down>>

Types == {"size", "command", "control", "video", "audio", "meta"}
Null == 0
Least(S) == CHOOSE x \in S : \A y \in S : x <= y

-----------------------------------------------------------------------------
(* video_rtmp_send                                                           *)

(* The bytes that video_rmtp_writebasic writes.                              *)
Basic(id) == IF id >= 319 THEN 3 ELSE IF id >= 64 THEN 2 ELSE 1

(* A message on chunk stream id, with the chunk size at the time of the call.*)
Msg(size, id, type, time, len) == [size |-> size, id |-> id, type |-> type, time |-> time, len |-> len]

(* The number of bytes computed beforehand.  Mutant: without the headers of  *)
(* later chunks.                                                             *)
AnnouncedPlain(m) == 11 + m.len + Basic(m.id)
Announced(m) ==
  11 + m.len + m.len \div m.size - (IF m.len % m.size = 0 THEN 1 ELSE 0)
     + Basic(m.id) + (IF m.time >= ExtTime THEN 4 ELSE 0)

(* video_slab_alloc: the smallest pool that fits, or no buffer.              *)
Fitting(n) == {b \in Pools : b >= n}
Alloc(n) == IF Fitting(n) = {} THEN Null ELSE Least(Fitting(n))

(* What is written: a header and a body for every full chunk and for the     *)
(* rest.  An extended timestamp never is: the test for it compares swapped   *)
(* bytes with unswapped ones.                                                *)
Full(m) == m.len \div m.size
Rest(m) == m.len % m.size
LaterHeaders(m) ==
  (IF Full(m) > 1 THEN Full(m) - 1 ELSE 0) + (IF Rest(m) # 0 /\ m.len > m.size THEN 1 ELSE 0)
Written(m) == Basic(m.id) + 11 + Full(m) * m.size + Rest(m) + LaterHeaders(m) * Basic(m.id)

(* The chunks as libuv gets them: the last one ends where the announced size *)
(* does, before what was written or with leftovers of the buffer.            *)
Chunks(m) ==
  [i \in 1..(1 + LaterHeaders(m)) |->
    [head |-> IF i = 1 THEN Basic(m.id) + 11 ELSE Basic(m.id),
     body |-> (IF i <= Full(m) THEN m.size ELSE Rest(m))
              + (IF i = 1 + LaterHeaders(m) THEN Announced(m) - Written(m) ELSE 0)]]

(* The calls of one handler; a null buffer is written to all the same.       *)
Send(c, msgs) ==
  /\ sent' = [sent EXCEPT ![c] = @ \o msgs]
  /\ IF \A i \in DOMAIN msgs : Alloc(Announced(msgs[i])) # Null
     THEN wire' = [wire EXCEPT ![c] = @ \o [i \in DOMAIN msgs |-> Chunks(msgs[i])]] /\ UNCHANGED down
     ELSE down' = TRUE /\ UNCHANGED wire
  /\ calls' = calls + 1
  /\ UNCHANGED <<received, insize, lost>>

-----------------------------------------------------------------------------
(* The handlers.  Bodies in AMF have the lengths that video_amf_estimate     *)
(* gives for them.                                                           *)

Init ==
  /\ outchunksiz = [c \in Conns |-> InitChunkSize]
  /\ p = 0
  /\ wire = [c \in Conns |-> <<>>]
  /\ sent = [c \in Conns |-> <<>>]
  /\ received = [c \in Conns |-> 0]
  /\ insize = [c \in Conns |-> InitChunkSize]
  /\ lost = [c \in Conns |-> FALSE]
  /\ calls = 0
  /\ down = FALSE

MayCall == ~down /\ calls < MaxCalls

(* video_rtmp_command_connect: the answer is the first message with the new  *)
(* chunk size, of which the client has just been told.                       *)
ConnectAnswer == 190
Welcome(size, answersize) ==
  << Msg(size, 2, "control", 0, 4), Msg(size, 2, "control", 0, 5),
     Msg(size, 2, "size", 0, 4), Msg(answersize, 3, "command", 0, ConnectAnswer) >>

(* Mutants: the size changes after the answer; the client is not told.       *)
ConnectSizeLate(c) ==
  /\ Send(c, Welcome(outchunksiz[c], outchunksiz[c]))
  /\ outchunksiz' = [outchunksiz EXCEPT ![c] = NewChunkSize] /\ UNCHANGED p
ConnectUntold(c) ==
  /\ Send(c, << Msg(NewChunkSize, 3, "command", 0, 24) >>)
  /\ outchunksiz' = [outchunksiz EXCEPT ![c] = NewChunkSize] /\ UNCHANGED p
Connect(c) ==
  /\ Send(c, Welcome(outchunksiz[c], NewChunkSize))
  /\ outchunksiz' = [outchunksiz EXCEPT ![c] = NewChunkSize] /\ UNCHANGED p

(* video_rtmp_command_create, and the status of video_rtmp_command_publish.  *)
Answer(c, id, len) ==
  /\ Send(c, << Msg(outchunksiz[c], id, "command", 0, len) >>)
  /\ UNCHANGED <<outchunksiz, p>>
CreateStream(c) == Answer(c, 3, 29)
PublishStatus(c) == Answer(c, 5, 106)

(* video_rtmp_subscribe, for each type of message.  DONE sends nothing.      *)
Play(c) ==
  /\ LET s == outchunksiz[c] IN
     Send(c, << Msg(s, 2, "control", 0, 6), Msg(s, 5, "command", 0, 100),
                Msg(s, 5, "meta", 0, 24), Msg(s, 5, "command", 0, 111) >>)
  /\ UNCHANGED <<outchunksiz, p>>

Relay(c, id, type, time, len) ==
  /\ Send(c, << Msg(outchunksiz[c], id, type, time, len) >>)
  /\ UNCHANGED <<outchunksiz, p>>

(* All connections share one clock.  Mutant: the time before the frame.      *)
VideoTimeBefore == p
VideoTime == p + FrameTime
RelayVideo(c, len) ==
  /\ p' = p + FrameTime
  /\ Send(c, << Msg(outchunksiz[c], 6, "video", VideoTime, len) >>)
  /\ UNCHANGED outchunksiz

Handler(c) ==
  /\ MayCall
  /\ \/ Connect(c) \/ CreateStream(c) \/ PublishStatus(c) \/ Play(c)
     \/ \E len \in Lengths :
          \/ \E time \in Times : Relay(c, 3, "meta", time, len) \/ Relay(c, 4, "audio", time, len)
          \/ RelayVideo(c, len)

-----------------------------------------------------------------------------
(* The client                                                                *)

(* The chunks of a message by the protocol: all but the last are full, and a *)
(* late time is followed by four bytes.                                      *)
Expected(size, m) ==
  [i \in 1..(IF m.len = 0 THEN 1 ELSE (m.len + size - 1) \div size) |->
    [head |-> IF i = 1 THEN 12 + (IF m.time >= ExtTime THEN 4 ELSE 0) ELSE 1,
     body |-> Least({size, m.len - (i - 1) * size})]]

Receive(c) ==
  /\ wire[c] # <<>> /\ ~lost[c]
  /\ LET m == sent[c][received[c] + 1] IN
     IF Head(wire[c]) = Expected(insize[c], m)
     THEN /\ received' = [received EXCEPT ![c] = @ + 1]
          /\ insize' = [insize EXCEPT ![c] = IF m.type = "size" THEN NewChunkSize ELSE @]
          /\ wire' = [wire EXCEPT ![c] = Tail(@)]
          /\ UNCHANGED lost
     ELSE lost' = [lost EXCEPT ![c] = TRUE] /\ UNCHANGED <<received, insize, wire>>
  /\ UNCHANGED <<outchunksiz, p, sent, calls, down>>

(* The bound is reached, or the process has ended.                           *)
Over ==
  /\ ~MayCall /\ \A c \in Conns : wire[c] = <<>> \/ lost[c]
  /\ UNCHANGED vars

Next == (\E c \in Conns : Handler(c) \/ Receive(c)) \/ Over

Spec == Init /\ [][Next]_vars

-----------------------------------------------------------------------------
(* Properties                                                                *)

Messages(c) == {sent[c][i] : i \in DOMAIN sent[c]}

(* No message is written beyond its buffer, although the buffer of an empty  *)
(* message is announced one byte too small.                                  *)
WithinBuffer ==
  \A c \in Conns : \A m \in Messages(c) :
    Alloc(Announced(m)) # Null => Written(m) <= Alloc(Announced(m))

(* A client stays in step with the chunks of every message, also across the  *)
(* change of the chunk size, up to the first message that is empty (a byte   *)
(* is missing) or late (its extended timestamp is).                          *)
InStep ==
  \A c \in Conns : lost[c] =>
    LET m == sent[c][received[c] + 1] IN m.len = 0 \/ m.time >= ExtTime

(* When a client has read everything, both sides use the same chunk size.    *)
SizesAgree ==
  \A c \in Conns : ~down /\ received[c] = Len(sent[c]) => insize[c] = outchunksiz[c]

(* Each tick of the one video clock goes to one frame of one connection, in  *)
(* order: a subscriber alone sees an even clock, several split its ticks.    *)
ClockSplit ==
  LET Videos == {ci \in Conns \X (1..(4 * MaxCalls)) :
                   ci[2] <= Len(sent[ci[1]]) /\ sent[ci[1]][ci[2]].type = "video"}
      Time(ci) == sent[ci[1]][ci[2]].time
  IN /\ {Time(ci) : ci \in Videos} = {FrameTime * k : k \in 1..Cardinality(Videos)}
     /\ \A a, b \in Videos : a[1] = b[1] /\ a[2] < b[2] => Time(a) < Time(b)

(* Stated by the message that video_rtmp_header prints (message.c:457): what *)
(* does not exceed VIDEO_RTMP_MESSAGE_MAX is accepted, so it can be relayed. *)
AcceptedFits == ~down

=============================================================================
