-------------------------- MODULE RtmpPubSubProofs --------------------------
(***************************************************************************)
(* Proofs that the RTMP thread keeps the promises of PubSub, for any       *)
(* number of connections, names, channels and buffers: every step is a     *)
(* step of PubSub or invisible, and what a subscriber is sent is a         *)
(* sequence of complete publications.                                      *)
(***************************************************************************)
EXTENDS RtmpLoopProofs, SequenceTheorems

IInv == LoopInv /\ BufferInv

-----------------------------------------------------------------------------
(* What waits in queues                                                      *)

(* A body that a queue still holds after the step keeps its count.           *)
LEMMA HeldBodyCounts ==
  ASSUME TypeOK', BodyCountExact', NEW d \in BodyBufs, NEW k \in BodyHolders(d)'
  PROVE  bref'[d] # 0
<1>1. Readers(d)' \in SUBSET Conns /\ BodyHolders(d)' \in SUBSET Conns
  BY DEF Readers, BodyHolders
<1>2. /\ Cardinality(Readers(d)') \in Nat
      /\ Cardinality(BodyHolders(d)') \in Nat /\ Cardinality(BodyHolders(d)') # 0
  BY <1>1, FiniteConns
<1>3. orphaned'[d] \in Nat
  BY DEF TypeOK
<1>4. bref'[d] = Cardinality(Readers(d)') + Cardinality(BodyHolders(d)') + orphaned'[d]
  BY DEF BodyCountExact
<1> QED  BY <1>2, <1>3, <1>4

(* The body of a message in a queue has a holder.                            *)
LEMMA QueuedBody ==
  ASSUME TypeOK, NEW k \in Conns, NEW i \in DOMAIN queue[k], NEW d, msg[queue[k][i]].body = d
  PROVE  Occurrences(BodiesOf(queue[k]), d) > 0
<1>1. BodiesOf(queue[k]) \in Seq(BodyBufs \cup {NoBuf})
  BY BodiesType
<1>2. i \in DOMAIN BodiesOf(queue[k]) /\ BodiesOf(queue[k])[i] = d
  BY DEF BodiesOf
<1> QED  BY <1>1, <1>2, Places

(* What a message tells, given the contents of messages and bodies.          *)
Tells(g, b, m) ==
  IF g[m].body = NoBuf THEN [type |-> g[m].type] ELSE [type |-> g[m].type, data |-> b[g[m].body]]

(* The inboxes that PubSub sees.                                             *)
Box(k) == [i \in DOMAIN queue[k] |-> Tells(msg, bdata, queue[k][i])]

(* A message in a queue tells the same after a step that keeps it and the    *)
(* contents of its body.                                                     *)
LEMMA TellsTheSame ==
  ASSUME TypeOK, NEW k \in Conns, NEW i \in DOMAIN queue[k],
         msg'[queue[k][i]] = msg[queue[k][i]],
         \A d \in BodyBufs : Occurrences(BodiesOf(queue[k]), d) > 0 => bdata'[d] = bdata[d]
  PROVE  Tells(msg', bdata', queue[k][i]) = Tells(msg, bdata, queue[k][i])
<1>1. queue[k] \in Seq(MsgBufs)
  BY DEF TypeOK
<1>2. queue[k][i] \in MsgBufs
  BY <1>1
<1>3. msg[queue[k][i]].body \in BodyBufs \cup {NoBuf}
  BY <1>2 DEF TypeOK
<1>4. msg[queue[k][i]].body # NoBuf => bdata'[msg[queue[k][i]].body] = bdata[msg[queue[k][i]].body]
  BY <1>3, QueuedBody
<1> QED  BY <1>4 DEF Tells

(* A queue that a step leaves alone tells the same.                          *)
LEMMA BoxKept ==
  ASSUME TypeOK, NEW k \in Conns, queue'[k] = queue[k],
         \A i \in DOMAIN queue[k] : msg'[queue[k][i]] = msg[queue[k][i]],
         \A d \in BodyBufs : Occurrences(BodiesOf(queue[k]), d) > 0 => bdata'[d] = bdata[d]
  PROVE  Box(k)' = Box(k)
<1>1. Box(k)' = [i \in DOMAIN queue[k] |-> Tells(msg', bdata', queue[k][i])]
  BY DEF Box, Tells
<1>2. \A i \in DOMAIN queue[k] : Tells(msg', bdata', queue[k][i]) = Tells(msg, bdata, queue[k][i])
  BY TellsTheSame
<1> QED  BY <1>1, <1>2 DEF Box

(* What Append does.                                                         *)
LEMMA AppendIs ==
  ASSUME NEW S, NEW s \in Seq(S), NEW x \in S
  PROVE  /\ DOMAIN Append(s, x) = 1..(Len(s) + 1)
         /\ Append(s, x)[Len(s) + 1] = x
         /\ \A i \in 1..Len(s) : Append(s, x)[i] = s[i]
         /\ Append(s, x) = [i \in 1..(Len(s) + 1) |-> Append(s, x)[i]]
<1>1. Append(s, x) \in Seq(S) /\ Len(Append(s, x)) = Len(s) + 1 /\ Len(s) \in Nat
  OBVIOUS
<1>2. DOMAIN Append(s, x) = 1..(Len(s) + 1)
  BY <1>1
<1>3. Append(s, x)[Len(s) + 1] = x /\ \A i \in 1..Len(s) : Append(s, x)[i] = s[i]
  BY <1>1
<1>4. Append(s, x) = [i \in 1..(Len(s) + 1) |-> Append(s, x)[i]]
  <2>1. Append(s, x) \in [1..(Len(s) + 1) -> S]
    BY <1>1, LenProperties
  <2> QED  BY <2>1
<1> QED  BY <1>2, <1>3, <1>4

(* A queue that gets a message tells what it told, and the message.          *)
LEMMA BoxAppended ==
  ASSUME TypeOK, NEW k \in Conns, NEW m \in MsgBufs, queue'[k] = Append(queue[k], m),
         \A i \in DOMAIN queue[k] : msg'[queue[k][i]] = msg[queue[k][i]],
         \A d \in BodyBufs : Occurrences(BodiesOf(queue[k]), d) > 0 => bdata'[d] = bdata[d]
  PROVE  Box(k)' = Append(Box(k), Tells(msg', bdata', m))
<1> DEFINE q == queue[k]
           new == Append(q, m)
           what == Tells(msg', bdata', m)
<1>1. /\ Len(q) \in Nat /\ DOMAIN q = 1..Len(q)
      /\ DOMAIN new = 1..(Len(q) + 1)
      /\ new[Len(q) + 1] = m
      /\ \A i \in 1..Len(q) : new[i] = q[i]
  BY DEF TypeOK
<1>2. Box(k)' = [i \in DOMAIN new |-> Tells(msg', bdata', new[i])]
  BY DEF Box, Tells
<1>3. \A i \in 1..Len(q) : Tells(msg', bdata', q[i]) = Tells(msg, bdata, q[i])
  BY <1>1, TellsTheSame
<1>4. /\ Box(k) = [i \in 1..Len(q) |-> Tells(msg, bdata, q[i])]
  BY <1>1 DEF Box
<1> HIDE DEF what
<1>5. /\ DOMAIN Append(Box(k), what) = 1..(Len(q) + 1)
      /\ Append(Box(k), what)[Len(q) + 1] = what
      /\ \A i \in 1..Len(q) : Append(Box(k), what)[i] = Box(k)[i]
      /\ Append(Box(k), what) = [i \in 1..(Len(q) + 1) |-> Append(Box(k), what)[i]]
  <2> DEFINE S == {Tells(msg, bdata, q[i]) : i \in 1..Len(q)} \cup {what}
  <2>1. Box(k) \in [1..Len(q) -> S]
    BY <1>4
  <2>3. what \in S
    OBVIOUS
  <2> HIDE DEF S
  <2>2. Box(k) \in Seq(S) /\ Len(Box(k)) = Len(q)
    BY <1>1, <2>1
  <2> QED  BY <2>2, <2>3, AppendIs
<1>6. \A i \in 1..(Len(q) + 1) : i \in 1..Len(q) \/ i = Len(q) + 1
  BY <1>1
<1>7. ASSUME NEW i \in 1..(Len(q) + 1) PROVE Tells(msg', bdata', new[i]) = Append(Box(k), what)[i]
  <2>1. CASE i \in 1..Len(q)
    <3>1. new[i] = q[i]
      BY <1>1, <2>1
    <3>2. Append(Box(k), what)[i] = Tells(msg, bdata, q[i])
      BY <1>4, <1>5, <2>1
    <3> HIDE DEF new, q
    <3> QED  BY <1>3, <2>1, <3>1, <3>2
  <2>2. CASE i = Len(q) + 1
    BY <1>1, <1>5, <2>2 DEF what
  <2> QED  BY <1>6, <2>1, <2>2
<1> HIDE DEF new
<1>8. [i \in DOMAIN new |-> Tells(msg', bdata', new[i])] = [i \in 1..(Len(q) + 1) |-> Append(Box(k), what)[i]]
  BY <1>1, <1>7
<1> QED  BY <1>2, <1>5, <1>8 DEF what

-----------------------------------------------------------------------------
(* Names and channels                                                        *)

PublisherOf(n) == IF channels[n] = NoChan THEN NoConn ELSE chpub[channels[n]]
AudienceOf(n) == IF channels[n] = NoChan THEN {} ELSE chsubs[channels[n]]

(* A channel in use is found under its name, and no other name leads to it.  *)
LEMMA NameOf ==
  ASSUME TypeOK, MapExact, NEW c \in Channels, chpub[c] # NoConn \/ chsubs[c] # {}
  PROVE  /\ chname[c] \in Names /\ channels[chname[c]] = c
         /\ PublisherOf(chname[c]) = chpub[c] /\ AudienceOf(chname[c]) = chsubs[c]
         /\ \A n \in Names : n # chname[c] => channels[n] # c
<1>1. chname[c] # NoName /\ channels[chname[c]] = c /\ c # NoChan
  BY SentinelAssumption DEF MapExact
<1>2. chname[c] \in Names
  BY <1>1 DEF TypeOK
<1>3. \A n \in Names : channels[n] = c => n = chname[c]
  BY <1>1 DEF MapExact
<1> QED  BY <1>1, <1>2, <1>3 DEF PublisherOf, AudienceOf

(* The channel that a command finds or creates, as PubSub sees it.           *)
LEMMA FoundOrCreated ==
  ASSUME TypeOK, MapExact, NEW n \in Names, NEW c \in Channels, FindOrCreate(n, c)
  PROVE  /\ PublisherOf(n) = chpub[c] /\ AudienceOf(n) = chsubs[c]
         /\ channels'[n] = c
         /\ \A k \in Names : k # n => channels'[k] = channels[k] /\ channels[k] # c
<1>1. c # NoChan
  BY SentinelAssumption
<1>2. CASE channels[n] # NoChan
  <2>1. c = channels[n] /\ channels' = channels
    BY <1>2 DEF FindOrCreate
  <2>2. \A k \in Names : channels[k] = c => k = n
    BY <1>2, <2>1 DEF MapExact
  <2> QED  BY <1>1, <2>1, <2>2 DEF PublisherOf, AudienceOf
<1>3. CASE channels[n] = NoChan
  <2>1. chname[c] = NoName /\ channels' = [channels EXCEPT ![n] = c]
    BY <1>3 DEF FindOrCreate
  <2>2. chpub[c] = NoConn /\ chsubs[c] = {}
    BY <2>1 DEF MapExact
  <2>3. \A k \in Names : channels[k] # c
    BY <1>1, <2>1, SentinelAssumption DEF MapExact
  <2> QED  BY <1>3, <2>1, <2>2, <2>3 DEF PublisherOf, AudienceOf, TypeOK
<1> QED  BY <1>2, <1>3

(* A client without a role plays no part.                                    *)
LEMMA UndecidedIsIdle ==
  ASSUME TypeOK, ChannelsMatchConnections, NEW l \in Conns, kind[l] = "undecided"
  PROVE  PS!Idle(l)
<1>1. \A c \in Channels : chpub[c] # l /\ l \notin chsubs[c]
  BY DEF ChannelsMatchConnections, IsPublisher, IsSubscriber
<1>2. \A n \in Names : channels[n] # NoChan => channels[n] \in Channels
  BY DEF TypeOK
<1>3. l # NoConn
  BY SentinelAssumption
<1> QED  BY <1>1, <1>2, <1>3 DEF PS!Idle

-----------------------------------------------------------------------------
(* The view of PubSub                                                        *)

Publishers == [n \in Names |-> PublisherOf(n)]
Audiences == [n \in Names |-> AudienceOf(n)]
Boxes == [k \in Conns |-> Box(k)]

(* Appending a message to the boxes of an audience.                          *)
Told(audience, m) == [k \in Conns |-> IF k \in audience THEN Append(Boxes[k], m) ELSE Boxes[k]]

(* The steps of PubSub in terms of the view.                                 *)
LEMMA IsPublish ==
  ASSUME NEW l \in Conns, NEW n \in Names, PS!Idle(l), Publishers[n] = NoConn,
         Publishers' = [Publishers EXCEPT ![n] = l], Audiences' = Audiences,
         Boxes' = Told(Audiences[n], [type |-> "begin"])
  PROVE  PS!Next
<1>1. PS!Publish(l, n)
  BY DEF PS!Publish, PS!Broadcast, PS!Begin, Publishers, PublisherOf, Audiences, AudienceOf,
     Boxes, Box, Tells, Told, Delivery
<1> QED  BY <1>1 DEF PS!Next

(* A publisher sends.                                                        *)
LEMMA IsSend ==
  ASSUME NEW l \in Conns, NEW n \in Names, NEW p \in Payloads, Publishers[n] = l,
         Publishers' = Publishers, Audiences' = Audiences,
         Boxes' = Told(Audiences[n], [type |-> "media", data |-> p])
  PROVE  PS!Next
<1>1. PS!Send(l, n, p)
  BY DEF PS!Send, PS!Broadcast, PS!Media, Publishers, PublisherOf, Audiences, AudienceOf,
     Boxes, Box, Tells, Told, Delivery
<1> QED  BY <1>1 DEF PS!Next

(* A publisher leaves.                                                       *)
LEMMA IsUnpublish ==
  ASSUME NEW l \in Conns, NEW n \in Names, Publishers[n] = l,
         Publishers' = [Publishers EXCEPT ![n] = NoConn], Audiences' = Audiences,
         Boxes' = Told(Audiences[n], [type |-> "done"])
  PROVE  PS!Next
<1>1. PS!Unpublish(l, n)
  BY DEF PS!Unpublish, PS!Broadcast, PS!Done, Publishers, PublisherOf, Audiences, AudienceOf,
     Boxes, Box, Tells, Told, Delivery
<1> QED  BY <1>1 DEF PS!Next

(* A subscriber comes.                                                       *)
LEMMA IsSubscribe ==
  ASSUME NEW l \in Conns, NEW n \in Names, PS!Idle(l),
         Publishers' = Publishers, Audiences' = [Audiences EXCEPT ![n] = Audiences[n] \cup {l}],
         Boxes' = Boxes
  PROVE  PS!Next
<1>1. PS!Subscribe(l, n)
  BY DEF PS!Subscribe, Publishers, PublisherOf, Audiences, AudienceOf, Boxes, Box, Tells, Delivery
<1> QED  BY <1>1 DEF PS!Next

(* A subscriber is handed its messages.                                      *)
LEMMA IsDeliver ==
  ASSUME NEW l \in Conns, Boxes[l] # <<>>,
         Publishers' = Publishers, Audiences' = Audiences, Boxes' = [Boxes EXCEPT ![l] = <<>>]
  PROVE  PS!Next
<1>1. PS!Deliver(l)
  BY DEF PS!Deliver, Publishers, PublisherOf, Audiences, AudienceOf, Boxes, Box, Tells, Delivery
<1> QED  BY <1>1 DEF PS!Next

(* A subscriber leaves.                                                      *)
LEMMA IsUnsubscribe ==
  ASSUME NEW l \in Conns, NEW n \in Names, l \in Audiences[n], Publishers' = Publishers,
         Audiences' = [Audiences EXCEPT ![n] = Audiences[n] \ {l}], Boxes' = [Boxes EXCEPT ![l] = <<>>]
  PROVE  PS!Next
<1>1. PS!Unsubscribe(l, n)
  BY DEF PS!Unsubscribe, Publishers, PublisherOf, Audiences, AudienceOf, Boxes, Box, Tells, Delivery
<1> QED  BY <1>1 DEF PS!Next

(* Nobody notices.                                                           *)
LEMMA IsStutter ==
  ASSUME Publishers' = Publishers, Audiences' = Audiences, Boxes' = Boxes
  PROVE  UNCHANGED PS!vars
BY DEF PS!vars, Publishers, PublisherOf, Audiences, AudienceOf, Boxes, Box, Tells, Delivery

(* A step that leaves the channels alone leaves names alone.                 *)
LEMMA NamesKept ==
  ASSUME UNCHANGED <<channels, chpub, chsubs>>
  PROVE  Publishers' = Publishers /\ Audiences' = Audiences
BY DEF Publishers, PublisherOf, Audiences, AudienceOf

-----------------------------------------------------------------------------
(* Boxes                                                                     *)

(* What a queue keeps holding keeps its contents.                            *)
LEMMA ContentsStay ==
  ASSUME TypeOK, TypeOK', BodyCountExact', NEW f, bdata' = Contents(f, bref', Garbage),
         DOMAIN f = BodyBufs, NEW k \in Conns,
         \A e \in BodyBufs : k \in BodyHolders(e) => k \in BodyHolders(e)' /\ f[e] = bdata[e]
  PROVE  \A e \in BodyBufs : Occurrences(BodiesOf(queue[k]), e) > 0 => bdata'[e] = bdata[e]
<1>1. ASSUME NEW e \in BodyBufs, Occurrences(BodiesOf(queue[k]), e) > 0 PROVE bdata'[e] = bdata[e]
  <2>1. k \in BodyHolders(e)
    BY <1>1 DEF BodyHolders
  <2>2. k \in BodyHolders(e)' /\ f[e] = bdata[e]
    BY <2>1
  <2>3. bref'[e] # 0
    BY <2>2, HeldBodyCounts
  <2> QED  BY <2>2, <2>3 DEF Contents
<1> QED  BY <1>1

(* A broadcast tells the audience of the channel, and nobody else.           *)
LEMMA BroadcastTells ==
  ASSUME TypeOK, BufferInv, TypeOK', BodyCountExact', NEW c \in Channels, NEW type,
         NEW d \in BodyBufs \cup {NoBuf}, Broadcast(c, type, d), d \in BodyBufs => BodyHolders(d) = {},
         NEW f, bdata' = Contents(f, bref', Garbage), DOMAIN f = BodyBufs,
         \A e \in BodyBufs : e # d => f[e] = bdata[e]
  PROVE  Boxes' = Told(chsubs[c], IF d = NoBuf THEN [type |-> type] ELSE [type |-> type, data |-> f[d]])
<1> DEFINE what == IF d = NoBuf THEN [type |-> type] ELSE [type |-> type, data |-> f[d]]
<1>1. PICK m \in MsgBufs :
        /\ \A k \in Conns : queue'[k] = IF k \in chsubs[c] THEN Append(queue[k], m) ELSE queue[k]
        /\ chsubs[c] # {} => msg'[m] = [type |-> type, body |-> d]
  BY BroadcastEffect DEF BufferInv
<1>2. \A k \in Conns : \A i \in DOMAIN queue[k] : msg'[queue[k][i]] = msg[queue[k][i]]
  BY BroadcastEffect DEF BufferInv
<1>3. \A e \in BodyBufs : BodyHolders(e)' = IF e = d THEN chsubs[c] ELSE BodyHolders(e)
  BY BroadcastBodies DEF BufferInv
<1>4. ASSUME NEW k \in Conns
      PROVE  \A e \in BodyBufs : Occurrences(BodiesOf(queue[k]), e) > 0 => bdata'[e] = bdata[e]
  <2>1. \A e \in BodyBufs : k \in BodyHolders(e) => k \in BodyHolders(e)' /\ f[e] = bdata[e]
    BY <1>3
  <2> QED  BY <2>1, ContentsStay
<1>5. ASSUME chsubs[c] # {} PROVE Tells(msg', bdata', m) = what
  <2>1. msg'[m] = [type |-> type, body |-> d]
    BY <1>1, <1>5
  <2>2. ASSUME d # NoBuf PROVE bdata'[d] = f[d]
    <3>1. PICK k : k \in chsubs[c]
      BY <1>5
    <3>2. d \in BodyBufs /\ \A e \in BodyBufs : e = d => k \in BodyHolders(e)'
      BY <1>3, <2>2, <3>1
    <3>3. bref'[d] # 0
      BY <3>2, HeldBodyCounts
    <3> QED  BY <3>2, <3>3 DEF Contents
  <2> QED  BY <2>1, <2>2 DEF Tells
<1> HIDE DEF what
<1>6. ASSUME NEW k \in Conns PROVE Box(k)' = IF k \in chsubs[c] THEN Append(Box(k), what) ELSE Box(k)
  <2>1. CASE k \in chsubs[c]
    <3>1. Box(k)' = Append(Box(k), Tells(msg', bdata', m))
      BY <1>1, <1>2, <1>4, <2>1, BoxAppended
    <3> QED  BY <1>5, <2>1, <3>1
  <2>2. CASE k \notin chsubs[c]
    BY <1>1, <1>2, <1>4, <2>2, BoxKept
  <2> QED  BY <2>1, <2>2
<1>7. Boxes' = Told(chsubs[c], what)
  BY <1>6 DEF Boxes, Told
<1> QED  BY <1>7 DEF what

(* A step that leaves queues and messages alone and at most gives up a body  *)
(* that was being read is not noticed.                                       *)
LEMMA QuietRelease ==
  ASSUME TypeOK, BufferInv, TypeOK', BodyCountExact', UNCHANGED <<queue, msg>>,
         bdata' = bdata \/ bdata' = Contents(bdata, bref', Garbage)
  PROVE  Boxes' = Boxes
<1>1. \A e \in BodyBufs : BodyHolders(e)' = BodyHolders(e)
  BY HoldersFrame DEF BufferInv
<1>2. ASSUME NEW k \in Conns PROVE Box(k)' = Box(k)
  <2>1. \A e \in BodyBufs : Occurrences(BodiesOf(queue[k]), e) > 0 => bdata'[e] = bdata[e]
    <3>1. CASE bdata' = bdata
      BY <3>1
    <3>2. CASE bdata' = Contents(bdata, bref', Garbage)
      <4>1. DOMAIN bdata = BodyBufs
        BY DEF TypeOK
      <4> QED  BY <1>1, <3>2, <4>1, ContentsStay
    <3> QED  BY <3>1, <3>2
  <2> QED  BY <2>1, BoxKept
<1> QED  BY <1>2 DEF Boxes

(* Emptying one queue empties one box.                                       *)
LEMMA BoxEmptied ==
  ASSUME TypeOK, BufferInv, TypeOK', BodyCountExact', NEW l \in Conns,
         queue' = [queue EXCEPT ![l] = <<>>], mref' = UnrefAll(mref, queue[l]),
         msg' = Contents(msg, mref', FreedMsg), bdata' = Contents(bdata, bref', Garbage)
  PROVE  Boxes' = [Boxes EXCEPT ![l] = <<>>]
<1>1. \A k \in Conns : k # l => \A i \in DOMAIN queue[k] : msg'[queue[k][i]] = msg[queue[k][i]]
  BY DropEffect DEF BufferInv
<1>2. \A e \in BodyBufs : BodyHolders(e)' = BodyHolders(e) \ {l}
  BY DropBodies DEF BufferInv
<1>3. DOMAIN bdata = BodyBufs /\ \A k \in Conns : queue'[k] = IF k = l THEN <<>> ELSE queue[k]
  BY DEF TypeOK
<1>4. ASSUME NEW k \in Conns, k # l PROVE Box(k)' = Box(k)
  <2>1. \A e \in BodyBufs : k \in BodyHolders(e) => k \in BodyHolders(e)'
    BY <1>2, <1>4
  <2>2. \A e \in BodyBufs : Occurrences(BodiesOf(queue[k]), e) > 0 => bdata'[e] = bdata[e]
    BY <1>3, <2>1, ContentsStay
  <2> QED  BY <1>1, <1>3, <1>4, <2>2, BoxKept
<1>5. Box(l)' = <<>>
  BY <1>3 DEF Box
<1> QED  BY <1>4, <1>5 DEF Boxes

-----------------------------------------------------------------------------
(* The steps                                                                 *)

(* A step that concerns the channel c of the name n and no other channel.    *)
LEMMA ChannelChanges ==
  ASSUME TypeOK, NEW n \in Names, NEW c \in Channels,
         \/ channels'[n] = c
         \/ channels'[n] = NoChan /\ chpub'[c] = NoConn /\ chsubs'[c] = {},
         \A k \in Names : k # n => channels'[k] = channels[k] /\ channels[k] # c,
         \A e \in Channels : e # c => chpub'[e] = chpub[e] /\ chsubs'[e] = chsubs[e]
  PROVE  /\ Publishers' = [Publishers EXCEPT ![n] = chpub'[c]]
         /\ Audiences' = [Audiences EXCEPT ![n] = chsubs'[c]]
<1>1. c # NoChan
  BY SentinelAssumption
<1>2. PublisherOf(n)' = chpub'[c] /\ AudienceOf(n)' = chsubs'[c]
  BY <1>1 DEF PublisherOf, AudienceOf
<1>3. ASSUME NEW k \in Names, k # n PROVE PublisherOf(k)' = PublisherOf(k) /\ AudienceOf(k)' = AudienceOf(k)
  <2>1. channels'[k] = channels[k] /\ channels[k] \in Channels \cup {NoChan} /\ channels[k] # c
    BY <1>3 DEF TypeOK
  <2>2. channels[k] # NoChan => chpub'[channels[k]] = chpub[channels[k]]
                              /\ chsubs'[channels[k]] = chsubs[channels[k]]
    BY <2>1
  <2> QED  BY <2>1, <2>2 DEF PublisherOf, AudienceOf
<1> QED  BY <1>2, <1>3 DEF Publishers, Audiences

(* What was stored there already makes no difference.                        *)
LEMMA SamePlace ==
  /\ \A n \in Names : [Publishers EXCEPT ![n] = Publishers[n]] = Publishers
  /\ \A n \in Names : [Audiences EXCEPT ![n] = Audiences[n]] = Audiences
BY DEF Publishers, Audiences

(* A channel in use and its name, when a client leaves it.                   *)
LEMMA ChannelLeft ==
  ASSUME TypeOK, MapExact, NEW c \in Channels, chpub[c] # NoConn \/ chsubs[c] # {},
         \/ RemoveChannel(c) /\ chpub'[c] = NoConn /\ chsubs'[c] = {}
         \/ KeepChannel,
         \A e \in Channels : e # c => chpub'[e] = chpub[e] /\ chsubs'[e] = chsubs[e]
  PROVE  \E n \in Names :
           /\ Publishers[n] = chpub[c] /\ Audiences[n] = chsubs[c]
           /\ Publishers' = [Publishers EXCEPT ![n] = chpub'[c]]
           /\ Audiences' = [Audiences EXCEPT ![n] = chsubs'[c]]
<1>1. PICK n : n = chname[c]
  OBVIOUS
<1>2. /\ n \in Names /\ channels[n] = c
      /\ PublisherOf(n) = chpub[c] /\ AudienceOf(n) = chsubs[c]
      /\ \A k \in Names : k # n => channels[k] # c
  BY <1>1, NameOf
<1>3. Publishers[n] = chpub[c] /\ Audiences[n] = chsubs[c]
  BY <1>2 DEF Publishers, Audiences
<1>4. /\ \/ channels'[n] = c
         \/ channels'[n] = NoChan /\ chpub'[c] = NoConn /\ chsubs'[c] = {}
      /\ \A k \in Names : k # n => channels'[k] = channels[k]
  BY <1>1, <1>2 DEF RemoveChannel, KeepChannel, TypeOK
<1>5. /\ Publishers' = [Publishers EXCEPT ![n] = chpub'[c]]
      /\ Audiences' = [Audiences EXCEPT ![n] = chsubs'[c]]
  BY <1>2, <1>4, ChannelChanges
<1> QED  BY <1>2, <1>3, <1>5

(* A publish that is accepted.                                               *)
LEMMA PublishSteps ==
  ASSUME SingleRole, IInv, IInv', NEW l \in Conns, NEW n \in Names, Publish(l, n)
  PROVE  PS!Next
<1> USE DEF IInv, LoopInv, ListInv, TypeInv, Registered
<1>1. PICK c \in Channels :
        /\ FindOrCreate(n, c) /\ chpub[c] = NoConn
        /\ chpub' = [chpub EXCEPT ![c] = l] /\ Broadcast(c, "begin", NoBuf)
  BY DEF Publish
<1>2. /\ chsubs' = chsubs /\ kind[l] = "undecided"
      /\ bdata' = Contents(bdata, bref', Garbage)
  BY DEF Publish, MayTakeRole, ReleaseBody
<1>3. /\ PublisherOf(n) = chpub[c] /\ AudienceOf(n) = chsubs[c] /\ channels'[n] = c
      /\ \A k \in Names : k # n => channels'[k] = channels[k] /\ channels[k] # c
  BY <1>1, FoundOrCreated
<1>4. chpub'[c] = l /\ \A e \in Channels : e # c => chpub'[e] = chpub[e] /\ chsubs'[e] = chsubs[e]
  BY <1>1, <1>2 DEF TypeOK
<1>5. Publishers' = [Publishers EXCEPT ![n] = l] /\ Audiences' = [Audiences EXCEPT ![n] = chsubs[c]]
  BY <1>2, <1>3, <1>4, ChannelChanges
<1>6. Publishers[n] = NoConn /\ Audiences[n] = chsubs[c]
  BY <1>1, <1>3 DEF Publishers, Audiences
<1>7. Boxes' = Told(chsubs[c], [type |-> "begin"])
  <2>1. NoBuf \notin BodyBufs /\ DOMAIN bdata = BodyBufs
    BY BufsAssumption DEF TypeOK
  <2> QED  BY <1>1, <1>2, <2>1, BroadcastTells DEF BufferInv
<1>8. PS!Idle(l)
  BY <1>2, UndecidedIsIdle
<1>9. Audiences' = Audiences
  BY <1>5, <1>6, SamePlace
<1> QED  BY <1>5, <1>6, <1>7, <1>8, <1>9, IsPublish

(* A media message of a publisher.                                           *)
LEMMA MediaSteps ==
  ASSUME IInv, IInv', NEW l \in Conns, NEW p \in Payloads, PublishMedia(l, p)
  PROVE  PS!Next
<1> USE DEF IInv, LoopInv, ListInv, TypeInv, Registered
<1>1. PICK c : c = pubchan[l]
  OBVIOUS
<1>2. PICK d : d = body[l]
  OBVIOUS
<1>3. /\ c \in Channels /\ chpub[c] = l
      /\ UNCHANGED <<channels, chpub, chsubs>>
      /\ Broadcast(c, "media", d)
      /\ bdata' = Contents([bdata EXCEPT ![d] = p], bref', Garbage)
  BY <1>1, <1>2 DEF PublishMedia, MessageComplete, RolesOK, ChannelsMatchConnections, IsPublisher, chanVars
<1>4. d \in BodyBufs /\ BodyHolders(d) = {} /\ NoBuf \notin BodyBufs
  BY <1>2, ReadBody, BufsAssumption DEF BufferInv, PublishMedia, MessageComplete
<1>5. l # NoConn
  BY SentinelAssumption
<1>6. PICK n \in Names : Publishers[n] = l /\ Audiences[n] = chsubs[c]
  BY <1>3, <1>5, NameOf DEF Publishers, Audiences
<1>7. Boxes' = Told(chsubs[c], [type |-> "media", data |-> p])
  <2> DEFINE f == [bdata EXCEPT ![d] = p]
  <2>1. DOMAIN f = BodyBufs /\ f[d] = p /\ \A e \in BodyBufs : e # d => f[e] = bdata[e]
    BY <1>4 DEF TypeOK
  <2>2. bdata' = Contents(f, bref', Garbage)
    BY <1>3
  <2> HIDE DEF f
  <2> QED  BY <1>3, <1>4, <2>1, <2>2, BroadcastTells DEF BufferInv
<1> QED  BY <1>3, <1>6, <1>7, NamesKept, IsSend

(* A publisher goes.                                                         *)
LEMMA RemovePublisherSteps ==
  ASSUME IInv, IInv', NEW l \in Conns, RemovePublisher(l)
  PROVE  PS!Next
<1> USE DEF IInv, LoopInv, ListInv, TypeInv, Registered
<1>1. PICK c : c = pubchan[l]
  OBVIOUS
<1>2. /\ kind[l] = "publisher" /\ l # NoConn
      /\ chpub' = [chpub EXCEPT ![c] = NoConn] /\ chsubs' = chsubs
      /\ Broadcast(c, "done", NoBuf)
      /\ IF chsubs[c] = {} THEN RemoveChannel(c) ELSE KeepChannel
      /\ bdata' = Contents(bdata, bref', Garbage)
  BY <1>1, SentinelAssumption DEF RemovePublisher, Unpublish, FreeConn, ReleaseBody
<1>3. c \in Channels /\ chpub[c] = l
  BY <1>1, <1>2 DEF RolesOK, ChannelsMatchConnections, IsPublisher, FreeIdle
<1>4. /\ chpub'[c] = NoConn /\ \A e \in Channels : e # c => chpub'[e] = chpub[e] /\ chsubs'[e] = chsubs[e]
      /\ (RemoveChannel(c) /\ chpub'[c] = NoConn /\ chsubs'[c] = {}) \/ KeepChannel
  BY <1>2, <1>3 DEF TypeOK
<1>5. PICK n \in Names :
        /\ Publishers[n] = l /\ Audiences[n] = chsubs[c]
        /\ Publishers' = [Publishers EXCEPT ![n] = NoConn]
        /\ Audiences' = [Audiences EXCEPT ![n] = chsubs[c]]
  BY <1>2, <1>3, <1>4, ChannelLeft
<1>6. Boxes' = Told(chsubs[c], [type |-> "done"])
  <2>1. NoBuf \notin BodyBufs /\ DOMAIN bdata = BodyBufs
    BY BufsAssumption DEF TypeOK
  <2> QED  BY <1>2, <1>3, <2>1, BroadcastTells DEF BufferInv
<1>7. Audiences' = Audiences
  BY <1>5, SamePlace
<1> QED  BY <1>5, <1>6, <1>7, IsUnpublish

(* A client starts to play.                                                  *)
LEMMA PlaySteps ==
  ASSUME SingleRole, IInv, IInv', NEW l \in Conns, NEW n \in Names, Play(l, n)
  PROVE  PS!Next
<1> USE DEF IInv, LoopInv, ListInv, TypeInv, Registered
<1>1. PICK c \in Channels : FindOrCreate(n, c) /\ chsubs' = [chsubs EXCEPT ![c] = chsubs[c] \cup {l}]
  BY DEF Play
<1>2. /\ kind[l] = "undecided" /\ chpub' = chpub /\ msg' = msg
      /\ queue' = [queue EXCEPT ![l] = <<>>]
      /\ bdata' = Contents(bdata, bref', Garbage)
  BY DEF Play, MayTakeRole, ReleaseBody
<1>3. queue[l] = <<>>
  BY <1>2 DEF LatchInv, LatchPlays, NoLostWakeup
<1>4. queue' = queue
  BY <1>2, <1>3 DEF TypeOK
<1>5. /\ PublisherOf(n) = chpub[c] /\ AudienceOf(n) = chsubs[c] /\ channels'[n] = c
      /\ \A k \in Names : k # n => channels'[k] = channels[k] /\ channels[k] # c
  BY <1>1, FoundOrCreated
<1>6. /\ chsubs'[c] = chsubs[c] \cup {l}
      /\ \A e \in Channels : e # c => chpub'[e] = chpub[e] /\ chsubs'[e] = chsubs[e]
  BY <1>1, <1>2 DEF TypeOK
<1>7. /\ Publishers' = [Publishers EXCEPT ![n] = chpub'[c]]
      /\ Audiences' = [Audiences EXCEPT ![n] = chsubs'[c]]
  BY <1>5, <1>6, ChannelChanges
<1>8. Publishers[n] = chpub'[c] /\ Audiences[n] = chsubs[c]
  BY <1>2, <1>5 DEF Publishers, Audiences
<1>9. Boxes' = Boxes
  BY <1>2, <1>4, QuietRelease DEF BufferInv
<1>10. PS!Idle(l)
  BY <1>2, UndecidedIsIdle
<1>11. Publishers' = Publishers
  BY <1>7, <1>8, SamePlace
<1> QED  BY <1>6, <1>7, <1>8, <1>9, <1>10, <1>11, IsSubscribe

(* A delivery, if there is anything to deliver.                              *)
LEMMA DeliverSteps ==
  ASSUME IInv, IInv', NEW l \in Conns, Deliver(l)
  PROVE  PS!Next \/ UNCHANGED PS!vars
<1> USE DEF IInv, LoopInv, ListInv, TypeInv
<1>1. Publishers' = Publishers /\ Audiences' = Audiences
  BY NamesKept DEF Deliver, chanVars
<1>2. Boxes' = [Boxes EXCEPT ![l] = <<>>]
  BY BoxEmptied DEF Deliver, BufferInv
<1>3. CASE Boxes[l] = <<>>
  <2>1. Boxes' = Boxes
    BY <1>2, <1>3 DEF Boxes
  <2> QED  BY <1>1, <2>1, IsStutter
<1>4. CASE Boxes[l] # <<>>
  BY <1>1, <1>2, <1>4, IsDeliver
<1> QED  BY <1>3, <1>4

(* A subscriber goes.                                                        *)
LEMMA RemoveSubscriberSteps ==
  ASSUME IInv, IInv', NEW l \in Conns, RemoveSubscriber(l)
  PROVE  PS!Next
<1> USE DEF IInv, LoopInv, ListInv, TypeInv, Registered
<1>1. PICK c : c = subchan[l]
  OBVIOUS
<1>2. /\ kind[l] = "subscriber"
      /\ chsubs' = [chsubs EXCEPT ![c] = chsubs[c] \ {l}] /\ chpub' = chpub
      /\ IF LastOnChannel(l, c) THEN RemoveChannel(c) ELSE KeepChannel
      /\ queue' = [queue EXCEPT ![l] = <<>>] /\ mref' = UnrefAll(mref, queue[l])
      /\ msg' = Contents(msg, mref', FreedMsg) /\ bdata' = Contents(bdata, bref', Garbage)
  BY <1>1 DEF RemoveSubscriber, Unsubscribe, DestroyQueue, FreeConn, ReleaseBody
<1>3. c \in Channels /\ l \in chsubs[c]
  BY <1>1, <1>2 DEF RolesOK, ChannelsMatchConnections, IsSubscriber, FreeIdle
<1>4. /\ chsubs'[c] = chsubs[c] \ {l}
      /\ \A e \in Channels : e # c => chpub'[e] = chpub[e] /\ chsubs'[e] = chsubs[e]
  BY <1>2, <1>3 DEF TypeOK
<1>5. (RemoveChannel(c) /\ chpub'[c] = NoConn /\ chsubs'[c] = {}) \/ KeepChannel
  BY <1>2, <1>4 DEF LastOnChannel
<1>6. chpub[c] # NoConn \/ chsubs[c] # {}
  BY <1>3
<1>7. PICK n \in Names :
        /\ Publishers[n] = chpub[c] /\ Audiences[n] = chsubs[c]
        /\ Publishers' = [Publishers EXCEPT ![n] = chpub'[c]]
        /\ Audiences' = [Audiences EXCEPT ![n] = chsubs'[c]]
  BY <1>3, <1>4, <1>5, <1>6, ChannelLeft
<1>8. Publishers' = Publishers
  BY <1>2, <1>7, SamePlace
<1>9. Boxes' = [Boxes EXCEPT ![l] = <<>>]
  BY <1>2, BoxEmptied DEF BufferInv
<1> QED  BY <1>3, <1>4, <1>7, <1>8, <1>9, IsUnsubscribe

(* Every step is a step of PubSub or invisible.                              *)
LEMMA Steps ==
  ASSUME SingleRole, IInv, IInv', [Next]_vars
  PROVE  PS!Next \/ UNCHANGED PS!vars
<1>1. ASSUME UNCHANGED <<chanVars, queue, msg>>,
             bdata' = bdata \/ bdata' = Contents(bdata, bref', Garbage)
      PROVE  UNCHANGED PS!vars
  <2>1. Boxes' = Boxes
    BY <1>1, QuietRelease DEF IInv, LoopInv, ListInv, TypeInv, BufferInv
  <2>2. Publishers' = Publishers /\ Audiences' = Audiences
    BY <1>1, NamesKept DEF chanVars
  <2> QED  BY <2>1, <2>2, IsStutter
<1>2. ASSUME NEW l \in Conns, NewConn(l) \/ ReadHeader(l) \/ Hangup(l) \/ FinishLatch(l)
      PROVE  UNCHANGED PS!vars
  BY <1>1, <1>2 DEF NewConn, ReadHeader, Hangup, FinishLatch, slabVars
<1>3. ASSUME NEW l \in Conns, IgnoreMessage(l) \/ \E n \in Names : RejectPublish(l, n)
      PROVE  UNCHANGED PS!vars
  BY <1>1, <1>3 DEF IgnoreMessage, RejectPublish, ReleaseBody
<1>4. ASSUME NEW l \in Conns, Message(l) PROVE PS!Next \/ UNCHANGED PS!vars
  BY <1>3, <1>4, MediaSteps, PublishSteps, PlaySteps DEF Message
<1>5. ASSUME NEW l \in Conns, RemoveUndecided(l) PROVE UNCHANGED PS!vars
  BY <1>1, <1>5 DEF RemoveUndecided, FreeConn, ReleaseBody
<1>6. ASSUME NEW l \in Conns, FinishClient(l) PROVE PS!Next \/ UNCHANGED PS!vars
  BY <1>5, <1>6, RemovePublisherSteps, RemoveSubscriberSteps DEF FinishClient
<1>7. ASSUME EndPoll \/ Stop PROVE UNCHANGED PS!vars
  BY <1>1, <1>7 DEF EndPoll, Stop, slabVars
<1>8. ASSUME UNCHANGED vars PROVE UNCHANGED PS!vars
  BY <1>1, <1>8 DEF vars, connVars, slabVars
<1> QED  BY <1>2, <1>4, <1>6, <1>7, <1>8, DeliverSteps DEF Next, LoopDone

(* The start.                                                                *)
LEMMA Starts == Init => PS!Init
BY DEF Init, PS!Init

(* The invariant at the start.                                               *)
LEMMA IInvInit == Init => IInv
BY LoopInit, BufferInit DEF IInv

(* Every step keeps the invariant.                                           *)
LEMMA IInvStep ==
  ASSUME SingleRole, IInv, [Next]_vars
  PROVE  IInv'
BY LoopStep, BufferStep DEF IInv

(* The RTMP thread implements PubSub: what subscribers are handed is, in     *)
(* order and with their contents, what was broadcast under their name.       *)
THEOREM ThreadIsPubSub ==
  ASSUME SingleRole
  PROVE  Spec => ImplementsPubSub
<1>1. IInv /\ [Next]_vars => IInv'
  BY IInvStep
<1>2. IInv /\ IInv' /\ [Next]_vars => [PS!Next]_PS!vars
  BY Steps
<1> QED  BY <1>1, <1>2, IInvInit, Starts, PTL DEF Spec, ImplementsPubSub, PS!Spec

-----------------------------------------------------------------------------
(* Complete publications                                                     *)

BracketedAt(k, c) ==
  /\ \A i \in 1..(Len(queue[k]) - 1) : TypeAt(queue[k], i) = "done" <=> TypeAt(queue[k], i + 1) = "begin"
  /\ queue[k] # <<>> => (TypeAt(queue[k], Len(queue[k])) = "done" <=> chpub[c] = NoConn)

(* An empty queue.                                                           *)
LEMMA BracketEmpty ==
  ASSUME NEW k, NEW c, queue'[k] = <<>>
  PROVE  BracketedAt(k, c)'
<1>1. Len(queue[k])' = 0
  OBVIOUS
<1> QED  BY <1>1 DEF BracketedAt

(* A queue left alone.                                                       *)
LEMMA BracketKept ==
  ASSUME TypeOK, NEW k \in Conns, NEW c, BracketedAt(k, c), queue'[k] = queue[k], chpub'[c] = chpub[c],
         \A i \in DOMAIN queue[k] : msg'[queue[k][i]] = msg[queue[k][i]]
  PROVE  BracketedAt(k, c)'
<1> DEFINE q == queue[k]
<1>1. Len(q) \in Nat /\ DOMAIN q = 1..Len(q) /\ (q # <<>> => Len(q) # 0)
  BY DEF TypeOK
<1>2. \A i \in 1..Len(q) : msg'[q[i]].type = msg[q[i]].type
  BY <1>1
<1>3. /\ \A i \in 1..(Len(q) - 1) : msg[q[i]].type = "done" <=> msg[q[i + 1]].type = "begin"
      /\ q # <<>> => (msg[q[Len(q)]].type = "done" <=> chpub[c] = NoConn)
  BY DEF BracketedAt, TypeAt
<1> HIDE DEF q
<1>4. /\ \A i \in 1..(Len(q) - 1) : msg'[q[i]].type = "done" <=> msg'[q[i + 1]].type = "begin"
      /\ q # <<>> => (msg'[q[Len(q)]].type = "done" <=> chpub'[c] = NoConn)
  <2>1. \A i \in 1..(Len(q) - 1) : i \in 1..Len(q) /\ i + 1 \in 1..Len(q)
    BY <1>1
  <2>2. q # <<>> => Len(q) \in 1..Len(q)
    BY <1>1
  <2> QED  BY <1>2, <1>3, <2>1, <2>2
<1> QED  BY <1>4 DEF BracketedAt, TypeAt, q

(* A queue that gets the next message of its channel.                        *)
LEMMA BracketAppended ==
  ASSUME TypeOK, NEW k \in Conns, NEW c, NEW m \in MsgBufs, BracketedAt(k, c),
         queue'[k] = Append(queue[k], m),
         \A i \in DOMAIN queue[k] : msg'[queue[k][i]] = msg[queue[k][i]],
         msg'[m].type = "begin" <=> chpub[c] = NoConn,
         msg'[m].type = "done" <=> chpub'[c] = NoConn
  PROVE  BracketedAt(k, c)'
<1> DEFINE q == queue[k]
           new == Append(q, m)
<1>1. /\ Len(q) \in Nat /\ DOMAIN q = 1..Len(q) /\ (Len(q) # 0 => q # <<>>)
      /\ Len(new) = Len(q) + 1
      /\ new[Len(q) + 1] = m
      /\ \A i \in 1..Len(q) : new[i] = q[i]
  BY DEF TypeOK
<1>2. \A i \in 1..Len(q) : msg'[new[i]].type = msg[q[i]].type
  BY <1>1
<1>3. /\ \A i \in 1..(Len(q) - 1) : msg[q[i]].type = "done" <=> msg[q[i + 1]].type = "begin"
      /\ q # <<>> => (msg[q[Len(q)]].type = "done" <=> chpub[c] = NoConn)
  BY DEF BracketedAt, TypeAt
<1> HIDE DEF q, new
<1>4. ASSUME NEW i \in 1..(Len(new) - 1)
      PROVE  msg'[new[i]].type = "done" <=> msg'[new[i + 1]].type = "begin"
  <2>1. CASE i = Len(q)
    <3>1. i \in 1..Len(q) /\ q # <<>> /\ new[i + 1] = m
      BY <1>1, <2>1
    <3> QED  BY <1>2, <1>3, <2>1, <3>1
  <2>2. CASE i # Len(q)
    <3>0. Len(q) \in Nat /\ i \in 1..Len(q)
      BY <1>1, <1>4
    <3>1. i \in 1..(Len(q) - 1) /\ i \in 1..Len(q) /\ i + 1 \in 1..Len(q)
      BY <2>2, <3>0
    <3> QED  BY <1>2, <1>3, <3>1
  <2> QED  BY <2>1, <2>2
<1>5. msg'[new[Len(new)]].type = "done" <=> chpub'[c] = NoConn
  BY <1>1
<1> QED  BY <1>4, <1>5 DEF BracketedAt, TypeAt, q, new

(* A connection plays from one channel at a time.                            *)
LEMMA OneChannel ==
  ASSUME ChannelsMatchConnections
  PROVE  \A k \in Conns, c, e \in Channels : k \in chsubs[c] /\ k \in chsubs[e] => c = e
BY DEF ChannelsMatchConnections, IsSubscriber

(* A broadcast of what comes next on its channel.                            *)
LEMMA BracketBroadcast ==
  ASSUME TypeOK, MessageCountExact, ChannelsMatchConnections, Bracketed, chsubs' = chsubs,
         NEW c \in Channels, NEW type, NEW d, Broadcast(c, type, d),
         \A e \in Channels : e # c => chpub'[e] = chpub[e],
         type = "begin" <=> chpub[c] = NoConn,
         type = "done" <=> chpub'[c] = NoConn
  PROVE  Bracketed'
<1>1. PICK m \in MsgBufs :
        /\ \A k \in Conns : queue'[k] = IF k \in chsubs[c] THEN Append(queue[k], m) ELSE queue[k]
        /\ chsubs[c] # {} => msg'[m] = [type |-> type, body |-> d]
  BY BroadcastEffect
<1>2. \A k \in Conns : \A i \in DOMAIN queue[k] : msg'[queue[k][i]] = msg[queue[k][i]]
  BY BroadcastEffect
<1>3. \A e \in Channels : \A k \in chsubs[e] : k \in Conns /\ BracketedAt(k, e)
  BY DEF Bracketed, BracketedAt, TypeOK
<1>4. ASSUME NEW e \in Channels, NEW k \in chsubs[e] PROVE BracketedAt(k, e)'
  <2>1. k \in Conns /\ BracketedAt(k, e)
    BY <1>3
  <2>2. CASE e = c
    <3>0. k \in chsubs[c]
      BY <1>4, <2>2
    <3>1. msg'[m].type = type /\ queue'[k] = Append(queue[k], m)
      <4>1. chsubs[c] # {}
        BY <3>0
      <4>2. msg'[m] = [type |-> type, body |-> d]
        BY <1>1, <4>1
      <4>3. msg'[m].type = type
        BY <4>2
      <4>4. queue'[k] = Append(queue[k], m)
        BY <1>1, <2>1, <3>0
      <4> QED  BY <4>3, <4>4
    <3> QED  BY <1>2, <2>1, <2>2, <3>1, BracketAppended
  <2>3. CASE e # c
    <3>1. k \notin chsubs[c]
      BY <1>4, <2>1, <2>3, OneChannel
    <3> QED  BY <1>1, <1>2, <2>1, <2>3, <3>1, BracketKept
  <2> QED  BY <2>2, <2>3
<1> QED  BY <1>4 DEF Bracketed, BracketedAt

(* A step that keeps publishers, and keeps or empties every queue.           *)
LEMMA BracketFrame ==
  ASSUME TypeOK, Bracketed, chpub' = chpub,
         \A c \in Channels : \A k \in chsubs'[c] :
           /\ k \in Conns
           /\ \/ queue'[k] = <<>>
              \/ /\ k \in chsubs[c] /\ queue'[k] = queue[k]
                 /\ \A i \in DOMAIN queue[k] : msg'[queue[k][i]] = msg[queue[k][i]]
  PROVE  Bracketed'
<1>1. \A c \in Channels : \A k \in chsubs[c] : BracketedAt(k, c)
  BY DEF Bracketed, BracketedAt
<1>2. ASSUME NEW c \in Channels, NEW k \in chsubs'[c] PROVE BracketedAt(k, c)'
  <2>1. CASE queue'[k] = <<>>
    BY <2>1, BracketEmpty
  <2>2. CASE queue'[k] # <<>>
    BY <1>1, <1>2, <2>2, BracketKept
  <2> QED  BY <2>1, <2>2
<1> QED  BY <1>2 DEF Bracketed, BracketedAt

(* Every step keeps publications complete.                                   *)
LEMMA BracketStep ==
  ASSUME SingleRole, IInv, Bracketed, [Next]_vars
  PROVE  Bracketed'
<1> USE DEF IInv, LoopInv, ListInv, TypeInv, Registered, BufferInv
<1>1. \A c \in Channels : \A k \in chsubs[c] : k \in Conns
  BY DEF TypeOK
<1>2. ASSUME UNCHANGED <<queue, msg, chpub, chsubs>> PROVE Bracketed'
  BY <1>1, <1>2, BracketFrame
<1>3. ASSUME NEW l \in Conns, NEW p \in Payloads, PublishMedia(l, p) PROVE Bracketed'
  <2>1. /\ pubchan[l] \in Channels /\ chpub[pubchan[l]] = l /\ l # NoConn
        /\ Broadcast(pubchan[l], "media", body[l])
        /\ chpub' = chpub /\ chsubs' = chsubs
    BY <1>3, SentinelAssumption
       DEF PublishMedia, MessageComplete, RolesOK, ChannelsMatchConnections, IsPublisher, chanVars
  <2> QED  BY <2>1, BracketBroadcast
<1>4. ASSUME NEW l \in Conns, NEW n \in Names, Publish(l, n) PROVE Bracketed'
  <2>1. PICK c \in Channels :
          chpub[c] = NoConn /\ chpub' = [chpub EXCEPT ![c] = l] /\ Broadcast(c, "begin", NoBuf)
    BY <1>4 DEF Publish
  <2>2. chsubs' = chsubs /\ l # NoConn
    BY <1>4, SentinelAssumption DEF Publish
  <2>3. chpub'[c] = l /\ \A e \in Channels : e # c => chpub'[e] = chpub[e]
    BY <2>1 DEF TypeOK
  <2> QED  BY <2>1, <2>2, <2>3, BracketBroadcast
<1>5. ASSUME NEW l \in Conns, RemovePublisher(l) PROVE Bracketed'
  <2>1. PICK c : c = pubchan[l]
    OBVIOUS
  <2>2. /\ chpub' = [chpub EXCEPT ![c] = NoConn] /\ chsubs' = chsubs
        /\ Broadcast(c, "done", NoBuf) /\ l # NoConn
    BY <1>5, <2>1, SentinelAssumption DEF RemovePublisher, Unpublish
  <2>3. c \in Channels /\ chpub[c] = l
    BY <1>5, <2>1 DEF RemovePublisher, RolesOK, ChannelsMatchConnections, IsPublisher, FreeIdle
  <2>4. chpub'[c] = NoConn /\ \A e \in Channels : e # c => chpub'[e] = chpub[e]
    BY <2>2, <2>3 DEF TypeOK
  <2> QED  BY <2>2, <2>3, <2>4, BracketBroadcast
<1>6. ASSUME NEW l \in Conns, NEW n \in Names, Play(l, n) PROVE Bracketed'
  <2>1. PICK c \in Channels : chsubs' = [chsubs EXCEPT ![c] = chsubs[c] \cup {l}]
    BY <1>6 DEF Play
  <2>2. chpub' = chpub /\ msg' = msg /\ \A k \in Conns : queue'[k] = IF k = l THEN <<>> ELSE queue[k]
    BY <1>6 DEF Play, TypeOK
  <2>3. \A e \in Channels : \A k \in chsubs'[e] : k \in Conns /\ (k = l \/ k \in chsubs[e])
    BY <1>1, <2>1 DEF TypeOK
  <2> QED  BY <2>2, <2>3, BracketFrame
<1>7. ASSUME NEW l \in Conns, queue' = [queue EXCEPT ![l] = <<>>],
             mref' = UnrefAll(mref, queue[l]), msg' = Contents(msg, mref', FreedMsg),
             chpub' = chpub, \A c \in Channels : chsubs'[c] \subseteq chsubs[c]
      PROVE  Bracketed'
  <2>1. \A k \in Conns : k # l => \A i \in DOMAIN queue[k] : msg'[queue[k][i]] = msg[queue[k][i]]
    BY <1>7, DropEffect
  <2>2. \A k \in Conns : queue'[k] = IF k = l THEN <<>> ELSE queue[k]
    BY <1>7 DEF TypeOK
  <2>3. \A c \in Channels : \A k \in chsubs'[c] : k \in Conns /\ k \in chsubs[c]
    BY <1>1, <1>7
  <2> QED  BY <1>7, <2>1, <2>2, <2>3, BracketFrame
<1>8. ASSUME NEW l \in Conns, Deliver(l) PROVE Bracketed'
  BY <1>7, <1>8 DEF Deliver, chanVars
<1>9. ASSUME NEW l \in Conns, RemoveSubscriber(l) PROVE Bracketed'
  <2>1. DestroyQueue(l) /\ chpub' = chpub /\ chsubs' = [chsubs EXCEPT ![subchan[l]] = @ \ {l}]
    BY <1>9 DEF RemoveSubscriber, Unsubscribe
  <2>2. \A c \in Channels : chsubs'[c] \subseteq chsubs[c]
    BY <2>1 DEF TypeOK
  <2> QED  BY <1>7, <2>1, <2>2 DEF DestroyQueue
<1>10. ASSUME NEW l \in Conns, Message(l) PROVE Bracketed'
  <2>1. ASSUME IgnoreMessage(l) \/ \E n \in Names : RejectPublish(l, n) PROVE Bracketed'
    BY <1>2, <2>1 DEF IgnoreMessage, RejectPublish, chanVars
  <2> QED  BY <1>3, <1>4, <1>6, <1>10, <2>1 DEF Message
<1>11. ASSUME NEW l \in Conns, FinishClient(l) PROVE Bracketed'
  <2>1. ASSUME RemoveUndecided(l) PROVE Bracketed'
    BY <1>2, <2>1 DEF RemoveUndecided, chanVars
  <2> QED  BY <1>5, <1>9, <1>11, <2>1 DEF FinishClient
<1>12. ASSUME NEW l \in Conns, NewConn(l) \/ ReadHeader(l) \/ Hangup(l) \/ FinishLatch(l)
       PROVE  Bracketed'
  BY <1>2, <1>12 DEF NewConn, ReadHeader, Hangup, FinishLatch, slabVars, chanVars
<1>13. ASSUME EndPoll \/ Stop \/ UNCHANGED vars PROVE Bracketed'
  BY <1>2, <1>13 DEF EndPoll, Stop, vars, connVars, slabVars, chanVars
<1> QED  BY <1>8, <1>10, <1>11, <1>12, <1>13 DEF Next, LoopDone

(* Nothing is bracketed at the start.                                        *)
LEMMA BracketInit == Init => Bracketed
BY DEF Init, Bracketed

(* What a subscriber reads is a sequence of complete publications.           *)
THEOREM PublicationsComplete ==
  ASSUME SingleRole
  PROVE  Spec => []Bracketed
<1>1. IInv /\ [Next]_vars => IInv'
  BY IInvStep
<1>2. IInv /\ Bracketed /\ [Next]_vars => Bracketed'
  BY BracketStep
<1> QED  BY <1>1, <1>2, IInvInit, BracketInit, PTL DEF Spec

=============================================================================
