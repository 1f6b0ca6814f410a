--------------------------- MODULE RtmpLoopProofs ---------------------------
(***************************************************************************)
(* Proofs about the connections, the channels, the latches and the shared  *)
(* buffers of the RTMP thread, for any number of each and of names.        *)
(***************************************************************************)
EXTENDS RtmpLoop, FiniteSetTheorems, TLAPS

-----------------------------------------------------------------------------
(* What the operators of Slab return, for pools of any size                  *)

(* The buffer that an allocation returns belongs to the pool and was free.   *)
LEMMA FirstFreeIsFree ==
  ASSUME NEW B, NEW pool \in [B -> Nat], NEW b \in FirstFree(pool)
  PROVE  b \in B /\ pool[b] = 0
BY DEF FirstFree

(* Alloc keeps the types.                                                    *)
LEMMA AllocType ==
  ASSUME NEW B, NEW pool \in [B -> Nat], NEW b \in B
  PROVE  Alloc(pool, b) \in [B -> Nat]
BY DEF Alloc

(* Ref keeps the types.                                                      *)
LEMMA RefType ==
  ASSUME NEW B, NEW pool \in [B -> Nat], NEW b, NEW n \in Nat
  PROVE  Ref(pool, b, n) \in [B -> Nat]
BY DEF Ref

(* Unref keeps the types.                                                    *)
LEMMA UnrefType ==
  ASSUME NEW B, NEW pool \in [B -> Nat], NEW b
  PROVE  Unref(pool, b) \in [B -> Nat]
BY DEF Unref

(* A finite sequence holds a buffer a natural number of times.               *)
LEMMA OccurrencesType ==
  ASSUME NEW s, NEW n \in Nat, DOMAIN s = 1..n, NEW b
  PROVE  Occurrences(s, b) \in Nat
<1>1. IsFiniteSet(1..n)
  BY FS_Interval
<1>2. IsFiniteSet({i \in DOMAIN s : s[i] = b})
  BY <1>1, FS_Subset
<1>3. QED
  BY <1>2, FS_CardinalityType DEF Occurrences

(* Releasing a sequence of buffers never takes a count below zero.           *)
LEMMA UnrefAllType ==
  ASSUME NEW B, NEW pool \in [B -> Nat], NEW s, NEW n \in Nat, DOMAIN s = 1..n
  PROVE  UnrefAll(pool, s) \in [B -> Nat]
<1> SUFFICES ASSUME NEW b \in B
             PROVE  (IF pool[b] < Occurrences(s, b) THEN 0 ELSE pool[b] - Occurrences(s, b)) \in Nat
  BY DEF UnrefAll
<1>1. Occurrences(s, b) \in Nat
  BY OccurrencesType
<1>2. QED
  BY <1>1

(* Contents keeps the types.                                                 *)
LEMMA ContentsType ==
  ASSUME NEW B, NEW D, NEW data \in [B -> D], NEW pool, NEW garbage \in D
  PROVE  Contents(data, pool, garbage) \in [B -> D]
BY DEF Contents

-----------------------------------------------------------------------------
(* Types                                                                     *)

(* A client with a role has a channel.                                       *)
RolesOK ==
  \A l \in Conns :
    /\ kind[l] = "publisher"  => pubchan[l] \in Channels
    /\ kind[l] = "subscriber" => subchan[l] \in Channels

TypeInv == TypeOK /\ RolesOK

(* The subscribers of a channel are finitely many.                           *)
LEMMA SubscriberCount ==
  ASSUME TypeOK, NEW c \in Channels
  PROVE  Cardinality(chsubs[c]) \in Nat
<1>1. chsubs[c] \in SUBSET Conns
  BY DEF TypeOK
<1>2. QED
  BY <1>1, FiniteAssumption, FS_Subset, FS_CardinalityType

(* Finding or creating a channel keeps the types.                            *)
LEMMA FindOrCreateType ==
  ASSUME TypeOK, NEW n \in Names, NEW c \in Channels, FindOrCreate(n, c)
  PROVE  /\ channels' \in [Names -> Channels \cup {NoChan}]
         /\ chname' \in [Channels -> Names \cup {NoName}]
BY DEF TypeOK, FindOrCreate

(* RemoveChannel keeps the types.                                            *)
LEMMA RemoveChannelType ==
  ASSUME TypeOK, NEW c, RemoveChannel(c) \/ KeepChannel
  PROVE  /\ channels' \in [Names -> Channels \cup {NoChan}]
         /\ chname' \in [Channels -> Names \cup {NoName}]
BY DEF TypeOK, RemoveChannel, KeepChannel

(* Broadcast keeps the types.                                                *)
LEMMA BroadcastType ==
  ASSUME TypeOK,
         NEW c \in Channels, NEW type \in MsgTypes, NEW d \in BodyBufs \cup {NoBuf},
         Broadcast(c, type, d)
  PROVE  /\ mref' \in [MsgBufs -> Nat]
         /\ msg' \in [MsgBufs -> [type : MsgTypes \cup {"freed"}, body : BodyBufs \cup {NoBuf}]]
         /\ queue' \in [Conns -> Seq(MsgBufs)]
         /\ pending' \in [Conns -> BOOLEAN]
<1> DEFINE Msg == [type : MsgTypes \cup {"freed"}, body : BodyBufs \cup {NoBuf}]
<1>1. PICK m \in FirstFree(mref) :
        /\ mref' = Unref(Ref(Alloc(mref, m), m, Cardinality(chsubs[c])), m)
        /\ msg' = Contents([msg EXCEPT ![m] = [type |-> type, body |-> d]], mref', FreedMsg)
        /\ Enqueue(c, m) /\ Wake(c)
  BY DEF Broadcast
<1>2. mref \in [MsgBufs -> Nat] /\ m \in MsgBufs
  BY FirstFreeIsFree DEF TypeOK
<1>3. mref' \in [MsgBufs -> Nat]
  BY <1>1, <1>2, SubscriberCount, AllocType, RefType, UnrefType
<1>4. msg' \in [MsgBufs -> Msg]
  <2>1. [msg EXCEPT ![m] = [type |-> type, body |-> d]] \in [MsgBufs -> Msg]
    BY DEF TypeOK
  <2>2. FreedMsg \in Msg
    BY DEF FreedMsg
  <2>3. QED
    BY <1>1, <2>1, <2>2, ContentsType
<1>5. queue' \in [Conns -> Seq(MsgBufs)]
  BY <1>1, <1>2 DEF Enqueue, TypeOK
<1>6. pending' \in [Conns -> BOOLEAN]
  BY <1>1 DEF Wake, TypeOK
<1>7. QED
  BY <1>3, <1>4, <1>5, <1>6

(* ReleaseBody keeps the types.                                              *)
LEMMA ReleaseBodyType ==
  ASSUME TypeOK, NEW l \in Conns, ReleaseBody(l)
  PROVE  /\ body' \in [Conns -> BodyBufs \cup {NoBuf}]
         /\ bref' \in [BodyBufs -> Nat]
         /\ bdata' \in [BodyBufs -> Payloads \cup {Garbage}]
<1>1. body' \in [Conns -> BodyBufs \cup {NoBuf}]
  BY DEF TypeOK, ReleaseBody, DropBody
<1>2. bref' \in [BodyBufs -> Nat]
  BY UnrefType DEF TypeOK, ReleaseBody
<1>3. bdata' \in [BodyBufs -> Payloads \cup {Garbage}]
  BY ContentsType DEF TypeOK, ReleaseBody
<1>4. QED
  BY <1>1, <1>2, <1>3

(* DestroyQueue keeps the types.                                             *)
LEMMA DestroyQueueType ==
  ASSUME TypeOK, NEW l \in Conns, DestroyQueue(l)
  PROVE  /\ mref' \in [MsgBufs -> Nat]
         /\ msg' \in [MsgBufs -> [type : MsgTypes \cup {"freed"}, body : BodyBufs \cup {NoBuf}]]
         /\ orphaned' \in [BodyBufs -> Nat]
         /\ queue' \in [Conns -> Seq(MsgBufs)]
<1>1. queue[l] \in Seq(MsgBufs) /\ Len(queue[l]) \in Nat /\ DOMAIN queue[l] = 1..Len(queue[l])
  BY DEF TypeOK
<1>2. DOMAIN BodiesOf(queue[l]) = 1..Len(queue[l])
  BY <1>1 DEF BodiesOf
<1>3. mref' \in [MsgBufs -> Nat]
  BY <1>1, UnrefAllType DEF DestroyQueue, TypeOK
<1>4. msg' \in [MsgBufs -> [type : MsgTypes \cup {"freed"}, body : BodyBufs \cup {NoBuf}]]
  BY ContentsType DEF DestroyQueue, TypeOK, FreedMsg
<1>5. ASSUME NEW d \in BodyBufs PROVE Occurrences(BodiesOf(queue[l]), d) \in Nat
  BY <1>1, <1>2, OccurrencesType
<1>6. orphaned' \in [BodyBufs -> Nat]
  BY <1>5 DEF DestroyQueue, TypeOK
<1>7. queue' \in [Conns -> Seq(MsgBufs)]
  BY DEF DestroyQueue, TypeOK
<1>8. QED
  BY <1>3, <1>4, <1>6, <1>7

(* FreeConn keeps the types.                                                 *)
LEMMA FreeConnType ==
  ASSUME TypeInv, NEW l \in Conns, FreeConn(l)
  PROVE  /\ conn' \in [Conns -> ConnStates]
         /\ kind' \in [Conns -> Kinds]
         /\ pubchan' \in [Conns -> Channels \cup {NoChan}]
         /\ subchan' \in [Conns -> Channels \cup {NoChan}]
         /\ body' \in [Conns -> BodyBufs \cup {NoBuf}]
         /\ clients' \in SUBSET Conns
         /\ bref' \in [BodyBufs -> Nat]
         /\ bdata' \in [BodyBufs -> Payloads \cup {Garbage}]
         /\ sendLost' \in BOOLEAN
         /\ running' \in BOOLEAN
         /\ endClients' \in SUBSET Conns
         /\ endLatches' \in SUBSET Conns
         /\ RolesOK'
<1>1. TypeOK /\ ReleaseBody(l)
  BY DEF TypeInv, FreeConn
<1>2. /\ body' \in [Conns -> BodyBufs \cup {NoBuf}]
      /\ bref' \in [BodyBufs -> Nat]
      /\ bdata' \in [BodyBufs -> Payloads \cup {Garbage}]
  BY <1>1, ReleaseBodyType
<1>3. RolesOK'
  BY DEF TypeInv, TypeOK, RolesOK, FreeConn, Kinds
<1>4. QED
  BY <1>1, <1>2, <1>3 DEF FreeConn, TypeOK, ConnStates, Kinds

(* The types at the start.                                                   *)
LEMMA TypeInit == Init => TypeInv
<1> SUFFICES ASSUME Init PROVE TypeInv
  OBVIOUS
<1> USE DEF Init
<1>1. TypeOK
  <2>1. FreedMsg \in [type : MsgTypes \cup {"freed"}, body : BodyBufs \cup {NoBuf}]
    BY DEF FreedMsg
  <2>2. <<>> \in Seq(MsgBufs)
    OBVIOUS
  <2>3. QED
    BY <2>1, <2>2 DEF TypeOK, ConnStates, Kinds, LatchStates
<1>2. RolesOK
  BY DEF RolesOK
<1>3. QED
  BY <1>1, <1>2 DEF TypeInv

(* Every step keeps the types.                                               *)
LEMMA TypeStep == TypeInv /\ [Next]_vars => TypeInv'
<1> SUFFICES ASSUME TypeInv, [Next]_vars PROVE TypeInv'
  OBVIOUS
<1> USE DEF TypeInv
<1>1. ASSUME NEW l \in Conns, NewConn(l) PROVE TypeInv'
  BY <1>1 DEF NewConn, DropBody, TypeOK, RolesOK, ConnStates, Kinds, chanVars, slabVars, loopVars
<1>2. ASSUME NEW l \in Conns, ReadHeader(l) PROVE TypeInv'
  <2>1. PICK d \in FirstFree(bref) :
          body' = [body EXCEPT ![l] = d] /\ bref' = Alloc(bref, d)
    BY <1>2 DEF ReadHeader
  <2>2. d \in BodyBufs /\ bref' \in [BodyBufs -> Nat]
    BY <2>1, FirstFreeIsFree, AllocType DEF TypeOK
  <2>3. QED
    BY <1>2, <2>1, <2>2 DEF ReadHeader, TypeOK, RolesOK, chanVars, loopVars
<1>3. ASSUME NEW l \in Conns, NEW p \in Payloads, PublishMedia(l, p) PROVE TypeInv'
  <2> DEFINE c == pubchan[l]
  <2>1. c \in Channels /\ body[l] \in BodyBufs \cup {NoBuf}
    BY <1>3 DEF PublishMedia, TypeOK, RolesOK
  <2>2. /\ mref' \in [MsgBufs -> Nat]
        /\ msg' \in [MsgBufs -> [type : MsgTypes \cup {"freed"}, body : BodyBufs \cup {NoBuf}]]
        /\ queue' \in [Conns -> Seq(MsgBufs)]
        /\ pending' \in [Conns -> BOOLEAN]
    BY <1>3, <2>1, BroadcastType DEF PublishMedia, MsgTypes
  <2>3. bref' \in [BodyBufs -> Nat]
    <3>1. SharedBody(c, body[l]) \in [BodyBufs -> Nat]
      BY <2>1, SubscriberCount, RefType DEF SharedBody, TypeOK
    <3>2. QED
      BY <1>3, <3>1, UnrefType DEF PublishMedia
  <2>4. bdata' \in [BodyBufs -> Payloads \cup {Garbage}]
    <3> DEFINE filled == [bdata EXCEPT ![body[l]] = p]
    <3>1. filled \in [BodyBufs -> Payloads \cup {Garbage}]
      BY DEF TypeOK
    <3>2. bdata' = Contents(filled, bref', Garbage)
      BY <1>3 DEF PublishMedia
    <3> HIDE DEF filled
    <3>3. QED
      BY <3>1, <3>2, ContentsType
  <2>5. QED
    BY <1>3, <2>2, <2>3, <2>4 DEF PublishMedia, DropBody, TypeOK, RolesOK, chanVars, loopVars
<1>4. ASSUME NEW l \in Conns, IgnoreMessage(l) PROVE TypeInv'
  BY <1>4, ReleaseBodyType DEF IgnoreMessage, TypeOK, RolesOK, chanVars, loopVars
<1>5. ASSUME NEW l \in Conns, NEW n \in Names, Publish(l, n) PROVE TypeInv'
  <2>1. PICK c \in Channels :
          /\ FindOrCreate(n, c)
          /\ kind' = [kind EXCEPT ![l] = "publisher"]
          /\ pubchan' = [pubchan EXCEPT ![l] = c]
          /\ chpub' = [chpub EXCEPT ![c] = l]
          /\ Broadcast(c, "begin", NoBuf)
    BY <1>5 DEF Publish
  <2>2. /\ mref' \in [MsgBufs -> Nat]
        /\ msg' \in [MsgBufs -> [type : MsgTypes \cup {"freed"}, body : BodyBufs \cup {NoBuf}]]
        /\ queue' \in [Conns -> Seq(MsgBufs)]
        /\ pending' \in [Conns -> BOOLEAN]
    BY <2>1, BroadcastType DEF MsgTypes
  <2>3. /\ channels' \in [Names -> Channels \cup {NoChan}]
        /\ chname' \in [Channels -> Names \cup {NoName}]
    BY <2>1, FindOrCreateType
  <2>4. /\ body' \in [Conns -> BodyBufs \cup {NoBuf}]
        /\ bref' \in [BodyBufs -> Nat]
        /\ bdata' \in [BodyBufs -> Payloads \cup {Garbage}]
    BY <1>5, ReleaseBodyType DEF Publish
  <2>5. QED
    BY <1>5, <2>1, <2>2, <2>3, <2>4 DEF Publish, TypeOK, RolesOK, Kinds, loopVars
<1>6. ASSUME NEW l \in Conns, NEW n \in Names, RejectPublish(l, n) PROVE TypeInv'
  BY <1>6, ReleaseBodyType
  DEF RejectPublish, Disconnect, TypeOK, RolesOK, ConnStates, chanVars, loopVars
<1>7. ASSUME NEW l \in Conns, NEW n \in Names, Play(l, n) PROVE TypeInv'
  <2>1. PICK c \in Channels :
          /\ FindOrCreate(n, c)
          /\ subchan' = [subchan EXCEPT ![l] = c]
          /\ chsubs' = [chsubs EXCEPT ![c] = @ \cup {l}]
    BY <1>7 DEF Play
  <2>2. /\ channels' \in [Names -> Channels \cup {NoChan}]
        /\ chname' \in [Channels -> Names \cup {NoName}]
    BY <2>1, FindOrCreateType
  <2>3. /\ body' \in [Conns -> BodyBufs \cup {NoBuf}]
        /\ bref' \in [BodyBufs -> Nat]
        /\ bdata' \in [BodyBufs -> Payloads \cup {Garbage}]
    BY <1>7, ReleaseBodyType DEF Play
  <2>4. chsubs' \in [Channels -> SUBSET Conns]
    BY <2>1 DEF TypeOK
  <2>5. queue' \in [Conns -> Seq(MsgBufs)] /\ latch' \in [Conns -> LatchStates]
    BY <1>7 DEF Play, TypeOK, LatchStates
  <2>6. subchan' \in [Conns -> Channels \cup {NoChan}] /\ kind' \in [Conns -> Kinds] /\ RolesOK'
    BY <1>7, <2>1 DEF Play, TypeOK, RolesOK, Kinds
  <2>7. QED
    BY <1>7, <2>2, <2>3, <2>4, <2>5, <2>6 DEF Play, TypeOK, loopVars
<1>8. ASSUME NEW l \in Conns, Deliver(l) PROVE TypeInv'
  <2>1. queue[l] \in Seq(MsgBufs) /\ Len(queue[l]) \in Nat /\ DOMAIN queue[l] = 1..Len(queue[l])
    BY DEF TypeOK
  <2>2. DOMAIN BodiesOf(queue[l]) = 1..Len(queue[l])
    BY <2>1 DEF BodiesOf
  <2>3. mref' \in [MsgBufs -> Nat] /\ bref' \in [BodyBufs -> Nat]
    BY <1>8, <2>1, <2>2, UnrefAllType DEF Deliver, TypeOK
  <2>4. msg' \in [MsgBufs -> [type : MsgTypes \cup {"freed"}, body : BodyBufs \cup {NoBuf}]]
    BY <1>8, ContentsType DEF Deliver, TypeOK, FreedMsg
  <2>5. bdata' \in [BodyBufs -> Payloads \cup {Garbage}]
    BY <1>8, ContentsType DEF Deliver, TypeOK
  <2>6. sendLost' \in BOOLEAN
    BY <1>8 DEF Deliver, TypeOK
  <2>7. QED
    BY <1>8, <2>3, <2>4, <2>5, <2>6 DEF Deliver, TypeOK, RolesOK, chanVars, loopVars
<1>9. ASSUME NEW l \in Conns, Hangup(l) PROVE TypeInv'
  BY <1>9 DEF Hangup, Disconnect, TypeOK, RolesOK, ConnStates, chanVars, slabVars, loopVars
<1>10. ASSUME NEW l \in Conns, RemoveUndecided(l) PROVE TypeInv'
  BY <1>10, FreeConnType DEF RemoveUndecided, TypeOK, chanVars
<1>11. ASSUME NEW l \in Conns, RemovePublisher(l) PROVE TypeInv'
  <2> DEFINE c == pubchan[l]
  <2>1. c \in Channels
    BY <1>11 DEF RemovePublisher, RolesOK
  <2>2. chpub' = [chpub EXCEPT ![c] = NoConn] /\ Broadcast(c, "done", NoBuf)
    BY <1>11 DEF RemovePublisher, Unpublish
  <2>3. /\ mref' \in [MsgBufs -> Nat]
        /\ msg' \in [MsgBufs -> [type : MsgTypes \cup {"freed"}, body : BodyBufs \cup {NoBuf}]]
        /\ queue' \in [Conns -> Seq(MsgBufs)]
        /\ pending' \in [Conns -> BOOLEAN]
    BY <2>1, <2>2, BroadcastType DEF MsgTypes
  <2>4. /\ channels' \in [Names -> Channels \cup {NoChan}]
        /\ chname' \in [Channels -> Names \cup {NoName}]
    BY <1>11, <2>1, RemoveChannelType DEF RemovePublisher
  <2>5. FreeConn(l)
    BY <1>11 DEF RemovePublisher
  <2>6. QED
    BY <1>11, <2>2, <2>3, <2>4, <2>5, FreeConnType DEF RemovePublisher, TypeOK
<1>12. ASSUME NEW l \in Conns, RemoveSubscriber(l) PROVE TypeInv'
  <2> DEFINE c == subchan[l]
  <2>1. /\ DestroyQueue(l)
        /\ pending' = [pending EXCEPT ![l] = FALSE]
        /\ latch' = [latch EXCEPT ![l] = "closing"]
    BY <1>12 DEF RemoveSubscriber, Unsubscribe
  <2>2. /\ channels' \in [Names -> Channels \cup {NoChan}]
        /\ chname' \in [Channels -> Names \cup {NoName}]
    BY <1>12, RemoveChannelType DEF RemoveSubscriber
  <2>3. FreeConn(l)
    BY <1>12 DEF RemoveSubscriber
  <2>4. chsubs' \in [Channels -> SUBSET Conns]
    BY <1>12 DEF RemoveSubscriber, TypeOK
  <2>5. QED
    BY <1>12, <2>1, <2>2, <2>3, <2>4, DestroyQueueType, FreeConnType
    DEF RemoveSubscriber, TypeOK, LatchStates
<1>13. ASSUME NEW l \in Conns, FinishLatch(l) PROVE TypeInv'
  BY <1>13 DEF FinishLatch, TypeOK, RolesOK, LatchStates, chanVars, slabVars
<1>14. ASSUME EndPoll PROVE TypeInv'
  BY <1>14 DEF EndPoll, TypeOK, RolesOK, ConnStates, chanVars, slabVars
<1>15. ASSUME Stop PROVE TypeInv'
  BY <1>15 DEF Stop, DisconnectAll, TypeOK, RolesOK, ConnStates, chanVars, slabVars
<1>16. ASSUME UNCHANGED vars PROVE TypeInv'
  BY <1>16 DEF vars, connVars, chanVars, slabVars, loopVars, TypeOK, RolesOK
<1>17. CASE Next
  BY <1>17, <1>1, <1>2, <1>3, <1>4, <1>5, <1>6, <1>7, <1>8, <1>9, <1>10, <1>11, <1>12,
     <1>13, <1>14, <1>15, <1>16 DEF Next, Message, FinishClient, LoopDone
<1>18. QED
  BY <1>16, <1>17

(* Every variable keeps its type, for any number of connections, channels    *)
(* and buffers: in particular no reference count goes below zero.            *)
THEOREM Typing == Spec => []TypeOK
<1>1. TypeInv => TypeOK
  BY DEF TypeInv
<1>2. QED
  BY <1>1, TypeInit, TypeStep, PTL DEF Spec

-----------------------------------------------------------------------------
(* STOP and the list of clients                                              *)

(* The closing phase finishes only handles that were closed.                 *)
Finishing == \A l \in endClients : conn[l] = "closing"

ListInv == TypeInv /\ StopReachesAll /\ Finishing

(* The list of clients at the start.                                         *)
LEMMA ListInit == Init => ListInv
<1> SUFFICES ASSUME Init PROVE ListInv
  OBVIOUS
<1>1. StopReachesAll /\ Finishing
  BY DEF Init, StopReachesAll, Finishing
<1>2. QED
  BY <1>1, TypeInit DEF ListInv

(* Every step keeps the list of clients.                                     *)
LEMMA ListStep == ListInv /\ [Next]_vars => ListInv'
<1> SUFFICES ASSUME ListInv, [Next]_vars PROVE StopReachesAll' /\ Finishing'
  BY TypeStep DEF ListInv
<1> USE DEF ListInv, TypeInv
<1>1. ASSUME UNCHANGED <<conn, clients, running, endClients>>
      PROVE  StopReachesAll' /\ Finishing'
  BY <1>1 DEF StopReachesAll, Finishing
<1>2. ASSUME NEW l \in Conns, NewConn(l) PROVE StopReachesAll' /\ Finishing'
  BY <1>2 DEF NewConn, Polling, StopReachesAll, Finishing, TypeOK, loopVars
<1>3. ASSUME NEW l \in Conns, conn[l] = "open", Polling, Disconnect(l),
             UNCHANGED <<clients, running, endClients>>
      PROVE  StopReachesAll' /\ Finishing'
  BY <1>3 DEF Disconnect, Polling, StopReachesAll, Finishing, TypeOK
<1>4. ASSUME NEW l \in Conns, l \in endClients, FreeConn(l) PROVE StopReachesAll' /\ Finishing'
  BY <1>4 DEF FreeConn, StopReachesAll, Finishing, TypeOK
<1>5. ASSUME EndPoll PROVE StopReachesAll' /\ Finishing'
  <2>1. running' = running /\ clients' = clients
    BY <1>5 DEF EndPoll
  <2>2. conn' = [l \in Conns |-> IF conn[l] = "new" THEN "open" ELSE conn[l]]
    BY <1>5 DEF EndPoll
  <2>3. Finishing'
    BY <1>5, <2>2 DEF EndPoll, Finishing
  <2>4. StopReachesAll'
    BY <2>1, <2>2 DEF StopReachesAll
  <2>5. QED
    BY <2>3, <2>4
<1>6. ASSUME Stop PROVE StopReachesAll' /\ Finishing'
  BY <1>6 DEF Stop, DisconnectAll, Polling, StopReachesAll, Finishing, TypeOK
<1>7. CASE UNCHANGED vars
  BY <1>1, <1>7 DEF vars, connVars, loopVars
<1>8. CASE Next
  <2>1. ASSUME NEW l \in Conns, Message(l) PROVE StopReachesAll' /\ Finishing'
    BY <2>1, <1>1, <1>3
    DEF Message, PublishMedia, IgnoreMessage, Publish, RejectPublish, Play, MessageComplete, loopVars
  <2>2. ASSUME NEW l \in Conns, FinishClient(l) PROVE StopReachesAll' /\ Finishing'
    BY <2>2, <1>4 DEF FinishClient, RemoveUndecided, RemovePublisher, RemoveSubscriber
  <2>3. ASSUME NEW l \in Conns, ReadHeader(l) \/ Deliver(l) \/ FinishLatch(l)
        PROVE  StopReachesAll' /\ Finishing'
    BY <2>3, <1>1 DEF ReadHeader, Deliver, FinishLatch, loopVars
  <2>4. ASSUME NEW l \in Conns, Hangup(l) PROVE StopReachesAll' /\ Finishing'
    BY <2>4, <1>3 DEF Hangup, loopVars
  <2>5. CASE LoopDone
    BY <2>5, <1>7 DEF LoopDone
  <2>6. QED
    BY <1>8, <1>2, <1>5, <1>6, <2>1, <2>2, <2>3, <2>4, <2>5 DEF Next
<1>9. QED
  BY <1>7, <1>8

(* While the loop runs the list of clients is exact, so that STOP closes     *)
(* every connection there is, and none appears after it.                     *)
THEOREM StopIsComplete == Spec => []StopReachesAll
<1>1. ListInv => StopReachesAll
  BY DEF ListInv
<1>2. QED
  BY <1>1, ListInit, ListStep, PTL DEF Spec

-----------------------------------------------------------------------------
(* Connections, channels and the channel map                                 *)

(* Memory that is not in use plays no role.                                  *)
FreeIdle == \A l \in Conns : conn[l] = "free" => kind[l] = "undecided"

Registered == FreeIdle /\ ChannelsMatchConnections /\ MapExact

(* The pointers at the start.                                                *)
LEMMA RegisteredInit == Init => Registered
<1> SUFFICES ASSUME Init PROVE Registered
  OBVIOUS
<1>1. FreeIdle
  BY DEF Init, FreeIdle
<1>2. ChannelsMatchConnections
  BY SentinelAssumption DEF Init, ChannelsMatchConnections, IsPublisher, IsSubscriber
<1>3. MapExact
  BY DEF Init, MapExact
<1>4. QED
  BY <1>1, <1>2, <1>3 DEF Registered

(* What a step that neither registers nor frees anybody preserves.           *)
LEMMA RegisteredFrame ==
  ASSUME Registered,
         UNCHANGED <<kind, pubchan, subchan, chanVars>>,
         \A l \in Conns : conn'[l] = "free" <=> conn[l] = "free"
  PROVE  Registered'
<1>1. FreeIdle'
  BY DEF Registered, FreeIdle
<1>2. ChannelsMatchConnections'
  BY DEF Registered, ChannelsMatchConnections, IsPublisher, IsSubscriber, chanVars
<1>3. MapExact'
  BY DEF Registered, MapExact, chanVars
<1>4. QED
  BY <1>1, <1>2, <1>3 DEF Registered

(* The channel that a command finds or creates becomes the one registered    *)
(* under its name.                                                           *)
LEMMA FindOrCreateMap ==
  ASSUME TypeOK, MapExact, NEW n \in Names, NEW c \in Channels, FindOrCreate(n, c),
         \A e \in Channels : e # c => /\ chpub'[e] = chpub[e]
                                      /\ chsubs'[e] = chsubs[e],
         chpub'[c] # NoConn \/ chsubs'[c] # {}
  PROVE  MapExact'
<1>1. CASE channels[n] # NoChan
  <2>1. c = channels[n] /\ channels' = channels /\ chname' = chname
    BY <1>1 DEF FindOrCreate
  <2>2. chname[c] = n /\ n # NoName
    BY <1>1, <2>1, SentinelAssumption DEF MapExact
  <2>3. QED
    BY <2>1, <2>2 DEF MapExact
<1>2. CASE channels[n] = NoChan
  <2>1. /\ chname[c] = NoName
        /\ channels' = [channels EXCEPT ![n] = c]
        /\ chname' = [chname EXCEPT ![c] = n]
    BY <1>2 DEF FindOrCreate
  <2>2. \A m \in Names : channels'[m] # NoChan => chname'[channels'[m]] = m
    BY <2>1, SentinelAssumption DEF MapExact, TypeOK
  <2>3. chname'[c] # NoName /\ channels'[chname'[c]] = c
    BY <2>1, SentinelAssumption DEF TypeOK
  <2>4. ASSUME NEW e \in Channels, e # c
        PROVE  IF chpub'[e] = NoConn /\ chsubs'[e] = {}
               THEN chname'[e] = NoName
               ELSE chname'[e] # NoName /\ channels'[chname'[e]] = e
    BY <2>1, <2>4, <1>2, SentinelAssumption DEF MapExact, TypeOK
  <2>5. QED
    BY <2>2, <2>3, <2>4 DEF MapExact
<1>3. QED
  BY <1>1, <1>2

(* A channel goes exactly when its last user leaves.                         *)
LEMMA LeaveMap ==
  ASSUME TypeOK, MapExact, NEW c \in Channels,
         chpub[c] # NoConn \/ chsubs[c] # {},
         \A e \in Channels : e # c => /\ chpub'[e] = chpub[e]
                                      /\ chsubs'[e] = chsubs[e],
         IF chpub'[c] = NoConn /\ chsubs'[c] = {} THEN RemoveChannel(c) ELSE KeepChannel
  PROVE  MapExact'
<1>1. chname[c] # NoName /\ channels[chname[c]] = c
  BY DEF MapExact
<1>2. CASE chpub'[c] = NoConn /\ chsubs'[c] = {}
  <2>1. /\ channels' = [channels EXCEPT ![chname[c]] = NoChan]
        /\ chname' = [chname EXCEPT ![c] = NoName]
    BY <1>2 DEF RemoveChannel
  <2>2. ASSUME NEW m \in Names, channels'[m] # NoChan PROVE chname'[channels'[m]] = m
    BY <1>1, <2>1, <2>2, SentinelAssumption DEF MapExact, TypeOK
  <2>3. ASSUME NEW e \in Channels, e # c
        PROVE  IF chpub'[e] = NoConn /\ chsubs'[e] = {}
               THEN chname'[e] = NoName
               ELSE chname'[e] # NoName /\ channels'[chname'[e]] = e
    BY <1>1, <2>1, <2>3 DEF MapExact, TypeOK
  <2>4. chname'[c] = NoName
    BY <2>1 DEF TypeOK
  <2>5. QED
    BY <1>2, <2>2, <2>3, <2>4 DEF MapExact
<1>3. CASE ~(chpub'[c] = NoConn /\ chsubs'[c] = {})
  BY <1>1, <1>3 DEF KeepChannel, MapExact
<1>4. QED
  BY <1>2, <1>3

(* Every step keeps the pointers.                                            *)
LEMMA RegisteredStep ==
  ASSUME SingleRole, ListInv, Registered, [Next]_vars
  PROVE  Registered'
<1> USE DEF ListInv, TypeInv
<1>1. ASSUME NEW l \in Conns, NewConn(l) PROVE Registered'
  <2>1. /\ conn[l] = "free"
        /\ conn' = [conn EXCEPT ![l] = "new"]
        /\ kind' = [kind EXCEPT ![l] = "undecided"]
        /\ UNCHANGED <<pubchan, subchan, chanVars>>
    BY <1>1 DEF NewConn
  <2>2. kind' = kind
    BY <2>1 DEF Registered, FreeIdle, TypeOK
  <2>3. FreeIdle'
    BY <2>1 DEF Registered, FreeIdle, TypeOK
  <2>4. ChannelsMatchConnections'
    BY <2>1, <2>2
    DEF Registered, FreeIdle, ChannelsMatchConnections, IsPublisher, IsSubscriber, TypeOK, chanVars
  <2>5. MapExact'
    BY <2>1 DEF Registered, MapExact, chanVars
  <2>6. QED
    BY <2>3, <2>4, <2>5 DEF Registered
<1>2. ASSUME NEW l \in Conns, NEW n \in Names, Publish(l, n) PROVE Registered'
  <2>1. PICK c \in Channels :
          /\ FindOrCreate(n, c)
          /\ chpub[c] = NoConn
          /\ kind' = [kind EXCEPT ![l] = "publisher"]
          /\ pubchan' = [pubchan EXCEPT ![l] = c]
          /\ chpub' = [chpub EXCEPT ![c] = l]
    BY <1>2 DEF Publish
  <2>2. /\ conn[l] = "open" /\ kind[l] = "undecided"
        /\ UNCHANGED <<conn, subchan, chsubs>>
    BY <1>2 DEF Publish, MessageComplete, MayTakeRole
  <2>3. FreeIdle'
    BY <2>1, <2>2 DEF Registered, FreeIdle, TypeOK
  <2>4. \A k \in Conns, e \in Channels : chpub'[e] = k <=> IsPublisher(k, e)'
    BY <2>1, <2>2, SentinelAssumption
    DEF Registered, ChannelsMatchConnections, IsPublisher, TypeOK
  <2>5. \A k \in Conns, e \in Channels : k \in chsubs'[e] <=> IsSubscriber(k, e)'
    BY <2>1, <2>2 DEF Registered, ChannelsMatchConnections, IsSubscriber, TypeOK
  <2>6. ChannelsMatchConnections'
    BY <2>1, <2>2, <2>4, <2>5 DEF Registered, ChannelsMatchConnections, TypeOK
  <2>7. MapExact'
    BY <2>1, <2>2, FindOrCreateMap, SentinelAssumption DEF Registered, TypeOK
  <2>8. QED
    BY <2>3, <2>6, <2>7 DEF Registered
<1>3. ASSUME NEW l \in Conns, NEW n \in Names, Play(l, n) PROVE Registered'
  <2>1. PICK c \in Channels :
          /\ FindOrCreate(n, c)
          /\ subchan' = [subchan EXCEPT ![l] = c]
          /\ chsubs' = [chsubs EXCEPT ![c] = @ \cup {l}]
    BY <1>3 DEF Play
  <2>2. /\ conn[l] = "open" /\ kind[l] = "undecided"
        /\ kind' = [kind EXCEPT ![l] = "subscriber"]
        /\ UNCHANGED <<conn, pubchan, chpub>>
    BY <1>3 DEF Play, MessageComplete, MayTakeRole
  <2>3. FreeIdle'
    BY <2>2 DEF Registered, FreeIdle, TypeOK
  <2>4. \A k \in Conns, e \in Channels : chpub'[e] = k <=> IsPublisher(k, e)'
    BY <2>2 DEF Registered, ChannelsMatchConnections, IsPublisher, TypeOK
  <2>5. \A k \in Conns, e \in Channels : k \in chsubs'[e] <=> IsSubscriber(k, e)'
    BY <2>1, <2>2 DEF Registered, ChannelsMatchConnections, IsSubscriber, TypeOK
  <2>6. ChannelsMatchConnections'
    BY <2>1, <2>2, <2>4, <2>5 DEF Registered, ChannelsMatchConnections, TypeOK
  <2>7. MapExact'
    BY <2>1, <2>2, FindOrCreateMap DEF Registered, TypeOK
  <2>8. QED
    BY <2>3, <2>6, <2>7 DEF Registered
<1>4. ASSUME NEW l \in Conns, RemoveUndecided(l) PROVE Registered'
  <2>1. /\ kind[l] = "undecided"
        /\ conn' = [conn EXCEPT ![l] = "free"]
        /\ kind' = [kind EXCEPT ![l] = "undecided"]
        /\ pubchan' = [pubchan EXCEPT ![l] = NoChan]
        /\ subchan' = [subchan EXCEPT ![l] = NoChan]
        /\ UNCHANGED chanVars
    BY <1>4 DEF RemoveUndecided, FreeConn
  <2>2. FreeIdle'
    BY <2>1 DEF Registered, FreeIdle, TypeOK
  <2>3. ChannelsMatchConnections'
    BY <2>1
    DEF Registered, ChannelsMatchConnections, IsPublisher, IsSubscriber, TypeOK, chanVars
  <2>4. MapExact'
    BY <2>1 DEF Registered, MapExact, chanVars
  <2>5. QED
    BY <2>2, <2>3, <2>4 DEF Registered
<1>5. ASSUME NEW l \in Conns, RemovePublisher(l) PROVE Registered'
  <2> DEFINE c == pubchan[l]
  <2>1. /\ l \in endClients /\ kind[l] = "publisher"
        /\ chpub' = [chpub EXCEPT ![c] = NoConn]
        /\ chsubs' = chsubs
        /\ IF chsubs[c] = {} THEN RemoveChannel(c) ELSE KeepChannel
        /\ conn' = [conn EXCEPT ![l] = "free"]
        /\ kind' = [kind EXCEPT ![l] = "undecided"]
        /\ pubchan' = [pubchan EXCEPT ![l] = NoChan]
        /\ subchan' = [subchan EXCEPT ![l] = NoChan]
    BY <1>5 DEF RemovePublisher, Unpublish, FreeConn
  <2>2. c \in Channels /\ conn[l] # "free" /\ chpub[c] = l
    BY <2>1 DEF Finishing, RolesOK, Registered, ChannelsMatchConnections, IsPublisher
  <2> HIDE DEF c
  <2>3. FreeIdle'
    BY <2>1 DEF Registered, FreeIdle, TypeOK
  <2>4. \A k \in Conns, e \in Channels : chpub'[e] = k <=> IsPublisher(k, e)'
    BY <2>1, <2>2, SentinelAssumption
    DEF Registered, ChannelsMatchConnections, IsPublisher, TypeOK
  <2>5. \A k \in Conns, e \in Channels : k \in chsubs'[e] <=> IsSubscriber(k, e)'
    BY <2>1 DEF Registered, ChannelsMatchConnections, IsSubscriber, TypeOK
  <2>6. ChannelsMatchConnections'
    BY <2>1, <2>4, <2>5 DEF Registered, ChannelsMatchConnections, TypeOK
  <2>7. MapExact'
    BY <2>1, <2>2, LeaveMap, SentinelAssumption DEF Registered, TypeOK
  <2>8. QED
    BY <2>3, <2>6, <2>7 DEF Registered
<1>6. ASSUME NEW l \in Conns, RemoveSubscriber(l) PROVE Registered'
  <2> DEFINE c == subchan[l]
  <2>1. /\ l \in endClients /\ kind[l] = "subscriber"
        /\ chsubs' = [chsubs EXCEPT ![c] = @ \ {l}]
        /\ chpub' = chpub
        /\ IF chsubs[c] = {l} /\ chpub[c] = NoConn THEN RemoveChannel(c) ELSE KeepChannel
        /\ conn' = [conn EXCEPT ![l] = "free"]
        /\ kind' = [kind EXCEPT ![l] = "undecided"]
        /\ pubchan' = [pubchan EXCEPT ![l] = NoChan]
        /\ subchan' = [subchan EXCEPT ![l] = NoChan]
    BY <1>6 DEF RemoveSubscriber, LastOnChannel, FreeConn
  <2>2. c \in Channels /\ conn[l] # "free" /\ l \in chsubs[c]
    BY <2>1 DEF Finishing, RolesOK, Registered, ChannelsMatchConnections, IsSubscriber
  <2> HIDE DEF c
  <2>3. FreeIdle'
    BY <2>1 DEF Registered, FreeIdle, TypeOK
  <2>4. \A k \in Conns, e \in Channels : chpub'[e] = k <=> IsPublisher(k, e)'
    BY <2>1 DEF Registered, ChannelsMatchConnections, IsPublisher, TypeOK
  <2>5. \A k \in Conns, e \in Channels : k \in chsubs'[e] <=> IsSubscriber(k, e)'
    BY <2>1, <2>2 DEF Registered, ChannelsMatchConnections, IsSubscriber, TypeOK, c
  <2>6. ChannelsMatchConnections'
    BY <2>1, <2>4, <2>5 DEF Registered, ChannelsMatchConnections, TypeOK
  <2>7. MapExact'
    <3>1. chsubs'[c] = chsubs[c] \ {l}
      BY <2>1, <2>2 DEF TypeOK
    <3>2. chsubs'[c] = {} <=> chsubs[c] = {l}
      BY <2>2, <3>1
    <3>3. \A e \in Channels : e # c => chpub'[e] = chpub[e] /\ chsubs'[e] = chsubs[e]
      BY <2>1 DEF TypeOK
    <3>4. QED
      BY <2>1, <2>2, <3>2, <3>3, LeaveMap DEF Registered
  <2>8. QED
    BY <2>3, <2>6, <2>7 DEF Registered
<1>7. ASSUME NEW l \in Conns, Disconnect(l), conn[l] = "open",
             UNCHANGED <<kind, pubchan, subchan, chanVars>>
      PROVE  Registered'
  BY <1>7, RegisteredFrame DEF Disconnect, TypeOK
<1>8. ASSUME EndPoll PROVE Registered'
  BY <1>8, RegisteredFrame DEF EndPoll, TypeOK
<1>9. ASSUME Stop PROVE Registered'
  <2>1. \A l \in Conns : conn'[l] = "free" <=> conn[l] = "free"
    BY <1>9 DEF Stop, DisconnectAll, StopReachesAll, TypeOK
  <2>2. QED
    BY <1>9, <2>1, RegisteredFrame DEF Stop
<1>10. ASSUME UNCHANGED <<conn, kind, pubchan, subchan, chanVars>> PROVE Registered'
  BY <1>10, RegisteredFrame
<1>11. CASE UNCHANGED vars
  BY <1>10, <1>11 DEF vars, connVars
<1>12. CASE Next
  <2>1. ASSUME NEW l \in Conns, Message(l) PROVE Registered'
    BY <2>1, <1>2, <1>3, <1>7, <1>10
    DEF Message, PublishMedia, IgnoreMessage, RejectPublish, MessageComplete
  <2>2. ASSUME NEW l \in Conns, FinishClient(l) PROVE Registered'
    BY <2>2, <1>4, <1>5, <1>6 DEF FinishClient
  <2>3. ASSUME NEW l \in Conns, ReadHeader(l) \/ Deliver(l) \/ FinishLatch(l) PROVE Registered'
    BY <2>3, <1>10 DEF ReadHeader, Deliver, FinishLatch
  <2>4. ASSUME NEW l \in Conns, Hangup(l) PROVE Registered'
    BY <2>4, <1>7 DEF Hangup
  <2>5. CASE LoopDone
    BY <2>5, <1>11 DEF LoopDone
  <2>6. QED
    BY <1>12, <1>1, <1>8, <1>9, <2>1, <2>2, <2>3, <2>4, <2>5 DEF Next
<1>13. QED
  BY <1>11, <1>12

(* As long as no client takes two roles, no pointer between a connection and *)
(* a channel ever dangles.                                                   *)
THEOREM PointersMatch ==
  ASSUME SingleRole
  PROVE  Spec => []ChannelsMatchConnections
<1>1. ListInv /\ Registered /\ [Next]_vars => Registered'
  BY RegisteredStep
<1>2. Registered => ChannelsMatchConnections
  BY DEF Registered
<1>3. QED
  BY <1>1, <1>2, ListInit, ListStep, RegisteredInit, PTL DEF Spec

(* Under the same assumption a channel stays in the map exactly while it is  *)
(* in use, whoever leaves first.                                             *)
THEOREM MapMatches ==
  ASSUME SingleRole
  PROVE  Spec => []MapExact
<1>1. ListInv /\ Registered /\ [Next]_vars => Registered'
  BY RegisteredStep
<1>2. Registered => MapExact
  BY DEF Registered
<1>3. QED
  BY <1>1, <1>2, ListInit, ListStep, RegisteredInit, PTL DEF Spec

-----------------------------------------------------------------------------
(* Latches                                                                   *)

(* A latch is open exactly while its connection plays.                       *)
LatchPlays == \A l \in Conns : latch[l] = "active" <=> conn[l] # "free" /\ kind[l] = "subscriber"

(* A latch that is closing is finished before its memory is polled again.    *)
LatchCloses ==
  \A l \in Conns :
    /\ l \in endLatches => latch[l] = "closing"
    /\ conn[l] = "open" /\ latch[l] = "closing" => l \in endLatches

LatchInv == LatchPlays /\ LatchCloses /\ NoLostWakeup

(* All that is known about connections and latches.                          *)
LoopInv == ListInv /\ Registered /\ LatchInv

(* The latches at the start.                                                 *)
LEMMA LatchInit == Init => LatchInv
BY DEF Init, LatchInv, LatchPlays, LatchCloses, NoLostWakeup

(* What a step that leaves latches and roles alone preserves.                *)
LEMMA LatchFrame ==
  ASSUME LatchPlays, LatchCloses, UNCHANGED <<conn, kind, latch, endLatches>>
  PROVE  LatchPlays' /\ LatchCloses'
BY DEF LatchPlays, LatchCloses

(* A broadcast wakes everybody it queues a message for.                      *)
LEMMA BroadcastWakes ==
  ASSUME LoopInv, NEW c \in Channels, NEW type, NEW d, Broadcast(c, type, d), latch' = latch
  PROVE  NoLostWakeup'
<1>1. PICK m \in FirstFree(mref) : Enqueue(c, m) /\ Wake(c)
  BY DEF Broadcast
<1>2. ASSUME NEW l \in Conns, queue'[l] # <<>> PROVE latch'[l] = "active" /\ pending'[l]
  <2>1. CASE l \in chsubs[c]
    <3>1. latch[l] = "active"
      BY <2>1 DEF LoopInv, LatchInv, LatchPlays, Registered, ChannelsMatchConnections, IsSubscriber
    <3> QED  BY <1>1, <2>1, <3>1 DEF Wake
  <2>2. CASE l \notin chsubs[c]
    <3>1. queue'[l] = queue[l]
      BY <1>1, <2>2 DEF Enqueue
    <3>2. latch[l] = "active" /\ pending[l]
      BY <1>2, <3>1 DEF LoopInv, LatchInv, NoLostWakeup
    <3> QED  BY <1>1, <3>2 DEF Wake
  <2> QED  BY <2>1, <2>2
<1> QED  BY <1>2 DEF NoLostWakeup

(* A step that changes no queue loses no wakeup.                             *)
LEMMA WakeupFrame ==
  ASSUME NoLostWakeup, UNCHANGED <<queue, latch, pending>>
  PROVE  NoLostWakeup'
BY DEF NoLostWakeup

(* A queue that is emptied needs no wakeup.                                  *)
LEMMA WakeupEmptied ==
  ASSUME TypeOK, NoLostWakeup, NEW l \in Conns,
         queue' = [queue EXCEPT ![l] = <<>>],
         \A k \in Conns : k # l => latch'[k] = latch[k] /\ pending'[k] = pending[k]
  PROVE  NoLostWakeup'
BY DEF NoLostWakeup, TypeOK

(* Every step keeps the latches.                                             *)
LEMMA LatchStep ==
  ASSUME SingleRole, LoopInv, [Next]_vars
  PROVE  LatchInv'
<1> USE DEF LoopInv, ListInv, TypeInv, LatchInv
<1>1. ASSUME NEW l \in Conns, NewConn(l) PROVE LatchInv'
  <2>1. LatchPlays' /\ LatchCloses'
    BY <1>1 DEF NewConn, Registered, FreeIdle, LatchPlays, LatchCloses, TypeOK, loopVars
  <2> QED  BY <1>1, <2>1, WakeupFrame DEF NewConn
<1>2. ASSUME NEW l \in Conns, ReadHeader(l) PROVE LatchInv'
  BY <1>2, LatchFrame, WakeupFrame DEF ReadHeader, loopVars
<1>3. ASSUME NEW l \in Conns, NEW p \in Payloads, PublishMedia(l, p) PROVE LatchInv'
  <2>1. pubchan[l] \in Channels
    BY <1>3 DEF PublishMedia, RolesOK
  <2>2. NoLostWakeup'
    BY <1>3, <2>1, BroadcastWakes DEF PublishMedia
  <2> QED  BY <1>3, <2>2, LatchFrame DEF PublishMedia, loopVars
<1>4. ASSUME NEW l \in Conns, IgnoreMessage(l) PROVE LatchInv'
  BY <1>4, LatchFrame, WakeupFrame DEF IgnoreMessage, loopVars
<1>5. ASSUME NEW l \in Conns, NEW n \in Names, Publish(l, n) PROVE LatchInv'
  <2>1. PICK c \in Channels : Broadcast(c, "begin", NoBuf)
    BY <1>5 DEF Publish
  <2>2. NoLostWakeup'
    BY <1>5, <2>1, BroadcastWakes DEF Publish
  <2>3. kind[l] = "undecided" /\ kind' = [kind EXCEPT ![l] = "publisher"]
    BY <1>5 DEF Publish, MayTakeRole
  <2>4. LatchPlays' /\ LatchCloses'
    BY <1>5, <2>3 DEF Publish, LatchPlays, LatchCloses, TypeOK, loopVars
  <2> QED  BY <2>2, <2>4
<1>6. ASSUME NEW l \in Conns, conn[l] = "open", Disconnect(l),
             UNCHANGED <<kind, latch, pending, queue, endLatches>>
      PROVE  LatchInv'
  <2>1. LatchPlays' /\ LatchCloses'
    BY <1>6 DEF Disconnect, LatchPlays, LatchCloses, TypeOK
  <2> QED  BY <1>6, <2>1, WakeupFrame
<1>7. ASSUME NEW l \in Conns, NEW n \in Names, Play(l, n) PROVE LatchInv'
  <2>1. /\ conn[l] = "open" /\ Polling
        /\ kind' = [kind EXCEPT ![l] = "subscriber"]
        /\ latch' = [latch EXCEPT ![l] = "active"]
        /\ queue' = [queue EXCEPT ![l] = <<>>]
        /\ pending' = [pending EXCEPT ![l] = FALSE]
        /\ UNCHANGED <<conn, endLatches>>
    BY <1>7 DEF Play, MessageComplete, loopVars
  <2>2. LatchPlays' /\ LatchCloses'
    BY <2>1 DEF Polling, LatchPlays, LatchCloses, TypeOK
  <2>3. NoLostWakeup'
    BY <2>1, WakeupEmptied DEF TypeOK
  <2> QED  BY <2>2, <2>3
<1>8. ASSUME NEW l \in Conns, Deliver(l) PROVE LatchInv'
  <2>1. NoLostWakeup'
    BY <1>8, WakeupEmptied DEF Deliver, TypeOK
  <2> QED  BY <1>8, <2>1, LatchFrame DEF Deliver, loopVars
<1>9. ASSUME NEW l \in Conns, RemoveUndecided(l) PROVE LatchInv'
  <2>1. LatchPlays' /\ LatchCloses'
    BY <1>9 DEF RemoveUndecided, FreeConn, LatchPlays, LatchCloses, TypeOK
  <2> QED  BY <1>9, <2>1, WakeupFrame DEF RemoveUndecided
<1>10. ASSUME NEW l \in Conns, RemovePublisher(l) PROVE LatchInv'
  <2>1. pubchan[l] \in Channels
    BY <1>10 DEF RemovePublisher, RolesOK
  <2>2. NoLostWakeup'
    BY <1>10, <2>1, BroadcastWakes DEF RemovePublisher, Unpublish
  <2>3. LatchPlays' /\ LatchCloses'
    BY <1>10 DEF RemovePublisher, FreeConn, LatchPlays, LatchCloses, TypeOK
  <2> QED  BY <2>2, <2>3
<1>11. ASSUME NEW l \in Conns, RemoveSubscriber(l) PROVE LatchInv'
  <2>1. /\ conn' = [conn EXCEPT ![l] = "free"]
        /\ kind' = [kind EXCEPT ![l] = "undecided"]
        /\ latch' = [latch EXCEPT ![l] = "closing"]
        /\ queue' = [queue EXCEPT ![l] = <<>>]
        /\ pending' = [pending EXCEPT ![l] = FALSE]
        /\ endLatches' = endLatches
    BY <1>11 DEF RemoveSubscriber, Unsubscribe, DestroyQueue, FreeConn
  <2>2. LatchPlays' /\ LatchCloses'
    BY <2>1 DEF LatchPlays, LatchCloses, TypeOK
  <2>3. NoLostWakeup'
    BY <2>1, WakeupEmptied DEF TypeOK
  <2> QED  BY <2>2, <2>3
<1>12. ASSUME NEW l \in Conns, FinishLatch(l) PROVE LatchInv'
  <2>1. latch[l] = "closing" /\ latch' = [latch EXCEPT ![l] = "closed"]
    BY <1>12 DEF FinishLatch, LatchCloses
  <2>2. LatchPlays' /\ LatchCloses'
    BY <1>12, <2>1 DEF FinishLatch, LatchPlays, LatchCloses, TypeOK
  <2>3. NoLostWakeup'
    BY <1>12, <2>1 DEF FinishLatch, NoLostWakeup, TypeOK
  <2> QED  BY <2>2, <2>3
<1>13. ASSUME EndPoll PROVE LatchInv'
  <2>1. LatchPlays' /\ LatchCloses'
    BY <1>13 DEF EndPoll, LatchPlays, LatchCloses, TypeOK
  <2> QED  BY <1>13, <2>1, WakeupFrame DEF EndPoll
<1>14. ASSUME Stop PROVE LatchInv'
  <2>1. \A l \in Conns : conn'[l] = "free" <=> conn[l] = "free"
    BY <1>14 DEF Stop, DisconnectAll, StopReachesAll, TypeOK
  <2>2. \A l \in Conns : conn'[l] = "open" => conn[l] = "open"
    BY <1>14 DEF Stop, DisconnectAll, TypeOK
  <2>3. LatchPlays' /\ LatchCloses'
    BY <1>14, <2>1, <2>2 DEF Stop, LatchPlays, LatchCloses
  <2> QED  BY <1>14, <2>3, WakeupFrame DEF Stop
<1>15. CASE UNCHANGED vars
  BY <1>15, LatchFrame, WakeupFrame DEF vars, connVars, loopVars
<1>16. CASE Next
  <2>1. ASSUME NEW l \in Conns, Message(l) PROVE LatchInv'
    <3>1. ASSUME NEW n \in Names, RejectPublish(l, n) PROVE LatchInv'
      BY <3>1, <1>6 DEF RejectPublish, MessageComplete, loopVars
    <3> QED  BY <2>1, <3>1, <1>3, <1>4, <1>5, <1>7 DEF Message
  <2>2. ASSUME NEW l \in Conns, Hangup(l) PROVE LatchInv'
    BY <2>2, <1>6 DEF Hangup, loopVars
  <2> QED  BY <1>16, <2>1, <2>2, <1>1, <1>2, <1>8, <1>9, <1>10, <1>11, <1>12, <1>13, <1>14, <1>15
           DEF Next, FinishClient, LoopDone
<1> QED  BY <1>15, <1>16

(* The invariant of connections and latches at the start and in every step.  *)
LEMMA LoopInit == Init => LoopInv
BY ListInit, RegisteredInit, LatchInit DEF LoopInv

(* Every step keeps it.                                                      *)
LEMMA LoopStep ==
  ASSUME SingleRole, LoopInv, [Next]_vars
  PROVE  LoopInv'
BY ListStep, RegisteredStep, LatchStep DEF LoopInv

(* Whenever a client may ask to play, the latch in its memory has been       *)
(* finished, although it belonged to the previous user of that memory.       *)
THEOREM LatchesReusable ==
  ASSUME SingleRole
  PROVE  Spec => []LatchReusable
<1>1. ASSUME LoopInv PROVE LatchReusable
  BY <1>1 DEF LoopInv, ListInv, TypeInv, TypeOK, LatchStates, LatchInv, LatchPlays, LatchCloses,
     LatchReusable, Polling
<1>2. LoopInv /\ [Next]_vars => LoopInv'
  BY LoopStep
<1> QED  BY <1>1, <1>2, LoopInit, PTL DEF Spec

(* A queue with messages always has a wakeup on the way.                     *)
THEOREM WakeupsArrive ==
  ASSUME SingleRole
  PROVE  Spec => []NoLostWakeup
<1>1. LoopInv => NoLostWakeup
  BY DEF LoopInv, LatchInv
<1>2. LoopInv /\ [Next]_vars => LoopInv'
  BY LoopStep
<1> QED  BY <1>1, <1>2, LoopInit, PTL DEF Spec

-----------------------------------------------------------------------------
(* Occurrences in queues                                                     *)

(* The places where a sequence holds b.                                      *)
LEMMA Places ==
  ASSUME NEW B, NEW s \in Seq(B), NEW b
  PROVE  /\ IsFiniteSet({i \in DOMAIN s : s[i] = b})
         /\ Occurrences(s, b) \in Nat
         /\ Occurrences(s, b) > 0 <=> \E i \in DOMAIN s : s[i] = b
<1>1. DOMAIN s = 1..Len(s) /\ Len(s) \in Nat
  OBVIOUS
<1>2. IsFiniteSet({i \in DOMAIN s : s[i] = b})
  <2>1. IsFiniteSet(1..Len(s))
    BY <1>1, FS_Interval
  <2>2. {i \in DOMAIN s : s[i] = b} \in SUBSET (1..Len(s))
    BY <1>1
  <2> QED  BY <2>1, <2>2, FS_Subset
<1>3. Cardinality({i \in DOMAIN s : s[i] = b}) \in Nat
  BY <1>2, FS_CardinalityType
<1>4. Cardinality({i \in DOMAIN s : s[i] = b}) = 0 <=> {i \in DOMAIN s : s[i] = b} = {}
  BY <1>2, FS_EmptySet
<1> QED  BY <1>2, <1>3, <1>4 DEF Occurrences

(* Nothing occurs in an empty sequence.                                      *)
LEMMA NoPlaces ==
  ASSUME NEW b
  PROVE  Occurrences(<<>>, b) = 0
<1>1. {i \in DOMAIN <<>> : <<>>[i] = b} = {}
  OBVIOUS
<1> QED  BY <1>1, FS_EmptySet DEF Occurrences

(* Appending adds one occurrence of what was appended.                       *)
LEMMA OneMorePlace ==
  ASSUME NEW B, NEW s \in Seq(B), NEW x, NEW b
  PROVE  Occurrences(Append(s, x), b) = IF x = b THEN Occurrences(s, b) + 1 ELSE Occurrences(s, b)
<1> DEFINE old == {i \in DOMAIN s : s[i] = b}
           new == {i \in DOMAIN Append(s, x) : Append(s, x)[i] = b}
<1>1. /\ Len(s) \in Nat /\ DOMAIN s = 1..Len(s)
      /\ DOMAIN Append(s, x) = 1..(Len(s) + 1)
      /\ Append(s, x)[Len(s) + 1] = x
      /\ \A i \in 1..Len(s) : Append(s, x)[i] = s[i]
  OBVIOUS
<1>2. \A i \in 1..(Len(s) + 1) : i \in 1..Len(s) \/ i = Len(s) + 1
  BY <1>1
<1>3. \A i \in 1..Len(s) : i \in 1..(Len(s) + 1) /\ i # Len(s) + 1
  BY <1>1
<1>4. Len(s) + 1 \in 1..(Len(s) + 1)
  BY <1>1
<1>5. new = IF x = b THEN old \cup {Len(s) + 1} ELSE old
  BY <1>1, <1>2, <1>3, <1>4
<1>6. Len(s) + 1 \notin old
  BY <1>1, <1>3
<1>7. IsFiniteSet(old)
  BY Places
<1> HIDE DEF old, new
<1>8. Cardinality(new) = IF x = b THEN Cardinality(old) + 1 ELSE Cardinality(old)
  BY <1>5, <1>6, <1>7, FS_AddElement
<1> QED  BY <1>8 DEF Occurrences, old, new

-----------------------------------------------------------------------------
(* Messages                                                                  *)

(* Sets of connections are finite.                                           *)
LEMMA FiniteConns ==
  ASSUME NEW S \in SUBSET Conns
  PROVE  IsFiniteSet(S) /\ Cardinality(S) \in Nat /\ (Cardinality(S) = 0 <=> S = {})
BY FiniteAssumption, FS_Subset, FS_CardinalityType, FS_EmptySet

(* The places of a message in a queue.                                       *)
LEMMA QueuePlaces ==
  ASSUME TypeOK, NEW k \in Conns, NEW m
  PROVE  /\ Occurrences(queue[k], m) \in Nat
         /\ Occurrences(queue[k], m) > 0 <=> \E i \in DOMAIN queue[k] : queue[k][i] = m
<1>1. queue[k] \in Seq(MsgBufs)
  BY DEF TypeOK
<1> QED  BY <1>1, Places

(* What is in a queue is allocated.                                          *)
LEMMA QueuedIsHeld ==
  ASSUME TypeOK, MessageCountExact, NEW k \in Conns, NEW i \in DOMAIN queue[k]
  PROVE  queue[k][i] \in MsgBufs /\ mref[queue[k][i]] > 0
<1> DEFINE m == queue[k][i]
<1>1. queue[k] \in Seq(MsgBufs) /\ m \in MsgBufs
  BY DEF TypeOK
<1>2. Occurrences(queue[k], m) > 0
  BY QueuePlaces
<1>3. k \in Holders(m) /\ Holders(m) \in SUBSET Conns
  BY <1>2 DEF Holders
<1>4. mref[m] = Cardinality(Holders(m)) /\ mref[m] \in Nat
  BY <1>1 DEF MessageCountExact, TypeOK
<1> HIDE DEF m
<1>5. Cardinality(Holders(m)) # 0
  BY <1>3, FiniteConns
<1>6. m \in MsgBufs /\ mref[m] > 0
  BY <1>1, <1>4, <1>5
<1> QED  BY <1>6 DEF m

(* A broadcast takes a message buffer that is in no queue, appends it to     *)
(* the queues of the subscribers, counts them, and leaves the messages that  *)
(* wait in queues alone.                                                     *)
LEMMA BroadcastEffect ==
  ASSUME TypeOK, MessageCountExact, NEW c \in Channels, NEW type, NEW d, Broadcast(c, type, d)
  PROVE  /\ MessageCountExact'
         /\ \E m \in MsgBufs :
              /\ \A k \in Conns : queue'[k] = IF k \in chsubs[c] THEN Append(queue[k], m) ELSE queue[k]
              /\ chsubs[c] # {} => msg'[m] = [type |-> type, body |-> d]
         /\ \A k \in Conns : \A i \in DOMAIN queue[k] : msg'[queue[k][i]] = msg[queue[k][i]]
<1>1. PICK m \in FirstFree(mref) :
        /\ mref' = Unref(Ref(Alloc(mref, m), m, Cardinality(chsubs[c])), m)
        /\ msg' = Contents([msg EXCEPT ![m] = [type |-> type, body |-> d]], mref', FreedMsg)
        /\ Enqueue(c, m)
  BY DEF Broadcast
<1>2. mref \in [MsgBufs -> Nat] /\ m \in MsgBufs /\ mref[m] = 0
  BY FirstFreeIsFree DEF TypeOK
<1>3. chsubs[c] \in SUBSET Conns /\ Cardinality(chsubs[c]) \in Nat
  BY SubscriberCount DEF TypeOK
<1>4. mref' \in [MsgBufs -> Nat]
  BY <1>1, <1>2, <1>3, AllocType, RefType, UnrefType
<1>5. mref'[m] = Cardinality(chsubs[c]) /\ \A k \in MsgBufs : k # m => mref'[k] = mref[k]
  BY <1>1, <1>2, <1>3 DEF Alloc, Ref, Unref
<1>6. \A k \in Conns : queue'[k] = IF k \in chsubs[c] THEN Append(queue[k], m) ELSE queue[k]
  BY <1>1 DEF Enqueue
<1>7. \A k \in Conns : queue[k] \in Seq(MsgBufs)
  BY DEF TypeOK
<1>8. \A k \in Conns : Occurrences(queue[k], m) = 0
  <2>1. Holders(m) = {}
    BY <1>2, FiniteConns DEF MessageCountExact, Holders
  <2>2. ASSUME NEW k \in Conns PROVE Occurrences(queue[k], m) = 0
    <3>1. ~(Occurrences(queue[k], m) > 0) /\ Occurrences(queue[k], m) \in Nat
      BY <2>1, QueuePlaces DEF Holders
    <3> QED  BY <3>1
  <2> QED  BY <2>2
<1>9. \A k \in Conns, b \in MsgBufs :
        Occurrences(queue'[k], b) = IF b = m /\ k \in chsubs[c] THEN 1 ELSE Occurrences(queue[k], b)
  BY <1>6, <1>7, <1>8, OneMorePlace
<1>10. Holders(m)' = chsubs[c]
  BY <1>2, <1>3, <1>8, <1>9 DEF Holders
<1>11. \A b \in MsgBufs : b # m => Holders(b)' = Holders(b)
  BY <1>9 DEF Holders
<1>12. MessageCountExact'
  BY <1>5, <1>9, <1>10, <1>11 DEF MessageCountExact
<1>13. ASSUME NEW k \in Conns, NEW i \in DOMAIN queue[k] PROVE msg'[queue[k][i]] = msg[queue[k][i]]
  <2> DEFINE b == queue[k][i]
  <2>1. b \in MsgBufs /\ mref[b] > 0
    BY <1>13, QueuedIsHeld
  <2>2. b # m /\ mref'[b] # 0
    BY <1>2, <1>5, <2>1
  <2> HIDE DEF b
  <2>3. msg'[b] = msg[b]
    BY <1>1, <2>1, <2>2 DEF Contents, TypeOK
  <2> QED  BY <2>3 DEF b
<1>14. chsubs[c] # {} => msg'[m] = [type |-> type, body |-> d]
  <2>1. chsubs[c] # {} => mref'[m] # 0
    BY <1>3, <1>5, FiniteConns
  <2> QED  BY <1>1, <1>2, <2>1 DEF Contents, TypeOK
<1> QED  BY <1>2, <1>6, <1>12, <1>13, <1>14

(* Emptying a queue gives back one reference for each message in it.         *)
LEMMA DropEffect ==
  ASSUME TypeOK, MessageCountExact, NEW l \in Conns,
         queue' = [queue EXCEPT ![l] = <<>>],
         mref' = UnrefAll(mref, queue[l]),
         msg' = Contents(msg, mref', FreedMsg)
  PROVE  /\ MessageCountExact'
         /\ \A k \in Conns : k # l => \A i \in DOMAIN queue[k] : msg'[queue[k][i]] = msg[queue[k][i]]
<1>1. /\ \A k \in Conns : queue[k] \in Seq(MsgBufs)
      /\ \A k \in Conns : queue'[k] = IF k = l THEN <<>> ELSE queue[k]
      /\ mref \in [MsgBufs -> Nat]
  BY DEF TypeOK
<1>2. ASSUME NEW m \in MsgBufs
      PROVE  /\ mref'[m] = Cardinality(Holders(m)')
             /\ \A k \in Conns : Occurrences(queue'[k], m) <= 1
  <2>1. Holders(m)' = Holders(m) \ {l}
    BY <1>1, NoPlaces DEF Holders
  <2>2. Holders(m) \in SUBSET Conns /\ IsFiniteSet(Holders(m)) /\ mref[m] = Cardinality(Holders(m))
    BY FiniteConns DEF Holders, MessageCountExact
  <2>3. Occurrences(queue[l], m) \in {0, 1}
    <3>1. Occurrences(queue[l], m) \in Nat /\ Occurrences(queue[l], m) <= 1
      BY QueuePlaces DEF MessageCountExact
    <3> QED  BY <3>1
  <2>4. mref'[m] = IF mref[m] < Occurrences(queue[l], m) THEN 0 ELSE mref[m] - Occurrences(queue[l], m)
    BY <1>1 DEF UnrefAll
  <2>5. l \in Holders(m) <=> Occurrences(queue[l], m) = 1
    BY <2>3 DEF Holders
  <2>6. l \in Holders(m) => mref[m] >= 1
    BY <1>1, <2>2, FiniteConns
  <2>7. mref'[m] = Cardinality(Holders(m)')
    <3>1. Cardinality(Holders(m) \ {l}) =
            IF l \in Holders(m) THEN Cardinality(Holders(m)) - 1 ELSE Cardinality(Holders(m))
      BY <2>2, FS_RemoveElement
    <3>2. mref[m] \in Nat
      BY <1>1
    <3> QED  BY <2>1, <2>2, <2>3, <2>4, <2>5, <2>6, <3>1, <3>2
  <2>8. \A k \in Conns : Occurrences(queue'[k], m) <= 1
    BY <1>1, NoPlaces DEF MessageCountExact
  <2> QED  BY <2>7, <2>8
<1>3. MessageCountExact'
  BY <1>2 DEF MessageCountExact
<1>4. ASSUME NEW k \in Conns, k # l, NEW m \in MsgBufs, Occurrences(queue[k], m) > 0
      PROVE  msg'[m] = msg[m]
  <2>1. Holders(m)' \in SUBSET Conns /\ k \in Holders(m)'
    BY <1>1, <1>4 DEF Holders
  <2>2. Cardinality(Holders(m)') # 0
    BY <2>1, FiniteConns
  <2>3. mref'[m] # 0
    BY <1>2, <2>2
  <2> QED  BY <2>3 DEF Contents, TypeOK
<1>5. \A k \in Conns : \A i \in DOMAIN queue[k] :
        queue[k][i] \in MsgBufs /\ Occurrences(queue[k], queue[k][i]) > 0
  <2>1. ASSUME NEW k \in Conns, NEW i \in DOMAIN queue[k]
        PROVE  queue[k][i] \in MsgBufs /\ Occurrences(queue[k], queue[k][i]) > 0
    <3>1. queue[k][i] \in MsgBufs
      BY <1>1
    <3>2. Occurrences(queue[k], queue[k][i]) > 0
      BY QueuePlaces
    <3> QED  BY <3>1, <3>2
  <2> QED  BY <2>1
<1> QED  BY <1>3, <1>4, <1>5

-----------------------------------------------------------------------------
(* Bodies                                                                    *)

(* A queue holds a body at most once.                                        *)
BodiesOnce == \A k \in Conns, d \in BodyBufs : Occurrences(BodiesOf(queue[k]), d) <= 1

(* Memory that is not in use receives no message.                            *)
FreeReadsNothing == \A k \in Conns : conn[k] = "free" => body[k] = NoBuf

BufferInv ==
  MessageCountExact /\ BodyCountExact /\ BodyExclusive /\ BodiesOnce /\ FreeReadsNothing

(* The bodies of a queue.                                                    *)
LEMMA BodiesType ==
  ASSUME TypeOK, NEW k \in Conns
  PROVE  /\ queue[k] \in Seq(MsgBufs)
         /\ BodiesOf(queue[k]) \in Seq(BodyBufs \cup {NoBuf})
         /\ Len(BodiesOf(queue[k])) = Len(queue[k])
<1>1. queue[k] \in Seq(MsgBufs) /\ Len(queue[k]) \in Nat /\ DOMAIN queue[k] = 1..Len(queue[k])
  BY DEF TypeOK
<1>2. \A i \in 1..Len(queue[k]) : queue[k][i] \in MsgBufs
  BY <1>1
<1>3. \A m \in MsgBufs : msg[m].body \in BodyBufs \cup {NoBuf}
  BY DEF TypeOK
<1>4. BodiesOf(queue[k]) \in [1..Len(queue[k]) -> BodyBufs \cup {NoBuf}]
  BY <1>1, <1>2, <1>3 DEF BodiesOf
<1> QED  BY <1>1, <1>4

(* The places of a body in a queue.                                          *)
LEMMA BodyPlaces ==
  ASSUME TypeOK, NEW k \in Conns, NEW d
  PROVE  Occurrences(BodiesOf(queue[k]), d) \in Nat
<1>1. BodiesOf(queue[k]) \in Seq(BodyBufs \cup {NoBuf})
  BY BodiesType
<1> QED  BY <1>1, Places

(* A queue that a step leaves alone, with its messages, keeps its bodies.    *)
LEMMA BodiesKept ==
  ASSUME NEW k, queue'[k] = queue[k], \A i \in DOMAIN queue[k] : msg'[queue[k][i]] = msg[queue[k][i]]
  PROVE  BodiesOf(queue[k])' = BodiesOf(queue[k])
BY DEF BodiesOf

(* A new message adds its body.                                              *)
LEMMA BodiesAppended ==
  ASSUME TypeOK, NEW k \in Conns, NEW m \in MsgBufs, NEW d,
         queue'[k] = Append(queue[k], m), msg'[m].body = d,
         \A i \in DOMAIN queue[k] : msg'[queue[k][i]] = msg[queue[k][i]]
  PROVE  BodiesOf(queue[k])' = Append(BodiesOf(queue[k]), d)
<1> DEFINE q == queue[k]
           new == Append(q, m)
<1>1. /\ Len(q) \in Nat /\ DOMAIN q = 1..Len(q)
      /\ DOMAIN new = 1..(Len(q) + 1)
      /\ new[Len(q) + 1] = m
      /\ \A i \in 1..Len(q) : new[i] = q[i]
  BY DEF TypeOK
<1>2. BodiesOf(queue[k])' = [i \in DOMAIN new |-> msg'[new[i]].body]
  BY DEF BodiesOf
<1>3. BodiesOf(queue[k]) \in Seq(BodyBufs \cup {NoBuf}) /\ Len(BodiesOf(queue[k])) = Len(q)
  BY BodiesType
<1>4. /\ DOMAIN Append(BodiesOf(q), d) = 1..(Len(q) + 1)
      /\ Append(BodiesOf(q), d)[Len(q) + 1] = d
      /\ \A i \in 1..Len(q) : Append(BodiesOf(q), d)[i] = BodiesOf(q)[i]
      /\ Append(BodiesOf(q), d) = [i \in 1..(Len(q) + 1) |-> Append(BodiesOf(q), d)[i]]
  BY <1>1, <1>3
<1>5. \A i \in 1..Len(q) : BodiesOf(q)[i] = msg[q[i]].body
  BY <1>1 DEF BodiesOf
<1>6. \A i \in 1..(Len(q) + 1) : i \in 1..Len(q) \/ i = Len(q) + 1
  BY <1>1
<1>7. ASSUME NEW i \in 1..(Len(q) + 1) PROVE msg'[new[i]].body = Append(BodiesOf(q), d)[i]
  <2>1. CASE i \in 1..Len(q)
    <3>1. new[i] = q[i] /\ msg'[q[i]] = msg[q[i]]
      BY <1>1, <2>1
    <3>2. Append(BodiesOf(q), d)[i] = msg[q[i]].body
      BY <1>4, <1>5, <2>1
    <3> QED  BY <3>1, <3>2
  <2>2. CASE i = Len(q) + 1
    <3>1. new[i] = m /\ Append(BodiesOf(q), d)[i] = d
      BY <1>1, <1>4, <2>2
    <3> QED  BY <3>1
  <2> QED  BY <1>6, <2>1, <2>2
<1> HIDE DEF new
<1>8. [i \in DOMAIN new |-> msg'[new[i]].body] = [i \in 1..(Len(q) + 1) |-> Append(BodiesOf(q), d)[i]]
  BY <1>1, <1>7
<1> QED  BY <1>2, <1>4, <1>8

(* A broadcast puts its body, which was in no queue, into the queues of the  *)
(* subscribers.                                                              *)
LEMMA BroadcastBodies ==
  ASSUME TypeOK, MessageCountExact, BodiesOnce, NEW c \in Channels, NEW type,
         NEW d \in BodyBufs \cup {NoBuf}, Broadcast(c, type, d),
         d \in BodyBufs => BodyHolders(d) = {}
  PROVE  /\ BodiesOnce'
         /\ \A e \in BodyBufs : BodyHolders(e)' = IF e = d THEN chsubs[c] ELSE BodyHolders(e)
<1>1. PICK m \in MsgBufs :
        /\ \A k \in Conns : queue'[k] = IF k \in chsubs[c] THEN Append(queue[k], m) ELSE queue[k]
        /\ chsubs[c] # {} => msg'[m] = [type |-> type, body |-> d]
  BY BroadcastEffect
<1>2. \A k \in Conns : \A i \in DOMAIN queue[k] : msg'[queue[k][i]] = msg[queue[k][i]]
  BY BroadcastEffect
<1>3. ASSUME NEW k \in Conns, NEW e \in BodyBufs
      PROVE  Occurrences(BodiesOf(queue[k])', e) =
               IF k \in chsubs[c] /\ e = d THEN Occurrences(BodiesOf(queue[k]), e) + 1
                                           ELSE Occurrences(BodiesOf(queue[k]), e)
  <2>1. CASE k \in chsubs[c]
    <3>1. queue'[k] = Append(queue[k], m) /\ msg'[m].body = d
      <4>1. msg'[m] = [type |-> type, body |-> d]
        BY <1>1, <2>1
      <4>2. msg'[m].body = d
        BY <4>1
      <4> QED  BY <1>1, <2>1, <4>2
    <3>2. BodiesOf(queue[k])' = Append(BodiesOf(queue[k]), d)
      BY <1>2, <3>1, BodiesAppended
    <3>3. BodiesOf(queue[k]) \in Seq(BodyBufs \cup {NoBuf})
      BY BodiesType
    <3> QED  BY <2>1, <3>2, <3>3, OneMorePlace
  <2>2. CASE k \notin chsubs[c]
    <3>1. queue'[k] = queue[k]
      BY <1>1, <2>2
    <3> QED  BY <1>2, <2>2, <3>1, BodiesKept
  <2> QED  BY <2>1, <2>2
<1>4. ASSUME d \in BodyBufs, NEW k \in Conns PROVE Occurrences(BodiesOf(queue[k]), d) = 0
  <2>1. ~(Occurrences(BodiesOf(queue[k]), d) > 0)
    BY <1>4 DEF BodyHolders
  <2> QED  BY <2>1, BodyPlaces
<1>5. ASSUME NEW k \in Conns, NEW e \in BodyBufs
      PROVE  /\ Occurrences(BodiesOf(queue[k])', e) <= 1
             /\ Occurrences(BodiesOf(queue[k])', e) > 0 <=>
                  IF e = d THEN k \in chsubs[c] ELSE Occurrences(BodiesOf(queue[k]), e) > 0
  <2>1. Occurrences(BodiesOf(queue[k]), e) \in Nat /\ Occurrences(BodiesOf(queue[k]), e) <= 1
    BY BodyPlaces DEF BodiesOnce
  <2>2. e = d => Occurrences(BodiesOf(queue[k]), e) = 0
    BY <1>4
  <2> QED  BY <1>3, <2>1, <2>2
<1>6. BodiesOnce'
  BY <1>5 DEF BodiesOnce
<1>7. chsubs[c] \in SUBSET Conns
  BY DEF TypeOK
<1>8. \A e \in BodyBufs : BodyHolders(e)' = IF e = d THEN chsubs[c] ELSE BodyHolders(e)
  BY <1>5, <1>7 DEF BodyHolders
<1> QED  BY <1>6, <1>8

(* Emptying a queue takes it out of the holders of its bodies.               *)
LEMMA DropBodies ==
  ASSUME TypeOK, MessageCountExact, BodiesOnce, NEW l \in Conns,
         queue' = [queue EXCEPT ![l] = <<>>],
         mref' = UnrefAll(mref, queue[l]),
         msg' = Contents(msg, mref', FreedMsg)
  PROVE  /\ BodiesOnce'
         /\ \A e \in BodyBufs : BodyHolders(e)' = BodyHolders(e) \ {l}
<1>1. \A k \in Conns : k # l => \A i \in DOMAIN queue[k] : msg'[queue[k][i]] = msg[queue[k][i]]
  BY DropEffect
<1>2. \A k \in Conns : queue'[k] = IF k = l THEN <<>> ELSE queue[k]
  BY DEF TypeOK
<1>3. \A k \in Conns : k # l => BodiesOf(queue[k])' = BodiesOf(queue[k])
  BY <1>1, <1>2, BodiesKept
<1>4. BodiesOf(queue[l])' = <<>>
  BY <1>2 DEF BodiesOf
<1>5. \A e \in BodyBufs : Occurrences(BodiesOf(queue[l])', e) = 0
  BY <1>4, NoPlaces
<1>6. BodiesOnce'
  BY <1>3, <1>5 DEF BodiesOnce
<1>7. \A e \in BodyBufs : BodyHolders(e)' = BodyHolders(e) \ {l}
  BY <1>3, <1>5 DEF BodyHolders
<1> QED  BY <1>6, <1>7

-----------------------------------------------------------------------------
(* Counts of bodies                                                          *)

(* Arithmetic of the counts.                                                 *)
LEMMA Sums ==
  ASSUME NEW r \in Nat, NEW h \in Nat, NEW o \in Nat
  PROVE  /\ 0 = r + h + o => r = 0 /\ h = 0 /\ o = 0
         /\ \A h2, o2 \in Nat : h2 + o2 = h + o => r + h + o = r + h2 + o2
OBVIOUS

(* What a reader of a body knows about it.                                   *)
LEMMA ReadBody ==
  ASSUME TypeOK, BodyCountExact, BodyExclusive, NEW l \in Conns, body[l] # NoBuf
  PROVE  /\ body[l] \in BodyBufs /\ bref[body[l]] = 1 /\ orphaned[body[l]] = 0
         /\ Readers(body[l]) = {l} /\ BodyHolders(body[l]) = {}
<1>1. body[l] \in BodyBufs /\ bref[body[l]] = 1 /\ Readers(body[l]) = {l} /\ BodyHolders(body[l]) = {}
  BY DEF TypeOK, BodyExclusive
<1>2. Cardinality(Readers(body[l])) = 1 /\ Cardinality(BodyHolders(body[l])) = 0
  BY <1>1, FS_Singleton, FS_EmptySet
<1>3. orphaned[body[l]] \in Nat
  BY <1>1 DEF TypeOK
<1>4. bref[body[l]] = Cardinality(Readers(body[l])) + Cardinality(BodyHolders(body[l])) + orphaned[body[l]]
  BY <1>1 DEF BodyCountExact
<1> QED  BY <1>1, <1>2, <1>3, <1>4

(* The cardinalities in the count of a body.                                 *)
LEMMA BodyCardinals ==
  ASSUME TypeOK, NEW d \in BodyBufs
  PROVE  /\ IsFiniteSet(Readers(d)) /\ Cardinality(Readers(d)) \in Nat
         /\ (Cardinality(Readers(d)) = 0 <=> Readers(d) = {})
         /\ IsFiniteSet(BodyHolders(d)) /\ Cardinality(BodyHolders(d)) \in Nat
         /\ (Cardinality(BodyHolders(d)) = 0 <=> BodyHolders(d) = {})
         /\ bref[d] \in Nat /\ orphaned[d] \in Nat
<1>1. Readers(d) \in SUBSET Conns /\ BodyHolders(d) \in SUBSET Conns
  BY DEF Readers, BodyHolders
<1> QED  BY <1>1, FiniteConns DEF TypeOK

(* A step in which nothing about bodies changes but whom l reads for, and    *)
(* that may move holders of a body to its orphans.                           *)
LEMMA ReleaseCounts ==
  ASSUME TypeOK, BodyCountExact, BodyExclusive, NEW l \in Conns,
         body' = [body EXCEPT ![l] = NoBuf], bref' = Unref(bref, body[l]),
         \A e \in BodyBufs :
           /\ BodyHolders(e)' \subseteq BodyHolders(e)
           /\ Cardinality(BodyHolders(e)') + orphaned'[e] = Cardinality(BodyHolders(e)) + orphaned[e]
           /\ orphaned'[e] \in Nat /\ Cardinality(BodyHolders(e)') \in Nat
  PROVE  BodyCountExact' /\ BodyExclusive'
<1>1. \A k \in Conns : body'[k] = IF k = l THEN NoBuf ELSE body[k]
  BY DEF TypeOK
<1>2. NoBuf \notin BodyBufs
  BY BufsAssumption
<1>3. ASSUME NEW e \in BodyBufs
      PROVE  /\ Readers(e)' = IF e = body[l] THEN {} ELSE Readers(e)
             /\ bref'[e] = IF e = body[l] THEN 0 ELSE bref[e]
  <2>1. Readers(e)' = Readers(e) \ {l}
    BY <1>1, <1>2 DEF Readers
  <2>2. CASE e = body[l]
    <3>1. body[l] # NoBuf
      BY <1>2, <2>2
    <3>2. Readers(e) = {l} /\ bref[e] = 1
      BY <2>2, <3>1, ReadBody
    <3> QED  BY <2>1, <2>2, <3>2 DEF Unref, TypeOK
  <2>3. CASE e # body[l]
    <3>1. l \notin Readers(e)
      BY <2>3 DEF Readers
    <3> QED  BY <2>1, <2>3, <3>1 DEF Unref, TypeOK
  <2> QED  BY <2>2, <2>3
<1>4. ASSUME NEW e \in BodyBufs
      PROVE  bref'[e] = Cardinality(Readers(e)') + Cardinality(BodyHolders(e)') + orphaned'[e]
  <2>1. bref[e] = Cardinality(Readers(e)) + Cardinality(BodyHolders(e)) + orphaned[e]
    BY DEF BodyCountExact
  <2>2. CASE e = body[l]
    <3>1. body[l] # NoBuf
      BY <1>2, <2>2
    <3>2. BodyHolders(e) = {} /\ orphaned[e] = 0
      BY <2>2, <3>1, ReadBody
    <3>3. Cardinality(BodyHolders(e)) = 0 /\ Cardinality(Readers(e)') = 0 /\ bref'[e] = 0
      BY <1>3, <2>2, <3>2, FS_EmptySet
    <3>4. /\ Cardinality(BodyHolders(e)') + orphaned'[e] = 0
          /\ orphaned'[e] \in Nat /\ Cardinality(BodyHolders(e)') \in Nat
      BY <3>2, <3>3
    <3> QED  BY <3>3, <3>4
  <2>3. CASE e # body[l]
    <3>1. Cardinality(Readers(e)') = Cardinality(Readers(e)) /\ bref'[e] = bref[e]
      BY <1>3, <2>3
    <3>2. /\ Cardinality(BodyHolders(e)') + orphaned'[e] = Cardinality(BodyHolders(e)) + orphaned[e]
          /\ orphaned'[e] \in Nat /\ Cardinality(BodyHolders(e)') \in Nat
      OBVIOUS
    <3>3. /\ Cardinality(Readers(e)) \in Nat /\ Cardinality(BodyHolders(e)) \in Nat
          /\ bref[e] \in Nat /\ orphaned[e] \in Nat
      BY BodyCardinals
    <3>4. bref[e] = Cardinality(Readers(e)) + Cardinality(BodyHolders(e)') + orphaned'[e]
      BY <2>1, <3>2, <3>3, Sums
    <3> QED  BY <3>1, <3>4
  <2> QED  BY <2>2, <2>3
<1>5. ASSUME NEW k \in Conns, body'[k] # NoBuf
      PROVE  Readers(body[k])' = {k} /\ BodyHolders(body[k])' = {} /\ bref'[body'[k]] = 1
  <2>1. k # l /\ body'[k] = body[k] /\ body[k] # NoBuf
    BY <1>1, <1>5
  <2>2. /\ body[k] \in BodyBufs /\ Readers(body[k]) = {k} /\ BodyHolders(body[k]) = {}
        /\ bref[body[k]] = 1
    BY <2>1, ReadBody
  <2>3. body[k] # body[l]
    BY <2>1, <2>2 DEF Readers
  <2>4. \A e \in BodyBufs : e = body[k] => Readers(e)' = {k} /\ BodyHolders(e)' = {} /\ bref'[e] = 1
    BY <1>3, <2>2, <2>3
  <2> QED  BY <2>1, <2>2, <2>4
<1>6. BodyCountExact'
  BY <1>4 DEF BodyCountExact
<1>7. BodyExclusive'
  BY <1>5 DEF BodyExclusive
<1> QED  BY <1>6, <1>7

(* A step that leaves the bodies and their holders alone.                    *)
LEMMA CountsFrame ==
  ASSUME BodyCountExact, BodyExclusive, UNCHANGED <<body, bref, orphaned>>,
         \A e \in BodyBufs : BodyHolders(e)' = BodyHolders(e),
         TypeOK
  PROVE  BodyCountExact' /\ BodyExclusive'
<1>1. \A e \in BodyBufs : Readers(e)' = Readers(e)
  BY DEF Readers
<1>2. BodyCountExact'
  BY <1>1 DEF BodyCountExact
<1>3. ASSUME NEW k \in Conns, body'[k] # NoBuf
      PROVE  Readers(body[k])' = {k} /\ BodyHolders(body[k])' = {} /\ bref'[body'[k]] = 1
  <2>1. /\ body[k] \in BodyBufs /\ Readers(body[k]) = {k} /\ BodyHolders(body[k]) = {}
        /\ bref[body[k]] = 1
    BY <1>3, ReadBody
  <2>2. \A e \in BodyBufs : e = body[k] => Readers(e)' = {k} /\ BodyHolders(e)' = {} /\ bref'[e] = 1
    BY <1>1, <2>1
  <2> QED  BY <2>1, <2>2
<1> QED  BY <1>2, <1>3 DEF BodyExclusive

(* A step that leaves queues and messages alone.                             *)
LEMMA HoldersFrame ==
  ASSUME BodiesOnce, UNCHANGED <<queue, msg>>
  PROVE  BodiesOnce' /\ \A e \in BodyBufs : BodyHolders(e)' = BodyHolders(e)
BY DEF BodiesOnce, BodyHolders, BodiesOf

(* A step that leaves queues and message counts alone.                       *)
LEMMA MessagesFrame ==
  ASSUME MessageCountExact, UNCHANGED <<queue, mref>>
  PROVE  MessageCountExact'
BY DEF MessageCountExact, Holders

(* Releasing the body that l reads, with queues and messages left alone.     *)
LEMMA ReleaseOnly ==
  ASSUME TypeOK, BufferInv, NEW l \in Conns, ReleaseBody(l), UNCHANGED <<queue, mref, msg, orphaned>>
  PROVE  MessageCountExact' /\ BodyCountExact' /\ BodyExclusive' /\ BodiesOnce'
<1>1. BodiesOnce' /\ \A e \in BodyBufs : BodyHolders(e)' = BodyHolders(e)
  BY HoldersFrame DEF BufferInv
<1>2. BodyCountExact' /\ BodyExclusive'
  BY <1>1, BodyCardinals, ReleaseCounts DEF BufferInv, ReleaseBody, DropBody
<1> QED  BY <1>1, <1>2, MessagesFrame DEF BufferInv

(* The same together with a broadcast that carries no body.                  *)
LEMMA ReleaseAndBroadcast ==
  ASSUME TypeOK, BufferInv, NEW l \in Conns, ReleaseBody(l), orphaned' = orphaned,
         NEW c \in Channels, NEW type, Broadcast(c, type, NoBuf)
  PROVE  MessageCountExact' /\ BodyCountExact' /\ BodyExclusive' /\ BodiesOnce'
<1>1. NoBuf \notin BodyBufs
  BY BufsAssumption
<1>2. BodiesOnce' /\ \A e \in BodyBufs : BodyHolders(e)' = BodyHolders(e)
  BY <1>1, BroadcastBodies DEF BufferInv
<1>3. BodyCountExact' /\ BodyExclusive'
  BY <1>2, BodyCardinals, ReleaseCounts DEF BufferInv, ReleaseBody, DropBody
<1> QED  BY <1>2, <1>3, BroadcastEffect DEF BufferInv

-----------------------------------------------------------------------------
(* The steps                                                                 *)

(* The first chunk of a message takes a body that nobody holds.              *)
LEMMA HeaderCounts ==
  ASSUME TypeOK, BufferInv, NEW l \in Conns, ReadHeader(l)
  PROVE  BodyCountExact' /\ BodyExclusive'
<1>1. PICK d \in FirstFree(bref) : body' = [body EXCEPT ![l] = d] /\ bref' = Alloc(bref, d)
  BY DEF ReadHeader
<1>2. d \in BodyBufs /\ bref[d] = 0 /\ body[l] = NoBuf /\ NoBuf \notin BodyBufs
  BY FirstFreeIsFree, BufsAssumption DEF ReadHeader, TypeOK
<1>3. /\ \A k \in Conns : body'[k] = IF k = l THEN d ELSE body[k]
      /\ \A e \in BodyBufs : bref'[e] = IF e = d THEN 1 ELSE bref[e]
  BY <1>1, <1>2 DEF Alloc, TypeOK
<1>4. \A e \in BodyBufs : BodyHolders(e)' = BodyHolders(e)
  BY HoldersFrame DEF ReadHeader, BufferInv
<1>5. Readers(d) = {} /\ BodyHolders(d) = {} /\ orphaned[d] = 0
  <2>1. bref[d] = Cardinality(Readers(d)) + Cardinality(BodyHolders(d)) + orphaned[d]
    BY <1>2 DEF BufferInv, BodyCountExact
  <2>2. /\ Cardinality(Readers(d)) \in Nat /\ (Cardinality(Readers(d)) = 0 <=> Readers(d) = {})
        /\ Cardinality(BodyHolders(d)) \in Nat /\ (Cardinality(BodyHolders(d)) = 0 <=> BodyHolders(d) = {})
        /\ orphaned[d] \in Nat
    BY <1>2, BodyCardinals
  <2>3. Cardinality(Readers(d)) = 0 /\ Cardinality(BodyHolders(d)) = 0 /\ orphaned[d] = 0
    BY <1>2, <2>1, <2>2, Sums
  <2> QED  BY <2>2, <2>3
<1>6. \A e \in BodyBufs : Readers(e)' = IF e = d THEN {l} ELSE Readers(e)
  BY <1>2, <1>3, <1>5 DEF Readers
<1>7. ASSUME NEW e \in BodyBufs
      PROVE  bref'[e] = Cardinality(Readers(e)') + Cardinality(BodyHolders(e)') + orphaned'[e]
  <2>1. orphaned' = orphaned
    BY DEF ReadHeader
  <2>2. CASE e = d
    <3>1. Cardinality(Readers(e)') = 1 /\ Cardinality(BodyHolders(e)') = 0
      BY <1>4, <1>5, <1>6, <2>2, FS_Singleton, FS_EmptySet
    <3> QED  BY <1>3, <1>5, <2>1, <2>2, <3>1
  <2>3. CASE e # d
    BY <1>3, <1>4, <1>6, <2>1, <2>3 DEF BufferInv, BodyCountExact
  <2> QED  BY <2>2, <2>3
<1>8. ASSUME NEW k \in Conns, body'[k] # NoBuf
      PROVE  Readers(body[k])' = {k} /\ BodyHolders(body[k])' = {} /\ bref'[body'[k]] = 1
  <2>1. CASE k = l
    <3>1. body'[k] = d
      BY <1>3, <2>1
    <3>2. \A e \in BodyBufs : e = d => Readers(e)' = {k} /\ BodyHolders(e)' = {} /\ bref'[e] = 1
      BY <1>3, <1>4, <1>5, <1>6, <2>1
    <3> QED  BY <1>2, <3>1, <3>2
  <2>2. CASE k # l
    <3>1. body'[k] = body[k] /\ body[k] # NoBuf
      BY <1>3, <1>8, <2>2
    <3>2. /\ body[k] \in BodyBufs /\ Readers(body[k]) = {k} /\ BodyHolders(body[k]) = {}
          /\ bref[body[k]] = 1
      BY <3>1, ReadBody DEF BufferInv
    <3>3. body[k] # d
      BY <1>5, <3>2
    <3>4. \A e \in BodyBufs : e = body[k] => Readers(e)' = {k} /\ BodyHolders(e)' = {} /\ bref'[e] = 1
      BY <1>3, <1>4, <1>6, <3>2, <3>3
    <3> QED  BY <3>1, <3>2, <3>4
  <2> QED  BY <2>1, <2>2
<1> QED  BY <1>7, <1>8 DEF BodyCountExact, BodyExclusive

(* A publication hands the body over from its reader to the subscribers.     *)
LEMMA MediaCounts ==
  ASSUME TypeOK, BufferInv, NEW l \in Conns, NEW p, NEW c \in Channels, c = pubchan[l],
         PublishMedia(l, p)
  PROVE  MessageCountExact' /\ BodyCountExact' /\ BodyExclusive' /\ BodiesOnce'
<1>1. PICK d : d = body[l]
  OBVIOUS
<1>2. /\ d \in BodyBufs /\ bref[d] = 1 /\ orphaned[d] = 0
      /\ Readers(d) = {l} /\ BodyHolders(d) = {}
  BY <1>1, ReadBody DEF BufferInv, PublishMedia, MessageComplete
<1>3. NoBuf \notin BodyBufs
  BY BufsAssumption
<1>4. /\ Broadcast(c, "media", d) /\ orphaned' = orphaned
      /\ body' = [body EXCEPT ![l] = NoBuf]
      /\ bref' = Unref(Ref(bref, d, Cardinality(chsubs[c])), d)
  BY <1>1 DEF PublishMedia, DropBody, SharedBody
<1>5. BodiesOnce' /\ \A e \in BodyBufs : BodyHolders(e)' = IF e = d THEN chsubs[c] ELSE BodyHolders(e)
  BY <1>2, <1>4, BroadcastBodies DEF BufferInv
<1>6. MessageCountExact'
  BY <1>4, BroadcastEffect DEF BufferInv
<1>7. Cardinality(chsubs[c]) \in Nat /\ bref \in [BodyBufs -> Nat]
  BY SubscriberCount DEF TypeOK
<1>8. \A e \in BodyBufs : bref'[e] = IF e = d THEN Cardinality(chsubs[c]) ELSE bref[e]
  BY <1>2, <1>4, <1>7 DEF Ref, Unref
<1>9. \A k \in Conns : body'[k] = IF k = l THEN NoBuf ELSE body[k]
  BY <1>4 DEF TypeOK
<1>10. \A e \in BodyBufs : Readers(e)' = IF e = d THEN {} ELSE Readers(e)
  BY <1>1, <1>2, <1>3, <1>9 DEF Readers
<1>11. ASSUME NEW e \in BodyBufs
       PROVE  bref'[e] = Cardinality(Readers(e)') + Cardinality(BodyHolders(e)') + orphaned'[e]
  <2>1. CASE e = d
    <3>1. Cardinality(Readers(e)') = 0
      BY <1>10, <2>1, FS_EmptySet
    <3> QED  BY <1>2, <1>4, <1>5, <1>7, <1>8, <2>1, <3>1
  <2>2. CASE e # d
    BY <1>4, <1>5, <1>8, <1>10, <2>2 DEF BufferInv, BodyCountExact
  <2> QED  BY <2>1, <2>2
<1>12. ASSUME NEW k \in Conns, body'[k] # NoBuf
       PROVE  Readers(body[k])' = {k} /\ BodyHolders(body[k])' = {} /\ bref'[body'[k]] = 1
  <2>1. k # l /\ body'[k] = body[k] /\ body[k] # NoBuf
    BY <1>9, <1>12
  <2>2. /\ body[k] \in BodyBufs /\ Readers(body[k]) = {k} /\ BodyHolders(body[k]) = {}
        /\ bref[body[k]] = 1
    BY <2>1, ReadBody DEF BufferInv
  <2>3. body[k] # d
    BY <1>2, <2>1, <2>2
  <2>4. \A e \in BodyBufs : e = body[k] => Readers(e)' = {k} /\ BodyHolders(e)' = {} /\ bref'[e] = 1
    BY <1>5, <1>8, <1>10, <2>2, <2>3
  <2> QED  BY <2>1, <2>2, <2>4
<1> QED  BY <1>5, <1>6, <1>11, <1>12 DEF BodyCountExact, BodyExclusive

(* A delivery gives back each message and each body of the queue once.       *)
LEMMA DeliverCounts ==
  ASSUME TypeOK, BufferInv, NEW l \in Conns, Deliver(l)
  PROVE  MessageCountExact' /\ BodyCountExact' /\ BodyExclusive' /\ BodiesOnce'
<1>1. /\ queue' = [queue EXCEPT ![l] = <<>>] /\ mref' = UnrefAll(mref, queue[l])
      /\ msg' = Contents(msg, mref', FreedMsg)
      /\ bref' = UnrefAll(bref, BodiesOf(queue[l]))
      /\ body' = body /\ orphaned' = orphaned
  BY DEF Deliver
<1>2. MessageCountExact'
  BY <1>1, DropEffect DEF BufferInv
<1>3. BodiesOnce' /\ \A e \in BodyBufs : BodyHolders(e)' = BodyHolders(e) \ {l}
  BY <1>1, DropBodies DEF BufferInv
<1>4. \A e \in BodyBufs : Readers(e)' = Readers(e)
  BY <1>1 DEF Readers
<1>5. ASSUME NEW e \in BodyBufs
      PROVE  /\ bref'[e] = Cardinality(Readers(e)') + Cardinality(BodyHolders(e)') + orphaned'[e]
             /\ BodyHolders(e) = {} => bref'[e] = bref[e]
  <2> DEFINE n == Occurrences(BodiesOf(queue[l]), e)
  <2>1. n \in Nat /\ n <= 1 /\ (l \in BodyHolders(e) <=> n > 0)
    BY BodyPlaces DEF BufferInv, BodiesOnce, BodyHolders
  <2>2. bref'[e] = IF bref[e] < n THEN 0 ELSE bref[e] - n
    BY <1>1 DEF UnrefAll, TypeOK
  <2>3. /\ bref[e] = Cardinality(Readers(e)) + Cardinality(BodyHolders(e)) + orphaned[e]
        /\ Cardinality(Readers(e)) \in Nat /\ Cardinality(BodyHolders(e)) \in Nat
        /\ bref[e] \in Nat /\ orphaned[e] \in Nat
        /\ Cardinality(BodyHolders(e)) = 0 <=> BodyHolders(e) = {}
    BY BodyCardinals DEF BufferInv, BodyCountExact
  <2>4. Cardinality(BodyHolders(e) \ {l}) =
          IF l \in BodyHolders(e) THEN Cardinality(BodyHolders(e)) - 1 ELSE Cardinality(BodyHolders(e))
    BY BodyCardinals, FS_RemoveElement
  <2> HIDE DEF n
  <2>5. bref'[e] = bref[e] - n
    BY <2>1, <2>2, <2>3
  <2>6. bref'[e] = Cardinality(Readers(e)) + Cardinality(BodyHolders(e) \ {l}) + orphaned[e]
    BY <2>1, <2>3, <2>4, <2>5
  <2> QED  BY <1>1, <1>3, <1>4, <2>1, <2>3, <2>5, <2>6
<1>6. ASSUME NEW k \in Conns, body'[k] # NoBuf
      PROVE  Readers(body[k])' = {k} /\ BodyHolders(body[k])' = {} /\ bref'[body'[k]] = 1
  <2>1. /\ body'[k] = body[k] /\ body[k] \in BodyBufs
        /\ Readers(body[k]) = {k} /\ BodyHolders(body[k]) = {} /\ bref[body[k]] = 1
    BY <1>1, <1>6, ReadBody DEF BufferInv
  <2>2. \A e \in BodyBufs : e = body[k] => Readers(e)' = {k} /\ BodyHolders(e)' = {} /\ bref'[e] = 1
    BY <1>3, <1>4, <1>5, <2>1
  <2> QED  BY <2>1, <2>2
<1> QED  BY <1>2, <1>3, <1>5, <1>6 DEF BodyCountExact, BodyExclusive

(* A queue that is destroyed leaves its bodies to nobody.                    *)
LEMMA UnsubscribeCounts ==
  ASSUME TypeOK, BufferInv, NEW l \in Conns, DestroyQueue(l), ReleaseBody(l)
  PROVE  MessageCountExact' /\ BodyCountExact' /\ BodyExclusive' /\ BodiesOnce'
<1>1. /\ queue' = [queue EXCEPT ![l] = <<>>] /\ mref' = UnrefAll(mref, queue[l])
      /\ msg' = Contents(msg, mref', FreedMsg)
      /\ orphaned' = [d \in BodyBufs |-> orphaned[d] + Occurrences(BodiesOf(queue[l]), d)]
  BY DEF DestroyQueue
<1>2. MessageCountExact'
  BY <1>1, DropEffect DEF BufferInv
<1>3. BodiesOnce' /\ \A e \in BodyBufs : BodyHolders(e)' = BodyHolders(e) \ {l}
  BY <1>1, DropBodies DEF BufferInv
<1>4. ASSUME NEW e \in BodyBufs
      PROVE  /\ BodyHolders(e)' \subseteq BodyHolders(e)
             /\ Cardinality(BodyHolders(e)') + orphaned'[e] = Cardinality(BodyHolders(e)) + orphaned[e]
             /\ orphaned'[e] \in Nat /\ Cardinality(BodyHolders(e)') \in Nat
  <2> DEFINE n == Occurrences(BodiesOf(queue[l]), e)
  <2>1. n \in Nat /\ n <= 1 /\ (l \in BodyHolders(e) <=> n > 0)
    BY BodyPlaces DEF BufferInv, BodiesOnce, BodyHolders
  <2>2. orphaned'[e] = orphaned[e] + n /\ orphaned[e] \in Nat
    BY <1>1 DEF TypeOK
  <2>3. /\ Cardinality(BodyHolders(e)) \in Nat
        /\ Cardinality(BodyHolders(e)) = 0 <=> BodyHolders(e) = {}
    BY BodyCardinals
  <2>4. Cardinality(BodyHolders(e) \ {l}) =
          IF l \in BodyHolders(e) THEN Cardinality(BodyHolders(e)) - 1 ELSE Cardinality(BodyHolders(e))
    BY BodyCardinals, FS_RemoveElement
  <2> HIDE DEF n
  <2>5. BodyHolders(e)' = BodyHolders(e) \ {l}
    BY <1>3
  <2>6. CASE l \in BodyHolders(e)
    <3>1. n = 1 /\ Cardinality(BodyHolders(e)) >= 1
      BY <2>1, <2>3, <2>6
    <3>2. Cardinality(BodyHolders(e)') = Cardinality(BodyHolders(e)) - 1
      BY <2>4, <2>5, <2>6
    <3> QED  BY <2>2, <2>3, <2>5, <3>1, <3>2
  <2>7. CASE l \notin BodyHolders(e)
    <3>1. n = 0
      BY <2>1, <2>7
    <3>2. Cardinality(BodyHolders(e)') = Cardinality(BodyHolders(e))
      BY <2>4, <2>5, <2>7
    <3> QED  BY <2>2, <2>3, <2>5, <3>1, <3>2
  <2> QED  BY <2>6, <2>7
<1>5. BodyCountExact' /\ BodyExclusive'
  BY <1>4, ReleaseCounts DEF BufferInv, ReleaseBody, DropBody
<1> QED  BY <1>2, <1>3, <1>5

(* Every step keeps the counts.                                              *)
LEMMA BufferStep ==
  ASSUME SingleRole, LoopInv, BufferInv, [Next]_vars
  PROVE  BufferInv'
<1> USE DEF LoopInv, ListInv, TypeInv
<1> DEFINE Counted == MessageCountExact /\ BodyCountExact /\ BodyExclusive /\ BodiesOnce
<1>1. ASSUME UNCHANGED <<queue, mref, msg, body, bref, orphaned>> PROVE Counted'
  BY <1>1, MessagesFrame, HoldersFrame, CountsFrame DEF BufferInv
<1>2. ASSUME NEW l \in Conns, NewConn(l) PROVE BufferInv'
  <2>1. body' = body
    BY <1>2 DEF NewConn, DropBody, BufferInv, FreeReadsNothing, TypeOK
  <2>2. FreeReadsNothing'
    BY <1>2, <2>1 DEF NewConn, BufferInv, FreeReadsNothing, TypeOK
  <2> QED  BY <1>1, <1>2, <2>1, <2>2 DEF NewConn, slabVars, BufferInv
<1>3. ASSUME NEW l \in Conns, conn[l] # "free",
             \A k \in Conns : (conn'[k] = "free" => conn[k] = "free") /\ (k # l => body'[k] = body[k])
      PROVE  FreeReadsNothing'
  BY <1>3 DEF BufferInv, FreeReadsNothing
<1>4. ASSUME NEW l \in Conns, ReadHeader(l) PROVE BufferInv'
  <2>1. FreeReadsNothing'
    <3>1. conn[l] # "free" /\ conn' = conn /\ \A k \in Conns : k # l => body'[k] = body[k]
      BY <1>4 DEF ReadHeader, TypeOK
    <3> QED  BY <1>3, <3>1
  <2>2. UNCHANGED <<queue, mref, msg>>
    BY <1>4 DEF ReadHeader
  <2> QED  BY <1>4, <2>1, <2>2, HeaderCounts, MessagesFrame, HoldersFrame DEF BufferInv
<1>5. ASSUME NEW l \in Conns, Message(l) PROVE BufferInv'
  <2>1. conn[l] = "open" /\ body' = [body EXCEPT ![l] = NoBuf]
    BY <1>5 DEF Message, PublishMedia, IgnoreMessage, Publish, RejectPublish, Play,
         MessageComplete, ReleaseBody, DropBody
  <2>2. \A k \in Conns : conn'[k] = "free" => conn[k] = "free"
    BY <1>5 DEF Message, PublishMedia, IgnoreMessage, Publish, RejectPublish, Play, Disconnect, TypeOK
  <2>3. FreeReadsNothing'
    BY <1>3, <2>1, <2>2 DEF TypeOK
  <2>4. ASSUME NEW p \in Payloads, PublishMedia(l, p) PROVE Counted'
    <3>1. pubchan[l] \in Channels
      BY <2>4 DEF PublishMedia, RolesOK
    <3> QED  BY <2>4, <3>1, MediaCounts
  <2>5. ASSUME IgnoreMessage(l) \/ \E n \in Names : RejectPublish(l, n) PROVE Counted'
    BY <2>5, ReleaseOnly DEF IgnoreMessage, RejectPublish
  <2>6. ASSUME NEW n \in Names, Publish(l, n) PROVE Counted'
    <3>1. PICK c \in Channels : Broadcast(c, "begin", NoBuf)
      BY <2>6 DEF Publish
    <3> QED  BY <2>6, <3>1, ReleaseAndBroadcast DEF Publish
  <2>7. ASSUME NEW n \in Names, Play(l, n) PROVE Counted'
    <3>1. queue[l] = <<>>
      BY <2>7 DEF Play, MayTakeRole, LatchInv, LatchPlays, NoLostWakeup
    <3>2. queue' = queue
      BY <2>7, <3>1 DEF Play, TypeOK
    <3> QED  BY <2>7, <3>2, ReleaseOnly DEF Play
  <2> QED  BY <1>5, <2>3, <2>4, <2>5, <2>6, <2>7 DEF Message, BufferInv
<1>6. ASSUME NEW l \in Conns, Deliver(l) PROVE BufferInv'
  <2>1. FreeReadsNothing'
    BY <1>6 DEF Deliver, BufferInv, FreeReadsNothing
  <2> QED  BY <1>6, <2>1, DeliverCounts DEF BufferInv
<1>7. ASSUME NEW l \in Conns, FinishClient(l) PROVE BufferInv'
  <2>1. FreeConn(l) /\ ReleaseBody(l) /\ body' = [body EXCEPT ![l] = NoBuf]
    BY <1>7 DEF FinishClient, RemoveUndecided, RemovePublisher, RemoveSubscriber, FreeConn,
         ReleaseBody, DropBody
  <2>2. FreeReadsNothing'
    BY <2>1 DEF FreeConn, BufferInv, FreeReadsNothing, TypeOK
  <2>3. CASE RemoveUndecided(l)
    BY <2>1, <2>2, <2>3, ReleaseOnly DEF RemoveUndecided, BufferInv
  <2>4. CASE RemovePublisher(l)
    <3>1. pubchan[l] \in Channels /\ Broadcast(pubchan[l], "done", NoBuf) /\ orphaned' = orphaned
      BY <2>4 DEF RemovePublisher, Unpublish, RolesOK
    <3> QED  BY <2>1, <2>2, <3>1, ReleaseAndBroadcast DEF BufferInv
  <2>5. CASE RemoveSubscriber(l)
    BY <2>1, <2>2, <2>5, UnsubscribeCounts DEF RemoveSubscriber, Unsubscribe, BufferInv
  <2> QED  BY <1>7, <2>3, <2>4, <2>5 DEF FinishClient
<1>8. ASSUME UNCHANGED <<queue, mref, msg, body, bref, orphaned>>,
             \A k \in Conns : conn'[k] = "free" => conn[k] = "free"
      PROVE  BufferInv'
  BY <1>1, <1>8 DEF BufferInv, FreeReadsNothing
<1>9. ASSUME NEW l \in Conns, Hangup(l) \/ FinishLatch(l) PROVE BufferInv'
  BY <1>8, <1>9 DEF Hangup, FinishLatch, Disconnect, slabVars, TypeOK
<1>10. CASE EndPoll
  BY <1>8, <1>10 DEF EndPoll, slabVars
<1>11. CASE Stop
  BY <1>8, <1>11 DEF Stop, DisconnectAll, slabVars
<1>12. CASE UNCHANGED vars
  BY <1>8, <1>12 DEF vars, connVars, slabVars
<1> QED  BY <1>2, <1>4, <1>5, <1>6, <1>7, <1>9, <1>10, <1>11, <1>12 DEF Next, LoopDone

(* The counts at the start.                                                  *)
LEMMA BufferInit == Init => BufferInv
<1> SUFFICES ASSUME Init PROVE BufferInv
  OBVIOUS
<1>1. TypeOK
  BY TypeInit DEF TypeInv
<1>2. \A k \in Conns : queue[k] = <<>> /\ BodiesOf(queue[k]) = <<>> /\ body[k] = NoBuf
  BY DEF Init, BodiesOf
<1>3. MessageCountExact
  <2>1. \A k \in Conns, m \in MsgBufs : Occurrences(queue[k], m) = 0
    BY <1>2, NoPlaces
  <2>2. \A m \in MsgBufs : Holders(m) = {}
    BY <2>1 DEF Holders
  <2>3. \A m \in MsgBufs : mref[m] = Cardinality(Holders(m))
    BY <2>2, FS_EmptySet DEF Init
  <2>4. \A k \in Conns, m \in MsgBufs : Occurrences(queue[k], m) <= 1
    BY <2>1
  <2> QED  BY <2>3, <2>4 DEF MessageCountExact
<1>4. BodiesOnce
  BY <1>2, NoPlaces DEF BodiesOnce
<1>5. BodyCountExact
  <2>1. ASSUME NEW e \in BodyBufs PROVE Readers(e) = {} /\ BodyHolders(e) = {}
    <3>1. Readers(e) = {}
      BY <1>2, BufsAssumption DEF Readers
    <3>2. \A k \in Conns : Occurrences(BodiesOf(queue[k]), e) = 0
      BY <1>2, NoPlaces
    <3> QED  BY <3>1, <3>2 DEF BodyHolders
  <2>2. \A e \in BodyBufs : Cardinality(Readers(e)) = 0 /\ Cardinality(BodyHolders(e)) = 0
    BY <2>1, FS_EmptySet
  <2>3. \A e \in BodyBufs : bref[e] = 0 /\ orphaned[e] = 0
    BY DEF Init
  <2>4. \A e \in BodyBufs : bref[e] = Cardinality(Readers(e)) + Cardinality(BodyHolders(e)) + orphaned[e]
    BY <2>2, <2>3
  <2> QED  BY <2>4 DEF BodyCountExact
<1>6. BodyExclusive /\ FreeReadsNothing
  BY <1>2 DEF BodyExclusive, FreeReadsNothing
<1> QED  BY <1>3, <1>4, <1>5, <1>6 DEF BufferInv

(* Every reference count is the number of holders: nothing is freed too      *)
(* early, and nothing but the bodies of destroyed queues is kept.            *)
THEOREM CountsAreExact ==
  ASSUME SingleRole
  PROVE  Spec => []CountsExact
<1>1. LoopInv /\ [Next]_vars => LoopInv'
  BY LoopStep
<1>2. LoopInv /\ BufferInv /\ [Next]_vars => BufferInv'
  BY BufferStep
<1>3. BufferInv => CountsExact
  BY DEF BufferInv, CountsExact
<1> QED  BY <1>1, <1>2, <1>3, LoopInit, BufferInit, PTL DEF Spec

(* No read overwrites a body that waits to be sent to a subscriber.          *)
THEOREM BodiesExclusive ==
  ASSUME SingleRole
  PROVE  Spec => []BodyExclusive
<1>1. LoopInv /\ [Next]_vars => LoopInv'
  BY LoopStep
<1>2. LoopInv /\ BufferInv /\ [Next]_vars => BufferInv'
  BY BufferStep
<1>3. BufferInv => BodyExclusive
  BY DEF BufferInv
<1> QED  BY <1>1, <1>2, <1>3, LoopInit, BufferInit, PTL DEF Spec

=============================================================================
