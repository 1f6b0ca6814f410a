------------------------------ MODULE RtmpLoop ------------------------------
(***************************************************************************)
(* The RTMP thread: its connections (rtmp/rtmp.c), the channels they       *)
(* publish to and play from (channel/channel.c, the commands of            *)
(* rtmp/message.c) and the reference-counted buffers that travel between   *)
(* them (util/buffer.c).                                                   *)
(*                                                                         *)
(* Everything here runs as callbacks of one libuv loop, so a callback is   *)
(* one atomic action and what interleaves is the order of the callbacks.   *)
(* libuv runs them in two alternating phases.  In the poll phase it calls  *)
(* connection, read and wakeup callbacks in an order that depends on the   *)
(* network.  uv_close only marks a handle; its close callback runs in the  *)
(* closing phase, which finishes exactly the handles that were marked      *)
(* before it began (a handle marked by a close callback waits for the next *)
(* closing phase).                                                         *)
(***************************************************************************)
EXTENDS Slab

CONSTANTS
  Conns,      \* the memory blocks that can hold a video_rtmp_local_t
  Names,      \* the channel names that clients use
  Channels,   \* the addresses that can hold a video_channel_t
  Payloads,   \* the contents of a media message
  MsgBufs,    \* the buffers that can hold a video_message_t
  BodyBufs,   \* the buffers that can hold the body of an RTMP message
  MaxQueue,   \* bound: nothing but DONE is broadcast to a queue this long
  SingleRole, \* TRUE: a client sends one publish or one play, not several
  NoConn, NoName, NoChan, Garbage

ASSUME BufsAssumption ==
  /\ MsgBufs \subseteq Nat \ {NoBuf}
  /\ BodyBufs \subseteq Nat \ {NoBuf}

ASSUME SentinelAssumption ==
  /\ NoConn \notin Conns
  /\ NoName \notin Names
  /\ NoChan \notin Channels
  /\ Garbage \notin Payloads

ASSUME FiniteAssumption == IsFiniteSet(Conns)

ASSUME BoundAssumption == MaxQueue \in Nat \ {0} /\ SingleRole \in BOOLEAN

VARIABLES
  \* video_rtmp_local_t, one per block of memory
  conn,       \* "free": not in use; "new": accepted, not polled yet; "open"; "closing"
  kind,       \* local->kind
  pubchan,    \* local->publisher.channel
  subchan,    \* local->subscriber.channel
  latch,      \* local->subscriber.latch: "closed", "active" or "closing"
  pending,    \* a wakeup was sent to the latch and not yet taken
  queue,      \* local->subscriber.queue, a sequence of message buffers
  body,       \* local->header->msgbodybuf.base
  clients,    \* video_rtmp_global_t.clients
  \* the channel map and the channels it points to
  channels,   \* global->channels: the channel of a name, or NoChan
  chname,     \* channel->name, NoName when the memory holds no channel
  chpub,      \* channel->publisher
  chsubs,     \* channel->subscribers
  \* the slab
  mref, msg,  \* reference count and contents of each message buffer
  bref, bdata,\* reference count and contents of each body buffer
  orphaned,   \* history: how many destroyed queues held each body
  sendLost,   \* history: a send buffer was handed to a closed handle
  \* the loop
  running,    \* STOP was not processed yet: the listener is open
  endClients, \* the connections that the current closing phase will finish
  endLatches  \* the latches that the current closing phase will finish

connVars == <<conn, kind, pubchan, subchan, latch, pending, queue, body, clients>>
chanVars == <<channels, chname, chpub, chsubs>>
slabVars == <<mref, msg, bref, bdata, orphaned, sendLost>>
loopVars == <<running, endClients, endLatches>>
vars == <<connVars, chanVars, slabVars, loopVars>>

ConnStates == {"free", "new", "open", "closing"}
Kinds == {"undecided", "publisher", "subscriber"}
LatchStates == {"closed", "active", "closing"}
MsgTypes == {"begin", "media", "done"}
FreedMsg == [type |-> "freed", body |-> NoBuf]

Init ==
  /\ conn = [l \in Conns |-> "free"]
  /\ kind = [l \in Conns |-> "undecided"]
  /\ pubchan = [l \in Conns |-> NoChan]
  /\ subchan = [l \in Conns |-> NoChan]
  /\ latch = [l \in Conns |-> "closed"]
  /\ pending = [l \in Conns |-> FALSE]
  /\ queue = [l \in Conns |-> <<>>]
  /\ body = [l \in Conns |-> NoBuf]
  /\ clients = {}
  /\ channels = [n \in Names |-> NoChan]
  /\ chname = [c \in Channels |-> NoName]
  /\ chpub = [c \in Channels |-> NoConn]
  /\ chsubs = [c \in Channels |-> {}]
  /\ mref = [m \in MsgBufs |-> 0]
  /\ msg = [m \in MsgBufs |-> FreedMsg]
  /\ bref = [d \in BodyBufs |-> 0]
  /\ bdata = [d \in BodyBufs |-> Garbage]
  /\ orphaned = [d \in BodyBufs |-> 0]
  /\ sendLost = FALSE
  /\ running = TRUE
  /\ endClients = {}
  /\ endLatches = {}

-----------------------------------------------------------------------------
(* Helpers                                                                   *)

Polling == endClients = {} /\ endLatches = {}

(* uv_write accepts data as long as the handle was not closed.               *)
Writable(l) == conn[l] \in {"new", "open"}

(* The bodies that the messages of a queue point to.                         *)
BodiesOf(q) == [i \in DOMAIN q |-> msg[q[i]].body]

(* video_rtmp_disconnect: uv_close unless the handle is already closing.     *)
Disconnect(l) == conn' = [conn EXCEPT ![l] = "closing"]

Enqueue(c, m) == queue' = [l \in Conns |-> IF l \in chsubs[c] THEN Append(queue[l], m) ELSE queue[l]]
Wake(c)       == pending' = [l \in Conns |-> pending[l] \/ l \in chsubs[c]]

(* Mutants of Broadcast: the sender keeps its reference, or wakes nobody.    *)
BroadcastKeepsReference(c, type, d) ==
  \E m \in FirstFree(mref) :
    /\ mref' = Ref(Alloc(mref, m), m, Cardinality(chsubs[c]))
    /\ msg' = [msg EXCEPT ![m] = [type |-> type, body |-> d]]
    /\ Enqueue(c, m) /\ Wake(c)

BroadcastWithoutWakeup(c, type, d) ==
  \E m \in FirstFree(mref) :
    /\ mref' = Unref(Ref(Alloc(mref, m), m, Cardinality(chsubs[c])), m)
    /\ msg' = Contents([msg EXCEPT ![m] = [type |-> type, body |-> d]], mref', FreedMsg)
    /\ Enqueue(c, m) /\ UNCHANGED pending

(* video_channel_message_broadcast of a message m that was just allocated:   *)
(* every subscriber gets a reference, an entry in its queue and a wakeup,    *)
(* then the sender gives up its own reference.                               *)
Broadcast(c, type, d) ==
  \E m \in FirstFree(mref) :
    /\ mref' = Unref(Ref(Alloc(mref, m), m, Cardinality(chsubs[c])), m)
    /\ msg' = Contents([msg EXCEPT ![m] = [type |-> type, body |-> d]], mref', FreedMsg)
    /\ Enqueue(c, m) /\ Wake(c)

(* The references that a broadcast on c takes to the body d: one for every   *)
(* subscriber.  Mutant: none.                                                *)
SharedBodyUnreferenced(c, d) == bref
SharedBody(c, d) == Ref(bref, d, Cardinality(chsubs[c]))

(* The body of the message that l has just processed goes back to the slab.  *)
DropBody(l) == body' = [body EXCEPT ![l] = NoBuf]

ReleaseBody(l) ==
  /\ DropBody(l)
  /\ bref' = Unref(bref, body[l])
  /\ bdata' = Contents(bdata, bref', Garbage)

HasRoom(c) == \A l \in chsubs[c] : Len(queue[l]) < MaxQueue

(* What a client may ask for on its connection (an assumption on clients,    *)
(* not a test in the code).                                                  *)
MayTakeRole(l) == SingleRole => kind[l] = "undecided"

(* video_map_get, and video_map_put of a fresh channel when there is none.   *)
FindOrCreate(n, c) ==
  IF channels[n] # NoChan
  THEN c = channels[n] /\ UNCHANGED <<channels, chname>>
  ELSE /\ chname[c] = NoName
       /\ channels' = [channels EXCEPT ![n] = c]
       /\ chname' = [chname EXCEPT ![c] = n]

-----------------------------------------------------------------------------
(* Poll phase                                                                *)

(* video_rtmp_newconn: the listener accepts a client.  Reading starts when   *)
(* the loop next polls.                                                      *)
NewConn(l) ==
  /\ Polling /\ running
  /\ conn[l] = "free"
  /\ conn' = [conn EXCEPT ![l] = "new"]
  /\ kind' = [kind EXCEPT ![l] = "undecided"]
  /\ DropBody(l)
  /\ clients' = clients \cup {l}
  /\ UNCHANGED <<pubchan, subchan, latch, pending, queue, chanVars, slabVars, loopVars>>

(* video_rtmp_header: the first chunk of a message obtains the body buffer,  *)
(* which later reads fill.                                                   *)
ReadHeader(l) ==
  /\ Polling
  /\ conn[l] = "open" /\ body[l] = NoBuf
  /\ \E d \in FirstFree(bref) :
       /\ body' = [body EXCEPT ![l] = d]
       /\ bref' = Alloc(bref, d)
  /\ UNCHANGED <<conn, kind, pubchan, subchan, latch, pending, queue, clients,
                 chanVars, mref, msg, bdata, orphaned, sendLost, loopVars>>

(* A complete message arrived in the body buffer of l.                       *)
MessageComplete(l) == Polling /\ conn[l] = "open" /\ body[l] # NoBuf

(* video_rtmp_body + video_rtmp_message with META, VIDEO or AUDIO: a         *)
(* publisher broadcasts the body itself, without copying it, and then gives  *)
(* up the reference of the reader.                                           *)
PublishMedia(l, p) ==
  /\ MessageComplete(l)
  /\ kind[l] = "publisher"
  /\ HasRoom(pubchan[l])
  /\ Broadcast(pubchan[l], "media", body[l])
  /\ DropBody(l)
  /\ bref' = Unref(SharedBody(pubchan[l], body[l]), body[l])
  /\ bdata' = Contents([bdata EXCEPT ![body[l]] = p], bref', Garbage)
  /\ UNCHANGED <<conn, kind, pubchan, subchan, latch, clients, chanVars,
                 orphaned, sendLost, loopVars>>

(* The same for any other sender and for every message without an effect     *)
(* outside the connection.                                                   *)
IgnoreMessage(l) ==
  /\ MessageComplete(l)
  /\ ReleaseBody(l)
  /\ UNCHANGED <<conn, kind, pubchan, subchan, latch, pending, queue, clients,
                 chanVars, mref, msg, orphaned, sendLost, loopVars>>

(* video_rtmp_command_publish on a channel nobody publishes: take it and     *)
(* broadcast BEGIN.                                                          *)
Publish(l, n) ==
  /\ MessageComplete(l) /\ MayTakeRole(l)
  /\ \E c \in Channels :
       /\ FindOrCreate(n, c)
       /\ chpub[c] = NoConn
       /\ HasRoom(c)
       /\ kind' = [kind EXCEPT ![l] = "publisher"]
       /\ pubchan' = [pubchan EXCEPT ![l] = c]
       /\ chpub' = [chpub EXCEPT ![c] = l]
       /\ Broadcast(c, "begin", NoBuf)
  /\ ReleaseBody(l)
  /\ UNCHANGED <<conn, subchan, latch, clients, chsubs, orphaned, sendLost, loopVars>>

(* video_rtmp_command_publish on a channel that has a publisher: the late    *)
(* client is disconnected and stays without a role.                          *)
RejectPublish(l, n) ==
  /\ MessageComplete(l) /\ MayTakeRole(l)
  /\ channels[n] # NoChan /\ chpub[channels[n]] # NoConn
  /\ Disconnect(l)
  /\ ReleaseBody(l)
  /\ UNCHANGED <<kind, pubchan, subchan, latch, pending, queue, clients,
                 chanVars, mref, msg, orphaned, sendLost, loopVars>>

(* video_rtmp_command_play with video_channel_subscribe: a new queue, a new  *)
(* latch, an entry in the list of subscribers.                               *)
Play(l, n) ==
  /\ MessageComplete(l) /\ MayTakeRole(l)
  /\ \E c \in Channels :
       /\ FindOrCreate(n, c)
       /\ subchan' = [subchan EXCEPT ![l] = c]
       /\ chsubs' = [chsubs EXCEPT ![c] = @ \cup {l}]
  /\ kind' = [kind EXCEPT ![l] = "subscriber"]
  /\ queue' = [queue EXCEPT ![l] = <<>>]
  /\ latch' = [latch EXCEPT ![l] = "active"]
  /\ pending' = [pending EXCEPT ![l] = FALSE]
  /\ ReleaseBody(l)
  /\ UNCHANGED <<conn, pubchan, clients, chpub, mref, msg, orphaned, sendLost, loopVars>>

(* video_channel_deliver with video_rtmp_subscribe: the wakeup is taken and  *)
(* the queue drained; every message is sent and gives back its body and      *)
(* itself.  DONE sends nothing.  uv_write on a closed handle fails without   *)
(* ever calling the callback that releases the send buffer.                  *)
Deliver(l) ==
  /\ Polling
  /\ latch[l] = "active" /\ pending[l]
  /\ pending' = [pending EXCEPT ![l] = FALSE]
  /\ queue' = [queue EXCEPT ![l] = <<>>]
  /\ mref' = UnrefAll(mref, queue[l])
  /\ msg' = Contents(msg, mref', FreedMsg)
  /\ bref' = UnrefAll(bref, BodiesOf(queue[l]))
  /\ bdata' = Contents(bdata, bref', Garbage)
  /\ sendLost' = (sendLost \/ (/\ ~Writable(l)
                               /\ \E i \in DOMAIN queue[l] : msg[queue[l][i]].type # "done"))
  /\ UNCHANGED <<conn, kind, pubchan, subchan, latch, body, clients, chanVars,
                 orphaned, loopVars>>

(* video_rtmp_readconn with nread < 0: the client is gone.                   *)
Hangup(l) ==
  /\ Polling
  /\ conn[l] = "open"
  /\ Disconnect(l)
  /\ UNCHANGED <<kind, pubchan, subchan, latch, pending, queue, body, clients,
                 chanVars, slabVars, loopVars>>

(* The loop over the list of clients in video_rtmp_async.  Mutant: it passes *)
(* over a client that was accepted but not read from yet.                    *)
DisconnectReadable ==
  conn' = [l \in Conns |-> IF l \in clients /\ conn[l] = "open" THEN "closing" ELSE conn[l]]
DisconnectAll == conn' = [l \in Conns |-> IF l \in clients THEN "closing" ELSE conn[l]]

(* video_rtmp_async with STOP: every client on the list is disconnected, the *)
(* list is destroyed, listener and timer are closed.                         *)
Stop ==
  /\ Polling /\ running
  /\ running' = FALSE
  /\ DisconnectAll
  /\ clients' = {}
  /\ UNCHANGED <<kind, pubchan, subchan, latch, pending, queue, body,
                 chanVars, slabVars, endClients, endLatches>>

-----------------------------------------------------------------------------
(* Closing phase                                                             *)

(* The poll ends: accepted connections will be polled next time, and every   *)
(* handle closed so far is finished before that.                             *)
EndPoll ==
  /\ Polling
  /\ \/ \E l \in Conns : conn[l] \in {"new", "closing"}
     \/ \E l \in Conns : latch[l] = "closing"
  /\ conn' = [l \in Conns |-> IF conn[l] = "new" THEN "open" ELSE conn[l]]
  /\ endClients' = {l \in Conns : conn[l] = "closing"}
  /\ endLatches' = {l \in Conns : latch[l] = "closing"}
  /\ UNCHANGED <<kind, pubchan, subchan, latch, pending, queue, body, clients,
                 chanVars, slabVars, running>>

(* video_map_remove and video_channel_deinit                                 *)
RemoveChannel(c) ==
  /\ channels' = [channels EXCEPT ![chname[c]] = NoChan]
  /\ chname' = [chname EXCEPT ![c] = NoName]

KeepChannel == UNCHANGED <<channels, chname>>

(* The end of video_rtmp_remconn: the connection leaves the list of clients, *)
(* its unfinished message and then its own memory return to the slab (whose  *)
(* next user initialises every field it reads).                              *)
FreeConn(l) ==
  /\ endClients' = endClients \ {l}
  /\ conn' = [conn EXCEPT ![l] = "free"]
  /\ kind' = [kind EXCEPT ![l] = "undecided"]
  /\ pubchan' = [pubchan EXCEPT ![l] = NoChan]
  /\ subchan' = [subchan EXCEPT ![l] = NoChan]
  /\ clients' = clients \ {l}
  /\ ReleaseBody(l)
  /\ UNCHANGED <<running, endLatches, sendLost>>

(* video_rtmp_remconn of a client without a role                             *)
RemoveUndecided(l) ==
  /\ l \in endClients /\ kind[l] = "undecided"
  /\ FreeConn(l)
  /\ UNCHANGED <<latch, pending, queue, chanVars, mref, msg, orphaned>>

(* Mutants of Unpublish: the channel keeps its publisher, or DONE is not     *)
(* broadcast.                                                                *)
UnpublishKeepsPublisher(c) == Broadcast(c, "done", NoBuf) /\ UNCHANGED chpub
UnpublishSilently(c) ==
  chpub' = [chpub EXCEPT ![c] = NoConn] /\ UNCHANGED <<queue, pending, mref, msg>>

(* video_channel_unpublish                                                   *)
Unpublish(c) ==
  /\ chpub' = [chpub EXCEPT ![c] = NoConn]
  /\ Broadcast(c, "done", NoBuf)

(* video_rtmp_remconn of a publisher: the channel goes when nobody listens.  *)
RemovePublisher(l) ==
  LET c == pubchan[l] IN
  /\ l \in endClients /\ kind[l] = "publisher"
  /\ Unpublish(c)
  /\ IF chsubs[c] = {} THEN RemoveChannel(c) ELSE KeepChannel
  /\ FreeConn(l)
  /\ UNCHANGED <<latch, chsubs, orphaned>>

(* video_queue_deinit: the messages in the queue are released, their bodies  *)
(* are not.                                                                  *)
DestroyQueue(l) ==
  /\ mref' = UnrefAll(mref, queue[l])
  /\ msg' = Contents(msg, mref', FreedMsg)
  /\ orphaned' = [d \in BodyBufs |-> orphaned[d] + Occurrences(BodiesOf(queue[l]), d)]
  /\ queue' = [queue EXCEPT ![l] = <<>>]

(* Mutant of Unsubscribe: the latch stays open.                              *)
UnsubscribeKeepsLatch(l) == DestroyQueue(l) /\ UNCHANGED <<pending, latch>>

(* video_channel_unsubscribe: a wakeup on its way is void with the latch.    *)
Unsubscribe(l) ==
  /\ DestroyQueue(l)
  /\ pending' = [pending EXCEPT ![l] = FALSE]
  /\ latch' = [latch EXCEPT ![l] = "closing"]

(* The channel c has no use once the subscriber l is gone.  Mutant: its      *)
(* publisher is forgotten.                                                   *)
LastSubscriber(l, c) == chsubs[c] = {l}
LastOnChannel(l, c) == chsubs[c] = {l} /\ chpub[c] = NoConn

(* video_rtmp_remconn of a subscriber: the channel goes when nobody is left  *)
(* on either side.                                                           *)
RemoveSubscriber(l) ==
  LET c == subchan[l] IN
  /\ l \in endClients /\ kind[l] = "subscriber"
  /\ Unsubscribe(l)
  /\ chsubs' = [chsubs EXCEPT ![c] = @ \ {l}]
  /\ IF LastOnChannel(l, c) THEN RemoveChannel(c) ELSE KeepChannel
  /\ FreeConn(l)
  /\ UNCHANGED chpub

FinishClient(l) == RemoveUndecided(l) \/ RemovePublisher(l) \/ RemoveSubscriber(l)

(* A closed latch leaves the loop.                                           *)
FinishLatch(l) ==
  /\ l \in endLatches
  /\ endLatches' = endLatches \ {l}
  /\ latch' = [latch EXCEPT ![l] = "closed"]
  /\ UNCHANGED <<conn, kind, pubchan, subchan, pending, queue, body, clients,
                 chanVars, slabVars, running, endClients>>

(* uv_run returns when the listener is closed and no handle is left.         *)
Drained ==
  /\ ~running
  /\ \A l \in Conns : conn[l] = "free" /\ latch[l] = "closed"

LoopDone == Drained /\ UNCHANGED vars

-----------------------------------------------------------------------------
Message(l) ==
  \/ \E p \in Payloads : PublishMedia(l, p)
  \/ IgnoreMessage(l)
  \/ \E n \in Names : Publish(l, n) \/ RejectPublish(l, n) \/ Play(l, n)

Next ==
  \/ \E l \in Conns :
       \/ NewConn(l) \/ ReadHeader(l) \/ Message(l) \/ Hangup(l)
       \/ Deliver(l)
       \/ FinishClient(l) \/ FinishLatch(l)
  \/ EndPoll
  \/ Stop
  \/ LoopDone

Spec == Init /\ [][Next]_vars

(* libuv always completes a loop iteration.  A wakeup descriptor stays       *)
(* readable until it is read, so the poll of every iteration reports it:     *)
(* Deliver is not passed over forever although closing phases interrupt it.  *)
Fairness ==
  /\ WF_vars(EndPoll)
  /\ \A l \in Conns : WF_vars(FinishClient(l)) /\ WF_vars(FinishLatch(l)) /\ SF_vars(Deliver(l))

FairSpec == Spec /\ Fairness

-----------------------------------------------------------------------------
(* Properties                                                                *)

(* The shape of every variable.                                              *)
TypeOK ==
  /\ conn \in [Conns -> ConnStates]
  /\ kind \in [Conns -> Kinds]
  /\ pubchan \in [Conns -> Channels \cup {NoChan}]
  /\ subchan \in [Conns -> Channels \cup {NoChan}]
  /\ latch \in [Conns -> LatchStates]
  /\ pending \in [Conns -> BOOLEAN]
  /\ queue \in [Conns -> Seq(MsgBufs)]
  /\ body \in [Conns -> BodyBufs \cup {NoBuf}]
  /\ clients \in SUBSET Conns
  /\ channels \in [Names -> Channels \cup {NoChan}]
  /\ chname \in [Channels -> Names \cup {NoName}]
  /\ chpub \in [Channels -> Conns \cup {NoConn}]
  /\ chsubs \in [Channels -> SUBSET Conns]
  /\ mref \in [MsgBufs -> Nat]
  /\ msg \in [MsgBufs -> [type : MsgTypes \cup {"freed"}, body : BodyBufs \cup {NoBuf}]]
  /\ bref \in [BodyBufs -> Nat]
  /\ bdata \in [BodyBufs -> Payloads \cup {Garbage}]
  /\ orphaned \in [BodyBufs -> Nat]
  /\ sendLost \in BOOLEAN
  /\ running \in BOOLEAN
  /\ endClients \in SUBSET Conns
  /\ endLatches \in SUBSET Conns

IsPublisher(l, c) == conn[l] # "free" /\ kind[l] = "publisher" /\ pubchan[l] = c
IsSubscriber(l, c) == conn[l] # "free" /\ kind[l] = "subscriber" /\ subchan[l] = c

(* The raw pointers between connections and channels never dangle: whoever   *)
(* publishes or plays, until the close callback has run, points to a channel *)
(* that still exists and is registered there, and a channel points only to   *)
(* such connections (rtmp.c frees a channel as soon as it looks unused).     *)
ChannelsMatchConnections ==
  /\ \A l \in Conns, c \in Channels : chpub[c] = l <=> IsPublisher(l, c)
  /\ \A l \in Conns, c \in Channels : l \in chsubs[c] <=> IsSubscriber(l, c)
  /\ \A l \in Conns : conn[l] # "free" /\ kind[l] = "publisher" => pubchan[l] \in Channels
  /\ \A l \in Conns : conn[l] # "free" /\ kind[l] = "subscriber" => subchan[l] \in Channels

(* The channel map holds exactly the channels in use: every registered       *)
(* channel is found under its own name, and a channel stays in the map only  *)
(* while it has a publisher or a subscriber, whichever of them leaves first. *)
MapExact ==
  /\ \A n \in Names : channels[n] # NoChan => chname[channels[n]] = n
  /\ \A c \in Channels :
       IF chpub[c] = NoConn /\ chsubs[c] = {}
       THEN chname[c] = NoName
       ELSE chname[c] # NoName /\ channels[chname[c]] = c

(* A connection can only play through a latch that the loop has let go of,   *)
(* although the latch of the previous user of the same memory is closed only *)
(* after that memory was released.                                           *)
LatchReusable ==
  \A l \in Conns :
    Polling /\ conn[l] = "open" /\ kind[l] = "undecided" => latch[l] = "closed"

Holders(m) == {l \in Conns : Occurrences(queue[l], m) > 0}

(* The reference count of a message is the number of queues it is in, and it *)
(* is in none of them twice: it is neither released early nor kept.          *)
MessageCountExact ==
  /\ \A m \in MsgBufs : mref[m] = Cardinality(Holders(m))
  /\ \A l \in Conns, m \in MsgBufs : Occurrences(queue[l], m) \leq 1

Readers(d) == {l \in Conns : body[l] = d}
BodyHolders(d) == {l \in Conns : Occurrences(BodiesOf(queue[l]), d) > 0}

(* The reference count of a body is the number of connections that receive   *)
(* it, plus the queues it is in, plus the queues that were destroyed with it.*)
BodyCountExact ==
  \A d \in BodyBufs :
    bref[d] = Cardinality(Readers(d)) + Cardinality(BodyHolders(d)) + orphaned[d]

(* Both: what is counted by reference is freed by its last holder.           *)
CountsExact == MessageCountExact /\ BodyCountExact

(* A body that a connection is receiving belongs to nobody else, so no read  *)
(* overwrites data that a subscriber still has to be sent.                   *)
BodyExclusive ==
  \A l \in Conns : body[l] # NoBuf =>
    /\ Readers(body[l]) = {l}
    /\ BodyHolders(body[l]) = {}
    /\ bref[body[l]] = 1

(* A queue with messages has a wakeup on the way.                            *)
NoLostWakeup == \A l \in Conns : queue[l] # <<>> => latch[l] = "active" /\ pending[l]

TypeAt(q, i) == msg[q[i]].type

(* What a subscriber reads is a sequence of complete publications: DONE is   *)
(* followed by nothing but the BEGIN of the next publisher, BEGIN comes only *)
(* after DONE, and DONE is last exactly while nobody publishes.              *)
Bracketed ==
  \A c \in Channels : \A l \in chsubs[c] :
    LET q == queue[l] IN
    /\ \A i \in 1..(Len(q) - 1) : TypeAt(q, i) = "done" <=> TypeAt(q, i + 1) = "begin"
    /\ q # <<>> => (TypeAt(q, Len(q)) = "done" <=> chpub[c] = NoConn)

(* STOP reaches every connection: while the loop runs the list of clients is *)
(* exactly the connections in use, and after STOP all of them are closing.   *)
StopReachesAll ==
  IF running THEN clients = {l \in Conns : conn[l] # "free"}
             ELSE \A l \in Conns : conn[l] \in {"free", "closing"}

(* After STOP the loop runs out of handles, so uv_run returns.               *)
StopDrains == ~running ~> Drained

(* Whatever is queued for a subscriber is sent or dropped with the           *)
(* subscriber; it is not forgotten.                                          *)
QueuesDrain == \A l \in Conns : queue[l] # <<>> ~> queue[l] = <<>>

(* The diagnostic of video_slab_deinit (util/buffer.c:48) for the bodies:    *)
(* nothing is unreleased when the loop has ended.                            *)
BodiesReleased == Drained => \A d \in BodyBufs : bref[d] = 0

(* The same diagnostic for the buffers of outgoing data.                     *)
SendsReleased == Drained => ~sendLost

-----------------------------------------------------------------------------
(* The RTMP thread implements PubSub: the publisher of a name is the         *)
(* publisher of its channel, and the inbox of a connection is what the       *)
(* message and body buffers of its queue contain.                            *)
Delivery(m) ==
  IF msg[m].body = NoBuf THEN [type |-> msg[m].type]
                         ELSE [type |-> msg[m].type, data |-> bdata[msg[m].body]]

PS == INSTANCE PubSub WITH
  publisher <- [n \in Names |-> IF channels[n] = NoChan THEN NoConn ELSE chpub[channels[n]]],
  audience  <- [n \in Names |-> IF channels[n] = NoChan THEN {} ELSE chsubs[channels[n]]],
  inbox     <- [l \in Conns |-> [i \in DOMAIN queue[l] |-> Delivery(queue[l][i])]]

(* Every step of the thread is a step of PubSub or leaves it alone.          *)
ImplementsPubSub == PS!Spec

=============================================================================
