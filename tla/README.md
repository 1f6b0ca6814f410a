# A TLA+ model of c-streamer

c-streamer is an RTMP server in C on libuv: clients publish a stream under a
channel name, others play it. This directory models the program, checks the
model with TLC and proves parts of it with TLAPS. `PROJECT.json` lists every
run, the line of code behind every definition, the hazards of the code and the
theorems.

## The system

| Component | State | Operations | Works with |
|---|---|---|---|
| Slab (`util/buffer.c`) | pools of reference-counted buffers | alloc (first free buffer, or a new one), ref, unref | everything in the RTMP thread; one mutex per pool |
| Channels (`channel/channel.c`) | the channel of a name: its publisher, its subscribers; per subscriber a queue and a latch (`uv_async_t`) | publish, unpublish, subscribe, unsubscribe, broadcast, deliver | slab, queue; called by the commands of RTMP and by the loop |
| RTMP connections (`rtmp/rtmp.c`) | one `video_rtmp_local_t` per client, the list of clients, listener and timer | accept, read, disconnect, close callback, STOP | channels, channel map, slab |
| Message dispatch (`rtmp/message.c`) | kind of the client, chunk sizes | connect, createStream, publish, play, media | channels, AMF, chunk writer |
| Chunk reader (`rtmp/message.c`, `rtmp/rtmp.c`) | header and body buffers of each chunk stream | header, body, over any split of the input | slab, dispatch |
| Handshake (`rtmp/handshake.c`) | S0, S1, S2, one buffer | three read steps, two writes | slab |
| Chunk writer (`rtmp/message.c`) | output chunk size, one video clock for all | send | slab, libuv |
| AMF (`amf/amf.c`) | value trees | decode, encode, estimate | list, map |
| Threads (`global/global.c`, `main.c`, `mp4/mp4.c`) | per thread a loop, a command queue, a latch; the global mutex | start, SIGINT, SIGUSR1, command, close, join | queue, hooks of RTMP and MP4 |
| List, map, queue, byte order (`util/`) | growing array, list of entries, linked list | add, remove, get, enqueue, dequeue | all |

What is hard here:

* *Callbacks in any order.* The RTMP thread never preempts itself, but reads,
  accepts, wakeups and close callbacks of all clients arrive in any order, and
  `uv_close` takes effect a loop phase later than it is called. Between the two,
  a connection is still registered with its channel.
* *Shared ownership.* A media body is received once and shared, uncopied, by
  the queues of all subscribers. Only reference counts keep the next message
  from overwriting it.
* *Memory that is reused at once.* The slab always hands out the first free
  buffer, so a connection freed now is the next one accepted, although a part
  of it, the latch, is still known to libuv.
* *Raw pointers.* Connections and channels point to each other. The last one
  to leave a channel frees it.
* *Shutdown.* A loop ends when its last handle is closed, so one handle
  forgotten hangs the process; a command is enqueued and its wakeup sent in two
  steps; nothing tells main that a worker is ready, or gone.

## Modules

| Module | Models |
|---|---|
| `Slab` | one pool as a function from buffer to count; alloc, ref, unref as operators |
| `PubSub` | abstract: what publish and play promise; publishers, audiences, inboxes |
| `RtmpLoop` | the RTMP thread: connections, channels, channel map, message and body buffers, the libuv loop; refines `PubSub` |
| `MCRtmpLoop` | instances of `RtmpLoop` for TLC |
| `ChunkReader` | the input of one connection: client, network, handshake, chunk reader |
| `ChunkWriter` | the output: the handlers that send, `video_rtmp_send`, the slab's pools, the client that reads |
| `Amf` | bodies of commands: decode, estimate and encode, byte by byte and call by call |
| `MCAmf` | instances of `Amf` for TLC |
| `Threads` | main and the two workers: start, signals, commands, shutdown |
| `Fifo` | abstract: a queue whose calls take effect at one instant |
| `Queue` | `util/queue.c` node by node, with its mutex; refines `Fifo` |
| `Dictionary` | abstract: items held under keys, freed once |
| `ListMap` | `util/list.c` and `util/map.c` cell by cell; refines `Dictionary` |
| `RtmpLoopProofs` (with the lemmas about `Slab`), `RtmpPubSubProofs`, `ChunkReaderProofs`, `ChunkWriterProofs`, `QueueProofs`, `ThreadsProofs`, `ListMapProofs`, `AmfProofs` | the theorems; each `RtmpXProofs` extends the one before it |

How they fit together:

* `RtmpLoop` is what runs inside the worker `"rtmp"` of `Threads`.
  `Process("rtmp")` with STOP is `Stop` of `RtmpLoop`, and `CloseWork("rtmp")`
  stands for everything until `Drained`; `StopDrains` is the property of
  `RtmpLoop` that lets `Threads` assume that `CloseWork` happens.
* `ChunkReader` is one connection seen from its bytes. What it dispatches is
  what `RtmpLoop` calls a complete message (`MessageComplete`); its `conn` is
  that of `RtmpLoop` without the accept.
* `ChunkWriter` writes what the commands and `Deliver` of `RtmpLoop` send, and
  `Amf` the bodies of the commands and of their answers.
* `Queue` implements `Fifo`, which is why `Threads` and `RtmpLoop` may use
  sequences for their queues; `ListMap` implements `Dictionary`, which is why
  `RtmpLoop` may use a function for the channel map and sets for clients and
  subscribers.

### RtmpLoop and the code

A connection is a block of memory that can hold a `video_rtmp_local_t`. Its
state `conn` is `free`, `new` (accepted, first polled in the next iteration),
`open` or `closing` (`uv_close` was called, the close callback has not run).
Each callback is one action:

| Action | Code |
|---|---|
| `NewConn` | `video_rtmp_newconn` |
| `ReadHeader` | `video_rtmp_header` obtaining a body buffer |
| `PublishMedia`, `IgnoreMessage` | `video_rtmp_body` + `video_rtmp_message` |
| `Publish`, `RejectPublish`, `Play` | the commands, with the channel functions they call |
| `Deliver` | `video_channel_deliver` + `video_rtmp_subscribe` |
| `Hangup` | `video_rtmp_readconn` with an error |
| `Stop` | `video_rtmp_async` with STOP |
| `EndPoll` | the loop goes from its poll phase to its closing phase |
| `RemoveUndecided`, `RemovePublisher`, `RemoveSubscriber` | `video_rtmp_remconn` |
| `FinishLatch` | libuv lets go of a closed latch |

libuv finishes in one closing phase the handles closed before it began; a latch
closed by a close callback waits for the next one, and a poll phase lies between
them. `endClients` and `endLatches` hold what the current phase will finish.
The order inside a phase is left open, which allows more than libuv does.

Data is abstract: a body holds one payload; META, VIDEO and AUDIO are one kind
of message; names and addresses are model values. A buffer whose count is 0 has
the contents `Garbage`, so that a premature release shows as wrong data. A
connection has one body buffer at a time, where the code has one per chunk
stream. A read callback may handle several messages; in the model other
callbacks may run between them, which again allows more; `ChunkReader` has the
calls of one read callback one after the other.

`SingleRole` is the one assumption about clients: each sends one `publish` or
one `play`. The code does not enforce it (see the hazard at `message.c:255`) and
nothing below is claimed for clients that break it, except `Typing` and
`StopIsComplete`, which do not need it.

### Threads and the code

Each access to state that two threads share is one step: a queue operation
(under the mutex of the queue), `uv_async_send`, taking a wakeup, the global
mutex, the end of a thread. In particular `video_make_async` is two steps,
`Enqueue` and `Wake`. `pending` is the flag in the `uv_async_t`. Where the code
has undefined behaviour or libuv calls `abort()` the variable `fault` says so
and the behaviour ends. A wakeup sent to a closed loop is a fault as in the
libuv of the time of this code (newer versions may drop it).

### ChunkReader and the code

TCP may cut the stream anywhere. `ReadBegin` takes a piece of it,
`HandshakeS0`, `HandshakeS1`, `HandshakeS2`, `ReadHeader` and `ReadBody` are
the calls of the loop in `video_rtmp_readconn`, one action per call, until
`ReadEnd`. `ReadHeader` is `video_rtmp_header`, `ReadBody` is `video_rtmp_body`
with `video_rtmp_message` (`Message`); `WriteDone` and `Remove` are the
callbacks of a write and of the close.

The client (`Hello`, `Acknowledge`, `Begin`, `Continue`, `Abort`) is written
from the RTMP format as far as the reader parses it. A byte is a token that
says what the client meant by it: which chunk it belongs to (`h`), which place
it has there (`at`) and what it is (`kind`). The reader counts bytes by its own
state. A chunk also carries `before` and `after`, what the client had done by
then (`Account`); these are history, which no action of the reader looks at.
When it takes a token for something else, what follows depends on the values of
the bytes: `misread` is set and the reader stops there, so nothing is claimed
about what happens afterwards. Times are kept as the client means them and as
the code adds them up; `Garbled` is a time read from the wrong bytes. `odd`
collects which unusual things the client did.

The sizes of fields are constants, so that the runs can use short headers; ids
keep their real width, because the sign of a byte matters (`Signed`).

### ChunkWriter and the code

`Announced` is the size that `video_rtmp_send` computes, `Alloc` the pool that
`video_slab_alloc` picks for it, `Written` what the writing loop writes, and
`Chunks` what libuv gets. `Expected` says, from the protocol and apart from
the code, which chunks a client waits for; `Receive` compares. Each handler is
one action with all of its sends: `Connect` (which changes the chunk size
before its last send), `CreateStream`, `PublishStatus`, `Play`, `Relay`,
`RelayVideo`. `p` is the static variable of the video clock.

### Amf and the code

A command is composed by a client, decoded, and answered; bodies are sequences
of real bytes. `FormatOf` and `FormatStep` are the format, written independently
of the code. The functions of the codec call themselves for the parts of a
value, and one action is one such call or its return:

| Action | Code |
|---|---|
| `Command`, `Compose`, `Submit` | the client, value by value; the body is complete |
| `DecodeCall` | a call of `video_amf_decode` up to the loop over its parts, or one round of `video_amf_decodeall` |
| `DecodeReturn` | the end of that loop: end mark, the value goes to the one it is part of |
| `CommandConnect`, `CommandCreate`, `CommandPublish` | the handlers that build an answer |
| `Estimate` | a call of `video_amf_estimate`, or its return |
| `Alloc` | the buffer of the estimated size |
| `Encode` | a call of `video_amf_encode`, or its return |
| `Send`, `Done` | the answer is sent, the list is freed |

`frames` is the C stack of the decoder: for every call its key, what it has of
its value, and how many parts it still expects. `walk` is the stack of the
functions that go over values: the client, the estimate, the encoder. `trail`
and `turn` are history: the walk with the place in the body (or in the buffer)
at every step, and the step that decoder or encoder has reached; `lost` tells
that the decoder met something it does not read as it is meant.

Two outcomes that C leaves unseen show up here: a decoder that reads on past the
body ends in `Over`, and the buffer of an answer is `Dirty` until written, so
that bytes nobody wrote are visible. Clients send values of the format
(`ValuesAssumption`): keys without zero bytes, strings and keys that fit their
lengths, arrays of less than 256 parts. A longer array can be read as a shorter
one (its size is not swapped), after which the rest of the body is anything;
what follows then is not modelled.

### Queue, ListMap and the code

`Queue` has one action for each access to the list: lock, each step of the
walk, linking a new node, filling it, reading the first node, freeing it,
moving the head, unlock. A freed node can be the next one allocated. `chain` is
a history variable, the nodes in order. `ListMap` keeps the array with all its
cells, those beyond `size` included, where the entry moved by a removal stays
behind; `Put`, `Remove`, `Get` and `Deinit` are the functions of the map with
the list functions they call.

## Runs

| Run | Question | Instance |
|---|---|---|
| `rtmp_connections` | Are connections, channels, channel map, latches, clients, reference counts and queues consistent in every order of events, and does the thread implement `PubSub`? | 3 connections, 2 names, 2 channels, 2 payloads, queues of 1 (and DONE), 5 messages, 2 bodies |
| `rtmp_live` | Does the loop end after STOP, and does every queue drain? | 2 connections, queues of 2, 3 bodies, with fairness |
| `rtmp_bodies` | (violated) Is every body released at the end? | 2 connections |
| `rtmp_sends` | (violated) Is every send buffer released at the end? | 2 connections |
| `threads_shutdown` | Which faults can happen and when; are commands stranded; do queues outlive their users; does SIGINT end the process? | 2 SIGINT, 2 SIGUSR1, with fairness |
| `reader_splits` | Do messages come out whole, in order, on time and at once, however the stream is cut? | 3 messages on 2 chunk streams, ids of 1 and 3 bytes, lengths 0 and 3, chunk size 2 changing to 3, reads of up to 5 bytes |
| `reader_unusual` | What makes the reader lose its way, and what happens to the rest? | 2 messages on 3 chunk streams, two of them with ids that collide, lengths 0, 4 and 5 with 4 the largest allowed, reads of up to 3 bytes, extended timestamps, ABORT, resizing, refusal, with fairness |
| `writer_chunks` | Does every send fit its buffer, do clients stay in step? | 2 connections, 3 handlers, chunk sizes 128 and 2048, pools of 16 to 8192 bytes, lengths 0, 1, 128, 2048, 4084, 4085 |
| `writer_huge` | (violated) Can everything that is accepted be relayed? | the real pools and lengths up to 2 MB |
| `amf_commands` | Which values decode as meant; do answers fit; which are well formed? | strings of 0, 1, 127, 128 and 256 bytes and one with a zero byte, keys of 1, 127 and 128, every type, nesting of two levels, bodies of up to 400 bytes |
| `queue_steps` | Is the linked list sound under concurrency, and a `Fifo`? | 3 threads, 3 nodes, 2 items |
| `map_steps` | Is the array sound under every removal, and a `Dictionary`? | 4 items, 2 keys |

**Why the bounds are enough.** Three connections give a publisher with two
subscribers, or two publishers competing while one client listens; memory reuse
needs one more accept than there are blocks, which every run has, as blocks are
reused without limit. Two names and two channel addresses let a channel be freed
and its address serve another name. `MaxQueue` limits what is broadcast to a
queue that nobody drains; DONE ignores it, because hangups cannot be refused.
The message pool is larger than what the queues of a run can hold. Body buffers
can run out, because orphaned ones never come back: then no further message is
read, which is the bound of the run, not of the code. Order within a queue is
what `rtmp_live` adds, with two messages in it.

In the reader runs a message of 3 bytes takes two chunks of 2 and one of 3, so
a change of the chunk size falls between messages and between chunks of another
stream; a read of 5 bytes ends at every place of a header and of a body, and
can hold the end of one message, a header and the start of the next; three
messages let two be in progress when the size changes. In `reader_unusual` a
message of 4 bytes takes two chunks, and its middle is no longer where a chunk
of 3 bytes ends. `MaxAhead` bounds what
waits to be read, so that chunks are read while later ones do not exist yet.
The lengths of `writer_chunks` are the ends of the first chunk at both chunk
sizes and the lengths at which header and body just fit, and no longer fit, a
pool. The lengths of `amf_commands` are the two sides of the sign of a byte and
the first one whose low byte is 0; the values nested in others are those that
leave something behind when they end (an end mark, nothing, a size not
swapped); 400 bytes are less than two of the longest strings take, so that
bodies are refused too. Three threads let one wait for the mutex
while two others follow each other over the same nodes; four items double the
array twice and leave holes at both ends and in the middle.

**Fairness.** `RtmpLoop`: libuv always finishes a loop iteration (weak fairness
of `EndPoll`, the close callbacks and `FinishLatch`). A wakeup makes a
descriptor readable until it is read, so the poll of every iteration reports it;
closing phases interrupt this, so `Deliver` gets strong fairness. Nothing forces
a client to act, a hangup or STOP to come. `Threads`: the operating system
schedules every thread; signals need not arrive. `ChunkReader`: libuv reads what
has arrived, and a callback runs to its end; the client need not send.

### What the runs found

* `rtmp_bodies`: `video_queue_deinit` releases queued messages but not their
  bodies. Each subscriber that leaves with media in its queue leaks them
  (`orphaned` counts this; `BodyCountExact` shows that it is the only leak).
* `rtmp_sends`: a wakeup handled between `uv_close` and the close callback calls
  `uv_write` on a closed handle. The error is ignored and the send buffer lost.
* `writer_huge`: the longest message that the reader accepts is as long as the
  largest buffer, and relaying it needs room for headers too. The slab answers
  0 and the answer is used as a pointer.
* `threads_shutdown`, by way of `FaultsExplained`: once both workers are up, one
  SIGINT is safe on its own, but not next to a SIGUSR1. The worker that SIGUSR1
  woke may take STOP from its queue and be gone before main sends the wakeup.

Other limits of the code are written into the properties, as the exact
condition under which the good outcome is lost:

* `MisreadExplained`: the reader loses its way only for extended timestamps
  (their four bytes are not skipped), ABORT (ignored), ids that the signed
  bytes confuse, and a chunk size changed while a message of another stream is
  cut elsewhere.
* `TimestampDrift`: every continuation chunk adds the time difference again.
* `Prompt`: a message without a body waits for the next byte of the stream.
* `InStep`: what is sent for an empty message is one byte short, and for a
  message whose time is 0xFFFFFF or later the extended timestamp is missing.
* `ClockSplit`: all subscribers draw their video times from one counter.
* `DecodedIntact`: lengths with a byte above 127 and arrays that are not empty
  are not decoded. `AnswerIntact`: an answer that repeats a strict array or a
  string with a zero byte is malformed.

## Proofs

TLAPS proves the following for every value of the constants. The proofs rest on
the named assumptions of each module (buffers are positive numbers, sentinels
differ from what they stand for, sets of connections and items are finite,
sizes of buffers and chunks are positive, chunk stream ids are those of the
format, 2 to 65599, values of AMF are those described above, bounds are natural
numbers) and on nothing else.

**RTMP thread.** Each theorem builds on the one before.

* `Typing`: `Spec => []TypeOK`. Alone, `TypeOK` is not inductive: a broadcast
  counts the subscribers of `pubchan[l]`, which must be a channel. The
  invariant adds that a client with a role has one (`RolesOK`).
* `StopIsComplete`: `Spec => []StopReachesAll`, with `Finishing` (the closing
  phase holds only closed connections), without which a freed connection might
  not have been the one taken off the list.
* `PointersMatch` and `MapMatches`: `ChannelsMatchConnections` and `MapExact`.
  The invariant adds that unused memory has no role (`FreeIdle`). The lemmas
  `FindOrCreateMap` and `LeaveMap` are the argument for the map: a channel is
  entered under a name that has none, and goes exactly when the step takes away
  its last user.
* `LatchesReusable` and `WakeupsArrive`: `LatchInv` adds
  that a latch is open exactly while its connection plays (`LatchPlays`), and
  that a latch which is still closing when the memory is in use again is among
  those that the current closing phase finishes (`LatchCloses`). The phase ends
  before anybody is polled, so nobody plays too early.
* `CountsAreExact` and `BodiesExclusive`: holders of a message or a body are
  finite sets, which grow or shrink by one with each step on a queue, or by all
  subscribers with a broadcast; `BodiesOnce` (a queue holds a body at most
  once) makes holders and places the same number.
* `ThreadIsPubSub` (`RtmpPubSubProofs`): the mapping reads the contents of
  buffers, so every step must be shown to leave alone what is still queued:
  what has a holder keeps a positive count, and what has a positive count is
  not overwritten (`HeldBodyCounts`). There is then one lemma per action.
* `PublicationsComplete`: `Bracketed`, inductive together with the above.

`PointersMatch` and everything after it assume `SingleRole`.

**Chunk writer.** `SendsWithinBuffer` is arithmetic: for positive chunk sizes
what is written exceeds what is announced by at most one byte, and only for
length 0, where the smallest buffer has room. `ClientsInStep` and
`ChunkSizesAgree` carry the chunk size that the client will have after every
message still on its way. `OneClock` is `ClockSplit`: the frames sent so far
are as many as the clock has ticked, and their times are its ticks (`Clocked`),
so a frame that is added is later than all. That is so for any number of
connections, since the frames are finitely many whatever the connections are.

**Chunk reader.** There are three invariants, each resting on those before it.

* `BufferInv` says who holds each of the four buffers. `BuffersReleased`
  (`BuffersBalanced`), `Echo` (`EchoIntact`) and, as an action property,
  `Silence` (`SilentAfterClose`) follow. It holds of any client.
* `TypeInv` is `TypeOK` with the types of everything else, of any client too:
  that the current chunk record exists, and holds no more than its message.
  `Typing` and `LoopEnds` (`EveryCallProgresses`) follow, with the bounds of
  what one call takes (`BodyTakeBounds`).
* `StreamInv` (`Streaming`) is about a client that has done nothing unusual,
  and a connection that is open. What is on its way, in the read or on the wire,
  is whole chunks of which the first may be read in part (`FlightInv`,
  `Carries`). Every chunk does to the client's account what its header says
  (`ChunkShape`) and belongs to a message of the client (`ChunkMeant`), and the
  next one begins with the account that it leaves. So the account at the
  reader's place in the stream is known, and the reader agrees with it: its
  chunk size, how many messages it handed over, and the record of every chunk
  stream in use (`Synced`). In a header the count of its bytes is the place in
  the chunk (`HeaderInv`); in a body, what the record holds is the place in the
  message (`BodyInv`); an empty message is complete and waits (`EmptyInv`).

  None of the properties below is inductive: that a message comes out right
  depends on bytes sent long before they are read, by a client which has gone on
  since, and for which another chunk size, other messages and other headers
  hold now. That is what the accounts in the chunks are for. The numbers come
  together in `RestOfChunk`: a chunk begins at a multiple of the chunk size, so
  the remainder by which the code finds its end is what was read of it.

  From it follow `Understood` (`MisreadExplained`), `InOrder`
  (`InOrderIntact`), `Drift` (`TimestampDrift`) and `NothingHeldBack`
  (`Prompt`), for all chunk sizes, ids, lengths, times, numbers of messages and
  ways of cutting the stream.

**Queue.** `ListIsSound`, `NodesAreLive`, `QueueIsFifo`: the mutex gives
exclusion (`Exclusive`), under which the memory is a list in every state but
between linking and filling a node, and between freeing and unlinking one
(`MemoryInv`, `ThreadInv`).

**Threads.** `Typing`, `CommandsArrive`, `QueuesOutliveThreads` and
`FaultsAreKnown`. The invariant describes main by what it still has to send
(`StopShapes`, `StatShapes`) and each thread by its phase (`Phases`, `Stops`).
What bounds the faults is that before a second SIGINT a thread is told to stop
once, while it works (`SingleStop`), and that without SIGUSR1 nobody but that
SIGINT wakes it (`OneWakeup`), so it cannot be gone before its wakeup.

**Map.** `ArrayIsSound` and `MapIsDictionary`; the invariant adds that an open
list has capacity for one entry at least, since doubling nothing leaves nothing.

**AMF codec.** `DecodingIntact` (`DecodedIntact`), `EstimatesCover`
(`EstimateCovers`) and `AnswersIntact` (`AnswerIntact`) hold for values of any
size and depth. Nothing is proved by induction over values: because a step is
one call or one return, the induction is the one over the steps of the
behaviour, and the trail says what each step must have done.

* The trail is the walk that `Start` and `Step` give (`Path`), and the body is
  what the format asks for at each of its steps (`Composed`). Estimating leaves
  the same kind of trail, in estimated lengths (`Counted`).
* While `lost` is false, the decoder is at a step of the client (`Followed`):
  its place is that of the trail, its stack is the one the client's stack
  stands for (`Frames`), with the parts done so far (`Begun`) and the number of
  those to come. `FramesEnter` and `FramesReturn` say that calls and returns
  keep this so, and `NoEndMark` that a part is never taken for an end mark.
* Once `lost` is true, a call on the stack expects more parts than there are
  bytes left in the body (`Astray`): a part takes at least one byte, so this
  stays true until the decoder reads beyond the end. This is why a body with an array in it is never taken for a complete one.
* The encoder follows the trail of the estimate (`Encoded`): its place is the
  estimate less four bytes for every strict array met, and without strict
  arrays and zero bytes the buffer holds the format's bytes up to it. The other
  direction needs what lies behind that place: a strict array leaves its size
  there, at most four bytes, and the rest is `Dirty`. The last value of an
  answer is a number or an object, which writes over some of the four, so an
  answer with a strict array in it ends in at least one byte that nobody wrote
  (`EndsWell`). One with zero bytes only is shorter than the format.

Only model-checked: all liveness (`StopDrains`, `QueuesDrain`,
`SigintEndsProcess`, `EventuallyDispatched`), which the provers here cannot
reach. Every other property of a passing run is a theorem. The refinements
proved are those of safety; the abstract specifications state no fairness.

## Not modelled

* The HMAC digests of the handshake: they decide which bytes of S1 and S2 are
  random and nothing else. Formatting of texts, logging and statistics output.
* Time stamps in `RtmpLoop`: what becomes of them on the way in is in
  `ChunkReader` (`TimestampDrift`), on the way out in `ChunkWriter`.
* Failures of `calloc`, whose result the code never checks, and of `uv_listen`,
  after which the process runs on without clients.
* Clients with several roles, which the code does not refuse: the second
  `uv_async_init` on a live latch corrupts libuv itself, and no model of this
  code says what follows.
* That queues are unbounded: a bound has to be put into the model
  (`MaxQueue`), so nothing can be said about a subscriber that never reads
  except that what it is sent stays in order.
* `video_amf_value_free`, as values are never changed or shared; `main.c:1-120`,
  a commented-out older program; the build file.
