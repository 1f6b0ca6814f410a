---------------------------- MODULE ThreadsProofs ----------------------------
(***************************************************************************)
(* Proofs about Threads, for any number of signals: its type invariant,    *)
(* that no command is stranded, that queues outlive their users, and which *)
(* faults are possible.                                                    *)
(***************************************************************************)
EXTENDS Threads, TLAPS

-----------------------------------------------------------------------------
(* What main has yet to send                                                 *)

(* The commands that a signal handler has not yet sent: a tail of one of the *)
(* two lists.                                                                *)
StopShapes ==
  { <<Command("rtmp", "stop"), Command("mp4", "stop"), Command("main", "stop")>>,
    <<Command("mp4", "stop"), Command("main", "stop")>>,
    <<Command("main", "stop")>>,
    <<>> }

StatShapes ==
  { <<Command("rtmp", "stat"), Command("mp4", "stat")>>,
    <<Command("mp4", "stat")>>,
    <<>> }

Shapes == StopShapes \cup StatShapes

Sends == [to : Threads, type : Commands]

Recipients(s) == {s[i].to : i \in DOMAIN s}
StopsTo(s) == {s[i].to : i \in {j \in DOMAIN s : s[j].type = "stop"}}

(* The commands that are not even enqueued.                                  *)
Ahead == IF queued THEN Tail(todo) ELSE todo

(* A queue holds a stop; it holds at most one.                               *)
Has(q) == \E i \in DOMAIN q : q[i] = "stop"
Once(q) == \A i, j \in DOMAIN q : q[i] = "stop" /\ q[j] = "stop" => i = j

HasStop(t) == Has(queue[t])

-----------------------------------------------------------------------------
(* The inductive invariant                                                   *)

Typed == TypeOK /\ (queued => todo # <<>>)

(* Commands are sent only while main's loop runs.                            *)
Sending == todo \in Shapes /\ (todo # <<>> => pc = "loop")

(* Only a running loop with an open latch drains its queue.                  *)
Draining ==
  /\ \A t \in Threads : t \in draining => latch[t] = "active"
  /\ \A w \in Workers : w \in draining => st[w] = "running"
  /\ "main" \in draining => pc = "loop"

(* A latch is initialised once, before its queue is used.                    *)
Starting ==
  /\ \A t \in Threads : latch[t] = "uninit" => queue[t] = <<>>
  /\ \A w \in Workers : latch[w] = "uninit" => st[w] = "absent" \/ st[w] = "created"
  /\ \A w \in Workers : st[w] = "absent" \/ st[w] = "created" => latch[w] = "uninit"
  /\ latch["main"] = "uninit" => pc = "create rtmp"
  /\ pc = "create rtmp" => latch["main"] = "uninit" /\ st["rtmp"] = "absent" /\ st["mp4"] = "absent"
  /\ pc = "create mp4" => st["mp4"] = "absent"
  /\ mapReady => pc \notin {"create rtmp", "create mp4", "init map"}

(* A loop ends after its latch, and queues are destroyed after all loops.    *)
Ending ==
  /\ \A w \in Workers : st[w] \in {"leaving", "done"} => latch[w] = "closed"
  /\ \A w \in loopClosed : st[w] \in {"leaving", "done"}
  /\ pc \in {"join", "done"} => latch["main"] = "closed"
  /\ destroyed # {} => pc = "done"
  /\ pc = "done" => \A w \in Workers : st[w] = "done"

Phases == Sending /\ Draining /\ Starting /\ Ending

(* Only a SIGINT stops threads.                                              *)
NeverStopped ==
  ints = 0 => /\ todo \in StatShapes /\ closeAfter = {}
              /\ \A t \in Threads : ~HasStop(t) /\ latch[t] # "closed"

(* Only a later signal sends anything to a thread that was told to stop.     *)
StoppedOnce ==
  ~late /\ ints > 0 =>
    /\ todo \in StopShapes
    /\ \A t \in Threads : t \in closeAfter \/ HasStop(t) => t \notin Recipients(Ahead)

ClosedAfterStop ==
  \A t \in Threads : latch[t] = "closed" => t \in closeAfter /\ (queue[t] # <<>> => late)

Stops == NeverStopped /\ StoppedOnce /\ ClosedAfterStop

(* Until the first SIGINT, the threads that it stops do their work.          *)
Working ==
  ints = 0 => /\ st["rtmp"] = "running" => work["rtmp"] = "open"
              /\ mapReady => work["main"] = "open"

(* Unless a signal came too early, all threads were ready at the first one.  *)
ReadyFirst == ~hasty /\ (todo # <<>> \/ ints > 0) => Ready

(* Before the second SIGINT, a thread is told to stop once, while it works.  *)
SingleStop ==
  ~hasty /\ ints < 2 =>
    \A t \in Threads :
      /\ t # "mp4" /\ (HasStop(t) \/ t \in StopsTo(Ahead)) => work[t] = "open"
      /\ HasStop(t) => t \notin StopsTo(Ahead)
      /\ Once(queue[t])

(* Without SIGUSR1, nobody but the one SIGINT wakes a thread.                *)
OneWakeup ==
  usrs = 0 /\ ints < 2 =>
    /\ ints = 0 => todo = <<>> /\ \A t \in Threads : ~pending[t] /\ t \notin draining
    /\ \A t \in Recipients(todo) : ~pending[t] /\ t \notin draining /\ latch[t] # "closed"

IInv ==
  /\ Typed /\ Phases /\ NoLostWakeup /\ Stops
  /\ Working /\ ReadyFirst /\ SingleStop /\ OneWakeup /\ FaultsExplained

-----------------------------------------------------------------------------
(* Sequences                                                                 *)

(* What enqueueing does to the stops in a queue.                             *)
LEMMA AppendStop ==
  ASSUME NEW q \in Seq(Commands), NEW c \in Commands
  PROVE  /\ Append(q, c) \in Seq(Commands) /\ Append(q, c) # <<>>
         /\ Has(Append(q, c)) <=> Has(q) \/ c = "stop"
         /\ Once(q) /\ (c = "stop" => ~Has(q)) => Once(Append(q, c))
<1>1. /\ Append(q, c) \in Seq(Commands) /\ Append(q, c) # <<>>
      /\ DOMAIN Append(q, c) = 1..(Len(q) + 1) /\ DOMAIN q = 1..Len(q) /\ Len(q) \in Nat
      /\ \A i \in 1..Len(q) : Append(q, c)[i] = q[i]
      /\ Append(q, c)[Len(q) + 1] = c
  OBVIOUS
<1>2. Has(Append(q, c)) <=> Has(q) \/ c = "stop"
  BY <1>1 DEF Has
<1>3. ASSUME Once(q), c = "stop" => ~Has(q)  PROVE Once(Append(q, c))
  BY <1>1, <1>3 DEF Once, Has
<1> QED  BY <1>1, <1>2, <1>3

(* What dequeueing does to them.                                             *)
LEMMA TailStop ==
  ASSUME NEW q \in Seq(Commands), q # <<>>
  PROVE  /\ Tail(q) \in Seq(Commands) /\ Head(q) \in Commands
         /\ Has(Tail(q)) => Has(q)
         /\ Head(q) = "stop" => Has(q)
         /\ Once(q) => Once(Tail(q)) /\ (Head(q) = "stop" => ~Has(Tail(q)))
<1>1. /\ Tail(q) \in Seq(Commands) /\ Head(q) \in Commands /\ Head(q) = q[1]
      /\ Len(q) \in Nat /\ Len(q) >= 1 /\ DOMAIN q = 1..Len(q)
      /\ DOMAIN Tail(q) = 1..(Len(q) - 1)
      /\ \A i \in 1..(Len(q) - 1) : Tail(q)[i] = q[i + 1]
  OBVIOUS
<1>2. (Has(Tail(q)) => Has(q)) /\ (Head(q) = "stop" => Has(q))
  BY <1>1 DEF Has
<1>3. ASSUME Once(q)  PROVE Once(Tail(q)) /\ (Head(q) = "stop" => ~Has(Tail(q)))
  <2>1. \A i \in 1..(Len(q) - 1) : i + 1 \in 1..Len(q) /\ i + 1 # 1
    BY <1>1
  <2> QED  BY <1>1, <1>3, <2>1 DEF Once, Has
<1> QED  BY <1>1, <1>2, <1>3

(* The commands of a signal handler go to different threads.                 *)
LEMMA ShapeFacts ==
  ASSUME NEW s \in Shapes, s # <<>>
  PROVE  /\ Head(s) \in Sends /\ Tail(s) \in Shapes
         /\ s \in StopShapes <=> Head(s).type = "stop"
         /\ s \in StatShapes <=> Head(s).type = "stat"
         /\ s \in StopShapes => Tail(s) \in StopShapes
         /\ s \in StatShapes => Tail(s) \in StatShapes
         /\ Head(s).to \notin Recipients(Tail(s))
         /\ Recipients(s) = {Head(s).to} \cup Recipients(Tail(s))
         /\ s \in StopShapes => StopsTo(s) = Recipients(s)
         /\ s \in StatShapes => StopsTo(s) = {}
<1>1. CASE s = <<Command("rtmp", "stop"), Command("mp4", "stop"), Command("main", "stop")>>
  BY <1>1 DEF Shapes, StopShapes, StatShapes, Sends, Recipients, StopsTo, Command, Threads, Workers, Commands
<1>2. CASE s = <<Command("mp4", "stop"), Command("main", "stop")>>
  BY <1>2 DEF Shapes, StopShapes, StatShapes, Sends, Recipients, StopsTo, Command, Threads, Workers, Commands
<1>3. CASE s = <<Command("main", "stop")>>
  BY <1>3 DEF Shapes, StopShapes, StatShapes, Sends, Recipients, StopsTo, Command, Threads, Workers, Commands
<1>4. CASE s = <<Command("rtmp", "stat"), Command("mp4", "stat")>>
  BY <1>4 DEF Shapes, StopShapes, StatShapes, Sends, Recipients, StopsTo, Command, Threads, Workers, Commands
<1>5. CASE s = <<Command("mp4", "stat")>>
  BY <1>5 DEF Shapes, StopShapes, StatShapes, Sends, Recipients, StopsTo, Command, Threads, Workers, Commands
<1> QED  BY <1>1, <1>2, <1>3, <1>4, <1>5 DEF Shapes, StopShapes, StatShapes

(* Which of them are stops.                                                  *)
LEMMA StopFacts ==
  ASSUME NEW s \in Shapes, s # <<>>
  PROVE  /\ Head(s).type = "stop" => StopsTo(s) = {Head(s).to} \cup StopsTo(Tail(s))
         /\ Head(s).type = "stat" => StopsTo(s) = {} /\ StopsTo(Tail(s)) = {}
         /\ Head(s).to \notin StopsTo(Tail(s))
<1>1. Tail(s) = <<>> => StopsTo(Tail(s)) = Recipients(Tail(s)) /\ StopsTo(Tail(s)) = {}
  BY DEF StopsTo, Recipients
<1>2. Tail(s) \in Shapes /\ Head(s).type \in Commands
  BY ShapeFacts DEF Sends
<1>3. CASE s \in StopShapes
  <2>1. StopsTo(Tail(s)) = Recipients(Tail(s))
    BY <1>1, <1>2, <1>3, ShapeFacts
  <2> QED  BY <1>3, <2>1, ShapeFacts
<1>4. CASE s \in StatShapes
  <2>1. StopsTo(Tail(s)) = {}
    BY <1>1, <1>2, <1>4, ShapeFacts
  <2> QED  BY <1>4, <2>1, ShapeFacts
<1> QED  BY <1>3, <1>4 DEF Shapes

-----------------------------------------------------------------------------
(* Types                                                                     *)

(* The names of the threads.                                                 *)
LEMMA Names ==
  /\ Workers \subseteq Threads
  /\ "rtmp" \in Workers /\ "mp4" \in Workers /\ "main" \in Threads /\ "main" \notin Workers
  /\ \A t \in Threads : t = "main" \/ t = "rtmp" \/ t = "mp4"
  /\ \A w \in Workers : w = "rtmp" \/ w = "mp4"
  BY DEF Workers, Threads

(* The two ends of a sequence.                                               *)
LEMMA HeadAndTail ==
  ASSUME NEW S, NEW s \in Seq(S), s # <<>>
  PROVE  Head(s) \in S /\ Tail(s) \in Seq(S)
  OBVIOUS

(* What main sends next, and after that.                                     *)
LEMMA TodoFacts ==
  ASSUME Typed, todo # <<>>
  PROVE  Head(todo) \in Sends /\ Tail(todo) \in Seq(Sends)
<1>1. todo \in Seq(Sends)
  BY DEF Typed, TypeOK, Sends
<1> QED  BY <1>1, HeadAndTail

(* The types at the start.                                                   *)
LEMMA InitTyped == Init => Typed
<1> SUFFICES ASSUME Init  PROVE Typed
  OBVIOUS
<1>1. st \in [Workers -> {"absent", "created", "entry", "running", "leaving", "done"}]
  BY DEF Init
<1>2. queue \in [Threads -> Seq(Commands)]
  <2>1. <<>> \in Seq(Commands)
    OBVIOUS
  <2> QED  BY <2>1 DEF Init
<1>3. latch \in [Threads -> {"uninit", "active", "closed"}]
  BY DEF Init
<1>4. pending \in [Threads -> BOOLEAN]
  BY DEF Init
<1>5. work \in [Threads -> {"none", "open", "closing"}]
  BY DEF Init
<1>6. todo \in Seq([to : Threads, type : Commands])
  <2>1. \A S : <<>> \in Seq(S)
    OBVIOUS
  <2>2. todo = <<>>
    BY DEF Init
  <2> QED  BY <2>1, <2>2
<1>7. ints \in 0..MaxInt /\ usrs \in 0..MaxUsr
  <2>1. ints = 0 /\ usrs = 0
    BY DEF Init
  <2> QED  BY <2>1, BoundAssumption
<1> QED  BY <1>1, <1>2, <1>3, <1>4, <1>5, <1>6, <1>7 DEF Init, Typed, TypeOK

(* What the signal handlers send.                                            *)
LEMMA SequenceOfCommands ==
  /\ <<Command("rtmp", "stop"), Command("mp4", "stop"), Command("main", "stop")>>
       \in Seq([to : Threads, type : Commands])
  /\ <<Command("rtmp", "stat"), Command("mp4", "stat")>> \in Seq([to : Threads, type : Commands])
<1>1. \A t \in Threads, c \in Commands : Command(t, c) \in [to : Threads, type : Commands]
  BY DEF Command
<1>2. {"stop", "stat"} \subseteq Commands
  BY DEF Commands
<1> DEFINE S == [to : Threads, type : Commands]
<1>3. Command("rtmp", "stop") \in S /\ Command("mp4", "stop") \in S /\ Command("main", "stop") \in S
  BY <1>1, <1>2, Names
<1>4. Command("rtmp", "stat") \in S /\ Command("mp4", "stat") \in S
  BY <1>1, <1>2, Names
<1> HIDE DEF S
<1>5. <<Command("rtmp", "stop"), Command("mp4", "stop"), Command("main", "stop")>> \in Seq(S)
  BY <1>3
<1>6. <<Command("rtmp", "stat"), Command("mp4", "stat")>> \in Seq(S)
  BY <1>4
<1> QED  BY <1>5, <1>6 DEF S

(* Every action keeps the types.                                             *)
LEMMA NextTyped ==
  ASSUME Typed, [Next]_vars
  PROVE  Typed'
<1>1. CASE CreateRtmp
  BY <1>1, Names DEF CreateRtmp, envVars, cbVars, Typed, TypeOK
<1>2. CASE CreateMp4
  BY <1>2, Names DEF CreateMp4, envVars, commVars, cbVars, Typed, TypeOK
<1>3. CASE InitMap
  BY <1>3, Names DEF InitMap, envVars, commVars, cbVars, Typed, TypeOK
<1>4. CASE Enqueue
  <2>1. Head(todo) \in Sends
    BY <1>4, TodoFacts DEF Enqueue
  <2>2. Head(todo).to \in Threads /\ Head(todo).type \in Commands
    BY <2>1 DEF Sends
  <2>3. queue' \in [Threads -> Seq(Commands)]
    <3>1. queue \in [Threads -> Seq(Commands)]
      BY DEF Typed, TypeOK
    <3>2. Append(queue[Head(todo).to], Head(todo).type) \in Seq(Commands)
      BY <2>2, <3>1, AppendStop
    <3> QED  BY <1>4, <3>1, <3>2 DEF Enqueue, commVars
  <2> QED  BY <1>4, <2>3 DEF Enqueue, envVars, cbVars, Typed, TypeOK
<1>5. CASE Wake
  <2>1. Head(todo) \in Sends /\ Tail(todo) \in Seq(Sends)
    BY <1>5, TodoFacts DEF Wake, Typed
  <2>2. pending' \in [Threads -> BOOLEAN]
    BY <1>5, <2>1 DEF Wake, Typed, TypeOK, Sends
  <2>3. todo' \in Seq([to : Threads, type : Commands]) /\ (queued' => todo' # <<>>)
    BY <1>5, <2>1 DEF Wake, Typed, TypeOK, Sends
  <2> QED  BY <1>5, <2>2, <2>3 DEF Wake, envVars, cbVars, Typed, TypeOK
<1>6. CASE EndLoop
  BY <1>6 DEF EndLoop, MainIdle, NoHandles, envVars, commVars, cbVars, Typed,
       TypeOK
<1>7. CASE Exit
  BY <1>7 DEF Exit, Joined, envVars, cbVars, Typed, TypeOK
<1>8. CASE Sigint
  <2>1. todo' \in Seq([to : Threads, type : Commands])
    BY <1>8, SequenceOfCommands DEF Sigint, Handle
  <2>2. ints' \in 0..MaxInt /\ usrs' \in 0..MaxUsr
    <3>1. ints \in 0..MaxInt /\ usrs \in 0..MaxUsr
      BY DEF Typed, TypeOK
    <3>2. ints < MaxInt /\ ints' = ints + 1 /\ usrs' = usrs
      BY <1>8 DEF Sigint
    <3> QED  BY <3>1, <3>2, BoundAssumption
  <2>3. ~queued'
    BY <1>8 DEF Sigint, Handle, MainIdle, Typed
  <2> QED  BY <1>8, <2>1, <2>2, <2>3 DEF Sigint, Handle, commVars, cbVars, Typed, TypeOK
<1>9. CASE Sigusr
  <2>1. todo' \in Seq([to : Threads, type : Commands])
    BY <1>9, SequenceOfCommands DEF Sigusr, Handle
  <2>2. ints' \in 0..MaxInt /\ usrs' \in 0..MaxUsr
    <3>1. ints \in 0..MaxInt /\ usrs \in 0..MaxUsr
      BY DEF Typed, TypeOK
    <3>2. usrs < MaxUsr /\ usrs' = usrs + 1 /\ ints' = ints
      BY <1>9 DEF Sigusr
    <3> QED  BY <3>1, <3>2, BoundAssumption
  <2>3. ~queued'
    BY <1>9 DEF Sigusr, Handle, MainIdle, Typed
  <2> QED  BY <1>9, <2>1, <2>2, <2>3 DEF Sigusr, Handle, commVars, cbVars, Typed, TypeOK
<1>10. CASE EarlyClient
  BY <1>10 DEF EarlyClient, mainVars, commVars, cbVars, Typed, TypeOK
<1>11. ASSUME NEW t \in Threads, StartDrain(t)  PROVE Typed'
  BY <1>11 DEF StartDrain, InLoop, MainIdle, mainVars, envVars, Typed, TypeOK
<1>12. ASSUME NEW t \in Threads, Process(t)  PROVE Typed'
  <2>1. queue' \in [Threads -> Seq(Commands)]
    <3>1. queue \in [Threads -> Seq(Commands)]
      BY DEF Typed, TypeOK
    <3>2. Tail(queue[t]) \in Seq(Commands)
      BY <1>12, <3>1, TailStop DEF Process
    <3> QED  BY <1>12, <3>1, <3>2 DEF Process
  <2>2. work' \in [Threads -> {"none", "open", "closing"}]
    BY <1>12 DEF Process, StopWork, Typed, TypeOK
  <2>3. fault' \in {"none", "loop of an uninitialised latch", "wakeup of a closed loop",
                "second stop", "channel map used before video_map_init"}
    BY <1>12 DEF Process, StopWork, Typed, TypeOK
  <2>4. closeAfter' \subseteq Threads
    BY <1>12 DEF Process, Typed, TypeOK
  <2> QED  BY <1>12, <2>1, <2>2, <2>3, <2>4 DEF Process, mainVars, envVars, Typed, TypeOK
<1>13. ASSUME NEW t \in Threads, EndDrain(t)  PROVE Typed'
  BY <1>13 DEF EndDrain, CloseLatch, NothingLeft, mainVars, envVars, Typed,
       TypeOK
<1>14. ASSUME NEW t \in Threads, CloseWork(t)  PROVE Typed'
  BY <1>14 DEF CloseWork, InLoop, MainIdle, mainVars, envVars, commVars,
       cbVars, Typed, TypeOK
<1>15. ASSUME NEW w \in Workers, InitLatch(w)  PROVE Typed'
  BY <1>15, Names DEF InitLatch, mainVars, envVars, cbVars, Typed, TypeOK
<1>16. ASSUME NEW w \in Workers, Enter(w)  PROVE Typed'
  BY <1>16, Names DEF Enter, mainVars, envVars, commVars, cbVars, Typed,
       TypeOK
<1>17. ASSUME NEW w \in Workers, Leave(w)  PROVE Typed'
  BY <1>17, Names DEF Leave, NoHandles, mainVars, envVars, commVars, cbVars,
       Typed, TypeOK
<1>18. ASSUME NEW w \in Workers, CloseLoop(w)  PROVE Typed'
  BY <1>18 DEF CloseLoop, mainVars, envVars, commVars, cbVars, Typed, TypeOK
<1>19. ASSUME NEW w \in Workers, Finish(w)  PROVE Typed'
  BY <1>19 DEF Finish, mainVars, envVars, commVars, cbVars, Typed, TypeOK
<1>20. CASE UNCHANGED vars
  BY <1>20 DEF vars, mainVars, envVars, commVars, cbVars, Typed, TypeOK
<1> QED  BY <1>1, <1>2, <1>3, <1>4, <1>5, <1>6, <1>7, <1>8, <1>9, <1>10,
     <1>11, <1>12, <1>13, <1>14, <1>15, <1>16, <1>17, <1>18, <1>19, <1>20
     DEF Next, Main, Loop, Worker, Environment, Ended

-----------------------------------------------------------------------------
(* Phases                                                                    *)

(* What most steps need of the types.                                        *)
Kinds ==
  /\ st \in [Workers -> {"absent", "created", "entry", "running", "leaving", "done"}]
  /\ queue \in [Threads -> Seq(Commands)]
  /\ latch \in [Threads -> {"uninit", "active", "closed"}]
  /\ pending \in [Threads -> BOOLEAN]
  /\ work \in [Threads -> {"none", "open", "closing"}]
  /\ draining \subseteq Threads /\ loopClosed \subseteq Workers /\ closeAfter \subseteq Threads
  /\ \A w \in Workers : w \in Threads /\ w # "main"
  /\ "rtmp" \in Workers /\ "mp4" \in Workers /\ "main" \in Threads

(* They follow from the types.                                               *)
LEMMA KindsHold == Typed => Kinds
  BY Names DEF Typed, TypeOK, Kinds

(* The phases at the start.                                                  *)
LEMMA InitPhases == Init => Phases
  BY Names DEF Init, Phases, Sending, Draining, Starting, Ending, Shapes, StopShapes

(* Every action keeps the phases.                                            *)
LEMMA NextPhases ==
  ASSUME Typed, Phases, [Next]_vars
  PROVE  Phases'
<1>0. Kinds
  BY KindsHold
<1>1. CASE CreateRtmp
  <2>1. Sending'
    BY <1>1, <1>0 DEF CreateRtmp, envVars, cbVars, Phases, Kinds, Sending
  <2>2. Draining'
    BY <1>1, <1>0 DEF CreateRtmp, envVars, cbVars, Phases, Kinds, Draining,
         Starting
  <2>3. Starting'
    BY <1>1, <1>0 DEF CreateRtmp, envVars, cbVars, Phases, Kinds, Starting
  <2>4. Ending'
    BY <1>1, <1>0 DEF CreateRtmp, envVars, cbVars, Phases, Kinds, Ending,
         Starting
  <2> QED  BY <2>1, <2>2, <2>3, <2>4 DEF Phases
<1>2. CASE CreateMp4
  <2>1. Sending'
    BY <1>2, <1>0 DEF CreateMp4, envVars, commVars, cbVars, Phases, Kinds,
         Sending
  <2>2. Draining'
    BY <1>2, <1>0 DEF CreateMp4, envVars, commVars, cbVars, Phases, Kinds,
         Draining, Starting
  <2>3. Starting'
    BY <1>2, <1>0 DEF CreateMp4, envVars, commVars, cbVars, Phases, Kinds,
         Starting
  <2>4. Ending'
    BY <1>2, <1>0 DEF CreateMp4, envVars, commVars, cbVars, Phases, Kinds,
         Ending, Starting
  <2> QED  BY <2>1, <2>2, <2>3, <2>4 DEF Phases
<1>3. CASE InitMap
  <2>1. Sending'
    BY <1>3, <1>0 DEF InitMap, envVars, commVars, cbVars, Phases, Kinds, Sending
  <2>2. Draining'
    BY <1>3, <1>0 DEF InitMap, envVars, commVars, cbVars, Phases, Kinds, Draining
  <2>3. Starting'
    BY <1>3, <1>0 DEF InitMap, envVars, commVars, cbVars, Phases, Kinds, Starting
  <2>4. Ending'
    BY <1>3, <1>0 DEF InitMap, envVars, commVars, cbVars, Phases, Kinds, Ending
  <2> QED  BY <2>1, <2>2, <2>3, <2>4 DEF Phases
<1>4. CASE Enqueue
  <2>0. Head(todo).to \in Threads
    BY <1>4, TodoFacts DEF Enqueue, Sends
  <2>1. Sending'
    BY <1>4, <1>0 DEF Enqueue, envVars, cbVars, Phases, Kinds, Sending
  <2>2. Draining'
    BY <1>4, <1>0 DEF Enqueue, envVars, cbVars, Phases, Kinds, Draining
  <2>3. Starting'
    <3>1. \A t \in Threads : latch'[t] = "uninit" => queue'[t] = <<>>
      <4>1. latch' = latch /\ (latch[Head(todo).to] = "uninit" => queue' = queue)
        BY <1>4 DEF Enqueue
      <4>2. ASSUME NEW t \in Threads, t # Head(todo).to  PROVE queue'[t] = queue[t]
        BY <1>4, <1>0, <4>2 DEF Enqueue, Kinds
      <4> QED  BY <4>1, <4>2 DEF Phases, Starting
    <3> QED  BY <1>4, <3>1 DEF Enqueue, Phases, Starting
  <2>4. Ending'
    BY <1>4, <1>0 DEF Enqueue, envVars, cbVars, Phases, Kinds, Ending
  <2> QED  BY <2>1, <2>2, <2>3, <2>4 DEF Phases
<1>5. CASE Wake
  <2>1. Sending'
    <3>1. todo \in Shapes /\ todo # <<>> /\ pc = "loop"
      BY <1>5 DEF Wake, Typed, Phases, Sending
    <3>2. Tail(todo) \in Shapes
      BY <3>1, ShapeFacts
    <3> QED  BY <1>5, <3>1, <3>2 DEF Wake, Sending
  <2>2. Draining'
    BY <1>5, <1>0 DEF Wake, envVars, cbVars, Phases, Kinds, Draining
  <2>3. Starting'
    BY <1>5, <1>0 DEF Wake, envVars, cbVars, Phases, Kinds, Starting
  <2>4. Ending'
    BY <1>5, <1>0 DEF Wake, envVars, cbVars, Phases, Kinds, Ending
  <2> QED  BY <2>1, <2>2, <2>3, <2>4 DEF Phases
<1>6. CASE EndLoop
  <2>1. Sending'
    BY <1>6, <1>0 DEF EndLoop, MainIdle, NoHandles, envVars, commVars, cbVars,
         Phases, Kinds, Sending
  <2>2. Draining'
    BY <1>6, <1>0 DEF EndLoop, MainIdle, NoHandles, envVars, commVars, cbVars,
         Phases, Kinds, Draining, Sending
  <2>3. Starting'
    BY <1>6, <1>0 DEF EndLoop, MainIdle, NoHandles, envVars, commVars, cbVars,
         Phases, Kinds, Starting
  <2>4. Ending'
    BY <1>6, <1>0 DEF EndLoop, MainIdle, NoHandles, envVars, commVars, cbVars,
         Phases, Kinds, Ending
  <2> QED  BY <2>1, <2>2, <2>3, <2>4 DEF Phases
<1>7. CASE Exit
  <2>1. Sending'
    BY <1>7, <1>0 DEF Exit, Joined, envVars, cbVars, Phases, Kinds, Sending
  <2>2. Draining'
    BY <1>7, <1>0 DEF Exit, Joined, envVars, cbVars, Phases, Kinds, Draining
  <2>3. Starting'
    BY <1>7, <1>0 DEF Exit, Joined, envVars, cbVars, Phases, Kinds, Starting
  <2>4. Ending'
    BY <1>7, <1>0 DEF Exit, Joined, envVars, cbVars, Phases, Kinds, Ending
  <2> QED  BY <2>1, <2>2, <2>3, <2>4 DEF Phases
<1>8. CASE Sigint
  <2>1. Sending'
    BY <1>8, <1>0 DEF Sigint, Handle, MainIdle, Command, commVars, cbVars,
         Phases, Kinds, Sending, Shapes, StopShapes
  <2>2. Draining'
    BY <1>8, <1>0 DEF Sigint, Handle, MainIdle, Command, commVars, cbVars,
         Phases, Kinds, Draining
  <2>3. Starting'
    BY <1>8, <1>0 DEF Sigint, Handle, MainIdle, Command, commVars, cbVars,
         Phases, Kinds, Starting
  <2>4. Ending'
    BY <1>8, <1>0 DEF Sigint, Handle, MainIdle, Command, commVars, cbVars,
         Phases, Kinds, Ending
  <2> QED  BY <2>1, <2>2, <2>3, <2>4 DEF Phases
<1>9. CASE Sigusr
  <2>1. Sending'
    BY <1>9, <1>0 DEF Sigusr, Handle, MainIdle, Command, commVars, cbVars,
         Phases, Kinds, Sending, Shapes, StatShapes
  <2>2. Draining'
    BY <1>9, <1>0 DEF Sigusr, Handle, MainIdle, Command, commVars, cbVars,
         Phases, Kinds, Draining
  <2>3. Starting'
    BY <1>9, <1>0 DEF Sigusr, Handle, MainIdle, Command, commVars, cbVars,
         Phases, Kinds, Starting
  <2>4. Ending'
    BY <1>9, <1>0 DEF Sigusr, Handle, MainIdle, Command, commVars, cbVars,
         Phases, Kinds, Ending
  <2> QED  BY <2>1, <2>2, <2>3, <2>4 DEF Phases
<1>10. CASE EarlyClient
  <2>1. Sending'
    BY <1>10, <1>0 DEF EarlyClient, mainVars, commVars, cbVars, Phases, Kinds,
         Sending
  <2>2. Draining'
    BY <1>10, <1>0 DEF EarlyClient, mainVars, commVars, cbVars, Phases, Kinds,
         Draining
  <2>3. Starting'
    BY <1>10, <1>0 DEF EarlyClient, mainVars, commVars, cbVars, Phases, Kinds,
         Starting
  <2>4. Ending'
    BY <1>10, <1>0 DEF EarlyClient, mainVars, commVars, cbVars, Phases, Kinds,
         Ending
  <2> QED  BY <2>1, <2>2, <2>3, <2>4 DEF Phases
<1>11. ASSUME NEW t \in Threads, StartDrain(t)  PROVE Phases'
  <2>1. Sending'
    BY <1>11, <1>0 DEF StartDrain, InLoop, MainIdle, mainVars, envVars, Phases,
         Kinds, Sending
  <2>2. Draining'
    BY <1>11, <1>0 DEF StartDrain, InLoop, MainIdle, mainVars, envVars, Phases,
         Kinds, Draining
  <2>3. Starting'
    BY <1>11, <1>0 DEF StartDrain, InLoop, MainIdle, mainVars, envVars, Phases,
         Kinds, Starting
  <2>4. Ending'
    BY <1>11, <1>0 DEF StartDrain, InLoop, MainIdle, mainVars, envVars, Phases,
         Kinds, Ending
  <2> QED  BY <2>1, <2>2, <2>3, <2>4 DEF Phases
<1>12. ASSUME NEW t \in Threads, Process(t)  PROVE Phases'
  <2>1. Sending'
    BY <1>12, <1>0 DEF Process, StopWork, mainVars, envVars, Phases, Kinds,
         Sending
  <2>2. Draining'
    BY <1>12, <1>0 DEF Process, StopWork, mainVars, envVars, Phases, Kinds,
         Draining
  <2>3. Starting'
    BY <1>12, <1>0 DEF Process, StopWork, mainVars, envVars, Phases, Kinds,
         Starting
  <2>4. Ending'
    BY <1>12, <1>0 DEF Process, StopWork, mainVars, envVars, Phases, Kinds, Ending
  <2> QED  BY <2>1, <2>2, <2>3, <2>4 DEF Phases
<1>13. ASSUME NEW t \in Threads, EndDrain(t)  PROVE Phases'
  <2>1. Sending'
    BY <1>13, <1>0 DEF EndDrain, CloseLatch, NothingLeft, mainVars, envVars,
         Phases, Kinds, Sending
  <2>2. Draining'
    BY <1>13, <1>0 DEF EndDrain, CloseLatch, NothingLeft, mainVars, envVars,
         Phases, Kinds, Draining
  <2>3. Starting'
    BY <1>13, <1>0 DEF EndDrain, CloseLatch, NothingLeft, mainVars, envVars,
         Phases, Kinds, Starting, Draining
  <2>4. Ending'
    BY <1>13, <1>0 DEF EndDrain, CloseLatch, NothingLeft, mainVars, envVars,
         Phases, Kinds, Ending
  <2> QED  BY <2>1, <2>2, <2>3, <2>4 DEF Phases
<1>14. ASSUME NEW t \in Threads, CloseWork(t)  PROVE Phases'
  <2>1. Sending'
    BY <1>14, <1>0 DEF CloseWork, InLoop, MainIdle, mainVars, envVars, commVars,
         cbVars, Phases, Kinds, Sending
  <2>2. Draining'
    BY <1>14, <1>0 DEF CloseWork, InLoop, MainIdle, mainVars, envVars, commVars,
         cbVars, Phases, Kinds, Draining
  <2>3. Starting'
    BY <1>14, <1>0 DEF CloseWork, InLoop, MainIdle, mainVars, envVars, commVars,
         cbVars, Phases, Kinds, Starting
  <2>4. Ending'
    BY <1>14, <1>0 DEF CloseWork, InLoop, MainIdle, mainVars, envVars, commVars,
         cbVars, Phases, Kinds, Ending
  <2> QED  BY <2>1, <2>2, <2>3, <2>4 DEF Phases
<1>15. ASSUME NEW w \in Workers, InitLatch(w)  PROVE Phases'
  <2>1. Sending'
    BY <1>15, <1>0 DEF InitLatch, mainVars, envVars, cbVars, Phases, Kinds,
         Sending
  <2>2. Draining'
    BY <1>15, <1>0 DEF InitLatch, mainVars, envVars, cbVars, Phases, Kinds,
         Draining, Starting
  <2>3. Starting'
    BY <1>15, <1>0 DEF InitLatch, mainVars, envVars, cbVars, Phases, Kinds,
         Starting
  <2>4. Ending'
    BY <1>15, <1>0 DEF InitLatch, mainVars, envVars, cbVars, Phases, Kinds, Ending
  <2> QED  BY <2>1, <2>2, <2>3, <2>4 DEF Phases
<1>16. ASSUME NEW w \in Workers, Enter(w)  PROVE Phases'
  <2>1. Sending'
    BY <1>16, <1>0 DEF Enter, mainVars, envVars, commVars, cbVars, Phases, Kinds,
         Sending
  <2>2. Draining'
    BY <1>16, <1>0 DEF Enter, mainVars, envVars, commVars, cbVars, Phases, Kinds,
         Draining
  <2>3. Starting'
    BY <1>16, <1>0 DEF Enter, mainVars, envVars, commVars, cbVars, Phases, Kinds,
         Starting
  <2>4. Ending'
    BY <1>16, <1>0 DEF Enter, mainVars, envVars, commVars, cbVars, Phases, Kinds,
         Ending
  <2> QED  BY <2>1, <2>2, <2>3, <2>4 DEF Phases
<1>17. ASSUME NEW w \in Workers, Leave(w)  PROVE Phases'
  <2>1. Sending'
    BY <1>17, <1>0 DEF Leave, NoHandles, mainVars, envVars, commVars, cbVars,
         Phases, Kinds, Sending
  <2>2. Draining'
    BY <1>17, <1>0 DEF Leave, NoHandles, mainVars, envVars, commVars, cbVars,
         Phases, Kinds, Draining, Ending
  <2>3. Starting'
    BY <1>17, <1>0 DEF Leave, NoHandles, mainVars, envVars, commVars, cbVars,
         Phases, Kinds, Starting
  <2>4. Ending'
    BY <1>17, <1>0 DEF Leave, NoHandles, mainVars, envVars, commVars, cbVars,
         Phases, Kinds, Ending
  <2> QED  BY <2>1, <2>2, <2>3, <2>4 DEF Phases
<1>18. ASSUME NEW w \in Workers, CloseLoop(w)  PROVE Phases'
  <2>1. Sending'
    BY <1>18, <1>0 DEF CloseLoop, mainVars, envVars, commVars, cbVars, Phases,
         Kinds, Sending
  <2>2. Draining'
    BY <1>18, <1>0 DEF CloseLoop, mainVars, envVars, commVars, cbVars, Phases,
         Kinds, Draining
  <2>3. Starting'
    BY <1>18, <1>0 DEF CloseLoop, mainVars, envVars, commVars, cbVars, Phases,
         Kinds, Starting
  <2>4. Ending'
    BY <1>18, <1>0 DEF CloseLoop, mainVars, envVars, commVars, cbVars, Phases,
         Kinds, Ending
  <2> QED  BY <2>1, <2>2, <2>3, <2>4 DEF Phases
<1>19. ASSUME NEW w \in Workers, Finish(w)  PROVE Phases'
  <2>1. Sending'
    BY <1>19, <1>0 DEF Finish, mainVars, envVars, commVars, cbVars, Phases, Kinds,
         Sending
  <2>2. Draining'
    BY <1>19, <1>0 DEF Finish, mainVars, envVars, commVars, cbVars, Phases, Kinds,
         Draining
  <2>3. Starting'
    BY <1>19, <1>0 DEF Finish, mainVars, envVars, commVars, cbVars, Phases, Kinds,
         Starting
  <2>4. Ending'
    BY <1>19, <1>0 DEF Finish, mainVars, envVars, commVars, cbVars, Phases, Kinds,
         Ending
  <2> QED  BY <2>1, <2>2, <2>3, <2>4 DEF Phases
<1>20. CASE UNCHANGED vars
  BY <1>20 DEF vars, mainVars, envVars, commVars, cbVars, Phases, Sending,
       Draining, Starting, Ending
<1> QED  BY <1>1, <1>2, <1>3, <1>4, <1>5, <1>6, <1>7, <1>8, <1>9, <1>10,
     <1>11, <1>12, <1>13, <1>14, <1>15, <1>16, <1>17, <1>18, <1>19, <1>20
     DEF Next, Main, Loop, Worker, Environment, Ended

-----------------------------------------------------------------------------
(* No command is stranded                                                    *)

(* Nothing is enqueued at the start.                                         *)
LEMMA InitNoLostWakeup == Init => NoLostWakeup
  BY DEF Init, NoLostWakeup

(* A command is enqueued before its wakeup is sent, and a wakeup is cleared  *)
(* before the queue is drained.                                              *)
LEMMA NextNoLostWakeup ==
  ASSUME Typed, Phases, NoLostWakeup, [Next]_vars
  PROVE  NoLostWakeup'
<1>0. Kinds
  BY KindsHold
<1>1. CASE CreateRtmp
  BY <1>1, <1>0 DEF CreateRtmp, envVars, cbVars, NoLostWakeup, Kinds, Alive,
       Phases, Starting
<1>2. CASE CreateMp4
  BY <1>2, <1>0 DEF CreateMp4, envVars, commVars, cbVars, NoLostWakeup, Kinds,
       Alive
<1>3. CASE InitMap
  BY <1>3, <1>0 DEF InitMap, envVars, commVars, cbVars, NoLostWakeup, Kinds,
       Alive
<1>4. CASE Enqueue
  BY <1>4, <1>0 DEF Enqueue, envVars, cbVars, NoLostWakeup, Kinds, Alive
<1>5. CASE Wake
  BY <1>5, <1>0 DEF Wake, envVars, cbVars, NoLostWakeup, Kinds, Alive
<1>6. CASE EndLoop
  BY <1>6, <1>0 DEF EndLoop, MainIdle, NoHandles, envVars, commVars, cbVars,
       NoLostWakeup, Kinds, Alive
<1>7. CASE Exit
  BY <1>7, <1>0 DEF Exit, Joined, envVars, cbVars, NoLostWakeup, Kinds, Alive
<1>8. CASE Sigint
  BY <1>8, <1>0 DEF Sigint, Handle, MainIdle, Command, commVars, cbVars,
       NoLostWakeup, Kinds, Alive, Typed
<1>9. CASE Sigusr
  BY <1>9, <1>0 DEF Sigusr, Handle, MainIdle, Command, commVars, cbVars,
       NoLostWakeup, Kinds, Alive, Typed
<1>10. CASE EarlyClient
  BY <1>10, <1>0 DEF EarlyClient, mainVars, commVars, cbVars, NoLostWakeup,
       Kinds, Alive
<1>11. ASSUME NEW t \in Threads, StartDrain(t)  PROVE NoLostWakeup'
  BY <1>11, <1>0 DEF StartDrain, InLoop, MainIdle, mainVars, envVars,
       NoLostWakeup, Kinds, Alive
<1>12. ASSUME NEW t \in Threads, Process(t)  PROVE NoLostWakeup'
  BY <1>12, <1>0 DEF Process, StopWork, mainVars, envVars, NoLostWakeup,
       Kinds, Alive
<1>13. ASSUME NEW t \in Threads, EndDrain(t)  PROVE NoLostWakeup'
  BY <1>13, <1>0 DEF EndDrain, CloseLatch, NothingLeft, mainVars, envVars,
       NoLostWakeup, Kinds, Alive
<1>14. ASSUME NEW t \in Threads, CloseWork(t)  PROVE NoLostWakeup'
  BY <1>14, <1>0 DEF CloseWork, InLoop, MainIdle, mainVars, envVars, commVars,
       cbVars, NoLostWakeup, Kinds, Alive
<1>15. ASSUME NEW w \in Workers, InitLatch(w)  PROVE NoLostWakeup'
  BY <1>15, <1>0 DEF InitLatch, mainVars, envVars, cbVars, NoLostWakeup,
       Kinds, Alive, Phases, Starting
<1>16. ASSUME NEW w \in Workers, Enter(w)  PROVE NoLostWakeup'
  BY <1>16, <1>0 DEF Enter, mainVars, envVars, commVars, cbVars, NoLostWakeup,
       Kinds, Alive
<1>17. ASSUME NEW w \in Workers, Leave(w)  PROVE NoLostWakeup'
  BY <1>17, <1>0 DEF Leave, NoHandles, mainVars, envVars, commVars, cbVars,
       NoLostWakeup, Kinds, Alive
<1>18. ASSUME NEW w \in Workers, CloseLoop(w)  PROVE NoLostWakeup'
  BY <1>18, <1>0 DEF CloseLoop, mainVars, envVars, commVars, cbVars,
       NoLostWakeup, Kinds, Alive
<1>19. ASSUME NEW w \in Workers, Finish(w)  PROVE NoLostWakeup'
  BY <1>19, <1>0 DEF Finish, mainVars, envVars, commVars, cbVars,
       NoLostWakeup, Kinds, Alive
<1>20. CASE UNCHANGED vars
  BY <1>20 DEF vars, mainVars, envVars, commVars, cbVars, NoLostWakeup, Kinds,
       Alive
<1> QED  BY <1>1, <1>2, <1>3, <1>4, <1>5, <1>6, <1>7, <1>8, <1>9, <1>10,
     <1>11, <1>12, <1>13, <1>14, <1>15, <1>16, <1>17, <1>18, <1>19, <1>20
     DEF Next, Main, Loop, Worker, Environment, Ended

-----------------------------------------------------------------------------
(* Who is told to stop                                                       *)

(* The signals are counted.                                                  *)
LEMMA Counters == Typed => ints \in Nat /\ usrs \in Nat
<1>1. TypeOK => ints \in 0..MaxInt /\ usrs \in 0..MaxUsr
  BY DEF TypeOK
<1> QED  BY <1>1, BoundAssumption DEF Typed

(* Nobody is told to stop at the start.                                      *)
LEMMA InitStops == Init => Stops
<1> SUFFICES ASSUME Init  PROVE Stops
  OBVIOUS
<1>1. \A t \in Threads : ~HasStop(t)
  <2>1. ~Has(<<>>)
    BY DEF Has
  <2> QED  BY <2>1 DEF Init, HasStop
<1>2. ints = 0 /\ todo \in StatShapes
  BY DEF Init, StatShapes
<1>3. NeverStopped
  BY <1>1, <1>2 DEF Init, NeverStopped
<1>4. StoppedOnce /\ ClosedAfterStop
  <2>1. ~(ints > 0)
    BY <1>2
  <2> QED  BY <2>1 DEF Init, StoppedOnce, ClosedAfterStop
<1> QED  BY <1>3, <1>4 DEF Stops

(* What Enqueue does to the queues and to what is ahead.                     *)
LEMMA EnqueueFacts ==
  ASSUME Typed, Phases, Enqueue, latch[Head(todo).to] # "uninit"
  PROVE  /\ \A t \in Threads :
              /\ HasStop(t)' <=> HasStop(t) \/ (t = Head(todo).to /\ Head(todo).type = "stop")
              /\ t # Head(todo).to => queue'[t] = queue[t]
         /\ Ahead = todo /\ Ahead' = Tail(todo)
<1>1. Head(todo).to \in Threads /\ Head(todo).type \in Commands
  BY TodoFacts DEF Enqueue, Sends
<1>2. queue' = [queue EXCEPT ![Head(todo).to] = Append(@, Head(todo).type)]
      /\ queued' /\ ~queued /\ todo' = todo
  BY DEF Enqueue
<1>3. queue \in [Threads -> Seq(Commands)]
  BY DEF Typed, TypeOK
<1>4. ASSUME NEW t \in Threads, t # Head(todo).to  PROVE queue'[t] = queue[t]
  BY <1>2, <1>3, <1>4
<1>5. queue'[Head(todo).to] = Append(queue[Head(todo).to], Head(todo).type)
  BY <1>1, <1>2, <1>3
<1>6. HasStop(Head(todo).to)' <=> HasStop(Head(todo).to) \/ Head(todo).type = "stop"
  BY <1>1, <1>2, <1>3, <1>5, AppendStop DEF HasStop
<1> QED  BY <1>2, <1>4, <1>6 DEF HasStop, Ahead

(* Wake leaves what is ahead.                                                *)
LEMMA WakeFacts ==
  ASSUME Typed, Wake
  PROVE  Ahead' = Ahead
  BY DEF Wake, Ahead

(* What Process does to its queue.                                           *)
LEMMA ProcessFacts ==
  ASSUME Typed, NEW t \in Threads, Process(t)
  PROVE  /\ HasStop(t)' => HasStop(t)
         /\ Head(queue[t]) = "stop" => HasStop(t)
         /\ \A u \in Threads : u # t => queue'[u] = queue[u]
         /\ Once(queue[t]) => Once(queue'[t]) /\ (Head(queue[t]) = "stop" => ~HasStop(t)')
<1>1. queue \in [Threads -> Seq(Commands)]
  BY DEF Typed, TypeOK
<1>2. queue' = [queue EXCEPT ![t] = Tail(@)] /\ queue[t] # <<>>
  BY DEF Process
<1>3. queue'[t] = Tail(queue[t])
  BY <1>1, <1>2
<1>4. \A u \in Threads : u # t => queue'[u] = queue[u]
  BY <1>1, <1>2
<1>5. queue[t] \in Seq(Commands)
  BY <1>1
<1> QED  BY <1>2, <1>3, <1>4, <1>5, TailStop DEF HasStop

(* Every action keeps track of who is told to stop.                          *)
LEMMA NextStops ==
  ASSUME Typed, Phases, Stops, [Next]_vars
  PROVE  Stops'
<1>0. Kinds
  BY KindsHold
<1>1. CASE CreateRtmp
  <2>1. NeverStopped'
    BY <1>1, <1>0 DEF CreateRtmp, envVars, cbVars, Stops, Kinds, NeverStopped,
         HasStop
  <2>2. StoppedOnce'
    BY <1>1, <1>0 DEF CreateRtmp, envVars, cbVars, Stops, Kinds, StoppedOnce,
         HasStop, Ahead
  <2>3. ClosedAfterStop'
    BY <1>1, <1>0 DEF CreateRtmp, envVars, cbVars, Stops, Kinds, ClosedAfterStop
  <2> QED  BY <2>1, <2>2, <2>3 DEF Stops
<1>2. CASE CreateMp4
  <2>1. NeverStopped'
    BY <1>2, <1>0 DEF CreateMp4, envVars, commVars, cbVars, Stops, Kinds,
         NeverStopped, HasStop
  <2>2. StoppedOnce'
    BY <1>2, <1>0 DEF CreateMp4, envVars, commVars, cbVars, Stops, Kinds,
         StoppedOnce, HasStop, Ahead
  <2>3. ClosedAfterStop'
    BY <1>2, <1>0 DEF CreateMp4, envVars, commVars, cbVars, Stops, Kinds,
         ClosedAfterStop
  <2> QED  BY <2>1, <2>2, <2>3 DEF Stops
<1>3. CASE InitMap
  <2>1. NeverStopped'
    BY <1>3, <1>0 DEF InitMap, envVars, commVars, cbVars, Stops, Kinds,
         NeverStopped, HasStop
  <2>2. StoppedOnce'
    BY <1>3, <1>0 DEF InitMap, envVars, commVars, cbVars, Stops, Kinds,
         StoppedOnce, HasStop, Ahead
  <2>3. ClosedAfterStop'
    BY <1>3, <1>0 DEF InitMap, envVars, commVars, cbVars, Stops, Kinds,
         ClosedAfterStop
  <2> QED  BY <2>1, <2>2, <2>3 DEF Stops
<1>4. CASE Enqueue
  <2>1. todo \in Shapes /\ todo # <<>> /\ ~queued
    BY <1>4 DEF Enqueue, Phases, Sending
  <2>2. Head(todo).to \in Threads
    BY <2>1, TodoFacts DEF Sends
  <2>3. CASE latch[Head(todo).to] = "uninit"
    BY <1>4, <2>3 DEF Enqueue, envVars, cbVars, Stops, NeverStopped, StoppedOnce, ClosedAfterStop,
          HasStop, Ahead
  <2>4. CASE latch[Head(todo).to] # "uninit"
    <3>1. ints' = ints /\ late' = late /\ closeAfter' = closeAfter /\ latch' = latch /\ todo' = todo
      BY <1>4 DEF Enqueue, envVars, cbVars
    <3>2. NeverStopped'
      BY <1>4, <2>1, <2>4, <3>1, EnqueueFacts, ShapeFacts DEF Stops, NeverStopped
    <3>3. StoppedOnce'
      <4>1. Recipients(todo) = {Head(todo).to} \cup Recipients(Tail(todo))
            /\ Head(todo).to \notin Recipients(Tail(todo))
        BY <2>1, ShapeFacts
      <4>2. ASSUME ~late, ints > 0  PROVE todo \in StopShapes
        BY <4>2 DEF Stops, StoppedOnce
      <4>3. ASSUME ~late, ints > 0, NEW t \in Threads, t \in closeAfter \/ HasStop(t)'
            PROVE  t \notin Recipients(Tail(todo))
        <5>1. CASE t = Head(todo).to
          BY <4>1, <5>1
        <5>2. CASE t # Head(todo).to
          <6>1. t \in closeAfter \/ HasStop(t)
            BY <1>4, <2>4, <4>3, <5>2, EnqueueFacts
          <6>2. t \notin Recipients(Ahead)
            BY <4>3, <6>1 DEF Stops, StoppedOnce
          <6> QED  BY <1>4, <2>4, <4>1, <6>2, EnqueueFacts
        <5> QED  BY <5>1, <5>2
      <4>4. Ahead' = Tail(todo)
        BY <1>4, <2>4, EnqueueFacts
      <4> QED  BY <3>1, <4>2, <4>3, <4>4 DEF StoppedOnce
    <3>4. latch[Head(todo).to] = "closed" => late
      <4>1. SUFFICES ASSUME latch[Head(todo).to] = "closed", ~late  PROVE FALSE
        OBVIOUS
      <4>2. Head(todo).to \in closeAfter
        BY <2>2, <4>1 DEF Stops, ClosedAfterStop
      <4>3. Head(todo).to \in Recipients(Ahead)
        BY <1>4, <2>1, <2>4, EnqueueFacts, ShapeFacts
      <4>4. ints # 0 /\ ints \in Nat
        BY <2>2, <4>1, Counters DEF Stops, NeverStopped
      <4> QED  BY <2>2, <4>1, <4>2, <4>3, <4>4 DEF Stops, StoppedOnce
    <3>5. ClosedAfterStop'
      BY <1>4, <2>4, <3>1, <3>4, EnqueueFacts DEF Stops, ClosedAfterStop
    <3> QED  BY <3>2, <3>3, <3>5 DEF Stops
  <2> QED  BY <2>3, <2>4
<1>5. CASE Wake
  <2>1. todo \in Shapes /\ todo # <<>> /\ (todo' = todo \/ todo' = Tail(todo))
    BY <1>5 DEF Wake, Typed, Phases, Sending
  <2>2. ints' = ints /\ late' = late /\ closeAfter' = closeAfter /\ latch' = latch /\ queue' = queue
    BY <1>5 DEF Wake, envVars, cbVars
  <2>6. (todo \in StatShapes => todo' \in StatShapes) /\ (todo \in StopShapes => todo' \in StopShapes)
    <3>1. Tail(todo) \in Shapes /\ (todo \in StatShapes => Tail(todo) \in StatShapes)
          /\ (todo \in StopShapes => Tail(todo) \in StopShapes)
      BY <2>1, ShapeFacts
    <3> QED  BY <2>1, <3>1
  <2>3. NeverStopped'
    BY <2>2, <2>6 DEF Stops, NeverStopped, HasStop
  <2>4. StoppedOnce'
    <3>1. Ahead' = Ahead
      BY <1>5, WakeFacts
    <3> QED  BY <2>2, <2>6, <3>1 DEF Stops, StoppedOnce, HasStop
  <2>5. ClosedAfterStop'
    BY <2>2 DEF Stops, ClosedAfterStop
  <2> QED  BY <2>3, <2>4, <2>5 DEF Stops
<1>6. CASE EndLoop
  <2>1. NeverStopped'
    BY <1>6, <1>0 DEF EndLoop, MainIdle, NoHandles, envVars, commVars, cbVars,
         Stops, Kinds, NeverStopped, HasStop
  <2>2. StoppedOnce'
    BY <1>6, <1>0 DEF EndLoop, MainIdle, NoHandles, envVars, commVars, cbVars,
         Stops, Kinds, StoppedOnce, HasStop, Ahead
  <2>3. ClosedAfterStop'
    BY <1>6, <1>0 DEF EndLoop, MainIdle, NoHandles, envVars, commVars, cbVars,
         Stops, Kinds, ClosedAfterStop
  <2> QED  BY <2>1, <2>2, <2>3 DEF Stops
<1>7. CASE Exit
  <2>1. NeverStopped'
    BY <1>7, <1>0 DEF Exit, Joined, envVars, cbVars, Stops, Kinds, NeverStopped,
         HasStop
  <2>2. StoppedOnce'
    BY <1>7, <1>0 DEF Exit, Joined, envVars, cbVars, Stops, Kinds, StoppedOnce,
         HasStop, Ahead
  <2>3. ClosedAfterStop'
    BY <1>7, <1>0 DEF Exit, Joined, envVars, cbVars, Stops, Kinds,
         ClosedAfterStop
  <2> QED  BY <2>1, <2>2, <2>3 DEF Stops
<1>8. CASE Sigint
  <2>1. closeAfter' = closeAfter /\ latch' = latch /\ queue' = queue /\ (late => late') /\ ints \in Nat
    BY <1>8, Counters DEF Sigint, Handle, commVars, cbVars
  <2>2. NeverStopped'
    BY <1>8, <2>1 DEF Sigint, NeverStopped
  <2>3. StoppedOnce'
    <3>1. todo' \in StopShapes
      BY <1>8 DEF Sigint, Handle, StopShapes
    <3>2. ASSUME ~late'  PROVE ints = 0
      <4>1. ~(ints > 0)
        BY <1>8, <3>2, Zenon DEF Sigint, Handle
      <4> QED  BY <2>1, <4>1
    <3>3. ASSUME ints = 0, NEW t \in Threads  PROVE t \notin closeAfter' /\ ~HasStop(t)'
      BY <2>1, <3>3 DEF Stops, NeverStopped, HasStop
    <3> QED  BY <3>1, <3>2, <3>3 DEF StoppedOnce
  <2>4. ClosedAfterStop'
    BY <2>1 DEF Stops, ClosedAfterStop
  <2> QED  BY <2>2, <2>3, <2>4 DEF Stops
<1>9. CASE Sigusr
  <2>1. closeAfter' = closeAfter /\ latch' = latch /\ queue' = queue /\ (late => late') /\ ints \in Nat
    BY <1>9, Counters DEF Sigusr, Handle, commVars, cbVars
  <2>2. NeverStopped'
    BY <1>9, <2>1 DEF Sigusr, Handle, Stops, NeverStopped, StatShapes, HasStop
  <2>3. StoppedOnce'
    BY <1>9, <2>1 DEF Sigusr, Handle, StoppedOnce
  <2>4. ClosedAfterStop'
    BY <2>1 DEF Stops, ClosedAfterStop
  <2> QED  BY <2>2, <2>3, <2>4 DEF Stops
<1>10. CASE EarlyClient
  <2>1. NeverStopped'
    BY <1>10, <1>0 DEF EarlyClient, mainVars, commVars, cbVars, Stops, Kinds,
         NeverStopped, HasStop
  <2>2. StoppedOnce'
    BY <1>10, <1>0 DEF EarlyClient, mainVars, commVars, cbVars, Stops, Kinds,
         StoppedOnce, HasStop, Ahead
  <2>3. ClosedAfterStop'
    BY <1>10, <1>0 DEF EarlyClient, mainVars, commVars, cbVars, Stops, Kinds,
         ClosedAfterStop
  <2> QED  BY <2>1, <2>2, <2>3 DEF Stops
<1>11. ASSUME NEW t \in Threads, StartDrain(t)  PROVE Stops'
  <2>1. NeverStopped'
    BY <1>11, <1>0 DEF StartDrain, InLoop, MainIdle, mainVars, envVars, Stops,
         Kinds, NeverStopped, HasStop
  <2>2. StoppedOnce'
    BY <1>11, <1>0 DEF StartDrain, InLoop, MainIdle, mainVars, envVars, Stops,
         Kinds, StoppedOnce, HasStop, Ahead
  <2>3. ClosedAfterStop'
    BY <1>11, <1>0 DEF StartDrain, InLoop, MainIdle, mainVars, envVars, Stops,
         Kinds, ClosedAfterStop
  <2> QED  BY <2>1, <2>2, <2>3 DEF Stops
<1>12. ASSUME NEW t \in Threads, Process(t)  PROVE Stops'
  <2>1. /\ ints' = ints /\ late' = late /\ todo' = todo /\ queued' = queued /\ latch' = latch
        /\ latch[t] # "closed"
        /\ closeAfter' = IF Head(queue[t]) = "stop" THEN closeAfter \cup {t} ELSE closeAfter
    BY <1>12, <1>0 DEF Process, mainVars, envVars, Kinds, Phases, Draining
  <2>2. \A u \in Threads : u # t => queue'[u] = queue[u] /\ (HasStop(u)' <=> HasStop(u))
    BY <1>12, ProcessFacts DEF HasStop
  <2>3. (HasStop(t)' => HasStop(t)) /\ (Head(queue[t]) = "stop" => HasStop(t))
    BY <1>12, ProcessFacts
  <2>4. NeverStopped'
    BY <2>1, <2>2, <2>3 DEF Stops, NeverStopped
  <2>5. StoppedOnce'
    <3>1. Ahead' = Ahead
      BY <2>1 DEF Ahead
    <3> QED  BY <2>1, <2>2, <2>3, <3>1 DEF Stops, StoppedOnce
  <2>6. ClosedAfterStop'
    BY <2>1, <2>2 DEF Stops, ClosedAfterStop
  <2> QED  BY <2>4, <2>5, <2>6 DEF Stops
<1>13. ASSUME NEW t \in Threads, EndDrain(t)  PROVE Stops'
  <2>1. NeverStopped'
    BY <1>13, <1>0 DEF EndDrain, CloseLatch, NothingLeft, mainVars, envVars,
         Stops, Kinds, NeverStopped, HasStop
  <2>2. StoppedOnce'
    BY <1>13, <1>0 DEF EndDrain, CloseLatch, NothingLeft, mainVars, envVars,
         Stops, Kinds, StoppedOnce, HasStop, Ahead
  <2>3. ClosedAfterStop'
    BY <1>13, <1>0 DEF EndDrain, CloseLatch, NothingLeft, mainVars, envVars,
         Stops, Kinds, ClosedAfterStop
  <2> QED  BY <2>1, <2>2, <2>3 DEF Stops
<1>14. ASSUME NEW t \in Threads, CloseWork(t)  PROVE Stops'
  <2>1. NeverStopped'
    BY <1>14, <1>0 DEF CloseWork, InLoop, MainIdle, mainVars, envVars, commVars,
         cbVars, Stops, Kinds, NeverStopped, HasStop
  <2>2. StoppedOnce'
    BY <1>14, <1>0 DEF CloseWork, InLoop, MainIdle, mainVars, envVars, commVars,
         cbVars, Stops, Kinds, StoppedOnce, HasStop, Ahead
  <2>3. ClosedAfterStop'
    BY <1>14, <1>0 DEF CloseWork, InLoop, MainIdle, mainVars, envVars, commVars,
         cbVars, Stops, Kinds, ClosedAfterStop
  <2> QED  BY <2>1, <2>2, <2>3 DEF Stops
<1>15. ASSUME NEW w \in Workers, InitLatch(w)  PROVE Stops'
  <2>1. NeverStopped'
    BY <1>15, <1>0 DEF InitLatch, mainVars, envVars, cbVars, Stops, Kinds,
         NeverStopped, HasStop
  <2>2. StoppedOnce'
    BY <1>15, <1>0 DEF InitLatch, mainVars, envVars, cbVars, Stops, Kinds,
         StoppedOnce, HasStop, Ahead
  <2>3. ClosedAfterStop'
    BY <1>15, <1>0 DEF InitLatch, mainVars, envVars, cbVars, Stops, Kinds,
         ClosedAfterStop
  <2> QED  BY <2>1, <2>2, <2>3 DEF Stops
<1>16. ASSUME NEW w \in Workers, Enter(w)  PROVE Stops'
  <2>1. NeverStopped'
    BY <1>16, <1>0 DEF Enter, mainVars, envVars, commVars, cbVars, Stops, Kinds,
         NeverStopped, HasStop
  <2>2. StoppedOnce'
    BY <1>16, <1>0 DEF Enter, mainVars, envVars, commVars, cbVars, Stops, Kinds,
         StoppedOnce, HasStop, Ahead
  <2>3. ClosedAfterStop'
    BY <1>16, <1>0 DEF Enter, mainVars, envVars, commVars, cbVars, Stops, Kinds,
         ClosedAfterStop
  <2> QED  BY <2>1, <2>2, <2>3 DEF Stops
<1>17. ASSUME NEW w \in Workers, Leave(w)  PROVE Stops'
  <2>1. NeverStopped'
    BY <1>17, <1>0 DEF Leave, NoHandles, mainVars, envVars, commVars, cbVars,
         Stops, Kinds, NeverStopped, HasStop
  <2>2. StoppedOnce'
    BY <1>17, <1>0 DEF Leave, NoHandles, mainVars, envVars, commVars, cbVars,
         Stops, Kinds, StoppedOnce, HasStop, Ahead
  <2>3. ClosedAfterStop'
    BY <1>17, <1>0 DEF Leave, NoHandles, mainVars, envVars, commVars, cbVars,
         Stops, Kinds, ClosedAfterStop
  <2> QED  BY <2>1, <2>2, <2>3 DEF Stops
<1>18. ASSUME NEW w \in Workers, CloseLoop(w)  PROVE Stops'
  <2>1. NeverStopped'
    BY <1>18, <1>0 DEF CloseLoop, mainVars, envVars, commVars, cbVars, Stops,
         Kinds, NeverStopped, HasStop
  <2>2. StoppedOnce'
    BY <1>18, <1>0 DEF CloseLoop, mainVars, envVars, commVars, cbVars, Stops,
         Kinds, StoppedOnce, HasStop, Ahead
  <2>3. ClosedAfterStop'
    BY <1>18, <1>0 DEF CloseLoop, mainVars, envVars, commVars, cbVars, Stops,
         Kinds, ClosedAfterStop
  <2> QED  BY <2>1, <2>2, <2>3 DEF Stops
<1>19. ASSUME NEW w \in Workers, Finish(w)  PROVE Stops'
  <2>1. NeverStopped'
    BY <1>19, <1>0 DEF Finish, mainVars, envVars, commVars, cbVars, Stops, Kinds,
         NeverStopped, HasStop
  <2>2. StoppedOnce'
    BY <1>19, <1>0 DEF Finish, mainVars, envVars, commVars, cbVars, Stops, Kinds,
         StoppedOnce, HasStop, Ahead
  <2>3. ClosedAfterStop'
    BY <1>19, <1>0 DEF Finish, mainVars, envVars, commVars, cbVars, Stops, Kinds,
         ClosedAfterStop
  <2> QED  BY <2>1, <2>2, <2>3 DEF Stops
<1>20. CASE UNCHANGED vars
  BY <1>20 DEF vars, mainVars, envVars, commVars, cbVars, Stops, NeverStopped,
       StoppedOnce, ClosedAfterStop, HasStop, Ahead
<1> QED  BY <1>1, <1>2, <1>3, <1>4, <1>5, <1>6, <1>7, <1>8, <1>9, <1>10,
     <1>11, <1>12, <1>13, <1>14, <1>15, <1>16, <1>17, <1>18, <1>19, <1>20
     DEF Next, Main, Loop, Worker, Environment, Ended

-----------------------------------------------------------------------------
(* One SIGINT                                                                *)

(* Nothing has happened at the start.                                        *)
LEMMA InitOneStop == Init => Working /\ ReadyFirst /\ SingleStop /\ OneWakeup
<1> SUFFICES ASSUME Init  PROVE Working /\ ReadyFirst /\ SingleStop /\ OneWakeup
  OBVIOUS
<1>1. \A t \in Threads : ~HasStop(t) /\ Once(queue[t])
  <2>1. ~Has(<<>>) /\ Once(<<>>)
    BY DEF Has, Once
  <2> QED  BY <2>1 DEF Init, HasStop
<1>2. Ahead = <<>> /\ todo = <<>> /\ Recipients(<<>>) = {} /\ StopsTo(<<>>) = {}
  <2>1. todo = <<>> /\ ~queued /\ ints = 0
    BY DEF Init
  <2>2. Recipients(<<>>) = {} /\ StopsTo(<<>>) = {}
    BY DEF Recipients, StopsTo
  <2> QED  BY <2>1, <2>2 DEF Ahead
<1>3. Working
  BY Names DEF Init, Working
<1>4. ReadyFirst
  <2>1. ints = 0
    BY DEF Init
  <2>2. ~(ints > 0)
    BY <2>1
  <2> QED  BY <1>2, <2>2 DEF ReadyFirst
<1>5. SingleStop
  BY <1>1, <1>2 DEF SingleStop
<1>6. OneWakeup
  BY <1>2 DEF Init, OneWakeup
<1> QED  BY <1>3, <1>4, <1>5, <1>6

(* Nothing stops working before the first SIGINT.                            *)
LEMMA NextWorking ==
  ASSUME Typed, Phases, Stops, Working, [Next]_vars
  PROVE  Working'
<1>0. Kinds
  BY KindsHold
<1>1. CASE CreateRtmp
  BY <1>1, <1>0 DEF CreateRtmp, envVars, cbVars, Working, Kinds
<1>2. CASE CreateMp4
  BY <1>2, <1>0 DEF CreateMp4, envVars, commVars, cbVars, Working, Kinds
<1>3. CASE InitMap
  BY <1>3, <1>0 DEF InitMap, envVars, commVars, cbVars, Working, Kinds
<1>4. CASE Enqueue
  BY <1>4, <1>0 DEF Enqueue, envVars, cbVars, Working, Kinds
<1>5. CASE Wake
  BY <1>5, <1>0 DEF Wake, envVars, cbVars, Working, Kinds
<1>6. CASE EndLoop
  BY <1>6, <1>0 DEF EndLoop, MainIdle, NoHandles, envVars, commVars, cbVars,
       Working, Kinds
<1>7. CASE Exit
  BY <1>7, <1>0 DEF Exit, Joined, envVars, cbVars, Working, Kinds
<1>8. CASE Sigint
  <2>1. ints' # 0
    BY <1>8, Counters DEF Sigint
  <2> QED  BY <2>1 DEF Working
<1>9. CASE Sigusr
  BY <1>9, <1>0 DEF Sigusr, Handle, MainIdle, Command, commVars, cbVars,
       Working, Kinds
<1>10. CASE EarlyClient
  BY <1>10, <1>0 DEF EarlyClient, mainVars, commVars, cbVars, Working, Kinds
<1>11. ASSUME NEW t \in Threads, StartDrain(t)  PROVE Working'
  BY <1>11, <1>0 DEF StartDrain, InLoop, MainIdle, mainVars, envVars, Working,
       Kinds
<1>12. ASSUME NEW t \in Threads, Process(t)  PROVE Working'
  <2>1. ints' = ints /\ st' = st /\ mapReady' = mapReady
    BY <1>12 DEF Process, mainVars, envVars
  <2>2. ints = 0 => work' = work
    BY <1>12, ProcessFacts DEF Process, Stops, NeverStopped
  <2> QED  BY <2>1, <2>2 DEF Working
<1>13. ASSUME NEW t \in Threads, EndDrain(t)  PROVE Working'
  BY <1>13, <1>0 DEF EndDrain, CloseLatch, NothingLeft, mainVars, envVars,
       Working, Kinds
<1>14. ASSUME NEW t \in Threads, CloseWork(t)  PROVE Working'
  BY <1>14, <1>0 DEF CloseWork, InLoop, MainIdle, mainVars, envVars, commVars,
       cbVars, Working, Kinds
<1>15. ASSUME NEW w \in Workers, InitLatch(w)  PROVE Working'
  BY <1>15, <1>0 DEF InitLatch, mainVars, envVars, cbVars, Working, Kinds
<1>16. ASSUME NEW w \in Workers, Enter(w)  PROVE Working'
  BY <1>16, <1>0 DEF Enter, mainVars, envVars, commVars, cbVars, Working,
       Kinds
<1>17. ASSUME NEW w \in Workers, Leave(w)  PROVE Working'
  BY <1>17, <1>0 DEF Leave, NoHandles, mainVars, envVars, commVars, cbVars,
       Working, Kinds
<1>18. ASSUME NEW w \in Workers, CloseLoop(w)  PROVE Working'
  BY <1>18, <1>0 DEF CloseLoop, mainVars, envVars, commVars, cbVars, Working,
       Kinds
<1>19. ASSUME NEW w \in Workers, Finish(w)  PROVE Working'
  BY <1>19, <1>0 DEF Finish, mainVars, envVars, commVars, cbVars, Working,
       Kinds
<1>20. CASE UNCHANGED vars
  BY <1>20 DEF vars, mainVars, envVars, commVars, cbVars, Working, Kinds
<1> QED  BY <1>1, <1>2, <1>3, <1>4, <1>5, <1>6, <1>7, <1>8, <1>9, <1>10,
     <1>11, <1>12, <1>13, <1>14, <1>15, <1>16, <1>17, <1>18, <1>19, <1>20
     DEF Next, Main, Loop, Worker, Environment, Ended

(* Threads that are ready stay so.                                           *)
LEMMA NextReadyFirst ==
  ASSUME Typed, Phases, ReadyFirst, [Next]_vars
  PROVE  ReadyFirst'
<1>0. Kinds
  BY KindsHold
<1>1. CASE CreateRtmp
  BY <1>1, <1>0 DEF CreateRtmp, envVars, cbVars, ReadyFirst, Ready, Kinds,
       Phases, Starting
<1>2. CASE CreateMp4
  BY <1>2, <1>0 DEF CreateMp4, envVars, commVars, cbVars, ReadyFirst, Ready,
       Kinds, Phases, Starting
<1>3. CASE InitMap
  BY <1>3, <1>0 DEF InitMap, envVars, commVars, cbVars, ReadyFirst, Ready,
       Kinds
<1>4. CASE Enqueue
  BY <1>4, <1>0 DEF Enqueue, envVars, cbVars, ReadyFirst, Ready, Kinds
<1>5. CASE Wake
  BY <1>5, <1>0 DEF Wake, envVars, cbVars, ReadyFirst, Ready, Kinds, Typed
<1>6. CASE EndLoop
  BY <1>6, <1>0 DEF EndLoop, MainIdle, NoHandles, envVars, commVars, cbVars,
       ReadyFirst, Ready, Kinds
<1>7. CASE Exit
  BY <1>7, <1>0 DEF Exit, Joined, envVars, cbVars, ReadyFirst, Ready, Kinds
<1>8. CASE Sigint
  BY <1>8, <1>0 DEF Sigint, Handle, MainIdle, Command, commVars, cbVars,
       ReadyFirst, Ready, Kinds, Phases, Typed
<1>9. CASE Sigusr
  BY <1>9, <1>0 DEF Sigusr, Handle, MainIdle, Command, commVars, cbVars,
       ReadyFirst, Ready, Kinds
<1>10. CASE EarlyClient
  BY <1>10, <1>0 DEF EarlyClient, mainVars, commVars, cbVars, ReadyFirst,
       Ready, Kinds
<1>11. ASSUME NEW t \in Threads, StartDrain(t)  PROVE ReadyFirst'
  BY <1>11, <1>0 DEF StartDrain, InLoop, MainIdle, mainVars, envVars,
       ReadyFirst, Ready, Kinds
<1>12. ASSUME NEW t \in Threads, Process(t)  PROVE ReadyFirst'
  BY <1>12, <1>0 DEF Process, StopWork, mainVars, envVars, ReadyFirst, Ready,
       Kinds
<1>13. ASSUME NEW t \in Threads, EndDrain(t)  PROVE ReadyFirst'
  BY <1>13, <1>0 DEF EndDrain, CloseLatch, NothingLeft, mainVars, envVars,
       ReadyFirst, Ready, Kinds
<1>14. ASSUME NEW t \in Threads, CloseWork(t)  PROVE ReadyFirst'
  BY <1>14, <1>0 DEF CloseWork, InLoop, MainIdle, mainVars, envVars, commVars,
       cbVars, ReadyFirst, Ready, Kinds
<1>15. ASSUME NEW w \in Workers, InitLatch(w)  PROVE ReadyFirst'
  BY <1>15, <1>0 DEF InitLatch, mainVars, envVars, cbVars, ReadyFirst, Ready,
       Kinds
<1>16. ASSUME NEW w \in Workers, Enter(w)  PROVE ReadyFirst'
  BY <1>16, <1>0 DEF Enter, mainVars, envVars, commVars, cbVars, ReadyFirst,
       Ready, Kinds
<1>17. ASSUME NEW w \in Workers, Leave(w)  PROVE ReadyFirst'
  BY <1>17, <1>0 DEF Leave, NoHandles, mainVars, envVars, commVars, cbVars,
       ReadyFirst, Ready, Kinds
<1>18. ASSUME NEW w \in Workers, CloseLoop(w)  PROVE ReadyFirst'
  BY <1>18, <1>0 DEF CloseLoop, mainVars, envVars, commVars, cbVars,
       ReadyFirst, Ready, Kinds
<1>19. ASSUME NEW w \in Workers, Finish(w)  PROVE ReadyFirst'
  BY <1>19, <1>0 DEF Finish, mainVars, envVars, commVars, cbVars, ReadyFirst,
       Ready, Kinds
<1>20. CASE UNCHANGED vars
  BY <1>20 DEF vars, mainVars, envVars, commVars, cbVars, ReadyFirst, Ready,
       Kinds
<1> QED  BY <1>1, <1>2, <1>3, <1>4, <1>5, <1>6, <1>7, <1>8, <1>9, <1>10,
     <1>11, <1>12, <1>13, <1>14, <1>15, <1>16, <1>17, <1>18, <1>19, <1>20
     DEF Next, Main, Loop, Worker, Environment, Ended

(* A thread is stopped at most once until the second SIGINT.                 *)
LEMMA NextSingleStop ==
  ASSUME Typed, Phases, Stops, Working, SingleStop, [Next]_vars
  PROVE  SingleStop'
<1>0. Kinds
  BY KindsHold
<1>1. CASE CreateRtmp
  BY <1>1, <1>0 DEF CreateRtmp, envVars, cbVars, SingleStop, HasStop, Ahead,
       Kinds
<1>2. CASE CreateMp4
  BY <1>2, <1>0 DEF CreateMp4, envVars, commVars, cbVars, SingleStop, HasStop,
       Ahead, Kinds
<1>3. CASE InitMap
  BY <1>3, <1>0 DEF InitMap, envVars, commVars, cbVars, SingleStop, HasStop,
       Ahead, Kinds
<1>4. CASE Enqueue
  <2>1. todo \in Shapes /\ todo # <<>> /\ ~queued
    BY <1>4 DEF Enqueue, Phases, Sending
  <2>2. hasty' = hasty /\ ints' = ints /\ work' = work
    BY <1>4 DEF Enqueue, envVars
  <2>3. CASE latch[Head(todo).to] = "uninit"
    BY <1>4, <2>2, <2>3 DEF Enqueue, SingleStop, HasStop, Ahead
  <2>4. CASE latch[Head(todo).to] # "uninit"
    <3>1. Ahead = todo /\ Ahead' = Tail(todo)
      BY <1>4, <2>4, EnqueueFacts
    <3>2. StopsTo(Tail(todo)) \subseteq StopsTo(todo) /\ Head(todo).to \notin StopsTo(Tail(todo))
          /\ (Head(todo).type = "stop" => Head(todo).to \in StopsTo(todo))
      <4>1. Head(todo).type \in {"stop", "stat"}
        BY <2>1, TodoFacts DEF Sends, Commands
      <4> QED  BY <2>1, <4>1, StopFacts
    <3>3. SUFFICES ASSUME ~hasty, ints < 2, NEW t \in Threads
                   PROVE  /\ t # "mp4" /\ (HasStop(t)' \/ t \in StopsTo(Tail(todo))) => work[t] = "open"
                          /\ HasStop(t)' => t \notin StopsTo(Tail(todo))
                          /\ Once(queue'[t])
      BY <2>2, <3>1 DEF SingleStop
    <3>4. /\ t # "mp4" /\ (HasStop(t) \/ t \in StopsTo(todo)) => work[t] = "open"
          /\ HasStop(t) => t \notin StopsTo(todo)
          /\ Once(queue[t])
      BY <3>1, <3>3 DEF SingleStop
    <3>5. HasStop(t)' <=> HasStop(t) \/ (t = Head(todo).to /\ Head(todo).type = "stop")
      BY <1>4, <2>4, EnqueueFacts
    <3>6. Once(queue'[t])
      <4>1. CASE t # Head(todo).to
        BY <1>4, <2>4, <3>4, <4>1, EnqueueFacts
      <4>2. CASE t = Head(todo).to
        <5>1. queue'[t] = Append(queue[t], Head(todo).type) /\ queue[t] \in Seq(Commands)
          BY <1>4, <1>0, <2>4, <4>2 DEF Enqueue, Kinds
        <5>2. Head(todo).type \in Commands
          BY <2>1, TodoFacts DEF Sends
        <5>3. Head(todo).type = "stop" => ~Has(queue[t])
          BY <3>2, <3>4, <4>2 DEF HasStop
        <5> QED  BY <3>4, <5>1, <5>2, <5>3, AppendStop
      <4> QED  BY <4>1, <4>2
    <3> QED  BY <3>2, <3>4, <3>5, <3>6
  <2> QED  BY <2>3, <2>4
<1>5. CASE Wake
  <2>1. hasty' = hasty /\ ints' = ints /\ work' = work /\ queue' = queue /\ Ahead' = Ahead
    BY <1>5, WakeFacts DEF Wake, envVars
  <2> QED  BY <2>1 DEF SingleStop, HasStop
<1>6. CASE EndLoop
  BY <1>6, <1>0 DEF EndLoop, MainIdle, NoHandles, envVars, commVars, cbVars,
       SingleStop, HasStop, Ahead, Kinds
<1>7. CASE Exit
  BY <1>7, <1>0 DEF Exit, Joined, envVars, cbVars, SingleStop, HasStop, Ahead,
       Kinds
<1>8. CASE Sigint
  <2>1. queue' = queue /\ work' = work /\ ints' = ints + 1 /\ ints \in Nat
    BY <1>8, Counters DEF Sigint, Handle, commVars
  <2>2. SUFFICES ASSUME ~hasty', ints = 0
                 PROVE  \A t \in Threads : ~HasStop(t) /\ Once(queue[t]) /\ (t # "mp4" => work[t] = "open")
    BY <2>1 DEF SingleStop, HasStop
  <2>3. mapReady /\ st["rtmp"] \notin {"absent", "created", "entry"}
    BY <1>8, <1>0, <2>2 DEF Sigint, Handle, Ready, Kinds
  <2>4. st["rtmp"] = "running"
    <3>1. latch["rtmp"] # "closed"
      BY <1>0, <2>2 DEF Stops, NeverStopped, Kinds
    <3> QED  BY <1>0, <2>3, <3>1 DEF Phases, Ending, Kinds
  <2>5. ASSUME NEW t \in Threads  PROVE ~HasStop(t) /\ Once(queue[t])
    BY <2>2 DEF Stops, NeverStopped, HasStop, Has, Once
  <2> QED  BY <2>2, <2>3, <2>4, <2>5, Names DEF Working
<1>9. CASE Sigusr
  <2>1. queue' = queue /\ work' = work /\ ints' = ints /\ (~hasty' => ~hasty)
    BY <1>9 DEF Sigusr, Handle, commVars
  <2>2. StopsTo(Ahead') = {}
    <3>1. Ahead' = <<Command("rtmp", "stat"), Command("mp4", "stat")>>
      BY <1>9 DEF Sigusr, Handle, MainIdle, Ahead, Typed
    <3>2. <<Command("rtmp", "stat"), Command("mp4", "stat")>> \in StatShapes
          /\ <<Command("rtmp", "stat"), Command("mp4", "stat")>> # <<>>
      BY DEF StatShapes
    <3> QED  BY <3>1, <3>2, ShapeFacts DEF Shapes
  <2> QED  BY <2>1, <2>2 DEF SingleStop, HasStop
<1>10. CASE EarlyClient
  <2>1. hasty'
    BY <1>10 DEF EarlyClient
  <2> QED  BY <2>1 DEF SingleStop
<1>11. ASSUME NEW t \in Threads, StartDrain(t)  PROVE SingleStop'
  BY <1>11, <1>0 DEF StartDrain, InLoop, MainIdle, mainVars, envVars,
       SingleStop, HasStop, Ahead, Kinds
<1>12. ASSUME NEW t \in Threads, Process(t)  PROVE SingleStop'
  <2>1. hasty' = hasty /\ ints' = ints /\ Ahead' = Ahead
    BY <1>12 DEF Process, mainVars, envVars, Ahead
  <2>2. \A u \in Threads : u # t => work'[u] = work[u]
    BY <1>12, <1>0 DEF Process, StopWork, Kinds
  <2>3. Head(queue[t]) # "stop" => work' = work
    BY <1>12 DEF Process
  <2>4. SUFFICES ASSUME ~hasty, ints < 2, NEW u \in Threads
                 PROVE  /\ u # "mp4" /\ (HasStop(u)' \/ u \in StopsTo(Ahead)) => work'[u] = "open"
                        /\ HasStop(u)' => u \notin StopsTo(Ahead)
                        /\ Once(queue'[u])
    BY <2>1 DEF SingleStop
  <2>5. /\ u # "mp4" /\ (HasStop(u) \/ u \in StopsTo(Ahead)) => work[u] = "open"
        /\ HasStop(u) => u \notin StopsTo(Ahead)
        /\ Once(queue[u])
    BY <2>4 DEF SingleStop
  <2>6. CASE u # t
    <3>1. queue'[u] = queue[u]
      BY <1>12, <2>6, ProcessFacts
    <3> QED  BY <2>2, <2>5, <2>6, <3>1 DEF HasStop
  <2>7. CASE u = t
    <3>1. Once(queue'[t]) /\ (HasStop(t)' => HasStop(t))
      BY <1>12, <2>5, <2>7, ProcessFacts
    <3>2. Head(queue[t]) = "stop" => HasStop(t) /\ ~HasStop(t)'
      BY <1>12, <2>5, <2>7, ProcessFacts
    <3> QED  BY <2>3, <2>5, <2>7, <3>1, <3>2
  <2> QED  BY <2>6, <2>7
<1>13. ASSUME NEW t \in Threads, EndDrain(t)  PROVE SingleStop'
  BY <1>13, <1>0 DEF EndDrain, CloseLatch, NothingLeft, mainVars, envVars,
       SingleStop, HasStop, Ahead, Kinds
<1>14. ASSUME NEW t \in Threads, CloseWork(t)  PROVE SingleStop'
  BY <1>14, <1>0 DEF CloseWork, InLoop, MainIdle, mainVars, envVars, commVars,
       cbVars, SingleStop, HasStop, Ahead, Kinds
<1>15. ASSUME NEW w \in Workers, InitLatch(w)  PROVE SingleStop'
  BY <1>15, <1>0 DEF InitLatch, mainVars, envVars, cbVars, SingleStop,
       HasStop, Ahead, Kinds
<1>16. ASSUME NEW w \in Workers, Enter(w)  PROVE SingleStop'
  <2>1. hasty' = hasty /\ ints' = ints /\ Ahead' = Ahead /\ queue' = queue
    BY <1>16 DEF Enter, mainVars, envVars, commVars, Ahead
  <2>2. \A t \in Threads : t # "mp4" => work'[t] = work[t] \/ work'[t] = "open"
    BY <1>16, <1>0, Names DEF Enter, Kinds
  <2> QED  BY <2>1, <2>2 DEF SingleStop, HasStop
<1>17. ASSUME NEW w \in Workers, Leave(w)  PROVE SingleStop'
  BY <1>17, <1>0 DEF Leave, NoHandles, mainVars, envVars, commVars, cbVars,
       SingleStop, HasStop, Ahead, Kinds
<1>18. ASSUME NEW w \in Workers, CloseLoop(w)  PROVE SingleStop'
  BY <1>18, <1>0 DEF CloseLoop, mainVars, envVars, commVars, cbVars,
       SingleStop, HasStop, Ahead, Kinds
<1>19. ASSUME NEW w \in Workers, Finish(w)  PROVE SingleStop'
  BY <1>19, <1>0 DEF Finish, mainVars, envVars, commVars, cbVars, SingleStop,
       HasStop, Ahead, Kinds
<1>20. CASE UNCHANGED vars
  BY <1>20 DEF vars, mainVars, envVars, commVars, cbVars, SingleStop, HasStop,
       Ahead, Kinds
<1> QED  BY <1>1, <1>2, <1>3, <1>4, <1>5, <1>6, <1>7, <1>8, <1>9, <1>10,
     <1>11, <1>12, <1>13, <1>14, <1>15, <1>16, <1>17, <1>18, <1>19, <1>20
     DEF Next, Main, Loop, Worker, Environment, Ended

(* Only the SIGINT wakes threads until then, one after the other.            *)
LEMMA NextOneWakeup ==
  ASSUME Typed, Phases, Stops, OneWakeup, [Next]_vars
  PROVE  OneWakeup'
<1>0. Kinds
  BY KindsHold
<1>1. CASE CreateRtmp
  <2>1. todo = <<>> /\ todo' = todo /\ ints' = ints /\ usrs' = usrs /\ pending' = pending
        /\ draining' = draining
    BY <1>1 DEF CreateRtmp, envVars, cbVars, Phases, Sending
  <2>2. Recipients(<<>>) = {}
    BY DEF Recipients
  <2> QED  BY <2>1, <2>2 DEF OneWakeup
<1>2. CASE CreateMp4
  BY <1>2, <1>0 DEF CreateMp4, envVars, commVars, cbVars, OneWakeup, Kinds
<1>3. CASE InitMap
  BY <1>3, <1>0 DEF InitMap, envVars, commVars, cbVars, OneWakeup, Kinds
<1>4. CASE Enqueue
  BY <1>4, <1>0 DEF Enqueue, envVars, cbVars, OneWakeup, Kinds
<1>5. CASE Wake
  <2>1. todo \in Shapes /\ todo # <<>> /\ Head(todo).to \in Threads
    BY <1>5, TodoFacts DEF Wake, Typed, Phases, Sending, Sends
  <2>2. ints' = ints /\ usrs' = usrs /\ draining' = draining /\ latch' = latch
    BY <1>5 DEF Wake, envVars, cbVars
  <2>3. CASE todo' = todo /\ pending' = pending
    BY <2>2, <2>3 DEF OneWakeup
  <2>4. CASE todo' = Tail(todo) /\ pending' = [pending EXCEPT ![Head(todo).to] = TRUE]
    <3>1. Recipients(todo) = {Head(todo).to} \cup Recipients(todo') /\ Head(todo).to \notin Recipients(todo')
      BY <2>1, <2>4, ShapeFacts
    <3>2. ASSUME NEW t, t # Head(todo).to  PROVE pending'[t] = pending[t]
      BY <1>0, <2>4, <3>2 DEF Kinds
    <3> QED  BY <2>1, <2>2, <3>1, <3>2 DEF OneWakeup
  <2> QED  BY <1>5, <2>3, <2>4 DEF Wake
<1>6. CASE EndLoop
  BY <1>6, <1>0 DEF EndLoop, MainIdle, NoHandles, envVars, commVars, cbVars,
       OneWakeup, Kinds
<1>7. CASE Exit
  BY <1>7, <1>0 DEF Exit, Joined, envVars, cbVars, OneWakeup, Kinds
<1>8. CASE Sigint
  <2>1. ints' = ints + 1 /\ usrs' = usrs /\ pending' = pending /\ draining' = draining /\ latch' = latch
        /\ ints \in Nat
    BY <1>8, Counters DEF Sigint, Handle, commVars, cbVars
  <2>2. SUFFICES ASSUME usrs = 0, ints = 0
                 PROVE  \A t \in Recipients(todo') : ~pending[t] /\ t \notin draining /\ latch[t] # "closed"
    BY <2>1 DEF OneWakeup
  <2>3. Recipients(todo') \subseteq Threads
    BY <1>8 DEF Sigint, Handle, Recipients, Command, Threads, Workers
  <2> QED  BY <2>2, <2>3 DEF OneWakeup, Stops, NeverStopped
<1>9. CASE Sigusr
  <2>1. usrs' # 0
    BY <1>9, Counters DEF Sigusr
  <2> QED  BY <2>1 DEF OneWakeup
<1>10. CASE EarlyClient
  BY <1>10, <1>0 DEF EarlyClient, mainVars, commVars, cbVars, OneWakeup, Kinds
<1>11. ASSUME NEW t \in Threads, StartDrain(t)  PROVE OneWakeup'
  BY <1>11, <1>0 DEF StartDrain, InLoop, MainIdle, mainVars, envVars,
       OneWakeup, Kinds
<1>12. ASSUME NEW t \in Threads, Process(t)  PROVE OneWakeup'
  BY <1>12, <1>0 DEF Process, StopWork, mainVars, envVars, OneWakeup, Kinds
<1>13. ASSUME NEW t \in Threads, EndDrain(t)  PROVE OneWakeup'
  BY <1>13, <1>0 DEF EndDrain, CloseLatch, NothingLeft, mainVars, envVars,
       OneWakeup, Kinds
<1>14. ASSUME NEW t \in Threads, CloseWork(t)  PROVE OneWakeup'
  BY <1>14, <1>0 DEF CloseWork, InLoop, MainIdle, mainVars, envVars, commVars,
       cbVars, OneWakeup, Kinds
<1>15. ASSUME NEW w \in Workers, InitLatch(w)  PROVE OneWakeup'
  BY <1>15, <1>0 DEF InitLatch, mainVars, envVars, cbVars, OneWakeup, Kinds
<1>16. ASSUME NEW w \in Workers, Enter(w)  PROVE OneWakeup'
  BY <1>16, <1>0 DEF Enter, mainVars, envVars, commVars, cbVars, OneWakeup,
       Kinds
<1>17. ASSUME NEW w \in Workers, Leave(w)  PROVE OneWakeup'
  BY <1>17, <1>0 DEF Leave, NoHandles, mainVars, envVars, commVars, cbVars,
       OneWakeup, Kinds
<1>18. ASSUME NEW w \in Workers, CloseLoop(w)  PROVE OneWakeup'
  BY <1>18, <1>0 DEF CloseLoop, mainVars, envVars, commVars, cbVars,
       OneWakeup, Kinds
<1>19. ASSUME NEW w \in Workers, Finish(w)  PROVE OneWakeup'
  BY <1>19, <1>0 DEF Finish, mainVars, envVars, commVars, cbVars, OneWakeup,
       Kinds
<1>20. CASE UNCHANGED vars
  BY <1>20 DEF vars, mainVars, envVars, commVars, cbVars, OneWakeup, Kinds
<1> QED  BY <1>1, <1>2, <1>3, <1>4, <1>5, <1>6, <1>7, <1>8, <1>9, <1>10,
     <1>11, <1>12, <1>13, <1>14, <1>15, <1>16, <1>17, <1>18, <1>19, <1>20
     DEF Next, Main, Loop, Worker, Environment, Ended

-----------------------------------------------------------------------------
(* Faults                                                                    *)

(* Every fault has its reason.                                               *)
LEMMA NextFaultsExplained ==
  ASSUME IInv, [Next]_vars
  PROVE  FaultsExplained'
<1>0. Kinds
  BY KindsHold DEF IInv
<1>1. CASE Enqueue
  <2>1. todo # <<>> /\ Head(todo).to \in Threads
    BY <1>1, TodoFacts DEF Enqueue, IInv, Sends
  <2>2. ~hasty => latch[Head(todo).to] # "uninit"
    <3>1. SUFFICES ASSUME ~hasty  PROVE latch[Head(todo).to] # "uninit"
      OBVIOUS
    <3>2. Ready
      BY <2>1, <3>1 DEF IInv, ReadyFirst
    <3>3. pc = "loop"
      BY <2>1 DEF IInv, Phases, Sending
    <3> QED  BY <1>0, <2>1, <3>2, <3>3, Names DEF IInv, Phases, Starting, Ready, Kinds
  <2>3. fault = "none" /\ hasty' = hasty
    BY <1>1 DEF Enqueue, Alive, envVars
  <2> QED  BY <1>1, <2>2, <2>3 DEF Enqueue, FaultsExplained, Alive
<1>2. CASE Wake
  <2>1. fault = "none" /\ hasty' = hasty /\ ints' = ints /\ usrs' = usrs
    BY <1>2 DEF Wake, Alive, envVars
  <2>2. CASE ~(Head(todo).to \in loopClosed /\ ~pending[Head(todo).to])
    BY <1>2, <2>1, <2>2 DEF Wake, FaultsExplained, Alive
  <2>3. CASE Head(todo).to \in loopClosed /\ ~pending[Head(todo).to]
    <3>1. fault' = "wakeup of a closed loop"
      BY <1>2, <2>3 DEF Wake
    <3>2. latch[Head(todo).to] = "closed" /\ Head(todo).to \in Threads
      BY <1>0, <2>3 DEF IInv, Phases, Ending, Kinds
    <3>3. ints # 0
      BY <3>2 DEF IInv, Stops, NeverStopped
    <3>4. Head(todo).to \in Recipients(todo)
      <4>1. todo \in Shapes /\ todo # <<>>
        BY <1>2 DEF Wake, IInv, Typed, Phases, Sending
      <4> QED  BY <4>1, ShapeFacts
    <3>5. ~(usrs = 0 /\ ints < 2)
      BY <3>2, <3>4 DEF IInv, OneWakeup
    <3>6. ints \in Nat /\ usrs \in Nat
      BY Counters DEF IInv
    <3>7. ints > 1 \/ (ints = 1 /\ usrs > 0)
      BY <3>3, <3>5, <3>6
    <3> QED  BY <2>1, <3>1, <3>7 DEF FaultsExplained
  <2> QED  BY <2>2, <2>3
<1>3. CASE EarlyClient
  BY <1>3 DEF EarlyClient, FaultsExplained
<1>4. ASSUME NEW t \in Threads, Process(t)  PROVE FaultsExplained'
  <2>1. fault = "none" /\ hasty' = hasty /\ ints' = ints
    BY <1>4 DEF Process, Alive, envVars
  <2>2. CASE fault' = fault
    BY <2>1, <2>2 DEF FaultsExplained, Alive
  <2>3. CASE fault' # fault
    <3>1. t # "mp4" /\ work[t] # "open" /\ Head(queue[t]) = "stop"
      BY <1>4, <2>3 DEF Process, StopWork
    <3>2. HasStop(t)
      BY <1>4, <3>1, ProcessFacts DEF IInv
    <3>3. hasty \/ ~(ints < 2)
      BY <3>1, <3>2 DEF IInv, SingleStop
    <3>4. ints \in Nat
      BY Counters DEF IInv
    <3>5. hasty \/ ints > 1
      BY <3>3, <3>4
    <3> QED  BY <2>1, <3>5 DEF FaultsExplained
  <2> QED  BY <2>2, <2>3
<1>5. CASE CreateRtmp
  BY <1>5 DEF CreateRtmp, FaultsExplained, Alive
<1>6. CASE CreateMp4
  BY <1>6 DEF CreateMp4, FaultsExplained, Alive
<1>7. CASE InitMap
  BY <1>7 DEF InitMap, FaultsExplained, Alive
<1>8. CASE EndLoop
  BY <1>8 DEF EndLoop, MainIdle, FaultsExplained, Alive
<1>9. CASE Exit
  BY <1>9 DEF Exit, FaultsExplained, Alive
<1>10. CASE Sigint
  BY <1>10 DEF Sigint, Handle, MainIdle, FaultsExplained, Alive
<1>11. CASE Sigusr
  BY <1>11 DEF Sigusr, Handle, MainIdle, FaultsExplained, Alive
<1>12. ASSUME NEW t \in Threads, StartDrain(t)  PROVE FaultsExplained'
  BY <1>12 DEF StartDrain, InLoop, MainIdle, FaultsExplained, Alive
<1>13. ASSUME NEW t \in Threads, EndDrain(t)  PROVE FaultsExplained'
  BY <1>13 DEF EndDrain, FaultsExplained, Alive
<1>14. ASSUME NEW t \in Threads, CloseWork(t)  PROVE FaultsExplained'
  BY <1>14 DEF CloseWork, InLoop, MainIdle, FaultsExplained, Alive
<1>15. ASSUME NEW w \in Workers, InitLatch(w)  PROVE FaultsExplained'
  BY <1>15 DEF InitLatch, FaultsExplained, Alive
<1>16. ASSUME NEW w \in Workers, Enter(w)  PROVE FaultsExplained'
  BY <1>16 DEF Enter, FaultsExplained, Alive
<1>17. ASSUME NEW w \in Workers, Leave(w)  PROVE FaultsExplained'
  BY <1>17 DEF Leave, FaultsExplained, Alive
<1>18. ASSUME NEW w \in Workers, CloseLoop(w)  PROVE FaultsExplained'
  BY <1>18 DEF CloseLoop, FaultsExplained, Alive
<1>19. ASSUME NEW w \in Workers, Finish(w)  PROVE FaultsExplained'
  BY <1>19 DEF Finish, FaultsExplained, Alive
<1>20. CASE UNCHANGED vars
  BY <1>20 DEF vars, envVars, IInv, FaultsExplained, Alive
<1> QED  BY <1>1, <1>2, <1>3, <1>4, <1>5, <1>6, <1>7, <1>8, <1>9, <1>10,
     <1>11, <1>12, <1>13, <1>14, <1>15, <1>16, <1>17, <1>18, <1>19, <1>20
     DEF Next, Main, Loop, Worker, Environment, Ended

-----------------------------------------------------------------------------
(* Theorems                                                                  *)

(* The invariant holds at the start.                                         *)
LEMMA InitIInv == Init => IInv
<1>1. Init => FaultsExplained
  BY DEF Init, FaultsExplained, Alive
<1> QED  BY <1>1, InitTyped, InitPhases, InitNoLostWakeup, InitStops, InitOneStop DEF IInv

(* Every step keeps the invariant.                                           *)
LEMMA NextIInv == IInv /\ [Next]_vars => IInv'
  BY NextTyped, NextPhases, NextNoLostWakeup, NextStops, NextWorking, NextReadyFirst,
     NextSingleStop, NextOneWakeup, NextFaultsExplained DEF IInv

(* The invariant always holds.                                               *)
LEMMA Invariance == Spec => []IInv
<1>1. Init => IInv
  BY InitIInv
<1>2. IInv /\ [Next]_vars => IInv'
  BY NextIInv
<1> QED  BY <1>1, <1>2, PTL DEF Spec

(* Every variable of the threads keeps its type, for any number of signals.  *)
THEOREM Typing == Spec => []TypeOK
<1>1. IInv => TypeOK
  BY DEF IInv, Typed
<1> QED  BY <1>1, Invariance, PTL

(* No command that main sends to a thread that still takes commands is ever  *)
(* stranded: video_make_async enqueues before it wakes, and                  *)
(* video_async_wrapper empties the queue after the wakeup was cleared.       *)
THEOREM CommandsArrive == Spec => []NoLostWakeup
<1>1. IInv => NoLostWakeup
  BY DEF IInv
<1> QED  BY <1>1, Invariance, PTL

(* Main destroys the queues when no thread can touch them any more, and they *)
(* hold then nothing but commands sent after the SIGINT that ended it.       *)
THEOREM QueuesOutliveThreads == Spec => []QueuesDestroyedLast
<1>1. ASSUME IInv  PROVE QueuesDestroyedLast
  <2>0. Kinds
    BY <1>1, KindsHold DEF IInv
  <2>1. SUFFICES ASSUME NEW t \in destroyed
                 PROVE  /\ t \notin draining
                        /\ t \in Workers => st[t] = "done"
                        /\ queue[t] # <<>> => late
    BY DEF QueuesDestroyedLast
  <2>2. pc = "done" /\ t \in Threads /\ \A w \in Workers : st[w] = "done"
    BY <1>1, <2>1 DEF IInv, Typed, TypeOK, Phases, Ending
  <2>3. latch[t] = "closed"
    BY <1>1, <2>0, <2>2, Names DEF IInv, Phases, Ending
  <2>4. t \notin draining
    BY <1>1, <2>2, <2>3 DEF IInv, Phases, Draining
  <2>5. queue[t] # <<>> => late
    BY <1>1, <2>2, <2>3 DEF IInv, Stops, ClosedAfterStop
  <2> QED  BY <2>2, <2>4, <2>5
<1> QED  BY <1>1, Invariance, PTL

(* Once all threads are ready, a single SIGINT ends the process without a    *)
(* fault however the threads interleave, unless a SIGUSR1 came with it, and  *)
(* then only by the wakeup of a loop that is closed.                         *)
THEOREM FaultsAreKnown == Spec => []FaultsExplained
<1>1. IInv => FaultsExplained
  BY DEF IInv
<1> QED  BY <1>1, Invariance, PTL

=============================================================================
