------------------------------ MODULE Threads -------------------------------
(***************************************************************************)
(* The threads of the process and how it stops (main.c, global/global.c,   *)
(* util/queue.c, and the hooks of rtmp/rtmp.c and mp4/mp4.c).              *)
(*                                                                         *)
(* The main thread starts two workers and then only handles signals.  It   *)
(* commands a worker by a queue of video_async_t and a libuv async handle, *)
(* the latch.  The threads interleave at every access to shared state: a   *)
(* queue operation (under the mutex of the queue), a wakeup, the global    *)
(* mutex, the end of a thread.                                             *)
(*                                                                         *)
(* Where the program's behaviour is undefined or libuv aborts, fault names *)
(* what happened and nothing happens any more.                             *)
(***************************************************************************)
EXTENDS Naturals, Sequences

CONSTANTS
  MaxInt,     \* bound: how many SIGINT are delivered
  MaxUsr      \* bound: how many SIGUSR1 are delivered

ASSUME BoundAssumption == MaxInt \in Nat /\ MaxUsr \in Nat

Workers == {"rtmp", "mp4"}
Threads == Workers \cup {"main"}
Commands == {"stop", "stat"}

VARIABLES
  pc,         \* where main() is
  st,         \* st[w]: where video_global_entry of a worker is
  queue,      \* queue[t]: video_thread_t.queue
  destroyed,  \* the threads whose queue was destroyed
  latch,      \* latch[t]: video_thread_t.latch: "uninit", "active" or "closed"
  pending,    \* pending[t]: a wakeup was sent to the latch and not yet taken
  draining,   \* the threads that are inside video_async_wrapper
  closeAfter, \* the threads whose local variable close is set
  todo,       \* the video_make_async calls main's signal handler has yet to make
  queued,     \* main is between video_queue_enqueue and uv_async_send
  work,       \* work[t]: the other handles of the loop: "none", "open", "closing"
  loopClosed, \* the workers whose loop was closed
  mutex,      \* who holds global->mutex
  mapReady,   \* global->channels was initialised
  ints, usrs, \* signals delivered
  late,       \* history: a signal was handled after the first SIGINT
  hasty,      \* history: a signal or a client came before the program was ready
  fault

mainVars == <<pc, todo, queued, mapReady>>
envVars == <<ints, usrs, late, hasty>>
commVars == <<queue, destroyed, latch, pending>>
cbVars == <<draining, closeAfter>>
vars == <<mainVars, envVars, commVars, cbVars, st, work, loopClosed, mutex, fault>>

Init ==
  /\ pc = "create rtmp"
  /\ st = [w \in Workers |-> "absent"]
  /\ queue = [t \in Threads |-> <<>>]
  /\ destroyed = {}
  /\ latch = [t \in Threads |-> "uninit"]
  /\ pending = [t \in Threads |-> FALSE]
  /\ draining = {}
  /\ closeAfter = {}
  /\ todo = <<>>
  /\ queued = FALSE
  /\ work = [t \in Threads |-> "none"]
  /\ loopClosed = {}
  /\ mutex = "nobody"
  /\ mapReady = FALSE
  /\ ints = 0 /\ usrs = 0
  /\ late = FALSE /\ hasty = FALSE
  /\ fault = "none"

Alive == fault = "none"

-----------------------------------------------------------------------------
(* Startup                                                                   *)

(* video_global_init up to the first uv_thread_create                        *)
CreateRtmp ==
  /\ Alive /\ pc = "create rtmp"
  /\ pc' = "create mp4"
  /\ latch' = [latch EXCEPT !["main"] = "active"]
  /\ st' = [st EXCEPT !["rtmp"] = "created"]
  /\ UNCHANGED <<todo, queued, mapReady, envVars, queue, destroyed, pending, cbVars,
                 work, loopClosed, mutex, fault>>

CreateMp4 ==
  /\ Alive /\ pc = "create mp4"
  /\ pc' = "init map"
  /\ st' = [st EXCEPT !["mp4"] = "created"]
  /\ UNCHANGED <<todo, queued, mapReady, envVars, commVars, cbVars,
                 work, loopClosed, mutex, fault>>

(* The end of video_global_init, then main() up to its uv_run                *)
InitMap ==
  /\ Alive /\ pc = "init map"
  /\ pc' = "loop"
  /\ mapReady' = TRUE
  /\ work' = [work EXCEPT !["main"] = "open"]
  /\ UNCHANGED <<todo, queued, envVars, commVars, cbVars, st, loopClosed, mutex, fault>>

(* video_global_entry: loop and latch are initialised on the worker itself.  *)
InitLatch(w) ==
  /\ Alive /\ st[w] = "created"
  /\ st' = [st EXCEPT ![w] = "entry"]
  /\ latch' = [latch EXCEPT ![w] = "active"]
  /\ UNCHANGED <<mainVars, envVars, queue, destroyed, pending, cbVars,
                 work, loopClosed, mutex, fault>>

(* thread->entry, the line "loop ready", uv_run.  video_rtmp_entry opens the *)
(* listener and the timer, video_mp4_entry nothing.                          *)
Enter(w) ==
  /\ Alive /\ st[w] = "entry"
  /\ st' = [st EXCEPT ![w] = "running"]
  /\ work' = [work EXCEPT ![w] = IF w = "rtmp" THEN "open" ELSE "none"]
  /\ UNCHANGED <<mainVars, envVars, commVars, cbVars, loopClosed, mutex, fault>>

-----------------------------------------------------------------------------
(* Signals and clients                                                       *)

Ready == mapReady /\ \A w \in Workers : st[w] \notin {"absent", "created", "entry"}

(* Mutant of Command: the arguments of video_make_async are swapped.         *)
CommandSwapped(t, c) == [to |-> c, type |-> t]
Command(t, c) == [to |-> t, type |-> c]

(* main's loop is between two callbacks.                                     *)
MainIdle == Alive /\ pc = "loop" /\ todo = <<>> /\ "main" \notin draining

Handle(commands) ==
  /\ MainIdle /\ work["main"] = "open"
  /\ todo' = commands
  /\ late' = (late \/ ints > 0)
  /\ hasty' = (hasty \/ ~Ready)
  /\ UNCHANGED <<pc, queued, mapReady, commVars, cbVars, st, work, loopClosed, mutex, fault>>

(* video_main_sigint                                                         *)
Sigint ==
  /\ ints < MaxInt /\ ints' = ints + 1
  /\ Handle(<<Command("rtmp", "stop"), Command("mp4", "stop"), Command("main", "stop")>>)
  /\ UNCHANGED usrs

(* video_main_sigusr                                                         *)
Sigusr ==
  /\ usrs < MaxUsr /\ usrs' = usrs + 1
  /\ Handle(<<Command("rtmp", "stat"), Command("mp4", "stat")>>)
  /\ UNCHANGED ints

(* A client publishes or plays while the channel map is still uninitialised. *)
EarlyClient ==
  /\ Alive /\ st["rtmp"] = "running" /\ work["rtmp"] = "open"
  /\ ~mapReady
  /\ hasty' = TRUE
  /\ fault' = "channel map used before video_map_init"
  /\ UNCHANGED <<mainVars, ints, usrs, late, commVars, cbVars, st, work, loopClosed, mutex>>

-----------------------------------------------------------------------------
(* video_make_async                                                          *)

(* async->loop->data is followed and the command enqueued.                   *)
Enqueue ==
  LET to == Head(todo).to IN
  /\ Alive /\ todo # <<>> /\ ~queued
  /\ IF latch[to] = "uninit"
     THEN fault' = "loop of an uninitialised latch" /\ UNCHANGED <<queue, queued>>
     ELSE /\ queue' = [queue EXCEPT ![to] = Append(@, Head(todo).type)]
          /\ queued' = TRUE
          /\ UNCHANGED fault
  /\ UNCHANGED <<pc, todo, mapReady, envVars, destroyed, latch, pending, cbVars,
                 st, work, loopClosed, mutex>>

(* uv_async_send: nothing when a wakeup is on its way, else a write to the   *)
(* descriptor of the loop, which libuv answers by abort() if it was closed.  *)
Wake ==
  LET to == Head(todo).to IN
  /\ Alive /\ queued
  /\ IF to \in loopClosed /\ ~pending[to]
     THEN fault' = "wakeup of a closed loop" /\ UNCHANGED <<pending, todo, queued>>
     ELSE /\ pending' = [pending EXCEPT ![to] = TRUE]
          /\ todo' = Tail(todo)
          /\ queued' = FALSE
          /\ UNCHANGED fault
  /\ UNCHANGED <<pc, mapReady, envVars, queue, destroyed, latch, cbVars,
                 st, work, loopClosed, mutex>>

-----------------------------------------------------------------------------
(* video_async_wrapper                                                       *)

InLoop(t) == IF t = "main" THEN MainIdle ELSE Alive /\ st[t] = "running" /\ t \notin draining

(* libuv clears the wakeup, then calls video_async_wrapper.                  *)
StartDrain(t) ==
  /\ InLoop(t) /\ latch[t] = "active" /\ pending[t]
  /\ pending' = [pending EXCEPT ![t] = FALSE]
  /\ draining' = draining \cup {t}
  /\ UNCHANGED <<mainVars, envVars, queue, destroyed, latch, closeAfter,
                 st, work, loopClosed, mutex, fault>>

(* thread->async with STOP.  A second STOP closes handles that are closing   *)
(* (the RTMP thread also frees its list of clients twice).                   *)
StopWork(t) ==
  CASE t = "mp4"         -> UNCHANGED <<work, fault>>
    [] work[t] = "open"  -> work' = [work EXCEPT ![t] = "closing"] /\ UNCHANGED fault
    [] OTHER             -> fault' = "second stop" /\ UNCHANGED work

(* One round of the wrapper's loop: video_queue_dequeue, then the command.   *)
Process(t) ==
  /\ Alive /\ t \in draining /\ queue[t] # <<>>
  /\ queue' = [queue EXCEPT ![t] = Tail(@)]
  /\ IF Head(queue[t]) = "stop"
     THEN StopWork(t) /\ closeAfter' = closeAfter \cup {t}
     ELSE UNCHANGED <<work, fault, closeAfter>>
  /\ UNCHANGED <<mainVars, envVars, destroyed, latch, pending, draining,
                 st, loopClosed, mutex>>

(* Mutant of CloseLatch: the latch of a stopped thread stays open.           *)
KeepLatch(t) == UNCHANGED latch
CloseLatch(t) == latch' = IF t \in closeAfter THEN [latch EXCEPT ![t] = "closed"] ELSE latch

(* The condition that ends the wrapper's loop.  Mutant: it does not loop.    *)
OneRound(t) == TRUE
NothingLeft(t) == queue[t] = <<>>

EndDrain(t) ==
  /\ Alive /\ t \in draining /\ NothingLeft(t)
  /\ draining' = draining \ {t}
  /\ CloseLatch(t)
  /\ UNCHANGED <<mainVars, envVars, queue, destroyed, pending, closeAfter,
                 st, work, loopClosed, mutex, fault>>

(* The close callbacks of the handles that STOP closed, and of all           *)
(* connections, have run.                                                    *)
CloseWork(t) ==
  /\ InLoop(t) /\ work[t] = "closing"
  /\ work' = [work EXCEPT ![t] = "none"]
  /\ UNCHANGED <<mainVars, envVars, commVars, cbVars, st, loopClosed, mutex, fault>>

(* What lets uv_run return.  Mutant: the latch does not keep the loop alive. *)
NoWork(t) == work[t] = "none"
NoHandles(t) == latch[t] = "closed" /\ work[t] = "none"

-----------------------------------------------------------------------------
(* The end of the threads                                                    *)

(* uv_run returns, the global mutex is taken.                                *)
Leave(w) ==
  /\ Alive /\ st[w] = "running" /\ NoHandles(w)
  /\ mutex = "nobody"
  /\ mutex' = w
  /\ st' = [st EXCEPT ![w] = "leaving"]
  /\ UNCHANGED <<mainVars, envVars, commVars, cbVars, work, loopClosed, fault>>

(* thread->exit and uv_loop_close                                            *)
CloseLoop(w) ==
  /\ Alive /\ st[w] = "leaving" /\ w \notin loopClosed
  /\ loopClosed' = loopClosed \cup {w}
  /\ UNCHANGED <<mainVars, envVars, commVars, cbVars, st, work, mutex, fault>>

Finish(w) ==
  /\ Alive /\ st[w] = "leaving" /\ w \in loopClosed
  /\ mutex' = "nobody"
  /\ st' = [st EXCEPT ![w] = "done"]
  /\ UNCHANGED <<mainVars, envVars, commVars, cbVars, work, loopClosed, fault>>

(* main's uv_run returns.                                                    *)
EndLoop ==
  /\ MainIdle /\ NoHandles("main")
  /\ pc' = "join"
  /\ UNCHANGED <<todo, queued, mapReady, envVars, commVars, cbVars,
                 st, work, loopClosed, mutex, fault>>

(* Mutant of Joined: only the first worker is waited for.                    *)
JoinedRtmp == st["rtmp"] = "done"
Joined == \A w \in Workers : st[w] = "done"

(* video_global_deinit and the return of main()                              *)
Exit ==
  /\ Alive /\ pc = "join" /\ Joined
  /\ pc' = "done"
  /\ destroyed' = Threads
  /\ UNCHANGED <<todo, queued, mapReady, envVars, queue, latch, pending, cbVars,
                 st, work, loopClosed, mutex, fault>>

Ended == (pc = "done" \/ ~Alive) /\ UNCHANGED vars

-----------------------------------------------------------------------------
Main == CreateRtmp \/ CreateMp4 \/ InitMap \/ Enqueue \/ Wake \/ EndLoop \/ Exit

Loop(t) == StartDrain(t) \/ Process(t) \/ EndDrain(t) \/ CloseWork(t)

Worker(w) == InitLatch(w) \/ Enter(w) \/ Leave(w) \/ CloseLoop(w) \/ Finish(w)

Environment == Sigint \/ Sigusr \/ EarlyClient

Next ==
  \/ Main
  \/ Environment
  \/ \E t \in Threads : Loop(t)
  \/ \E w \in Workers : Worker(w)
  \/ Ended

Spec == Init /\ [][Next]_vars

(* The operating system schedules every thread.  Signals need not arrive.    *)
Fairness ==
  /\ WF_vars(Main)
  /\ \A t \in Threads : WF_vars(Loop(t))
  /\ \A w \in Workers : WF_vars(Worker(w))

FairSpec == Spec /\ Fairness

-----------------------------------------------------------------------------
(* Properties                                                                *)

(* The shape of every variable.                                              *)
TypeOK ==
  /\ pc \in {"create rtmp", "create mp4", "init map", "loop", "join", "done"}
  /\ st \in [Workers -> {"absent", "created", "entry", "running", "leaving", "done"}]
  /\ queue \in [Threads -> Seq(Commands)]
  /\ destroyed \subseteq Threads
  /\ latch \in [Threads -> {"uninit", "active", "closed"}]
  /\ pending \in [Threads -> BOOLEAN]
  /\ draining \subseteq Threads
  /\ closeAfter \subseteq Threads
  /\ todo \in Seq([to : Threads, type : Commands])
  /\ queued \in BOOLEAN
  /\ work \in [Threads -> {"none", "open", "closing"}]
  /\ loopClosed \subseteq Workers
  /\ mutex \in Workers \cup {"nobody"}
  /\ mapReady \in BOOLEAN
  /\ ints \in 0..MaxInt /\ usrs \in 0..MaxUsr
  /\ late \in BOOLEAN /\ hasty \in BOOLEAN
  /\ fault \in {"none", "loop of an uninitialised latch", "wakeup of a closed loop",
                "second stop", "channel map used before video_map_init"}

(* Main does not wait for its workers to be ready and does not expect a      *)
(* second SIGINT.  Once the program is ready, a single SIGINT is safe however*)
(* the threads interleave, with one exception: a worker that SIGUSR1 woke up *)
(* can take STOP out of its queue and close its loop before main sends the   *)
(* wakeup for that STOP (or for a later STAT) to the closed loop.            *)
FaultsExplained ==
  ~Alive /\ ~hasty =>
    \/ ints > 1
    \/ ints = 1 /\ usrs > 0 /\ fault = "wakeup of a closed loop"

(* A command that was enqueued is never stranded: while its thread may still *)
(* take it, a wakeup is on its way, the queue is being drained, or main is   *)
(* about to send the wakeup.                                                 *)
NoLostWakeup ==
  \A t \in Threads :
    Alive /\ queue[t] # <<>> /\ latch[t] = "active" =>
      pending[t] \/ t \in draining \/ (queued /\ Head(todo).to = t)

(* The queues, which live in main's stack frame, are destroyed only when no  *)
(* thread can touch them, and a command is thrown away with its queue only   *)
(* if it was sent after the SIGINT that ended the program.                   *)
QueuesDestroyedLast ==
  \A t \in destroyed :
    /\ t \notin draining
    /\ t \in Workers => st[t] = "done"
    /\ queue[t] # <<>> => late

(* SIGINT ends the process: every loop runs out of handles, every thread is  *)
(* joined and main returns, unless a fault has ended it before.              *)
SigintEndsProcess == ints > 0 ~> (pc = "done" \/ ~Alive)

=============================================================================
