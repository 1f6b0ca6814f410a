-------------------------------- MODULE Fifo --------------------------------
(***************************************************************************)
(* What the queue of util/queue.c promises to the threads that share it,   *)
(* without mutex, nodes and pointers: each call takes effect at one        *)
(* instant, puts an item at the end or takes the first one, and an empty   *)
(* queue gives nothing.  The other modules use queues in this form.        *)
(***************************************************************************)
EXTENDS Naturals, Sequences

CONSTANTS Threads, Data, None

VARIABLES
  q,    \* the items in the queue
  call  \* call[t]: what thread t is doing

vars == <<q, call>>

Idle == [op |-> "idle", item |-> None]
Enqueuing(d) == [op |-> "enqueue", item |-> d]
Dequeuing == [op |-> "dequeue", item |-> None]
Enqueued == [op |-> "enqueued", item |-> None]
Dequeued(d) == [op |-> "dequeued", item |-> d]

Init == q = <<>> /\ call = [t \in Threads |-> Idle]

Become(t, from, to) == call[t] = from /\ call' = [call EXCEPT ![t] = to]

Call(t) ==
  /\ \/ Become(t, Idle, Dequeuing)
     \/ \E d \in Data : Become(t, Idle, Enqueuing(d))
  /\ UNCHANGED q

Enqueue(t) ==
  \E d \in Data : Become(t, Enqueuing(d), Enqueued) /\ q' = Append(q, d)

DequeueItem(t) ==
  q # <<>> /\ Become(t, Dequeuing, Dequeued(Head(q))) /\ q' = Tail(q)

DequeueNothing(t) ==
  q = <<>> /\ Become(t, Dequeuing, Dequeued(None)) /\ UNCHANGED q

Return(t) ==
  /\ call[t].op \in {"enqueued", "dequeued"}
  /\ call' = [call EXCEPT ![t] = Idle]
  /\ UNCHANGED q

Next == \E t \in Threads : Call(t) \/ Enqueue(t) \/ DequeueItem(t) \/ DequeueNothing(t) \/ Return(t)

Spec == Init /\ [][Next]_vars

=============================================================================
