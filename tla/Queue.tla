-------------------------------- MODULE Queue --------------------------------
(***************************************************************************)
(* The queue of util/queue.c: a linked list of nodes behind a head, with a *)
(* mutex.  It carries the commands to the threads and the messages to the  *)
(* subscribers.  The threads that share it interleave at every step on the *)
(* nodes.  video_queue_deinit is not here: its callers make sure that      *)
(* nobody uses the queue any more (QueuesDestroyedLast in Threads).        *)
(***************************************************************************)
EXTENDS Naturals, Sequences, FiniteSets

CONSTANTS
  Threads,  \* the threads that share the queue
  Data,     \* the items
  None,     \* "no item": the null pointer for data
  Nodes,    \* the memory that calloc gives nodes from
  First,    \* queue->head, which is part of the queue
  Null,     \* the null pointer for nodes
  Nobody,   \* the mutex is free
  MaxItems  \* bound: items in the queue and on their way into it

ASSUME QueueAssumption ==
  /\ First \notin Nodes /\ Null \notin Nodes /\ First # Null
  /\ None \notin Data
  /\ Nobody \notin Threads

VARIABLES
  mutex,   \* who holds queue->mutex
  next,    \* next[n]: n->next
  data,    \* data[n]: n->data
  used,    \* the nodes that calloc gave and free did not get back
  pc,      \* pc[t]: where thread t is
  node,    \* node[t]: its local variable node (enqueue) or next (dequeue)
  item,    \* item[t]: the parameter of enqueue, the result of dequeue
  chain    \* history: the nodes whose items are in the queue

vars == <<mutex, next, data, used, pc, node, item, chain>>

Cells == Nodes \cup {First}
Enqueues == {"enq lock", "walk", "fill"}

Init ==
  /\ mutex = Nobody
  /\ next = [n \in Cells |-> Null]
  /\ data = [n \in Cells |-> None]
  /\ used = {}
  /\ pc = [t \in Threads |-> "idle"]
  /\ node = [t \in Threads |-> Null]
  /\ item = [t \in Threads |-> None]
  /\ chain = <<>>

Go(t, from, to) == pc[t] = from /\ pc' = [pc EXCEPT ![t] = to]

Room == Len(chain) + Cardinality({t \in Threads : pc[t] \in Enqueues}) < MaxItems

Call(t) ==
  /\ \/ Room /\ Go(t, "idle", "enq lock") /\ \E d \in Data : item' = [item EXCEPT ![t] = d]
     \/ Go(t, "idle", "deq lock") /\ UNCHANGED item
  /\ UNCHANGED <<mutex, next, data, used, node, chain>>

(* uv_mutex_lock.  Mutant: dequeue does without it.                          *)
LockEnqueues(t) == (pc[t] = "enq lock" => mutex = Nobody) /\ mutex' = t
Lock(t) == mutex = Nobody /\ mutex' = t

Unlock(t) == mutex' = Nobody

-----------------------------------------------------------------------------
(* video_queue_enqueue                                                       *)

EnqueueLock(t) ==
  /\ Go(t, "enq lock", "walk") /\ Lock(t)
  /\ node' = [node EXCEPT ![t] = First]
  /\ UNCHANGED <<next, data, used, item, chain>>

Walk(t) ==
  /\ pc[t] = "walk" /\ next[node[t]] # Null
  /\ node' = [node EXCEPT ![t] = next[node[t]]]
  /\ UNCHANGED <<mutex, next, data, used, pc, item, chain>>

(* The end of the list, where the new node goes.  Mutant: any node.          *)
AnyNode(t) == TRUE
LastNode(t) == next[node[t]] = Null

Link(t) ==
  /\ Go(t, "walk", "fill") /\ LastNode(t)
  /\ \E n \in Nodes \ used :
       /\ used' = used \cup {n}
       /\ next' = [next EXCEPT ![node[t]] = n, ![n] = Null]
       /\ data' = [data EXCEPT ![n] = None]
  /\ UNCHANGED <<mutex, node, item, chain>>

Fill(t) ==
  LET n == next[node[t]] IN
  /\ Go(t, "fill", "enq unlock")
  /\ data' = [data EXCEPT ![n] = item[t]]
  /\ next' = [next EXCEPT ![n] = Null]
  /\ chain' = Append(chain, n)
  /\ UNCHANGED <<mutex, used, node, item>>

EnqueueUnlock(t) ==
  /\ Go(t, "enq unlock", "idle") /\ Unlock(t)
  /\ node' = [node EXCEPT ![t] = Null] /\ item' = [item EXCEPT ![t] = None]
  /\ UNCHANGED <<next, data, used, chain>>

-----------------------------------------------------------------------------
(* video_queue_dequeue                                                       *)

DequeueLock(t) ==
  /\ Go(t, "deq lock", "look") /\ Lock(t)
  /\ UNCHANGED <<next, data, used, node, item, chain>>

DequeueNothing(t) ==
  /\ next[First] = Null
  /\ Go(t, "look", "deq unlock")
  /\ UNCHANGED <<mutex, next, data, used, node, item, chain>>

Look(t) ==
  /\ next[First] # Null
  /\ Go(t, "look", "free")
  /\ item' = [item EXCEPT ![t] = data[next[First]]]
  /\ node' = [node EXCEPT ![t] = next[next[First]]]
  /\ UNCHANGED <<mutex, next, data, used, chain>>

Free(t) ==
  /\ Go(t, "free", "relink")
  /\ used' = used \ {next[First]}
  /\ UNCHANGED <<mutex, next, data, node, item, chain>>

Relink(t) ==
  /\ Go(t, "relink", "deq unlock")
  /\ next' = [next EXCEPT ![First] = node[t]]
  /\ chain' = SubSeq(chain, 2, Len(chain))
  /\ UNCHANGED <<mutex, data, used, node, item>>

DequeueUnlock(t) ==
  /\ Go(t, "deq unlock", "idle") /\ Unlock(t)
  /\ node' = [node EXCEPT ![t] = Null] /\ item' = [item EXCEPT ![t] = None]
  /\ UNCHANGED <<next, data, used, chain>>

-----------------------------------------------------------------------------
Enqueue(t) == EnqueueLock(t) \/ Walk(t) \/ Link(t) \/ Fill(t) \/ EnqueueUnlock(t)

Dequeue(t) ==
  DequeueLock(t) \/ DequeueNothing(t) \/ Look(t) \/ Free(t) \/ Relink(t) \/ DequeueUnlock(t)

Next == \E t \in Threads : Call(t) \/ Enqueue(t) \/ Dequeue(t)

Spec == Init /\ [][Next]_vars

-----------------------------------------------------------------------------
(* Properties                                                                *)

(* The node after the i-th one; number 0 is the head.                        *)
Cell(i) == IF i = 0 THEN First ELSE chain[i]
After(i) == IF i < Len(chain) THEN chain[i + 1] ELSE Null

(* The pointers lead through the nodes of the items in their order, each     *)
(* once, and end after the last one, except while a thread fills a new node. *)
ListSound ==
  /\ \A i, j \in 1..Len(chain) : chain[i] = chain[j] => i = j
  /\ \A i \in 0..Len(chain) :
       next[Cell(i)] = After(i) \/ (i = Len(chain) /\ \E t \in Threads : pc[t] = "fill")

(* No thread follows a pointer to a node that was freed.                     *)
NoStaleNode ==
  \A t \in Threads :
    /\ pc[t] \in {"walk", "fill"} => node[t] \in used \cup {First}
    /\ pc[t] \in {"look", "free"} => next[First] \in used \cup {Null}

(* The queue implements Fifo: enqueue takes effect when the new node gets    *)
(* its item, dequeue when the head points behind the node it takes or when   *)
(* it finds the head without one.                                            *)
CallOf(t) ==
  [op |-> CASE pc[t] = "idle" -> "idle"
            [] pc[t] \in Enqueues -> "enqueue"
            [] pc[t] = "enq unlock" -> "enqueued"
            [] pc[t] = "deq unlock" -> "dequeued"
            [] OTHER -> "dequeue",
   item |-> IF pc[t] \in Enqueues \cup {"deq unlock"} THEN item[t] ELSE None]

F == INSTANCE Fifo WITH q <- [i \in 1..Len(chain) |-> data[chain[i]]],
                        call <- [t \in Threads |-> CallOf(t)]

ImplementsFifo == F!Spec

=============================================================================
