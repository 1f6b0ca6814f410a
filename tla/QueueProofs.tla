---------------------------- MODULE QueueProofs -----------------------------
(***************************************************************************)
(* Proofs about Queue, for any number of threads, items and nodes: the     *)
(* linked list stays sound, no thread meets a freed node, and the queue    *)
(* implements Fifo.                                                        *)
(***************************************************************************)
EXTENDS Queue, SequenceTheorems, TLAPS

Items == Data \cup {None}
Outside == {"idle", "enq lock", "deq lock"}
Inside == {"walk", "fill", "enq unlock", "look", "free", "relink", "deq unlock"}

TypeInv ==
  /\ mutex \in Threads \cup {Nobody}
  /\ next \in [Cells -> Nodes \cup {Null}]
  /\ data \in [Cells -> Items]
  /\ used \in SUBSET Nodes
  /\ pc \in [Threads -> Outside \cup Inside]
  /\ node \in [Threads -> Cells \cup {Null}]
  /\ item \in [Threads -> Items]
  /\ chain \in Seq(Nodes)

(* Only the thread that holds the mutex is on the nodes.                     *)
Exclusive == \A t \in Threads : pc[t] \in Inside <=> mutex = t

Some(label) == \E t \in Threads : pc[t] = label

(* The list in memory.                                                       *)
Distinct == \A i, j \in 1..Len(chain) : chain[i] = chain[j] => i = j
Linked == \A i \in 0..Len(chain) : i < Len(chain) => next[Cell(i)] = chain[i + 1]
Ended == next[Cell(Len(chain))] = Null \/ Some("fill")
InUse == \A i \in 1..Len(chain) : chain[i] \in used \/ (i = 1 /\ Some("relink"))
Filled == \A i \in 1..Len(chain) : data[chain[i]] \in Data

MemoryInv == Distinct /\ Linked /\ Ended /\ InUse /\ Filled

(* What the local variables of a thread are.                                 *)
ThreadInv(t) ==
  /\ pc[t] \in Enqueues => item[t] \in Data
  /\ pc[t] \in {"idle", "deq lock", "look"} => item[t] = None
  /\ pc[t] = "walk" => \E i \in 0..Len(chain) : node[t] = Cell(i)
  /\ pc[t] = "fill" =>
       /\ node[t] = Cell(Len(chain))
       /\ next[node[t]] \in used
       /\ \A i \in 1..Len(chain) : chain[i] # next[node[t]]
  /\ pc[t] \in {"free", "relink"} =>
       Len(chain) > 0 /\ item[t] = data[chain[1]] /\ node[t] = After(1)

(* The chain is a sequence of nodes.                                         *)
LEMMA ChainType ==
  ASSUME TypeInv
  PROVE  Len(chain) \in Nat /\ \A i \in 1..Len(chain) : chain[i] \in Nodes
<1>1. chain \in Seq(Nodes)
  BY DEF TypeInv
<1> QED  BY <1>1

(* A sequence that is not empty has a first element.                         *)
LEMMA OneOrMore ==
  ASSUME NEW n \in Nat, n > 0
  PROVE  n = 1 \/ n > 1
  OBVIOUS

(* The elements of a sequence with one more.                                 *)
LEMMA Appended ==
  ASSUME NEW S, NEW s \in Seq(S), NEW x \in S
  PROVE  /\ Append(s, x) \in Seq(S) /\ Len(Append(s, x)) = Len(s) + 1
         /\ \A i \in 1..Len(s) : Append(s, x)[i] = s[i]
         /\ Append(s, x)[Len(s) + 1] = x
  OBVIOUS

(* The elements of a sequence without its first.                             *)
LEMMA Behead ==
  ASSUME NEW S, NEW s \in Seq(S), Len(s) > 0
  PROVE  /\ SubSeq(s, 2, Len(s)) \in Seq(S) /\ Len(SubSeq(s, 2, Len(s))) = Len(s) - 1
         /\ \A i \in 1..(Len(s) - 1) : SubSeq(s, 2, Len(s))[i] = s[i + 1]
<1> DEFINE n == Len(s)
<1>1. n \in Nat /\ 2 \in 1..(n + 1) /\ n \in (2 - 1)..Len(s) /\ (n - 2) + 1 = n - 1
  OBVIOUS
<1>2. /\ SubSeq(s, 2, n) \in Seq(S)
      /\ Len(SubSeq(s, 2, n)) = IF 2 <= n THEN n - 2 + 1 ELSE 0
      /\ \A i \in 1..(n - 2 + 1) : SubSeq(s, 2, n)[i] = s[2 + i - 1]
  BY <1>1, SubSeqProperties
<1>3. \A i \in 1..(n - 1) : 2 + i - 1 = i + 1
  BY <1>1
<1> HIDE DEF n
<1>4. Len(SubSeq(s, 2, n)) = n - 1
  BY <1>1, <1>2
<1> QED  BY <1>1, <1>2, <1>3, <1>4 DEF n

IInv == TypeInv /\ Exclusive /\ MemoryInv /\ \A t \in Threads : ThreadInv(t)

(* The invariant holds at the start.                                         *)
LEMMA InitIInv == Init => IInv
<1> SUFFICES ASSUME Init  PROVE IInv
  OBVIOUS
<1>1. TypeInv
  BY DEF Init, TypeInv, Items, Outside, Cells
<1>2. Exclusive
  BY QueueAssumption DEF Init, Exclusive, Inside
<1>3. Len(chain) = 0 /\ next[First] = Null
  BY DEF Init, Cells
<1>4. MemoryInv
  BY <1>3 DEF MemoryInv, Distinct, Linked, Ended, InUse, Filled, Cell
<1>5. \A t \in Threads : ThreadInv(t)
  BY DEF Init, ThreadInv, Enqueues
<1> QED  BY <1>1, <1>2, <1>4, <1>5 DEF IInv

-----------------------------------------------------------------------------
(* A thread t moves from label a to label b.                                 *)

(* A thread that moves on keeps the types.                                   *)
LEMMA MoveType ==
  ASSUME TypeInv, NEW t \in Threads, NEW a, NEW b \in Outside \cup Inside, Go(t, a, b)
  PROVE  /\ pc' \in [Threads -> Outside \cup Inside] /\ pc[t] = a /\ pc'[t] = b
         /\ \A u \in Threads : u # t => pc'[u] = pc[u]
  BY DEF TypeInv, Go

(* Taking, keeping and giving up the mutex.                                  *)
LEMMA MoveExclusive ==
  ASSUME TypeInv, Exclusive, NEW t \in Threads, NEW a, NEW b \in Outside \cup Inside, Go(t, a, b),
         \/ a \in Outside /\ b \in Outside /\ mutex' = mutex
         \/ a \in Outside /\ b \in Inside /\ mutex = Nobody /\ mutex' = t
         \/ a \in Inside /\ b \in Inside /\ mutex' = mutex
         \/ a \in Inside /\ b \in Outside /\ mutex' = Nobody
  PROVE  Exclusive' /\ mutex' \in Threads \cup {Nobody}
<1>1. /\ pc[t] = a /\ pc'[t] = b /\ \A u \in Threads : u # t => pc'[u] = pc[u]
  BY MoveType
<1>2. Outside \cap Inside = {}
  BY DEF Outside, Inside
<1> QED  BY <1>1, <1>2, QueueAssumption DEF Exclusive, TypeInv

(* While one thread is on the nodes, no other one is.                        *)
LEMMA Alone ==
  ASSUME Exclusive, NEW t \in Threads, pc[t] \in Inside
  PROVE  \A u \in Threads : u # t => pc[u] \notin Inside
  BY DEF Exclusive

(* The memory stays as it is, and nobody begins or ends to change it.        *)
LEMMA QuietMemory ==
  ASSUME TypeInv, MemoryInv, UNCHANGED <<next, data, used, chain>>,
         NEW t \in Threads, NEW a, NEW b \in Outside \cup Inside, Go(t, a, b),
         a \notin {"fill", "relink"}
  PROVE  MemoryInv'
<1>1. \A l \in {"fill", "relink"} : Some(l) => Some(l)'
  BY MoveType DEF Some
<1>2. (Distinct /\ Linked /\ Filled)'
  BY DEF MemoryInv, Distinct, Linked, Filled, Cell
<1>3. (Ended /\ InUse)'
  BY <1>1 DEF MemoryInv, Ended, InUse, Cell
<1> QED  BY <1>2, <1>3 DEF MemoryInv

(* The other threads do not notice.                                          *)
LEMMA QuietThreads ==
  ASSUME TypeInv, UNCHANGED <<next, data, used, chain>>, NEW u \in Threads, ThreadInv(u),
         pc'[u] = pc[u], node'[u] = node[u], item'[u] = item[u]
  PROVE  ThreadInv(u)'
  BY DEF ThreadInv, Cell, After

(* Nor do those that are not on the nodes, whatever happens to these.        *)
LEMMA OutsideThreads ==
  ASSUME TypeInv, NEW u \in Threads, ThreadInv(u), pc[u] \notin Inside,
         pc'[u] = pc[u], item'[u] = item[u]
  PROVE  ThreadInv(u)'
  BY DEF ThreadInv, TypeInv, Outside, Inside

(* A step that leaves the memory as it is.                                   *)
LEMMA QuietStep ==
  ASSUME IInv, NEW t \in Threads, NEW a, NEW b \in Outside \cup Inside, Go(t, a, b),
         UNCHANGED <<next, data, used, chain>>, a \notin {"fill", "relink"},
         \/ a \in Outside /\ b \in Outside /\ mutex' = mutex
         \/ a \in Outside /\ b \in Inside /\ mutex = Nobody /\ mutex' = t
         \/ a \in Inside /\ b \in Inside /\ mutex' = mutex
         \/ a \in Inside /\ b \in Outside /\ mutex' = Nobody,
         NEW n \in Cells \cup {Null}, node' = [node EXCEPT ![t] = n],
         NEW d \in Items, item' = [item EXCEPT ![t] = d],
         ThreadInv(t)'
  PROVE  IInv'
<1>1. TypeInv /\ Exclusive /\ MemoryInv
  BY DEF IInv
<1>2. Exclusive' /\ mutex' \in Threads \cup {Nobody}
  BY <1>1, MoveExclusive
<1>3. pc' \in [Threads -> Outside \cup Inside] /\ \A u \in Threads : u # t => pc'[u] = pc[u]
  BY <1>1, MoveType
<1>4. TypeInv'
  BY <1>1, <1>2, <1>3 DEF TypeInv
<1>5. MemoryInv'
  BY <1>1, QuietMemory
<1>6. ASSUME NEW u \in Threads, u # t  PROVE ThreadInv(u)'
  <2>1. node'[u] = node[u] /\ item'[u] = item[u] /\ pc'[u] = pc[u]
    BY <1>1, <1>3, <1>6 DEF TypeInv
  <2> QED  BY <1>1, <2>1, QuietThreads DEF IInv
<1> QED  BY <1>2, <1>4, <1>5, <1>6 DEF IInv

(* Call keeps the invariant.                                                 *)
LEMMA CallIInv ==
  ASSUME IInv, NEW t \in Threads, Call(t)
  PROVE  IInv'
<1>1. TypeInv /\ ThreadInv(t) /\ node' = [node EXCEPT ![t] = node[t]] /\ node[t] \in Cells \cup {Null}
  BY DEF IInv, TypeInv, Call
<1>2. CASE Go(t, "idle", "enq lock") /\ \E d \in Data : item' = [item EXCEPT ![t] = d]
  <2>1. PICK d \in Data : item' = [item EXCEPT ![t] = d]
    BY <1>2
  <2>2. pc'[t] = "enq lock" /\ item'[t] = d /\ d \in Items
    BY <1>1, <1>2, <2>1 DEF Go, TypeInv, Items
  <2>3. ThreadInv(t)'
    BY <2>2 DEF ThreadInv
  <2> QED  BY <1>1, <1>2, <2>1, <2>2, <2>3, QuietStep DEF Call, Outside, Inside
<1>3. CASE Go(t, "idle", "deq lock") /\ UNCHANGED item
  <2>1. pc'[t] = "deq lock" /\ item[t] = None /\ item' = [item EXCEPT ![t] = None] /\ item'[t] = None
    BY <1>1, <1>3 DEF Go, TypeInv, ThreadInv
  <2>2. ThreadInv(t)'
    BY <2>1 DEF ThreadInv, Enqueues
  <2> QED  BY <1>1, <1>3, <2>1, <2>2, QuietStep DEF Call, Outside, Inside, Items
<1> QED  BY <1>2, <1>3 DEF Call

(* EnqueueLock keeps the invariant.                                          *)
LEMMA EnqueueLockIInv ==
  ASSUME IInv, NEW t \in Threads, EnqueueLock(t)
  PROVE  IInv'
<1>1. TypeInv /\ ThreadInv(t) /\ pc[t] = "enq lock"
  BY DEF IInv, EnqueueLock, Go
<1>2. /\ pc'[t] = "walk" /\ node'[t] = First /\ item' = [item EXCEPT ![t] = item[t]]
      /\ item[t] \in Items /\ item'[t] = item[t] /\ First \in Cells
  BY <1>1 DEF EnqueueLock, Go, TypeInv, Cells
<1>3. item[t] \in Data
  BY <1>1 DEF ThreadInv, Enqueues
<1>4. Cell(0)' = First /\ 0 \in 0..Len(chain')
  <2>1. Len(chain) \in Nat
    BY <1>1, ChainType
  <2>2. chain' = chain
    BY DEF EnqueueLock
  <2> QED  BY <2>1, <2>2 DEF Cell
<1>5. ThreadInv(t)'
  BY <1>2, <1>3, <1>4 DEF ThreadInv
<1> QED  BY <1>2, <1>5, QuietStep DEF EnqueueLock, Lock, Outside, Inside

(* Unlock keeps the invariant.                                               *)
LEMMA UnlockIInv ==
  ASSUME IInv, NEW t \in Threads, EnqueueUnlock(t) \/ DequeueUnlock(t)
  PROVE  IInv'
<1>1. PICK a \in {"enq unlock", "deq unlock"} : Go(t, a, "idle")
  BY DEF EnqueueUnlock, DequeueUnlock
<1>2. /\ mutex' = Nobody /\ node' = [node EXCEPT ![t] = Null] /\ item' = [item EXCEPT ![t] = None]
      /\ UNCHANGED <<next, data, used, chain>>
  BY DEF EnqueueUnlock, DequeueUnlock, Unlock
<1>3. pc'[t] = "idle" /\ item'[t] = None
  BY <1>1, <1>2 DEF IInv, TypeInv, Go
<1>4. ThreadInv(t)'
  BY <1>3 DEF ThreadInv, Enqueues
<1> QED  BY <1>1, <1>2, <1>4, QuietStep DEF Outside, Inside, Items

(* DequeueLock keeps the invariant.                                          *)
LEMMA DequeueLockIInv ==
  ASSUME IInv, NEW t \in Threads, DequeueLock(t)
  PROVE  IInv'
<1>1. TypeInv /\ ThreadInv(t) /\ pc[t] = "deq lock"
  BY DEF IInv, DequeueLock, Go
<1>2. /\ pc'[t] = "look" /\ item' = [item EXCEPT ![t] = item[t]] /\ node' = [node EXCEPT ![t] = node[t]]
      /\ item[t] = None /\ item'[t] = None /\ item[t] \in Items /\ node[t] \in Cells \cup {Null}
  BY <1>1 DEF DequeueLock, Go, TypeInv, ThreadInv, Items
<1>3. ThreadInv(t)'
  BY <1>2 DEF ThreadInv, Enqueues
<1> QED  BY <1>2, <1>3, QuietStep DEF DequeueLock, Lock, Outside, Inside

(* DequeueNothing keeps the invariant.                                       *)
LEMMA DequeueNothingIInv ==
  ASSUME IInv, NEW t \in Threads, DequeueNothing(t)
  PROVE  IInv'
<1>1. TypeInv /\ ThreadInv(t) /\ pc[t] = "look"
  BY DEF IInv, DequeueNothing, Go
<1>2. /\ pc'[t] = "deq unlock" /\ item' = [item EXCEPT ![t] = item[t]] /\ node' = [node EXCEPT ![t] = node[t]]
      /\ item[t] \in Items /\ node[t] \in Cells \cup {Null}
  BY <1>1 DEF DequeueNothing, Go, TypeInv, Items
<1>3. ThreadInv(t)'
  BY <1>2 DEF ThreadInv, Enqueues
<1> QED  BY <1>2, <1>3, QuietStep DEF DequeueNothing, Inside

(* The first node, when there is one, and what follows it.                   *)
LEMMA FirstNode ==
  ASSUME IInv, NEW t \in Threads, pc[t] \in {"look", "free"}
  PROVE  /\ Len(chain) \in Nat
         /\ ~Some("fill") /\ ~Some("relink")
         /\ next[First] = (IF Len(chain) > 0 THEN chain[1] ELSE Null)
         /\ Len(chain) > 0 => /\ chain[1] \in Nodes /\ chain[1] \in used /\ chain[1] # Null
                              /\ next[chain[1]] = After(1) /\ data[chain[1]] \in Data
<1>1. TypeInv /\ Exclusive /\ MemoryInv
  BY DEF IInv
<1>2. ~Some("fill") /\ ~Some("relink")
  BY <1>1, Alone DEF Some, Inside
<1>3. Len(chain) \in Nat /\ \A i \in 1..Len(chain) : chain[i] \in Nodes
  BY <1>1 DEF TypeInv
<1>4. CASE Len(chain) = 0
  BY <1>1, <1>2, <1>4 DEF MemoryInv, Ended, Cell
<1>5. CASE Len(chain) > 0
  <2>1. 0 \in 0..Len(chain) /\ 1 \in 0..Len(chain) /\ 1 \in 1..Len(chain)
    BY <1>3, <1>5
  <2>2. next[First] = chain[1]
    BY <1>1, <1>5, <2>1 DEF MemoryInv, Linked, Cell
  <2>3. next[chain[1]] = After(1)
    <3>1. CASE Len(chain) = 1
      <4>1. Cell(Len(chain)) = chain[1]
        BY <3>1 DEF Cell
      <4>2. After(1) = Null
        BY <3>1 DEF After
      <4>3. next[Cell(Len(chain))] = Null
        BY <1>1, <1>2 DEF MemoryInv, Ended
      <4> QED  BY <4>1, <4>2, <4>3
    <3>2. CASE Len(chain) > 1
      <4>1. next[Cell(1)] = chain[1 + 1]
        BY <1>1, <2>1, <3>2 DEF MemoryInv, Linked
      <4> QED  BY <3>2, <4>1 DEF Cell, After
    <3>3. Len(chain) = 1 \/ Len(chain) > 1
      BY <1>3, <1>5, OneOrMore
    <3> QED  BY <3>1, <3>2, <3>3
  <2>4. chain[1] \in used /\ data[chain[1]] \in Data
    BY <1>1, <1>2, <2>1 DEF MemoryInv, InUse, Filled
  <2> QED  BY <1>2, <1>3, <1>5, <2>1, <2>2, <2>3, <2>4, QueueAssumption
<1> QED  BY <1>3, <1>4, <1>5

(* Look keeps the invariant.                                                 *)
LEMMA LookIInv ==
  ASSUME IInv, NEW t \in Threads, Look(t)
  PROVE  IInv'
<1>1. TypeInv /\ ThreadInv(t) /\ pc[t] = "look" /\ next[First] # Null
  BY DEF IInv, Look, Go
<1>2. Len(chain) > 0 /\ next[First] = chain[1] /\ next[chain[1]] = After(1) /\ data[chain[1]] \in Data
  BY <1>1, FirstNode
<1>3. next[chain[1]] \in Cells \cup {Null} /\ data[chain[1]] \in Items
  BY <1>1, <1>2, FirstNode DEF TypeInv, Cells, Items
<1>4. /\ item' = [item EXCEPT ![t] = data[chain[1]]] /\ node' = [node EXCEPT ![t] = next[chain[1]]]
      /\ pc'[t] = "free" /\ item'[t] = data[chain[1]] /\ node'[t] = After(1)
  BY <1>1, <1>2 DEF Look, Go, TypeInv
<1>5. ThreadInv(t)'
  BY <1>2, <1>4 DEF ThreadInv, Enqueues, After, Look
<1> QED  BY <1>3, <1>4, <1>5, QuietStep DEF Look, Inside

(* Walk keeps the invariant.                                                 *)
LEMMA WalkIInv ==
  ASSUME IInv, NEW t \in Threads, Walk(t)
  PROVE  IInv'
<1>1. TypeInv /\ Exclusive /\ MemoryInv /\ ThreadInv(t) /\ pc[t] = "walk" /\ next[node[t]] # Null
  BY DEF IInv, Walk
<1>2. UNCHANGED <<mutex, next, data, used, pc, item, chain>> /\ node' = [node EXCEPT ![t] = next[node[t]]]
  BY DEF Walk
<1>3. PICK i \in 0..Len(chain) : node[t] = Cell(i)
  BY <1>1 DEF ThreadInv
<1>4. Len(chain) \in Nat /\ i # Len(chain)
  <2>1. ~Some("fill")
    BY <1>1, Alone DEF Some, Inside
  <2> QED  BY <1>1, <1>3, <2>1 DEF MemoryInv, Ended, TypeInv
<1>5. next[node[t]] = Cell(i + 1) /\ i + 1 \in 0..Len(chain) /\ chain[i + 1] \in Nodes
  <2>1. i \in Nat /\ i < Len(chain) /\ i + 1 \in 1..Len(chain) /\ i + 1 # 0
    BY <1>3, <1>4
  <2>2. next[Cell(i)] = chain[i + 1]
    BY <1>1, <1>4, <2>1 DEF MemoryInv, Linked
  <2> QED  BY <1>1, <1>3, <1>4, <2>1, <2>2 DEF Cell, TypeInv
<1>6. node'[t] = Cell(i + 1) /\ Cell(i + 1) \in Cells
  BY <1>1, <1>2, <1>4, <1>5 DEF TypeInv, Cell, Cells
<1>7. ThreadInv(t)'
  <2>1. Cell(i + 1)' = Cell(i + 1) /\ Len(chain)' = Len(chain)
    BY <1>2 DEF Cell
  <2> QED  BY <1>1, <1>2, <1>5, <1>6, <2>1 DEF ThreadInv, Enqueues
<1>8. TypeInv'
  BY <1>1, <1>2, <1>5, <1>6 DEF TypeInv
<1>9. MemoryInv' /\ Exclusive'
  BY <1>1, <1>2 DEF MemoryInv, Exclusive, Distinct, Linked, Ended, InUse, Filled, Cell, Some
<1>10. ASSUME NEW u \in Threads, u # t  PROVE ThreadInv(u)'
  <2>1. node'[u] = node[u]
    BY <1>1, <1>2, <1>10 DEF TypeInv
  <2> QED  BY <1>1, <1>2, <2>1, QuietThreads DEF IInv
<1> QED  BY <1>7, <1>8, <1>9, <1>10 DEF IInv

-----------------------------------------------------------------------------
(* The steps that change the memory.                                         *)

(* Link keeps the invariant.                                                 *)
LEMMA LinkIInv ==
  ASSUME IInv, NEW t \in Threads, Link(t)
  PROVE  IInv'
<1>1. TypeInv /\ Exclusive /\ MemoryInv /\ ThreadInv(t) /\ pc[t] = "walk" /\ Go(t, "walk", "fill")
  BY DEF IInv, Link, Go
<1>2. PICK n \in Nodes \ used :
        /\ used' = used \cup {n}
        /\ next' = [next EXCEPT ![node[t]] = n, ![n] = Null]
        /\ data' = [data EXCEPT ![n] = None]
  BY DEF Link
<1>3. UNCHANGED <<mutex, node, item, chain>> /\ next[node[t]] = Null
  BY DEF Link, LastNode
<1>4. pc'[t] = "fill" /\ pc' \in [Threads -> Outside \cup Inside] /\ \A u \in Threads : u # t => pc'[u] = pc[u]
  BY <1>1, MoveType DEF Inside
<1>5. Exclusive' /\ mutex' \in Threads \cup {Nobody}
  BY <1>1, <1>3, MoveExclusive DEF Inside
<1>6. ~Some("relink") /\ ~Some("fill")
  BY <1>1, Alone DEF Some, Inside
<1>7. Len(chain) \in Nat /\ \A i \in 1..Len(chain) : chain[i] \in Nodes /\ chain[i] \in used /\ chain[i] # n
  BY <1>1, <1>2, <1>6 DEF TypeInv, MemoryInv, InUse
<1>8. node[t] = Cell(Len(chain)) /\ node[t] \in Cells /\ node[t] # n
  <2>1. PICK i \in 0..Len(chain) : node[t] = Cell(i)
    BY <1>1 DEF ThreadInv
  <2>2. CASE i < Len(chain)
    <3>1. i \in Nat /\ i + 1 \in 1..Len(chain) /\ next[Cell(i)] = chain[i + 1]
      BY <1>1, <1>7, <2>1, <2>2 DEF MemoryInv, Linked
    <3> QED  BY <1>3, <1>7, <2>1, <3>1, QueueAssumption
  <2>3. CASE i = Len(chain)
    BY <1>2, <1>7, <2>1, <2>3, QueueAssumption DEF Cell, Cells
  <2> QED  BY <1>7, <2>1, <2>2, <2>3
<1>9. /\ next' \in [Cells -> Nodes \cup {Null}] /\ data' \in [Cells -> Items]
      /\ next'[node[t]] = n /\ \A m \in Cells : m # node[t] /\ m # n => next'[m] = next[m] /\ data'[m] = data[m]
      /\ \A m \in Cells : m # n => data'[m] = data[m]
  BY <1>1, <1>2, <1>8 DEF TypeInv, Items, Cells
<1>10. TypeInv'
  BY <1>1, <1>2, <1>3, <1>4, <1>5, <1>9 DEF TypeInv
<1>11. MemoryInv'
  <2>1. \A i \in 0..Len(chain) : Cell(i) \in Cells /\ Cell(i) # n /\ Cell(i)' = Cell(i)
    BY <1>2, <1>3, <1>7, QueueAssumption DEF Cell, Cells
  <2>2. \A i \in 0..Len(chain) : i < Len(chain) => Cell(i) # node[t]
    <3>1. ASSUME NEW i \in 0..Len(chain), i < Len(chain)  PROVE Cell(i) # node[t]
      <4>1. i \in Nat /\ i + 1 \in 1..Len(chain) /\ next[Cell(i)] = chain[i + 1]
        BY <1>1, <1>7, <3>1 DEF MemoryInv, Linked
      <4> QED  BY <1>3, <1>7, <4>1, QueueAssumption
    <3> QED  BY <3>1
  <2>3. Linked'
    BY <1>1, <1>3, <1>9, <2>1, <2>2 DEF MemoryInv, Linked
  <2>4. Filled'
    <3>1. \A i \in 1..Len(chain) : data'[chain[i]] = data[chain[i]]
      BY <1>7, <1>9 DEF Cells
    <3> QED  BY <1>1, <1>3, <3>1 DEF MemoryInv, Filled
  <2>5. Distinct' /\ InUse'
    BY <1>1, <1>2, <1>3, <1>7 DEF MemoryInv, Distinct, InUse
  <2>6. Ended'
    BY <1>4 DEF Ended, Some
  <2> QED  BY <2>3, <2>4, <2>5, <2>6 DEF MemoryInv
<1>12. ThreadInv(t)'
  <2>1. item[t] \in Data /\ item' = item /\ chain' = chain /\ node' = node
    BY <1>1, <1>3 DEF ThreadInv, Enqueues
  <2>2. node'[t] = Cell(Len(chain))' /\ next'[node'[t]] \in used' /\ \A i \in 1..Len(chain)' : chain'[i] # next'[node'[t]]
    BY <1>2, <1>7, <1>8, <1>9, <2>1 DEF Cell
  <2> QED  BY <1>4, <2>1, <2>2 DEF ThreadInv
<1>13. ASSUME NEW u \in Threads, u # t  PROVE ThreadInv(u)'
  BY <1>1, <1>3, <1>4, <1>13, Alone, OutsideThreads DEF IInv, Inside
<1> QED  BY <1>5, <1>10, <1>11, <1>12, <1>13 DEF IInv

(* Fill keeps the invariant.                                                 *)
LEMMA FillIInv ==
  ASSUME IInv, NEW t \in Threads, Fill(t)
  PROVE  /\ IInv'
         /\ chain' = Append(chain, next[node[t]]) /\ data'[next[node[t]]] = item[t]
         /\ \A i \in 1..Len(chain) : data'[chain[i]] = data[chain[i]]
<1> DEFINE n == next[node[t]]
<1>1. TypeInv /\ Exclusive /\ MemoryInv /\ ThreadInv(t) /\ pc[t] = "fill" /\ Go(t, "fill", "enq unlock")
  BY DEF IInv, Fill, Go
<1>2. /\ data' = [data EXCEPT ![n] = item[t]] /\ next' = [next EXCEPT ![n] = Null]
      /\ chain' = Append(chain, n) /\ UNCHANGED <<mutex, used, node, item>>
  BY DEF Fill
<1>3. /\ node[t] = Cell(Len(chain)) /\ n \in used /\ n \in Nodes /\ item[t] \in Data
      /\ \A i \in 1..Len(chain) : chain[i] # n
  BY <1>1 DEF ThreadInv, Enqueues, TypeInv
<1> HIDE DEF n
<1>4. pc'[t] = "enq unlock" /\ pc' \in [Threads -> Outside \cup Inside] /\ \A u \in Threads : u # t => pc'[u] = pc[u]
  BY <1>1, MoveType DEF Inside
<1>5. Exclusive' /\ mutex' \in Threads \cup {Nobody}
  BY <1>1, <1>2, MoveExclusive DEF Inside
<1>6. ~Some("relink")
  BY <1>1, Alone DEF Some, Inside
<1>7. Len(chain) \in Nat /\ \A i \in 1..Len(chain) : chain[i] \in Nodes /\ chain[i] \in used
  BY <1>1, <1>6, ChainType DEF MemoryInv, InUse
<1>8. /\ chain' \in Seq(Nodes) /\ Len(chain') = Len(chain) + 1
      /\ \A i \in 1..Len(chain) : chain'[i] = chain[i]
      /\ chain'[Len(chain) + 1] = n
  <2>1. chain \in Seq(Nodes) /\ chain' = Append(chain, n) /\ n \in Nodes
    BY <1>1, <1>2, <1>3 DEF TypeInv
  <2> QED  BY <2>1, Appended
<1>9. /\ next' \in [Cells -> Nodes \cup {Null}] /\ data' \in [Cells -> Items]
      /\ data'[n] = item[t] /\ next'[n] = Null
      /\ \A m \in Cells : m # n => next'[m] = next[m] /\ data'[m] = data[m]
  BY <1>1, <1>2, <1>3 DEF TypeInv, Items, Cells
<1>10. TypeInv'
  BY <1>1, <1>2, <1>4, <1>5, <1>8, <1>9 DEF TypeInv
<1>11. \A i \in 1..Len(chain) : data'[chain[i]] = data[chain[i]]
  BY <1>3, <1>7, <1>9 DEF Cells
<1>12. MemoryInv'
  <2>1. \A i \in 0..Len(chain) : Cell(i) \in Cells /\ Cell(i) # n /\ Cell(i)' = Cell(i)
    BY <1>3, <1>7, <1>8, QueueAssumption DEF Cell, Cells
  <2>2. Cell(Len(chain))' = n
    BY <1>7, <1>8 DEF Cell
  <2>3. Linked'
    <3>1. ASSUME NEW i \in 0..Len(chain'), i < Len(chain')  PROVE next'[Cell(i)'] = chain'[i + 1]
      <4>1. i \in 0..Len(chain)
        BY <1>7, <1>8, <3>1
      <4>2. CASE i < Len(chain)
        <5>1. next[Cell(i)] = chain[i + 1]
          BY <1>1, <4>1, <4>2 DEF MemoryInv, Linked
        <5>2. i + 1 \in 1..Len(chain)
          BY <1>7, <4>1, <4>2
        <5> QED  BY <1>8, <1>9, <2>1, <4>1, <5>1, <5>2
      <4>3. CASE i = Len(chain)
        <5>1. next[Cell(i)] = n
          BY <1>3, <4>3 DEF n
        <5> QED  BY <1>8, <1>9, <2>1, <4>1, <4>3, <5>1
      <4> QED  BY <1>7, <4>1, <4>2, <4>3
    <3> QED  BY <3>1 DEF Linked
  <2>4. Ended'
    BY <1>9, <2>2 DEF Ended
  <2>5. \A i \in 1..Len(chain') : i \in 1..Len(chain) \/ i = Len(chain) + 1
    BY <1>7, <1>8
  <2>6. Distinct'
    <3>1. ASSUME NEW i \in 1..Len(chain'), NEW j \in 1..Len(chain'), chain'[i] = chain'[j]  PROVE i = j
      BY <1>1, <1>3, <1>8, <2>5, <3>1 DEF MemoryInv, Distinct
    <3> QED  BY <3>1 DEF Distinct
  <2>7. InUse'
    BY <1>2, <1>3, <1>7, <1>8, <2>5 DEF InUse
  <2>8. Filled'
    <3>1. ASSUME NEW i \in 1..Len(chain')  PROVE data'[chain'[i]] \in Data
      <4>1. CASE i \in 1..Len(chain)
        BY <1>1, <1>8, <1>11, <4>1 DEF MemoryInv, Filled
      <4>2. CASE i = Len(chain) + 1
        BY <1>3, <1>8, <1>9, <4>2
      <4> QED  BY <2>5, <4>1, <4>2
    <3> QED  BY <3>1 DEF Filled
  <2> QED  BY <2>3, <2>4, <2>6, <2>7, <2>8 DEF MemoryInv
<1>13. ThreadInv(t)'
  BY <1>4 DEF ThreadInv, Enqueues
<1>14. ASSUME NEW u \in Threads, u # t  PROVE ThreadInv(u)'
  BY <1>1, <1>2, <1>4, <1>14, Alone, OutsideThreads DEF IInv, Inside
<1> QED  BY <1>2, <1>5, <1>9, <1>10, <1>11, <1>12, <1>13, <1>14 DEF IInv, n

(* Free keeps the invariant.                                                 *)
LEMMA FreeIInv ==
  ASSUME IInv, NEW t \in Threads, Free(t)
  PROVE  IInv'
<1>1. TypeInv /\ Exclusive /\ MemoryInv /\ ThreadInv(t) /\ pc[t] = "free" /\ Go(t, "free", "relink")
  BY DEF IInv, Free, Go
<1>2. UNCHANGED <<mutex, next, data, node, item, chain>> /\ used' = used \ {next[First]}
  BY DEF Free
<1>3. pc'[t] = "relink" /\ pc' \in [Threads -> Outside \cup Inside] /\ \A u \in Threads : u # t => pc'[u] = pc[u]
  BY <1>1, MoveType DEF Inside
<1>4. Exclusive' /\ mutex' \in Threads \cup {Nobody}
  BY <1>1, <1>2, MoveExclusive DEF Inside
<1>5. Len(chain) > 0 /\ next[First] = chain[1] /\ ~Some("fill") /\ ~Some("relink") /\ Len(chain) \in Nat
  BY <1>1, FirstNode DEF ThreadInv
<1>6. TypeInv'
  BY <1>1, <1>2, <1>3, <1>4 DEF TypeInv
<1>7. InUse'
  <2>1. ASSUME NEW i \in 1..Len(chain), i # 1  PROVE chain[i] \in used'
    <3>1. chain[i] \in used /\ chain[i] # chain[1]
      BY <1>1, <1>5, <2>1 DEF MemoryInv, InUse, Distinct
    <3> QED  BY <1>2, <1>5, <3>1
  <2>2. Some("relink")'
    BY <1>3 DEF Some
  <2> QED  BY <1>2, <2>1, <2>2 DEF InUse
<1>8. MemoryInv'
  BY <1>1, <1>2, <1>5, <1>7 DEF MemoryInv, Distinct, Linked, Ended, Filled, Cell
<1>9. ThreadInv(t)'
  BY <1>1, <1>2, <1>3 DEF ThreadInv, Enqueues, After
<1>10. ASSUME NEW u \in Threads, u # t  PROVE ThreadInv(u)'
  BY <1>1, <1>2, <1>3, <1>10, Alone, OutsideThreads DEF IInv, Inside
<1> QED  BY <1>4, <1>6, <1>8, <1>9, <1>10 DEF IInv

(* Relink keeps the invariant.                                               *)
LEMMA RelinkIInv ==
  ASSUME IInv, NEW t \in Threads, Relink(t)
  PROVE  /\ IInv'
         /\ Len(chain) > 0 /\ Len(chain') = Len(chain) - 1
         /\ \A i \in 1..Len(chain') : chain'[i] = chain[i + 1]
         /\ item[t] = data[chain[1]] /\ item[t] \in Data
<1>1. TypeInv /\ Exclusive /\ MemoryInv /\ ThreadInv(t) /\ pc[t] = "relink" /\ Go(t, "relink", "deq unlock")
  BY DEF IInv, Relink, Go
<1>2. /\ UNCHANGED <<mutex, data, used, node, item>> /\ next' = [next EXCEPT ![First] = node[t]]
      /\ chain' = SubSeq(chain, 2, Len(chain))
  BY DEF Relink
<1>3. pc'[t] = "deq unlock" /\ pc' \in [Threads -> Outside \cup Inside] /\ \A u \in Threads : u # t => pc'[u] = pc[u]
  BY <1>1, MoveType DEF Inside
<1>4. Exclusive' /\ mutex' \in Threads \cup {Nobody}
  BY <1>1, <1>2, MoveExclusive DEF Inside
<1>5. ~Some("fill")
  BY <1>1, Alone DEF Some, Inside
<1>6. /\ Len(chain) > 0 /\ Len(chain) \in Nat /\ item[t] = data[chain[1]] /\ node[t] = After(1)
      /\ \A i \in 1..Len(chain) : chain[i] \in Nodes
  BY <1>1, ChainType DEF ThreadInv
<1>7. /\ chain' \in Seq(Nodes) /\ Len(chain') = Len(chain) - 1
      /\ \A i \in 1..Len(chain') : chain'[i] = chain[i + 1] /\ i + 1 \in 1..Len(chain) /\ i + 1 # 1
  <2>1. chain \in Seq(Nodes) /\ chain' = SubSeq(chain, 2, Len(chain))
    BY <1>1, <1>2 DEF TypeInv
  <2>2. chain' \in Seq(Nodes) /\ Len(chain') = Len(chain) - 1 /\ \A i \in 1..(Len(chain) - 1) : chain'[i] = chain[i + 1]
    BY <1>6, <2>1, Behead
  <2> QED  BY <1>6, <2>2
<1>15. Len(chain) = 1 \/ Len(chain) > 1
  BY <1>6, OneOrMore
<1>8. node[t] \in Nodes \cup {Null}
  <2>1. CASE Len(chain) = 1
    BY <1>6, <2>1 DEF After
  <2>2. CASE Len(chain) > 1
    <3>1. 1 + 1 \in 1..Len(chain)
      BY <1>6, <2>2
    <3>2. After(1) = chain[1 + 1]
      BY <2>2 DEF After
    <3> QED  BY <1>6, <3>1, <3>2
  <2> QED  BY <1>15, <2>1, <2>2
<1>9. /\ next' \in [Cells -> Nodes \cup {Null}] /\ next'[First] = node[t]
      /\ \A m \in Nodes : next'[m] = next[m]
  BY <1>1, <1>2, <1>8, QueueAssumption DEF TypeInv, Cells
<1>10. TypeInv'
  BY <1>1, <1>2, <1>3, <1>4, <1>7, <1>9 DEF TypeInv
<1>11. MemoryInv'
  <2>1. \A i \in 1..Len(chain') : Cell(i)' = chain[i + 1]
    BY <1>7 DEF Cell
  <2>2. Cell(0)' = First
    BY DEF Cell
  <2>3. Linked'
    <3>1. ASSUME NEW i \in 0..Len(chain'), i < Len(chain')  PROVE next'[Cell(i)'] = chain'[i + 1]
      <4>1. CASE i = 0
        <5>1. Len(chain) > 1 /\ 1 \in 1..Len(chain') /\ chain'[1] = chain[1 + 1]
          BY <1>6, <1>7, <3>1, <4>1
        <5>2. node[t] = chain[1 + 1]
          BY <1>6, <5>1 DEF After
        <5> QED  BY <1>9, <2>2, <4>1, <5>1, <5>2
      <4>2. CASE i # 0
        <5>1. i \in 1..Len(chain') /\ i + 1 \in 1..Len(chain') /\ i + 1 \in 0..Len(chain) /\ i + 1 < Len(chain) /\ i + 1 # 0
          BY <1>6, <1>7, <3>1, <4>2
        <5>2. next[Cell(i + 1)] = chain[(i + 1) + 1] /\ Cell(i + 1) = chain[i + 1] /\ chain[i + 1] \in Nodes
          BY <1>1, <1>6, <1>7, <5>1 DEF MemoryInv, Linked, Cell
        <5>3. Cell(i)' = chain[i + 1] /\ chain'[i + 1] = chain[(i + 1) + 1]
          BY <1>7, <2>1, <5>1
        <5> QED  BY <1>9, <5>2, <5>3
      <4> QED  BY <4>1, <4>2
    <3> QED  BY <3>1 DEF Linked
  <2>4. Ended'
    <3>1. CASE Len(chain) = 1
      <4>1. Len(chain') = 0 /\ Cell(Len(chain))' = First /\ node[t] = Null
        BY <1>6, <1>7, <2>2, <3>1 DEF After
      <4> QED  BY <1>9, <4>1 DEF Ended
    <3>2. CASE Len(chain) > 1
      <4>1. Len(chain') \in 1..Len(chain') /\ Len(chain') + 1 = Len(chain) /\ Len(chain) \in 1..Len(chain) /\ Len(chain) # 0
        BY <1>6, <1>7, <3>2
      <4>2. Cell(Len(chain))' = chain[Len(chain)] /\ Cell(Len(chain)) = chain[Len(chain)]
        BY <2>1, <4>1 DEF Cell
      <4>3. next[chain[Len(chain)]] = Null /\ chain[Len(chain)] \in Nodes
        BY <1>1, <1>5, <1>6, <4>1, <4>2 DEF MemoryInv, Ended
      <4> QED  BY <1>9, <4>2, <4>3 DEF Ended
    <3> QED  BY <1>15, <3>1, <3>2
  <2>5. Distinct'
    <3>1. ASSUME NEW i \in 1..Len(chain'), NEW j \in 1..Len(chain'), chain'[i] = chain'[j]  PROVE i = j
      <4>1. chain[i + 1] = chain[j + 1] /\ i + 1 \in 1..Len(chain) /\ j + 1 \in 1..Len(chain)
        BY <1>7, <3>1
      <4>2. i + 1 = j + 1
        BY <1>1, <4>1 DEF MemoryInv, Distinct
      <4> QED  BY <4>2
    <3> QED  BY <3>1 DEF Distinct
  <2>6. InUse'
    <3>1. \A i \in 1..Len(chain') : chain'[i] \in used
      BY <1>1, <1>7 DEF MemoryInv, InUse
    <3> QED  BY <1>2, <3>1 DEF InUse
  <2>7. Filled'
    BY <1>1, <1>2, <1>7 DEF MemoryInv, Filled
  <2> QED  BY <2>3, <2>4, <2>5, <2>6, <2>7 DEF MemoryInv
<1>12. ThreadInv(t)'
  BY <1>3 DEF ThreadInv, Enqueues
<1>13. ASSUME NEW u \in Threads, u # t  PROVE ThreadInv(u)'
  BY <1>1, <1>2, <1>3, <1>13, Alone, OutsideThreads DEF IInv, Inside
<1>14. item[t] \in Data
  <2>1. 1 \in 1..Len(chain)
    BY <1>6
  <2> QED  BY <1>1, <1>6, <2>1 DEF MemoryInv, Filled
<1> QED  BY <1>4, <1>6, <1>7, <1>10, <1>11, <1>12, <1>13, <1>14 DEF IInv

(* Every step keeps the invariant.                                           *)
LEMMA NextIInv == IInv /\ [Next]_vars => IInv'
<1> SUFFICES ASSUME IInv, [Next]_vars  PROVE IInv'
  OBVIOUS
<1>1. ASSUME NEW t \in Threads, Call(t) \/ Enqueue(t) \/ Dequeue(t)  PROVE IInv'
  BY <1>1, CallIInv, EnqueueLockIInv, WalkIInv, LinkIInv, FillIInv, UnlockIInv, DequeueLockIInv,
     DequeueNothingIInv, LookIInv, FreeIInv, RelinkIInv DEF Enqueue, Dequeue
<1>2. CASE UNCHANGED vars
  <2>1. \A t \in Threads : ThreadInv(t)'
    BY <1>2 DEF IInv, vars, ThreadInv, Cell, After
  <2> QED  BY <1>2, <2>1 DEF IInv, vars, TypeInv, Exclusive, MemoryInv, Distinct, Linked, Ended, InUse, Filled,
              Cell, Some
<1> QED  BY <1>1, <1>2 DEF Next

(* The invariant always holds.                                               *)
LEMMA Invariant == Spec => []IInv
  BY InitIInv, NextIInv, PTL DEF Spec

-----------------------------------------------------------------------------
(* In every state the pointers of util/queue.c form the list of the items,   *)
(* for any number of threads that enqueue and dequeue.                       *)
THEOREM ListIsSound == Spec => []ListSound
<1>1. IInv => ListSound
  <2> SUFFICES ASSUME IInv  PROVE ListSound
    OBVIOUS
  <2>1. Distinct /\ Linked /\ Ended /\ Len(chain) \in Nat
    BY ChainType DEF IInv, MemoryInv
  <2>2. ASSUME NEW i \in 0..Len(chain)
        PROVE  next[Cell(i)] = After(i) \/ (i = Len(chain) /\ \E t \in Threads : pc[t] = "fill")
    <3>1. CASE i < Len(chain)
      BY <2>1, <3>1 DEF Linked, After
    <3>2. CASE i = Len(chain)
      <4>1. After(i) = Null
        BY <2>1, <3>2 DEF After
      <4> QED  BY <2>1, <3>2, <4>1 DEF Ended, Some
    <3> QED  BY <2>1, <3>1, <3>2
  <2> QED  BY <2>1, <2>2 DEF ListSound, Distinct
<1> QED  BY <1>1, Invariant, PTL

(* The mutex keeps a thread that walks the list from meeting a node that     *)
(* another one has freed.                                                    *)
THEOREM NodesAreLive == Spec => []NoStaleNode
<1>1. IInv => NoStaleNode
  <2> SUFFICES ASSUME IInv, NEW t \in Threads
               PROVE  /\ pc[t] \in {"walk", "fill"} => node[t] \in used \cup {First}
                      /\ pc[t] \in {"look", "free"} => next[First] \in used \cup {Null}
    BY DEF NoStaleNode
  <2>1. Exclusive /\ MemoryInv /\ ThreadInv(t) /\ Len(chain) \in Nat
    BY ChainType DEF IInv
  <2>2. ASSUME pc[t] \in {"walk", "fill"}  PROVE node[t] \in used \cup {First}
    <3>1. ~Some("relink")
      BY <2>1, <2>2, Alone DEF Some, Inside
    <3>2. PICK i \in 0..Len(chain) : node[t] = Cell(i)
      <4>1. Len(chain) \in 0..Len(chain)
        BY <2>1
      <4> QED  BY <2>1, <2>2, <4>1 DEF ThreadInv
    <3>3. i = 0 \/ i \in 1..Len(chain)
      BY <2>1
    <3> QED  BY <2>1, <3>1, <3>2, <3>3 DEF MemoryInv, InUse, Cell
  <2>3. ASSUME pc[t] \in {"look", "free"}  PROVE next[First] \in used \cup {Null}
    BY <2>3, FirstNode
  <2> QED  BY <2>2, <2>3
<1> QED  BY <1>1, Invariant, PTL

-----------------------------------------------------------------------------
(* Refinement                                                                *)

Q == [i \in 1..Len(chain) |-> data[chain[i]]]
Calls == [t \in Threads |-> CallOf(t)]

(* A sequence given by its elements.                                         *)
LEMMA Indexed ==
  ASSUME NEW c, NEW d, Len(c) \in Nat, \A i \in 1..Len(c) : d[c[i]] \in Data, NEW q,
         q = [i \in 1..Len(c) |-> d[c[i]]]
  PROVE  q \in Seq(Data) /\ Len(q) = Len(c) /\ \A i \in 1..Len(c) : q[i] = d[c[i]]
<1> DEFINE n == Len(c)
<1>1. n \in Nat /\ q = [i \in 1..n |-> d[c[i]]] /\ \A i \in 1..n : d[c[i]] \in Data
  OBVIOUS
<1> HIDE DEF n
<1>2. q \in Seq(Data) /\ Len(q) = n /\ \A i \in 1..n : q[i] = d[c[i]]
  BY <1>1
<1> QED  BY <1>2 DEF n

(* The abstract queue is a sequence of items.                                *)
LEMMA QType ==
  ASSUME IInv
  PROVE  /\ Len(chain) \in Nat /\ Q \in Seq(Data) /\ Len(Q) = Len(chain)
         /\ \A i \in 1..Len(chain) : Q[i] = data[chain[i]]
<1>1. Len(chain) \in Nat /\ \A i \in 1..Len(chain) : data[chain[i]] \in Data
  BY ChainType DEF IInv, MemoryInv, Filled
<1> QED  BY <1>1, Indexed DEF Q

(* And it is after a step.                                                   *)
LEMMA QTypeNext ==
  ASSUME IInv'
  PROVE  /\ Q' \in Seq(Data) /\ Len(Q') = Len(chain')
         /\ \A i \in 1..Len(chain') : Q'[i] = data'[chain'[i]]
<1>1. chain' \in Seq(Nodes) /\ \A i \in 1..Len(chain') : data'[chain'[i]] \in Data
  BY DEF IInv, TypeInv, MemoryInv, Filled
<1>2. Len(chain') \in Nat
  BY <1>1
<1>3. Q' = [i \in 1..Len(chain') |-> data'[chain'[i]]]
  BY DEF Q
<1> QED  BY <1>1, <1>2, <1>3, Indexed

(* Sequences with the same elements are the same.                            *)
LEMMA SameSeq ==
  ASSUME NEW S, NEW s \in Seq(S), NEW u \in Seq(S), Len(s) = Len(u), \A i \in 1..Len(s) : s[i] = u[i]
  PROVE  s = u
  BY SeqEqual

(* A step that leaves the chain and its items leaves the abstract queue.     *)
LEMMA StutterQ ==
  ASSUME IInv, chain' = chain, \A i \in 1..Len(chain) : data'[chain[i]] = data[chain[i]]
  PROVE  Q' = Q
  BY DEF Q

(* One thread changes its call.                                              *)
LEMMA Becomes ==
  ASSUME IInv, NEW t \in Threads, NEW from, NEW to, CallOf(t) = from, CallOf(t)' = to,
         \A u \in Threads : u # t => pc'[u] = pc[u] /\ item'[u] = item[u]
  PROVE  Calls[t] = from /\ Calls' = [Calls EXCEPT ![t] = to]
<1>1. \A u \in Threads : u # t => CallOf(u)' = CallOf(u)
  BY DEF CallOf
<1> QED  BY <1>1 DEF Calls

(* The other threads stay in their calls.                                    *)
LEMMA OthersStay ==
  ASSUME TypeInv, NEW t \in Threads, NEW a, NEW b, Go(t, a, b),
         item' = item \/ \E d \in Items : item' = [item EXCEPT ![t] = d]
  PROVE  /\ pc[t] = a /\ pc'[t] = b
         /\ \A u \in Threads : u # t => pc'[u] = pc[u] /\ item'[u] = item[u]
<1>1. pc \in [Threads -> Outside \cup Inside] /\ item \in [Threads -> Items]
  BY DEF TypeInv
<1> QED  BY <1>1 DEF Go

(* Call is a step of Fifo or invisible.                                      *)
LEMMA CallSteps ==
  ASSUME IInv, NEW t \in Threads, Call(t)
  PROVE  F!Call(t)
<1>1. TypeInv /\ ThreadInv(t) /\ pc[t] = "idle" /\ item[t] = None
  BY DEF IInv, Call, Go, ThreadInv
<1>2. Q' = Q
  BY StutterQ DEF Call
<1>3. CASE Go(t, "idle", "enq lock") /\ \E d \in Data : item' = [item EXCEPT ![t] = d]
  <2>1. PICK d \in Data : item' = [item EXCEPT ![t] = d]
    BY <1>3
  <2>2. pc'[t] = "enq lock" /\ item'[t] = d /\ \A u \in Threads : u # t => pc'[u] = pc[u] /\ item'[u] = item[u]
    BY <1>1, <1>3, <2>1, OthersStay DEF TypeInv, Items
  <2>3. CallOf(t) = F!Idle /\ CallOf(t)' = F!Enqueuing(d)
    BY <1>1, <2>2 DEF CallOf, F!Idle, F!Enqueuing, Enqueues
  <2>4. Calls[t] = F!Idle /\ Calls' = [Calls EXCEPT ![t] = F!Enqueuing(d)]
    BY <2>2, <2>3, Becomes
  <2> QED  BY <1>2, <2>4 DEF F!Call, F!Become, Calls, Q
<1>4. CASE Go(t, "idle", "deq lock") /\ UNCHANGED item
  <2>2. pc'[t] = "deq lock" /\ item'[t] = None /\ \A u \in Threads : u # t => pc'[u] = pc[u] /\ item'[u] = item[u]
    BY <1>1, <1>4, OthersStay
  <2>3. CallOf(t) = F!Idle /\ CallOf(t)' = F!Dequeuing
    BY <1>1, <2>2 DEF CallOf, F!Idle, F!Dequeuing, Enqueues
  <2>4. Calls[t] = F!Idle /\ Calls' = [Calls EXCEPT ![t] = F!Dequeuing]
    BY <2>2, <2>3, Becomes
  <2> QED  BY <1>2, <2>4 DEF F!Call, F!Become, Calls, Q
<1> QED  BY <1>3, <1>4 DEF Call

(* Fill is a step of Fifo or invisible.                                      *)
LEMMA FillSteps ==
  ASSUME IInv, NEW t \in Threads, Fill(t)
  PROVE  F!Enqueue(t)
<1> DEFINE d == item[t]
<1>1. TypeInv /\ ThreadInv(t) /\ pc[t] = "fill" /\ d \in Data
  BY DEF IInv, Fill, Go, ThreadInv, Enqueues
<1>2. Go(t, "fill", "enq unlock") /\ item' = item
  BY DEF Fill
<1>3. pc'[t] = "enq unlock" /\ \A u \in Threads : u # t => pc'[u] = pc[u] /\ item'[u] = item[u]
  BY <1>1, <1>2, OthersStay
<1>4. CallOf(t) = F!Enqueuing(d) /\ CallOf(t)' = F!Enqueued
  BY <1>1, <1>3 DEF CallOf, F!Enqueuing, F!Enqueued, Enqueues
<1>5. Calls[t] = F!Enqueuing(d) /\ Calls' = [Calls EXCEPT ![t] = F!Enqueued]
  BY <1>3, <1>4, Becomes
<1>6. Q' = Append(Q, d)
  <2>1. /\ IInv' /\ chain' = Append(chain, next[node[t]]) /\ data'[next[node[t]]] = d
        /\ \A i \in 1..Len(chain) : data'[chain[i]] = data[chain[i]]
    BY FillIInv
  <2>2. chain \in Seq(Nodes) /\ next[node[t]] \in Nodes
    BY <1>1 DEF TypeInv, ThreadInv
  <2>3. /\ Len(chain') = Len(chain) + 1 /\ chain'[Len(chain) + 1] = next[node[t]]
        /\ \A i \in 1..Len(chain) : chain'[i] = chain[i]
    BY <2>1, <2>2, Appended
  <2>4. /\ Q' \in Seq(Data) /\ Len(Q') = Len(chain) + 1 /\ \A i \in 1..(Len(chain) + 1) : Q'[i] = data'[chain'[i]]
    <3>1. /\ Q' \in Seq(Data) /\ Len(Q') = Len(chain') /\ \A i \in 1..Len(chain') : Q'[i] = data'[chain'[i]]
      BY <2>1, QTypeNext
    <3> QED  BY <2>3, <3>1
  <2>5. Q \in Seq(Data) /\ Len(Q) = Len(chain) /\ Len(chain) \in Nat /\ \A i \in 1..Len(chain) : Q[i] = data[chain[i]]
    BY QType
  <2>6. /\ Append(Q, d) \in Seq(Data) /\ Len(Append(Q, d)) = Len(chain) + 1
        /\ \A i \in 1..Len(chain) : Append(Q, d)[i] = Q[i]
        /\ Append(Q, d)[Len(chain) + 1] = d
    BY <1>1, <2>5, Appended
  <2>7. ASSUME NEW i \in 1..(Len(chain) + 1)  PROVE Q'[i] = Append(Q, d)[i]
    <3>1. i \in 1..Len(chain) \/ i = Len(chain) + 1
      BY <2>5
    <3>2. CASE i \in 1..Len(chain)
      BY <2>1, <2>3, <2>4, <2>5, <2>6, <3>2
    <3>3. CASE i = Len(chain) + 1
      BY <2>1, <2>3, <2>4, <2>6, <3>3
    <3> QED  BY <3>1, <3>2, <3>3
  <2> QED  BY <2>4, <2>6, <2>7, SameSeq
<1> QED  BY <1>1, <1>5, <1>6 DEF F!Enqueue, F!Become, Calls, Q

(* Relink is a step of Fifo or invisible.                                    *)
LEMMA RelinkSteps ==
  ASSUME IInv, NEW t \in Threads, Relink(t)
  PROVE  F!DequeueItem(t)
<1> DEFINE d == item[t]
<1>1. TypeInv /\ pc[t] = "relink" /\ Go(t, "relink", "deq unlock") /\ item' = item /\ data' = data
  BY DEF IInv, Relink, Go
<1>2. /\ IInv' /\ Len(chain) > 0 /\ Len(chain') = Len(chain) - 1 /\ d = data[chain[1]]
      /\ \A i \in 1..Len(chain') : chain'[i] = chain[i + 1]
  BY RelinkIInv
<1>3. pc'[t] = "deq unlock" /\ \A u \in Threads : u # t => pc'[u] = pc[u] /\ item'[u] = item[u]
  BY <1>1, OthersStay
<1>4. CallOf(t) = F!Dequeuing /\ CallOf(t)' = F!Dequeued(d)
  BY <1>1, <1>3 DEF CallOf, F!Dequeuing, F!Dequeued, Enqueues
<1>5. Calls[t] = F!Dequeuing /\ Calls' = [Calls EXCEPT ![t] = F!Dequeued(d)]
  BY <1>3, <1>4, Becomes
<1>6. Q \in Seq(Data) /\ Len(Q) = Len(chain) /\ Len(chain) \in Nat /\ \A i \in 1..Len(chain) : Q[i] = data[chain[i]]
  BY QType
<1>7. Q # <<>> /\ Head(Q) = d
  <2>1. 1 \in 1..Len(chain) /\ Len(Q) > 0
    BY <1>2, <1>6
  <2>2. Q[1] = d
    BY <1>2, <1>6, <2>1
  <2> QED  BY <1>6, <2>1, <2>2
<1>8. Q' = Tail(Q)
  <2>1. /\ Q' \in Seq(Data) /\ Len(Q') = Len(chain') /\ \A i \in 1..Len(chain') : Q'[i] = data'[chain'[i]]
    BY <1>2, QTypeNext
  <2>2. Tail(Q) \in Seq(Data) /\ Len(Tail(Q)) = Len(Q) - 1 /\ \A i \in 1..(Len(Q) - 1) : Tail(Q)[i] = Q[i + 1]
    BY <1>6, <1>7
  <2>3. ASSUME NEW i \in 1..Len(chain')  PROVE Q'[i] = Tail(Q)[i]
    <3>1. i \in 1..(Len(Q) - 1) /\ i + 1 \in 1..Len(chain)
      BY <1>2, <1>6
    <3>2. chain'[i] = chain[i + 1] /\ data' = data
      BY <1>1, <1>2
    <3>3. Q'[i] = data'[chain'[i]] /\ Q[i + 1] = data[chain[i + 1]]
      BY <1>6, <2>1, <3>1
    <3>4. Q'[i] = Q[i + 1]
      BY <3>2, <3>3
    <3> QED  BY <2>2, <3>1, <3>4
  <2> QED  BY <1>2, <1>6, <2>1, <2>2, <2>3, SameSeq
<1> QED  BY <1>5, <1>7, <1>8 DEF F!DequeueItem, F!Become, Calls, Q

(* Nothing is a step of Fifo or invisible.                                   *)
LEMMA NothingSteps ==
  ASSUME IInv, NEW t \in Threads, DequeueNothing(t)
  PROVE  F!DequeueNothing(t)
<1>1. TypeInv /\ pc[t] = "look" /\ Go(t, "look", "deq unlock") /\ item' = item /\ item[t] = None /\ next[First] = Null
  BY DEF IInv, DequeueNothing, Go, ThreadInv
<1>2. pc'[t] = "deq unlock" /\ \A u \in Threads : u # t => pc'[u] = pc[u] /\ item'[u] = item[u]
  BY <1>1, OthersStay
<1>3. CallOf(t) = F!Dequeuing /\ CallOf(t)' = F!Dequeued(None)
  BY <1>1, <1>2 DEF CallOf, F!Dequeuing, F!Dequeued, Enqueues
<1>4. Calls[t] = F!Dequeuing /\ Calls' = [Calls EXCEPT ![t] = F!Dequeued(None)]
  BY <1>2, <1>3, Becomes
<1>5. Q = <<>>
  <2>1. ~(Len(chain) > 0) /\ Len(chain) \in Nat
    BY <1>1, FirstNode
  <2>2. Q \in Seq(Data) /\ Len(Q) = Len(chain) /\ Len(chain) = 0
    BY <2>1, QType
  <2> QED  BY <2>2
<1>6. Q' = Q
  BY StutterQ DEF DequeueNothing
<1> QED  BY <1>4, <1>5, <1>6 DEF F!DequeueNothing, F!Become, Calls, Q

(* Unlock is a step of Fifo or invisible.                                    *)
LEMMA UnlockSteps ==
  ASSUME IInv, NEW t \in Threads, EnqueueUnlock(t) \/ DequeueUnlock(t)
  PROVE  F!Return(t)
<1>1. PICK a \in {"enq unlock", "deq unlock"} : Go(t, a, "idle")
  BY DEF EnqueueUnlock, DequeueUnlock
<1>2. TypeInv /\ item' = [item EXCEPT ![t] = None] /\ None \in Items
  BY DEF IInv, EnqueueUnlock, DequeueUnlock, Items
<1>3. /\ pc[t] = a /\ pc'[t] = "idle" /\ item'[t] = None
      /\ \A u \in Threads : u # t => pc'[u] = pc[u] /\ item'[u] = item[u]
  BY <1>1, <1>2, OthersStay DEF TypeInv
<1>4. CallOf(t).op \in {"enqueued", "dequeued"} /\ CallOf(t)' = F!Idle
  BY <1>3 DEF CallOf, F!Idle, Enqueues
<1>5. Calls[t] = CallOf(t) /\ Calls' = [Calls EXCEPT ![t] = F!Idle]
  BY <1>3, <1>4, Becomes
<1>6. Q' = Q
  BY StutterQ DEF EnqueueUnlock, DequeueUnlock
<1> QED  BY <1>4, <1>5, <1>6 DEF F!Return, Calls, Q

(* The other steps are invisible.                                            *)
LEMMA Invisible ==
  ASSUME IInv, NEW t \in Threads,
         EnqueueLock(t) \/ Walk(t) \/ Link(t) \/ DequeueLock(t) \/ Look(t) \/ Free(t)
  PROVE  Q' = Q /\ Calls' = Calls
<1>1. TypeInv /\ ThreadInv(t) /\ Exclusive /\ MemoryInv /\ chain' = chain
  BY DEF IInv, EnqueueLock, Walk, Link, DequeueLock, Look, Free
<1>2. \A i \in 1..Len(chain) : data'[chain[i]] = data[chain[i]]
  <2>1. CASE Link(t)
    <3>1. pc[t] = "walk"
      BY <2>1 DEF Link, Go
    <3>2. ~Some("relink")
      BY <1>1, <3>1, Alone DEF Some, Inside
    <3>3. \A i \in 1..Len(chain) : chain[i] \in used /\ chain[i] \in Nodes
      BY <1>1, <3>2, ChainType DEF MemoryInv, InUse
    <3>4. PICK n \in Nodes \ used : data' = [data EXCEPT ![n] = None]
      BY <2>1 DEF Link
    <3>5. data \in [Cells -> Items]
      BY <1>1 DEF TypeInv
    <3> QED  BY <3>3, <3>4, <3>5 DEF Cells
  <2>2. CASE ~Link(t)
    BY <2>2 DEF EnqueueLock, Walk, DequeueLock, Look, Free
  <2> QED  BY <2>1, <2>2
<1>3. Q' = Q
  BY <1>1, <1>2, StutterQ
<1>4. ASSUME NEW u \in Threads  PROVE CallOf(u)' = CallOf(u)
  <2>1. CASE Walk(t)
    BY <2>1 DEF Walk, CallOf
  <2>2. CASE Look(t)
    <3>1. Go(t, "look", "free") /\ item' = [item EXCEPT ![t] = data[next[First]]]
      BY <2>2 DEF Look
    <3>2. pc \in [Threads -> Outside \cup Inside] /\ item \in [Threads -> Items]
      BY <1>1 DEF TypeInv
    <3> QED  BY <3>1, <3>2 DEF Go, CallOf, Enqueues
  <2>3. CASE EnqueueLock(t) \/ Link(t) \/ DequeueLock(t) \/ Free(t)
    <3>1. item' = item /\ pc \in [Threads -> Outside \cup Inside]
      BY <1>1, <2>3 DEF EnqueueLock, Link, DequeueLock, Free, TypeInv
    <3>2. Go(t, "enq lock", "walk") \/ Go(t, "walk", "fill") \/ Go(t, "deq lock", "look") \/ Go(t, "free", "relink")
      BY <2>3 DEF EnqueueLock, Link, DequeueLock, Free
    <3> QED  BY <3>1, <3>2 DEF Go, CallOf, Enqueues
  <2> QED  BY <2>1, <2>2, <2>3
<1> QED  BY <1>3, <1>4 DEF Calls

(* A queue shared by any number of threads is a first-in first-out queue     *)
(* whose calls each take effect at one instant, which is how Threads and     *)
(* RtmpLoop use it.                                                          *)
THEOREM QueueIsFifo == Spec => ImplementsFifo
<1>1. Init => F!Init
  <2> SUFFICES ASSUME Init  PROVE F!Init
    OBVIOUS
  <2>1. Len(chain) = 0 /\ \A t \in Threads : CallOf(t) = F!Idle
    BY DEF Init, CallOf, F!Idle, Enqueues
  <2>2. [i \in 1..Len(chain) |-> data[chain[i]]] = <<>>
    BY <2>1
  <2> QED  BY <2>1, <2>2 DEF F!Init
<1>2. IInv /\ [Next]_vars => [F!Next]_F!vars
  <2> SUFFICES ASSUME IInv, [Next]_vars  PROVE [F!Next]_F!vars
    OBVIOUS
  <2>1. ASSUME NEW t \in Threads, Call(t) \/ Enqueue(t) \/ Dequeue(t)  PROVE F!Next \/ (Q' = Q /\ Calls' = Calls)
    <3>1. CASE Call(t)
      BY <3>1, CallSteps DEF F!Next
    <3>2. CASE Fill(t)
      BY <3>2, FillSteps DEF F!Next
    <3>3. CASE Relink(t)
      BY <3>3, RelinkSteps DEF F!Next
    <3>4. CASE DequeueNothing(t)
      BY <3>4, NothingSteps DEF F!Next
    <3>5. CASE EnqueueUnlock(t) \/ DequeueUnlock(t)
      BY <3>5, UnlockSteps DEF F!Next
    <3>6. CASE EnqueueLock(t) \/ Walk(t) \/ Link(t) \/ DequeueLock(t) \/ Look(t) \/ Free(t)
      BY <3>6, Invisible
    <3> QED  BY <2>1, <3>1, <3>2, <3>3, <3>4, <3>5, <3>6 DEF Enqueue, Dequeue
  <2>2. ASSUME UNCHANGED vars  PROVE Q' = Q /\ Calls' = Calls
    <3>1. Q' = Q
      BY <2>2 DEF vars, Q
    <3>2. Calls' = Calls
      BY <2>2 DEF vars, Calls, CallOf
    <3> QED  BY <3>1, <3>2
  <2>3. F!Next \/ (Q' = Q /\ Calls' = Calls)
    BY <2>1, <2>2 DEF Next
  <2> QED  BY <2>3 DEF F!vars, Q, Calls
<1> QED  BY <1>1, <1>2, Invariant, PTL DEF Spec, ImplementsFifo, F!Spec

=============================================================================
