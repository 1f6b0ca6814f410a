------------------------------- MODULE ListMap -------------------------------
(***************************************************************************)
(* The list of util/list.c, an array that doubles when it is full and      *)
(* whose holes the last entry fills, and the map of util/map.c, a list of  *)
(* entries that is searched from its beginning.  The channel map, the      *)
(* objects of AMF and every set of connections and buffers are made of     *)
(* them.                                                                   *)
(***************************************************************************)
EXTENDS Naturals, FiniteSets

CONSTANTS
  Items,    \* the values, each put once
  Keys,
  NoItem,   \* nothing found: the null pointer
  Garbage   \* what a cell that was never written holds

ASSUME ItemsAssumption == NoItem \notin Items /\ Garbage \notin Items /\ IsFiniteSet(Items)

VARIABLES
  nodes,    \* list->nodes: each cell holds the entry of an item
  size,     \* list->size
  capacity, \* list->capacity
  key,      \* key[x]: the key of the entry of x
  frees,    \* history: how often an entry and its item were freed
  answer,   \* what video_map_get returned last
  open      \* the list was not deinitialised

vars == <<nodes, size, capacity, key, frees, answer, open>>

Init ==
  /\ nodes = [i \in 1..1 |-> Garbage] /\ size = 0 /\ capacity = 1
  /\ key \in [Items -> Keys]
  /\ frees = [x \in Items |-> 0]
  /\ answer = NoItem
  /\ open = TRUE

-----------------------------------------------------------------------------
(* Lists                                                                     *)

Full == size = capacity

Add(x) ==
  /\ capacity' = IF Full THEN 2 * capacity ELSE capacity
  /\ nodes' = [i \in 1..capacity' |->
                IF i = size + 1 THEN x ELSE IF i <= capacity THEN nodes[i] ELSE Garbage]
  /\ size' = size + 1

(* Mutant: deinit visits every cell.                                         *)
ContentsAll == {nodes[i] : i \in 1..capacity} \ {Garbage}
Contents == {nodes[i] : i \in 1..size}

(* The callback of the entry of x, video_map_entry_free.                     *)
Free(X) == frees' = [x \in Items |-> IF x \in X THEN frees[x] + 1 ELSE frees[x]]

(* Mutant: the last entry does not move into the hole.                       *)
TakeOutHole(i) ==
  Free({nodes[i]}) /\ size' = size - 1 /\ UNCHANGED <<nodes, capacity>>

TakeOut(i) ==
  /\ Free({nodes[i]})
  /\ size' = size - 1
  /\ nodes' = [nodes EXCEPT ![i] = nodes[size]]
  /\ UNCHANGED capacity

(* video_list_remove: the first cell that holds x.                           *)
ListRemove(x) ==
  \E i \in 1..size :
    /\ nodes[i] = x /\ \A j \in 1..(i - 1) : nodes[j] # x
    /\ TakeOut(i)

-----------------------------------------------------------------------------
(* Maps                                                                      *)

(* The first entry with key k.                                               *)
IsFirst(i, k) ==
  /\ i \in 1..size /\ key[nodes[i]] = k
  /\ \A j \in 1..(i - 1) : key[nodes[j]] # k

Absent(k) == \A i \in 1..size : key[nodes[i]] # k

(* video_map_put, with an item that the caller has just made.                *)
Put(k, x) ==
  /\ open
  /\ x \notin Contents /\ frees[x] = 0
  /\ key' = [key EXCEPT ![x] = k]
  /\ Add(x)
  /\ UNCHANGED <<frees, answer, open>>

(* video_map_remove.  After deinit it finds nothing, as when                 *)
(* video_rtmp_remconn takes a client off the list that STOP cleared.         *)
Remove(k) ==
  /\ \/ Absent(k) /\ UNCHANGED <<nodes, size, capacity, frees>>
     \/ \E i \in 1..size : IsFirst(i, k) /\ ListRemove(nodes[i])
  /\ UNCHANGED <<key, answer, open>>

(* video_map_get                                                             *)
Get(k) ==
  /\ \/ Absent(k) /\ answer' = NoItem
     \/ \E i \in 1..size : IsFirst(i, k) /\ answer' = nodes[i]
  /\ UNCHANGED <<nodes, size, capacity, key, frees, open>>

(* video_map_deinit                                                          *)
Deinit ==
  /\ open
  /\ Free(Contents)
  /\ size' = 0 /\ capacity' = 0 /\ nodes' = [i \in {} |-> Garbage]
  /\ open' = FALSE
  /\ UNCHANGED <<key, answer>>

Next == Deinit \/ \E k \in Keys : Remove(k) \/ Get(k) \/ \E x \in Items : Put(k, x)

Spec == Init /\ [][Next]_vars

-----------------------------------------------------------------------------
(* Properties                                                                *)

(* The entries lie in the memory that the array has, each in one cell, none  *)
(* of them was freed, and no entry is freed twice, whatever the cells beyond *)
(* size still point to.                                                      *)
ArraySound ==
  /\ size <= capacity /\ DOMAIN nodes = 1..capacity
  /\ \A i \in 1..size : nodes[i] \in Items /\ frees[nodes[i]] = 0
  /\ \A i, j \in 1..size : nodes[i] = nodes[j] => i = j
  /\ \A x \in Items : frees[x] <= 1

(* The map implements Dictionary: whatever moves into whichever hole, what   *)
(* was put is found under its key until it is removed, and freed then, once. *)
D == INSTANCE Dictionary WITH
       held <- {[item |-> x, key |-> key[x]] : x \in Contents},
       freed <- {x \in Items : frees[x] > 0}

ImplementsDictionary == D!Spec

=============================================================================
