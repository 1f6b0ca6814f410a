---------------------------- MODULE ListMapProofs ----------------------------
(***************************************************************************)
(* Proofs about ListMap, for any sets of items and keys: the array stays   *)
(* sound, and the map implements Dictionary.                               *)
(***************************************************************************)
EXTENDS ListMap, TLAPS

(* The types, and that a list in use has memory: doubling nothing would      *)
(* leave nothing.                                                            *)
Typed ==
  /\ size \in Nat /\ capacity \in Nat
  /\ key \in [Items -> Keys] /\ frees \in [Items -> Nat]
  /\ DOMAIN nodes = 1..capacity
  /\ open \in BOOLEAN
  /\ open => capacity >= 1

IInv == Typed /\ ArraySound

-----------------------------------------------------------------------------
(* Adding                                                                    *)

(* The array has room for the new entry and keeps the others.                *)
LEMMA AddFacts ==
  ASSUME IInv, open, NEW x \in Items, Add(x)
  PROVE  /\ size' = size + 1 /\ size' <= capacity' /\ capacity' \in Nat /\ capacity' >= 1
         /\ DOMAIN nodes' = 1..capacity'
         /\ \A i \in 1..size : nodes'[i] = nodes[i]
         /\ nodes'[size + 1] = x
<1>1. size \in Nat /\ capacity \in Nat /\ capacity >= 1 /\ size <= capacity
  BY DEF IInv, Typed, ArraySound
<1>2. capacity' \in Nat /\ capacity' >= size + 1 /\ capacity' >= capacity /\ size' = size + 1
  <2>1. CASE size = capacity
    BY <1>1, <2>1 DEF Add, Full
  <2>2. CASE size # capacity
    BY <1>1, <2>2 DEF Add, Full
  <2> QED  BY <2>1, <2>2
<1>3. nodes' = [i \in 1..capacity' |->
                 IF i = size + 1 THEN x ELSE IF i <= capacity THEN nodes[i] ELSE Garbage]
  BY DEF Add
<1>4. \A i \in 1..size : i \in 1..capacity' /\ i # size + 1 /\ i <= capacity
  BY <1>1, <1>2
<1>5. size + 1 \in 1..capacity'
  BY <1>1, <1>2
<1> QED  BY <1>1, <1>2, <1>3, <1>4, <1>5

(* Put adds one entry to the contents.                                       *)
LEMMA PutFacts ==
  ASSUME IInv, NEW k \in Keys, NEW x \in Items, Put(k, x)
  PROVE  IInv' /\ Contents' = Contents \cup {x}
<1>1. /\ size' = size + 1 /\ size' <= capacity' /\ capacity' \in Nat /\ capacity' >= 1
      /\ DOMAIN nodes' = 1..capacity'
      /\ \A i \in 1..size : nodes'[i] = nodes[i]
      /\ nodes'[size + 1] = x
  BY AddFacts DEF Put
<1>2. size \in Nat
  BY DEF IInv, Typed
<1>3. \A i \in 1..(size + 1) : i \in 1..size \/ i = size + 1
  BY <1>2
<1>4. \A i \in 1..size : i \in 1..(size + 1)
  BY <1>2
<1>5. size + 1 \in 1..(size + 1)
  BY <1>2
<1>6. Contents' = Contents \cup {x}
  BY <1>1, <1>3, <1>4, <1>5 DEF Contents
<1>7. Typed'
  BY <1>1, <1>2 DEF Put, IInv, Typed
<1>8. ArraySound'
  <2>1. \A i \in 1..size : nodes[i] \in Items /\ frees[nodes[i]] = 0 /\ nodes[i] # x
    BY DEF IInv, ArraySound, Put, Contents
  <2>2. \A i \in 1..(size + 1) : nodes'[i] \in Items /\ frees[nodes'[i]] = 0
    BY <1>1, <1>3, <2>1 DEF Put
  <2>3. ASSUME NEW i \in 1..(size + 1), NEW j \in 1..(size + 1), nodes'[i] = nodes'[j]  PROVE i = j
    BY <1>1, <1>3, <2>1, <2>3 DEF IInv, ArraySound
  <2>4. frees' = frees
    BY DEF Put
  <2> QED  BY <1>1, <2>2, <2>3, <2>4 DEF ArraySound, IInv
<1> QED  BY <1>6, <1>7, <1>8 DEF IInv

-----------------------------------------------------------------------------
(* Removing                                                                  *)

(* The last entry takes the place of the one that is removed.                *)
LEMMA TakeOutFacts ==
  ASSUME IInv, NEW i \in 1..size, TakeOut(i)
  PROVE  /\ size' = size - 1 /\ size' \in Nat /\ DOMAIN nodes' = 1..capacity /\ capacity' = capacity
         /\ \A j \in 1..(size - 1) : nodes'[j] = nodes[IF j = i THEN size ELSE j]
         /\ nodes[i] \in Items /\ Contents' = Contents \ {nodes[i]}
         /\ \A y \in Items : frees'[y] = IF y = nodes[i] THEN frees[y] + 1 ELSE frees[y]
         /\ frees' \in [Items -> Nat]
<1>1. size \in Nat /\ capacity \in Nat /\ size <= capacity /\ size >= 1 /\ DOMAIN nodes = 1..capacity
  BY DEF IInv, Typed, ArraySound
<1>2. size' = size - 1 /\ nodes' = [nodes EXCEPT ![i] = nodes[size]] /\ capacity' = capacity
  BY DEF TakeOut
<1>3. i \in 1..capacity /\ \A j \in 1..(size - 1) : j \in 1..size /\ j \in 1..capacity
  BY <1>1
<1>4. \A j \in 1..(size - 1) : nodes'[j] = nodes[IF j = i THEN size ELSE j]
  BY <1>1, <1>2, <1>3
<1>5. nodes[i] \in Items
  BY DEF IInv, ArraySound
<1>6. Contents' = Contents \ {nodes[i]}
  <2>1. Contents' = {nodes[IF j = i THEN size ELSE j] : j \in 1..(size - 1)}
    BY <1>2, <1>4 DEF Contents
  <2>2. \A j \in 1..size : j # i => nodes[j] # nodes[i]
    BY DEF IInv, ArraySound
  <2>3. ASSUME NEW j \in 1..(size - 1)
        PROVE  /\ (IF j = i THEN size ELSE j) \in 1..size
               /\ (IF j = i THEN size ELSE j) # i
    BY <1>1, <2>3
  <2>4. ASSUME NEW j \in 1..size, j # i
        PROVE  \E m \in 1..(size - 1) : (IF m = i THEN size ELSE m) = j
    <3>1. CASE j = size
      <4>1. i \in 1..(size - 1)
        BY <1>1, <2>4, <3>1
      <4> QED  BY <3>1, <4>1
    <3>2. CASE j # size
      <4>1. j \in 1..(size - 1)
        BY <1>1, <2>4, <3>2
      <4> QED  BY <2>4, <4>1
    <3> QED  BY <3>1, <3>2
  <2>5. Contents' \subseteq Contents \ {nodes[i]}
    BY <2>1, <2>2, <2>3 DEF Contents
  <2>6. ASSUME NEW j \in 1..size, nodes[j] # nodes[i]  PROVE nodes[j] \in Contents'
    <3>1. PICK m \in 1..(size - 1) : (IF m = i THEN size ELSE m) = j
      BY <2>4, <2>6
    <3> QED  BY <2>1, <3>1
  <2>7. Contents \ {nodes[i]} \subseteq Contents'
    BY <2>6 DEF Contents
  <2> QED  BY <2>5, <2>7
<1>7. frees \in [Items -> Nat]
  BY DEF IInv, Typed
<1>8. frees' = [y \in Items |-> IF y \in {nodes[i]} THEN frees[y] + 1 ELSE frees[y]]
  BY DEF TakeOut, Free
<1>9. \A y \in Items : frees'[y] = IF y = nodes[i] THEN frees[y] + 1 ELSE frees[y]
  BY <1>8
<1>10. frees' \in [Items -> Nat]
  BY <1>7, <1>8
<1> QED  BY <1>1, <1>2, <1>4, <1>5, <1>6, <1>9, <1>10

(* What Remove does when it finds an entry.                                  *)
LEMMA RemoveFacts ==
  ASSUME IInv, NEW k \in Keys, Remove(k)
  PROVE  \/ Absent(k) /\ UNCHANGED <<nodes, size, capacity, frees>>
         \/ \E i \in 1..size : key[nodes[i]] = k /\ TakeOut(i)
<1>1. SUFFICES ASSUME NEW i \in 1..size, IsFirst(i, k), ListRemove(nodes[i])
               PROVE  key[nodes[i]] = k /\ TakeOut(i)
  BY DEF Remove
<1>2. PICK j \in 1..size : nodes[j] = nodes[i] /\ TakeOut(j)
  BY <1>1 DEF ListRemove
<1>3. j = i
  BY <1>2 DEF IInv, ArraySound
<1> QED  BY <1>1, <1>2, <1>3 DEF IsFirst

(* A removal keeps the invariant.                                            *)
LEMMA TakeOutKeeps ==
  ASSUME IInv, NEW i \in 1..size, TakeOut(i), UNCHANGED <<key, answer, open>>
  PROVE  IInv'
<1>1. /\ size' = size - 1 /\ size' \in Nat /\ DOMAIN nodes' = 1..capacity /\ capacity' = capacity
      /\ \A j \in 1..(size - 1) : nodes'[j] = nodes[IF j = i THEN size ELSE j]
      /\ nodes[i] \in Items
      /\ \A y \in Items : frees'[y] = IF y = nodes[i] THEN frees[y] + 1 ELSE frees[y]
      /\ frees' \in [Items -> Nat]
  BY TakeOutFacts
<1>2. size \in Nat /\ size <= capacity /\ capacity \in Nat
  BY DEF IInv, Typed, ArraySound
<1>3. \A j \in 1..(size - 1) : (IF j = i THEN size ELSE j) \in 1..size /\ (IF j = i THEN size ELSE j) # i
  BY <1>2
<1>4. /\ \A j \in 1..size : nodes[j] \in Items /\ frees[nodes[j]] = 0
      /\ \A j, m \in 1..size : nodes[j] = nodes[m] => j = m
      /\ \A y \in Items : frees[y] <= 1 /\ frees[y] \in Nat
  BY DEF IInv, ArraySound, Typed
<1>5. Typed'
  BY <1>1, <1>2 DEF IInv, Typed
<1>6. \A j \in 1..(size - 1) : nodes'[j] \in Items /\ frees'[nodes'[j]] = 0
  <2>1. SUFFICES ASSUME NEW j \in 1..(size - 1)  PROVE nodes'[j] \in Items /\ frees'[nodes'[j]] = 0
    OBVIOUS
  <2>2. PICK m \in 1..size : m # i /\ nodes'[j] = nodes[m]
    BY <1>1, <1>3
  <2>3. nodes[m] \in Items /\ nodes[m] # nodes[i] /\ frees[nodes[m]] = 0
    BY <1>4, <2>2
  <2> QED  BY <1>1, <2>2, <2>3
<1>7. ASSUME NEW j \in 1..(size - 1), NEW m \in 1..(size - 1), nodes'[j] = nodes'[m]  PROVE j = m
  <2>1. (IF j = i THEN size ELSE j) = (IF m = i THEN size ELSE m)
    BY <1>1, <1>3, <1>4, <1>7
  <2>2. j # size /\ m # size
    BY <1>2
  <2> QED  BY <2>1, <2>2
<1>8. \A y \in Items : frees'[y] <= 1
  BY <1>1, <1>4
<1>9. size - 1 <= capacity
  BY <1>2
<1> QED  BY <1>1, <1>5, <1>6, <1>7, <1>8, <1>9 DEF IInv, ArraySound

-----------------------------------------------------------------------------
(* The invariant                                                             *)

(* What deinit frees and leaves.                                             *)
LEMMA DeinitFacts ==
  ASSUME IInv, Deinit
  PROVE  /\ IInv' /\ Contents' = {}
         /\ \A y \in Items : frees'[y] = IF y \in Contents THEN frees[y] + 1 ELSE frees[y]
<1>1. size' = 0 /\ capacity' = 0 /\ DOMAIN nodes' = {} /\ open' = FALSE /\ key' = key
  BY DEF Deinit
<1>2. frees' = [y \in Items |-> IF y \in Contents THEN frees[y] + 1 ELSE frees[y]]
  BY DEF Deinit, Free
<1>3. frees \in [Items -> Nat]
  BY DEF IInv, Typed
<1>4. \A y \in Contents : y \in Items /\ frees[y] = 0
  BY DEF Contents, IInv, ArraySound
<1>5. \A y \in Items : frees[y] <= 1
  BY DEF IInv, ArraySound
<1>6. 1..0 = {}
  OBVIOUS
<1>7. \A y \in Items : frees'[y] \in Nat /\ frees'[y] <= 1
  BY <1>2, <1>3, <1>4, <1>5
<1>8. frees' \in [Items -> Nat]
  BY <1>2, <1>3
<1>9. Contents' = {}
  BY <1>1, <1>6 DEF Contents
<1>10. Typed'
  BY <1>1, <1>6, <1>8 DEF IInv, Typed
<1>11. ArraySound'
  BY <1>1, <1>6, <1>7 DEF ArraySound
<1> QED  BY <1>2, <1>9, <1>10, <1>11 DEF IInv

(* The invariant holds at the start.                                         *)
LEMMA InitIInv == Init => IInv
<1> SUFFICES ASSUME Init  PROVE IInv
  OBVIOUS
<1>1. 1..0 = {}
  OBVIOUS
<1>2. size = 0 /\ capacity = 1 /\ DOMAIN nodes = 1..1
  BY DEF Init
<1> QED  BY <1>1, <1>2 DEF Init, IInv, Typed, ArraySound

(* Every step keeps the invariant.                                           *)
LEMMA NextIInv == IInv /\ [Next]_vars => IInv'
<1> SUFFICES ASSUME IInv, [Next]_vars  PROVE IInv'
  OBVIOUS
<1>1. CASE Deinit
  BY <1>1, DeinitFacts
<1>2. ASSUME NEW k \in Keys, NEW x \in Items, Put(k, x)  PROVE IInv'
  BY <1>2, PutFacts
<1>3. ASSUME NEW k \in Keys, Remove(k)  PROVE IInv'
  <2>1. CASE UNCHANGED <<nodes, size, capacity, frees>>
    BY <1>3, <2>1 DEF Remove, IInv, Typed, ArraySound
  <2>2. ASSUME NEW i \in 1..size, TakeOut(i)  PROVE IInv'
    <3>1. UNCHANGED <<key, answer, open>>
      BY <1>3 DEF Remove
    <3> QED  BY <2>2, <3>1, TakeOutKeeps
  <2> QED  BY <1>3, <2>1, <2>2, RemoveFacts
<1>4. ASSUME NEW k \in Keys, Get(k)  PROVE IInv'
  BY <1>4 DEF Get, IInv, Typed, ArraySound
<1>5. CASE UNCHANGED vars
  BY <1>5 DEF vars, IInv, Typed, ArraySound
<1> QED  BY <1>1, <1>2, <1>3, <1>4, <1>5 DEF Next

(* The array of a list stays sound, for any number of items.                 *)
THEOREM ArrayIsSound == Spec => []ArraySound
<1>1. IInv => ArraySound
  BY DEF IInv
<1> QED  BY <1>1, InitIInv, NextIInv, PTL DEF Spec

-----------------------------------------------------------------------------
(* Refinement                                                                *)

Held == {[item |-> x, key |-> key[x]] : x \in Contents}
Freed == {x \in Items : frees[x] > 0}

(* A new map is an empty dictionary.                                         *)
LEMMA InitDictionary == Init => D!Init
<1> SUFFICES ASSUME Init  PROVE D!Init
  OBVIOUS
<1>1. 1..0 = {}
  OBVIOUS
<1>2. Contents = {} /\ \A x \in Items : ~(frees[x] > 0)
  BY <1>1 DEF Init, Contents
<1> QED  BY <1>2 DEF Init, D!Init

(* Put on the array is Put of the dictionary.                                *)
LEMMA PutIsPut ==
  ASSUME IInv, NEW k \in Keys, NEW x \in Items, Put(k, x)
  PROVE  D!Put(k, x)
<1>1. Contents' = Contents \cup {x} /\ x \notin Contents /\ frees[x] = 0
  BY PutFacts DEF Put
<1>2. key' = [key EXCEPT ![x] = k] /\ key \in [Items -> Keys] /\ frees' = frees /\ answer' = answer
  BY DEF Put, IInv, Typed
<1>3. Contents \subseteq Items
  BY DEF Contents, IInv, ArraySound
<1>4. \A y \in Contents : key'[y] = key[y]
  BY <1>1, <1>2, <1>3
<1>5. key'[x] = k
  BY <1>2
<1>6. Held' = Held \cup {[item |-> x, key |-> k]}
  BY <1>1, <1>4, <1>5 DEF Held
<1>7. \A h \in Held : h.item # x
  BY <1>1 DEF Held
<1>8. x \notin Freed /\ Freed' = Freed
  BY <1>1, <1>2 DEF Freed
<1> QED  BY <1>2, <1>6, <1>7, <1>8 DEF D!Put, Held, Freed

(* Remove on the array is Remove of the dictionary.                          *)
LEMMA RemoveIsRemove ==
  ASSUME IInv, NEW k \in Keys, Remove(k)
  PROVE  D!Remove(k)
<1>1. D!Under(k) = {h \in Held : h.key = k}
  BY DEF D!Under, Held
<1>2. key' = key /\ answer' = answer
  BY DEF Remove
<1>3. CASE Absent(k) /\ UNCHANGED <<nodes, size, capacity, frees>>
  <2>1. Held' = Held /\ Freed' = Freed
    BY <1>2, <1>3 DEF Held, Freed, Contents
  <2>2. {h \in Held : h.key = k} = {}
    BY <1>3 DEF Held, Contents, Absent
  <2> QED  BY <1>1, <1>2, <2>1, <2>2 DEF D!Remove, Held, Freed
<1>4. ASSUME NEW i \in 1..size, key[nodes[i]] = k, TakeOut(i)  PROVE D!Remove(k)
  <2> DEFINE x == nodes[i]
  <2> DEFINE h == [item |-> x, key |-> k]
  <2>1. /\ Contents' = Contents \ {x} /\ x \in Items
        /\ \A y \in Items : frees'[y] = IF y = x THEN frees[y] + 1 ELSE frees[y]
    BY <1>4, TakeOutFacts
  <2>2. x \in Contents /\ \A y \in Items : frees[y] \in Nat
    BY DEF Contents, IInv, Typed
  <2>3. key[x] = k
    BY <1>4
  <2> HIDE DEF x
  <2>4. h \in Held /\ h.key = k /\ h.item = x
    BY <2>2, <2>3 DEF Held
  <2>5. Held' = Held \ {h}
    BY <1>2, <2>1, <2>3 DEF Held
  <2>6. Freed' = Freed \cup {x}
    BY <2>1, <2>2 DEF Freed
  <2> QED  BY <1>1, <1>2, <2>4, <2>5, <2>6 DEF D!Remove, Held, Freed
<1> QED  BY <1>3, <1>4, RemoveFacts

(* Get on the array is Get of the dictionary.                                *)
LEMMA GetIsGet ==
  ASSUME IInv, NEW k \in Keys, Get(k)
  PROVE  D!Get(k)
<1>1. D!Under(k) = {h \in Held : h.key = k}
  BY DEF D!Under, Held
<1>2. Held' = Held /\ Freed' = Freed
  BY DEF Get, Held, Freed, Contents
<1>3. CASE Absent(k) /\ answer' = NoItem
  <2>1. {h \in Held : h.key = k} = {}
    BY <1>3 DEF Held, Contents, Absent
  <2> QED  BY <1>1, <1>2, <1>3, <2>1 DEF D!Get, Held, Freed
<1>4. ASSUME NEW i \in 1..size, IsFirst(i, k), answer' = nodes[i]  PROVE D!Get(k)
  <2> DEFINE h == [item |-> nodes[i], key |-> k]
  <2>1. h \in Held /\ h.key = k /\ h.item = nodes[i]
    BY <1>4 DEF Held, Contents, IsFirst
  <2> HIDE DEF h
  <2> QED  BY <1>1, <1>2, <1>4, <2>1 DEF D!Get, Held, Freed
<1> QED  BY <1>3, <1>4 DEF Get

(* Deinit of the array is Clear of the dictionary.                           *)
LEMMA DeinitIsClear ==
  ASSUME IInv, Deinit
  PROVE  D!Clear
<1>1. /\ Contents' = {}
      /\ \A y \in Items : frees'[y] = IF y \in Contents THEN frees[y] + 1 ELSE frees[y]
  BY DeinitFacts
<1>2. Contents \subseteq Items /\ \A y \in Items : frees[y] \in Nat
  BY DEF Contents, IInv, ArraySound, Typed
<1>3. Held' = {}
  BY <1>1 DEF Held
<1>4. {h.item : h \in Held} = Contents
  <2>1. \A h \in Held : h.item \in Contents
    BY DEF Held
  <2>2. ASSUME NEW x \in Contents  PROVE \E h \in Held : h.item = x
    <3>1. [item |-> x, key |-> key[x]] \in Held
      BY DEF Held
    <3> QED  BY <3>1
  <2> QED  BY <2>1, <2>2
<1>5. Freed' = Freed \cup Contents
  BY <1>1, <1>2 DEF Freed
<1>6. answer' = answer
  BY DEF Deinit
<1> QED  BY <1>3, <1>4, <1>5, <1>6 DEF D!Clear, Held, Freed

(* The map of util/map.c over the list of util/list.c implements Dictionary: *)
(* each call is a step of Dictionary, for any number of items and keys.      *)
THEOREM MapIsDictionary == Spec => ImplementsDictionary
<1>1. Init => D!Init
  BY InitDictionary
<1>2. IInv /\ [Next]_vars => [D!Next]_(D!vars)
  <2> SUFFICES ASSUME IInv, [Next]_vars  PROVE [D!Next]_(D!vars)
    OBVIOUS
  <2>1. CASE Deinit
    BY <2>1, DeinitIsClear DEF D!Next
  <2>2. ASSUME NEW k \in Keys, NEW x \in Items, Put(k, x)  PROVE D!Next
    BY <2>2, PutIsPut DEF D!Next
  <2>3. ASSUME NEW k \in Keys, Remove(k)  PROVE D!Next
    BY <2>3, RemoveIsRemove DEF D!Next
  <2>4. ASSUME NEW k \in Keys, Get(k)  PROVE D!Next
    BY <2>4, GetIsGet DEF D!Next
  <2>5. CASE UNCHANGED vars
    BY <2>5 DEF vars, D!vars, Contents
  <2> QED  BY <2>1, <2>2, <2>3, <2>4, <2>5 DEF Next
<1> QED  BY <1>1, <1>2, InitIInv, NextIInv, PTL DEF Spec, ImplementsDictionary, D!Spec

=============================================================================
