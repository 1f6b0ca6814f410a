-------------------------------- MODULE Slab --------------------------------
(***************************************************************************)
(* The reference-counted buffer pools of util/buffer.c, as operators on    *)
(* one pool.                                                               *)
(*                                                                         *)
(* A pool is a function from buffer number to reference count.  The code   *)
(* keeps the buffers of a pool in a list, scans it from the front for the  *)
(* first buffer whose count is 0 and appends a fresh buffer when there is  *)
(* none.  A buffer that was never allocated and a buffer that was released *)
(* are both "count 0" here, so the first free number is the buffer that    *)
(* the scan finds or the one that it appends.  The domain of the function  *)
(* bounds the number of buffers.  Every operation of the code holds the    *)
(* mutex of the pool from its first to its last access, so each is one     *)
(* atomic change.  The null pointer NoBuf belongs to no pool.              *)
(***************************************************************************)
EXTENDS Naturals, Sequences, FiniteSets

NoBuf == 0

(* The buffer that video_slab_alloc returns: a set with at most one element, *)
(* empty only when the bound on the pool is reached.                         *)
FirstFree(pool) ==
  {b \in DOMAIN pool : pool[b] = 0 /\ \A a \in DOMAIN pool : a < b => pool[a] # 0}

(* video_slab_alloc: the new holder owns the only reference.                 *)
Alloc(pool, b) == [pool EXCEPT ![b] = 1]

(* n calls of video_slab_ref; the null pointer is ignored.                   *)
Ref(pool, b, n) == IF b \in DOMAIN pool THEN [pool EXCEPT ![b] = @ + n] ELSE pool

(* Mutant of Unref: the count is decremented twice.                          *)
UnrefTwice(pool, b) ==
  IF b \in DOMAIN pool THEN [pool EXCEPT ![b] = IF @ = 0 THEN 0 ELSE @ - 2] ELSE pool

(* video_slab_unref: a count that is already 0 stays 0.                      *)
Unref(pool, b) ==
  IF b \in DOMAIN pool THEN [pool EXCEPT ![b] = IF @ = 0 THEN 0 ELSE @ - 1] ELSE pool

(* How often b occurs in a sequence of buffers.                              *)
Occurrences(s, b) == Cardinality({i \in DOMAIN s : s[i] = b})

(* video_slab_unref on every element of a sequence of pointers, in order.    *)
UnrefAll(pool, s) ==
  [b \in DOMAIN pool |-> IF pool[b] < Occurrences(s, b) THEN 0 ELSE pool[b] - Occurrences(s, b)]

(* A buffer nobody holds may be handed to anyone, so its contents are gone.  *)
Contents(data, pool, garbage) ==
  [b \in DOMAIN data |-> IF pool[b] = 0 THEN garbage ELSE data[b]]

=============================================================================
