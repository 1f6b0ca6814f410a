----------------------------- MODULE Dictionary -----------------------------
(***************************************************************************)
(* What the map of util/map.c promises, without array, capacity and order: *)
(* it holds items under keys, several under one key if the caller puts     *)
(* several, and gives each of them back to be freed once.                  *)
(***************************************************************************)
CONSTANTS Items, Keys, NoItem

VARIABLES
  held,    \* the items in the map, each with its key
  freed,   \* the items that were freed
  answer   \* what the last look-up found

vars == <<held, freed, answer>>

Init == held = {} /\ freed = {} /\ answer = NoItem

Under(k) == {h \in held : h.key = k}

Put(k, x) ==
  /\ \A h \in held : h.item # x
  /\ x \notin freed
  /\ held' = held \cup {[item |-> x, key |-> k]}
  /\ UNCHANGED <<freed, answer>>

Remove(k) ==
  /\ IF Under(k) = {} THEN UNCHANGED <<held, freed>>
     ELSE \E h \in Under(k) : held' = held \ {h} /\ freed' = freed \cup {h.item}
  /\ UNCHANGED answer

Get(k) ==
  /\ IF Under(k) = {} THEN answer' = NoItem ELSE \E h \in Under(k) : answer' = h.item
  /\ UNCHANGED <<held, freed>>

Clear == held' = {} /\ freed' = freed \cup {h.item : h \in held} /\ UNCHANGED answer

Next == Clear \/ \E k \in Keys : Remove(k) \/ Get(k) \/ \E x \in Items : Put(k, x)

Spec == Init /\ [][Next]_vars

=============================================================================
