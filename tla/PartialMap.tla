----------------------------- MODULE PartialMap -----------------------------
(* What map.h promises its users: a partial function from keys to values,  *)
(* and an iteration that comes to every key once.                          *)
EXTENDS Null, Integers

CONSTANTS Key, Value

VARIABLES
  map,        \* a function from some of Key to Value
  todo,       \* the keys that the iteration in progress has yet to come to;
              \* NULL when there is none
  result      \* what the last call returned

vars == <<map, todo, result>>

(* The function with no keys.                                              *)
Nothing == [k \in {} |-> NULL]

Init == map = Nothing /\ todo = NULL /\ result = NULL

Get(k) ==
  /\ result' = IF k \in DOMAIN map THEN map[k] ELSE NULL
  /\ UNCHANGED <<map, todo>>

Set(k, v) ==
  /\ map' = [j \in DOMAIN map \cup {k} |-> IF j = k THEN v ELSE map[j]]
  /\ result' = 0 /\ UNCHANGED todo

(* There was no memory: nothing has changed.                               *)
SetFails(k) == k \notin DOMAIN map /\ result' = -1 /\ UNCHANGED <<map, todo>>

Remove(k) ==
  /\ map' = [j \in DOMAIN map \ {k} |-> map[j]]
  /\ result' = NULL /\ UNCHANGED todo

Clear == map' = Nothing /\ result' = NULL /\ UNCHANGED todo

Iterate == todo' = DOMAIN map /\ result' = NULL /\ UNCHANGED map

Visit == \E k \in todo : todo' = todo \ {k} /\ result' = k /\ UNCHANGED map

EndOfKeys == todo = {} /\ todo' = NULL /\ result' = NULL /\ UNCHANGED map

Next ==
  \/ todo = NULL /\ (Iterate \/ Clear \/ \E k \in Key, v \in Value : Set(k, v) \/ SetFails(k))
  \/ todo # NULL /\ (Visit \/ EndOfKeys)
  \/ \E k \in Key : 
       Get(k) \/ ((todo # NULL => k \notin todo) /\ Remove(k))

Spec == Init /\ [][Next]_vars
=============================================================================
