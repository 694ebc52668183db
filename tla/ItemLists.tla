------------------------------ MODULE ItemLists ------------------------------
(***************************************************************************)
(* What the result lists of libmpd promise (src/src/libmpd.h, group        *)
(* "MpdData"): each list is a sequence of items and a place in it. The     *)
(* library builds one item by item, the client walks it, goes back to its  *)
(* start, takes items out, and is rid of it when it walks past the end.    *)
(***************************************************************************)
EXTENDS Integers, Sequences

CONSTANTS
  Handles,    \* the lists that are held at a time
  Items       \* what may be in a list

VARIABLES
  items,      \* the items of each list
  place       \* where each list stands, 0 when it is empty

vars == <<items, place>>

Init == items = [h \in Handles |-> <<>>] /\ place = [h \in Handles |-> 0]

(* A sequence without its item i. *)
Without(s, i) == [j \in 1..Len(s) - 1 |-> IF j < i THEN s[j] ELSE s[j + 1]]

(* Where a list stands when the item it stands at is taken out: at the one *)
(* before it, or at the one after it if it was the first.                  *)
PlaceWithout(s, i) == IF i > 1 THEN i - 1 ELSE IF Len(s) > 1 THEN 1 ELSE 0

Add(h, i) ==
  /\ place[h] = Len(items[h])
  /\ items' = [items EXCEPT ![h] = Append(@, i)]
  /\ place' = [place EXCEPT ![h] = @ + 1]

Rewind(h) ==
  /\ items[h] # <<>>
  /\ place' = [place EXCEPT ![h] = 1]
  /\ UNCHANGED items

Advance(h) ==
  /\ place[h] < Len(items[h])
  /\ place' = [place EXCEPT ![h] = @ + 1]
  /\ UNCHANGED items

Drop(h) ==
  /\ items[h] # <<>>
  /\ items' = [items EXCEPT ![h] = <<>>]
  /\ place' = [place EXCEPT ![h] = 0]

(* A list that is put after an empty one keeps its place. *)
Join(a, b) ==
  /\ a # b /\ items[b] # <<>>
  /\ items' = [items EXCEPT ![a] = @ \o items[b], ![b] = <<>>]
  /\ place' = [place EXCEPT ![a] = IF items[a] = <<>> THEN place[b] ELSE 1, ![b] = 0]

Remove(h) ==
  /\ items[h] # <<>>
  /\ items' = [items EXCEPT ![h] = Without(@, place[h])]
  /\ place' = [place EXCEPT ![h] = PlaceWithout(items[h], @)]

Next ==
  \/ \E h \in Handles :
       (\E i \in Items : Add(h, i)) \/ Rewind(h) \/ Advance(h) \/ Drop(h) \/ Remove(h)
  \/ \E a, b \in Handles : Join(a, b)

Spec == Init /\ [][Next]_vars
=============================================================================
