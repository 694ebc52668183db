----------------------------- MODULE ResultList -----------------------------
(***************************************************************************)
(* The result lists of libmpd, MpdData, as they are built (src/src/        *)
(* libmpd.c, lines 775 to 959): doubly linked on the heap, and each node   *)
(* points at the first one too, so that a list may be handed around by any *)
(* of its nodes. Every pointer the code follows is a step or part of one.  *)
(*                                                                         *)
(* What a node carries (a song, a tag, ...) is an item; freefunc and       *)
(* userdata are left out: the library never sets them.                     *)
(***************************************************************************)
EXTENDS Integers, Sequences

CONSTANTS
  Nodes,      \* addresses: a bound on the nodes of all lists together
  Null,
  Handles,    \* the lists that are held at a time, by client or library
  Items       \* what a node may carry

ASSUME NodesAssumption == Null \notin Nodes
ASSUME ItemsAssumption == Items # {}

VARIABLES
  data,                     \* the pointer its holder has into each list
  next, prev, first, item,  \* the fields of the nodes
  live,                     \* the nodes that are allocated
  at, of,                   \* what is running, and on which list
  node, head,               \* its local pointers
  list, pos,                \* auxiliary: the nodes of each list, and which of
                            \* them data is
  doomed, reach             \* auxiliary: the nodes to be freed, and where in
                            \* its list node is

links == <<next, prev, first>>
heap  == <<links, item, live>>
lists == <<list, pos>>
vars  == <<data, heap, at, of, node, head, lists, doomed, reach>>

Pointers == Nodes \cup {Null}

TypeOK ==
  /\ data \in [Handles -> Pointers]
  /\ next \in [Nodes -> Pointers] /\ prev \in [Nodes -> Pointers]
  /\ first \in [Nodes -> Pointers] /\ item \in [Nodes -> Items]
  /\ live \subseteq Nodes
  /\ at \in {"idle", "walk", "back", "refirst", "dispose", "free"}
  /\ of \in Handles \X Handles
  /\ node \in Pointers /\ head \in Pointers
  /\ list \in [Handles -> Seq(Nodes)] /\ pos \in [Handles -> Nat]
  /\ doomed \in Seq(Nodes) /\ reach \in Nat

(* The fields of a node that is not allocated: HeapSound shows that nobody *)
(* reads them.                                                             *)
Blank == CHOOSE i \in Items : TRUE

Init ==
  /\ data = [h \in Handles |-> Null]
  /\ next = [n \in Nodes |-> Null] /\ prev = [n \in Nodes |-> Null]
  /\ first = [n \in Nodes |-> Null] /\ item = [n \in Nodes |-> Blank]
  /\ live = {}
  /\ at = "idle" /\ of \in Handles \X Handles
  /\ node = Null /\ head = Null
  /\ list = [h \in Handles |-> <<>>] /\ pos = [h \in Handles |-> 0]
  /\ doomed = <<>> /\ reach = 0

-----------------------------------------------------------------------------
(* Building and walking a list. *)

(* mpd_new_data_struct_append, of which the library hands in the last node.*)
AppendItem(h, i) ==
  /\ at = "idle"
  /\ data[h] # Null => next[data[h]] = Null
  /\ \E n \in Nodes \ live :
       /\ live' = live \cup {n}
       /\ item' = [item EXCEPT ![n] = i]
       /\ next' = IF data[h] = Null THEN [next EXCEPT ![n] = Null]
                  ELSE [next EXCEPT ![data[h]] = n, ![n] = Null]
       /\ prev' = [prev EXCEPT ![n] = data[h]]
       /\ first' = [first EXCEPT ![n] = IF data[h] = Null THEN n ELSE first[data[h]]]
       /\ data' = [data EXCEPT ![h] = n]
       /\ list' = [list EXCEPT ![h] = Append(@, n)]
       /\ pos' = [pos EXCEPT ![h] = @ + 1]
  /\ UNCHANGED <<at, of, node, head, doomed, reach>>

(* mpd_data_get_first *)
GetFirst(h) ==
  /\ at = "idle" /\ data[h] # Null
  /\ data' = [data EXCEPT ![h] = first[@]]
  /\ pos' = [pos EXCEPT ![h] = 1]
  /\ UNCHANGED <<heap, at, of, node, head, list, doomed, reach>>

(* mpd_data_free begins with the first node of the list.                   *)
StartFree(h) ==
  /\ node' = first[data[h]]
  /\ at' = "free"
  /\ data' = [data EXCEPT ![h] = Null]
  /\ doomed' = list[h]
  /\ list' = [list EXCEPT ![h] = <<>>]
  /\ pos' = [pos EXCEPT ![h] = 0]
  /\ UNCHANGED <<heap, of, head, reach>>

(* mpd_data_get_next, by way of mpd_data_get_next_real: the step past the  *)
(* last node frees the list.                                               *)
GetNext(h) ==
  /\ at = "idle" /\ data[h] # Null
  /\ IF next[data[h]] # Null
       THEN /\ data' = [data EXCEPT ![h] = next[@]]
            /\ pos' = [pos EXCEPT ![h] = @ + 1]
            /\ UNCHANGED <<heap, at, of, node, head, list, doomed, reach>>
       ELSE StartFree(h)

(* mpd_data_free *)
Free(h) == at = "idle" /\ data[h] # Null /\ StartFree(h)

(* One turn of the loop of mpd_data_free.                                  *)
FreeNode ==
  /\ at = "free"
  /\ live' = live \ {node}
  /\ next' = [next EXCEPT ![node] = Null] /\ prev' = [prev EXCEPT ![node] = Null]
  /\ first' = [first EXCEPT ![node] = Null] /\ item' = [item EXCEPT ![node] = Blank]
  /\ node' = next[node]
  /\ at' = IF node' = Null THEN "idle" ELSE "free"
  /\ doomed' = Tail(doomed)
  /\ UNCHANGED <<data, of, head, lists, reach>>

-----------------------------------------------------------------------------
(* Two lists that become one. *)

(* mpd_data_concatenate of nothing and a list is that list, where it       *)
(* stands; otherwise it looks for the last node of the first list.         *)
ConcatenateToNothing(a, b) ==
  /\ at = "idle" /\ data[a] = Null /\ data[b] # Null
  /\ data' = [data EXCEPT ![a] = data[b], ![b] = Null]
  /\ list' = [list EXCEPT ![a] = list[b], ![b] = <<>>]
  /\ pos' = [pos EXCEPT ![a] = pos[b], ![b] = 0]
  /\ UNCHANGED <<heap, at, of, node, head, doomed, reach>>

Concatenate(a, b) ==
  /\ at = "idle" /\ a # b /\ data[a] # Null /\ data[b] # Null
  /\ at' = "walk" /\ of' = <<a, b>>
  /\ head' = first[data[a]] /\ node' = data[a]
  /\ reach' = pos[a]
  /\ UNCHANGED <<data, heap, lists, doomed>>

(* mpd_data_is_last *)
IsLast(n) == next[n] = Null

Walk ==
  /\ at = "walk" /\ ~IsLast(node)
  /\ node' = next[node] /\ reach' = reach + 1
  /\ UNCHANGED <<data, heap, at, of, head, lists, doomed>>

(* Mutated: the second list is linked where its holder stands.             *)
LinkHere ==
  LET a == of[1]
      b == of[2]
      second == data[b]
  IN
  /\ at = "walk" /\ IsLast(node)
  /\ next' = [next EXCEPT ![node] = second]
  /\ prev' = [prev EXCEPT ![second] = node]
  /\ at' = "refirst" /\ node' = second
  /\ reach' = Len(list[a]) + 1
  /\ data' = [data EXCEPT ![a] = head, ![b] = Null]
  /\ list' = [list EXCEPT ![a] = @ \o list[b], ![b] = <<>>]
  /\ pos' = [pos EXCEPT ![a] = 1, ![b] = 0]
  /\ UNCHANGED <<first, item, live, of, head, doomed>>

(* The last node is linked to the first of the second list, from where on  *)
(* the first pointers have to be set.                                      *)
Link ==
  LET a == of[1]
      b == of[2]
      second == first[data[b]]
  IN
  /\ at = "walk" /\ IsLast(node)
  /\ next' = [next EXCEPT ![node] = second]
  /\ prev' = [prev EXCEPT ![second] = node]
  /\ at' = "refirst" /\ node' = second
  /\ reach' = Len(list[a]) + 1
  /\ data' = [data EXCEPT ![a] = head, ![b] = Null]
  /\ list' = [list EXCEPT ![a] = @ \o list[b], ![b] = <<>>]
  /\ pos' = [pos EXCEPT ![a] = 1, ![b] = 0]
  /\ UNCHANGED <<first, item, live, of, head, doomed>>

(* Mutated: the first pointers of what follows stay what they were.        *)
RefirstOnce ==
  /\ at = "refirst"
  /\ first' = [first EXCEPT ![node] = head]
  /\ at' = IF doomed # <<>> THEN "dispose" ELSE "idle"
  /\ node' = Null /\ reach' = 0 /\ head' = Null
  /\ UNCHANGED <<data, next, prev, item, live, of, lists, doomed>>

(* One turn of the loops that set the first pointers, to the end of the    *)
(* list: in mpd_data_concatenate, and in mpd_data_delete_item, which goes  *)
(* on to free the node it has taken out.                                   *)
Refirst ==
  /\ at = "refirst"
  /\ first' = [first EXCEPT ![node] = head]
  /\ node' = next[node]
  /\ IF node' # Null
       THEN at' = "refirst" /\ reach' = reach + 1 /\ UNCHANGED head
       ELSE /\ at' = IF doomed # <<>> THEN "dispose" ELSE "idle"
            /\ reach' = 0 /\ head' = Null
  /\ UNCHANGED <<data, next, prev, item, live, of, lists, doomed>>

-----------------------------------------------------------------------------
(* A node that is taken out. *)

Without(s, i) == [j \in 1..Len(s) - 1 |-> IF j < i THEN s[j] ELSE s[j + 1]]

(* Mutated: the next one rather than the previous one. *)
NeighbourAfter(n) == IF next[n] # Null THEN next[n] ELSE prev[n]

(* The node to return: the previous one, or else the next.                *)
Neighbour(n) == IF prev[n] # Null THEN prev[n] ELSE next[n]

(* mpd_data_delete_item unlinks the node. If the others take it for their  *)
(* first, they have to learn of the new one.                               *)
DeleteItem(h) ==
  LET n == data[h]
      temp == Neighbour(n)
  IN
  /\ at = "idle" /\ n # Null
  /\ prev' = IF next[n] = Null THEN prev ELSE [prev EXCEPT ![next[n]] = prev[n]]
  /\ next' = IF prev[n] = Null THEN next ELSE [next EXCEPT ![prev[n]] = next[n]]
  /\ data' = [data EXCEPT ![h] = temp]
  /\ of' = <<h, h>>
  /\ IF temp # Null /\ first[temp] = n
       THEN at' = "back" /\ node' = temp /\ reach' = 1
       ELSE at' = "dispose" /\ UNCHANGED <<node, reach>>
  /\ doomed' = <<n>>
  /\ list' = [list EXCEPT ![h] = Without(@, pos[h])]
  /\ pos' = [pos EXCEPT ![h] = IF @ > 1 THEN @ - 1 ELSE IF Len(list[h]) > 1 THEN 1 ELSE 0]
  /\ UNCHANGED <<first, item, live, head>>

(* It looks for the new first node from there.                             *)
Back ==
  /\ at = "back"
  /\ IF prev[node] # Null THEN node' = prev[node] /\ UNCHANGED <<at, head>>
     ELSE at' = "refirst" /\ head' = node /\ UNCHANGED node
  /\ UNCHANGED <<data, heap, of, lists, doomed, reach>>

(* The node becomes a list of its own and is freed by mpd_data_free.       *)
Dispose ==
  LET n == doomed[1] IN
  /\ at = "dispose"
  /\ next' = [next EXCEPT ![n] = Null] /\ prev' = [prev EXCEPT ![n] = Null]
  /\ first' = [first EXCEPT ![n] = n]
  /\ at' = "free" /\ node' = n
  /\ UNCHANGED <<data, item, live, of, head, lists, doomed, reach>>

Next ==
  \/ \E h \in Handles :
       (\E i \in Items : AppendItem(h, i)) \/ GetFirst(h) \/ GetNext(h) \/ Free(h) \/ DeleteItem(h)
  \/ \E a, b \in Handles : ConcatenateToNothing(a, b) \/ Concatenate(a, b)
  \/ FreeNode \/ Walk \/ Link \/ Refirst \/ Back \/ Dispose

Spec == Init /\ [][Next]_vars

-----------------------------------------------------------------------------
(* Properties. *)

(* No pointer the code follows leads to a node that was freed, a list can  *)
(* be freed from wherever its holder stands (mpd_data_get_first finds a    *)
(* node of it, never the one mpd_data_delete_item took out), and every     *)
(* node is in a list someone holds or about to be freed.                   *)
HeapSound ==
  /\ \A h \in Handles : data[h] # Null =>
       /\ data[h] \in live
       /\ at = "idle" => first[data[h]] \in live
       /\ next[data[h]] \in live \cup {Null} /\ prev[data[h]] \in live \cup {Null}
  /\ at \in {"walk", "back", "refirst", "free"} => node \in live
  /\ (at = "idle" /\ \A h \in Handles : data[h] = Null) => live = {}

(* What is in each list.                                                   *)
Contents(s, f) == [i \in 1..Len(s) |-> f[s[i]]]
Held == [h \in Handles |-> Contents(list[h], item)]

Abstract == INSTANCE ItemLists WITH items <- Held, place <- pos

(* The links implement sequences with a place in each: append, walk,       *)
(* concatenate and delete leave every other item where it was, and a list  *)
(* that was given to mpd_data_concatenate is the other's from then on.     *)
Implements == Abstract!Spec

-----------------------------------------------------------------------------
(* The inductive invariant (proved in ResultListProofs). *)

In(n, s) == \E i \in 1..Len(s) : s[i] = n

Forward ==
  \A h \in Handles : \A i \in 1..Len(list[h]) :
    next[list[h][i]] = IF i < Len(list[h]) THEN list[h][i + 1] ELSE Null

Backward ==
  \A h \in Handles : \A i \in 1..Len(list[h]) :
    prev[list[h][i]] = IF i > 1 THEN list[h][i - 1] ELSE Null

(* How many nodes of list h point at its first node.                       *)
FirstSet(h) == IF at \in {"back", "refirst"} /\ h = of[1] THEN reach - 1 ELSE Len(list[h])

Firsts ==
  \A h \in Handles : \A i \in 1..Len(list[h]) :
    i <= FirstSet(h) => first[list[h][i]] = list[h][1]

(* No node is in two places.                                               *)
Apart ==
  /\ \A h, k \in Handles : \A i \in 1..Len(list[h]), j \in 1..Len(list[k]) :
       list[h][i] = list[k][j] => h = k /\ i = j
  /\ \A i, j \in 1..Len(doomed) : doomed[i] = doomed[j] => i = j
  /\ \A h \in Handles : \A i \in 1..Len(list[h]), j \in 1..Len(doomed) : list[h][i] # doomed[j]

Allocated ==
  \A n \in Nodes : n \in live <=> (In(n, doomed) \/ \E h \in Handles : In(n, list[h]))

(* Where each list's holder stands.                                        *)
Placed ==
  \A h \in Handles :
    IF list[h] = <<>> THEN data[h] = Null /\ pos[h] = 0
    ELSE pos[h] \in 1..Len(list[h]) /\ data[h] = list[h][pos[h]]

(* Where the local pointers are.                                           *)
Current ==
  /\ at = "walk" =>
       of[1] # of[2] /\ list[of[2]] # <<>> /\ head = list[of[1]][1]
  /\ at \in {"walk", "back", "refirst"} =>
       reach \in 1..Len(list[of[1]]) /\ node = list[of[1]][reach]
  /\ at = "back" => reach = 1
  /\ at = "refirst" => head = list[of[1]][1]

(* What is to be freed.                                                    *)
ToFree ==
  /\ at \in {"idle", "walk"} => doomed = <<>>
  /\ at = "refirst" => Len(doomed) <= 1
  /\ at \in {"back", "dispose"} => Len(doomed) = 1
  /\ at = "free" =>
       /\ doomed # <<>> /\ node = doomed[1]
       /\ \A i \in 1..Len(doomed) :
            next[doomed[i]] = IF i < Len(doomed) THEN doomed[i + 1] ELSE Null

Linked == Forward /\ Backward /\ Firsts
ListInv == TypeOK /\ Linked /\ Apart /\ Allocated /\ Placed /\ Current /\ ToFree
=============================================================================
