-------------------------- MODULE ResultListProofs --------------------------
(***************************************************************************)
(* The result lists are sound on the heap and implement sequences with a   *)
(* place in each, for every set of addresses, of lists and of items.       *)
(***************************************************************************)
EXTENDS ResultList, SequenceTheorems, TLAPS

(* What is in a list is an address.                                        *)
LEMMA Elements ==
  ASSUME NEW L \in Seq(Nodes)
  PROVE  /\ Len(L) \in Nat
         /\ \A i \in 1..Len(L) : L[i] \in Nodes /\ L[i] # Null
         /\ L = <<>> <=> Len(L) = 0
  BY NodesAssumption

(* A node put at the end of a list leaves the others where they are.       *)
LEMMA Appended ==
  ASSUME NEW L \in Seq(Nodes), NEW n \in Nodes
  PROVE  /\ Append(L, n) \in Seq(Nodes)
         /\ Len(Append(L, n)) = Len(L) + 1
         /\ \A i \in 1..Len(L) : Append(L, n)[i] = L[i]
         /\ Append(L, n)[Len(L) + 1] = n
         /\ \A m : In(m, Append(L, n)) <=> m = n \/ In(m, L)
  BY DEF In

(* A list without its first node is the list, counted from the second.     *)
LEMMA Shortened ==
  ASSUME NEW L \in Seq(Nodes), L # <<>>
  PROVE  /\ Tail(L) \in Seq(Nodes)
         /\ Len(Tail(L)) = Len(L) - 1 /\ Len(L) \in Nat \ {0}
         /\ \A i \in 1..Len(L) - 1 : Tail(L)[i] = L[i + 1]
  OBVIOUS

(* One list after another.                                                 *)
LEMMA Joined ==
  ASSUME NEW S, NEW L \in Seq(S), NEW M \in Seq(S)
  PROVE  /\ L \o M \in Seq(S)
         /\ Len(L \o M) = Len(L) + Len(M)
         /\ \A i \in 1..Len(L) : (L \o M)[i] = L[i]
         /\ \A i \in 1..Len(M) : (L \o M)[Len(L) + i] = M[i]
  OBVIOUS

(* A list without one of its nodes.                                        *)
LEMMA Lacking ==
  ASSUME NEW L \in Seq(Nodes), NEW p \in 1..Len(L)
  PROVE  /\ Without(L, p) \in Seq(Nodes)
         /\ Len(Without(L, p)) = Len(L) - 1
         /\ \A i \in 1..Len(L) - 1 : Without(L, p)[i] = IF i < p THEN L[i] ELSE L[i + 1]
  <1>1. Len(L) \in Nat \ {0} /\ Len(L) - 1 \in Nat
    OBVIOUS
  <1>2. \A i \in 1..Len(L) - 1 : (IF i < p THEN L[i] ELSE L[i + 1]) \in Nodes
    BY <1>1
  <1>3. Without(L, p) \in [1..Len(L) - 1 -> Nodes]
    BY <1>2 DEF Without
  <1>4. Without(L, p) \in Seq(Nodes) /\ Len(Without(L, p)) = Len(L) - 1
    BY <1>1, <1>3
  <1> QED
    BY <1>4 DEF Without

(* At the start there are no lists.                                        *)
LEMMA InvInit == Init => ListInv
  <1> SUFFICES ASSUME Init PROVE ListInv
    OBVIOUS
  <1>1. Blank \in Items
    BY ItemsAssumption DEF Blank
  <1>2. <<>> \in Seq(Nodes) /\ Len(<<>>) = 0
    OBVIOUS
  <1>3. TypeOK
    BY <1>1, <1>2 DEF Init, TypeOK, Pointers
  <1>4. Linked /\ Apart /\ Allocated /\ Placed /\ Current /\ ToFree
    BY <1>2 DEF Init, Linked, Forward, Backward, Firsts, Apart, Allocated, Placed, Current,
                ToFree, In
  <1> QED
    BY <1>3, <1>4 DEF ListInv

(* What every step that leaves nodes and lists alone keeps.                *)
LEMMA SameHeap ==
  ASSUME ListInv, UNCHANGED <<heap, list, doomed>>
  PROVE  Forward' /\ Backward' /\ Apart' /\ Allocated'
  BY DEF ListInv, Linked, Forward, Backward, Apart, Allocated, In, heap, links

(* Going back to the first node.                                           *)
LEMMA InvGetFirst ==
  ASSUME ListInv, NEW h \in Handles, GetFirst(h)
  PROVE  ListInv'
  <1>1. /\ at = "idle" /\ data[h] # Null
        /\ data' = [data EXCEPT ![h] = first[@]]
        /\ pos' = [pos EXCEPT ![h] = 1]
        /\ UNCHANGED <<heap, at, of, node, head, list, doomed, reach>>
    BY DEF GetFirst
  <1>2. list[h] # <<>> /\ pos[h] \in 1..Len(list[h]) /\ data[h] = list[h][pos[h]]
    BY <1>1 DEF ListInv, Placed
  <1>3. list[h] \in Seq(Nodes)
    BY DEF ListInv, TypeOK
  <1>4. first[data[h]] = list[h][1] /\ list[h][1] \in Nodes /\ 1 \in 1..Len(list[h])
    BY <1>1, <1>2, <1>3, Elements DEF ListInv, Linked, Firsts, FirstSet
  <1>5. TypeOK'
    BY <1>1, <1>4 DEF ListInv, TypeOK, Pointers, heap, links
  <1>6. Forward' /\ Backward' /\ Apart' /\ Allocated'
    BY <1>1, SameHeap
  <1>7. Firsts' /\ Current' /\ ToFree'
    BY <1>1 DEF ListInv, Linked, Firsts, FirstSet, Current, ToFree, heap, links
  <1>8. Placed'
    BY <1>1, <1>2, <1>4 DEF ListInv, TypeOK, Placed
  <1> QED
    BY <1>5, <1>6, <1>7, <1>8 DEF ListInv, Linked

(* A step to the next node.                                                *)
LEMMA InvAdvance ==
  ASSUME ListInv, NEW h \in Handles, GetNext(h), next[data[h]] # Null
  PROVE  ListInv'
  <1>1. /\ at = "idle" /\ data[h] # Null
        /\ data' = [data EXCEPT ![h] = next[@]]
        /\ pos' = [pos EXCEPT ![h] = @ + 1]
        /\ UNCHANGED <<heap, at, of, node, head, list, doomed, reach>>
    BY DEF GetNext
  <1>2. list[h] # <<>> /\ pos[h] \in 1..Len(list[h]) /\ data[h] = list[h][pos[h]]
    BY <1>1 DEF ListInv, Placed
  <1>3. list[h] \in Seq(Nodes)
    BY DEF ListInv, TypeOK
  <1>4. pos[h] < Len(list[h]) /\ next[data[h]] = list[h][pos[h] + 1]
    BY <1>2, <1>3 DEF ListInv, Linked, Forward
  <1>5. pos[h] + 1 \in 1..Len(list[h]) /\ next[data[h]] \in Nodes
    BY <1>2, <1>3, <1>4
  <1>6. TypeOK'
    BY <1>1, <1>5 DEF ListInv, TypeOK, Pointers, heap, links
  <1>7. Forward' /\ Backward' /\ Apart' /\ Allocated'
    BY <1>1, SameHeap
  <1>8. Firsts' /\ Current' /\ ToFree'
    BY <1>1 DEF ListInv, Linked, Firsts, FirstSet, Current, ToFree, heap, links
  <1>9. Placed'
    BY <1>1, <1>2, <1>4, <1>5 DEF ListInv, TypeOK, Placed
  <1> QED
    BY <1>6, <1>7, <1>8, <1>9 DEF ListInv, Linked

(* A list that is about to be freed is no one's any more.                  *)
LEMMA InvStartFree ==
  ASSUME ListInv, NEW h \in Handles, at = "idle", data[h] # Null, StartFree(h)
  PROVE  ListInv'
  <1>1. /\ node' = first[data[h]] /\ at' = "free"
        /\ data' = [data EXCEPT ![h] = Null]
        /\ doomed' = list[h]
        /\ list' = [list EXCEPT ![h] = <<>>]
        /\ pos' = [pos EXCEPT ![h] = 0]
        /\ UNCHANGED <<heap, of, head, reach>>
    BY DEF StartFree
  <1>2. list[h] # <<>> /\ pos[h] \in 1..Len(list[h]) /\ data[h] = list[h][pos[h]]
    BY DEF ListInv, Placed
  <1>3. list[h] \in Seq(Nodes) /\ <<>> \in Seq(Nodes) /\ Len(<<>>) = 0
    BY DEF ListInv, TypeOK
  <1>4. first[data[h]] = list[h][1] /\ list[h][1] \in Nodes
    BY <1>2, <1>3, Elements DEF ListInv, Linked, Firsts, FirstSet
  <1>5. /\ list'[h] = <<>> /\ Len(list'[h]) = 0
        /\ \A k \in Handles : k # h => list'[k] = list[k]
    BY <1>1, <1>3 DEF ListInv, TypeOK
  <1>6. TypeOK'
    BY <1>1, <1>3, <1>4 DEF ListInv, TypeOK, Pointers, heap, links
  <1>7. Linked'
    BY <1>1, <1>5 DEF ListInv, Linked, Forward, Backward, Firsts, FirstSet, heap, links
  <1>8. Apart'
    BY <1>1, <1>5 DEF ListInv, Apart
  <1>9. Allocated'
    <2>1. doomed = <<>> /\ ~\E n \in Nodes : In(n, doomed)
      BY <1>3 DEF ListInv, ToFree, In
    <2>2. live' = live
      BY <1>1 DEF heap
    <2>3. ASSUME NEW n \in Nodes
          PROVE  (In(n, doomed) \/ \E k \in Handles : In(n, list[k]))
                   <=> (In(n, doomed') \/ \E k \in Handles : In(n, list'[k]))
      BY <1>1, <1>5, <2>1 DEF In
    <2> QED
      BY <2>2, <2>3 DEF ListInv, Allocated, In
  <1>10. Placed'
    BY <1>1, <1>5 DEF ListInv, TypeOK, Placed
  <1>11. Current' /\ ToFree'
    BY <1>1, <1>2, <1>4 DEF ListInv, Linked, Forward, Current, ToFree, heap, links
  <1> QED
    BY <1>6, <1>7, <1>8, <1>9, <1>10, <1>11 DEF ListInv

(* A node is freed, and no list held it.                                   *)
LEMMA InvFreeNode ==
  ASSUME ListInv, FreeNode
  PROVE  ListInv'
  <1>1. /\ at = "free"
        /\ live' = live \ {node}
        /\ next' = [next EXCEPT ![node] = Null] /\ prev' = [prev EXCEPT ![node] = Null]
        /\ first' = [first EXCEPT ![node] = Null] /\ item' = [item EXCEPT ![node] = Blank]
        /\ node' = next[node]
        /\ at' = IF node' = Null THEN "idle" ELSE "free"
        /\ doomed' = Tail(doomed)
        /\ UNCHANGED <<data, of, head, list, pos, reach>>
    BY DEF FreeNode, lists
  <1>2. doomed \in Seq(Nodes) /\ doomed # <<>> /\ node = doomed[1] /\ node \in Nodes
    BY <1>1, Elements DEF ListInv, TypeOK, ToFree
  <1>3. /\ doomed' \in Seq(Nodes)
        /\ Len(doomed') = Len(doomed) - 1 /\ Len(doomed) \in Nat \ {0}
        /\ \A i \in 1..Len(doomed) - 1 : doomed'[i] = doomed[i + 1]
    BY <1>1, <1>2, Shortened
  <1>4. \A h \in Handles : \A i \in 1..Len(list[h]) : list[h][i] \in Nodes /\ list[h][i] # node
    BY <1>2, <1>3, Elements DEF ListInv, TypeOK, Apart
  <1>5. node' = IF 1 < Len(doomed) THEN doomed[2] ELSE Null
    BY <1>1, <1>2, <1>3 DEF ListInv, ToFree
  <1>6. \A i \in 1..Len(doomed') : doomed'[i] \in Nodes /\ doomed'[i] # node /\ i + 1 \in 1..Len(doomed)
    BY <1>2, <1>3 DEF ListInv, Apart
  <1>7. TypeOK'
    <2>1. Blank \in Items
      BY ItemsAssumption DEF Blank
    <2>2. node' \in Pointers
      BY <1>2, <1>3, <1>5 DEF Pointers
    <2> QED
      BY <1>1, <1>2, <1>3, <2>1, <2>2 DEF ListInv, TypeOK, Pointers
  <1>8. /\ \A h \in Handles : \A i \in 1..Len(list[h]) :
             /\ next'[list[h][i]] = next[list[h][i]]
             /\ prev'[list[h][i]] = prev[list[h][i]]
             /\ first'[list[h][i]] = first[list[h][i]]
    BY <1>1, <1>4 DEF ListInv, TypeOK
  <1>9. Linked'
    BY <1>1, <1>8 DEF ListInv, Linked, Forward, Backward, Firsts, FirstSet
  <1>10. Apart'
    BY <1>1, <1>3, <1>6 DEF ListInv, Apart
  <1>11. Allocated'
    <2>1. ASSUME NEW n \in Nodes
          PROVE  In(n, doomed) <=> (n = node \/ In(n, doomed'))
      <3>1. ASSUME NEW i \in 1..Len(doomed), i # 1
            PROVE  i - 1 \in 1..Len(doomed') /\ doomed'[i - 1] = doomed[i]
        BY <1>3, <3>1
      <3> QED
        BY <1>2, <1>3, <1>6, <3>1 DEF In
    <2>2. ~In(node, doomed')
      BY <1>6 DEF In
    <2>3. \A h \in Handles : ~In(node, list[h])
      BY <1>4 DEF In
    <2> QED
      BY <1>1, <2>1, <2>2, <2>3 DEF ListInv, Allocated, In
  <1>12. Placed'
    BY <1>1 DEF ListInv, Placed
  <1>13. Current' /\ ToFree'
    <2>1. ASSUME node' # Null
          PROVE  doomed' # <<>> /\ node' = doomed'[1]
      BY <1>3, <1>5, <2>1
    <2>2. ASSUME NEW i \in 1..Len(doomed')
          PROVE  next'[doomed'[i]] = IF i < Len(doomed') THEN doomed'[i + 1] ELSE Null
      <3>1. i + 1 \in 1..Len(doomed) /\ doomed'[i] = doomed[i + 1]
        BY <1>3, <1>6
      <3>2. next'[doomed'[i]] = next[doomed[i + 1]]
        BY <1>1, <1>6, <3>1 DEF ListInv, TypeOK
      <3>3. next[doomed[i + 1]] = IF i + 1 < Len(doomed) THEN doomed[i + 2] ELSE Null
        BY <1>1, <3>1 DEF ListInv, ToFree
      <3>4. i < Len(doomed') => doomed'[i + 1] = doomed[i + 2]
        BY <1>3
      <3> QED
        BY <1>3, <3>2, <3>3, <3>4
    <2>3. node' = Null => doomed' = <<>>
      <3>1. 1 < Len(doomed) => doomed[2] # Null
        BY <1>2, Elements
      <3> QED
        BY <1>3, <1>5, <3>1, Elements
    <2> QED
      BY <1>1, <2>1, <2>2, <2>3 DEF Current, ToFree
  <1> QED
    BY <1>7, <1>9, <1>10, <1>11, <1>12, <1>13 DEF ListInv

(* The first list takes over the second where it stands.                   *)
LEMMA InvConcatenateToNothing ==
  ASSUME ListInv, NEW a \in Handles, NEW b \in Handles, ConcatenateToNothing(a, b)
  PROVE  ListInv'
  <1>1. /\ at = "idle" /\ data[a] = Null /\ data[b] # Null /\ a # b
        /\ data' = [data EXCEPT ![a] = data[b], ![b] = Null]
        /\ list' = [list EXCEPT ![a] = list[b], ![b] = <<>>]
        /\ pos' = [pos EXCEPT ![a] = pos[b], ![b] = 0]
        /\ UNCHANGED <<heap, at, of, node, head, doomed, reach>>
    BY DEF ConcatenateToNothing
  <1>2. list[a] = <<>> /\ list[b] # <<>>
    <2>1. list[a] \in Seq(Nodes) /\ list[b] \in Seq(Nodes)
      BY DEF ListInv, TypeOK
    <2>2. list[a] # <<>> => data[a] # Null
      BY <2>1, Elements DEF ListInv, Placed
    <2> QED
      BY <1>1, <2>2 DEF ListInv, Placed
  <1>3. <<>> \in Seq(Nodes) /\ Len(<<>>) = 0
    OBVIOUS
  <1>4. /\ list'[a] = list[b] /\ list'[b] = <<>> /\ Len(list'[b]) = 0
        /\ \A k \in Handles : k # a /\ k # b => list'[k] = list[k]
    BY <1>1, <1>3 DEF ListInv, TypeOK
  <1>5. TypeOK'
    BY <1>1, <1>3 DEF ListInv, TypeOK, Pointers, heap, links
  <1> DEFINE from(k) == IF k = a THEN b ELSE k
  <1>41. /\ \A k \in Handles : from(k) \in Handles
         /\ \A k \in Handles : Len(list'[k]) # 0 => k # b /\ list'[k] = list[from(k)]
         /\ \A k, m \in Handles : k # b /\ m # b /\ from(k) = from(m) => k = m
    BY <1>4
  <1>42. \A k \in Handles : \A i \in 1..Len(list'[k]) : Len(list'[k]) # 0
    OBVIOUS
  <1>43. \A k \in Handles : \A i \in 1..Len(list'[k]) :
           k # b /\ list'[k] = list[from(k)] /\ i \in 1..Len(list[from(k)])
    BY <1>41, <1>42
  <1> HIDE DEF from
  <1>6. Linked'
    <2>1. ASSUME NEW k \in Handles, NEW i \in 1..Len(list[k])
          PROVE  /\ next[list[k][i]] = IF i < Len(list[k]) THEN list[k][i + 1] ELSE Null
                 /\ prev[list[k][i]] = IF i > 1 THEN list[k][i - 1] ELSE Null
                 /\ first[list[k][i]] = list[k][1]
      BY <1>1 DEF ListInv, Linked, Forward, Backward, Firsts, FirstSet
    <2>2. ASSUME NEW k \in Handles, NEW i \in 1..Len(list'[k])
          PROVE  /\ next[list'[k][i]] = IF i < Len(list'[k]) THEN list'[k][i + 1] ELSE Null
                 /\ prev[list'[k][i]] = IF i > 1 THEN list'[k][i - 1] ELSE Null
                 /\ first[list'[k][i]] = list'[k][1]
      <3>1. list'[k] = list[from(k)] /\ i \in 1..Len(list[from(k)]) /\ from(k) \in Handles
        BY <1>41, <1>43
      <3> QED
        BY <2>1, <3>1
    <2> QED
      BY <1>1, <2>2 DEF Linked, Forward, Backward, Firsts, heap, links
  <1>7. Apart'
    <2>1. ASSUME NEW k \in Handles, NEW m \in Handles,
                 NEW i \in 1..Len(list'[k]), NEW j \in 1..Len(list'[m]), list'[k][i] = list'[m][j]
          PROVE  k = m /\ i = j
      BY <1>41, <1>43, <2>1 DEF ListInv, Apart
    <2>2. \A k \in Handles : \A i \in 1..Len(list'[k]), j \in 1..Len(doomed) :
            list'[k][i] # doomed[j]
      BY <1>41, <1>43 DEF ListInv, Apart
    <2>3. \A i, j \in 1..Len(doomed) : doomed[i] = doomed[j] => i = j
      BY DEF ListInv, Apart
    <2>4. doomed' = doomed
      BY <1>1
    <2> QED
      BY <2>1, <2>2, <2>3, <2>4 DEF Apart
  <1>8. Allocated'
    <2>1. ASSUME NEW n \in Nodes
          PROVE  (\E k \in Handles : In(n, list[k])) <=> (\E k \in Handles : In(n, list'[k]))
      <3>1. ~In(n, list[a]) /\ ~In(n, list'[b])
        BY <1>2, <1>3, <1>4 DEF In
      <3> QED
        BY <1>4, <3>1
    <2> QED
      BY <1>1, <2>1 DEF ListInv, Allocated, In, heap
  <1>9. Placed'
    BY <1>1, <1>2, <1>4 DEF ListInv, TypeOK, Placed
  <1>10. Current' /\ ToFree'
    BY <1>1 DEF ListInv, Current, ToFree, heap, links
  <1> QED
    BY <1>5, <1>6, <1>7, <1>8, <1>9, <1>10 DEF ListInv

(* Setting out for the last node.                                          *)
LEMMA InvConcatenate ==
  ASSUME ListInv, NEW a \in Handles, NEW b \in Handles, Concatenate(a, b)
  PROVE  ListInv'
  <1>1. /\ at = "idle" /\ a # b /\ data[a] # Null /\ data[b] # Null
        /\ at' = "walk" /\ of' = <<a, b>>
        /\ head' = first[data[a]] /\ node' = data[a]
        /\ reach' = pos[a]
        /\ UNCHANGED <<data, heap, list, pos, doomed>>
    BY DEF Concatenate, lists
  <1>2. /\ list[a] # <<>> /\ pos[a] \in 1..Len(list[a]) /\ data[a] = list[a][pos[a]]
        /\ list[b] # <<>>
    BY <1>1 DEF ListInv, Placed
  <1>3. list[a] \in Seq(Nodes) /\ pos[a] \in Nat
    BY DEF ListInv, TypeOK
  <1>4. first[data[a]] = list[a][1] /\ list[a][1] \in Nodes /\ data[a] \in Nodes
    BY <1>1, <1>2, <1>3, Elements DEF ListInv, Linked, Firsts, FirstSet
  <1>5. TypeOK'
    BY <1>1, <1>3, <1>4 DEF ListInv, TypeOK, Pointers, heap, links
  <1>6. Forward' /\ Backward' /\ Apart' /\ Allocated'
    BY <1>1, SameHeap
  <1>7. Firsts' /\ Placed' /\ ToFree'
    BY <1>1 DEF ListInv, Linked, Firsts, FirstSet, Placed, ToFree, heap, links
  <1>8. Current'
    BY <1>1, <1>2, <1>4 DEF Current
  <1> QED
    BY <1>5, <1>6, <1>7, <1>8 DEF ListInv, Linked

(* On the way there.                                                       *)
LEMMA InvWalk ==
  ASSUME ListInv, Walk
  PROVE  ListInv'
  <1>1. /\ at = "walk" /\ next[node] # Null
        /\ node' = next[node] /\ reach' = reach + 1
        /\ UNCHANGED <<data, heap, at, of, head, list, pos, doomed>>
    BY DEF Walk, IsLast, lists
  <1>2. of[1] \in Handles /\ list[of[1]] \in Seq(Nodes)
    BY DEF ListInv, TypeOK
  <1>3. reach \in 1..Len(list[of[1]]) /\ node = list[of[1]][reach]
    BY <1>1 DEF ListInv, Current
  <1>4. reach < Len(list[of[1]]) /\ node' = list[of[1]][reach + 1]
    BY <1>1, <1>2, <1>3 DEF ListInv, Linked, Forward
  <1>5. reach + 1 \in 1..Len(list[of[1]]) /\ node' \in Nodes
    BY <1>2, <1>3, <1>4
  <1>6. TypeOK'
    BY <1>1, <1>5 DEF ListInv, TypeOK, Pointers, heap, links
  <1>7. Forward' /\ Backward' /\ Apart' /\ Allocated'
    BY <1>1, SameHeap
  <1>8. Firsts' /\ Placed' /\ ToFree'
    BY <1>1 DEF ListInv, Linked, Firsts, FirstSet, Placed, ToFree, heap, links
  <1>9. Current'
    BY <1>1, <1>4, <1>5 DEF ListInv, Current
  <1> QED
    BY <1>6, <1>7, <1>8, <1>9 DEF ListInv, Linked

(* The node in whose list first pointers are set is the first of it.       *)
LEMMA InvBack ==
  ASSUME ListInv, Back
  PROVE  ListInv'
  <1>1. at = "back" /\ UNCHANGED <<data, heap, of, list, pos, doomed, reach>>
    BY DEF Back, lists
  <1>2. of[1] \in Handles /\ list[of[1]] \in Seq(Nodes)
    BY DEF ListInv, TypeOK
  <1>3. reach = 1 /\ 1 \in 1..Len(list[of[1]]) /\ node = list[of[1]][1]
    BY <1>1 DEF ListInv, Current
  <1>4. prev[node] = Null
    BY <1>2, <1>3 DEF ListInv, Linked, Backward
  <1>5. at' = "refirst" /\ head' = node /\ node' = node
    BY <1>4 DEF Back
  <1>6. TypeOK'
    BY <1>1, <1>5 DEF ListInv, TypeOK, heap, links
  <1>7. Forward' /\ Backward' /\ Apart' /\ Allocated'
    BY <1>1, SameHeap
  <1>8. Firsts' /\ Placed' /\ ToFree'
    <2>1. Firsts'
      BY <1>1, <1>5 DEF ListInv, Linked, Firsts, FirstSet, heap, links
    <2>2. Placed'
      BY <1>1 DEF ListInv, Placed
    <2>3. Len(doomed) = 1
      BY <1>1 DEF ListInv, ToFree
    <2>4. ToFree'
      BY <1>1, <1>5, <2>3 DEF ToFree
    <2> QED
      BY <2>1, <2>2, <2>4
  <1>9. Current'
    BY <1>1, <1>3, <1>5 DEF ListInv, Current
  <1> QED
    BY <1>6, <1>7, <1>8, <1>9 DEF ListInv, Linked

(* One more node knows the first of its list.                              *)
LEMMA InvRefirst ==
  ASSUME ListInv, Refirst
  PROVE  ListInv'
  <1>1. /\ at = "refirst"
        /\ first' = [first EXCEPT ![node] = head]
        /\ node' = next[node]
        /\ IF node' # Null
             THEN at' = "refirst" /\ reach' = reach + 1 /\ UNCHANGED head
             ELSE /\ at' = IF doomed # <<>> THEN "dispose" ELSE "idle"
                  /\ reach' = 0 /\ head' = Null
        /\ UNCHANGED <<data, next, prev, item, live, of, list, pos, doomed>>
    BY DEF Refirst, lists
  <1> DEFINE h == of[1]
  <1>2. h \in Handles /\ list[h] \in Seq(Nodes) /\ doomed \in Seq(Nodes)
    BY DEF ListInv, TypeOK
  <1>3. reach \in 1..Len(list[h]) /\ node = list[h][reach] /\ head = list[h][1]
    BY <1>1 DEF ListInv, Current
  <1>4. node \in Nodes /\ head \in Nodes /\ Len(list[h]) \in Nat
    BY <1>2, <1>3, Elements
  <1>5. node' = IF reach < Len(list[h]) THEN list[h][reach + 1] ELSE Null
    BY <1>1, <1>2, <1>3 DEF ListInv, Linked, Forward
  <1>6. node' # Null <=> reach < Len(list[h])
    BY <1>2, <1>3, <1>4, <1>5, Elements
  <1>7. TypeOK'
    <2>1. node' \in Pointers
      BY <1>2, <1>3, <1>4, <1>5, Elements DEF Pointers
    <2>2. at' \in {"idle", "refirst", "dispose"} /\ reach' \in Nat /\ head' \in Pointers
      BY <1>1, <1>3, <1>4 DEF Pointers
    <2>3. first' \in [Nodes -> Pointers]
      BY <1>1, <1>4 DEF ListInv, TypeOK, Pointers
    <2> QED
      BY <1>1, <2>1, <2>2, <2>3 DEF ListInv, TypeOK
  <1>8. Forward' /\ Backward' /\ Apart' /\ Allocated'
    <2>1. Forward' /\ Backward'
      BY <1>1 DEF ListInv, Linked, Forward, Backward
    <2>2. Apart'
      BY <1>1 DEF ListInv, Apart
    <2>3. Allocated'
      BY <1>1 DEF ListInv, Allocated, In
    <2> QED
      BY <2>1, <2>2, <2>3
  <1>9. Firsts'
    <2> SUFFICES ASSUME NEW k \in Handles, NEW i \in 1..Len(list[k]), i <= FirstSet(k)'
                 PROVE  first'[list[k][i]] = list[k][1]
      BY <1>1 DEF Firsts
    <2>1. list[k] \in Seq(Nodes) /\ list[k][i] \in Nodes
      BY Elements DEF ListInv, TypeOK
    <2>2. CASE k # h
      <3>1. list[k][i] # node
        BY <1>2, <1>3, <2>2 DEF ListInv, Apart
      <3>2. first[list[k][i]] = list[k][1]
        BY <2>2 DEF ListInv, Linked, Firsts, FirstSet
      <3> QED
        BY <1>1, <1>4, <2>1, <3>1, <3>2 DEF ListInv, TypeOK
    <2>3. CASE k = h /\ i = reach
      BY <1>1, <1>3, <1>4, <2>3 DEF ListInv, TypeOK
    <2>4. CASE k = h /\ i # reach
      <3>1. list[k][i] # node
        BY <1>2, <1>3, <2>4 DEF ListInv, Apart
      <3>2. i <= reach
        BY <1>1, <1>3, <1>4, <1>6, <2>4 DEF FirstSet
      <3>3. first[list[k][i]] = list[k][1]
        BY <1>1, <1>3, <1>4, <2>4, <3>2 DEF ListInv, Linked, Firsts, FirstSet
      <3> QED
        BY <1>1, <1>4, <2>1, <3>1, <3>3 DEF ListInv, TypeOK
    <2> QED
      BY <2>2, <2>3, <2>4
  <1>10. Placed'
    BY <1>1 DEF ListInv, Placed
  <1>11. Current'
    BY <1>1, <1>3, <1>4, <1>5, <1>6 DEF ListInv, Current
  <1>12. ToFree'
    <2>1. doomed = <<>> \/ Len(doomed) = 1
      <3>1. Len(doomed) <= 1
        BY <1>1, <1>2 DEF ListInv, ToFree
      <3>2. doomed \in Seq(Nodes)
        BY DEF ListInv, TypeOK
      <3>3. Len(doomed) \in Nat /\ (doomed = <<>> <=> Len(doomed) = 0)
        BY <3>2, Elements
      <3>4. \A x \in Nat : x <= 1 => x = 0 \/ x = 1
        OBVIOUS
      <3> QED
        BY <3>1, <3>3, <3>4
    <2>2. Len(doomed) <= 1
      BY <1>1 DEF ListInv, ToFree
    <2> QED
      BY <1>1, <2>1, <2>2 DEF ToFree
  <1> QED
    BY <1>7, <1>8, <1>9, <1>10, <1>11, <1>12 DEF ListInv, Linked

(* The node that was taken out is made a list of its own.                  *)
LEMMA InvDispose ==
  ASSUME ListInv, Dispose
  PROVE  ListInv'
  <1> DEFINE n == doomed[1]
  <1>1. /\ at = "dispose"
        /\ next' = [next EXCEPT ![n] = Null] /\ prev' = [prev EXCEPT ![n] = Null]
        /\ first' = [first EXCEPT ![n] = n]
        /\ at' = "free" /\ node' = n
        /\ UNCHANGED <<data, item, live, of, head, list, pos, doomed, reach>>
    BY DEF Dispose, lists
  <1>2. Len(doomed) = 1 /\ doomed \in Seq(Nodes) /\ n \in Nodes /\ doomed # <<>>
    <2>1. Len(doomed) = 1 /\ doomed \in Seq(Nodes)
      BY <1>1 DEF ListInv, TypeOK, ToFree
    <2> QED
      <3>1. 1 \in 1..Len(doomed)
        BY <2>1
      <3> QED
        BY <2>1, <3>1, Elements
  <1>3. \A h \in Handles : \A i \in 1..Len(list[h]) : list[h][i] \in Nodes /\ list[h][i] # n
    BY <1>2, Elements DEF ListInv, TypeOK, Apart
  <1>4. \A h \in Handles : \A i \in 1..Len(list[h]) :
          /\ next'[list[h][i]] = next[list[h][i]]
          /\ prev'[list[h][i]] = prev[list[h][i]]
          /\ first'[list[h][i]] = first[list[h][i]]
    BY <1>1, <1>3 DEF ListInv, TypeOK
  <1>5. TypeOK'
    BY <1>1, <1>2 DEF ListInv, TypeOK, Pointers
  <1>6. Linked'
    BY <1>1, <1>4 DEF ListInv, Linked, Forward, Backward, Firsts, FirstSet
  <1>7. Apart' /\ Allocated' /\ Placed'
    BY <1>1 DEF ListInv, Apart, Allocated, Placed, In
  <1>8. Current' /\ ToFree'
    BY <1>1, <1>2 DEF ListInv, TypeOK, Current, ToFree
  <1> QED
    BY <1>5, <1>6, <1>7, <1>8 DEF ListInv

(* A new node, behind the last one of its list.                            *)
LEMMA InvAppendItem ==
  ASSUME ListInv, NEW h \in Handles, NEW x \in Items, AppendItem(h, x)
  PROVE  ListInv'
  <1> DEFINE L == list[h]
  <1>1. PICK n \in Nodes \ live :
          /\ live' = live \cup {n}
          /\ item' = [item EXCEPT ![n] = x]
          /\ next' = IF data[h] = Null THEN [next EXCEPT ![n] = Null]
                     ELSE [next EXCEPT ![data[h]] = n, ![n] = Null]
          /\ prev' = [prev EXCEPT ![n] = data[h]]
          /\ first' = [first EXCEPT ![n] = IF data[h] = Null THEN n ELSE first[data[h]]]
          /\ data' = [data EXCEPT ![h] = n]
          /\ list' = [list EXCEPT ![h] = Append(@, n)]
          /\ pos' = [pos EXCEPT ![h] = @ + 1]
    BY DEF AppendItem
  <1>2. /\ at = "idle" /\ (data[h] # Null => next[data[h]] = Null)
        /\ UNCHANGED <<at, of, node, head, doomed, reach>>
    BY DEF AppendItem
  <1>3. L \in Seq(Nodes) /\ Len(L) \in Nat /\ (L = <<>> <=> Len(L) = 0)
    BY Elements DEF ListInv, TypeOK
  <1>4. \A k \in Handles : \A i \in 1..Len(list[k]) : list[k][i] \in Nodes /\ list[k][i] # n
    BY <1>1, Elements DEF ListInv, TypeOK, Allocated, In
  <1>5. pos[h] = Len(L) /\ (IF L = <<>> THEN data[h] = Null ELSE data[h] = L[Len(L)] /\ data[h] # Null)
    <2>1. CASE L = <<>>
      BY <1>3, <2>1 DEF ListInv, Placed
    <2>2. CASE L # <<>>
      <3>1. pos[h] \in 1..Len(L) /\ data[h] = L[pos[h]]
        BY <2>2 DEF ListInv, Placed
      <3>2. data[h] # Null /\ next[data[h]] = Null
        BY <1>2, <1>3, <3>1, Elements
      <3>3. ~(pos[h] < Len(L))
        <4>1. pos[h] < Len(L) => next[data[h]] = L[pos[h] + 1] /\ pos[h] + 1 \in 1..Len(L)
          BY <1>3, <3>1 DEF ListInv, Linked, Forward
        <4> QED
          BY <1>3, <3>2, <4>1, Elements
      <3> QED
        BY <1>3, <2>2, <3>1, <3>2, <3>3
    <2> QED
      BY <2>1, <2>2
  <1>6. /\ list'[h] \in Seq(Nodes) /\ Len(list'[h]) = Len(L) + 1
        /\ \A i \in 1..Len(L) : list'[h][i] = L[i]
        /\ list'[h][Len(L) + 1] = n
        /\ \A m : In(m, list'[h]) <=> m = n \/ In(m, L)
        /\ \A k \in Handles : k # h => list'[k] = list[k]
    <2>1. list'[h] = Append(L, n) /\ \A k \in Handles : k # h => list'[k] = list[k]
      BY <1>1 DEF ListInv, TypeOK
    <2> QED
      BY <1>3, <2>1, Appended
  <1>7. /\ next'[n] = Null /\ prev'[n] = data[h] /\ first'[n] = list'[h][1]
        /\ L # <<>> => next'[L[Len(L)]] = n
    <2>1. next \in [Nodes -> Pointers] /\ prev \in [Nodes -> Pointers] /\ first \in [Nodes -> Pointers]
      BY DEF ListInv, TypeOK
    <2>2. CASE L = <<>>
      BY <1>1, <1>3, <1>5, <1>6, <2>1, <2>2
    <2>3. CASE L # <<>>
      <3>1. Len(L) \in 1..Len(L) /\ 1 \in 1..Len(L) /\ data[h] \in Nodes /\ data[h] # n
        BY <1>3, <1>4, <1>5, <2>3
      <3>2. first[data[h]] = L[1]
        BY <1>2, <1>5, <2>3, <3>1 DEF ListInv, Linked, Firsts, FirstSet
      <3> QED
        BY <1>1, <1>5, <1>6, <2>1, <2>3, <3>1, <3>2
    <2> QED
      BY <2>2, <2>3
  <1>8. \A m \in Nodes : m # n =>
          /\ prev'[m] = prev[m] /\ first'[m] = first[m]
          /\ m # data[h] => next'[m] = next[m]
    BY <1>1 DEF ListInv, TypeOK
  <1>9. TypeOK'
    <2>1. data[h] \in Pointers /\ n \in Pointers /\ Null \in Pointers
      BY DEF ListInv, TypeOK, Pointers
    <2>2. data[h] = Null \/ data[h] \in Nodes
      BY <2>1 DEF Pointers
    <2>3. next' \in [Nodes -> Pointers] /\ prev' \in [Nodes -> Pointers] /\ item' \in [Nodes -> Items]
      BY <1>1, <2>1 DEF ListInv, TypeOK
    <2>4. (IF data[h] = Null THEN n ELSE first[data[h]]) \in Pointers
      BY <2>1, <2>2 DEF ListInv, TypeOK
    <2>5. first' \in [Nodes -> Pointers] /\ data' \in [Handles -> Pointers]
      BY <1>1, <2>1, <2>4 DEF ListInv, TypeOK
    <2>6. list' \in [Handles -> Seq(Nodes)] /\ pos' \in [Handles -> Nat]
      BY <1>1, <1>6 DEF ListInv, TypeOK
    <2> QED
      BY <1>1, <1>2, <2>3, <2>5, <2>6 DEF ListInv, TypeOK
  <1>10. Linked'
    <2>1. ASSUME NEW k \in Handles, NEW i \in 1..Len(list[k]), ~(k = h /\ i = Len(L))
          PROVE  list[k][i] # data[h]
      <3>1. L # <<>> => Len(L) \in 1..Len(L)
        BY <1>3
      <3> QED
        BY <1>4, <1>5, <2>1, <3>1, NodesAssumption DEF ListInv, Apart
    <2>2. ASSUME NEW k \in Handles, NEW i \in 1..Len(list[k])
          PROVE  /\ next[list[k][i]] = IF i < Len(list[k]) THEN list[k][i + 1] ELSE Null
                 /\ prev[list[k][i]] = IF i > 1 THEN list[k][i - 1] ELSE Null
                 /\ first[list[k][i]] = list[k][1]
      BY <1>2 DEF ListInv, Linked, Forward, Backward, Firsts, FirstSet
    <2>3. ASSUME NEW k \in Handles, NEW i \in 1..Len(list'[k])
          PROVE  /\ next'[list'[k][i]] = IF i < Len(list'[k]) THEN list'[k][i + 1] ELSE Null
                 /\ prev'[list'[k][i]] = IF i > 1 THEN list'[k][i - 1] ELSE Null
                 /\ first'[list'[k][i]] = list'[k][1]
      <3>1. CASE k # h
        <4>1. list'[k] = list[k] /\ i \in 1..Len(list[k])
          BY <1>6, <3>1
        <4>2. list[k][i] \in Nodes /\ list[k][i] # n /\ list[k][i] # data[h]
          BY <1>4, <2>1, <3>1, <4>1
        <4>3. /\ next'[list[k][i]] = next[list[k][i]]
              /\ prev'[list[k][i]] = prev[list[k][i]]
              /\ first'[list[k][i]] = first[list[k][i]]
          BY <1>8, <4>2
        <4> QED
          BY <2>2, <4>1, <4>3
      <3>2. CASE k = h /\ i = Len(L) + 1
        <4>1. list'[k][i] = n /\ ~(i < Len(list'[k]))
          BY <1>3, <1>6, <3>2
        <4>2. IF i > 1 THEN data[h] = list'[k][i - 1] ELSE data[h] = Null
          BY <1>3, <1>5, <1>6, <3>2
        <4> QED
          BY <1>7, <3>2, <4>1, <4>2
      <3>3. CASE k = h /\ i # Len(L) + 1
        <4>1. i \in 1..Len(L) /\ list'[h][i] = L[i] /\ L[i] \in Nodes /\ L[i] # n /\ L # <<>>
          BY <1>3, <1>4, <1>6, <3>3
        <4>2. 1 \in 1..Len(L) /\ list'[h][1] = L[1] /\ (i > 1 => list'[h][i - 1] = L[i - 1])
          BY <1>3, <1>6, <4>1
        <4>3. prev'[L[i]] = prev[L[i]] /\ first'[L[i]] = first[L[i]]
          BY <1>8, <4>1
        <4>4. next'[L[i]] = list'[h][i + 1] /\ i < Len(list'[h])
          <5>1. CASE i = Len(L)
            BY <1>3, <1>6, <1>7, <4>1, <5>1
          <5>2. CASE i < Len(L)
            <6>1. i + 1 \in 1..Len(L) /\ L[i] # data[h]
              BY <1>3, <2>1, <4>1, <5>2
            <6>2. next[L[i]] = L[i + 1]
              BY <2>2, <4>1, <5>2
            <6>3. list'[h][i + 1] = L[i + 1] /\ i < Len(list'[h])
              BY <1>3, <1>6, <5>2, <6>1
            <6>4. next'[L[i]] = next[L[i]]
              BY <1>8, <4>1, <6>1
            <6> QED
              BY <6>2, <6>3, <6>4
          <5> QED
            BY <1>3, <4>1, <5>1, <5>2
        <4> QED
          BY <2>2, <3>3, <4>1, <4>2, <4>3, <4>4
      <3> QED
        BY <3>1, <3>2, <3>3
    <2> QED
      BY <2>3 DEF Linked, Forward, Backward, Firsts
  <1>11. Apart'
    <2>1. ~\E j \in 1..Len(doomed) : TRUE
      BY <1>2 DEF ListInv, ToFree
    <2>2. ASSUME NEW k \in Handles, NEW i \in 1..Len(list'[k])
          PROVE  \/ k = h /\ i = Len(L) + 1 /\ list'[k][i] = n
                 \/ i \in 1..Len(list[k]) /\ list'[k][i] = list[k][i] /\ list[k][i] # n
      BY <1>3, <1>4, <1>6
    <2>3. ASSUME NEW k \in Handles, NEW m \in Handles,
                 NEW i \in 1..Len(list'[k]), NEW j \in 1..Len(list'[m]), list'[k][i] = list'[m][j]
          PROVE  k = m /\ i = j
      <3>1. \/ k = h /\ i = Len(L) + 1 /\ list'[k][i] = n
            \/ i \in 1..Len(list[k]) /\ list'[k][i] = list[k][i] /\ list[k][i] # n
        BY <2>2
      <3>2. \/ m = h /\ j = Len(L) + 1 /\ list'[m][j] = n
            \/ j \in 1..Len(list[m]) /\ list'[m][j] = list[m][j] /\ list[m][j] # n
        BY <2>2
      <3>3. CASE list'[k][i] = n
        BY <2>3, <3>1, <3>2, <3>3
      <3>4. CASE list'[k][i] # n
        <4>1. i \in 1..Len(list[k]) /\ j \in 1..Len(list[m]) /\ list[k][i] = list[m][j]
          BY <2>3, <3>1, <3>2, <3>4
        <4> QED
          BY <4>1 DEF ListInv, Apart
      <3> QED
        BY <3>3, <3>4
    <2> QED
      BY <1>2, <2>1, <2>3 DEF Apart
  <1>12. Allocated'
    <2>1. \A m \in Nodes : (\E k \in Handles : In(m, list'[k])) <=> (m = n \/ \E k \in Handles : In(m, list[k]))
      BY <1>6
    <2>2. \A m \in Nodes : In(m, doomed') <=> In(m, doomed)
      BY <1>2
    <2>3. \A m \in Nodes : m \in live <=> (In(m, doomed) \/ \E k \in Handles : In(m, list[k]))
      BY DEF ListInv, Allocated
    <2> QED
      BY <1>1, <2>1, <2>2, <2>3 DEF Allocated, In
  <1>13. Placed'
    <2>1. \A k \in Handles : k # h => data'[k] = data[k] /\ pos'[k] = pos[k]
      BY <1>1 DEF ListInv, TypeOK
    <2>2. data'[h] = n /\ pos'[h] = Len(L) + 1 /\ list'[h] # <<>>
      BY <1>1, <1>3, <1>5, <1>6 DEF ListInv, TypeOK
    <2> QED
      BY <1>3, <1>6, <2>1, <2>2 DEF ListInv, Placed
  <1>14. Current' /\ ToFree'
    BY <1>2 DEF ListInv, Current, ToFree
  <1> QED
    BY <1>9, <1>10, <1>11, <1>12, <1>13, <1>14 DEF ListInv

(* The second list follows the first one.                                  *)
LEMMA InvLink ==
  ASSUME ListInv, Link
  PROVE  ListInv'
  <1>0. PICK a \in Handles, b \in Handles : of[1] = a /\ of[2] = b
    BY DEF ListInv, TypeOK
  <1> DEFINE A == list[a]
             B == list[b]
             second == first[data[b]]
  <1>1. /\ at = "walk" /\ next[node] = Null
        /\ next' = [next EXCEPT ![node] = second]
        /\ prev' = [prev EXCEPT ![second] = node]
        /\ at' = "refirst" /\ node' = second
        /\ reach' = Len(A) + 1
        /\ data' = [data EXCEPT ![a] = head, ![b] = Null]
        /\ list' = [list EXCEPT ![a] = @ \o B, ![b] = <<>>]
        /\ pos' = [pos EXCEPT ![a] = 1, ![b] = 0]
        /\ UNCHANGED <<first, item, live, of, head, doomed>>
    BY <1>0 DEF Link, IsLast
  <1>2. /\ a # b
        /\ A \in Seq(Nodes) /\ B \in Seq(Nodes)
        /\ reach \in 1..Len(A) /\ node = A[reach] /\ head = A[1] /\ B # <<>>
        /\ doomed = <<>>
    BY <1>0, <1>1 DEF ListInv, TypeOK, Current, ToFree
  <1>3. /\ Len(A) \in Nat \ {0} /\ Len(B) \in Nat \ {0}
        /\ \A i \in 1..Len(A) : A[i] \in Nodes /\ A[i] # Null
        /\ \A i \in 1..Len(B) : B[i] \in Nodes /\ B[i] # Null
    BY <1>2, Elements
  <1>4. reach = Len(A) /\ node = A[Len(A)] /\ node \in Nodes
    <2>1. reach < Len(A) => next[node] = A[reach + 1] /\ reach + 1 \in 1..Len(A)
      BY <1>2, <1>3 DEF ListInv, Linked, Forward
    <2> QED
      BY <1>1, <1>2, <1>3, <2>1
  <1>5. second = B[1] /\ second \in Nodes
    <2>1. pos[b] \in 1..Len(B) /\ data[b] = B[pos[b]]
      BY <1>2 DEF ListInv, Placed
    <2>2. first[B[pos[b]]] = B[1]
      BY <1>1, <1>2, <2>1 DEF ListInv, Linked, Firsts, FirstSet
    <2> QED
      BY <1>3, <2>1, <2>2
  <1>51. A = list[a] /\ B = list[b]
    OBVIOUS
  <1> HIDE DEF A, B, second
  <1>6. /\ list'[a] = A \o B /\ list'[b] = <<>> /\ Len(<<>>) = 0
        /\ \A k \in Handles : k # a /\ k # b => list'[k] = list[k]
        /\ A \o B \in Seq(Nodes)
    BY <1>1, <1>2, <1>51, Joined DEF ListInv, TypeOK
  <1>7. /\ Len(list'[a]) = Len(A) + Len(B)
        /\ \A i \in 1..Len(A) : list'[a][i] = A[i]
        /\ \A i \in 1..Len(B) : list'[a][Len(A) + i] = B[i]
        /\ list'[a][Len(A)] = node /\ list'[a][Len(A) + 1] = second
    <2>1. /\ Len(list'[a]) = Len(A) + Len(B)
          /\ \A i \in 1..Len(A) : list'[a][i] = A[i]
          /\ \A i \in 1..Len(B) : list'[a][Len(A) + i] = B[i]
      BY <1>2, <1>6, Joined
    <2>2. Len(A) \in 1..Len(A) /\ 1 \in 1..Len(B)
      BY <1>3
    <2> QED
      BY <1>4, <1>5, <2>1, <2>2
  <1>8. TypeOK'
    <2>1. next' \in [Nodes -> Pointers] /\ prev' \in [Nodes -> Pointers]
      BY <1>1, <1>4, <1>5 DEF ListInv, TypeOK, Pointers
    <2>2. data' \in [Handles -> Pointers] /\ pos' \in [Handles -> Nat]
      BY <1>1, <1>2, <1>3 DEF ListInv, TypeOK, Pointers
    <2>3. list' \in [Handles -> Seq(Nodes)]
      BY <1>1, <1>2, <1>6, <1>51 DEF ListInv, TypeOK
    <2>4. node' \in Pointers /\ reach' \in Nat
      BY <1>1, <1>3, <1>5 DEF Pointers
    <2> QED
      BY <1>1, <2>1, <2>2, <2>3, <2>4 DEF ListInv, TypeOK
  <1>9. ASSUME NEW k \in Handles, NEW i \in 1..Len(list'[k])
        PROVE  /\ k # b
               /\ \/ k # a /\ list'[k] = list[k]
                  \/ k = a /\ i \in 1..Len(A) /\ list'[k][i] = A[i]
                  \/ k = a /\ i - Len(A) \in 1..Len(B) /\ list'[k][i] = B[i - Len(A)] /\ i > Len(A)
    <2>1. k # b
      BY <1>6
    <2>2. CASE k = a /\ i > Len(A)
      <3>1. i - Len(A) \in 1..Len(B) /\ Len(A) + (i - Len(A)) = i
        BY <1>3, <1>7, <2>2
      <3> QED
        BY <1>7, <2>1, <2>2, <3>1
    <2>3. CASE k = a /\ ~(i > Len(A))
      BY <1>3, <1>7, <2>1, <2>3
    <2> QED
      BY <1>6, <2>1, <2>2, <2>3
  <1>10. ASSUME NEW k \in Handles, NEW i \in 1..Len(list[k])
         PROVE  /\ next[list[k][i]] = IF i < Len(list[k]) THEN list[k][i + 1] ELSE Null
                /\ prev[list[k][i]] = IF i > 1 THEN list[k][i - 1] ELSE Null
                /\ first[list[k][i]] = list[k][1]
                /\ list[k][i] \in Nodes
                /\ (k # a \/ i # Len(A)) => list[k][i] # node
                /\ (k # b \/ i # 1) => list[k][i] # second
    <2>1. list[k][i] \in Nodes
      BY Elements DEF ListInv, TypeOK
    <2>2. /\ (k # a \/ i # Len(A)) => list[k][i] # node
          /\ (k # b \/ i # 1) => list[k][i] # second
      <3>1. Len(A) \in 1..Len(list[a]) /\ 1 \in 1..Len(list[b])
        BY <1>3, <1>51
      <3> QED
        BY <1>2, <1>4, <1>5, <1>51, <3>1 DEF ListInv, Apart
    <2> QED
      BY <1>1, <2>1, <2>2 DEF ListInv, Linked, Forward, Backward, Firsts, FirstSet
  <1>11. \A m \in Nodes : (m # node => next'[m] = next[m]) /\ (m # second => prev'[m] = prev[m])
    BY <1>1 DEF ListInv, TypeOK
  <1>12. next'[node] = second /\ prev'[second] = node
    BY <1>1, <1>4, <1>5 DEF ListInv, TypeOK
  <1>13. Forward'
    <2> SUFFICES ASSUME NEW k \in Handles, NEW i \in 1..Len(list'[k])
                 PROVE  next'[list'[k][i]] = IF i < Len(list'[k]) THEN list'[k][i + 1] ELSE Null
      BY DEF Forward
    <2>1. CASE k # a
      BY <1>9, <1>10, <1>11, <2>1
    <2>2. CASE k = a /\ i < Len(A)
      <3>1. i \in 1..Len(A) /\ i + 1 \in 1..Len(A) /\ i < Len(list'[a]) /\ i # Len(A)
        BY <1>3, <1>7, <2>2
      <3>2. list'[a][i] = A[i] /\ list'[a][i + 1] = A[i + 1]
        BY <1>7, <3>1
      <3>3. next[A[i]] = A[i + 1] /\ A[i] # node /\ A[i] \in Nodes
        BY <1>2, <1>10, <1>51, <2>2, <3>1
      <3> QED
        BY <1>11, <2>2, <3>1, <3>2, <3>3
    <2>3. CASE k = a /\ i = Len(A)
      <3>1. list'[a][i] = node /\ list'[a][i + 1] = second /\ i < Len(list'[a])
        BY <1>3, <1>4, <1>5, <1>7, <2>3
      <3> QED
        BY <1>12, <2>3, <3>1
    <2>4. CASE k = a /\ i > Len(A)
      <3> DEFINE j == i - Len(A)
      <3>1. j \in 1..Len(B) /\ list'[a][i] = B[j] /\ (i < Len(list'[a]) <=> j < Len(B))
        BY <1>3, <1>7, <1>9, <2>4
      <3>2. j < Len(B) => list'[a][i + 1] = B[j + 1]
        <4>1. j < Len(B) => j + 1 \in 1..Len(B)
          BY <1>3, <3>1
        <4>2. j < Len(B) => list'[a][Len(A) + (j + 1)] = B[j + 1]
          BY <1>7, <4>1
        <4>3. Len(A) + (j + 1) = i + 1
          BY <1>3, <1>7
        <4> QED
          BY <4>2, <4>3
      <3>3. next[B[j]] = (IF j < Len(B) THEN B[j + 1] ELSE Null) /\ B[j] # node /\ B[j] \in Nodes
        BY <1>2, <1>10, <1>51, <3>1
      <3> QED
        BY <1>11, <2>4, <3>1, <3>2, <3>3
    <2> QED
      BY <1>3, <2>1, <2>2, <2>3, <2>4
  <1>14. Backward'
    <2> SUFFICES ASSUME NEW k \in Handles, NEW i \in 1..Len(list'[k])
                 PROVE  prev'[list'[k][i]] = IF i > 1 THEN list'[k][i - 1] ELSE Null
      BY DEF Backward
    <2>1. CASE k # a
      BY <1>9, <1>10, <1>11, <2>1
    <2>2. CASE k = a /\ i <= Len(A)
      <3>1. i \in 1..Len(A) /\ list'[a][i] = A[i] /\ (i > 1 => list'[a][i - 1] = A[i - 1])
        BY <1>3, <1>7, <2>2
      <3>2. prev[A[i]] = (IF i > 1 THEN A[i - 1] ELSE Null) /\ A[i] # second /\ A[i] \in Nodes
        BY <1>2, <1>10, <1>51, <3>1
      <3> QED
        BY <1>11, <2>2, <3>1, <3>2
    <2>3. CASE k = a /\ i = Len(A) + 1
      <3>1. list'[a][i] = second /\ list'[a][i - 1] = node /\ i > 1
        BY <1>3, <1>4, <1>5, <1>7, <2>3
      <3> QED
        BY <1>12, <2>3, <3>1
    <2>4. CASE k = a /\ i > Len(A) + 1
      <3> DEFINE j == i - Len(A)
      <3>1. j \in 1..Len(B) /\ list'[a][i] = B[j] /\ j > 1 /\ i > 1
        BY <1>3, <1>7, <1>9, <2>4
      <3>2. list'[a][i - 1] = B[j - 1]
        <4>1. j - 1 \in 1..Len(B) /\ Len(A) + (j - 1) = i - 1
          BY <1>3, <3>1
        <4> QED
          BY <1>7, <4>1
      <3>3. prev[B[j]] = B[j - 1] /\ B[j] # second /\ B[j] \in Nodes
        BY <1>2, <1>10, <1>51, <3>1
      <3> QED
        BY <1>11, <2>4, <3>1, <3>2, <3>3
    <2> QED
      BY <1>3, <2>1, <2>2, <2>3, <2>4
  <1>15. Firsts'
    <2> SUFFICES ASSUME NEW k \in Handles, NEW i \in 1..Len(list'[k]), i <= FirstSet(k)'
                 PROVE  first[list'[k][i]] = list'[k][1]
      BY <1>1 DEF Firsts
    <2>1. CASE k # a
      BY <1>9, <1>10, <2>1
    <2>2. CASE k = a
      <3>1. i \in 1..Len(A) /\ 1 \in 1..Len(A)
        BY <1>0, <1>1, <1>3, <2>2 DEF FirstSet
      <3>2. list'[a][i] = A[i] /\ list'[a][1] = A[1]
        BY <1>7, <3>1
      <3> QED
        BY <1>2, <1>10, <1>51, <2>2, <3>1, <3>2
    <2> QED
      BY <2>1, <2>2
  <1>16. Apart'
    <2>1. \A k, m \in Handles : \A i \in 1..Len(list[k]), j \in 1..Len(list[m]) :
            list[k][i] = list[m][j] => k = m /\ i = j
      BY DEF ListInv, Apart
    <2>2. ASSUME NEW k \in Handles, NEW m \in Handles,
                 NEW i \in 1..Len(list'[k]), NEW j \in 1..Len(list'[m]), list'[k][i] = list'[m][j]
          PROVE  k = m /\ i = j
      <3>1. CASE k # a /\ m # a
        BY <1>9, <2>1, <2>2, <3>1
      <3>2. CASE k = a /\ m # a
        <4>1. m # b /\ list'[m][j] = list[m][j] /\ j \in 1..Len(list[m])
          BY <1>9, <3>2
        <4>2. \/ i \in 1..Len(A) /\ list'[k][i] = A[i]
              \/ i - Len(A) \in 1..Len(B) /\ list'[k][i] = B[i - Len(A)]
          BY <1>9, <3>2
        <4> QED
          BY <1>51, <2>1, <2>2, <3>2, <4>1, <4>2
      <3>3. CASE k # a /\ m = a
        <4>1. k # b /\ list'[k][i] = list[k][i] /\ i \in 1..Len(list[k])
          BY <1>9, <3>3
        <4>2. \/ j \in 1..Len(A) /\ list'[m][j] = A[j]
              \/ j - Len(A) \in 1..Len(B) /\ list'[m][j] = B[j - Len(A)]
          BY <1>9, <3>3
        <4> QED
          BY <1>51, <2>1, <2>2, <3>3, <4>1, <4>2
      <3>4. CASE k = a /\ m = a
        <4>1. \/ i \in 1..Len(A) /\ list'[a][i] = A[i]
              \/ i - Len(A) \in 1..Len(B) /\ list'[a][i] = B[i - Len(A)] /\ i > Len(A)
          BY <1>9, <3>4
        <4>2. \/ j \in 1..Len(A) /\ list'[a][j] = A[j]
              \/ j - Len(A) \in 1..Len(B) /\ list'[a][j] = B[j - Len(A)] /\ j > Len(A)
          BY <1>9, <3>4
        <4>3. /\ \A x, y \in 1..Len(A) : A[x] = A[y] => x = y
              /\ \A x, y \in 1..Len(B) : B[x] = B[y] => x = y
              /\ \A x \in 1..Len(A), y \in 1..Len(B) : A[x] # B[y]
          <5>1. a \in Handles /\ b \in Handles /\ a # b
            BY <1>2
          <5>2. \A x, y \in 1..Len(A) : A[x] = A[y] => x = y
            BY <1>51, <2>1, <5>1
          <5>3. \A x, y \in 1..Len(B) : B[x] = B[y] => x = y
            BY <1>51, <2>1, <5>1
          <5>4. \A x \in 1..Len(A), y \in 1..Len(B) : A[x] # B[y]
            BY <1>51, <2>1, <5>1
          <5> QED
            BY <5>2, <5>3, <5>4
        <4>4. i = j \/ i - Len(A) = j - Len(A)
          <5>1. list'[a][i] = list'[a][j]
            BY <2>2, <3>4
          <5>2. CASE i \in 1..Len(A) /\ list'[a][i] = A[i]
            <6>1. CASE j \in 1..Len(A) /\ list'[a][j] = A[j]
              BY <4>3, <5>1, <5>2, <6>1
            <6>2. CASE j - Len(A) \in 1..Len(B) /\ list'[a][j] = B[j - Len(A)]
              BY <4>3, <5>1, <5>2, <6>2
            <6> QED
              BY <4>2, <6>1, <6>2
          <5>3. CASE i - Len(A) \in 1..Len(B) /\ list'[a][i] = B[i - Len(A)]
            <6>1. CASE j \in 1..Len(A) /\ list'[a][j] = A[j]
              BY <4>3, <5>1, <5>3, <6>1
            <6>2. CASE j - Len(A) \in 1..Len(B) /\ list'[a][j] = B[j - Len(A)]
              BY <4>3, <5>1, <5>3, <6>2
            <6> QED
              BY <4>2, <6>1, <6>2
          <5> QED
            BY <4>1, <5>2, <5>3
        <4> QED
          BY <1>3, <3>4, <4>4
      <3> QED
        BY <3>1, <3>2, <3>3, <3>4
    <2>3. ~\E j \in 1..Len(doomed) : TRUE
      BY <1>2
    <2> QED
      BY <1>1, <2>2, <2>3 DEF Apart
  <1>17. Allocated'
    <2>1. \A m : In(m, list'[a]) <=> In(m, A) \/ In(m, B)
      <3>1. ASSUME NEW i \in 1..Len(A)
            PROVE  i \in 1..Len(list'[a]) /\ list'[a][i] = A[i]
        BY <1>3, <1>7
      <3>2. ASSUME NEW i \in 1..Len(B)
            PROVE  Len(A) + i \in 1..Len(list'[a]) /\ list'[a][Len(A) + i] = B[i]
        BY <1>3, <1>7
      <3>3. ASSUME NEW i \in 1..Len(list'[a])
            PROVE  \/ i \in 1..Len(A) /\ list'[a][i] = A[i]
                   \/ i - Len(A) \in 1..Len(B) /\ list'[a][i] = B[i - Len(A)]
        BY <1>2, <1>9
      <3>4. ASSUME NEW m, In(m, list'[a])  PROVE  In(m, A) \/ In(m, B)
        <4>1. PICK i \in 1..Len(list'[a]) : list'[a][i] = m
          BY <3>4 DEF In
        <4> QED
          BY <3>3, <4>1 DEF In
      <3>5. ASSUME NEW m, In(m, A)  PROVE  In(m, list'[a])
        BY <3>1, <3>5 DEF In
      <3>6. ASSUME NEW m, In(m, B)  PROVE  In(m, list'[a])
        BY <3>2, <3>6 DEF In
      <3> QED
        BY <3>4, <3>5, <3>6
    <2>2. \A m : ~In(m, list'[b])
      BY <1>6 DEF In
    <2>3. \A m : (\E k \in Handles : In(m, list'[k])) <=> \E k \in Handles : In(m, list[k])
      BY <1>2, <1>6, <1>51, <2>1, <2>2
    <2>4. \A m \in Nodes : m \in live <=> (In(m, doomed) \/ \E k \in Handles : In(m, list[k]))
      BY DEF ListInv, Allocated
    <2> QED
      BY <1>1, <2>3, <2>4 DEF Allocated, In
  <1>18. Placed'
    <2>1. \A k \in Handles : k # a /\ k # b => data'[k] = data[k] /\ pos'[k] = pos[k]
      BY <1>1 DEF ListInv, TypeOK
    <2>2. data'[a] = A[1] /\ pos'[a] = 1 /\ data'[b] = Null /\ pos'[b] = 0
      BY <1>1, <1>2 DEF ListInv, TypeOK
    <2>3. list'[a] # <<>> /\ 1 \in 1..Len(list'[a]) /\ list'[a][1] = A[1]
      BY <1>3, <1>6, <1>7
    <2> QED
      BY <1>6, <2>1, <2>2, <2>3, SMTT(30) DEF ListInv, Placed
  <1>19. Current' /\ ToFree'
    <2>1. Len(A) + 1 \in 1..Len(list'[a]) /\ list'[a][Len(A) + 1] = second /\ list'[a][1] = A[1]
      <3>1. 1 \in 1..Len(A)
        BY <1>3
      <3>2. list'[a][1] = A[1]
        BY <1>7, <3>1
      <3>3. Len(A) + 1 \in 1..Len(A) + Len(B)
        BY <1>3
      <3> QED
        BY <1>7, <3>2, <3>3
    <2>2. Len(doomed) = 0
      BY <1>2
    <2>3. Current'
      <3>1. of'[1] = a /\ at' = "refirst" /\ reach' = Len(A) + 1 /\ node' = second /\ head' = A[1]
        BY <1>0, <1>1, <1>2
      <3> QED
        BY <2>1, <3>1 DEF Current
    <2>4. ToFree'
      BY <1>1, <2>2 DEF ToFree
    <2> QED
      BY <2>3, <2>4
  <1> QED
    BY <1>8, <1>13, <1>14, <1>15, <1>16, <1>17, <1>18, <1>19 DEF ListInv, Linked

(* The nodes around the one that is taken out are linked to each other,    *)
(* and they know their first node unless it was that one.                  *)
LEMMA InvDeleteItem ==
  ASSUME ListInv, NEW h \in Handles, DeleteItem(h)
  PROVE  ListInv'
  <1> DEFINE L == list[h]
             p == pos[h]
             n == data[h]
             temp == Neighbour(n)
  <1>1. /\ at = "idle" /\ n # Null
        /\ prev' = IF next[n] = Null THEN prev ELSE [prev EXCEPT ![next[n]] = prev[n]]
        /\ next' = IF prev[n] = Null THEN next ELSE [next EXCEPT ![prev[n]] = next[n]]
        /\ data' = [data EXCEPT ![h] = temp]
        /\ of' = <<h, h>>
        /\ IF temp # Null /\ first[temp] = n
             THEN at' = "back" /\ node' = temp /\ reach' = 1
             ELSE at' = "dispose" /\ UNCHANGED <<node, reach>>
        /\ doomed' = <<n>>
        /\ list' = [list EXCEPT ![h] = Without(@, p)]
        /\ pos' = [pos EXCEPT ![h] = IF @ > 1 THEN @ - 1 ELSE IF Len(L) > 1 THEN 1 ELSE 0]
        /\ UNCHANGED <<first, item, live, head>>
    BY DEF DeleteItem
  <1>2. /\ L \in Seq(Nodes) /\ p \in 1..Len(L) /\ n = L[p] /\ n \in Nodes
        /\ doomed = <<>>
    <2>1. L \in Seq(Nodes) /\ L # <<>> /\ doomed = <<>>
      BY <1>1 DEF ListInv, TypeOK, Placed, ToFree
    <2>2. p \in 1..Len(L) /\ n = L[p]
      BY <2>1 DEF ListInv, Placed
    <2> QED
      BY <2>1, <2>2, Elements
  <1>3. Len(L) \in Nat \ {0} /\ \A i \in 1..Len(L) : L[i] \in Nodes /\ L[i] # Null
    BY <1>2, Elements
  <1>4. ASSUME NEW k \in Handles, NEW i \in 1..Len(list[k])
        PROVE  /\ next[list[k][i]] = IF i < Len(list[k]) THEN list[k][i + 1] ELSE Null
               /\ prev[list[k][i]] = IF i > 1 THEN list[k][i - 1] ELSE Null
               /\ first[list[k][i]] = list[k][1]
               /\ list[k][i] \in Nodes
    <2>1. list[k][i] \in Nodes
      BY Elements DEF ListInv, TypeOK
    <2> QED
      BY <1>1, <2>1 DEF ListInv, Linked, Forward, Backward, Firsts, FirstSet
  <1>5. \A k, m \in Handles : \A i \in 1..Len(list[k]), j \in 1..Len(list[m]) :
          list[k][i] = list[m][j] => k = m /\ i = j
    BY DEF ListInv, Apart
  <1>51. L = list[h] /\ p = pos[h] /\ n = data[h]
    OBVIOUS
  <1>6. /\ list'[h] \in Seq(Nodes) /\ Len(list'[h]) = Len(L) - 1
        /\ \A i \in 1..Len(L) - 1 : list'[h][i] = IF i < p THEN L[i] ELSE L[i + 1]
        /\ \A k \in Handles : k # h => list'[k] = list[k]
    <2>1. list'[h] = Without(L, p) /\ \A k \in Handles : k # h => list'[k] = list[k]
      BY <1>1 DEF ListInv, TypeOK
    <2> QED
      BY <1>2, <2>1, Lacking
  <1> HIDE DEF L, p, n
  <1>7. /\ next[n] = IF p < Len(L) THEN L[p + 1] ELSE Null
        /\ prev[n] = IF p > 1 THEN L[p - 1] ELSE Null
        /\ first[n] = L[1]
        /\ p > 1 => p - 1 \in 1..Len(L)
        /\ p < Len(L) => p + 1 \in 1..Len(L)
    <2>1. /\ next[L[p]] = IF p < Len(L) THEN L[p + 1] ELSE Null
          /\ prev[L[p]] = IF p > 1 THEN L[p - 1] ELSE Null
          /\ first[L[p]] = L[1]
      BY <1>2, <1>4, <1>51
    <2>2. (p > 1 => p - 1 \in 1..Len(L)) /\ (p < Len(L) => p + 1 \in 1..Len(L))
      BY <1>2, <1>3
    <2> QED
      BY <1>2, <2>1, <2>2
  <1>8. temp = IF p > 1 THEN L[p - 1] ELSE IF p < Len(L) THEN L[2] ELSE Null
    BY <1>2, <1>3, <1>7 DEF Neighbour
  <1> HIDE DEF temp
  <1>9. temp # Null /\ first[temp] = n <=> p = 1 /\ Len(L) > 1
    <2>1. CASE p > 1
      <3>1. first[L[p - 1]] = L[1] /\ L[1] # n
        BY <1>2, <1>3, <1>4, <1>5, <1>51, <1>7, <2>1
      <3> QED
        BY <1>8, <2>1, <3>1
    <2>2. CASE p = 1 /\ Len(L) > 1
      <3>1. 2 \in 1..Len(L)
        BY <1>3, <2>2
      <3>2. first[L[2]] = L[1] /\ L[2] # Null
        BY <1>3, <1>4, <1>51, <3>1
      <3> QED
        BY <1>2, <1>8, <2>2, <3>2
    <2>3. CASE p = 1 /\ ~(Len(L) > 1)
      BY <1>2, <1>3, <1>8, <2>3
    <2> QED
      BY <1>2, <1>3, <2>1, <2>2, <2>3
  <1>10. TypeOK'
    <2>1. temp \in Pointers
      <3>1. Len(L) > 1 => 2 \in 1..Len(L)
        BY <1>3
      <3> QED
        BY <1>2, <1>3, <1>7, <1>8, <3>1 DEF Pointers
    <2>2. next[n] \in Pointers /\ prev[n] \in Pointers
      BY <1>2 DEF ListInv, TypeOK
    <2>3. next' \in [Nodes -> Pointers] /\ prev' \in [Nodes -> Pointers]
      BY <1>1, <2>2 DEF ListInv, TypeOK, Pointers
    <2>4. data' \in [Handles -> Pointers] /\ list' \in [Handles -> Seq(Nodes)]
      BY <1>1, <1>6, <2>1 DEF ListInv, TypeOK
    <2>5. (IF p > 1 THEN p - 1 ELSE IF Len(L) > 1 THEN 1 ELSE 0) \in Nat
      BY <1>2, <1>3
    <2>6. pos' \in [Handles -> Nat]
      BY <1>1, <1>51, <2>5 DEF ListInv, TypeOK
    <2>7. doomed' \in Seq(Nodes)
      BY <1>1, <1>2
    <2>8. at' \in {"back", "dispose"} /\ node' \in Pointers /\ reach' \in Nat /\ of' \in Handles \X Handles
      BY <1>1, <2>1 DEF ListInv, TypeOK
    <2> QED
      BY <1>1, <2>3, <2>4, <2>6, <2>7, <2>8 DEF ListInv, TypeOK
  <1>11. ASSUME NEW i \in 1..Len(L) - 1
         PROVE  \/ i < p /\ list'[h][i] = L[i] /\ i \in 1..Len(L)
                \/ i >= p /\ list'[h][i] = L[i + 1] /\ i + 1 \in 1..Len(L)
    BY <1>2, <1>3, <1>6, SMTT(30)
  <1>12. \A m \in Nodes : /\ m # prev[n] => next'[m] = next[m]
                          /\ m # next[n] => prev'[m] = prev[m]
    BY <1>1 DEF ListInv, TypeOK
  <1>13. /\ p > 1 => next'[L[p - 1]] = next[n]
         /\ p < Len(L) => prev'[L[p + 1]] = prev[n]
    BY <1>1, <1>3, <1>7 DEF ListInv, TypeOK
  <1>14. ASSUME NEW k \in Handles, NEW i \in 1..Len(list[k])
         PROVE  /\ (k # h \/ i # p - 1) => list[k][i] # prev[n]
                /\ (k # h \/ i # p + 1) => list[k][i] # next[n]
    <2>1. list[k][i] # Null
      BY <1>4, NodesAssumption
    <2>2. p > 1 => (list[k][i] = L[p - 1] => k = h /\ i = p - 1)
      BY <1>5, <1>51, <1>7
    <2>3. p < Len(L) => (list[k][i] = L[p + 1] => k = h /\ i = p + 1)
      BY <1>5, <1>51, <1>7
    <2> QED
      BY <1>7, <2>1, <2>2, <2>3
  <1>15. Forward'
    <2> SUFFICES ASSUME NEW k \in Handles, NEW i \in 1..Len(list'[k])
                 PROVE  next'[list'[k][i]] = IF i < Len(list'[k]) THEN list'[k][i + 1] ELSE Null
      BY DEF Forward
    <2>1. CASE k # h
      BY <1>4, <1>6, <1>12, <1>14, <2>1
    <2>2. CASE k = h /\ i < p - 1
      <3>1. i \in 1..Len(L) - 1 /\ i + 1 \in 1..Len(L) - 1 /\ i \in 1..Len(L) /\ i < Len(L)
        BY <1>2, <1>3, <1>6, <2>2
      <3>2. list'[h][i] = L[i] /\ list'[h][i + 1] = L[i + 1]
        BY <1>2, <1>6, <2>2, <3>1
      <3>3. next'[L[i]] = next[L[i]] /\ next[L[i]] = L[i + 1]
        <4>1. L[i] # prev[n]
          BY <1>2, <1>14, <1>51, <2>2, <3>1
        <4>2. next[L[i]] = L[i + 1] /\ L[i] \in Nodes
          BY <1>4, <1>51, <3>1
        <4> QED
          BY <1>12, <4>1, <4>2
      <3> QED
        BY <1>6, <2>2, <3>1, <3>2, <3>3
    <2>3. CASE k = h /\ i = p - 1
      <3>1. list'[h][i] = L[p - 1] /\ p > 1
        BY <1>2, <1>6, <2>3
      <3>2. next'[list'[h][i]] = IF p < Len(L) THEN L[p + 1] ELSE Null
        BY <1>7, <1>13, <3>1
      <3>3. i < Len(list'[h]) <=> p < Len(L)
        BY <1>2, <1>3, <1>6, <2>3
      <3>4. p < Len(L) => list'[h][p] = L[p + 1]
        <4>1. p < Len(L) => p \in 1..Len(L) - 1 /\ ~(p < p)
          BY <1>2, <1>3
        <4> QED
          BY <1>6, <4>1
      <3>5. i + 1 = p
        BY <1>2, <2>3
      <3> QED
        BY <2>3, <3>2, <3>3, <3>4, <3>5
    <2>4. CASE k = h /\ i >= p
      <3>1. i \in 1..Len(L) - 1 /\ i + 1 \in 1..Len(L) /\ list'[h][i] = L[i + 1]
        BY <1>2, <1>3, <1>6, <2>4
      <3>2. next'[L[i + 1]] = next[L[i + 1]]
        <4>1. L[i + 1] # prev[n]
          <5>1. i + 1 # p - 1
            BY <1>2, <2>4, <3>1
          <5> QED
            BY <1>14, <1>51, <3>1, <5>1
        <4>2. L[i + 1] \in Nodes
          BY <1>3, <3>1
        <4> QED
          BY <1>12, <4>1, <4>2
      <3>3. next[L[i + 1]] = IF i + 1 < Len(L) THEN L[i + 2] ELSE Null
        <4>1. next[L[i + 1]] = IF i + 1 < Len(L) THEN L[(i + 1) + 1] ELSE Null
          BY <1>4, <1>51, <3>1
        <4>2. (i + 1) + 1 = i + 2
          BY <3>1
        <4> QED
          BY <4>1, <4>2
      <3>4. i + 1 < Len(L) => list'[h][i + 1] = L[i + 2]
        <4>1. i + 1 < Len(L) => i + 1 \in 1..Len(L) - 1 /\ ~(i + 1 < p) /\ (i + 1) + 1 = i + 2
          BY <1>2, <1>3, <2>4, <3>1
        <4> QED
          BY <1>6, <4>1
      <3>5. i < Len(list'[h]) <=> i + 1 < Len(L)
        BY <1>3, <1>6, <3>1
      <3> QED
        BY <2>4, <3>1, <3>2, <3>3, <3>4, <3>5
    <2> QED
      BY <1>2, <1>3, <1>6, <2>1, <2>2, <2>3, <2>4
  <1>16. Backward'
    <2> SUFFICES ASSUME NEW k \in Handles, NEW i \in 1..Len(list'[k])
                 PROVE  prev'[list'[k][i]] = IF i > 1 THEN list'[k][i - 1] ELSE Null
      BY DEF Backward
    <2>1. CASE k # h
      BY <1>4, <1>6, <1>12, <1>14, <2>1
    <2>2. CASE k = h /\ i < p
      <3>1. i \in 1..Len(L) - 1 /\ i \in 1..Len(L) /\ list'[h][i] = L[i]
        BY <1>2, <1>3, <1>6, <2>2
      <3>2. i > 1 => list'[h][i - 1] = L[i - 1]
        <4>1. i > 1 => i - 1 \in 1..Len(L) - 1 /\ i - 1 < p
          BY <1>2, <1>3, <2>2, <3>1
        <4> QED
          BY <1>6, <4>1
      <3>3. prev'[L[i]] = prev[L[i]]
        <4>1. L[i] # next[n]
          <5>1. i # p + 1
            BY <1>2, <2>2, <3>1
          <5> QED
            BY <1>14, <1>51, <3>1, <5>1
        <4>2. L[i] \in Nodes
          BY <1>3, <3>1
        <4> QED
          BY <1>12, <4>1, <4>2
      <3>4. prev[L[i]] = IF i > 1 THEN L[i - 1] ELSE Null
        BY <1>4, <1>51, <3>1
      <3> QED
        BY <2>2, <3>1, <3>2, <3>3, <3>4
    <2>3. CASE k = h /\ i = p
      <3>1. p < Len(L) /\ list'[h][i] = L[p + 1]
        BY <1>2, <1>3, <1>6, <2>3
      <3>2. prev'[list'[h][i]] = IF p > 1 THEN L[p - 1] ELSE Null
        BY <1>7, <1>13, <3>1
      <3>3. p > 1 => list'[h][p - 1] = L[p - 1]
        <4>1. p > 1 => p - 1 \in 1..Len(L) - 1 /\ p - 1 < p
          BY <1>2, <1>3
        <4> QED
          BY <1>6, <4>1
      <3> QED
        BY <2>3, <3>2, <3>3
    <2>4. CASE k = h /\ i > p
      <3>1. i \in 1..Len(L) - 1 /\ i + 1 \in 1..Len(L) /\ list'[h][i] = L[i + 1] /\ i > 1
        BY <1>2, <1>3, <1>6, <2>4
      <3>2. prev'[L[i + 1]] = prev[L[i + 1]]
        <4>1. L[i + 1] # next[n]
          <5>1. i + 1 # p + 1
            BY <1>2, <2>4, <3>1
          <5> QED
            BY <1>14, <1>51, <3>1, <5>1
        <4>2. L[i + 1] \in Nodes
          BY <1>3, <3>1
        <4> QED
          BY <1>12, <4>1, <4>2
      <3>3. prev[L[i + 1]] = L[i]
        <4>1. prev[L[i + 1]] = L[(i + 1) - 1]
          BY <1>4, <1>51, <3>1
        <4>2. (i + 1) - 1 = i
          BY <3>1
        <4> QED
          BY <4>1, <4>2
      <3>4. list'[h][i - 1] = L[i]
        <4>1. i - 1 \in 1..Len(L) - 1 /\ ~(i - 1 < p) /\ (i - 1) + 1 = i
          BY <1>2, <1>3, <2>4, <3>1
        <4> QED
          BY <1>6, <4>1
      <3> QED
        BY <2>4, <3>1, <3>2, <3>3, <3>4
    <2> QED
      BY <1>2, <1>3, <1>6, <2>1, <2>2, <2>3, <2>4
  <1>17. Firsts'
    <2> SUFFICES ASSUME NEW k \in Handles, NEW i \in 1..Len(list'[k]), i <= FirstSet(k)'
                 PROVE  first[list'[k][i]] = list'[k][1]
      BY <1>1 DEF Firsts
    <2>1. CASE k # h
      BY <1>4, <1>6, <2>1
    <2>2. CASE k = h
      <3>1. p > 1
        <4>1. i \in 1..Len(L) - 1 /\ Len(L) > 1
          BY <1>3, <1>6, <2>2
        <4>2. CASE p = 1
          <5>1. at' = "back" /\ reach' = 1 /\ of'[1] = h
            BY <1>1, <1>9, <4>1, <4>2
          <5>2. FirstSet(k)' = 0
            BY <2>2, <5>1 DEF FirstSet
          <5> QED
            BY <4>1, <5>2
        <4> QED
          BY <1>2, <1>3, <4>2
      <3>2. list'[h][1] = L[1]
        <4>1. 1 \in 1..Len(L) - 1 /\ 1 < p
          BY <1>2, <1>3, <3>1
        <4> QED
          BY <1>6, <4>1
      <3>3. i \in 1..Len(L) - 1
        BY <1>6, <2>2
      <3>4. PICK j \in 1..Len(L) : list'[h][i] = L[j]
        BY <1>11, <3>3
      <3> QED
        BY <1>4, <1>51, <2>2, <3>2, <3>4
    <2> QED
      BY <2>1, <2>2
  <1>18. ASSUME NEW k \in Handles, NEW i \in 1..Len(list'[k])
         PROVE  \/ k # h /\ list'[k] = list[k]
                \/ k = h /\ i < p /\ i \in 1..Len(L) /\ list'[k][i] = L[i]
                \/ k = h /\ i >= p /\ i + 1 \in 1..Len(L) /\ list'[k][i] = L[i + 1]
    BY <1>6, <1>11
  <1>19. Apart'
    <2>1. ASSUME NEW k \in Handles, NEW m \in Handles,
                 NEW i \in 1..Len(list'[k]), NEW j \in 1..Len(list'[m]), list'[k][i] = list'[m][j]
          PROVE  k = m /\ i = j
      <3>1. PICK i0 \in 1..Len(list[k]) :
              list'[k][i] = list[k][i0] /\ (IF k # h \/ i < p THEN i0 = i ELSE i0 = i + 1)
        BY <1>2, <1>18, <1>51
      <3>2. PICK j0 \in 1..Len(list[m]) :
              list'[m][j] = list[m][j0] /\ (IF m # h \/ j < p THEN j0 = j ELSE j0 = j + 1)
        BY <1>2, <1>18, <1>51
      <3>3. k = m /\ i0 = j0
        <4>1. list[k][i0] = list[m][j0]
          BY <2>1, <3>1, <3>2
        <4> QED
          BY <1>5, <4>1
      <3> QED
        BY <1>2, <1>3, <1>6, <3>1, <3>2, <3>3
    <2>2. \A k \in Handles : \A i \in 1..Len(list'[k]) : list'[k][i] # n
      <3> SUFFICES ASSUME NEW k \in Handles, NEW i \in 1..Len(list'[k]) PROVE list'[k][i] # n
        OBVIOUS
      <3>1. PICK i0 \in 1..Len(list[k]) : list'[k][i] = list[k][i0] /\ (k # h \/ i0 # p)
        <4>1. CASE k # h
          BY <1>18, <4>1
        <4>2. CASE k = h /\ i < p
          BY <1>2, <1>18, <1>51, <4>2
        <4>3. CASE k = h /\ ~(i < p)
          <5>1. i + 1 \in 1..Len(L) /\ list'[k][i] = L[i + 1] /\ i >= p
            BY <1>2, <1>18, <4>3
          <5>2. i + 1 # p
            BY <1>2, <5>1
          <5> QED
            BY <1>51, <4>3, <5>1, <5>2
        <4> QED
          BY <4>1, <4>2, <4>3
      <3> QED
        BY <1>2, <1>5, <1>51, <3>1
    <2>3. Len(doomed') = 1 /\ doomed'[1] = n
      BY <1>1
    <2> QED
      BY <2>1, <2>2, <2>3 DEF Apart
  <1>20. Allocated'
    <2>1. \A m : In(m, L) <=> m = n \/ In(m, list'[h])
      <3>1. ASSUME NEW i \in 1..Len(L)
            PROVE  L[i] = n \/ \E j \in 1..Len(list'[h]) : list'[h][j] = L[i]
        <4>1. CASE i < p
          <5>1. i \in 1..Len(L) - 1 /\ list'[h][i] = L[i]
            BY <1>2, <1>3, <1>6, <4>1
          <5> QED
            BY <1>6, <5>1
        <4>2. CASE i = p
          BY <1>2, <4>2
        <4>3. CASE i > p
          <5>1. i - 1 \in 1..Len(L) - 1 /\ ~(i - 1 < p) /\ (i - 1) + 1 = i
            BY <1>2, <1>3, <4>3
          <5>2. list'[h][i - 1] = L[i]
            BY <1>6, <5>1
          <5> QED
            BY <1>6, <5>1, <5>2
        <4> QED
          BY <1>2, <1>3, <4>1, <4>2, <4>3
      <3>2. ASSUME NEW i \in 1..Len(list'[h])
            PROVE  \E j \in 1..Len(L) : L[j] = list'[h][i]
        BY <1>18
      <3> QED
        BY <1>2, <3>1, <3>2 DEF In
    <2>2. \A m : In(m, doomed') <=> m = n
      <3>1. Len(doomed') = 1 /\ doomed'[1] = n
        BY <1>1
      <3> QED
        BY <3>1 DEF In
    <2>3. \A m : ~In(m, doomed)
      BY <1>2 DEF In
    <2>4. \A m : (In(m, doomed') \/ \E k \in Handles : In(m, list'[k]))
                   <=> (In(m, doomed) \/ \E k \in Handles : In(m, list[k]))
      BY <1>6, <1>51, <2>1, <2>2, <2>3
    <2>5. \A m \in Nodes : m \in live <=> (In(m, doomed) \/ \E k \in Handles : In(m, list[k]))
      BY DEF ListInv, Allocated
    <2> QED
      BY <1>1, <2>4, <2>5 DEF Allocated, In
  <1>21. Placed'
    <2>1. \A k \in Handles : k # h => data'[k] = data[k] /\ pos'[k] = pos[k]
      BY <1>1 DEF ListInv, TypeOK
    <2>2. data'[h] = temp /\ pos'[h] = IF p > 1 THEN p - 1 ELSE IF Len(L) > 1 THEN 1 ELSE 0
      BY <1>1, <1>51 DEF ListInv, TypeOK
    <2>3. CASE Len(L) = 1
      <3>1. p = 1 /\ Len(list'[h]) = 0 /\ list'[h] = <<>>
        BY <1>2, <1>6, <2>3, Elements
      <3> QED
        BY <1>6, <1>8, <2>1, <2>2, <2>3, <3>1 DEF ListInv, Placed
    <2>4. CASE Len(L) > 1
      <3>1. list'[h] # <<>>
        BY <1>3, <1>6, <2>4, Elements
      <3>2. pos'[h] \in 1..Len(list'[h])
        BY <1>2, <1>3, <1>6, <2>2, <2>4
      <3>3. data'[h] = list'[h][pos'[h]]
        <4>1. CASE p > 1
          <5>1. p - 1 \in 1..Len(L) - 1 /\ p - 1 < p
            BY <1>2, <1>3, <4>1
          <5> QED
            BY <1>6, <1>8, <2>2, <4>1, <5>1
        <4>2. CASE p = 1
          <5>1. 1 \in 1..Len(L) - 1 /\ ~(1 < p) /\ 1 + 1 = 2
            BY <1>3, <2>4, <4>2
          <5>2. list'[h][1] = L[2]
            BY <1>6, <5>1
          <5> QED
            BY <1>8, <2>2, <2>4, <4>2, <5>2
        <4> QED
          BY <1>2, <1>3, <4>1, <4>2
      <3> QED
        BY <1>6, <2>1, <3>1, <3>2, <3>3 DEF ListInv, Placed
    <2>5. Len(L) = 1 \/ Len(L) > 1
      BY <1>3
    <2> QED
      BY <2>3, <2>4, <2>5
  <1>22. Current'
    <2>1. at' = "back" => p = 1 /\ Len(L) > 1 /\ reach' = 1 /\ node' = temp
      BY <1>1, <1>9
    <2>2. p = 1 /\ Len(L) > 1 => 1 \in 1..Len(list'[h]) /\ list'[h][1] = temp
      <3>1. p = 1 /\ Len(L) > 1 => 1 \in 1..Len(L) - 1 /\ ~(1 < p) /\ 1 + 1 = 2
        BY <1>3
      <3> QED
        BY <1>6, <1>8, <3>1
    <2>3. of'[1] = h /\ at' \in {"back", "dispose"}
      BY <1>1
    <2> QED
      BY <2>1, <2>2, <2>3 DEF Current
  <1>23. ToFree'
    BY <1>1 DEF ToFree
  <1> QED
    BY <1>10, <1>15, <1>16, <1>17, <1>19, <1>20, <1>21, <1>22, <1>23 DEF ListInv, Linked

(* Every step keeps the invariant.                                         *)
LEMMA InvNext == ListInv /\ [Next]_vars => ListInv'
  <1> SUFFICES ASSUME ListInv, [Next]_vars PROVE ListInv'
    OBVIOUS
  <1>1. ASSUME NEW h \in Handles, NEW i \in Items, AppendItem(h, i) PROVE ListInv'
    BY <1>1, InvAppendItem
  <1>2. ASSUME NEW h \in Handles, GetFirst(h) PROVE ListInv'
    BY <1>2, InvGetFirst
  <1>3. ASSUME NEW h \in Handles, GetNext(h) PROVE ListInv'
    <2>1. CASE next[data[h]] # Null
      BY <1>3, <2>1, InvAdvance
    <2>2. CASE next[data[h]] = Null
      BY <1>3, <2>2, InvStartFree DEF GetNext
    <2> QED
      BY <2>1, <2>2
  <1>4. ASSUME NEW h \in Handles, Free(h) PROVE ListInv'
    BY <1>4, InvStartFree DEF Free
  <1>5. ASSUME NEW h \in Handles, DeleteItem(h) PROVE ListInv'
    BY <1>5, InvDeleteItem
  <1>6. ASSUME NEW a \in Handles, NEW b \in Handles, ConcatenateToNothing(a, b) PROVE ListInv'
    BY <1>6, InvConcatenateToNothing
  <1>7. ASSUME NEW a \in Handles, NEW b \in Handles, Concatenate(a, b) PROVE ListInv'
    BY <1>7, InvConcatenate
  <1>8. FreeNode \/ Walk \/ Link \/ Refirst \/ Back \/ Dispose => ListInv'
    BY InvFreeNode, InvWalk, InvLink, InvRefirst, InvBack, InvDispose
  <1>9. CASE UNCHANGED vars
    BY <1>9, SMTT(30) DEF vars, heap, links, lists, ListInv, TypeOK, Linked, Forward, Backward, Firsts,
                FirstSet, Apart, Allocated, In, Placed, Current, ToFree
  <1> QED
    BY <1>1, <1>2, <1>3, <1>4, <1>5, <1>6, <1>7, <1>8, <1>9 DEF Next

(* The links of the nodes spell out the lists, no node is in two places,   *)
(* and what is allocated is in a list or about to be freed.                *)
THEOREM ListsLinked == Spec => []ListInv
  BY InvInit, InvNext, PTL DEF Spec

(* No freed node is followed and none is lost.                             *)
LEMMA Sound ==
  ASSUME ListInv
  PROVE  HeapSound
  <1>1. ASSUME NEW h \in Handles, NEW i \in 1..Len(list[h])
        PROVE  list[h][i] \in live
    <2>1. list[h][i] \in Nodes
      BY Elements DEF ListInv, TypeOK
    <2> QED
      BY <2>1 DEF ListInv, Allocated, In
  <1>2. ASSUME NEW h \in Handles, data[h] # Null
        PROVE  /\ data[h] \in live
               /\ at = "idle" => first[data[h]] \in live
               /\ next[data[h]] \in live \cup {Null} /\ prev[data[h]] \in live \cup {Null}
    <2>1. list[h] # <<>> /\ list[h] \in Seq(Nodes)
      BY <1>2 DEF ListInv, TypeOK, Placed
    <2>2. pos[h] \in 1..Len(list[h]) /\ data[h] = list[h][pos[h]] /\ Len(list[h]) \in Nat
      BY <2>1, Elements DEF ListInv, Placed
    <2>3. /\ 1 \in 1..Len(list[h])
          /\ pos[h] < Len(list[h]) => pos[h] + 1 \in 1..Len(list[h])
          /\ pos[h] > 1 => pos[h] - 1 \in 1..Len(list[h])
      BY <2>2
    <2>4. next[data[h]] \in live \cup {Null} /\ prev[data[h]] \in live \cup {Null}
      <3>1. /\ next[data[h]] = IF pos[h] < Len(list[h]) THEN list[h][pos[h] + 1] ELSE Null
            /\ prev[data[h]] = IF pos[h] > 1 THEN list[h][pos[h] - 1] ELSE Null
        BY <2>2 DEF ListInv, Linked, Forward, Backward
      <3> QED
        BY <1>1, <2>3, <3>1
    <2>5. at = "idle" => first[data[h]] = list[h][1]
      BY <2>2 DEF ListInv, Linked, Firsts, FirstSet
    <2> QED
      BY <1>1, <2>2, <2>3, <2>4, <2>5
  <1>3. at \in {"walk", "back", "refirst"} => node \in live
    BY <1>1 DEF ListInv, TypeOK, Current
  <1>4. at = "free" => node \in live
    <2> SUFFICES ASSUME at = "free" PROVE node \in live
      OBVIOUS
    <2>1. doomed \in Seq(Nodes) /\ doomed # <<>> /\ node = doomed[1]
      BY DEF ListInv, TypeOK, ToFree
    <2>2. 1 \in 1..Len(doomed) /\ node \in Nodes
      BY <2>1
    <2> QED
      BY <2>1, <2>2 DEF ListInv, Allocated, In
  <1>5. (at = "idle" /\ \A h \in Handles : data[h] = Null) => live = {}
    <2> SUFFICES ASSUME at = "idle", \A h \in Handles : data[h] = Null PROVE live = {}
      OBVIOUS
    <2>1. ASSUME NEW h \in Handles PROVE list[h] = <<>>
      <3>1. list[h] # <<>> => \E i \in 1..Len(list[h]) : data[h] = list[h][i]
        BY DEF ListInv, Placed
      <3>2. list[h] \in Seq(Nodes)
        BY DEF ListInv, TypeOK
      <3> QED
        BY <3>1, <3>2, Elements
    <2>2. doomed = <<>>
      BY DEF ListInv, ToFree
    <2>3. \A n : ~In(n, <<>>)
      BY DEF In
    <2>4. \A n \in Nodes : n \notin live
      BY <2>1, <2>2, <2>3 DEF ListInv, Allocated
    <2> QED
      BY <2>4 DEF ListInv, TypeOK
  <1> QED
    BY <1>2, <1>3, <1>4, <1>5 DEF HeapSound

(* Whatever is appended, deleted, joined and freed, in whatever order and  *)
(* wherever the holders of the lists stand, the heap is sound.             *)
THEOREM ListHeapSound == Spec => []HeapSound
  BY ListsLinked, Sound, PTL

-----------------------------------------------------------------------------
(* What the lists hold. *)

(* The items of the nodes of a list, in their order.                       *)
LEMMA ContentsOf ==
  ASSUME NEW L \in Seq(Nodes), NEW f \in [Nodes -> Items]
  PROVE  /\ Contents(L, f) \in Seq(Items)
         /\ Len(Contents(L, f)) = Len(L)
         /\ \A i \in 1..Len(L) : Contents(L, f)[i] = f[L[i]]
  BY DEF Contents

(* They are the same as long as no node of the list changes its item.      *)
LEMMA ContentsAgree ==
  ASSUME NEW L \in Seq(Nodes), NEW f, NEW g, \A i \in 1..Len(L) : f[L[i]] = g[L[i]]
  PROVE  Contents(L, f) = Contents(L, g)
  BY DEF Contents

(* One node more is one item more.                                         *)
LEMMA ContentsAppended ==
  ASSUME NEW L \in Seq(Nodes), NEW n \in Nodes, NEW f \in [Nodes -> Items]
  PROVE  Contents(Append(L, n), f) = Append(Contents(L, f), f[n])
  <1> DEFINE C == Contents(L, f)
             D == Contents(Append(L, n), f)
             E == Append(C, f[n])
  <1>1. Append(L, n) \in Seq(Nodes) /\ Len(Append(L, n)) = Len(L) + 1 /\ Len(L) \in Nat
    BY Appended, Elements
  <1>2. /\ D \in Seq(Items) /\ Len(D) = Len(L) + 1
        /\ \A i \in 1..Len(L) + 1 : D[i] = f[Append(L, n)[i]]
    BY <1>1, ContentsOf
  <1>3. C \in Seq(Items) /\ Len(C) = Len(L) /\ \A i \in 1..Len(L) : C[i] = f[L[i]]
    BY ContentsOf
  <1> HIDE DEF C, D
  <1>4. E \in Seq(Items) /\ Len(E) = Len(L) + 1
    BY <1>3
  <1>5. \A i \in 1..Len(L) + 1 : D[i] = E[i]
    <2>1. ASSUME NEW i \in 1..Len(L) PROVE D[i] = E[i]
      BY <1>1, <1>2, <1>3, Appended
    <2>2. D[Len(L) + 1] = E[Len(L) + 1]
      BY <1>1, <1>2, <1>3, Appended
    <2>3. \A i \in 1..Len(L) + 1 : i \in 1..Len(L) \/ i = Len(L) + 1
      BY <1>1
    <2> QED
      BY <2>1, <2>2, <2>3
  <1> HIDE DEF E
  <1>6. D = E
    BY <1>2, <1>4, <1>5, SeqEqual
  <1> QED
    BY <1>6 DEF C, D, E

(* Lists that are joined have their items joined.                          *)
LEMMA ContentsJoined ==
  ASSUME NEW L \in Seq(Nodes), NEW M \in Seq(Nodes), NEW f \in [Nodes -> Items]
  PROVE  Contents(L \o M, f) = Contents(L, f) \o Contents(M, f)
  <1> DEFINE C == Contents(L, f)
             D == Contents(M, f)
             J == Contents(L \o M, f)
             E == C \o D
  <1>1. /\ L \o M \in Seq(Nodes) /\ Len(L \o M) = Len(L) + Len(M)
        /\ Len(L) \in Nat /\ Len(M) \in Nat
        /\ \A i \in 1..Len(L) : (L \o M)[i] = L[i]
        /\ \A i \in 1..Len(M) : (L \o M)[Len(L) + i] = M[i]
    BY Joined, Elements
  <1>2. /\ J \in Seq(Items) /\ Len(J) = Len(L) + Len(M)
        /\ \A i \in 1..Len(L) + Len(M) : J[i] = f[(L \o M)[i]]
    <2> DEFINE K == L \o M
    <2>1. K \in Seq(Nodes) /\ Len(K) = Len(L) + Len(M)
      BY <1>1
    <2> HIDE DEF K
    <2>2. /\ Contents(K, f) \in Seq(Items) /\ Len(Contents(K, f)) = Len(K)
          /\ \A i \in 1..Len(K) : Contents(K, f)[i] = f[K[i]]
      BY <2>1, ContentsOf
    <2> QED
      BY <2>1, <2>2 DEF K
  <1>3. /\ C \in Seq(Items) /\ Len(C) = Len(L) /\ \A i \in 1..Len(L) : C[i] = f[L[i]]
        /\ D \in Seq(Items) /\ Len(D) = Len(M) /\ \A i \in 1..Len(M) : D[i] = f[M[i]]
    BY ContentsOf
  <1> HIDE DEF C, D, J
  <1>4. /\ E \in Seq(Items) /\ Len(E) = Len(L) + Len(M)
        /\ \A i \in 1..Len(L) : E[i] = C[i]
        /\ \A i \in 1..Len(M) : E[Len(L) + i] = D[i]
    <2>1. /\ E \in Seq(Items) /\ Len(E) = Len(C) + Len(D)
          /\ \A i \in 1..Len(C) : E[i] = C[i]
          /\ \A i \in 1..Len(D) : E[Len(C) + i] = D[i]
      <3>1. C \in Seq(Items) /\ D \in Seq(Items)
        BY <1>3
      <3> QED
        BY <3>1, Joined
    <2> HIDE DEF E
    <2> QED
      BY <1>3, <2>1
  <1> HIDE DEF E
  <1>5. ASSUME NEW i \in 1..Len(L) + Len(M) PROVE J[i] = E[i]
    <2>1. CASE i <= Len(L)
      <3>1. i \in 1..Len(L)
        BY <1>1, <2>1
      <3> QED
        BY <1>1, <1>2, <1>3, <1>4, <3>1
    <2>2. CASE i > Len(L)
      <3>1. i - Len(L) \in 1..Len(M) /\ Len(L) + (i - Len(L)) = i
        BY <1>1, <2>2
      <3>2. (L \o M)[i] = M[i - Len(L)] /\ E[i] = D[i - Len(L)]
        BY <1>1, <1>4, <3>1
      <3> QED
        BY <1>2, <1>3, <3>1, <3>2
    <2> QED
      BY <1>1, <2>1, <2>2
  <1>6. J = E
    BY <1>2, <1>4, <1>5, SeqEqual
  <1> QED
    BY <1>6 DEF C, D, J, E

(* One node less is one item less.                                         *)
LEMMA ContentsLacking ==
  ASSUME NEW L \in Seq(Nodes), NEW p \in 1..Len(L), NEW f \in [Nodes -> Items]
  PROVE  Contents(Without(L, p), f) = Abstract!Without(Contents(L, f), p)
  <1>1. /\ Len(Without(L, p)) = Len(L) - 1 /\ Len(L) \in Nat \ {0}
        /\ \A i \in 1..Len(L) - 1 : Without(L, p)[i] = IF i < p THEN L[i] ELSE L[i + 1]
    <2>1. Len(L) \in Nat \ {0}
      OBVIOUS
    <2> QED
      BY <2>1, Lacking
  <1>2. /\ Len(Contents(L, f)) = Len(L)
        /\ \A i \in 1..Len(L) : Contents(L, f)[i] = f[L[i]]
    BY ContentsOf
  <1>3. \A i \in 1..Len(L) - 1 : i \in 1..Len(L) /\ i + 1 \in 1..Len(L)
    BY <1>1
  <1>4. \A i \in 1..Len(L) - 1 :
          f[Without(L, p)[i]] = IF i < p THEN Contents(L, f)[i] ELSE Contents(L, f)[i + 1]
    BY <1>1, <1>2, <1>3
  <1>5. Contents(Without(L, p), f) = [i \in 1..Len(L) - 1 |-> f[Without(L, p)[i]]]
    BY <1>1 DEF Contents
  <1>6. Abstract!Without(Contents(L, f), p)
          = [i \in 1..Len(L) - 1 |-> IF i < p THEN Contents(L, f)[i] ELSE Contents(L, f)[i + 1]]
    BY <1>2 DEF Abstract!Without
  <1> QED
    BY <1>4, <1>5, <1>6

(* What the lists hold, one by one.                                        *)
LEMMA HeldOf ==
  ASSUME ListInv
  PROVE  /\ \A h \in Handles : /\ Held[h] = Contents(list[h], item) /\ Held[h] \in Seq(Items)
                               /\ Len(Held[h]) = Len(list[h])
                               /\ Held[h] = <<>> <=> list[h] = <<>>
         /\ DOMAIN Held = Handles /\ DOMAIN Held' = Handles
         /\ \A h \in Handles : Held'[h] = Contents(list'[h], item')
  <1>1. ASSUME NEW h \in Handles
        PROVE  Len(Held[h]) = Len(list[h]) /\ Held[h] \in Seq(Items) /\ (Held[h] = <<>> <=> list[h] = <<>>)
    <2>1. list[h] \in Seq(Nodes) /\ item \in [Nodes -> Items]
      BY DEF ListInv, TypeOK
    <2>2. Held[h] = Contents(list[h], item)
      BY DEF Held
    <2>3. Len(Held[h]) = Len(list[h]) /\ Held[h] \in Seq(Items)
      BY <2>1, <2>2, ContentsOf
    <2>4. Held[h] = <<>> <=> Len(Held[h]) = 0
      BY <2>3, EmptySeq
    <2> QED
      BY <2>1, <2>3, <2>4, Elements
  <1> QED
    BY <1>1 DEF Held

(* A step that leaves the lists and the items of their nodes alone leaves  *)
(* what they hold alone.                                                   *)
LEMMA HeldSame ==
  ASSUME ListInv, list' = list,
         \A h \in Handles : \A i \in 1..Len(list[h]) : item[list[h][i]] = item'[list[h][i]]
  PROVE  Held' = Held
  <1>1. ASSUME NEW h \in Handles PROVE Contents(list'[h], item') = Contents(list[h], item)
    BY ContentsAgree DEF ListInv, TypeOK
  <1> QED
    BY <1>1 DEF Held

(* The last node of a list has no next, and the others have one.           *)
LEMMA AtLast ==
  ASSUME ListInv, NEW h \in Handles, data[h] # Null
  PROVE  /\ pos[h] \in 1..Len(list[h]) /\ Len(list[h]) \in Nat
         /\ next[data[h]] = Null <=> pos[h] = Len(list[h])
  <1>1. list[h] \in Seq(Nodes) /\ Len(list[h]) \in Nat
    BY DEF ListInv, TypeOK
  <1>2. pos[h] \in 1..Len(list[h]) /\ data[h] = list[h][pos[h]]
    BY DEF ListInv, Placed
  <1>3. next[data[h]] = IF pos[h] < Len(list[h]) THEN list[h][pos[h] + 1] ELSE Null
    BY <1>2 DEF ListInv, Linked, Forward
  <1>4. pos[h] < Len(list[h]) => pos[h] + 1 \in 1..Len(list[h])
    BY <1>1, <1>2
  <1> QED
    BY <1>1, <1>2, <1>3, <1>4, Elements

(* Appending a node adds its item.                                         *)
LEMMA AppendAdds ==
  ASSUME ListInv, NEW h \in Handles, NEW x \in Items, AppendItem(h, x)
  PROVE  Abstract!Add(h, x)
  <1>1. PICK n \in Nodes \ live :
          /\ item' = [item EXCEPT ![n] = x]
          /\ list' = [list EXCEPT ![h] = Append(@, n)]
          /\ pos' = [pos EXCEPT ![h] = @ + 1]
    BY DEF AppendItem
  <1>2. data[h] # Null => next[data[h]] = Null
    BY DEF AppendItem
  <1>3. \A k \in Handles : list[k] \in Seq(Nodes) /\ Held[k] = Contents(list[k], item)
    BY HeldOf DEF ListInv, TypeOK
  <1>4. item \in [Nodes -> Items] /\ item' \in [Nodes -> Items] /\ item'[n] = x
    BY <1>1 DEF ListInv, TypeOK
  <1>5. \A k \in Handles : Contents(list[k], item') = Contents(list[k], item)
    <2>1. ASSUME NEW k \in Handles, NEW i \in 1..Len(list[k])
          PROVE  item'[list[k][i]] = item[list[k][i]]
      <3>1. list[k][i] \in Nodes /\ list[k][i] # n
        BY <1>1, <1>3, Elements DEF ListInv, Allocated, In
      <3> QED
        BY <1>1, <3>1 DEF ListInv, TypeOK
    <2> QED
      BY <1>3, <2>1, ContentsAgree
  <1>6. Held' = [Held EXCEPT ![h] = Append(@, x)]
    <2>1. ASSUME NEW k \in Handles, k # h PROVE Held'[k] = Held[k]
      <3>1. list'[k] = list[k]
        BY <1>1, <2>1 DEF ListInv, TypeOK
      <3> QED
        BY <1>3, <1>5, <3>1, HeldOf
    <2>2. Held'[h] = Append(Held[h], x)
      <3>1. list'[h] = Append(list[h], n)
        BY <1>1 DEF ListInv, TypeOK
      <3>2. Contents(Append(list[h], n), item') = Append(Contents(list[h], item'), item'[n])
        BY <1>3, <1>4, ContentsAppended
      <3> QED
        BY <1>3, <1>4, <1>5, <3>1, <3>2, HeldOf
    <2> QED
      BY <2>1, <2>2 DEF Held
  <1>7. pos[h] = Len(Held[h])
    <2>1. CASE data[h] = Null
      <3>1. list[h] = <<>>
        <4>1. list[h] # <<>> => \E i \in 1..Len(list[h]) : data[h] = list[h][i]
          BY DEF ListInv, Placed
        <4> QED
          BY <1>3, <2>1, <4>1, Elements
      <3>2. pos[h] = 0 /\ Len(list[h]) = 0
        BY <3>1 DEF ListInv, Placed
      <3> QED
        BY <3>2, HeldOf
    <2>2. CASE data[h] # Null
      BY <1>2, <2>2, AtLast, HeldOf
    <2> QED
      BY <2>1, <2>2
  <1> QED
    BY <1>1, <1>6, <1>7 DEF Abstract!Add

(* A list that is freed is dropped.                                        *)
LEMMA FreeDrops ==
  ASSUME ListInv, NEW h \in Handles, data[h] # Null, StartFree(h)
  PROVE  Abstract!Drop(h)
  <1>1. /\ list' = [list EXCEPT ![h] = <<>>] /\ pos' = [pos EXCEPT ![h] = 0]
        /\ item' = item
    BY DEF StartFree, heap
  <1>2. Held[h] # <<>>
    BY HeldOf DEF ListInv, Placed
  <1>3. \A k \in Handles : list'[k] = IF k = h THEN <<>> ELSE list[k]
    BY <1>1 DEF ListInv, TypeOK
  <1>4. Contents(<<>>, item) = <<>>
    BY DEF Contents
  <1>5. Held' = [Held EXCEPT ![h] = <<>>]
    <2>1. \A k \in Handles : Held'[k] = IF k = h THEN <<>> ELSE Held[k]
      BY <1>1, <1>3, <1>4, HeldOf
    <2> QED
      BY <2>1 DEF Held
  <1> QED
    BY <1>1, <1>2, <1>5 DEF Abstract!Drop

(* Linking two lists joins them.                                           *)
LEMMA LinkJoins ==
  ASSUME ListInv, Link
  PROVE  \E a, b \in Handles : Abstract!Join(a, b)
  <1>0. PICK a \in Handles, b \in Handles : of[1] = a /\ of[2] = b
    BY DEF ListInv, TypeOK
  <1>1. /\ at = "walk" /\ item' = item
        /\ list' = [list EXCEPT ![a] = @ \o list[b], ![b] = <<>>]
        /\ pos' = [pos EXCEPT ![a] = 1, ![b] = 0]
    BY <1>0 DEF Link
  <1>2. /\ a # b /\ list[b] # <<>> /\ list[a] # <<>>
        /\ list[a] \in Seq(Nodes) /\ list[b] \in Seq(Nodes)
    BY <1>0, <1>1 DEF ListInv, TypeOK, Current
  <1>3. Held[a] # <<>> /\ Held[b] # <<>>
    BY <1>2, HeldOf
  <1>4. /\ list'[a] = list[a] \o list[b] /\ list'[b] = <<>>
        /\ \A k \in Handles : k # a /\ k # b => list'[k] = list[k]
    <2>1. list \in [Handles -> Seq(Nodes)]
      BY DEF ListInv, TypeOK
    <2> QED
      BY <1>1, <1>2, <2>1
  <1>5. Contents(<<>>, item) = <<>>
    BY DEF Contents
  <1>6. Contents(list[a] \o list[b], item) = Contents(list[a], item) \o Contents(list[b], item)
    BY <1>2, ContentsJoined DEF ListInv, TypeOK
  <1>7. /\ Held'[a] = Held[a] \o Held[b] /\ Held'[b] = <<>>
        /\ \A k \in Handles : k # a /\ k # b => Held'[k] = Held[k]
    BY <1>1, <1>4, <1>5, <1>6, HeldOf
  <1>8. Held' = [Held EXCEPT ![a] = @ \o Held[b], ![b] = <<>>]
    BY <1>2, <1>7 DEF Held
  <1> QED
    BY <1>1, <1>2, <1>3, <1>8 DEF Abstract!Join

(* An empty list that takes over another is joined with it.                *)
LEMMA TakeOverJoins ==
  ASSUME ListInv, NEW a \in Handles, NEW b \in Handles, ConcatenateToNothing(a, b)
  PROVE  Abstract!Join(a, b)
  <1>1. /\ a # b /\ data[a] = Null /\ data[b] # Null /\ item' = item
        /\ list' = [list EXCEPT ![a] = list[b], ![b] = <<>>]
        /\ pos' = [pos EXCEPT ![a] = pos[b], ![b] = 0]
    BY DEF ConcatenateToNothing, heap
  <1>2. list[a] = <<>> /\ list[b] # <<>>
    <2>1. list[a] \in Seq(Nodes)
      BY DEF ListInv, TypeOK
    <2>2. list[a] # <<>> => \E i \in 1..Len(list[a]) : data[a] = list[a][i]
      BY DEF ListInv, Placed
    <2>3. list[a] = <<>>
      BY <1>1, <2>1, <2>2, Elements
    <2> QED
      BY <1>1, <2>3 DEF ListInv, Placed
  <1>3. Held[a] = <<>> /\ Held[b] # <<>> /\ Held[b] \in Seq(Items)
    BY <1>2, HeldOf
  <1>4. /\ list'[a] = list[b] /\ list'[b] = <<>>
        /\ \A k \in Handles : k # a /\ k # b => list'[k] = list[k]
    BY <1>1 DEF ListInv, TypeOK
  <1>5. Contents(<<>>, item) = <<>>
    BY DEF Contents
  <1>6. /\ Held'[a] = Held[b] /\ Held'[b] = <<>>
        /\ \A k \in Handles : k # a /\ k # b => Held'[k] = Held[k]
    <2>1. \A k \in Handles : Held[k] = Contents(list[k], item) /\ Held'[k] = Contents(list'[k], item)
      BY <1>1, HeldOf
    <2> QED
      BY <1>4, <1>5, <2>1
  <1>7. Held[a] \o Held[b] = Held[b]
    BY <1>3, ConcatEmptySeq
  <1>8. Held' = [Held EXCEPT ![a] = @ \o Held[b], ![b] = <<>>]
    BY <1>1, <1>6, <1>7 DEF Held
  <1> QED
    BY <1>1, <1>3, <1>8 DEF Abstract!Join

(* Taking out a node removes its item.                                     *)
LEMMA DeleteRemoves ==
  ASSUME ListInv, NEW h \in Handles, DeleteItem(h)
  PROVE  Abstract!Remove(h)
  <1>1. /\ data[h] # Null /\ item' = item
        /\ list' = [list EXCEPT ![h] = Without(@, pos[h])]
        /\ pos' = [pos EXCEPT ![h] = IF @ > 1 THEN @ - 1 ELSE IF Len(list[h]) > 1 THEN 1 ELSE 0]
    BY DEF DeleteItem
  <1>2. list[h] \in Seq(Nodes) /\ pos[h] \in 1..Len(list[h]) /\ item \in [Nodes -> Items]
    BY <1>1, AtLast DEF ListInv, TypeOK
  <1>3. Held[h] # <<>> /\ Len(Held[h]) = Len(list[h])
    BY <1>2, HeldOf, Elements
  <1>4. Contents(Without(list[h], pos[h]), item) = Abstract!Without(Contents(list[h], item), pos[h])
    BY <1>2, ContentsLacking
  <1>5. \A k \in Handles : list'[k] = IF k = h THEN Without(list[h], pos[h]) ELSE list[k]
    BY <1>1 DEF ListInv, TypeOK
  <1>6. \A k \in Handles : Held'[k] = IF k = h THEN Abstract!Without(Held[h], pos[h]) ELSE Held[k]
    <2>1. /\ Held[h] = Contents(list[h], item)
          /\ Held'[h] = Contents(Without(list[h], pos[h]), item)
      BY <1>1, <1>5, HeldOf
    <2>2. ASSUME NEW k \in Handles, k # h PROVE Held'[k] = Held[k]
      BY <1>1, <1>5, <2>2, HeldOf
    <2> QED
      BY <1>4, <2>1, <2>2
  <1>7. Held' = [Held EXCEPT ![h] = Abstract!Without(@, pos[h])]
    BY <1>6 DEF Held
  <1>8. pos' = [pos EXCEPT ![h] = Abstract!PlaceWithout(Held[h], @)]
    BY <1>1, <1>3 DEF Abstract!PlaceWithout
  <1> QED
    BY <1>3, <1>7, <1>8 DEF Abstract!Remove

(* Every step of the lists is a step of the sequences, or none.            *)
LEMMA StepImplements ==
  ASSUME ListInv, [Next]_vars
  PROVE  [Abstract!Next]_(Abstract!vars)
  <1>1. ASSUME NEW h \in Handles, NEW i \in Items, AppendItem(h, i) PROVE Abstract!Next
    BY <1>1, AppendAdds DEF Abstract!Next
  <1>2. ASSUME NEW h \in Handles, GetFirst(h) PROVE Abstract!Next
    <2>1. data[h] # Null /\ list' = list /\ item' = item /\ pos' = [pos EXCEPT ![h] = 1]
      BY <1>2 DEF GetFirst, heap
    <2>2. Held' = Held /\ Held[h] # <<>>
      BY <2>1, HeldOf DEF Held, ListInv, Placed
    <2> QED
      BY <2>1, <2>2 DEF Abstract!Rewind, Abstract!Next
  <1>3. ASSUME NEW h \in Handles, GetNext(h) PROVE Abstract!Next
    <2>1. data[h] # Null
      BY <1>3 DEF GetNext
    <2>2. CASE next[data[h]] # Null
      <3>1. list' = list /\ item' = item /\ pos' = [pos EXCEPT ![h] = @ + 1]
        BY <1>3, <2>2 DEF GetNext, heap
      <3>2. Held' = Held /\ pos[h] < Len(Held[h])
        BY <2>1, <2>2, <3>1, AtLast, HeldOf DEF Held
      <3> QED
        BY <3>1, <3>2 DEF Abstract!Advance, Abstract!Next
    <2>3. CASE next[data[h]] = Null
      BY <1>3, <2>1, <2>3, FreeDrops DEF GetNext, Abstract!Next
    <2> QED
      BY <2>2, <2>3
  <1>4. ASSUME NEW h \in Handles, Free(h) PROVE Abstract!Next
    BY <1>4, FreeDrops DEF Free, Abstract!Next
  <1>5. ASSUME NEW h \in Handles, DeleteItem(h) PROVE Abstract!Next
    BY <1>5, DeleteRemoves DEF Abstract!Next
  <1>6. ASSUME NEW a \in Handles, NEW b \in Handles, ConcatenateToNothing(a, b) PROVE Abstract!Next
    BY <1>6, TakeOverJoins DEF Abstract!Next
  <1>7. ASSUME NEW a \in Handles, NEW b \in Handles, Concatenate(a, b) PROVE UNCHANGED Abstract!vars
    BY <1>7 DEF Concatenate, heap, lists, Held, Abstract!vars
  <1>8. CASE FreeNode
    <2>1. /\ list' = list /\ pos' = pos /\ at = "free"
          /\ item' = [item EXCEPT ![node] = Blank]
      BY <1>8 DEF FreeNode, lists
    <2>2. doomed \in Seq(Nodes) /\ doomed # <<>> /\ node = doomed[1] /\ 1 \in 1..Len(doomed)
      BY <2>1 DEF ListInv, TypeOK, ToFree
    <2>3. ASSUME NEW h \in Handles, NEW i \in 1..Len(list[h])
          PROVE  item[list[h][i]] = item'[list[h][i]]
      <3>1. list[h][i] # node
        BY <2>2 DEF ListInv, Apart
      <3>2. list[h][i] \in Nodes
        BY Elements DEF ListInv, TypeOK
      <3> QED
        BY <2>1, <3>1, <3>2 DEF ListInv, TypeOK
    <2>4. Held' = Held
      BY <2>1, <2>3, HeldSame
    <2> QED
      BY <2>1, <2>4 DEF Abstract!vars
  <1>9. CASE Walk
    BY <1>9 DEF Walk, heap, lists, Held, Abstract!vars
  <1>10. CASE Link
    BY <1>10, LinkJoins DEF Abstract!Next
  <1>11. CASE Refirst
    BY <1>11 DEF Refirst, lists, Held, Abstract!vars
  <1>12. CASE Back
    BY <1>12 DEF Back, heap, lists, Held, Abstract!vars
  <1>13. CASE Dispose
    BY <1>13 DEF Dispose, lists, Held, Abstract!vars
  <1>14. CASE UNCHANGED vars
    BY <1>14 DEF vars, heap, lists, Held, Abstract!vars
  <1> QED
    BY <1>1, <1>2, <1>3, <1>4, <1>5, <1>6, <1>7, <1>8, <1>9, <1>10, <1>11, <1>12, <1>13, <1>14
       DEF Next

(* The linked lists implement sequences with a place in each: nothing the  *)
(* library or its client does with one loses, doubles or moves an item.    *)
THEOREM ListsImplementSequences == Spec => Implements
  <1>1. Init => Abstract!Init
    <2> SUFFICES ASSUME Init PROVE Abstract!Init
      OBVIOUS
    <2>1. list = [h \in Handles |-> <<>>] /\ pos = [h \in Handles |-> 0]
      BY DEF Init
    <2>2. Contents(<<>>, item) = <<>>
      BY DEF Contents
    <2>3. Held = [h \in Handles |-> <<>>]
      BY <2>1, <2>2 DEF Held
    <2> QED
      BY <2>1, <2>3 DEF Abstract!Init
  <1>2. ListInv /\ [Next]_vars => [Abstract!Next]_(Abstract!vars)
    BY StepImplements
  <1> QED
    BY <1>1, <1>2, ListsLinked, PTL DEF Spec, Implements, Abstract!Spec
=============================================================================
