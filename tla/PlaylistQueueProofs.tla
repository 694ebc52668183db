------------------------ MODULE PlaylistQueueProofs ------------------------
(***************************************************************************)
(* The linked list of queued commands is sound and implements a queue, for *)
(* every set of nodes and of commands.                                     *)
(***************************************************************************)
EXTENDS PlaylistQueue, SequenceTheorems, TLAPS

(* A node put at the end of a list leaves the others where they are.       *)
LEMMA Appended ==
  ASSUME NEW L \in Seq(Nodes), NEW n \in Nodes
  PROVE  /\ Append(L, n) \in Seq(Nodes)
         /\ Len(Append(L, n)) = Len(L) + 1
         /\ \A i \in 1..Len(L) : Append(L, n)[i] = L[i]
         /\ Append(L, n)[Len(L) + 1] = n
  OBVIOUS

(* A list without its first node is the list, counted from the second.     *)
LEMMA Shortened ==
  ASSUME NEW L \in Seq(Nodes), L # <<>>
  PROVE  /\ Tail(L) \in Seq(Nodes)
         /\ Len(Tail(L)) = Len(L) - 1 /\ Len(L) \in Nat \ {0}
         /\ \A i \in 1..Len(L) - 1 : Tail(L)[i] = L[i + 1]
  OBVIOUS

(* At the start nothing is queued. *)
LEMMA InvInit == Init => QueueInv
  <1> SUFFICES ASSUME Init PROVE QueueInv
    OBVIOUS
  <1>1. TypeOK
    <2>1. out \in Seq(Commands) /\ list \in Seq(Nodes)
      BY DEF Init
    <2>2. PICK c \in Commands : item = [n \in Nodes |-> c]
      BY DEF Init
    <2>3. /\ next \in [Nodes -> Nodes \cup {Null}]
          /\ first \in [Nodes -> Nodes \cup {Null}]
          /\ item \in [Nodes -> Commands]
      BY <2>2 DEF Init
    <2> QED
      BY <2>1, <2>3 DEF Init, TypeOK
  <1>2. Linked /\ Current
    BY DEF Init, Linked, Current
  <1> QED
    BY <1>1, <1>2 DEF QueueInv

(* Queueing a command links the new node behind the last one. *)
LEMMA InvEnqueue ==
  ASSUME QueueInv, NEW c \in Commands, Enqueue(c)
  PROVE  QueueInv'
  <1>1. PICK n \in Nodes \ live :
          /\ live' = live \cup {n}
          /\ item' = [item EXCEPT ![n] = c]
          /\ first' = [first EXCEPT ![n] = IF queue = Null THEN n ELSE first[queue]]
          /\ next' = IF queue = Null THEN [next EXCEPT ![n] = Null]
                     ELSE [next EXCEPT ![queue] = n, ![n] = Null]
          /\ queue' = n
          /\ list' = Append(list, n)
    BY DEF Enqueue
  <1>2. /\ at = "idle" /\ UNCHANGED <<connected, at, then, out, pos>>
    BY DEF Enqueue
  <1>3. TypeOK /\ Linked /\ Current
    BY DEF QueueInv
  <1>4. list \in Seq(Nodes) /\ Len(list) \in Nat
    BY <1>3 DEF TypeOK
  <1>5. /\ list' \in Seq(Nodes)
        /\ Len(list') = Len(list) + 1
        /\ \A i \in 1..Len(list) : list'[i] = list[i]
        /\ list'[Len(list) + 1] = n
    BY <1>1, <1>4, Appended
  <1>6. \A i \in 1..Len(list) : list[i] \in live /\ list[i] # n
    BY <1>1, <1>3 DEF Linked
  <1>7. TypeOK'
    BY <1>1, <1>2, <1>3, <1>5 DEF TypeOK
  <1>8. Linked'
    <2>1. CASE list = <<>>
      <3>1. queue = Null /\ live = {} /\ Len(list) = 0
        BY <1>2, <1>3, <2>1 DEF Current, Linked
      <3>2. next' = [next EXCEPT ![n] = Null] /\ first' = [first EXCEPT ![n] = n]
        BY <1>1, <3>1
      <3>3. Len(list') = 1 /\ list'[1] = n
        BY <1>5, <3>1
      <3>4. next'[n] = Null /\ first'[n] = n
        BY <1>1, <1>3, <3>2 DEF TypeOK
      <3>5. live' = {n}
        BY <1>1, <3>1
      <3> QED
        BY <3>3, <3>4, <3>5 DEF Linked
    <2>2. CASE list # <<>>
      <3>1. Len(list) \in Nat \ {0} /\ queue = list[Len(list)] /\ queue \in Nodes
        BY <1>2, <1>3, <1>4, <2>2 DEF Current
      <3>2. queue # Null /\ queue # n
        BY <1>6, <3>1, NodesAssumption
      <3>3. /\ next' = [next EXCEPT ![queue] = n, ![n] = Null]
            /\ first' = [first EXCEPT ![n] = first[queue]]
        BY <1>1, <3>2
      <3>4. first[queue] = list[1]
        BY <1>2, <1>3, <3>1 DEF Linked
      <3>5. next'[n] = Null /\ first'[n] = list[1]
        BY <1>1, <1>3, <3>3, <3>4 DEF TypeOK
      <3>6. next'[queue] = n
        BY <1>1, <1>3, <3>1, <3>2, <3>3 DEF TypeOK
      <3>7. ASSUME NEW i \in 1..Len(list), i < Len(list)
            PROVE  next'[list[i]] = list[i + 1]
        <4>1. next[list[i]] = list[i + 1]
          BY <1>3, <3>7 DEF Linked
        <4>2. list[i] # queue
          BY <1>3, <3>1, <3>7 DEF Linked
        <4>3. list[i] \in Nodes /\ list[i] # n
          BY <1>4, <1>6
        <4> QED
          BY <1>3, <3>3, <4>1, <4>2, <4>3 DEF TypeOK
      <3>8. ASSUME NEW i \in 1..Len(list)
            PROVE  first'[list[i]] = list[1]
        <4>1. first[list[i]] = list[1]
          BY <1>2, <1>3 DEF Linked
        <4>2. list[i] \in Nodes /\ list[i] # n
          BY <1>4, <1>6
        <4> QED
          BY <1>3, <3>3, <4>1, <4>2 DEF TypeOK
      <3>9. list'[1] = list[1]
        BY <1>5, <3>1
      <3>10. ASSUME NEW i \in 1..Len(list')
             PROVE  /\ next'[list'[i]] = IF i < Len(list') THEN list'[i + 1] ELSE Null
                    /\ first'[list'[i]] = list'[1]
        <4>1. CASE i < Len(list)
          <5>1. i \in 1..Len(list) /\ i + 1 \in 1..Len(list)
            BY <1>4, <4>1
          <5>2. list'[i] = list[i] /\ list'[i + 1] = list[i + 1]
            BY <1>5, <5>1
          <5> QED
            BY <1>5, <3>7, <3>8, <3>9, <4>1, <5>1, <5>2
        <4>2. CASE i = Len(list)
          <5>1. list'[i] = queue /\ list'[i + 1] = n
            BY <1>5, <3>1, <4>2
          <5>2. first'[queue] = list[1]
            BY <3>1, <3>8
          <5> QED
            BY <1>4, <1>5, <3>6, <3>9, <4>2, <5>1, <5>2
        <4>3. CASE i = Len(list) + 1
          <5>1. list'[i] = n /\ ~(i < Len(list'))
            BY <1>4, <1>5, <4>3
          <5> QED
            BY <3>5, <3>9, <5>1
        <4> QED
          BY <1>4, <1>5, <4>1, <4>2, <4>3
      <3>11. ASSUME NEW i \in 1..Len(list'), NEW j \in 1..Len(list'), list'[i] = list'[j]
             PROVE  i = j
        BY <1>3, <1>4, <1>5, <1>6, <3>11 DEF Linked
      <3>12. live' = {list'[i] : i \in 1..Len(list')}
        <4>1. live = {list[i] : i \in 1..Len(list)}
          BY <1>3 DEF Linked
        <4> QED
          BY <1>1, <1>4, <1>5, <4>1
      <3> QED
        BY <3>10, <3>11, <3>12 DEF Linked
    <2> QED
      BY <2>1, <2>2
  <1>9. Current'
    <2>1. list' # <<>> /\ list'[Len(list')] = n
      BY <1>4, <1>5
    <2> QED
      BY <1>1, <1>2, <1>3, <2>1 DEF Current
  <1> QED
    BY <1>7, <1>8, <1>9 DEF QueueInv

(* The node that is freed is the first of the list, and the next one       *)
(* becomes the first.                                                      *)
LEMMA InvFreeNode ==
  ASSUME QueueInv, FreeNode
  PROVE  QueueInv'
  <1>1. TypeOK /\ Linked /\ Current
    BY DEF QueueInv
  <1>2. /\ at = "free" /\ queue' = next[queue] /\ live' = live \ {queue}
        /\ at' = IF queue' = Null THEN then ELSE "free"
        /\ list' = Tail(list)
        /\ UNCHANGED <<connected, next, first, item, then, out, pos>>
    BY DEF FreeNode
  <1>3. list \in Seq(Nodes) /\ list # <<>> /\ queue = list[1] /\ pos = 1
    BY <1>1, <1>2 DEF TypeOK, Current
  <1>4. /\ list' \in Seq(Nodes)
        /\ Len(list') = Len(list) - 1 /\ Len(list) \in Nat \ {0}
        /\ \A i \in 1..Len(list) - 1 : list'[i] = list[i + 1]
    BY <1>2, <1>3, Shortened
  <1>5. queue' = IF 1 < Len(list) THEN list[2] ELSE Null
    BY <1>1, <1>2, <1>3, <1>4 DEF Linked
  <1>6. TypeOK'
    <2>1. queue' \in Nodes \cup {Null}
      BY <1>3, <1>4, <1>5
    <2>2. at' \in {"idle", "commit", "free", "sent"}
      BY <1>1, <1>2 DEF TypeOK
    <2> QED
      BY <1>1, <1>2, <1>4, <2>1, <2>2 DEF TypeOK
  <1>7. Linked'
    <2>1. ASSUME NEW i \in 1..Len(list')
          PROVE  next'[list'[i]] = IF i < Len(list') THEN list'[i + 1] ELSE Null
      <3>1. i \in 1..Len(list) - 1 /\ i + 1 \in 1..Len(list)
        BY <1>4
      <3>2. list'[i] = list[i + 1] /\ next[list[i + 1]]
                = IF i + 1 < Len(list) THEN list[i + 2] ELSE Null
        BY <1>1, <1>4, <3>1 DEF Linked
      <3>3. i < Len(list') => list'[i + 1] = list[i + 2]
        BY <1>4, <3>1
      <3> QED
        BY <1>2, <1>4, <3>1, <3>2, <3>3
    <2>2. ASSUME NEW i \in 1..Len(list'), NEW j \in 1..Len(list'), list'[i] = list'[j]
          PROVE  i = j
      <3>1. i + 1 \in 1..Len(list) /\ j + 1 \in 1..Len(list) /\ list[i + 1] = list[j + 1]
        BY <1>4, <2>2
      <3> QED
        BY <1>1, <3>1 DEF Linked
    <2>3. live' = {list'[i] : i \in 1..Len(list')}
      <3>1. live = {list[i] : i \in 1..Len(list)}
        BY <1>1 DEF Linked
      <3>2. \A i \in 1..Len(list) : list[i] = list[1] => i = 1
        BY <1>1, <1>4 DEF Linked
      <3>3. ASSUME NEW x \in live'
            PROVE  \E i \in 1..Len(list') : x = list'[i]
        <4>1. PICK i \in 1..Len(list) : x = list[i] /\ i # 1
          BY <1>2, <1>3, <3>1, <3>3
        <4>2. i - 1 \in 1..Len(list') /\ list'[i - 1] = list[i]
          BY <1>4, <4>1
        <4> QED
          BY <4>1, <4>2
      <3>4. ASSUME NEW i \in 1..Len(list')
            PROVE  list'[i] \in live'
        <4>1. i + 1 \in 1..Len(list) /\ list'[i] = list[i + 1] /\ i + 1 # 1
          BY <1>4
        <4> QED
          BY <1>2, <1>3, <3>1, <3>2, <4>1
      <3> QED
        BY <3>3, <3>4
    <2>4. at' = "free" \/ list' = <<>>
      <3>1. CASE 1 < Len(list)
        BY <1>2, <1>3, <1>4, <1>5, <3>1, NodesAssumption
      <3>2. CASE ~(1 < Len(list))
        BY <1>4, <3>2
      <3> QED
        BY <3>1, <3>2
    <2>5. ASSUME NEW i \in 1..Len(list'), at' # "free"
          PROVE  FALSE
      BY <2>4, <2>5
    <2> QED
      BY <2>1, <2>2, <2>3, <2>5 DEF Linked
  <1>8. Current'
    <2>1. CASE 1 < Len(list)
      <3>1. queue' = list[2] /\ queue' # Null
        BY <1>3, <1>4, <1>5, <2>1, NodesAssumption
      <3>2. list' # <<>> /\ list'[1] = list[2]
        BY <1>4, <2>1
      <3> QED
        BY <1>2, <1>3, <3>1, <3>2 DEF Current
    <2>2. CASE ~(1 < Len(list))
      <3>1. queue' = Null /\ list' = <<>> /\ at' = then
        BY <1>2, <1>4, <1>5, <2>2
      <3> QED
        BY <1>1, <1>2, <1>3, <3>1 DEF Current, TypeOK
    <2> QED
      BY <2>1, <2>2
  <1> QED
    BY <1>6, <1>7, <1>8 DEF QueueInv

(* Every step keeps the invariant. *)
LEMMA InvNext == QueueInv /\ [Next]_vars => QueueInv'
  <1> SUFFICES ASSUME QueueInv, [Next]_vars PROVE QueueInv'
    OBVIOUS
  <1> USE DEF QueueInv, heap, aux
  <1>1. CASE Connect
    BY <1>1 DEF Connect, TypeOK, Linked, Current
  <1>2. ASSUME NEW c \in Commands, Enqueue(c) PROVE QueueInv'
    BY <1>2, InvEnqueue
  <1>3. CASE FreeNode
    BY <1>3, InvFreeNode
  <1>4. CASE Commit
    <2>1. list \in Seq(Nodes) /\ list # <<>> /\ queue = list[Len(list)] /\ pos = 1
      BY <1>4 DEF Commit, TypeOK, Current
    <2>2. Len(list) \in Nat \ {0} /\ list[1] \in Nodes
      BY <2>1
    <2>3. queue' = list[1]
      BY <1>4, <2>1, <2>2 DEF Commit, Linked
    <2> QED
      BY <1>4, <2>1, <2>2, <2>3 DEF Commit, TypeOK, Linked, Current
  <1>5. CASE CommitNext
    <2>1. /\ at = "commit" /\ list \in Seq(Nodes) /\ Len(list) \in Nat
          /\ pos \in 1..Len(list) /\ queue = list[pos]
          /\ UNCHANGED <<connected, heap, list>>
      BY <1>5 DEF CommitNext, TypeOK, Current
    <2>2. queue \in Nodes /\ out' \in Seq(Commands)
      <3>1. queue \in Nodes
        BY <2>1
      <3>2. item[queue] \in Commands /\ out \in Seq(Commands)
        BY <3>1 DEF TypeOK
      <3>3. out' = Append(out, item[queue]) \/ out' = out
        BY <1>5 DEF CommitNext
      <3> QED
        BY <3>1, <3>2, <3>3
    <2>3. CASE next[queue] # Null
      <3>1. queue' = next[queue] /\ pos' = pos + 1 /\ UNCHANGED <<at, then>>
        BY <1>5, <2>3 DEF CommitNext
      <3>2. pos < Len(list) /\ next[queue] = list[pos + 1]
        BY <2>1, <2>3 DEF Linked
      <3>3. pos' \in 1..Len(list) /\ queue' = list[pos'] /\ queue' \in Nodes
        BY <2>1, <3>1, <3>2
      <3> QED
        BY <2>1, <2>2, <3>1, <3>3 DEF TypeOK, Linked, Current
    <2>4. CASE next[queue] = Null
      <3>1. queue' = first[queue] /\ at' = "free" /\ then' = "sent" /\ pos' = 1
        BY <1>5, <2>4 DEF CommitNext, StartFree
      <3>2. list # <<>> /\ first[queue] = list[1] /\ list[1] \in Nodes
        BY <2>1 DEF Linked
      <3> QED
        BY <2>1, <2>2, <3>1, <3>2 DEF TypeOK, Linked, Current
    <2> QED
      BY <2>3, <2>4
  <1>6. CASE CommitEnd
    BY <1>6 DEF CommitEnd, TypeOK, Linked, Current
  <1>7. CASE Disconnect
    <2>1. CASE queue # Null
      <3>1. list \in Seq(Nodes) /\ list # <<>> /\ queue = list[Len(list)]
        BY <1>7, <2>1 DEF Disconnect, TypeOK, Current
      <3>2. Len(list) \in Nat \ {0} /\ list[1] \in Nodes
        BY <3>1
      <3>3. first[queue] = list[1]
        BY <1>7, <3>1, <3>2 DEF Disconnect, Linked
      <3>4. /\ at' = "free" /\ then' = "idle" /\ pos' = 1 /\ queue' = list[1]
            /\ connected' = FALSE /\ UNCHANGED <<heap, out, list>>
        BY <1>7, <2>1, <3>3 DEF Disconnect, StartFree
      <3>5. TypeOK'
        BY <3>1, <3>2, <3>4 DEF TypeOK
      <3>6. Linked' /\ Current'
        BY <3>1, <3>4 DEF Linked, Current
      <3> QED
        BY <3>5, <3>6
    <2>2. CASE queue = Null
      <3>1. /\ at = "idle" /\ connected' = FALSE
            /\ UNCHANGED <<queue, at, then, pos, heap, out, list>>
        BY <1>7, <2>2 DEF Disconnect
      <3>2. TypeOK'
        BY <3>1 DEF TypeOK
      <3>3. Linked' /\ Current'
        BY <3>1 DEF Linked, Current
      <3> QED
        BY <3>2, <3>3
    <2> QED
      BY <2>1, <2>2
  <1>8. CASE UNCHANGED vars
    BY <1>8 DEF vars, TypeOK, Linked, Current
  <1> QED
    BY <1>1, <1>2, <1>3, <1>4, <1>5, <1>6, <1>7, <1>8 DEF Next

(* The links always spell out the commands queued, in their order. *)
THEOREM QueueCorrect == Spec => []QueueInv
  <1> QED
    BY InvInit, InvNext, PTL DEF Spec

(* No pointer to a freed node is ever followed and no node is lost,        *)
(* whatever is queued, committed and dropped in which order.               *)
THEOREM HeapIsSound == Spec => []HeapSound
  <1>1. QueueInv => HeapSound
    <2> SUFFICES ASSUME QueueInv PROVE HeapSound
      OBVIOUS
    <2>1. TypeOK /\ Linked /\ Current
      BY DEF QueueInv
    <2>2. list \in Seq(Nodes) /\ Len(list) \in Nat
      BY <2>1 DEF TypeOK
    <2>3. CASE list = <<>>
      <3>1. live = {} /\ at \in {"idle", "sent"} /\ queue = Null
        BY <2>1, <2>3 DEF Linked, Current, TypeOK
      <3> QED
        BY <3>1 DEF HeapSound
    <2>4. CASE list # <<>>
      <3>1. \E i \in 1..Len(list) : queue = list[i]
        BY <2>1, <2>2, <2>4 DEF Current, TypeOK
      <3>2. queue \in live /\ queue # Null /\ next[queue] \in live \cup {Null}
        BY <2>1, <2>2, <3>1, NodesAssumption DEF Linked
      <3>3. at # "free" => first[queue] \in live
        BY <2>1, <2>2, <2>4, <3>1 DEF Linked
      <3> QED
        BY <3>2, <3>3 DEF HeapSound
    <2> QED
      BY <2>3, <2>4
  <1> QED
    BY <1>1, QueueCorrect, PTL

-----------------------------------------------------------------------------
(* The refinement. *)

(* The commands of a list, from one position on. *)
LEMMA FromPosition ==
  ASSUME NEW L \in Seq(Nodes), NEW I \in [Nodes -> Commands], NEW p \in 1..Len(L) + 1,
         NEW P, P = [i \in 1..Len(L) - p + 1 |-> I[L[p + i - 1]]]
  PROVE  /\ P \in Seq(Commands)
         /\ Len(L) \in Nat /\ Len(P) = Len(L) - p + 1
         /\ \A i \in 1..Len(L) - p + 1 : P[i] = I[L[p + i - 1]]
  <1>1. Len(L) - p + 1 \in Nat /\ Len(L) \in Nat
    OBVIOUS
  <1>2. ASSUME NEW i \in 1..Len(L) - p + 1
        PROVE  I[L[p + i - 1]] \in Commands
    <2>1. p + i - 1 \in 1..Len(L)
      BY <1>1
    <2> QED
      BY <2>1
  <1>3. P \in Seq(Commands)
    BY <1>1, <1>2, IsASeq
  <1> QED
    BY <1>1, <1>3, LenProperties

(* What is still to be sent, while commands are queued or sent. *)
LEMMA Pending ==
  ASSUME QueueInv, at \in {"idle", "commit"}
  PROVE  /\ PendingItems \in Seq(Commands)
         /\ Len(PendingItems) = Len(list) - pos + 1
         /\ Len(list) \in Nat /\ pos \in 1..Len(list) + 1
         /\ \A i \in 1..Len(list) - pos + 1 : PendingItems[i] = item[list[pos + i - 1]]
  <1>1. TypeOK /\ Current
    BY DEF QueueInv
  <1>2. list \in Seq(Nodes) /\ item \in [Nodes -> Commands] /\ pos \in 1..Len(list) + 1
    BY <1>1 DEF TypeOK, Current
  <1>3. PendingItems = [i \in 1..Len(list) - pos + 1 |-> item[list[pos + i - 1]]]
    BY DEF PendingItems
  <1> QED
    BY <1>2, <1>3, FromPosition

(* The same of the state after a step. *)
LEMMA PendingNext ==
  ASSUME QueueInv', at' \in {"idle", "commit"}
  PROVE  /\ PendingItems' \in Seq(Commands)
         /\ Len(PendingItems') = Len(list') - pos' + 1
         /\ \A i \in 1..Len(list') - pos' + 1 : PendingItems'[i] = item'[list'[pos' + i - 1]]
  <1>1. TypeOK' /\ Current'
    BY DEF QueueInv
  <1>2. list' \in Seq(Nodes) /\ item' \in [Nodes -> Commands] /\ pos' \in 1..Len(list') + 1
    BY <1>1 DEF TypeOK, Current
  <1>3. PendingItems' = [i \in 1..Len(list') - pos' + 1 |-> item'[list'[pos' + i - 1]]]
    BY DEF PendingItems
  <1> QED
    BY <1>2, <1>3, FromPosition

(* Queueing puts the command by, after the others. *)
LEMMA EnqueuePuts ==
  ASSUME QueueInv, QueueInv', NEW c \in Commands, Enqueue(c)
  PROVE  Abstract!Put(c)
  <1>1. PICK n \in Nodes \ live :
          /\ item' = [item EXCEPT ![n] = c]
          /\ list' = Append(list, n)
    BY DEF Enqueue
  <1>2. at = "idle" /\ at' = "idle" /\ pos' = pos /\ then' = then /\ out' = out
    BY DEF Enqueue
  <1>3. TypeOK /\ Linked /\ pos = 1
    BY <1>2 DEF QueueInv, Current
  <1>4. list \in Seq(Nodes)
    BY <1>3 DEF TypeOK
  <1>5. /\ Len(list') = Len(list) + 1
        /\ \A i \in 1..Len(list) : list'[i] = list[i]
        /\ list'[Len(list) + 1] = n
    BY <1>1, <1>4, Appended
  <1>6. /\ PendingItems \in Seq(Commands) /\ Len(PendingItems) = Len(list)
        /\ Len(list) \in Nat
        /\ \A i \in 1..Len(list) : PendingItems[i] = item[list[i]]
    BY <1>2, <1>3, Pending
  <1>7. /\ PendingItems' \in Seq(Commands) /\ Len(PendingItems') = Len(list) + 1
        /\ \A i \in 1..Len(list) + 1 : PendingItems'[i] = item'[list'[i]]
    <2>1. /\ PendingItems' \in Seq(Commands)
          /\ Len(PendingItems') = Len(list') - pos' + 1
          /\ \A i \in 1..Len(list') - pos' + 1 :
               PendingItems'[i] = item'[list'[pos' + i - 1]]
      BY <1>2, PendingNext
    <2> QED
      BY <1>2, <1>3, <1>5, <1>6, <2>1
  <1>8. ASSUME NEW i \in 1..Len(list)
        PROVE  PendingItems'[i] = PendingItems[i]
    <2>1. list'[i] = list[i] /\ list[i] \in Nodes /\ list[i] # n
      BY <1>3, <1>4, <1>5 DEF Linked
    <2> QED
      BY <1>1, <1>3, <1>6, <1>7, <2>1 DEF TypeOK
  <1>9. PendingItems'[Len(list) + 1] = c
    BY <1>1, <1>3, <1>5, <1>6, <1>7 DEF TypeOK
  <1>10. PendingItems' = Append(PendingItems, c)
    <2> DEFINE a == Append(PendingItems, c)
    <2>1. a \in Seq(Commands) /\ Len(a) = Len(list) + 1
      BY <1>6
    <2>2. \A i \in 1..Len(a) : PendingItems'[i] = a[i]
      BY <1>6, <1>8, <1>9, <2>1
    <2> HIDE DEF a
    <2>3. PendingItems' = a
      BY <1>7, <2>1, <2>2, SeqEqual
    <2> QED
      BY <2>3 DEF a
  <1> QED
    BY <1>2, <1>10 DEF Abstract!Put

(* Each turn of the loop of the commit deals with the first command left.  *)
LEMMA CommitTransmits ==
  ASSUME QueueInv, QueueInv', CommitNext
  PROVE  Abstract!Transmit
  <1>1. at = "commit" /\ list' = list /\ item' = item /\ UNCHANGED heap
    BY DEF CommitNext, heap
  <1>2. TypeOK /\ Linked /\ Current
    BY DEF QueueInv
  <1>3. /\ PendingItems \in Seq(Commands) /\ Len(PendingItems) = Len(list) - pos + 1
        /\ Len(list) \in Nat
        /\ \A i \in 1..Len(list) - pos + 1 : PendingItems[i] = item[list[pos + i - 1]]
    BY <1>1, Pending
  <1>4. pos \in 1..Len(list) /\ queue = list[pos]
    BY <1>1, <1>2 DEF Current
  <1>5. PendingItems # <<>> /\ PendingItems[1] = item[queue]
    BY <1>3, <1>4
  <1>6. Head(PendingItems) = item[queue]
    BY <1>3, <1>5
  <1>7. \/ item[queue] \notin Void /\ out' = Append(out, item[queue])
        \/ UNCHANGED out
    BY DEF CommitNext
  <1> DEFINE t == Tail(PendingItems)
  <1>8. /\ t \in Seq(Commands)
        /\ Len(t) = Len(list) - pos
        /\ \A i \in 1..Len(list) - pos : t[i] = PendingItems[i + 1]
    BY <1>3, <1>4, <1>5
  <1> HIDE DEF t
  <1>9. CASE next[queue] # Null
    <2>1. at' = "commit" /\ pos' = pos + 1 /\ then' = then
      BY <1>1, <1>9 DEF CommitNext
    <2>2. /\ PendingItems' \in Seq(Commands)
          /\ Len(PendingItems') = Len(list) - pos
          /\ \A i \in 1..Len(list) - pos : PendingItems'[i] = item[list[pos + i]]
      <3>1. /\ PendingItems' \in Seq(Commands)
            /\ Len(PendingItems') = Len(list') - pos' + 1
            /\ \A i \in 1..Len(list') - pos' + 1 :
                 PendingItems'[i] = item'[list'[pos' + i - 1]]
        BY <2>1, PendingNext
      <3> QED
        BY <1>1, <1>3, <1>4, <2>1, <3>1
    <2>3. PendingItems' = t
      <3>1. ASSUME NEW i \in 1..Len(t)
            PROVE  PendingItems'[i] = t[i]
        <4>1. i \in 1..Len(list) - pos /\ i + 1 \in 1..Len(list) - pos + 1
          BY <1>3, <1>4, <1>8
        <4>2. t[i] = item[list[pos + (i + 1) - 1]]
          BY <1>3, <1>8, <4>1
        <4>3. pos + (i + 1) - 1 = pos + i
          BY <1>4, <4>1
        <4> QED
          BY <2>2, <4>1, <4>2, <4>3
      <3>2. t \in Seq(Commands) /\ Len(t) = Len(PendingItems')
        BY <1>8, <2>2
      <3> QED
        BY <2>2, <3>1, <3>2, SeqEqual
    <2> QED
      BY <1>1, <1>5, <1>6, <1>7, <2>1, <2>3 DEF Abstract!Transmit, t
  <1>10. CASE next[queue] = Null
    <2>1. at' = "free" /\ then' = "sent"
      BY <1>10 DEF CommitNext, StartFree
    <2>2. PendingItems' = <<>>
      BY <2>1 DEF PendingItems
    <2>3. ~(pos < Len(list))
      <3>1. SUFFICES ASSUME pos < Len(list) PROVE FALSE
        OBVIOUS
      <3>2. next[queue] = list[pos + 1] /\ list[pos + 1] \in Nodes
        BY <1>2, <1>3, <1>4, <3>1 DEF Linked, TypeOK
      <3> QED
        BY <1>10, <3>2, NodesAssumption
    <2>4. t = <<>>
      <3>1. Len(t) = 0
        BY <1>3, <1>4, <1>8, <2>3
      <3> QED
        BY <1>8, <3>1, EmptySeq
    <2> QED
      BY <1>1, <1>5, <1>6, <1>7, <2>1, <2>2, <2>4 DEF Abstract!Transmit, t
  <1> QED
    BY <1>9, <1>10

(* With nothing in the list, nothing is pending. *)
LEMMA NothingPending ==
  ASSUME list = <<>>, pos = 1
  PROVE  PendingItems = <<>>
  BY DEF PendingItems

(* The same of the state after a step. *)
LEMMA NothingPendingNext ==
  ASSUME list' = <<>>, pos' = 1
  PROVE  PendingItems' = <<>>
  BY DEF PendingItems

(* Every step of the list is a step of the queue, or none. *)
LEMMA StepImplements ==
  ASSUME QueueInv, QueueInv', [Next]_vars
  PROVE  [Abstract!Next]_(Abstract!vars)
  <1>0. TypeOK /\ Linked /\ Current /\ TypeOK' /\ Current'
    BY DEF QueueInv
  <1>1. CASE Connect
    BY <1>1 DEF Connect, heap, aux, Abstract!vars, PendingItems
  <1>2. ASSUME NEW c \in Commands, Enqueue(c) PROVE Abstract!Next
    BY <1>2, EnqueuePuts DEF Abstract!Next
  <1>3. CASE FreeNode
    <2>1. at = "free" /\ then' = then /\ out' = out /\ at' \in {"free", then}
          /\ then \in {"idle", "sent"}
      BY <1>0, <1>3 DEF FreeNode, TypeOK
    <2>2. PendingItems = <<>>
      BY <2>1 DEF PendingItems
    <2>3. PendingItems' = <<>>
      <3>1. CASE at' = "idle"
        <4>1. list' = <<>> /\ pos' = 1
          <5>1. queue' = Null
            BY <1>3, <3>1, <2>1 DEF FreeNode
          <5>2. list' \in Seq(Nodes)
            BY <1>0 DEF TypeOK
          <5>3. list' # <<>> => list'[Len(list')] # Null
            BY <5>2, NodesAssumption
          <5> QED
            BY <1>0, <3>1, <5>1, <5>3 DEF Current
        <4> QED
          BY <4>1, NothingPendingNext
      <3>2. CASE at' # "idle"
        BY <2>1, <3>2 DEF PendingItems
      <3> QED
        BY <3>1, <3>2
    <2> QED
      BY <2>1, <2>2, <2>3 DEF Abstract!vars
  <1>4. CASE Commit
    <2>1. at = "idle" /\ at' = "commit" /\ out' = <<>> /\ queue # Null
          /\ list' = list /\ pos' = pos /\ item' = item
      BY <1>4 DEF Commit, heap, aux
    <2>2. PendingItems' = PendingItems
      BY <2>1 DEF PendingItems
    <2>3. list # <<>> /\ pos = 1
      BY <1>0, <2>1 DEF Current
    <2>4. PendingItems # <<>>
      <3>1. Len(PendingItems) = Len(list)
        BY <2>1, <2>3, Pending
      <3>2. Len(list) # 0
        BY <1>0, <2>3, EmptySeq DEF TypeOK
      <3> QED
        BY <3>1, <3>2
    <2> QED
      BY <2>1, <2>2, <2>4 DEF Abstract!Begin, Abstract!Next
  <1>5. CASE CommitNext
    BY <1>5, CommitTransmits DEF Abstract!Next
  <1>6. CASE CommitEnd
    <2>1. at = "sent" /\ at' = "idle" /\ out' = out /\ list' = list /\ pos' = pos
      BY <1>6 DEF CommitEnd, aux
    <2>2. PendingItems = <<>>
      BY <2>1 DEF PendingItems
    <2>3. PendingItems' = <<>>
      BY <1>0, <2>1, NothingPendingNext DEF Current
    <2> QED
      BY <2>1, <2>2, <2>3 DEF Abstract!End, Abstract!Next
  <1>7. CASE Disconnect
    <2>1. CASE queue # Null
      <3>1. at = "idle" /\ at' = "free" /\ then' = "idle" /\ out' = out
        BY <1>7, <2>1 DEF Disconnect, StartFree
      <3>2. PendingItems' = <<>>
        BY <3>1 DEF PendingItems
      <3> QED
        BY <3>1, <3>2 DEF Abstract!Drop, Abstract!Next
    <2>2. CASE queue = Null
      <3>1. at = "idle" /\ at' = "idle" /\ out' = out /\ list' = list /\ pos' = pos
        BY <1>7, <2>2 DEF Disconnect
      <3>2. list = <<>> /\ pos = 1
        <4>1. list \in Seq(Nodes) /\ (list # <<>> => list[Len(list)] # Null)
          BY <1>0, NodesAssumption DEF TypeOK
        <4> QED
          BY <1>0, <2>2, <3>1, <4>1 DEF Current
      <3>3. PendingItems' = <<>>
        BY <3>1, <3>2, NothingPendingNext
      <3> QED
        BY <3>1, <3>3 DEF Abstract!Drop, Abstract!Next
    <2> QED
      BY <2>1, <2>2
  <1>8. CASE UNCHANGED vars
    BY <1>8 DEF vars, heap, aux, Abstract!vars, PendingItems
  <1> QED
    BY <1>1, <1>2, <1>3, <1>4, <1>5, <1>6, <1>7, <1>8 DEF Next

(* The linked list implements the command queue that libmpd promises: each *)
(* command queued is sent at most once, in order, by the next commit.      *)
THEOREM ListImplementsQueue == Spec => Implements
  <1>1. Init => Abstract!Init
    <2> SUFFICES ASSUME Init PROVE Abstract!Init
      OBVIOUS
    <2>1. PendingItems = <<>>
      BY NothingPending DEF Init
    <2> QED
      BY <2>1 DEF Init, Abstract!Init
  <1>2. QueueInv /\ QueueInv' /\ [Next]_vars => [Abstract!Next]_(Abstract!vars)
    BY StepImplements
  <1> QED
    BY <1>1, <1>2, QueueCorrect, PTL DEF Spec, Implements, Abstract!Spec
=============================================================================
