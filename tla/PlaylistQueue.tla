---------------------------- MODULE PlaylistQueue ----------------------------
(***************************************************************************)
(* The command queue of libmpd as it is built: a linked list on the heap,  *)
(* of which mi->queue is the last node while commands are added and the    *)
(* current one while they are sent (src/src/libmpd-playlist.c, lines 469   *)
(* to 654, and mpd_free_queue_ob and mpd_queue_get_next of libmpd.c).      *)
(* Each node knows the first one; the last node, when the list has been    *)
(* walked, is how the whole of it is freed.                                *)
(*                                                                         *)
(* The prev pointers are left out: they are written and never read.        *)
(***************************************************************************)
EXTENDS Integers, Sequences

CONSTANTS
  Nodes,      \* addresses: a bound on the commands queued at a time
  Null,
  Commands,   \* what may be queued
  Void        \* deletions of a negative id or position: never sent

ASSUME NodesAssumption == Null \notin Nodes
ASSUME CommandsAssumption == Void \subseteq Commands

VARIABLES
  connected,          \* mi->connected
  queue,              \* mi->queue
  next, first, item,  \* the fields of the nodes; what was freed is kept
  live,               \* the nodes that are allocated
  at, then,           \* what is running, and what after mpd_free_queue_ob
  out,                \* what was sent in the command list
  list, pos           \* auxiliary: the nodes in the order they were
                      \* queued, and which of them mi->queue is to send

heap == <<next, first, item, live>>
aux  == <<list, pos>>
vars == <<connected, queue, heap, at, then, out, aux>>

TypeOK ==
  /\ connected \in BOOLEAN
  /\ queue \in Nodes \cup {Null}
  /\ next \in [Nodes -> Nodes \cup {Null}] /\ first \in [Nodes -> Nodes \cup {Null}]
  /\ item \in [Nodes -> Commands]
  /\ live \subseteq Nodes
  /\ at \in {"idle", "commit", "free", "sent"} /\ then \in {"idle", "sent"}
  /\ out \in Seq(Commands)
  /\ list \in Seq(Nodes) /\ pos \in Nat

Init ==
  /\ connected = FALSE /\ queue = Null
  /\ next \in {[n \in Nodes |-> Null]} /\ first \in {[n \in Nodes |-> Null]}
  /\ item \in {[n \in Nodes |-> c] : c \in Commands}
  /\ live = {}
  /\ at = "idle" /\ then = "idle"
  /\ out = <<>>
  /\ list = <<>> /\ pos = 1

(* mpd_connect: an empty queue. *)
Connect ==
  /\ at = "idle" /\ ~connected
  /\ connected' = TRUE
  /\ UNCHANGED <<queue, heap, at, then, out, aux>>

(* Mutated: the new node does not learn of the first one. *)
EnqueueAlone(c) ==
  /\ at = "idle" /\ connected
  /\ \E n \in Nodes \ live :
       /\ live' = live \cup {n}
       /\ item' = [item EXCEPT ![n] = c]
       /\ first' = [first EXCEPT ![n] = n]
       /\ next' = IF queue = Null THEN [next EXCEPT ![n] = Null]
                  ELSE [next EXCEPT ![queue] = n, ![n] = Null]
       /\ queue' = n
       /\ list' = Append(list, n)
  /\ UNCHANGED <<connected, at, then, out, pos>>

(* mpd_playlist_queue_add, _load, _delete_id and _delete_pos: a new node   *)
(* after the last.                                                         *)
Enqueue(c) ==
  /\ at = "idle" /\ connected
  /\ \E n \in Nodes \ live :
       /\ live' = live \cup {n}
       /\ item' = [item EXCEPT ![n] = c]
       /\ first' = [first EXCEPT ![n] = IF queue = Null THEN n ELSE first[queue]]
       /\ next' = IF queue = Null THEN [next EXCEPT ![n] = Null]
                  ELSE [next EXCEPT ![queue] = n, ![n] = Null]
       /\ queue' = n
       /\ list' = Append(list, n)
  /\ UNCHANGED <<connected, at, then, out, pos>>

(* mpd_free_queue_ob goes back to the first node and frees them in turn. *)
StartFree(back) ==
  /\ queue' = first[queue]
  /\ at' = "free" /\ then' = back
  /\ pos' = 1

FreeNode ==
  /\ at = "free"
  /\ queue' = next[queue]
  /\ live' = live \ {queue}
  /\ at' = IF queue' = Null THEN then ELSE "free"
  /\ list' = Tail(list)
  /\ UNCHANGED <<connected, next, first, item, then, out, pos>>

(* Mutated: the list is sent from where the queue stands, its end. *)
CommitFromLast ==
  /\ at = "idle" /\ connected /\ queue # Null
  /\ at' = "commit" /\ out' = <<>>
  /\ UNCHANGED <<connected, queue, heap, then, aux>>

(* mpd_playlist_queue_commit: command_list_begin, then from the first. *)
Commit ==
  /\ at = "idle" /\ connected /\ queue # Null
  /\ at' = "commit" /\ out' = <<>>
  /\ queue' = first[queue]
  /\ UNCHANGED <<connected, heap, then, aux>>

(* One turn of its loop: the command is sent, unless it is void or the     *)
(* send fails (which nobody looks at), then mpd_queue_get_next.            *)
CommitNext ==
  /\ at = "commit"
  /\ \/ item[queue] \notin Void /\ out' = Append(out, item[queue])
     \/ UNCHANGED out
  /\ IF next[queue] # Null
       THEN queue' = next[queue] /\ pos' = pos + 1 /\ UNCHANGED <<at, then>>
       ELSE StartFree("sent")
  /\ UNCHANGED <<connected, heap, list>>

(* command_list_end, the reply, and mpd_unlock_conn, which may end in      *)
(* mpd_disconnect: that finds the queue empty.                             *)
CommitEnd ==
  /\ at = "sent"
  /\ at' = "idle"
  /\ connected' \in BOOLEAN
  /\ UNCHANGED <<queue, heap, then, out, aux>>

(* mpd_disconnect *)
Disconnect ==
  /\ at = "idle" /\ connected
  /\ connected' = FALSE
  /\ IF queue # Null THEN StartFree("idle") ELSE UNCHANGED <<queue, at, then, pos>>
  /\ UNCHANGED <<heap, out, list>>

Next ==
  \/ Connect \/ (\E c \in Commands : Enqueue(c)) \/ FreeNode
  \/ Commit \/ CommitNext \/ CommitEnd \/ Disconnect

Spec == Init /\ [][Next]_vars

-----------------------------------------------------------------------------
(* Properties. *)

(* No pointer the code is about to follow leads to a node that was freed   *)
(* (mpd_queue_get_next, mpd_free_queue_ob), and when mi->queue is given up *)
(* no node is left behind.                                                 *)
HeapSound ==
  /\ queue # Null => queue \in live
  /\ at \in {"idle", "commit"} /\ queue # Null => first[queue] \in live
  /\ at \in {"commit", "free"} => queue # Null /\ next[queue] \in live \cup {Null}
  /\ at \in {"idle", "sent"} /\ queue = Null => live = {}

(* The list implements a queue: every command queued is sent at most once, *)
(* in order, by the next commit, and by none after a disconnect.           *)
PendingItems ==
  IF at \in {"idle", "commit"}
  THEN [i \in 1..Len(list) - pos + 1 |-> item[list[pos + i - 1]]]
  ELSE <<>>

Abstract == INSTANCE CommandQueue WITH
  pending <- PendingItems,
  sending <- (at \in {"commit", "sent"} \/ (at = "free" /\ then = "sent"))

Implements == Abstract!Spec

-----------------------------------------------------------------------------
(* The inductive invariant: the links spell out the auxiliary list (proved *)
(* in PlaylistQueueProofs).                                                *)
Linked ==
  /\ \A i \in 1..Len(list) :
       /\ next[list[i]] = IF i < Len(list) THEN list[i + 1] ELSE Null
       /\ at # "free" => first[list[i]] = list[1]
  /\ \A i, j \in 1..Len(list) : list[i] = list[j] => i = j
  /\ live = {list[i] : i \in 1..Len(list)}

(* Where mi->queue points. *)
Current ==
  /\ at \in {"idle", "free", "sent"} => pos = 1
  /\ at = "idle" => queue = IF list = <<>> THEN Null ELSE list[Len(list)]
  /\ at = "commit" => pos \in 1..Len(list) /\ queue = list[pos]
  /\ at = "free" => list # <<>> /\ queue = list[1]
  /\ at = "sent" => list = <<>> /\ queue = Null

QueueInv == TypeOK /\ Linked /\ Current
=============================================================================
