---------------------------- MODULE CommandQueue ----------------------------
(***************************************************************************)
(* What the command queue of libmpd promises (src/src/libmpd-playlist.h,   *)
(* group "Command Queue"): commands are put by in order, nothing is done   *)
(* until the commit, and the commit sends them in one command list.  Each  *)
(* leaves at most once; one may be lost when the connection fails, and     *)
(* one that is void is skipped.                                            *)
(***************************************************************************)
EXTENDS Sequences

CONSTANTS
  Commands,   \* what may be queued
  Void        \* the commands among them that are never sent

VARIABLES
  pending,    \* the commands queued and not sent
  sending,    \* a commit is under way
  out         \* the commands of the last commit, as sent

vars == <<pending, sending, out>>

Init == pending = <<>> /\ sending = FALSE /\ out = <<>>

Put(c) ==
  /\ ~sending
  /\ pending' = Append(pending, c)
  /\ UNCHANGED <<sending, out>>

Begin ==
  /\ ~sending /\ pending # <<>>
  /\ sending' = TRUE /\ out' = <<>>
  /\ UNCHANGED pending

Transmit ==
  /\ sending /\ pending # <<>>
  /\ pending' = Tail(pending)
  /\ \/ Head(pending) \notin Void /\ out' = Append(out, Head(pending))
     \/ UNCHANGED out
  /\ UNCHANGED sending

End ==
  /\ sending /\ pending = <<>>
  /\ sending' = FALSE
  /\ UNCHANGED <<pending, out>>

(* The connection is closed: what was queued for it is forgotten. *)
Drop ==
  /\ ~sending
  /\ pending' = <<>>
  /\ UNCHANGED <<sending, out>>

Next == (\E c \in Commands : Put(c)) \/ Begin \/ Transmit \/ End \/ Drop

Spec == Init /\ [][Next]_vars
=============================================================================
