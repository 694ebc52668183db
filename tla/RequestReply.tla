---------------------------- MODULE RequestReply ----------------------------
(***************************************************************************)
(* What the protocol engine of libmpd promises to a function that takes    *)
(* the connection, sends one command, reads and gives the connection back  *)
(* (mpd_lock_conn ... mpd_unlock_conn): it reads the reply to that command *)
(* and nothing else, to its end or to an error.  A reply that was refused  *)
(* (ACK) may be forgiven; after any other error the connection is given    *)
(* up.  A function that does not finish its command stops at a line that   *)
(* is not understood: the next function is then told so and has the rest   *)
(* to read.  There is no wire here, no server, and nothing is ever late.   *)
(***************************************************************************)
EXTENDS Naturals, Sequences

CONSTANT Elements  \* what a reply may hold before its end

VARIABLES
  phase,    \* of the function: idle, called, waiting, over
  asked,    \* commands asked on this connection
  reply,    \* what is left to read of the reply
  verdict   \* the error so far

vars == <<phase, asked, reply, verdict>>

Ends == {"OK", "ACK"}

(* A reply to command n: any elements, then one end. *)
Whole(r, n) ==
  /\ r \in Seq([of : {n}, text : Elements \cup Ends])
  /\ r # <<>>
  /\ \A i \in 1..Len(r) : r[i].text \in Ends <=> i = Len(r)

Init == phase = "idle" /\ asked = 0 /\ reply = <<>> /\ verdict = "none"

Call ==
  /\ phase = "idle" /\ phase' = "called"
  /\ UNCHANGED <<asked, reply, verdict>>

Ask ==
  /\ phase = "called" /\ reply = <<>>
  /\ \/ phase' = "waiting" /\ asked' = asked + 1 /\ UNCHANGED verdict
     \/ phase' = "over" /\ verdict' = "fatal" /\ UNCHANGED asked
  /\ UNCHANGED reply

(* Nothing is asked while the last reply has not been read to its end. *)
Refuse ==
  /\ phase = "called" /\ reply # <<>>
  /\ phase' = "waiting" /\ verdict' = "protocol"
  /\ UNCHANGED <<asked, reply>>

(* One whole reply to the command that was asked last. *)
Answer ==
  /\ phase = "waiting" /\ reply = <<>>
  /\ Whole(reply', asked)
  /\ UNCHANGED <<phase, asked, verdict>>

(* The end of the reply is the end of the reading; ACK is an error, and so *)
(* is a line that cannot be understood, unless an ACK follows.  Of a line  *)
(* without a colon no notice is taken, but that the reading may end there. *)
Read ==
  /\ phase = "waiting" /\ reply # <<>>
  /\ reply' = Tail(reply)
  /\ verdict' = CASE Head(reply).text = "ACK"                -> "ack"
                  [] Head(reply).text \in {"junk", "list_OK"} -> "protocol"
                  [] OTHER                                    -> verdict
  /\ \/ phase' = "over"
        /\ (Head(reply).text \in Ends \cup {"bare"} \/ verdict' = "protocol")
     \/ phase' = "waiting" /\ Head(reply).text \notin Ends
  /\ UNCHANGED asked

(* What was read may not be enough. *)
Complain ==
  /\ phase = "over" /\ verdict = "none"
  /\ verdict' = "protocol"
  /\ UNCHANGED <<phase, asked, reply>>

(* What is not there in time is never seen. *)
GiveUp ==
  /\ phase = "waiting"
  /\ phase' = "over" /\ reply' = <<>> /\ verdict' = "fatal"
  /\ UNCHANGED asked

(* The connection is kept, with what is left of the reply, or given up. *)
Return ==
  /\ phase = "over"
  /\ phase' = "idle" /\ verdict' = "none"
  /\ \/ verdict \in {"none", "ack"} /\ UNCHANGED <<asked, reply>>
     \/ verdict # "none" /\ asked' = 0 /\ reply' = <<>>

Renew ==
  /\ phase = "idle" /\ asked' = 0 /\ reply' = <<>>
  /\ UNCHANGED <<phase, verdict>>

Next == Call \/ Ask \/ Refuse \/ Answer \/ Read \/ Complain \/ GiveUp \/ Return \/ Renew

Spec == Init /\ [][Next]_vars
=============================================================================
