--------------------------- MODULE MpdConnection ---------------------------
(***************************************************************************)
(* The protocol engine of src/src/libmpdclient.c: one mpd_Connection, the  *)
(* server at its other end, and the callers in libmpd that send commands   *)
(* and read the replies.                                                   *)
(*                                                                         *)
(* Nothing on the wire says which command a line answers: the engine only  *)
(* counts.  Here every line carries the number of its command, which the   *)
(* engine never looks at and the properties do.  The server answers when   *)
(* it likes; the client waits for a line until its timeout, so a timeout   *)
(* may always race with a late answer.                                     *)
(***************************************************************************)
EXTENDS Integers, Sequences

CONSTANTS
  Sections,    \* the ways of using the connection that callers take
  Lossy,       \* sends may fail and reads may time out
  Elements,    \* what the server may put before the end of a reply
  MaxCommands, \* bound: commands sent on one connection
  MaxItems,    \* bound: commands in a command list
  MaxElements  \* bound: elements in a reply

(* "single" is mpd_lock_conn, a command, its reply, mpd_finishCommand,     *)
(* mpd_unlock_conn; "status" does without mpd_finishCommand: the beginning *)
(* of mpd_status_update, mpd_stats_update, and the commit of a statistics  *)
(* search; "double" is mpd_server_get_allowed_commands; "unchecked" are    *)
(* the last commands of mpd_status_update; "load" is mpd_playlist_load;    *)
(* "list" is mpd_playlist_queue_commit and the command list of             *)
(* mpd_playlist_get_song_from_pos_range, both of which may be empty;       *)
(* "listOk" is the list_OK interface, which libmpd exports and does not    *)
(* use itself.                                                             *)
Lists == {"list", "listOk"}
SectionKind == {"single", "status", "double", "unchecked", "load"} \cup Lists

(* A line before the end of a reply is a pair "key: value", or it is       *)
(* malformed: junk ("key:value"), bare (no colon), or a list_OK, which may *)
(* be one too many.                                                        *)
Malformed == {"junk", "bare", "list_OK"}

ASSUME SectionsAssumption == Sections \subseteq SectionKind
ASSUME LossyAssumption == Lossy \in BOOLEAN
ASSUME ElementsAssumption ==
  Elements \subseteq {"pair"} \cup Malformed /\ "pair" \in Elements
ASSUME BoundsAssumption ==
  MaxCommands \in Nat /\ MaxItems \in Nat \ {0} /\ MaxElements \in Nat

VARIABLES
  done,        \* connection->doneProcessing
  listMode,    \* connection->commandList
  listOks,     \* connection->listOks
  doneListOk,  \* connection->doneListOk
  error,       \* connection->error: 0, 1, MPD_ERROR_ACK or another
  code,        \* connection->errorCode: of a missing playlist or another
  section, at, left,  \* the caller: its kind, where it is, commands to send
  sent,        \* the number of the last command sent
  partial,     \* the server holds the beginning of a line
  inbox,       \* commands the server has not looked at
  collecting,  \* the server is in a command list, of which kind
  gathered,    \* the commands in it
  spoiled,     \* one of them is garbled
  wire,        \* the lines the client has not read
  open         \* the server has not closed the connection

engine == <<done, listMode, listOks, doneListOk, error, code>>
caller == <<section, at, left>>
server == <<collecting, gathered, spoiled, open>>
channel == <<sent, partial, inbox, server, wire>>
vars   == <<engine, caller, channel>>

ListMode == {"no", "list", "listOk"}
Command == [id : Nat, kind : {"plain", "list", "listOk", "end", "garbled"}]
Line == [of : Nat, text : Elements \cup {"OK", "list_OK", "ACK"}]

TypeOK ==
  /\ done \in BOOLEAN /\ doneListOk \in BOOLEAN
  /\ listMode \in ListMode /\ listOks \in Nat
  /\ error \in {"none", "protocol", "ack", "fatal"}
  /\ code \in {"none", "noExist", "other"}
  /\ section \in SectionKind
  /\ at \in {"idle", "begin", "send", "end", "read", "got", "finish", "loaded", "check"}
  /\ left \in Nat /\ sent \in Nat
  /\ partial \in BOOLEAN /\ spoiled \in BOOLEAN /\ open \in BOOLEAN
  /\ collecting \in ListMode /\ gathered \in Nat
  /\ inbox \in Seq(Command) /\ wire \in Seq(Line)

(* mpd_newConnection, the welcome line read: doneProcessing is 1 and the   *)
(* rest is zeroed.                                                         *)
Fresh ==
  [done |-> TRUE, listMode |-> "no", listOks |-> 0, doneListOk |-> FALSE,
   error |-> "none", code |-> "none"]

Init ==
  /\ done = Fresh.done /\ listMode = Fresh.listMode /\ listOks = Fresh.listOks
  /\ doneListOk = Fresh.doneListOk /\ error = Fresh.error /\ code = Fresh.code
  /\ section = "single" /\ at = "idle" /\ left = 0
  /\ sent = 0
  /\ partial = FALSE /\ inbox = <<>> /\ wire = <<>>
  /\ collecting = "no" /\ gathered = 0 /\ spoiled = FALSE /\ open = TRUE

(* mpd_disconnect closes the connection and mpd_connect opens another.     *)
Reconnect ==
  /\ done' = Fresh.done /\ listMode' = Fresh.listMode /\ listOks' = Fresh.listOks
  /\ doneListOk' = Fresh.doneListOk /\ error' = Fresh.error /\ code' = Fresh.code
  /\ section' = "single" /\ at' = "idle" /\ left' = 0
  /\ sent' = 0
  /\ partial' = FALSE /\ inbox' = <<>> /\ wire' = <<>>
  /\ collecting' = "no" /\ gathered' = 0 /\ spoiled' = FALSE /\ open' = TRUE

-----------------------------------------------------------------------------
(* The engine. *)

(* Mutated: a command is sent although the last one is not done. *)
ExecuteBusy(kind, m) ==
  /\ listMode' = m
  /\ UNCHANGED <<doneListOk, code, wire, server>>
  /\ \/ /\ error' = "none"
        /\ sent' = sent + 1
        /\ partial' = FALSE
        /\ inbox' = Append(inbox, [id |-> sent + 1,
                                  kind |-> IF partial THEN "garbled" ELSE kind])
        /\ done' = (done /\ m # "no")
     \/ /\ Lossy
        /\ error' = "fatal"
        /\ partial' \in {partial, TRUE}
        /\ UNCHANGED <<done, sent, inbox>>

(* mpd_executeCommand in list mode m.  The text may leave completely, not  *)
(* at all, or in part.                                                     *)
Execute(kind, m) ==
  /\ listMode' = m
  /\ UNCHANGED <<doneListOk, code, wire, server>>
  /\ IF ~done /\ m = "no"
       THEN error' = "protocol" /\ UNCHANGED <<done, sent, partial, inbox>>
       ELSE \/ /\ error' = "none"
               /\ sent' = sent + 1
               /\ partial' = FALSE
               /\ inbox' = Append(inbox, [id |-> sent + 1,
                                         kind |-> IF partial THEN "garbled" ELSE kind])
               /\ done' = (done /\ m # "no")
            \/ /\ Lossy
               /\ error' = "fatal"
               /\ partial' \in {partial, TRUE}
               /\ UNCHANGED <<done, sent, inbox>>

(* Mutated: a list_OK is counted although none is expected. *)
DigestCounting(text, d) ==
  CASE text = "OK" ->
         /\ error' = IF listOks > 0 THEN "protocol" ELSE error
         /\ listOks' = 0
         /\ done' = TRUE /\ doneListOk' = FALSE
         /\ UNCHANGED code
    [] text = "list_OK" ->
         /\ doneListOk' = TRUE /\ listOks' = listOks - 1
         /\ UNCHANGED <<done, error, code>>
    [] text = "ACK" ->
         /\ error' = "ack" /\ code' \in {"noExist", "other"}
         /\ done' = TRUE /\ doneListOk' = FALSE
         /\ UNCHANGED listOks
    [] OTHER ->
         /\ error' = IF text = "junk" THEN "protocol" ELSE error
         /\ doneListOk' = d
         /\ UNCHANGED <<done, listOks, code>>

(* What mpd_getNextReturnElement does with a line, doneListOk being d.  Of *)
(* a bare line it takes no notice: no element, no error, not done.         *)
Digest(text, d) ==
  CASE text = "OK" ->
         /\ error' = IF listOks > 0 THEN "protocol" ELSE error
         /\ listOks' = 0
         /\ done' = TRUE /\ doneListOk' = FALSE
         /\ UNCHANGED code
    [] text = "list_OK" ->
         /\ IF listOks = 0
              THEN error' = "protocol" /\ doneListOk' = d /\ UNCHANGED listOks
              ELSE doneListOk' = TRUE /\ listOks' = listOks - 1 /\ UNCHANGED error
         /\ UNCHANGED <<done, code>>
    [] text = "ACK" ->
         /\ error' = "ack" /\ code' \in {"noExist", "other"}
         /\ done' = TRUE /\ doneListOk' = FALSE
         /\ UNCHANGED listOks
    [] OTHER ->
         /\ error' = IF text = "junk" THEN "protocol" ELSE error
         /\ doneListOk' = d
         /\ UNCHANGED <<done, listOks, code>>

(* Mutated: doneProcessing is not set on a timeout. *)
GetNextNotDone(d) ==
  /\ \/ wire # <<>> /\ Digest(Head(wire).text, d) /\ wire' = Tail(wire)
     \/ Lossy /\ error' = "fatal" /\ UNCHANGED <<done, listOks, doneListOk, code, wire>>
  /\ UNCHANGED <<listMode, sent, partial, inbox, server>>

(* mpd_getNextReturnElement: the next line, or a timeout, a line that is   *)
(* longer than the buffer, or the end of the stream.  What has not been    *)
(* read stays where it is.                                                 *)
GetNext(d) ==
  /\ \/ /\ wire # <<>>
        /\ Digest(Head(wire).text, d)
        /\ wire' = Tail(wire)
     \/ /\ Lossy \/ (~open /\ wire = <<>>)
        /\ error' = "fatal"
        /\ done' = TRUE /\ doneListOk' = FALSE
        /\ UNCHANGED <<listOks, code, wire>>
  /\ UNCHANGED <<listMode, sent, partial, inbox, server>>

-----------------------------------------------------------------------------
(* The callers. *)

Cost(s, n) == IF s \in Lists THEN n + 2 ELSE n

Start ==
  /\ at = "idle"
  /\ \E s \in Sections :
       \E n \in IF s \in Lists THEN 0..MaxItems ELSE {IF s = "double" THEN 2 ELSE 1} :
         /\ sent + Cost(s, n) <= MaxCommands
         /\ section' = s
         /\ left' = n
         /\ at' = IF s \in Lists THEN "begin" ELSE "send"
  /\ UNCHANGED <<engine, channel>>

(* mpd_sendCommandListBegin and mpd_sendCommandListOkBegin *)
ListBegin ==
  /\ at = "begin"
  /\ IF listMode = "no"
       THEN Execute(section, section) /\ listOks' = IF section = "listOk" THEN 0 ELSE listOks
       ELSE error' = "protocol" /\ UNCHANGED <<done, listMode, listOks, doneListOk, code, channel>>
  /\ at' = IF left = 0 THEN "end" ELSE "send"
  /\ UNCHANGED <<section, left>>

(* mpd_sendStatusCommand, mpd_sendAddCommand, ... *)
Send ==
  /\ at = "send"
  /\ Execute("plain", listMode)
  /\ listOks' = IF listMode = "listOk" /\ sent' # sent THEN listOks + 1 ELSE listOks
  /\ left' = left - 1
  /\ at' = IF listMode = "no" THEN "read" ELSE IF left = 1 THEN "end" ELSE "send"
  /\ UNCHANGED section

(* mpd_sendCommandListEnd *)
ListEnd ==
  /\ at = "end"
  /\ IF listMode # "no"
       THEN Execute("end", "no") /\ UNCHANGED listOks
       ELSE error' = "protocol" /\ UNCHANGED <<done, listMode, listOks, doneListOk, code, channel>>
  /\ at' = "read"
  /\ UNCHANGED <<section, left>>

(* mpd_getNextInfoEntity, ...: nothing is read when the reply, or this     *)
(* part of it, is over.                                                    *)
Read ==
  /\ at = "read" /\ section # "status"
  /\ ~done /\ ~(listOks > 0 /\ doneListOk)
  /\ GetNext(doneListOk)
  /\ UNCHANGED caller

(* mpd_getStatus, mpd_getStats, mpd_getSearchStats: pairs are read up to   *)
(* the first line that is none, or an error.                               *)
ReadStatus ==
  /\ at = "read" /\ section = "status"
  /\ ~done /\ ~(listOks > 0 /\ doneListOk)
  /\ GetNext(doneListOk)
  /\ at' = IF error' = "none" /\ Head(wire).text = "pair" THEN "read" ELSE "got"
  /\ UNCHANGED <<section, left>>

(* They return without mpd_finishCommand; "state not found" is an error of *)
(* mpd_getStatus itself.  Nothing is read after a send that failed.        *)
StatusGot ==
  /\ section = "status"
  /\ \/ at = "got" /\ error' \in {error} \cup (IF error = "none" THEN {"protocol"} ELSE {})
     \/ at = "read" /\ (done \/ (listOks > 0 /\ doneListOk)) /\ UNCHANGED error
  /\ at' = "check"
  /\ UNCHANGED <<done, listMode, listOks, doneListOk, code, section, left, channel>>

(* mpd_nextListOkCommand, once this part is read. *)
NextListOk ==
  /\ at = "read" /\ section = "listOk"
  /\ ~done /\ doneListOk
  /\ doneListOk' = FALSE
  /\ UNCHANGED <<done, listMode, listOks, error, code, caller, channel>>

(* The caller has what it wants and calls mpd_finishCommand. *)
StopReading ==
  /\ at = "read" /\ section # "status"
  /\ at' = "finish"
  /\ UNCHANGED <<engine, section, left, channel>>

(* mpd_finishCommand forgets a list_OK before it reads on. *)
Finish ==
  /\ at = "finish" /\ ~done
  /\ GetNext(FALSE)
  /\ UNCHANGED caller

(* Mutated: the caller forgets mpd_finishCommand. *)
FinishedEarly ==
  /\ at = "finish"
  /\ at' = IF section = "unchecked" THEN "idle" ELSE "check"
  /\ UNCHANGED <<engine, section, left, channel>>

Finished ==
  /\ at = "finish" /\ done
  /\ at' = CASE section \notin Lists /\ left > 0 -> "send"
             [] section = "load" -> "loaded"
             [] section = "unchecked" -> "idle"
             [] OTHER -> "check"
  /\ UNCHANGED <<engine, section, left, channel>>

(* mpd_playlist_load looks for MPD_ACK_ERROR_NO_EXIST before unlocking.    *)
Loaded ==
  /\ at = "loaded"
  /\ error' = IF code = "noExist" THEN "none" ELSE error
  /\ at' = "check"
  /\ UNCHANGED <<done, listMode, listOks, doneListOk, code, section, left, channel>>

(* Mutated: every error is cleared and the connection kept. *)
CheckForgives ==
  /\ at = "check" /\ at' = "idle"
  /\ error' = "none"
  /\ UNCHANGED <<done, listMode, listOks, doneListOk, code, section, left, channel>>

(* mpd_unlock_conn, mpd_check_error: an ACK is cleared, anything else ends *)
(* the connection.  The client may answer an ACK with a disconnect.        *)
Check ==
  /\ at = "check"
  /\ \/ /\ error \in {"none", "ack"}
        /\ error' = "none"
        /\ at' = "idle"
        /\ UNCHANGED <<done, listMode, listOks, doneListOk, code, section, left, channel>>
     \/ error # "none" /\ Reconnect

Disconnect == at = "idle" /\ Reconnect

-----------------------------------------------------------------------------
(* The server. *)

Lines(texts) == [i \in DOMAIN texts |-> [of |-> Head(inbox).id, text |-> texts[i]]]

(* Some elements, the list_OKs of the n commands that succeeded, the end.  *)
Reply(n, end) ==
  \E k \in 0..MaxElements :
    \E body \in [1..k -> Elements] :
      wire' = wire \o Lines(body) \o Lines([i \in 1..n |-> "list_OK"]) \o Lines(<<end>>)

(* Outside a list; there is nothing to end there, and no garbled command.  *)
Answer ==
  /\ collecting = "no"
  /\ IF Head(inbox).kind \in Lists
       THEN collecting' = Head(inbox).kind /\ UNCHANGED wire
       ELSE /\ \/ Head(inbox).kind = "plain" /\ Reply(0, "OK")
               \/ Reply(0, "ACK")
            /\ UNCHANGED collecting
  /\ UNCHANGED <<gathered, spoiled>>

(* In a list commands are put by; its end runs them, up to a failure.      *)
Collect ==
  /\ collecting # "no"
  /\ IF Head(inbox).kind # "end"
       THEN /\ gathered' = gathered + 1
            /\ spoiled' = (spoiled \/ Head(inbox).kind # "plain")
            /\ UNCHANGED <<collecting, wire>>
       ELSE /\ \/ ~spoiled /\ Reply(IF collecting = "listOk" THEN gathered ELSE 0, "OK")
               \/ \E n \in 0..gathered :
                    n < gathered /\ Reply(IF collecting = "listOk" THEN n ELSE 0, "ACK")
            /\ collecting' = "no" /\ gathered' = 0 /\ spoiled' = FALSE

Serve ==
  /\ open /\ inbox # <<>>
  /\ Answer \/ Collect
  /\ inbox' = Tail(inbox)
  /\ UNCHANGED <<engine, caller, sent, partial, open>>

ServerCloses ==
  /\ Lossy /\ open
  /\ open' = FALSE
  /\ UNCHANGED <<engine, caller, sent, partial, inbox, collecting, gathered, spoiled, wire>>

-----------------------------------------------------------------------------
Section ==
  \/ ListBegin \/ Send \/ ListEnd \/ Read \/ ReadStatus \/ StatusGot
  \/ NextListOk \/ StopReading \/ Finish \/ Finished \/ Loaded \/ Check

Next == Start \/ Section \/ Disconnect \/ Serve \/ ServerCloses

(* A caller in the middle of a section goes on; where it waits for the     *)
(* socket it waits in a select with a timeout.  Nothing is asked of the    *)
(* server.                                                                 *)
Spec == Init /\ [][Next]_vars /\ WF_vars(Section)

-----------------------------------------------------------------------------
(* Properties. *)

(* The line a caller is about to read answers the command it sent last     *)
(* (mpd_getNextReturnElement, mpd_finishCommand).                          *)
InSync ==
  at \in {"read", "finish"} /\ ~done /\ wire # <<>> => Head(wire).of = sent

(* Between sections the engine takes a new command: no path through a      *)
(* timeout, a failed send, an ACK or a malformed line leaves it "not done  *)
(* processing" or in command list mode.  The one exception is a section    *)
(* without mpd_finishCommand that met a line it takes without an error: a  *)
(* bare one, or, where the list_OK interface is used, a list_OK that an    *)
(* earlier list had counted on and did not get.                            *)
Silent == "bare" \in Elements \/ "listOk" \in Sections

Ready ==
  at = "idle" => listMode = "no" /\ (done \/ (section = "status" /\ Silent))

(* Every section ends, whatever the server does or fails to do. *)
SectionsEnd == (at # "idle") ~> (at = "idle")

(* With one checked command to a section, the engine, the server and the   *)
(* wire between them implement one request with one reply: what a section  *)
(* reads is the reply to its command from the first line to the last or to *)
(* the error it ends with, and what comes late is seen by nobody.  Where   *)
(* mpd_finishCommand is left out (mpd_status_update, mpd_stats_update) the *)
(* rest of a reply may be left over; then the next command is not sent and *)
(* the next section reads that rest, and no reply to another command.      *)
Waiting == at \in {"read", "finish"} /\ ~done

Phase ==
  CASE at = "idle" -> "idle"
    [] at = "send" -> "called"
    [] Waiting     -> "waiting"
    [] OTHER       -> "over"

Unread == IF done THEN <<>> ELSE wire

Abstract == INSTANCE RequestReply WITH
  phase <- Phase, asked <- sent, reply <- Unread, verdict <- error

Implements == Abstract!Spec

-----------------------------------------------------------------------------
(* The inductive invariants behind Ready, InSync and Implements (proved in *)
(* MpdConnectionProofs).                                                   *)

(* Why no section that finishes its command leaves the engine busy, and    *)
(* none leaves it in list mode.                                            *)
ReadyInv ==
  /\ section \in Sections \cup {"single"} /\ (listOks # 0 => "listOk" \in Sections)
  /\ at \in {"idle", "begin", "read", "got", "finish", "loaded", "check"} => listMode = "no"
  /\ at = "send" => listMode = IF section \in Lists THEN section ELSE "no"
  /\ at = "begin" => section \in Lists
  /\ at = "got" => section = "status"
  /\ at = "loaded" => done
  /\ at \in {"idle", "check"} /\ ~done => section = "status"
  /\ at \in {"got", "check"} /\ ~done /\ error \in {"none", "ack"} => Silent
  /\ at = "idle" /\ ~done => Silent
  /\ error = "ack" => done

(* With one command to a section there is one command under way.  The      *)
(* server has it, or has answered it; the answer has one end, and when the *)
(* end has been read without an error that closes the connection nothing   *)
(* is left that could be taken for the next answer.  When the end has not  *)
(* been read it is still there, and the engine is not done.                *)
Pending == [id |-> sent, kind |-> "plain"]

SingleInv ==
  /\ section \in {"single", "status"} /\ listMode = "no" /\ listOks = 0 /\ collecting = "no"
  /\ at \in {"idle", "send", "read", "got", "finish", "check"}
  /\ left = (IF at = "send" THEN 1 ELSE 0)
  /\ sent \in Nat
  /\ section = "single" /\ at \in {"idle", "check"} => done
  /\ ~done => error \in {"none", "protocol"}
  /\ at \in {"idle", "send"} => error = "none"
  /\ ~done /\ at \notin {"read", "finish"} => wire # <<>>
  /\ inbox = <<>> \/ (inbox = <<Pending>> /\ wire = <<>>)
  /\ wire \in Seq(Line)
  /\ \A i \in 1..Len(wire) : wire[i].of = sent /\ (wire[i].text \in {"OK", "ACK"} <=> i = Len(wire))
  /\ partial => done /\ error = "fatal"
  /\ done /\ error \in {"none", "ack"} => inbox = <<>> /\ wire = <<>>

(* On a connection that loses nothing each section, of whatever kind, has  *)
(* one reply: to its command, or to the end of its list. While a list is   *)
(* being sent the server has its beginning or collects it, and answers     *)
(* nothing; when the reply has been read nothing is under way.             *)
Plain(a, b) == \A i \in a..b : inbox[i].kind = "plain"

ListUnderWay ==
  /\ wire = <<>>
  /\ IF collecting = "no"
       THEN inbox # <<>> /\ inbox[1].kind \in Lists /\ Plain(2, Len(inbox))
       ELSE Plain(1, Len(inbox))

Unanswered ==
  /\ wire = <<>> /\ inbox # <<>>
  /\ LET n == Len(inbox) IN
     /\ inbox[n].id = sent
     /\ \/ n = 1 /\ collecting = "no" /\ inbox[1].kind = "plain"
        \/ /\ inbox[n].kind = "end"
           /\ IF collecting = "no"
                THEN n > 1 /\ inbox[1].kind \in Lists /\ Plain(2, n - 1)
                ELSE Plain(1, n - 1)

Answered ==
  /\ inbox = <<>> /\ collecting = "no" /\ wire # <<>>
  /\ \A i \in 1..Len(wire) : wire[i].of = sent /\ (wire[i].text \in {"OK", "ACK"} <=> i = Len(wire))

ReliableInv ==
  /\ ~partial /\ open
  /\ at \in {"idle", "begin", "send", "end"} => done
  /\ IF ~done THEN listMode = "no" /\ (Unanswered \/ Answered)
     ELSE IF listMode # "no" THEN ListUnderWay
     ELSE inbox = <<>> /\ wire = <<>> /\ collecting = "no"
=============================================================================
