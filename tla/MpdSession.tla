----------------------------- MODULE MpdSession -----------------------------
(***************************************************************************)
(* The session core of libmpd: src/src/libmpd.c and the status machinery   *)
(* of src/src/libmpd-status.c and src/src/libmpd-player.c.                 *)
(*                                                                         *)
(* libmpd is single threaded.  What makes it hard is REENTRANCY: an error, *)
(* a connection change or a status change is reported through a callback,  *)
(* in the middle of a library call, and the application may call the       *)
(* library again from there.  The model is the call stack: frame[1] is the *)
(* application's main loop, frame[depth] is the running function.  A frame *)
(* is a function and the label it is at (or will resume at).  Commands and *)
(* replies are an outcome: what mpd_finishCommand leaves in                *)
(* connection->error.                                                      *)
(***************************************************************************)
EXTENDS Integers

CONSTANTS
  MaxDepth,   \* bound: frames on the call stack
  Calls,      \* Calls[c] = the entry points client code c may call
  Outcomes    \* what a command may leave in connection->error

(***************************************************************************)
(* Client code: the main loop and the three callbacks.                     *)
(***************************************************************************)
Callbacks == {"onError", "onConnection", "onStatus"}
Client == {"app"} \cup Callbacks

(* mpd_lock_conn ... mpd_unlock_conn brackets.  "set" stands for the       *)
(* setters that end in mpd_status_queue_update, "control" for the player   *)
(* commands that end in mpd_status_update.                                 *)
Sections == {"allowed", "sendPassword", "tagTypes", "updateOutputs",
             "setTimeout", "statusUpdate", "statsUpdate", "statsRefresh",
             "set", "setVolume", "control", "pause"}
Api == (Sections \ {"statsRefresh"}) \cup {"connect", "disconnect", "getter", "getStats"}
Function == Client \cup Sections \cup Api \cup {"check", "none"}

Label == {"entry", "locked", "unlocked", "open", "opened", "failed", "allowed",
          "auth", "outputs", "announced", "ack", "fatal", "disconnecting",
          "refreshed", "tagged", "notified", "notify", "checked"}
Frame == [fn : Function, at : Label]

(* The longest chain of library frames above one client frame, a callback  *)
(* included: getter, statusUpdate, statsRefresh, check, disconnect,        *)
(* onConnection.                                                           *)
CallSpan == 6

ErrorClass == {"none", "ack", "fatal"}

ASSUME MaxDepthAssumption == MaxDepth \in Nat /\ MaxDepth > CallSpan
ASSUME CallsAssumption == Calls \in [Client -> SUBSET Api]
ASSUME OutcomesAssumption == Outcomes \subseteq ErrorClass /\ "none" \in Outcomes

VARIABLES
  connected,    \* mi->connected
  conn,         \* mi->connection # NULL
  error,        \* mi->connection->error: 0, MPD_ERROR_ACK or another
  legacy,       \* the server is older than 0.12
  lock,         \* mi->connection_lock
  status,       \* mi->status # NULL
  stats,        \* mi->stats # NULL
  hasIdle,      \* mi->has_idle
  hasOutputs,   \* mi->num_outputs > 0
  depth, frame, \* the call stack
  ret,          \* what the last return gave: MPD_OK (0) or not
  announced,    \* the last argument of the connection-changed callback
  fault         \* a NULL pointer was dereferenced, and where

session == <<connected, conn, error, legacy, lock>>
cache   == <<status, stats, hasIdle, hasOutputs>>
stack   == <<depth, frame, ret>>
vars    == <<session, cache, stack, announced, fault>>

Faults == {"none", "connection", "status", "getter", "stats"}

TypeOK ==
  /\ connected \in BOOLEAN /\ conn \in BOOLEAN /\ legacy \in BOOLEAN
  /\ lock \in BOOLEAN /\ error \in ErrorClass
  /\ status \in BOOLEAN /\ stats \in BOOLEAN
  /\ hasIdle \in BOOLEAN /\ hasOutputs \in BOOLEAN
  /\ depth \in 1..MaxDepth
  /\ frame \in [1..MaxDepth -> Frame]
  /\ ret \in {"ok", "error"}
  /\ announced \in BOOLEAN
  /\ fault \in Faults

At(f, a) == [fn |-> f, at |-> a]
Unused == At("none", "entry")
Top == frame[depth]

(* mpd_create: not connected, and locked because not connected. *)
Init ==
  /\ connected = FALSE /\ conn = FALSE /\ error = "none" /\ legacy = FALSE
  /\ lock = TRUE
  /\ status = FALSE /\ stats = FALSE /\ hasIdle = FALSE /\ hasOutputs = FALSE
  /\ depth = 1
  /\ frame = [i \in 1..MaxDepth |-> IF i = 1 THEN At("app", "entry") ELSE Unused]
  /\ ret = "ok"
  /\ announced = FALSE
  /\ fault = "none"

-----------------------------------------------------------------------------
(* The call stack. *)

Running(f, a) == fault = "none" /\ Top = At(f, a)

Goto(a) ==
  /\ frame' = [frame EXCEPT ![depth] = At(Top.fn, a)]
  /\ UNCHANGED depth

(* The running function calls f and will resume at a. *)
CallThen(f, a) ==
  /\ depth < MaxDepth
  /\ depth' = depth + 1
  /\ frame' = [frame EXCEPT ![depth] = At(Top.fn, a), ![depth + 1] = At(f, "entry")]

(* A call in tail position. *)
Become(f) ==
  /\ frame' = [frame EXCEPT ![depth] = At(f, "entry")]
  /\ UNCHANGED depth

Return(r) ==
  /\ depth' = depth - 1
  /\ frame' = [frame EXCEPT ![depth] = Unused]
  /\ ret' = r

(* Client code calls the library, with room for what the call may push. *)
ClientCall(f) ==
  /\ fault = "none"
  /\ Top.fn \in Client
  /\ f \in Calls[Top.fn]
  /\ depth + CallSpan <= MaxDepth
  /\ CallThen(f, Top.at)
  /\ UNCHANGED <<session, cache, ret, announced, fault>>

(* A callback returns; the error callback answers whether to disconnect. *)
CallbackReturn ==
  /\ fault = "none"
  /\ Top.fn \in Callbacks
  /\ \E r \in {"ok", "error"} :
        /\ Top.fn # "onError" => r = "ok"
        /\ Return(r)
  /\ UNCHANGED <<session, cache, announced, fault>>

-----------------------------------------------------------------------------
(* Errors, disconnecting and the lock. *)

(* mpd_check_error, for a caller that resumes at a.  Without a connection  *)
(* it fails, without an error it succeeds; the rest is the frame "check".  *)
CheckError(a) ==
  IF conn /\ error # "none"
  THEN CallThen("check", a) /\ UNCHANGED ret
  ELSE Goto(a) /\ ret' = IF conn THEN "ok" ELSE "error"

(* An error of mpd's own (ACK) is cleared before the client hears of it;   *)
(* any other one ends in mpd_disconnect whatever the client answers.       *)
CheckReport ==
  /\ Running("check", "entry")
  /\ IF error = "ack"
       THEN error' = "none" /\ CallThen("onError", "ack")
       ELSE UNCHANGED error /\ CallThen("onError", "fatal")
  /\ UNCHANGED <<connected, conn, legacy, lock, cache, ret, announced, fault>>

CheckResume ==
  /\ \/ /\ Running("check", "ack") /\ ret = "ok"
        /\ Return("error")
     \/ /\ \/ Running("check", "ack") /\ ret # "ok"
           \/ Running("check", "fatal")
        /\ CallThen("disconnect", "disconnecting") /\ UNCHANGED ret
     \/ /\ Running("check", "disconnecting")
        /\ Return("error")
  /\ UNCHANGED <<session, cache, announced, fault>>

(* Mutated: has_idle survives a disconnect. *)
DisconnectKeepsIdle ==
  /\ Running("disconnect", "entry")
  /\ lock' = TRUE
  /\ conn' = FALSE /\ error' = "none" /\ legacy' = FALSE
  /\ status' = FALSE /\ stats' = FALSE /\ hasOutputs' = FALSE
  /\ connected' = FALSE
  /\ IF connected
       THEN announced' = FALSE /\ CallThen("onConnection", "announced") /\ UNCHANGED ret
       ELSE UNCHANGED announced /\ Return("ok")
  /\ UNCHANGED <<hasIdle, fault>>

(* mpd_disconnect up to the connection-changed callback. *)
Disconnect ==
  /\ Running("disconnect", "entry")
  /\ lock' = TRUE
  /\ conn' = FALSE /\ error' = "none" /\ legacy' = FALSE
  /\ status' = FALSE /\ stats' = FALSE /\ hasIdle' = FALSE /\ hasOutputs' = FALSE
  /\ connected' = FALSE
  /\ IF connected
       THEN announced' = FALSE /\ CallThen("onConnection", "announced") /\ UNCHANGED ret
       ELSE UNCHANGED announced /\ Return("ok")
  /\ UNCHANGED fault

Disconnected ==
  /\ Running("disconnect", "announced")
  /\ Return("ok")
  /\ UNCHANGED <<session, cache, announced, fault>>

(* Mutated: an ACK returns early, before the lock is released. *)
UnlockAfterCheck ==
  /\ fault = "none"
  /\ Top.fn \in Sections /\ Top.at = "locked"
  /\ IF error = "ack" THEN UNCHANGED lock ELSE lock' = FALSE
  /\ IF lock THEN CheckError("unlocked")
             ELSE Goto("unlocked") /\ ret' = "error"
  /\ UNCHANGED <<connected, conn, error, legacy, cache, announced, fault>>

(* Mutated: the error is checked and the lock never released. *)
UnlockForgotten ==
  /\ fault = "none"
  /\ Top.fn \in Sections /\ Top.at = "locked"
  /\ CheckError("unlocked")
  /\ UNCHANGED <<session, cache, announced, fault>>

(* mpd_unlock_conn at the end of every locked section. *)
UnlockConn ==
  /\ fault = "none"
  /\ Top.fn \in Sections /\ Top.at = "locked"
  /\ lock' = FALSE
  /\ IF lock THEN CheckError("unlocked")
             ELSE Goto("unlocked") /\ ret' = "error"
  /\ UNCHANGED <<connected, conn, error, legacy, cache, announced, fault>>

-----------------------------------------------------------------------------
(* mpd_connect_real *)

ConnectEntry ==
  /\ Running("connect", "entry")
  /\ IF connected THEN CallThen("disconnect", "open") ELSE Goto("open")
  /\ UNCHANGED <<session, cache, ret, announced, fault>>

(* A new mpd_Connection replaces mi->connection, whatever was there; it    *)
(* carries an error when the welcome line did not arrive.                  *)
ConnectOpen ==
  /\ Running("connect", "open")
  /\ lock' = TRUE
  /\ conn' = TRUE
  /\ error' \in Outcomes \ {"ack"}
  /\ legacy' \in BOOLEAN
  /\ Goto("opened")
  /\ UNCHANGED <<connected, cache, ret, announced, fault>>

(* Mutated: the new connection is left locked. *)
ConnectOpenedLocked ==
  /\ Running("connect", "opened")
  /\ IF error = "none"
       THEN connected' = TRUE /\ CallThen("allowed", "allowed")
       ELSE CallThen("check", "failed") /\ UNCHANGED connected
  /\ UNCHANGED <<conn, error, legacy, lock, cache, ret, announced, fault>>

(* Mutated: what failed to connect is left to the next disconnect. *)
ConnectOpenedLeaving ==
  /\ Running("connect", "opened")
  /\ IF error = "none"
       THEN /\ connected' = TRUE
            /\ lock' = FALSE
            /\ CallThen("allowed", "allowed")
       ELSE /\ Goto("failed")
            /\ UNCHANGED <<connected, lock>>
  /\ UNCHANGED <<conn, error, legacy, cache, ret, announced, fault>>

(* Without an error: connected, and unlocked (mpd_check_error runs once    *)
(* more and finds nothing).                                                *)
ConnectOpened ==
  /\ Running("connect", "opened")
  /\ IF error = "none"
       THEN /\ connected' = TRUE
            /\ lock' = FALSE
            /\ CallThen("allowed", "allowed")
       ELSE /\ CallThen("check", "failed")
            /\ UNCHANGED <<connected, lock>>
  /\ UNCHANGED <<conn, error, legacy, cache, ret, announced, fault>>

ConnectFailed ==
  /\ \/ Running("connect", "failed")
     \/ Running("connect", "allowed") /\ ret # "ok"
  /\ Return("error")
  /\ UNCHANGED <<session, cache, announced, fault>>

(* With a password mpd_send_password, else mpd_server_get_tag_types; the   *)
(* result of neither, nor of mpd_server_update_outputs, is looked at.      *)
ConnectAllowed ==
  /\ Running("connect", "allowed") /\ ret = "ok"
  /\ \E f \in {"sendPassword", "tagTypes"} : CallThen(f, "auth")
  /\ UNCHANGED <<session, cache, ret, announced, fault>>

ConnectAuth ==
  /\ Running("connect", "auth")
  /\ CallThen("updateOutputs", "outputs")
  /\ UNCHANGED <<session, cache, ret, announced, fault>>

ConnectAnnounce ==
  /\ Running("connect", "outputs")
  /\ announced' = TRUE
  /\ CallThen("onConnection", "announced")
  /\ UNCHANGED <<session, cache, ret, fault>>

ConnectDone ==
  /\ Running("connect", "announced")
  /\ Return("ok")
  /\ UNCHANGED <<session, cache, announced, fault>>

-----------------------------------------------------------------------------
(* Locked sections: connected?, mpd_lock_conn, a command, its reply,       *)
(* mpd_unlock_conn.                                                        *)

(* Mutated: an error that no caller knows of. *)
ExchangeUnknown ==
  /\ error' \in Outcomes \cup {"unknown"}
  /\ fault' = IF conn THEN fault ELSE "connection"

(* A command is sent on mi->connection and its reply read to the end. *)
Exchange ==
  /\ error' \in Outcomes
  /\ fault' = IF conn THEN fault ELSE "connection"

(* Not connected, locked, or a server without the command. *)
Refuse ==
  /\ fault = "none"
  /\ Top.fn \in Sections /\ Top.at = "entry"
  /\ \/ ~connected
     \/ lock
     \/ Top.fn = "allowed" /\ legacy
  /\ Return(IF Top.fn \in {"sendPassword", "setTimeout"} /\ ~connected THEN "ok" ELSE "error")
  /\ UNCHANGED <<session, cache, announced, fault>>

Enter(f) ==
  /\ Running(f, "entry")
  /\ connected
  /\ ~lock
  /\ lock' = TRUE
  /\ UNCHANGED <<connected, conn, legacy, ret, announced>>

(* Sections whose reply only matters for its error. *)
Command ==
  \E f \in {"sendPassword", "tagTypes", "set", "setVolume", "control"} :
    /\ Enter(f)
    /\ Goto("locked")
    /\ Exchange
    /\ UNCHANGED cache

(* "commands" and "notcommands"; the first lists idle when it is there. *)
AllowedCommands ==
  /\ Enter("allowed") /\ ~legacy
  /\ Goto("locked")
  /\ Exchange
  /\ hasIdle' \in {hasIdle, TRUE}
  /\ UNCHANGED <<status, stats, hasOutputs>>

UpdateOutputs ==
  /\ Enter("updateOutputs")
  /\ Goto("locked")
  /\ Exchange
  /\ hasOutputs' \in {hasOutputs, TRUE}
  /\ UNCHANGED <<status, stats, hasIdle>>

(* No command is sent: an error left from before is what unlocking finds. *)
SetTimeout ==
  /\ Enter("setTimeout")
  /\ Goto("locked")
  /\ UNCHANGED <<error, cache, fault>>

(* mpd_player_get_state under the lock cannot fetch a status that is not   *)
(* there, so then no command is sent; nor is one when the player stopped.  *)
Pause ==
  /\ Enter("pause")
  /\ Goto("locked")
  /\ \/ status /\ Exchange
     \/ UNCHANGED <<error, fault>>
  /\ UNCHANGED cache

(* mpd_getStatus yields a status exactly when the reply had no error. *)
StatusUpdate ==
  /\ Enter("statusUpdate")
  /\ Goto("locked")
  /\ Exchange
  /\ status' = (error' = "none")
  /\ UNCHANGED <<stats, hasIdle, hasOutputs>>

(* Called from mpd_status_update ("statsRefresh") a new database is noted  *)
(* for the caller. Standalone ("statsUpdate") nobody hears of it: the test *)
(* before the callback is a bitwise "and" of a truth value with 8.         *)
StatsUpdate ==
  \E f \in {"statsUpdate", "statsRefresh"} :
    /\ Enter(f)
    /\ Goto("locked")
    /\ Exchange
    /\ stats' = (error' = "none")
    /\ UNCHANGED <<status, hasIdle, hasOutputs>>

-----------------------------------------------------------------------------
(* After the section. *)

SectionReturn ==
  /\ fault = "none"
  /\ Top.at = "unlocked"
  /\ Top.fn \in {"allowed", "tagTypes", "updateOutputs", "setTimeout",
                 "statsUpdate", "statsRefresh"}
  /\ Return(IF Top.fn = "setTimeout" THEN "ok" ELSE ret)
  /\ UNCHANGED <<session, cache, announced, fault>>

(* mpd_status_queue_update *)
QueueUpdate == status' = (status /\ ~connected)

SetDone ==
  /\ Running("set", "unlocked")
  /\ QueueUpdate
  /\ Return("ok")
  /\ UNCHANGED <<session, stats, hasIdle, hasOutputs, announced, fault>>

SetVolumeDone ==
  /\ Running("setVolume", "unlocked")
  /\ QueueUpdate
  /\ Become("getter")
  /\ UNCHANGED <<session, stats, hasIdle, hasOutputs, ret, announced, fault>>

ControlDone ==
  /\ \/ Running("control", "unlocked")
     \/ Running("pause", "unlocked")
  /\ Become("statusUpdate")
  /\ UNCHANGED <<session, cache, ret, announced, fault>>

SendPasswordNext ==
  /\ \/ Running("sendPassword", "unlocked") /\ ret = "ok" /\ CallThen("allowed", "refreshed")
     \/ Running("sendPassword", "refreshed") /\ CallThen("tagTypes", "tagged")
     \/ Running("sendPassword", "tagged") /\ CallThen("onStatus", "notified")
  /\ UNCHANGED <<session, cache, ret, announced, fault>>

(* Without a status callback the tag types are not asked for. *)
SendPasswordReturn ==
  /\ \/ Running("sendPassword", "unlocked") /\ ret # "ok" /\ Return("error")
     \/ Running("sendPassword", "refreshed") /\ Return("ok")
     \/ Running("sendPassword", "notified") /\ Return("ok")
  /\ UNCHANGED <<session, cache, announced, fault>>

-----------------------------------------------------------------------------
(* The rest of mpd_status_update: it runs without the lock. *)

StatusFailed ==
  /\ Running("statusUpdate", "unlocked") /\ ret # "ok"
  /\ Return("error")
  /\ UNCHANGED <<session, cache, announced, fault>>

(* Mutated: mpd_status_update goes on after a failed mpd_unlock_conn. *)
StatusDiffAnyway ==
  /\ Running("statusUpdate", "unlocked")
  /\ \/ Exchange
     \/ UNCHANGED <<error, fault>>
  /\ Goto("outputs") \/ CallThen("statsRefresh", "outputs")
  /\ UNCHANGED <<connected, conn, legacy, lock, cache, ret, announced>>

(* The new status is compared with CurrentState.  A player error is        *)
(* cleared on the server; the end of a database update refreshes the       *)
(* statistics.                                                             *)
StatusDiff ==
  /\ Running("statusUpdate", "unlocked") /\ ret = "ok"
  /\ \/ Exchange
     \/ UNCHANGED <<error, fault>>
  /\ Goto("outputs") \/ CallThen("statsRefresh", "outputs")
  /\ UNCHANGED <<connected, conn, legacy, lock, cache, ret, announced>>

(* mi->status is read once more, then the outputs are looked at: by the    *)
(* events of an idle command where the server has it, else by listing.     *)
StatusOutputs ==
  /\ Running("statusUpdate", "outputs") /\ status
  /\ \/ /\ hasIdle
        /\ Exchange
        /\ Goto("notify") \/ CallThen("statsRefresh", "notify")
     \/ /\ ~hasIdle /\ hasOutputs
        /\ Exchange
        /\ Goto("notify")
     \/ /\ ~hasIdle /\ ~hasOutputs
        /\ CallThen("updateOutputs", "notify")
        /\ UNCHANGED <<error, fault>>
  /\ UNCHANGED <<connected, conn, legacy, lock, cache, ret, announced>>

StatusGone ==
  /\ Running("statusUpdate", "outputs") /\ ~status
  /\ fault' = "status"
  /\ UNCHANGED <<session, cache, stack, announced>>

(* what_changed decides whether the client is called. *)
StatusNotify ==
  /\ Running("statusUpdate", "notify")
  /\ Goto("notified") \/ CallThen("onStatus", "notified")
  /\ UNCHANGED <<session, cache, ret, announced, fault>>

(* Mutated: the connection is not looked at again after the callback. *)
StatusDoneBlind ==
  /\ Running("statusUpdate", "notified")
  /\ Return("ok")
  /\ UNCHANGED <<session, cache, announced, fault>>

StatusDone ==
  /\ Running("statusUpdate", "notified")
  /\ Return(IF connected THEN "ok" ELSE "error")
  /\ UNCHANGED <<session, cache, announced, fault>>

-----------------------------------------------------------------------------
(* Getters: mpd_status_check or mpd_stats_check, then mi->status or        *)
(* mi->stats is dereferenced.                                              *)

(* Mutated: mpd_status_check always asks the server. *)
GetterEntryEager ==
  /\ \/ /\ \/ Running("getter", "entry") /\ ~connected
           \/ Running("getStats", "entry") /\ (~connected \/ stats)
        /\ Return(IF connected THEN "ok" ELSE "error")
     \/ /\ Running("getter", "entry") /\ connected
        /\ CallThen("statusUpdate", "checked") /\ UNCHANGED ret
     \/ /\ Running("getStats", "entry") /\ connected /\ ~stats
        /\ CallThen("statsUpdate", "checked") /\ UNCHANGED ret
  /\ UNCHANGED <<session, cache, announced, fault>>

GetterEntry ==
  /\ \/ /\ \/ Running("getter", "entry") /\ (~connected \/ status)
           \/ Running("getStats", "entry") /\ (~connected \/ stats)
        /\ Return(IF connected THEN "ok" ELSE "error")
     \/ /\ Running("getter", "entry") /\ connected /\ ~status
        /\ CallThen("statusUpdate", "checked") /\ UNCHANGED ret
     \/ /\ Running("getStats", "entry") /\ connected /\ ~stats
        /\ CallThen("statsUpdate", "checked") /\ UNCHANGED ret
  /\ UNCHANGED <<session, cache, announced, fault>>

GetterChecked ==
  /\ \/ Running("getter", "checked") /\ (ret # "ok" \/ status)
     \/ Running("getStats", "checked") /\ (ret # "ok" \/ stats)
  /\ Return(ret)
  /\ UNCHANGED <<session, cache, announced, fault>>

GetterGone ==
  /\ \/ Running("getter", "checked") /\ ret = "ok" /\ ~status /\ fault' = "getter"
     \/ Running("getStats", "checked") /\ ret = "ok" /\ ~stats /\ fault' = "stats"
  /\ UNCHANGED <<session, cache, stack, announced>>

-----------------------------------------------------------------------------
LibraryStep ==
  \/ CheckReport \/ CheckResume \/ Disconnect \/ Disconnected \/ UnlockConn
  \/ ConnectEntry \/ ConnectOpen \/ ConnectOpened \/ ConnectFailed
  \/ ConnectAllowed \/ ConnectAuth \/ ConnectAnnounce \/ ConnectDone
  \/ Refuse \/ Command \/ AllowedCommands \/ UpdateOutputs \/ SetTimeout
  \/ Pause \/ StatusUpdate \/ StatsUpdate
  \/ SectionReturn \/ SetDone \/ SetVolumeDone \/ ControlDone
  \/ SendPasswordNext \/ SendPasswordReturn
  \/ StatusFailed \/ StatusDiff \/ StatusOutputs \/ StatusGone
  \/ StatusNotify \/ StatusDone
  \/ GetterEntry \/ GetterChecked \/ GetterGone

ClientStep == (\E f \in Api : ClientCall(f)) \/ CallbackReturn

(* A process that dereferenced NULL takes no further step. *)
Crashed == fault # "none" /\ UNCHANGED vars

Next == ClientStep \/ LibraryStep \/ Crashed

Spec == Init /\ [][Next]_vars

-----------------------------------------------------------------------------
(* Properties. *)

(* The frames that are between mpd_lock_conn and mpd_unlock_conn.          *)
(* mpd_connect_real holds the lock too, until its first mpd_check_error    *)
(* has called mpd_disconnect.                                              *)
Holds(i) ==
  \/ frame[i].at \in {"locked", "opened"}
  \/ /\ frame[i] = At("connect", "failed")
     /\ i < depth
     /\ frame[i + 1] \in {At("check", "entry"), At("check", "fatal")}

(* While connected, the lock is held by no frame up to i: it is free, or a *)
(* frame above i holds it, or it is about to be forgotten.                 *)
HeldAbove(i) ==
  connected /\ lock =>
    \/ Top = At("disconnect", "entry")
    \/ \E j \in i + 1..depth : Holds(j)

(* While connected, the lock is only ever held on behalf of a function     *)
(* that is still on the call stack and will release it, whatever the       *)
(* callbacks did in between (disconnect and reconnect included).           *)
LockHasOwner == HeldAbove(0)

(* When every library call has returned and the client is connected the    *)
(* connection is unlocked: a lock left behind would make every later call  *)
(* fail with MPD_LOCK_FAILED for ever.                                     *)
NoLockLeak == depth = 1 /\ connected => ~lock

(* No function dereferences mi->connection after a callback of one of its  *)
(* callees closed it.                                                      *)
NoConnectionFault == fault # "connection"

(* mpd_status_update sends its last commands after it gave the lock back.  *)
(* They never go out while another function on the stack owns it.          *)
CommandsDoNotCompete ==
  /\ fault = "none"
  /\ \/ Top = At("statusUpdate", "unlocked") /\ ret = "ok"
     \/ Top = At("statusUpdate", "outputs") /\ status
  => ~lock

(* mpd_status_check answers MPD_OK only with a status to read, so a status *)
(* getter never dereferences NULL (comment of mpd_status_check).           *)
NoGetterFault == fault # "getter"

(* mpd_connect_real opens a connection only after the last one is closed   *)
(* and everything cached from it is gone: nothing leaks, and nothing of    *)
(* one server is taken for another's.                                      *)
OpensClean ==
  Top = At("connect", "open") => ~(conn \/ status \/ stats \/ hasIdle \/ hasOutputs)

(* While a connection-changed callback runs, what the client was last told *)
(* is what mpd_check_connected says.                                       *)
SignalMatchesState == Top.fn = "onConnection" => announced = connected

-----------------------------------------------------------------------------
(* The inductive invariant behind LockHasOwner, NoLockLeak,                *)
(* NoConnectionFault and CommandsDoNotCompete (proved in                   *)
(* MpdSessionProofs).                                                      *)

Bottom == frame[1] = At("app", "entry")

(* A frame that waits for a callee waits at a label of its own; at the end *)
(* of a locked section it can only be waiting for mpd_check_error.         *)
StackShape ==
  \A i \in 1..depth :
    /\ frame[i].fn \in Client => frame[i].at = "entry"
    /\ i < depth =>
         /\ frame[i].at = "entry" => frame[i].fn \in Client
         /\ frame[i].at \notin {"locked", "opened"}
         /\ frame[i].at = "unlocked" => frame[i + 1].fn = "check"

(* A connection is there whenever the code relies on one. *)
ConnectionKept ==
  /\ connected => conn
  /\ status => conn
  /\ Top.at = "opened" => conn /\ error # "ack"
  /\ Top.at = "unlocked" /\ ret = "ok" => conn
  /\ NoConnectionFault

(* The connection that mpd_connect_real gave up on failed for good: it is  *)
(* not an ACK, after which mpd_check_error would keep it, and the lock.    *)
FailsForGood ==
  depth > 1 /\ frame[depth - 1] = At("connect", "failed") /\ Top = At("check", "entry")
    => error # "ack"

(* What the code relies on where it goes on without the lock: it has just  *)
(* given it back, or whoever took it since has a frame further up.         *)
LockGiven ==
  /\ status => connected
  /\ conn /\ ~connected => error = "fatal" \/ Top = At("connect", "opened")
  /\ Top = At("check", "entry") => ~lock \/ error # "ack"
  /\ Top.at = "unlocked" /\ ret = "ok" => connected /\ ~lock
  /\ \A i \in 1..depth : frame[i] = At("statusUpdate", "outputs") => HeldAbove(i)

(* Why no call ever returns to the main loop of a connected client with    *)
(* the lock held, and no frame finds less than it left behind.             *)
SessionInv ==
  /\ TypeOK /\ Bottom /\ StackShape
  /\ ConnectionKept /\ FailsForGood /\ LockHasOwner /\ LockGiven

-----------------------------------------------------------------------------
(* What more is true when the callbacks keep to some rules (proved in      *)
(* MpdSessionRulesProofs).                                                 *)

(* No callback connects; none makes the library fetch or drop the status   *)
(* except by asking for it.                                                *)
NeverReconnects == \A c \in Callbacks : "connect" \notin Calls[c]
LeavesStatusAlone ==
  \A c \in Callbacks :
     Calls[c] \cap {"connect", "set", "setVolume", "statusUpdate", "control", "pause"} = {}

(* These are then called by the main loop only.                            *)
OnlyFromApp(fns) == \A i \in 3..depth : frame[i].fn \notin fns

(* mpd_connect_real has a connection that failed, and mpd_check_error is   *)
(* about to close it.                                                      *)
GivingUp ==
  \/ Top \in {At("connect", "opened"), At("disconnect", "entry")}
  \/ /\ depth > 2 /\ frame[2] = At("connect", "failed")
     /\ frame[3] = At("check", "fatal") \/ (depth = 3 /\ frame[3] = At("check", "entry"))

(* The inductive invariant behind OpensClean. Who is not connected has     *)
(* nothing cached, and no connection but one that is being given up; and   *)
(* mpd_connect_real closes the last one before it goes on.                 *)
OpenInv ==
  /\ OnlyFromApp({"connect"})
  /\ ~connected => ~(status \/ stats \/ hasIdle \/ hasOutputs)
  /\ conn /\ ~connected => GivingUp
  /\ depth > 1 /\ frame[2] = At("connect", "open") /\ connected => Top = At("disconnect", "entry")

(* The inductive invariant behind NoGetterFault. An mpd_status_update that *)
(* has its status keeps it, or loses the connection, until it returns: the *)
(* only other one that may run in between is for a getter that has none.   *)
StatusInv ==
  /\ OnlyFromApp({"connect", "set", "setVolume", "control", "pause"})
  /\ \A i \in 1..depth :
       /\ frame[i].fn = "statusUpdate" /\ frame[i].at \in {"outputs", "notify", "notified"} =>
            (connected => status)
       /\ i < depth =>
            /\ frame[i] # At("statusUpdate", "locked")
            /\ frame[i] = At("getter", "checked") => frame[i + 1].fn = "statusUpdate"
  /\ Top = At("statusUpdate", "entry") /\ depth > 2 => ~(connected /\ status)
  /\ Top = At("statusUpdate", "locked") /\ error = "none" => status
  /\ Top \in {At("statusUpdate", "unlocked"), At("getter", "checked")} /\ ret = "ok" => status
  /\ NoGetterFault
=============================================================================
