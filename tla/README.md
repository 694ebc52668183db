# Verification of tprj (libmpd and friends)

The repository is a collection of small projects around one library: **libmpd**
(`src/src`), a C client library for the Music Player Daemon. The rest
(`src/emusic`, `src/fcitx-dbus`, `src/uudisks`, `src/repowatcher`,
`src/example`) are short stand-alone programs. This directory holds TLA+ models
of libmpd, checked with TLC, and proofs about them, checked with TLAPS.
`PROJECT.json` lists the components, runs, mutants, the map from definitions to
source lines, the hazards, findings and theorems.

## 1. The system

libmpd has two layers, in one thread and without locks of the operating system.

| component | source | state | operations |
|---|---|---|---|
| Protocol engine | `libmpdclient.c` | `mpd_Connection`: `doneProcessing`, `commandList`, `listOks`, `doneListOk`, `error`, `errorCode`, the input buffer, `request` | execute a command, read the next return element, finish a command, command lists, parse replies |
| Session | `libmpd.c` | `MpdObj`: `connected`, `connection`, `connection_lock`, callbacks, `has_idle`, `num_outputs` | connect, disconnect, check an error, lock and unlock, password, timeout, outputs, allowed commands |
| Status and statistics cache | `libmpd-status.c` | `mi->status`, `mi->stats`, `CurrentState`, `OldState` | update, queue an update, check, getters, setters |
| Player control | `libmpd-player.c` | none of its own | commands, modes, getters |
| Playlist queue | `libmpd-playlist.c`, `libmpd.c:962-1009` | `mi->queue`, a linked list whose current node is kept | add, load, delete, commit, free |
| Searches and queries | `libmpd-database.c`, `libmpd-playlist.c`, `libmpd.c:1027-1316`, `libmpd-sticker.c`; the reading functions `libmpdclient.c:961-1334` | `mi->search_type`, `search_field`; `connection->request`, `returnElement` | 34 queries; start, add a constraint, commit; find |
| Result lists | `libmpd.c:775-959` | `MpdData`: `next`, `prev`, `first` | append, concatenate, delete, next, free |
| Formatting, debug output | `libmpd-strfsong.c`, `debug_printf.c` | none | |
| emusic, fcitx-dbus, uudisks, repowatcher, examples | | none kept between calls | |

How they interact: a session function checks `connected`, takes the connection
lock, has the engine send a command and read its reply, and gives the lock back;
`mpd_unlock_conn` ends in `mpd_check_error`, which turns the engine's error into
a call of the client's error callback and, for anything but an ACK, into
`mpd_disconnect` and a call of the connection-changed callback.
`mpd_status_update` compares the new status with the last one and calls the
status callback. From each callback the client may call the library again.

What is hard:

- **Reentrancy.** There are no threads, but each callback interleaves arbitrary
  library calls with the functions already on the call stack. A function that
  calls anything that may report an error comes back to an object that may have
  been disconnected, reconnected or locked.
- **Partial failure.** Any exchange may fail; several results are ignored.
- **A protocol without request identifiers.** Replies are matched to commands by
  counting. A timeout may race with the late answer, a command may leave in part.
- **Aliased data.** Two linked lists are edited in place.

What makes each component correct: the engine takes each line for the command it
answers and always becomes ready again; the session never dereferences what is
gone, gives the lock back, and tells the client the truth; the cache is there when
`mpd_status_check` says so; the queue sends every queued command once and in order;
the result lists keep their links, a query hands out the whole of a reply or says that
it failed, and a search that is committed is the one that was started.

## 2. Modules

| module | models | role |
|---|---|---|
| `MpdSession` | `libmpd.c`, `libmpd-status.c`, `libmpd-player.c` | specification, properties, inductive invariants |
| `MCMpdSession` | | clients for TLC: what each callback may call |
| `MpdSessionProofs` | | theorems about `MpdSession` and every client |
| `MpdSessionRulesProofs` | | theorems about `MpdSession` and clients whose callbacks keep a rule |
| `MpdConnection` | `libmpdclient.c` and the ways libmpd uses it, with the server | specification, properties, refinement mapping, inductive invariants; TLC runs it directly |
| `RequestReply` | what the engine promises a function that sends one command and checks the error | abstract specification |
| `MpdConnectionProofs` | | theorems about `MpdConnection`, the refinement included |
| `CommandQueue` | what the group "Command Queue" of `libmpd-playlist.h` promises | abstract specification |
| `PlaylistQueue` | the queue of `libmpd-playlist.c` and `libmpd.c` on the heap | specification, refinement mapping, inductive invariant; TLC runs it directly |
| `PlaylistQueueProofs` | | theorems about `PlaylistQueue`, the refinement included |
| `Queries` | the queries and searches of `libmpd-database.c`, `libmpd-playlist.c`, `libmpd.c`, `libmpd-sticker.c`, and what `libmpdclient.c` makes of a reply | specification, properties, inductive invariants; TLC runs it directly |
| `QueriesProofs` | | theorems about `Queries`: the engine and the searches |
| `QueriesReplyLemmas` | | lemmas about lists, replies and the operators that compare them |
| `QueriesReplyProofs` | | theorems about `Queries`: the replies |
| `ItemLists` | what the `mpd_data_*` functions promise of a list | abstract specification |
| `ResultList` | `MpdData` of `libmpd.c` on the heap | specification, refinement mapping, inductive invariant |
| `MCResultList` | | the symmetry of the nodes and items, for TLC |
| `ResultListProofs` | | theorems about `ResultList`, the refinement included |

Operators whose comment begins with "Mutated:" are broken variants of the
definition that follows them, used to see that each property depends on the code.

### MpdSession

The state is the part of `MpdObj` that control depends on, and the **call stack**:
`frame[1]` is the client's main loop and `frame[depth]` is the running function,
with the label at which it is or will resume. One action per function, cut where it
calls something that may call the client: `Disconnect`/`Disconnected` around the
connection-changed callback, `CheckReport`/`CheckResume` around the error callback,
`Connect*` for `mpd_connect_real`, `Status*` for `mpd_status_update`, and so on. A
locked section is `Refuse`, or `Enter` in one of `Command`, `AllowedCommands`,
`UpdateOutputs`, `SetTimeout`, `Pause`, `StatusUpdate`, `StatsUpdate`, then
`UnlockConn`, and what the function does after it. Functions that differ only in the
command they send are one function of the model: `set` for the setters that end in
`mpd_status_queue_update`, `control` for those that end in `mpd_status_update`,
`getter` and `getStats` for the accessors. `mpd_player_seek` and
`mpd_playlist_get_song_from_pos_range` are a getter followed by a section.

What a command does to the connection is an outcome, `none`, `ack` or `fatal`
(everything else that `connection->error` may hold). A dereference of NULL is an
explicit `fault`, after which nothing happens any more: the properties say which
faults are unreachable. What `what_changed` would hold is a choice.

`ClientCall(f)` is the client: from the main loop and from each callback it calls
what the constant `Calls` lets it. `CallbackReturn` includes the answer of the error
callback. A callback that is not set behaves like one that returns at once.

### MpdConnection

The state is that of `mpd_Connection`, the caller's position, and both directions of
the stream. Each line and each command carries the number of the command it belongs
to, which the engine never looks at; the properties do. `Execute` is
`mpd_executeCommand` (all, none or part of the text may leave; a part makes the next
line a garbled command), `GetNext` and `Digest` are `mpd_getNextReturnElement`. A line before
the end of a reply is a `pair` ("key: value") or malformed: `junk` ("key:value") is a parse
error, `list_OK` may be one that was not expected, and of a `bare` line, one without a colon, the
engine takes no notice (`libmpdclient.c:719`): it leaves no element, no error, and a reply that is not done.

`Section`'s actions are the callers: `single` is the ordinary locked section,
`double` is `mpd_server_get_allowed_commands`, `unchecked` are the commands at the end
of `mpd_status_update`, `load` is `mpd_playlist_load`, `list` is
`mpd_playlist_queue_commit` and the command list of `mpd_playlist_get_song_from_pos_range`
(either may be empty), and `listOk` is the exported list_OK interface. `StopReading`
may come before the end of a reply, since callers stop where they like and let
`mpd_finishCommand` skip the rest. The callers of `mpd_getStatus`, `mpd_getStats` and
`mpd_getSearchStats` do not call it: their section is `status`, which reads pairs up to the first
line that is none (`ReadStatus`) and goes to the check with what it has (`StatusGot`). The server answers
when it likes, may close, and executes command lists the way the code expects of MPD (external).

`RequestReply` is the promise, without wire, server or lateness: a function calls, asks,
has one whole reply to that command to read from its first line to its last, or gives up, and
returns; after an ACK the connection may be kept, after any other error it is not. A function
that does not finish its command may leave the rest of its reply unread: then the next one sends
nothing, has an error (`Refuse`) and reads that rest. The mapping
shows the lines on the wire only while the caller waits (`Unread`): that what lies there
afterwards is never seen again is what the refinement says.

The two modules meet in the outcome: what `MpdConnection`'s `error` may be when
`Check` looks at it is what `Exchange` of `MpdSession` chooses from.

### PlaylistQueue

`mi->queue` points to the last node while commands are added and to the current one
while `mpd_playlist_queue_commit` sends them; each node knows the next and the first.
The heap is the functions `next`, `first` and `item` and the set `live` of allocated
nodes; a freed node keeps its contents and may be allocated again. `Enqueue` is the
four functions that add a command, `Commit`, `CommitNext` and `CommitEnd` are the
commit, one action per turn of its loop, `StartFree` and `FreeNode` are
`mpd_free_queue_ob`, which both the end of the loop (`mpd_queue_get_next`) and
`mpd_disconnect` call; `then` says which of them it goes back to. A send that fails
changes nothing but what the server gets, since its result is not looked at: that
is the second alternative of `CommitNext`. A call made by a callback of
`mpd_unlock_conn` or of the final `mpd_status_update` comes after `CommitEnd`, when the
queue is empty, so it is one more call from `idle`.

`CommandQueue` is the promise: `Put`, `Begin`, `Transmit`, `End`, `Drop` over a sequence.
The mapping needs to know which nodes are in the list, in order, and how far the
commit is. The links alone do not say the second (there is no way back from the
current node but `first`), so `list` and `pos` are auxiliary variables: they are
written and never read by a guard or another variable. `PendingItems` is the items of
`list` from `pos` on. That freeing the nodes is a stutter of the abstract queue, and
that the order in which nodes are allocated does not show, is part of what the
refinement says.

### Queries

Each query of libmpd sends one command, takes its reply apart and returns what was in it. They
differ in what they read, what they keep, which ACK they forgive and what becomes of the
list when the unlock reports an error, so each is a record of those (`GetArtists`,
`GetChanges`, ...) and the steps are common: `Query` takes the lock and sends,
`mpd_status_check` may come first (`Check`); then one action per call of
`mpd_getNextReturnElement`, in `mpd_getNextInfoEntity` (`NextEntity`, `BeginEntity`,
`Attribute`), `mpd_getNextReturnElementNamed` (`NextString`), `mpd_getNextOutput` (`NextOutput`,
`OutputLine`) and `mpd_getSearchStats` (`NextStats`); `Take*` is the body of the caller's
loop, `Finish` is `mpd_finishCommand`, `Unlock` and `CallbackReturns` are `mpd_unlock_conn`.

A line of a reply is its key; its value is identified by its position in the reply, so an
entity is known by the line it began with and an attribute by the line it came from. That
is enough to tell whether each line ended up where it belongs. Among the lines may be malformed
ones, `bare` and `junk` as above. `Due` says, of a reply as a
whole and without `returnElement`, which of its lines begin something the function returns;
`Represents` says that a list has one object for each of those, in order, each with the
attributes that are its own (`Fits`); `CompleteOrTold` compares that with what the client can
reach from the node it was given (`Handed`: a function hands out the `first` or the `last` node
of its list). `Sound` are the replies of which it speaks; `Intact` are those without any malformed
line. `alive` is what was allocated; `HandedOver` asks that it is what the client got.

A command that is sent while the engine is not done sends nothing, and what is read then is the
rest of the last reply. `command` (auxiliary) is the command which the reply at hand answers, and whether
its sender ends that reply (`ends`): the commit of a statistics search does not, and neither does
the status update in `Check` and `Update` (`StatusCutShort`).

A search is remembered twice, as `mi->search_type` and `search_field` (`search`) and as the
text in `connection->request` (`request`). `wanted` (auxiliary) is what the client has
described so far, `asked` what it means a commit to send, `sent` what was sent. The four
functions that start a search are `Start`; the three commits are `SearchCommit`,
`PlaylistSearchCommit` and `StatsCommit`; `DatabaseFind` is `mpd_database_find`, which uses the
same request for a search of its own.

The kinds of clients: "reader" calls queries only, "documented" builds one search at a time
and commits it with the function that belongs to it, "any" does both in any order,
"finder" also calls `mpd_database_find` while a search is being built.
The one callback that matters here is the error callback of `mpd_unlock_conn`, which may
start a search; what else callbacks may do is `MpdSession`'s subject. The engine has the
timeouts and the end of the stream as one outcome ("lost"); how it gets there is
`MpdConnection`'s subject.

### ResultList

A result list is doubly linked, each node also points to the first one, and whoever holds a
list holds a pointer to any of its nodes (`data`). `AppendItem`, `GetFirst`, `GetNext`, `Free`,
`Concatenate` and `DeleteItem` are the `mpd_data_*` functions; their loops are actions of their own,
one turn each (`Walk`, `Refirst`, `Back`, `FreeNode`), with the local pointers `node` and `head`.
Freed nodes are blanked and used again. `list` and `pos` (auxiliary) are the nodes of
each list in order and which of them its holder has; the mapping to `ItemLists` reads only
these and `item`. `ItemLists` is the promise: sequences with a place in each, and seven
operations on them. `AppendItem` has the precondition the library keeps, that it is handed the
last node.

## 3. Runs

| run | expects | shows |
|---|---|---|
| `session_any` | pass | a client that calls anything from anywhere: `TypeOK`, `SessionInv`, `NoLockLeak`, `NoConnectionFault`, `CommandsDoNotCompete` |
| `session_keeping` | pass | callbacks that connect to nothing and leave the status alone: `NoGetterFault`, `OpensClean`, and the inductive invariants behind them, `StatusInv` and `OpenInv` |
| `connection_single` | pass | each command checked, and finished or not (`single`, `status`): `InSync`, `Implements` (it refines `RequestReply`), with timeouts, partial sends, late replies and malformed lines |
| `connection_any` | pass | all the ways to use a connection, and all kinds of lines: `TypeOK`, `Ready`, `SectionsEnd` |
| `queue` | pass | the linked list of queued commands: `HeapSound`, `Implements` (it refines `CommandQueue`) |
| `queries` | pass | every query and search: `CompleteOrTold`, `HandedOver`, `NothingLeftOver`, `SearchRemembered`, `SendsWhatWasAsked`, `NoErrorOfItsOwn`, `TypeOK`, and `ReplyInv`, the inductive invariant behind the replies |
| `results` | pass | the result lists on the heap: `HeapSound`, `ListInv`, `Implements` (they refine `ItemLists`) |
| `search_find` | violation | `ExactOnly`: `mpd_database_find` sends the search the client was building |
| `queries_range` | violation | `RangeHandedOut`: `mpd_playlist_get_song_from_pos_range` hands out the last node of its list |
| `session_signal` | violation | `SignalMatchesState`: told "connected" when the connection is lost |
| `session_getter` | violation | `NoGetterFault` when a status callback sets a mode |
| `connection_desync` | violation | `InSync` with unchecked commands |

**Bounds of `MpdSession`.** Everything but the call stack is finite. `MaxDepth` caps
the stack; a client calls only where `CallSpan` frames (the longest chain of library
frames above a client frame, callback included) are left, so the bound never cuts a
call short. `session_any` has 10 frames: the main loop, a call, its callback, and a
whole call chain inside it; it was also run with 11 and 12, and the theorems hold for
every bound. `session_keeping` has 12, room for two callbacks inside each other; it was also
run with 13. In it a callback may call everything but `connect`, the setters,
`statusUpdate`, `control` and `pause`: it may use the getters, disconnect, update the statistics, the
outputs and the tag types, send a password and set the timeout. What drops the status, such as
`mpd_status_queue_update` at the end of a setter, is not among it.

**Bounds of `MpdConnection`.** `MaxCommands` (4) commands on one connection,
`MaxElements` (2, or 1 with all sections) lines before the end of a reply, each a pair or malformed, and up to
`MaxItems` (2) commands in a list. Falling out of step takes two commands and one late reply; a reply
that is left over takes one bare line and a line after it; a list that goes wrong halfway takes two
items. After `Reconnect` counting starts again, so
executions are unbounded. When the commands of a connection are used up it can still
be closed (`Disconnect`), so deadlock is checked in every run.

**Bounds of `PlaylistQueue`.** Three nodes, so a first, a middle and a last one, each
of which is used again after it was freed; two commands that are told apart and one
that is void. The theorems hold for every heap and every set of commands.

**Bounds of `Queries`.** Replies of up to three lines (`MaxLines`): an entity with its attribute and the
beginning of the next, or one with two attributes, each line in turn malformed, and an ACK, the end or the
loss of the connection after any of them; without malformed lines it was also run with four. Two
constraints to tell apart and two in a search show a lost, doubled or swapped one. Server versions
0.12.0 and 0.13.0 lie on both sides of the version checks. `queries_range` needs two songs and no
more. The theorems hold for any length and number.

**Bounds of `ResultList`.** Five nodes in two lists: three and two to join, with
a first, a middle and a last node to hold the longer one by, and a node in the middle to
delete; two items. Nodes and items are symmetric: only their identity is used. The
theorems hold for every heap, any number of lists and every set of items.

**Fairness.** `MpdSession`, `PlaylistQueue`, `Queries` and `ResultList` state none. `MpdConnection` states weak fairness of
`Section`, that is of the thread that is inside a library call: it is never blocked for
ever, because each wait for the socket is a `select` with the connection's timeout.
Nothing is assumed of the server.

### Findings

1. `session_signal`: the end of `mpd_connect_real` announces TRUE and returns `MPD_OK`
   without looking at the results of the exchanges before it (`libmpd.c:684-724`).
2. `session_getter`: `mpd_status_check` answers `MPD_OK` without a status when the
   status callback of the same update set a mode, which queues an update by freeing the status.
3. `connection_desync`: the commands at the end of `mpd_status_update` are never
   checked, so a timeout there is forgotten and a late reply is taken for the next one.
4. `search_find`: `mpd_database_find` builds its command on the request of a search that is
   under construction; that it is not its own is an error which the sending clears
   (`libmpdclient.c:551`), so exact matches are asked for and a substring search is sent.
5. `queries_range`: `mpd_playlist_get_song_from_pos_range` returns the node it appended last
   (`libmpd-playlist.c:234`, without the `mpd_data_get_first` of its siblings), so a client that walks
   the list by `mpd_data_get_next` sees the last song only; `libmpd-playlist.h:78` promises the songs
   from start to stop.

Seen while modelling, and not run: `mpd_data_delete_item` returns the previous node, as
`libmpd.h:529` says, where the comment above it (`libmpd.c:884`) promises the next one.
`mpd_playlist_get_song_from_pos` and `mpd_playlist_get_song_from_pos_range` forget what they have
read when the unlock reports an error, which `HandedOver` leaves out; their comments
(`libmpd-playlist.c:163, 231`) say "for now this can never happen", and an ACK after the first song does it.
`mpd_database_search_stats_commit` leaves `search_type` set, so that a second commit or
a constraint ends the connection with an error of the library's own;
`mpd_playlist_search_commit` lets a statistics search through. `mpd_getNextOutput` gives out
an output with id -10 for an empty list or a failed first read, which `CompleteOrTold`
leaves out. The four functions that start a search return nothing, and say nothing when they did not.
The status callback at the end of `mpd_stats_update_real` (`libmpd-status.c:719`) is never called: the
test before it is a bitwise "and" of a truth value with `MPD_CST_DATABASE` (8), so a client that
calls `mpd_stats_update` itself does not hear of a new database. `StatsUpdate` has no callback accordingly.

A line without a colon (`libmpdclient.c:719`) is no error and no element. Wherever it comes, a list is handed out
as if the reply had ended there (`Sound` excludes it from `CompleteOrTold`). In the reply to a status, to statistics
or to a statistics search, whose readers leave out `mpd_finishCommand`, it leaves the engine in the middle of a reply
without an error, which `Ready` and `NothingLeftOver` say and name as the only such case (`CutShort`). The next command is then not
sent, the rest of the old reply is read for its own, and the connection is given up for it. After a
command list with list_OK's that ended in an ACK, `listOks` stays set and an extra list_OK does the
same. A server that keeps to the protocol sends no such lines, so no run treats this as a finding.

With no document to hold against the code: `mpd_status_update`
reads `mi->status` after `mpd_stats_update_real` may have freed it (`StatusGone` is
reachable); a client that reconnects in its disconnect callback inside `mpd_connect`
leaks the inner connection; `mpd_playlist_load` looks at an `errorCode` that is
never reset; `mpd_connect` fails with servers older than 0.12 and stays connected;
`mpd_playlist_queue_commit` and the range open a command list whatever the state of the engine: in
an engine that is not done the server begins to collect, and the end of the list is refused.

## 4. Proofs

`MpdSessionProofs` proves, for every `MaxDepth`, every `Calls` and every `Outcomes` that
meet the assumptions of `MpdSession`:

| theorem | statement |
|---|---|
| `TypeCorrect` | `Spec => []TypeOK` |
| `SessionCorrect` | `Spec => []SessionInv` |
| `LockReleased` | `Spec => []NoLockLeak` |
| `ConnectionThere` | `Spec => []NoConnectionFault` |
| `CommandsAlone` | `Spec => []CommandsDoNotCompete` |

`MpdSessionRulesProofs` proves, for the same constants, of two kinds of clients. A rule
is about what callbacks call; the main loop calls anything.

| theorem | statement |
|---|---|
| `ClosedForGood` | `Spec => []OpenInv`, assuming `NeverReconnects` (no callback connects) |
| `OpensCleanly` | `Spec => []OpensClean`, assuming `NeverReconnects` |
| `StatusHeld` | `Spec => []StatusInv`, assuming `LeavesStatusAlone` (no callback connects, sets, updates or pauses) |
| `GettersRead` | `Spec => []NoGetterFault`, assuming `LeavesStatusAlone` |

`MpdConnectionProofs` proves, for every number of commands, elements and items:

| theorem | statement |
|---|---|
| `ConnectionTypes` | `Spec => []TypeOK`, for any `Sections` |
| `EngineReady` | `Spec => []Ready`, for any `Sections` |
| `SingleInSync` | `Spec => []InSync`, assuming `Sections \subseteq {"single", "status"}` |
| `SingleImplementsRequest` | `Spec => Implements`, the refinement of `RequestReply`, assuming `Sections \subseteq {"single", "status"}` |
| `ReliableInSync` | `Spec => []InSync`, assuming `Lossy = FALSE` and `"status" \notin Sections \/ ~Silent` |

`PlaylistQueueProofs` proves, for every set of nodes and of commands:

| theorem | statement |
|---|---|
| `QueueCorrect` | `Spec => []QueueInv` |
| `HeapIsSound` | `Spec => []HeapSound` |
| `ListImplementsQueue` | `Spec => Implements`, the refinement of `CommandQueue` |

`QueriesProofs` proves, for every set of server versions, tags and constraints, and for
replies of any length:

| theorem | statement |
|---|---|
| `QueriesCorrect` | `Spec => [](QueryInv /\ Lines)` |
| `EngineReadyAgain` | `Spec => []NothingLeftOver` |
| `SearchesRemembered` | `Spec => []SearchRemembered` |
| `SearchesSent` | `Spec => []SendsWhatWasAsked` |

`QueriesReplyProofs` proves, for the same constants:

| theorem | statement |
|---|---|
| `RepliesRead` | `Spec => [](TypeOK /\ ReplyInv)` |
| `QueriesTypes` | `Spec => []TypeOK` |
| `RepliesComplete` | `Spec => []CompleteOrTold` |
| `RepliesHandedOver` | `Spec => []HandedOver` |
| `NoOwnErrors` | `Spec => []NoErrorOfItsOwn` |

`ResultListProofs` proves, for every set of nodes, of items and of lists:

| theorem | statement |
|---|---|
| `ListsLinked` | `Spec => []ListInv` |
| `ListHeapSound` | `Spec => []HeapSound` |
| `ListsImplementSequences` | `Spec => Implements`, the refinement of `ItemLists` |

**The session.** `NoLockLeak` speaks of states in which only the main loop is left, and nothing in such a
state says why a nested call did not leave the lock behind. `SessionInv` says it for
every state: while connected, a lock that is held has an **owner** on the stack
(`LockHasOwner`): a frame that is inside a section, or `mpd_connect_real` before it
has unlocked. The owner may be far below the running function, and it may not be the
one that took the lock (after a callback disconnected and reconnected, the section
below still unlocks). For that to be inductive one needs the shape of the stack
(`StackShape`: a frame that waits is at a label of its own, and what was called at the
end of a section can only be `mpd_check_error`), that a connection is there when
code relies on it (`ConnectionKept`), and that a connection given up by
`mpd_connect_real` did not fail with an ACK, after which `mpd_check_error` would keep it
(`FailsForGood`).

`CommandsDoNotCompete` is about what outlives a callback: a frame of `mpd_status_update` that waits
without the lock while others run above it. It needs the same statement one level up the stack:
*as seen from frame i*, a lock held while connected is held for a frame **above** i (`HeldAbove(i)`;
`LockHasOwner` is the case 0). `LockGiven` claims it of every waiting `mpd_status_update`, with what the code
has just after it gave the lock back, so the lock is free when such a frame runs again.

**The rules for callbacks.** Two properties of the session are true only of clients that
hold back in their callbacks, and the rule is a hypothesis of the theorem: an assumption
about `Calls`, which TLC's instance of `session_keeping` meets. `OpensClean` is about the
moment before a connection is opened. What makes it true is `mpd_disconnect` at the start of
`mpd_connect_real`, and what could make it false is all that happens between: the
connection-changed callback, and the error callback of an attempt that failed. `OpenInv` says that
whoever is not connected has nothing cached, and no connection but one that is being given up
(`GivingUp`: it failed, and the `mpd_check_error` that will close it has been called or is about to
be). That needs `mpd_connect_real` to be where it is only once, right above the main loop
(`OnlyFromApp`). A callback that connects breaks it: the inner connection is open when the outer
one is opened, which leaks it.

`NoGetterFault` is about a getter that dereferences `mi->status` because `mpd_status_check`
answered `MPD_OK`. `StatusInv` follows the promise through the calls: an `mpd_status_update` that has its
status keeps it, or the connection is lost, until it returns. Its own callbacks
may call getters, and these may run a further update, but only when there is no status; that
is what a getter checks, and the other ways to an update are what the rule forbids.
`session_getter` shows that it cannot be weaker by much: one setter in a status
callback is enough, since it queues an update by freeing the status.

Both invariants speak of frames far down the stack, so their proofs use what
`MpdSessionProofs` established: the shape of the stack, the types, and where a connection is.

The proof of `SessionInv` has one lemma per action or group of actions for `TypeOK`
and for the rest of the invariant; the theorems combine them with `Init` by temporal
logic.

**The engine.** `Ready` speaks of the moments between sections; `ReadyInv` adds, for each
place inside one, whether the engine is done and in which mode it is. A section that calls
`mpd_finishCommand` is done when it is over, whatever the server sends. One that does not
(`status`) is done only because every line at which it stops reading is the end of the reply or an error; the two lines that are neither
are what `Ready` excuses (`Silent`): a bare line, and an extra list_OK where `listOks` is still set. That `left` and
`listOks` never go below zero needs `ReadyInv` too (a list is begun by a section that makes one),
and that a caller is only at `send` with something to send (`TypeInv`).

`InSync` is not
a fact about the line that is read but about all that is still under way: `SingleInv`
says that a single command is, that it is with the server or has been answered, that
its answer has one end and every line of it belongs to that command, and that when
the end has been read without an error that closes the connection nothing is left
that a later command could meet. A timeout leaves lines behind, and then the error
is `fatal`, which the check cannot miss: that is where the proof uses that every
section checks. Where the end has not been read, it is still there and the engine is not done, so that
the next command is refused before it can be sent. The refinement needs no more: asking, being refused,
reading a line, complaining, giving up and
returning are the abstract actions of those names, the server's answer is `Answer` while the caller
waits and a stutter when it is too late, and the rest are stutters.

The hypotheses are needed as they are. With any other second kind of section and a connection that
loses something TLC finds `InSync` violated: `connection_desync` shows it for `unchecked`, and it was tried
for `double`, `load`, `list` and `listOk`. With a connection that loses nothing every kind
is in step, but for a reply left over by `status` before a command list, whose commands are not refused:
`ReliableInv` says of each moment what is under way. While a list is
sent the server has its beginning or collects it, and answers nothing (`ListUnderWay`); while the
caller waits there is one thing to answer, at the end of the inbox (`Unanswered`), or one reply
with one end (`Answered`); and otherwise there is nothing. It was checked by TLC with the constants of
`connection_any` without bare lines and `listOk`, and without `status` instead, with `Lossy = FALSE`.

**The queue.** `QueueInv` says that the links spell out the auxiliary `list`, that its nodes
are distinct and exactly the live ones, that each knows the first of them (until that
one is freed), and where `mi->queue` points in each phase. For the refinement each
action is mapped to the abstract one it is, or to none: `Enqueue` to `Put`, `Commit` to
`Begin`, `CommitNext` to `Transmit`, `CommitEnd` to `End`, `Disconnect` to `Drop`, `FreeNode`
and `Connect` to a stutter.

**The queries.** `NothingLeftOver` and `SearchRemembered` speak of the moments between calls.
`EngineInv` says for the moments inside one that a line is held only while there is more to
read, that after an ACK nothing is, and that the statistics commit, which does not finish its command, reads on
until the reply has ended, an error is set, or a line without a colon has cut it short: the third is
the one case in which a reply is half read between calls (`CutShort`). `SearchInv` says that the
request is what the client has described, and where the two memories may differ:
while the reply to a commit is read, and when the engine has found a request already there, after
which the unlock gives the connection up and both are reset. That a second start leaves
`search_type` and the request apart is only safe because that error is not an ACK.

**The replies.** `CompleteOrTold` and `HandedOver` speak of a call that has returned.
`ReplyInv` says for each place of the reading loops what the list built so far has to do with
the lines read so far, in two parts. `HeldInv` holds whatever the server sends: what is allocated is
the list and the object under way (`HeapInv`), a parse error stays until the lock is given back
(`TroubleInv`). `IntactInv` holds as long as no line was malformed. Where no line is held, or the
held one begins something new, the list
represents the lines digested (`NextInv`, `HeadInv`, `StringInv`); while an entity or output is read, the list
represents all but the last of those that have begun, and that last is the one under way, with
exactly its own attributes (`Current` in `AttributesInv`, `OutputInv`); when reading is over, what the function keeps
of the whole reply (`DoneInv`). A list that will be thrown away or reported (`Excused`) owes nothing.
The single line of look-ahead, `returnElement`, is what makes this delicate: the line that ends one
entity begins the next, so a line is read by one call and digested by another, and a loop that
drops it, or digests it twice, falls out of `Current`. `CommandInv` is what makes `NoErrorOfItsOwn`
true: a client that goes by the headers commits a search with the function that belongs to it, so that the reply is of the kind
that is expected and every entity begins with a line that can begin one.

`CompleteOrTold` is not a part of the invariant. It is shown at the step that returns: there the reply is
`Sound`, no error was reported, so none was a parse error (`TroubleInv`), so the reply is intact and
`DoneInv` says what the list is.

The functions are the records of the table in `Queries`; the proof uses of each only the few
facts of `FunctionOK`, shown once for all of them. `QueriesReplyLemmas` holds what is needed of the
operators: what a further line adds to `Starts`, `First`, `Last` and `Fits`, and what appending an object
does to `Represents`. Each action then has one lemma for `TypeOK` and one for `ReplyInv`.

**The result lists.** `ListInv` says that `next` and `prev` spell out the auxiliary
sequences, that no node is in two of them or in one and about to be freed, that the nodes
in them are the live ones, and, for the `first` pointers, up to which node
the loop that corrects them has come (`FirstSet`). The hard steps are `Link`, which joins two sequences
whose nodes must be shown to be disjoint, and `DeleteItem`, after which every position
behind the one removed moves. For the refinement each operation is mapped to its abstract
one at the step that changes the sequences; the loops are stutters.

The assumptions are those named in the modules; TLC evaluates them in each run.

Every safety property of a passing run is a theorem, six of them under the hypotheses named in
the tables (`NoGetterFault`, `StatusInv`, `OpensClean`, `OpenInv`, `InSync`, `Implements` of the engine). Only model-checked is
`SectionsEnd`, which is liveness under fairness. The properties of the runs that expect a violation are false, and
the runs say of what client.

## 5. Not modelled

The comparison of `CurrentState` with a new status and the outputs table
(`libmpd-status.c:78-327`): when it runs and what it may report is in `MpdSession`, which
fields differ is a choice there. Host lookup and the text of the welcome line;
the parsing of status, statistics and song attributes into structures beyond which line goes
where; formatting (`libmpd-strfsong.c`) and logging; allocation failures;
`mpd_misc_sort_tag_list`, whose calls are commented out; `mpd_set_hostname`, `mpd_set_port` and the other functions that
only store a value for the next connect. The stand-alone programs keep no state between
calls. What callbacks do beyond starting a
search is not modelled together with the reading of replies.

## 6. Plan

Done: the session, the protocol engine, the queue, the queries and searches, and the
result lists, with proofs of all their safety properties. Open, in order of worth:

1. `StatusDiff`: the comparison that computes `what_changed` and the outputs table, against
   "a field is announced when and only when it changed".
2. Command lists as one request of `RequestReply`, on a connection that loses nothing.
