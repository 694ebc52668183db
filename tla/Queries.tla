------------------------------- MODULE Queries -------------------------------
(***************************************************************************)
(* The queries and searches of libmpd: the functions of libmpd-database.c, *)
(* libmpd-playlist.c, libmpd-sticker.c and libmpd.c that send one command, *)
(* take its reply apart with the reading functions of libmpdclient.c, and  *)
(* hand the client a list of what was in it.                               *)
(*                                                                         *)
(* A line of a reply is the name of its key; what it says is identified by *)
(* its position, so an entity, a string or an output that was built from a *)
(* reply is known by the position of the line it began with.               *)
(*                                                                         *)
(* One function runs at a time. Only the error callback for an ACK calls   *)
(* back, to start a search; MpdSession has the other callbacks.            *)
(***************************************************************************)
EXTENDS Integers, Sequences

CONSTANTS
  Clients,         \* which kinds of client there are, see MayStart and MayCall
  Versions,        \* server versions: 1201 is 0.12.1
  Fields,          \* tags a field search may list
  Constraints,     \* constraints with a valid tag
  MaxLines,        \* bound on the lines of a reply
  MaxConstraints,  \* bound on the constraints of a search
  None

ASSUME ClientsAssumption == Clients \subseteq {"reader", "documented", "any", "finder"}
ASSUME BoundsAssumption == MaxLines \in Nat /\ MaxConstraints \in Nat /\ Versions \subseteq Nat

(* The text of a search that is being built.                               *)
Kinds == {"find", "search", "playlistfind", "playlistsearch", "list", "count"}

Requests == [command : Kinds, field : Fields \cup {None}, with : Seq(Constraints)]

ASSUME NoneAssumption == None \notin Fields \cup Constraints \cup Requests

VARIABLES
  client,            \* what kind of client this is
  connected,         \* mi->connected
  version,           \* connection->version
  search,            \* mi->search_type and mi->search_field
  request,           \* connection->request: a search that is being built
  processing,        \* ~connection->doneProcessing
  error, code,       \* connection->error and errorCode
  element,           \* connection->returnElement: a position, or 0
  call, at,          \* the function that runs or ran last, where it is
  ent, data, alive,  \* the entity that is read, the list, what is allocated
  result, told,      \* what the client got, whether an error was reported
  answer, command,   \* auxiliary: the lines that were read of the last
                     \* reply, and the command it answers
  sent,              \* auxiliary: the request that was sent
  wanted, asked      \* auxiliary: the search the client is building, and
                     \* what it means the running function to send

session    == <<connected, version, search>>
connection == <<request, processing, error, code, element>>
reading    == <<ent, data, alive>>
outcome    == <<result, told>>
intent     == <<command, sent, wanted, asked>>
vars == <<client, session, connection, call, at, reading, outcome, answer, intent>>

Errors == {"none", "ack", "proto", "lost"}
Codes  == {"other", "exist", "noexist"}

-----------------------------------------------------------------------------
(* The functions. Each is one command and what is done with the reply:     *)
(*   cmd      the command                                                  *)
(*   read     which reading function is called, and whether in a loop      *)
(*   key      the key mpd_getNextReturnElementNamed looks for              *)
(*   keep     the entities that go into the list or are returned           *)
(*   forgive  the ACK code that is cleared before the lock is given back   *)
(*   failed   what becomes of the list when mpd_unlock_conn reports        *)
(*   node     the node of the list that is handed out                      *)
(*   since    the server version the function asks for                     *)
(*   before   whether mpd_status_check is called first                     *)
(*   after    what is called when the lock has been given back             *)
Section(cmd) ==
  [cmd |-> cmd, read |-> "nothing", key |-> "", keep |-> {}, forgive |-> "none",
   failed |-> "returned", node |-> "first", since |-> 0, before |-> "", after |-> ""]

ListOf(cmd, types) == [Section(cmd) EXCEPT !.read = "entities", !.keep = types]
OneSong(cmd)       == [Section(cmd) EXCEPT !.read = "entity", !.keep = {"song"}, !.failed = "freed"]
Strings(cmd, key)  == [Section(cmd) EXCEPT !.read = "strings", !.key = key]
OneString(cmd, key) == [Section(cmd) EXCEPT !.read = "string", !.key = key]
Checked(f)         == [f EXCEPT !.before = "status"]

(* libmpd-database.c *)
UpdateDir          == [Section("update") EXCEPT !.after = "update"]
GetArtists         == Strings("listartist", "Artist")
GetAlbums          == Strings("listalbum", "Album")
GetComplete        == ListOf("listallinfo", {"song"})
DeletePlaylist     == Section("rm")
SavePlaylist       == [Section("save") EXCEPT !.forgive = "exist"]
GetDirectory       == ListOf("lsinfo", {"song", "directory", "playlist"})
GetPlaylistContent == [ListOf("listplaylistinfo", {"song"}) EXCEPT !.forgive = "noexist",
                                                                   !.since = 1200]
GetFileinfo        == OneSong("listallinfo")
PlaylistClear      == Checked(Section("playlistclear"))
PlaylistListDelete == Checked(Section("playlistdelete"))
PlaylistListAdd    == Checked(Section("playlistadd"))
GetDirectoryRecursive == ListOf("listallinfo", {"song"})
PlaylistRename     == Checked(Section("rename"))
PlaylistMove       == Section("playlistmove")
PlaylistList       == {ListOf(cmd, {"playlist"}) : cmd \in {"listplaylists", "lsinfo"}}

(* libmpd-playlist.c. A range is asked for in a command list, one command  *)
(* for a song: each send forgets the error of the one before, so the end   *)
(* of the list decides, and that is refused like any command when the      *)
(* engine is busy. The list may be empty, and so may the reply.            *)
GetSong            == OneSong("playlistid")
GetSongFromPos     == [OneSong("playlistinfo") EXCEPT !.failed = "leaked"]
GetSongRange       == Checked([ListOf("playlistinfo", {"song"}) EXCEPT !.failed = "leaked",
                                                                  !.node = "last"])
ClearPlaylist      == [Section("clear") EXCEPT !.after = "update"]
ShufflePlaylist    == Section("shuffle")
MoveId             == Section("moveid")
MovePos            == Section("move")
GetChanges         == [ListOf("plchanges", {"song"}) EXCEPT !.failed = "freed"]
GetChangesPosid    == [ListOf("plchangesposid", {"song"}) EXCEPT !.failed = "freed"]
AddGetId           == [OneString("addid", "Id") EXCEPT !.failed = "value"]

(* libmpd.c and libmpd-sticker.c *)
GetOutputDevices   == [Section("outputs") EXCEPT !.read = "outputs", !.failed = "freed"]
SetOutputDevice    == Section("enableoutput")
GetTagTypes        == Strings("tagtypes", "tagtype")
SetReplaygainMode  == Section("replay_gain_mode")
GetReplaygainMode  == [OneString("replay_gain_status", "replay_gain_mode") EXCEPT !.failed = "value"]
StickerGet         == [OneString("sticker get", "sticker") EXCEPT !.forgive = "noexist",
                                                                  !.failed = "freed"]
StickerSet         == Section("sticker set")

Queried ==
  {UpdateDir, GetArtists, GetAlbums, GetComplete, DeletePlaylist, SavePlaylist, GetDirectory,
   GetPlaylistContent, GetFileinfo, PlaylistClear, PlaylistListDelete, PlaylistListAdd,
   GetDirectoryRecursive, PlaylistRename, PlaylistMove, GetSong, GetSongFromPos, GetSongRange,
   ClearPlaylist, ShufflePlaylist, MoveId, MovePos, GetChanges, GetChangesPosid, AddGetId,
   GetOutputDevices, SetOutputDevice, GetTagTypes, SetReplaygainMode, GetReplaygainMode,
   StickerGet, StickerSet} \cup PlaylistList

(* Starting a search remembers it twice, as mi->search_type and as the     *)
(* text of connection->request.                                            *)
NoSearch == [type |-> "none", field |-> None]

Since(type) == IF type = "stats" THEN 1300
               ELSE IF type \in {"playlistfind", "playlistsearch"} THEN 1201 ELSE 1200

CommandOf(type) == IF type = "stats" THEN "count" ELSE type

SearchTypes == {"find", "search", "playlistfind", "playlistsearch", "stats"}
Searches == {[type |-> t, field |-> None] : t \in SearchTypes}
            \cup {[type |-> "list", field |-> f] : f \in Fields}

RequestFor(s) == [command |-> CommandOf(s.type), field |-> s.field, with |-> <<>>]
Constrained(r, c) == [r EXCEPT !.with = Append(@, c)]

(* A start or a constraint that went wrong: what is left is the unlock.    *)
Building == Section("building")

(* mpd_database_find: a search of its own, sent at once.                   *)
Find(exact) == ListOf(IF exact THEN "find" ELSE "search", {"song"})

-----------------------------------------------------------------------------
(* What the server may answer (external): the keys a reply to a command    *)
(* begins with, and those that follow. A command ends its reply when its   *)
(* sender calls mpd_finishCommand.                                         *)
Command(name, k, ends) == [name |-> name, key |-> k, ends |-> ends]
CommandFor(f)   == Command(f.cmd, f.key, TRUE)
CommandIn(r, f) == Command(r.command, r.field, f.read # "stats")
StatusCommand   == Command("status", "", FALSE)

Songs == {"find", "search", "playlistfind", "playlistsearch", "listplaylistinfo",
          "playlistid", "playlistinfo", "plchanges"}

FirstLines ==
  CASE command.name \in Songs -> {"file"}
    [] command.name \in {"lsinfo", "listallinfo"} -> {"file", "directory", "playlist"}
    [] command.name = "listplaylists" -> {"playlist"}
    [] command.name = "plchangesposid" -> {"cpos"}
    [] command.name = "outputs" -> {"outputid"}
    [] command.name = "count" -> {"songs"}
    [] OTHER -> {command.key} \ {""}

OtherLines ==
  CASE command.name \in Songs -> {"file", "Artist", "Title", "empty Artist"}
    [] command.name = "listallinfo" -> {"file", "directory", "playlist", "Artist", "Title"}
    [] command.name = "lsinfo" -> {"file", "directory", "playlist", "Artist", "Last-Modified"}
    [] command.name = "listplaylists" -> {"playlist", "Last-Modified"}
    [] command.name = "plchangesposid" -> {"cpos", "Id"}
    [] command.name = "outputs" -> {"outputid", "outputname", "outputenabled"}
    [] command.name = "count" -> {"playtime"}
    [] command.name = "status" -> {"playlist", "state"}
    [] OTHER -> FirstLines

(* A line without a colon is bare, one with nothing but text behind the    *)
(* colon ("key:value") is junk.                                            *)
Malformed == {"bare", "junk"}
NextLines == (IF answer = <<>> THEN FirstLines ELSE OtherLines) \ Malformed

(* Mutated: the last line is still there when the reply has ended.         *)
GetNextKeepingLast ==
  \/ ~processing /\ error' = "proto" /\ UNCHANGED <<processing, code, element, answer>>
  \/ /\ processing
     /\ \/ /\ Len(answer) < MaxLines
           /\ \E name \in NextLines : answer' = Append(answer, name)
           /\ element' = Len(answer) + 1
           /\ UNCHANGED <<processing, error, code>>
        \/ processing' = FALSE /\ UNCHANGED <<element, error, code, answer>>

(* mpd_getNextReturnElement: the next line, one that is malformed and      *)
(* leaves no element behind, the end of the reply, an ACK, or a connection *)
(* that times out or is closed.                                            *)
GetNextReturnElement ==
  \/ /\ ~processing
     /\ error' = "proto" /\ element' = 0
     /\ UNCHANGED <<processing, code, answer>>
  \/ /\ processing
     /\ \/ /\ Len(answer) < MaxLines
           /\ \E name \in NextLines : answer' = Append(answer, name)
           /\ element' = Len(answer) + 1
           /\ UNCHANGED <<processing, error, code>>
        \/ /\ Len(answer) < MaxLines
           /\ \E line \in Malformed :
                /\ answer' = Append(answer, line)
                /\ error' = IF line = "junk" THEN "proto" ELSE error
           /\ element' = 0
           /\ UNCHANGED <<processing, code>>
        \/ /\ processing' = FALSE /\ element' = 0
           /\ \/ UNCHANGED <<error, code>>
              \/ error' = "ack" /\ code' \in Codes
              \/ error' = "lost" /\ UNCHANGED code
           /\ UNCHANGED answer

(* mpd_executeCommand forgets an earlier error, and may fail to send. In   *)
(* an engine that is not done with a reply it sends nothing; what is read  *)
(* then is the rest of that reply.                                         *)
ExecuteCommand(c) ==
  IF processing
    THEN error' = "proto" /\ UNCHANGED <<processing, command>>
    ELSE /\ \/ error' = "none" /\ processing' = TRUE
            \/ error' = "lost" /\ processing' = FALSE
         /\ command' = c

-----------------------------------------------------------------------------
(* Calls. *)

Init ==
  /\ client \in Clients
  /\ connected = FALSE /\ version \in Versions /\ search = NoSearch
  /\ request = None /\ processing = FALSE /\ error = "none" /\ code = "other" /\ element = 0
  /\ call = Building /\ at = "idle"
  /\ ent = None /\ data = <<>> /\ alive = {} /\ result = <<>> /\ told = FALSE
  /\ answer = <<>> /\ command = StatusCommand /\ sent = None /\ wanted = None /\ asked = None

(* mpd_connect_real *)
Connect ==
  /\ at = "idle" /\ ~connected
  /\ connected' = TRUE /\ version' \in Versions
  /\ UNCHANGED <<client, search, connection, call, at, reading, outcome, answer, intent>>

(* mpd_disconnect and mpd_closeConnection: the request goes with the       *)
(* connection, and the client learns that its search is gone.              *)
Disconnected ==
  /\ connected' = FALSE
  /\ search' = NoSearch
  /\ request' = None /\ processing' = FALSE /\ error' = "none" /\ element' = 0
  /\ wanted' = None

Disconnect ==
  /\ at = "idle" /\ connected
  /\ Disconnected
  /\ UNCHANGED <<client, version, code, call, at, reading, outcome, answer, command, sent, asked>>

(* A function that has passed its checks: what earlier calls returned has  *)
(* been freed by the client.                                               *)
Begin(f, meant) ==
  /\ at = "idle" /\ connected /\ version >= f.since
  /\ call' = f
  /\ ent' = None /\ data' = <<>> /\ alive' = {}
  /\ result' = <<>> /\ told' = FALSE
  /\ answer' = IF processing THEN answer ELSE <<>>
  /\ asked' = meant
  /\ UNCHANGED <<client, connected, version>>

(* What it reads first, once the command is sent.                          *)
Reads(f) == IF f.read = "nothing" THEN "finish" ELSE "next"

(* What the client may do: one that goes by the headers builds one search  *)
(* at a time and commits it with the function that belongs to it.          *)
MayStart == client # "reader" /\ (client # "any" => wanted = None)

MayCommit(type) == client = "any" \/ (wanted # None /\ search.type = type)

(* A query sends its command, after mpd_status_check if it calls that.     *)
Query(f) ==
  /\ client = "reader" \/ f = GetArtists
  /\ Begin(f, None)
  /\ sent' = None
  /\ IF f.before = "status"
       THEN at' = "check" /\ UNCHANGED <<processing, error, command>>
       ELSE at' = Reads(f) /\ ExecuteCommand(CommandFor(f))
  /\ UNCHANGED <<search, request, code, element, wanted>>

(* mpd_status_update ends the reading of a status, and of statistics, at a *)
(* line without a colon (libmpd-status.c; MpdConnection has the rest).     *)
StatusCutShort ==
  processing' = TRUE /\ command' = StatusCommand /\ answer' = <<"bare">>

(* mpd_status_check: the function goes on, after a status update that read *)
(* all or less, or returns, possibly because the connection was lost. In   *)
(* an engine that is busy an update sends nothing and fails.               *)
Check ==
  /\ at = "check"
  /\ \/ /\ at' = Reads(call) /\ ExecuteCommand(CommandFor(call))
        /\ UNCHANGED <<connected, search, request, element, wanted, answer>>
     \/ /\ ~processing
        /\ at' = Reads(call) /\ StatusCutShort /\ error' = "proto"
        /\ UNCHANGED <<connected, search, request, element, wanted>>
     \/ /\ at' = "idle"
        /\ \/ Disconnected
           \/ processing' = FALSE
              /\ UNCHANGED <<connected, search, request, error, element, wanted>>
        /\ UNCHANGED <<answer, command>>
  /\ UNCHANGED <<client, version, code, call, reading, outcome, sent, asked>>

(* Mutated: a search that is being built already is kept, and no one told. *)
StartQuietly(s) ==
  /\ request' = IF request # None THEN request ELSE RequestFor(s)
  /\ UNCHANGED error

(* mpd_startSearch, _startStatsSearch, _startPlaylistSearch and            *)
(* _startFieldSearch of the engine.                                        *)
StartRequest(s) ==
  IF request # None
    THEN error' = "proto" /\ UNCHANGED request
    ELSE request' = RequestFor(s) /\ UNCHANGED error

(* The four functions that start a search; mi->search_type is set however  *)
(* that went. A search that went wrong is reported by the unlock.          *)
Start(s) ==
  /\ MayStart /\ version >= Since(s.type)
  /\ Begin(Building, None)
  /\ StartRequest(s)
  /\ search' = s
  /\ at' = IF error' = "none" THEN "idle" ELSE "unlock"
  /\ wanted' = IF error' = "none" THEN RequestFor(s) ELSE wanted
  /\ UNCHANGED <<processing, code, element, command, sent>>

(* mpd_database_search_add_constraint and mpd_addConstraintSearch; None is *)
(* a constraint on something that is no tag.                               *)
AddConstraint(c) ==
  /\ client = "any" \/ (wanted # None /\ c # None)
  /\ search.type # "none"
  /\ request # None => Len(request.with) < MaxConstraints
  /\ version >= 1200
  /\ Begin(Building, None)
  /\ IF request = None \/ c = None
       THEN error' = "proto" /\ at' = "unlock" /\ UNCHANGED <<request, wanted>>
       ELSE /\ request' = Constrained(request, c)
            /\ wanted' = Constrained(wanted, c)
            /\ at' = "idle" /\ UNCHANGED error
  /\ UNCHANGED <<search, processing, code, element, command, sent>>

(* Mutated: the request is sent and not forgotten.                         *)
CommitKeepingRequest(f) ==
  /\ IF request = None
       THEN error' = "proto" /\ sent' = None /\ UNCHANGED <<processing, command>>
       ELSE ExecuteCommand(CommandIn(request, f)) /\ sent' = IF processing THEN None ELSE request
  /\ UNCHANGED request

(* mpd_commitSearch sends the request and forgets it.                      *)
CommitRequest(f) ==
  /\ IF request = None
       THEN error' = "proto" /\ sent' = None /\ UNCHANGED <<processing, command>>
       ELSE ExecuteCommand(CommandIn(request, f)) /\ sent' = IF processing THEN None ELSE request
  /\ request' = None

Commit(f, type) ==
  /\ MayCommit(type)
  /\ Begin(f, wanted)
  /\ CommitRequest(f)
  /\ at' = "next" /\ wanted' = None
  /\ UNCHANGED <<search, code, element>>

(* mpd_database_search_commit *)
SearchCommit ==
  /\ search.type # "none"
  /\ IF search.type = "list"
       THEN Commit([Strings("request", search.field) EXCEPT !.failed = "freed"], "list")
       ELSE \E t \in {"find", "search"} :
              Commit([ListOf("request", {"song"}) EXCEPT !.failed = "freed"], t)

(* mpd_playlist_search_commit: its guard lets a statistics search through. *)
PlaylistSearchCommit ==
  /\ search.type \in {"playlistfind", "playlistsearch", "stats"}
  /\ \E t \in {"playlistfind", "playlistsearch"} :
       Commit([ListOf("request", {"song"}) EXCEPT !.failed = "freed"], t)

(* mpd_database_search_stats_commit: it resets nothing.                    *)
StatsCommit ==
  /\ search.type = "stats"
  /\ Commit([Section("request") EXCEPT !.read = "stats", !.failed = "freed"], "stats")

(* mpd_database_find, with mpd_sendFindCommand and mpd_sendSearchCommand:  *)
(* start, constrain, commit, all on the request of the connection; that    *)
(* one is being built already is an error the sending forgets.             *)
DatabaseFind(exact, c) ==
  LET f == Find(exact)
      own == RequestFor([type |-> f.cmd, field |-> None])
      built == Constrained(IF request = None THEN own ELSE request, c)
  IN
  /\ client # "reader" /\ (client # "finder" => wanted = None)
  /\ Begin(f, Constrained(own, c))
  /\ ExecuteCommand(CommandIn(built, f))
  /\ sent' = (IF processing THEN None ELSE built) /\ request' = None
  /\ at' = "next"
  /\ UNCHANGED <<search, code, element, wanted>>

-----------------------------------------------------------------------------
(* Reading the reply. *)

key == answer[element]

StartKeys == {"file", "cpos", "directory", "playlist"}
EntityType(k) == IF k \in {"file", "cpos"} THEN "song" ELSE k

AtPlace(type, i) == [type |-> type, at |-> i, joined |-> <<>>, once |-> 0]
Object(type)     == AtPlace(type, element)

(* An attribute of a song or a playlist: several artists are joined, of    *)
(* anything else the first value counts, an empty one is passed over.      *)
WithAttribute(e) ==
  CASE e.type = "song" /\ key = "Artist" -> [e EXCEPT !.joined = Append(@, element)]
    [] e.type = "song" /\ key \in {"Title", "Id"} /\ e.once = 0 -> [e EXCEPT !.once = element]
    [] e.type = "playlist" /\ key = "Last-Modified" /\ e.once = 0 -> [e EXCEPT !.once = element]
    [] OTHER -> e

fixed == <<client, session, request, call, outcome, intent>>

(* A reading function returns NULL at once when the reply has ended.       *)
NothingLeft ==
  /\ at = "next" /\ ~processing
  /\ at' = IF call.read = "stats" THEN "unlock" ELSE "finish"
  /\ UNCHANGED <<fixed, processing, error, code, element, reading, answer>>

(* Mutated: each entity begins with a line that is read for it.            *)
NextEntityAfresh ==
  /\ at = "next" /\ processing
  /\ call.read \in {"entities", "entity"}
  /\ at' = "head"
  /\ GetNextReturnElement
  /\ UNCHANGED <<fixed, reading>>

(* mpd_getNextInfoEntity begins with the line that ended the last entity.  *)
NextEntity ==
  /\ at = "next" /\ processing
  /\ call.read \in {"entities", "entity"}
  /\ at' = "head"
  /\ IF element # 0 THEN UNCHANGED <<processing, error, code, element, answer>>
     ELSE GetNextReturnElement
  /\ UNCHANGED <<fixed, reading>>

BeginEntity ==
  /\ at = "head"
  /\ IF element # 0 /\ key \in StartKeys
       THEN /\ ent' = Object(EntityType(key))
            /\ alive' = alive \cup {element}
            /\ GetNextReturnElement
            /\ at' = "attributes"
       ELSE /\ error' = IF element # 0 THEN "proto" ELSE error
            /\ at' = "finish"
            /\ UNCHANGED <<ent, alive, processing, code, element, answer>>
  /\ UNCHANGED <<fixed, data>>

Attribute ==
  /\ at = "attributes" /\ element # 0 /\ key \notin StartKeys
  /\ ent' = WithAttribute(ent)
  /\ GetNextReturnElement
  /\ UNCHANGED <<fixed, at, data, alive>>

(* Mutated: an entity that is not wanted is not freed.                     *)
TakeEntityLeaking ==
  /\ at = "attributes" /\ (element # 0 => key \in StartKeys)
  /\ data' = IF call.read = "entity" \/ ent.type \in call.keep THEN Append(data, ent) ELSE data
  /\ at' = IF call.read = "entity" THEN "finish" ELSE "next"
  /\ ent' = None
  /\ UNCHANGED <<fixed, processing, error, code, element, alive, answer>>

(* The body of the loops: mpd_new_data_struct_append and the entity's      *)
(* content, or mpd_freeInfoEntity.                                         *)
TakeEntity ==
  /\ at = "attributes" /\ (element # 0 => key \in StartKeys)
  /\ IF call.read = "entity"
       THEN data' = <<ent>> /\ at' = "finish" /\ UNCHANGED alive
       ELSE /\ at' = "next"
            /\ IF ent.type \in call.keep THEN data' = Append(data, ent) /\ UNCHANGED alive
               ELSE alive' = alive \ {ent.at} /\ UNCHANGED data
  /\ ent' = None
  /\ UNCHANGED <<fixed, processing, error, code, element, answer>>

(* mpd_getNextReturnElementNamed always reads a new line.                  *)
NextString ==
  /\ \/ at = "next" /\ processing /\ call.read \in {"strings", "string"}
     \/ at = "line" /\ element # 0 /\ key # call.key
  /\ at' = "line"
  /\ GetNextReturnElement
  /\ UNCHANGED <<fixed, reading>>

TakeString ==
  /\ at = "line" /\ (element # 0 => key = call.key)
  /\ IF element # 0
       THEN /\ data' = Append(data, Object("string"))
            /\ alive' = alive \cup {element}
            /\ at' = IF call.read = "string" THEN "finish" ELSE "next"
       ELSE at' = "finish" /\ UNCHANGED <<data, alive>>
  /\ UNCHANGED <<fixed, processing, error, code, element, ent, answer>>

(* mpd_getNextOutput: an output is given out even when no line was read.   *)
(* Those without an id share the place 0.                                  *)
NextOutput ==
  /\ at = "next" /\ processing /\ call.read = "outputs"
  /\ IF error # "none"
       THEN at' = "finish" /\ UNCHANGED <<processing, error, code, element, answer, ent, alive>>
       ELSE /\ ent' = AtPlace("output", 0)
            /\ at' = "output"
            /\ IF element # 0 THEN UNCHANGED <<processing, error, code, element, answer>>
               ELSE GetNextReturnElement
            /\ UNCHANGED alive
  /\ UNCHANGED <<fixed, data>>

(* Mutated: the id of the next output does not end this one.               *)
OutputLineRunningOn ==
  /\ at = "output" /\ element # 0
  /\ ent' = IF key = "outputid" THEN [ent EXCEPT !.at = element]
            ELSE IF key = "outputname" THEN [ent EXCEPT !.once = element] ELSE ent
  /\ GetNextReturnElement
  /\ IF error' # "none" THEN at' = "finish" ELSE UNCHANGED at
  /\ UNCHANGED <<fixed, data, alive>>

OutputLine ==
  /\ at = "output" /\ element # 0
  /\ key = "outputid" => ent.at = 0
  /\ ent' = IF key = "outputid" THEN [ent EXCEPT !.at = element]
            ELSE IF key = "outputname" THEN [ent EXCEPT !.once = element] ELSE ent
  /\ GetNextReturnElement
  /\ IF error' # "none" THEN at' = "finish" ELSE UNCHANGED at
  /\ UNCHANGED <<fixed, data, alive>>

TakeOutput ==
  /\ at = "output" /\ (element # 0 => key = "outputid" /\ ent.at # 0)
  /\ data' = Append(data, ent)
  /\ alive' = alive \cup {ent.at}
  /\ ent' = None
  /\ at' = "next"
  /\ UNCHANGED <<fixed, processing, error, code, element, answer>>

(* mpd_getSearchStats reads to the end and takes no half of it.            *)
NextStats ==
  /\ \/ at = "next" /\ processing /\ call.read = "stats"
     \/ at = "stats" /\ element # 0
  /\ GetNextReturnElement
  /\ at' = IF error' # "none" THEN "unlock" ELSE "stats"
  /\ UNCHANGED <<fixed, reading>>

TakeStats ==
  /\ at = "stats" /\ element = 0
  /\ data' = <<Object("stats")>> /\ alive' = {0}
  /\ at' = "unlock"
  /\ UNCHANGED <<fixed, processing, error, code, element, ent, answer>>

(* Mutated: what is left of the reply is not read.                         *)
FinishAtOnce ==
  /\ at = "finish"
  /\ at' = "unlock"
  /\ search' = IF call.cmd = "request" THEN NoSearch ELSE search
  /\ UNCHANGED <<client, connected, version, connection, call, reading, outcome, answer, intent>>

(* Mutated: the search is remembered after it was committed.               *)
FinishRemembering ==
  /\ at = "finish"
  /\ IF processing THEN GetNextReturnElement /\ UNCHANGED at
     ELSE at' = "unlock" /\ UNCHANGED <<processing, error, code, element, answer>>
  /\ UNCHANGED <<client, session, request, call, reading, outcome, intent>>

(* mpd_finishCommand, and the commits that forget the search before they   *)
(* give the lock back.                                                     *)
Finish ==
  /\ at = "finish"
  /\ IF processing
       THEN GetNextReturnElement /\ UNCHANGED <<at, search>>
       ELSE /\ at' = "unlock"
            /\ search' = IF call.cmd = "request" THEN NoSearch ELSE search
            /\ UNCHANGED <<processing, error, code, element, answer>>
  /\ UNCHANGED <<client, connected, version, request, call, reading, outcome, intent>>

-----------------------------------------------------------------------------
(* Giving the lock back, and returning. *)

Objects(list) == {list[i].at : i \in DOMAIN list}

(* What the function returns: after a report the list is handed out as it  *)
(* is, freed, or forgotten. A value that is no list is read and freed, and *)
(* so is a sticker when its ACK is forgiven. The client owns the list as a *)
(* whole, whichever node it was given.                                     *)
forgiven == error = "ack" /\ code = call.forgive

Return(reported) ==
  LET list == IF call.read = "entity" /\ data # <<>> /\ data[1].type \notin call.keep
              THEN <<>> ELSE data
      given == IF \/ call.failed = "value"
                  \/ reported /\ call.failed # "returned"
                  \/ forgiven /\ call.read = "string"
               THEN <<>> ELSE list
  IN
  /\ result' = given
  /\ alive' = IF reported /\ call.failed = "leaked" THEN alive
              ELSE alive \ (Objects(data) \ Objects(given))
  /\ at' = IF call.after = "update" THEN "after" ELSE "idle"

(* mpd_unlock_conn and mpd_check_error.                                    *)
Unlock ==
  /\ at = "unlock"
  /\ CASE error = "none" \/ forgiven ->
            /\ error' = "none" /\ Return(FALSE)
            /\ UNCHANGED <<connected, search, request, processing, element, wanted, told>>
       [] error = "ack" /\ ~forgiven ->
            /\ error' = "none" /\ told' = TRUE /\ at' = "callback"
            /\ UNCHANGED <<connected, search, request, processing, element, wanted, result, alive>>
       [] OTHER ->
            /\ told' = TRUE /\ Disconnected /\ Return(TRUE)
  /\ UNCHANGED <<client, version, code, call, ent, data, answer, command, sent, asked>>

(* The error callback for an ACK: it may start a search, and tell the      *)
(* library to disconnect.                                                  *)
CallbackStarts(s) ==
  /\ at = "callback" /\ client # "reader"
  /\ wanted = None /\ request = None /\ version >= Since(s.type)
  /\ search' = s /\ request' = RequestFor(s) /\ wanted' = RequestFor(s)
  /\ UNCHANGED <<client, connected, version, processing, error, code, element, call, at,
                 reading, outcome, answer, command, sent, asked>>

CallbackReturns ==
  /\ at = "callback"
  /\ Return(TRUE)
  /\ Disconnected \/ UNCHANGED <<connected, search, request, processing, error, element, wanted>>
  /\ UNCHANGED <<client, version, code, call, ent, data, told, answer, command, sent, asked>>

(* mpd_status_update at the end of a function: it may lose the connection, *)
(* or stop in the middle of a reply.                                       *)
Update ==
  /\ at = "after"
  /\ at' = "idle"
  /\ \/ /\ Disconnected \/ UNCHANGED <<connected, search, request, processing, error, element, wanted>>
        /\ UNCHANGED <<answer, command>>
     \/ StatusCutShort /\ UNCHANGED <<connected, search, request, error, element, wanted>>
  /\ UNCHANGED <<client, version, code, call, reading, outcome, sent, asked>>

Next ==
  \/ Connect \/ Disconnect
  \/ (\E f \in Queried : Query(f)) \/ Check
  \/ (\E s \in Searches : Start(s) \/ CallbackStarts(s))
  \/ (\E c \in Constraints \cup {None} : AddConstraint(c))
  \/ (\E c \in Constraints, exact \in BOOLEAN : DatabaseFind(exact, c))
  \/ SearchCommit \/ PlaylistSearchCommit \/ StatsCommit
  \/ NothingLeft \/ NextEntity \/ BeginEntity \/ Attribute \/ TakeEntity
  \/ NextString \/ TakeString \/ NextOutput \/ OutputLine \/ TakeOutput
  \/ NextStats \/ TakeStats \/ Finish
  \/ Unlock \/ CallbackReturns \/ Update

Spec == Init /\ [][Next]_vars

-----------------------------------------------------------------------------
(* Properties. *)

TypeOK ==
  /\ client \in Clients /\ connected \in BOOLEAN /\ version \in Versions
  /\ search \in Searches \cup {NoSearch}
  /\ request = None \/ \E s \in Searches : request.command = CommandOf(s.type)
  /\ processing \in BOOLEAN /\ error \in Errors /\ code \in Codes
  /\ element \in 0..Len(answer)
  /\ at \in {"idle", "check", "next", "head", "attributes", "line", "output", "stats",
             "finish", "unlock", "callback", "after"}
  /\ alive \subseteq 0..Len(answer) /\ Objects(data) \subseteq 0..Len(answer)
  /\ told \in BOOLEAN

(* What the lines a of a reply say to a function f. A line with a key of   *)
(* Begins starts something, an entity, a string or an output; the lines    *)
(* below it are its own up to the next start.                              *)
Begins(f) ==
  CASE f.read \in {"entities", "entity"} -> StartKeys
    [] f.read \in {"strings", "string"}  -> {f.key}
    [] f.read = "outputs" -> {"outputid"}
    [] OTHER -> {}

TypeAt(f, a, i) ==
  CASE f.read \in {"entities", "entity"} -> EntityType(a[i])
    [] f.read \in {"strings", "string"}  -> "string"
    [] f.read = "outputs" -> "output"
    [] OTHER -> "stats"

LinesOf(a, keys) == {i \in DOMAIN a : a[i] \in keys}
Starts(f, a) == LinesOf(a, Begins(f))
Under(f, a, i, keys) ==
  {j \in LinesOf(a, keys) : i < j /\ \A k \in Starts(f, a) : ~(i < k /\ k < j)}

Joined(type) == IF type = "song" THEN {"Artist"} ELSE {}
Single(type) == CASE type = "song" -> {"Title", "Id"}
                  [] type = "playlist" -> {"Last-Modified"}
                  [] OTHER -> {}

First(S) == {i \in S : \A j \in S : i <= j}
Last(S)  == {i \in S : \A j \in S : i >= j}

(* The places of S and no others, in the order of the reply.               *)
InOrder(places, S) ==
  /\ {places[m] : m \in DOMAIN places} = S
  /\ \A k, m \in DOMAIN places : k < m => places[k] < places[m]

(* A value that is read once is at the first or last place of S, if any.   *)
FirstIs(place, S) == IF S = {} THEN place = 0 ELSE place \in First(S)
LastIs(place, S)  == IF S = {} THEN place = 0 ELSE place \in Last(S)

(* An object has its type, and of its lines those that belong to it: all   *)
(* artists, the first title or date, the last name of an output.           *)
Fits(f, a, e) ==
  /\ e.type = TypeAt(f, a, e.at)
  /\ InOrder(e.joined, Under(f, a, e.at, Joined(e.type)))
  /\ IF e.type = "output" THEN LastIs(e.once, Under(f, a, e.at, {"outputname"}))
     ELSE FirstIs(e.once, Under(f, a, e.at, Single(e.type)))

(* The list has what starts at the places of S, as the lines tell.         *)
Represents(f, a, list, S) ==
  /\ InOrder([m \in DOMAIN list |-> list[m].at], S)
  /\ \A m \in DOMAIN list : Fits(f, a, list[m])

Kept(f, a, S) == {i \in S : f.read \in {"entities", "entity"} => TypeAt(f, a, i) \in f.keep}

(* Where what the function is to return starts.                            *)
Due(f, a) ==
  IF f.failed = "value" THEN {}
  ELSE CASE f.read \in {"entity", "string"} -> Kept(f, a, First(Starts(f, a)))
         [] f.read = "stats" -> {0}
         [] OTHER -> Kept(f, a, Starts(f, a))

(* What a client sees of a list: the node it was given and those after it  *)
(* (mpd_data_get_next).                                                    *)
Handed(f, list) == IF f.node = "last" /\ list # <<>> THEN <<list[Len(list)]>> ELSE list

(* A reply without a malformed line.                                       *)
Intact(a) == \A i \in DOMAIN a : a[i] \notin Malformed

(* A reply whose trouble the function does not pass over in silence: it    *)
(* ends a list at a line without a colon, and when it forgives an ACK the  *)
(* ACK takes the place of a parse error.                                   *)
Sound(f, a) == \A i \in DOMAIN a : a[i] # "bare" /\ (a[i] = "junk" => f.forgive = "none")

(* A client that was not told of an error has everything that was in a     *)
(* sound reply, each line with the entity it belongs to, and nothing else: *)
(* the loops over mpd_getNextInfoEntity, mpd_getNextReturnElementNamed,    *)
(* mpd_getNextOutput and mpd_getSearchStats against the reply as a whole.  *)
(* Left out are mpd_playlist_get_song_from_pos_range, see RangeHandedOut,  *)
(* a reply without outputs, for which mpd_getNextOutput makes one up, and  *)
(* a sticker whose ACK is forgiven.                                        *)
CompleteOrTold ==
  at = "idle" /\ ~told /\ Sound(call, answer) /\ call.node = "first" =>
    \/ Represents(call, answer, Handed(call, result), Due(call, answer))
    \/ call.read = "outputs" /\ answer = <<>>
    \/ call.read = "string" /\ call.forgive # "none" /\ result = <<>>

(* libmpd-playlist.h:78 says of mpd_playlist_get_song_from_pos_range:      *)
(* "returns the MpdData list with song from the playlist from pos start    *)
(* until stop. so start = 0, stop = 5 will return song 0,1,2,3,4,5."       *)
RangeHandedOut ==
  at = "idle" /\ ~told /\ Sound(call, answer) /\ call = GetSongRange =>
    Represents(call, answer, Handed(call, result), Due(call, answer))

(* What was allocated for a reply is with the client or freed when the     *)
(* function returns, whatever failed. mpd_playlist_get_song_from_pos and   *)
(* _range do not free when the unlock reports: "for now this can never     *)
(* happen" (libmpd-playlist.c:163, 231), which an ACK or a timeout in the  *)
(* rest of the reply contradicts.                                          *)
HandedOver ==
  at = "idle" /\ ~(told /\ call.failed = "leaked") => alive = Objects(result)

(* A line without a colon has ended the reading of a reply that the sender *)
(* of the command does not end itself: mpd_database_search_stats_commit    *)
(* and mpd_status_update.                                                  *)
CutShort == ~command.ends /\ \E i \in DOMAIN answer : answer[i] = "bare"

(* Between two calls the engine is ready: no line of one reply is left     *)
(* over for the next one (connection->returnElement) and no error is, and  *)
(* no reply is half read unless it was cut short, although                 *)
(* mpd_database_search_stats_commit does not finish its reply.             *)
NothingLeftOver == at = "idle" => element = 0 /\ error = "none" /\ (processing => CutShort)

(* The two memories of a search agree.                                     *)
Agreed ==
  IF request = None THEN search.type \in {"none", "stats"}
  ELSE request.command = CommandOf(search.type) /\ request.field = search.field

(* The two memories of a search agree between calls, and in the error      *)
(* callback: a request that is being built is of mi->search_type; without  *)
(* one there is no search, or a statistics search that was committed. This *)
(* holds as long as mpd_database_find is not called while one is built.    *)
SearchRemembered == at \in {"idle", "callback"} /\ client # "finder" => Agreed

(* What a commit or a find sends is the search the client has described:   *)
(* its kind, and every constraint since it was started, in order.          *)
SendsWhatWasAsked ==
  client # "finder" /\ asked # None /\ sent # None => sent = asked

(* A client that uses the functions as libmpd-database.h and               *)
(* libmpd-playlist.h show never meets an error the library makes itself,   *)
(* after which mpd_check_error would give the connection up, unless a line *)
(* of the reply is malformed.                                              *)
NoErrorOfItsOwn ==
  client \in {"reader", "documented"} /\ error = "proto" => ~Intact(answer)

(* libmpd-database.h:78 says of mpd_database_find: "exact if #TRUE only    *)
(* return exact matches".                                                  *)
ExactOnly == call = Find(TRUE) /\ sent # None => sent.command = "find"

-----------------------------------------------------------------------------
(* The inductive invariant (proved in QueriesProofs).                      *)

Reading == {"next", "head", "attributes", "line", "output", "stats", "finish"}

(* The engine holds a line only of a reply that has not ended, and has no  *)
(* error outside a section; there it is ready unless a reply was cut short. *)
EngineInv ==
  /\ element # 0 => processing
  /\ at \in {"idle", "check", "callback", "after"} =>
       error = "none" /\ element = 0 /\ (processing => CutShort)
  /\ at = "unlock" /\ error = "none" => element = 0 /\ (processing => CutShort)
  /\ error = "ack" => ~processing
  /\ at = "stats" => call.read = "stats" /\ error = "none"
  /\ at = "stats" /\ element = 0 /\ processing => CutShort
  /\ call.read = "stats" /\ at \in Reading /\ error = "none" => ~command.ends
  /\ at = "check" => call.cmd # "request" /\ call.read # "stats"

(* The request is what the client wants. The memories agree except while   *)
(* the reply to a commit is read, and when the library is about to give up *)
(* the connection for an error of its own.                                 *)
SearchInv ==
  client # "finder" =>
    /\ request = wanted
    /\ request # None => request \in Requests
    /\ asked # None /\ sent # None => sent = asked
    /\ IF at \in Reading /\ call.cmd = "request"
         THEN request = None /\ (call.read = "stats" => search.type = "stats")
         ELSE Agreed \/ (at = "unlock" /\ error = "proto")

QueryInv == EngineInv /\ SearchInv

(* The inductive invariant behind CompleteOrTold, HandedOver, TypeOK and   *)
(* NoErrorOfItsOwn (proved in QueriesReplyProofs).                         *)

(* What is common to all functions.                                        *)
FunctionOK(f) ==
  /\ f.read \in {"nothing", "entities", "entity", "strings", "string", "outputs", "stats"}
  /\ f.failed \in {"returned", "freed", "leaked", "value"}
  /\ f.failed = "leaked" => f.read \in {"entities", "entity"}
  /\ f.read = "outputs" => f.cmd = "outputs" /\ f.forgive = "none" /\ f.failed # "value"
  /\ f.read \in {"entity", "stats"} => f.forgive = "none" /\ f.failed # "value"
  /\ f.failed = "value" => f.read = "string"
  /\ f.after = "update" => f.read = "nothing"

OfEntities == Songs \cup {"lsinfo", "listallinfo", "listplaylists", "plchangesposid"}

ByTheHeaders == client \in {"reader", "documented"}

Types == {"song", "directory", "playlist", "string", "output", "stats"}
Thing == [type : Types, at : Nat, joined : Seq(Nat), once : Nat]

ShapeInv ==
  /\ FunctionOK(call)
  /\ data \in Seq(Thing) /\ result \in Seq(Thing)
  /\ at \in {"attributes", "output"} => ent \in Thing

(* Each reading function is at its own places. A line that is held is the  *)
(* last that was read, and nothing is given to the client before the lock  *)
(* is given back.                                                          *)
PlaceInv ==
  /\ at \in {"head", "attributes"} => call.read \in {"entities", "entity"}
  /\ at = "line" => call.read \in {"strings", "string"}
  /\ at = "output" => call.read = "outputs"
  /\ at = "after" => call.read = "nothing"
  /\ element \in {0, Len(answer)}
  /\ at \in Reading \cup {"check"} => result = <<>> /\ ~told
  /\ at = "callback" => told
  /\ at = "check" => data = <<>>
  /\ call.read = "nothing" => data = <<>> /\ result = <<>>
  /\ call.read = "entity" /\ at \in {"next", "head", "attributes"} => data = <<>>

(* A parse error stays until the lock is given back, and no reply with one *)
(* is half read between two calls.                                         *)
TroubleInv ==
  error = "none" /\ (at \in Reading \cup {"check", "unlock"} \/ processing) =>
    \A i \in DOMAIN answer : answer[i] # "junk"

(* The lines before the one that is held.                                  *)
digested == IF element = 0 THEN answer ELSE SubSeq(answer, 1, Len(answer) - 1)

(* What is allocated is what is in the list, and the entity that is read,  *)
(* which began above the line that is held and below all in the list.      *)
HeapInv ==
  /\ at = "head" \/ (at = "next" /\ call.read \in {"entities", "entity"}) =>
       \A m \in DOMAIN data : data[m].at <= Len(digested)
  /\ at = "attributes" =>
       /\ ent.at <= Len(digested) /\ \A m \in DOMAIN data : data[m].at < ent.at
       /\ alive = Objects(data) \cup {ent.at}
  /\ at = "output" => ent.at <= Len(digested)
  /\ at \notin {"attributes", "idle", "after"} => alive = Objects(data)
  /\ at \in {"idle", "after"} => alive = Objects(result) \/ (told /\ call.failed = "leaked")

(* The rest is about a reply that is intact so far. It begins as its       *)
(* reading function expects: always that of outputs, and of entities for a *)
(* function that forgives an ACK, or for a client that goes by the headers. *)
CommandInv ==
  /\ at \in Reading \cup {"check"} =>
       LET name == IF at = "check" THEN call.cmd ELSE command.name IN
       /\ call.read = "outputs" => name = "outputs"
       /\ call.read \in {"entities", "entity"} /\ (call.forgive # "none" \/ ByTheHeaders) =>
            name \in OfEntities
  /\ at = "check" => answer = <<>>
  /\ at \in {"head", "attributes", "line", "output", "stats"} => (processing <=> element # 0)
  /\ at \in Reading \ {"finish"} /\ processing => error = "none"
  /\ ByTheHeaders => error # "proto"

(* Between two entities, strings or outputs.                               *)
NextInv ==
  at = "next" =>
    /\ call.read # "nothing"
    /\ processing /\ element = 0 => answer = <<>>
    /\ call.read \in {"entity", "string", "stats"} => answer = <<>>
    /\ call.read = "stats" => processing \/ error # "none"
    /\ call.read \in {"entities", "outputs"} /\ element # 0 => key \in Begins(call)
    /\ \/ LET seen == IF call.read = "strings" THEN answer ELSE digested IN
          Represents(call, answer, data, Kept(call, answer, Starts(call, seen)))
       \/ call.read = "outputs" /\ answer = <<>> /\ ~processing

(* The line that is held is to begin an entity.                            *)
HeadInv ==
  at = "head" =>
    /\ call.read = "entity" => digested = <<>>
    /\ Represents(call, digested, data, Kept(call, digested, Starts(call, digested)))
    /\ element # 0 =>
         \/ key \in StartKeys
         \/ digested = <<>> /\ call.forgive = "none" /\ ~ByTheHeaders

(* The entity or output that is read is the last that has started.         *)
Current(f, a, list, e) ==
  /\ e.at \in Last(Starts(f, a)) /\ Fits(f, a, e)
  /\ f.read = "entity" => Starts(f, a) = {e.at}
  /\ Represents(f, a, list, Kept(f, a, Starts(f, a) \ {e.at}))

AttributesInv == at = "attributes" => Current(call, digested, data, ent)

StringInv ==
  at = "line" =>
    /\ call.read = "string" => Starts(call, digested) = {}
    /\ Represents(call, digested, data, Starts(call, digested))

OutputInv ==
  at = "output" =>
    IF ent.at # 0 THEN Current(call, digested, data, ent)
    ELSE /\ IF element = 0 THEN answer = <<>> ELSE key = "outputid"
         /\ ent = AtPlace("output", 0)
         /\ Represents(call, digested, data, Starts(call, digested))

(* A list that will not be reported is the one that is due; what else is   *)
(* read to the end of the reply does not change it.                        *)
Excused == error # "none" /\ call.forgive = "none"

Taken(f, a) ==
  CASE f.read \in {"entity", "string"} -> First(Starts(f, a))
    [] f.read = "stats" -> {0}
    [] OTHER -> Kept(f, a, Starts(f, a))

DoneInv ==
  /\ at = "stats" => data = <<>>
  /\ at \in {"finish", "unlock"} /\ ~Excused =>
       \/ call.read = "outputs" /\ answer = <<>>
       \/ Represents(call, answer, data, Taken(call, answer))
  /\ at = "finish" /\ processing /\ ~Excused =>
       /\ call.read \in {"nothing", "string", "entity"}
       /\ call.read # "nothing" => data # <<>>
       /\ call.read = "entity" => \E i \in Starts(call, answer) : i > data[1].at

(* At every place of the reading loops of mpd_getNextInfoEntity,           *)
(* mpd_getNextReturnElementNamed, mpd_getNextOutput and their callers:     *)
(* what is allocated is in the list or the object under way, whatever the  *)
(* server sends; of lines that are intact so far the list is what those    *)
(* that are digested say, and the object has the lines that are its own.   *)
HeldInv == ShapeInv /\ PlaceInv /\ TroubleInv /\ HeapInv

IntactInv ==
  /\ CommandInv /\ NextInv /\ HeadInv /\ AttributesInv
  /\ StringInv /\ OutputInv /\ DoneInv

ReplyInv == HeldInv /\ (Intact(answer) => IntactInv)
=============================================================================
