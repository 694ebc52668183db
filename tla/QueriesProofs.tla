---------------------------- MODULE QueriesProofs ----------------------------
(***************************************************************************)
(* Between calls the engine is ready for the next query unless a reply was *)
(* cut short, the two memories of a search agree, and what a commit sends  *)
(* is the search the client has described: for every server version, tag,  *)
(* constraint and length of a reply.                                       *)
(***************************************************************************)
EXTENDS Queries, TLAPS

(* A request is not None, and a constraint leaves its command alone.       *)
LEMMA RequestsAre ==
  /\ \A s \in Searches : RequestFor(s) \in Requests /\ RequestFor(s) # None
       /\ RequestFor(s).command = CommandOf(s.type) /\ RequestFor(s).field = s.field
  /\ \A r \in Requests, c \in Constraints : Constrained(r, c) \in Requests /\ Constrained(r, c) # None
       /\ Constrained(r, c).command = r.command /\ Constrained(r, c).field = r.field
  <1>1. ASSUME NEW s \in Searches
        PROVE  RequestFor(s) \in Requests
               /\ RequestFor(s).command = CommandOf(s.type) /\ RequestFor(s).field = s.field
    <2>1. s.field \in Fields \cup {None} /\ s.type \in SearchTypes \cup {"list"}
      <3>1. CASE s \in {[type |-> t, field |-> None] : t \in SearchTypes}
        <4>1. PICK t \in SearchTypes : s = [type |-> t, field |-> None]
          BY <3>1
        <4> QED
          BY <4>1
      <3>2. CASE s \in {[type |-> "list", field |-> f] : f \in Fields}
        <4>1. PICK f \in Fields : s = [type |-> "list", field |-> f]
          BY <3>2
        <4> QED
          BY <4>1
      <3> QED
        BY <3>1, <3>2 DEF Searches
    <2>2. CommandOf(s.type) \in Kinds
      BY <2>1 DEF CommandOf, SearchTypes, Kinds
    <2>3. <<>> \in Seq(Constraints)
      OBVIOUS
    <2> QED
      BY <2>1, <2>2, <2>3 DEF RequestFor, Requests
  <1>2. ASSUME NEW r \in Requests, NEW c \in Constraints
        PROVE  Constrained(r, c) \in Requests
               /\ Constrained(r, c).command = r.command /\ Constrained(r, c).field = r.field
    BY DEF Constrained, Requests
  <1> QED
    BY <1>1, <1>2, NoneAssumption

(* No query has the command that stands for a request or reads statistics. *)
LEMMA QueriesSendTheirOwn == \A f \in Queried : f.cmd # "request" /\ f.read # "stats"
  <1> DEFINE Own(f) == f.cmd # "request" /\ f.read # "stats"
  <1>1. Own(UpdateDir) /\ Own(GetArtists) /\ Own(GetAlbums)
        /\ Own(GetComplete) /\ Own(DeletePlaylist)
        /\ Own(SavePlaylist) /\ Own(GetDirectory)
        /\ Own(GetPlaylistContent) /\ Own(GetFileinfo)
    BY DEF UpdateDir, GetArtists, GetAlbums, GetComplete, DeletePlaylist, SavePlaylist,
           GetDirectory, GetPlaylistContent, GetFileinfo, Section, ListOf, OneSong, Strings
  <1>2. Own(PlaylistClear) /\ Own(PlaylistListDelete)
        /\ Own(PlaylistListAdd) /\ Own(GetDirectoryRecursive)
        /\ Own(PlaylistRename) /\ Own(PlaylistMove)
        /\ Own(GetSong) /\ Own(GetSongFromPos) /\ Own(GetSongRange)
    BY DEF PlaylistClear, PlaylistListDelete, PlaylistListAdd, GetDirectoryRecursive,
           PlaylistRename, PlaylistMove, GetSong, GetSongFromPos, GetSongRange, Section, ListOf,
           OneSong, Checked
  <1>3. Own(ClearPlaylist) /\ Own(ShufflePlaylist) /\ Own(MoveId)
        /\ Own(MovePos) /\ Own(GetChanges) /\ Own(GetChangesPosid)
        /\ Own(AddGetId)
    BY DEF ClearPlaylist, ShufflePlaylist, MoveId, MovePos, GetChanges, GetChangesPosid, AddGetId,
           Section, ListOf, OneString
  <1>4. Own(GetOutputDevices) /\ Own(SetOutputDevice)
        /\ Own(GetTagTypes) /\ Own(SetReplaygainMode)
        /\ Own(GetReplaygainMode) /\ Own(StickerGet)
        /\ Own(StickerSet)
    BY DEF GetOutputDevices, SetOutputDevice, GetTagTypes, SetReplaygainMode, GetReplaygainMode,
           StickerGet, StickerSet, Section, Strings, OneString
  <1>5. \A f \in PlaylistList : Own(f)
    BY DEF PlaylistList, ListOf, Section
  <1> QED
    BY <1>1, <1>2, <1>3, <1>4, <1>5 DEF Queried

-----------------------------------------------------------------------------
(* The engine. *)

(* The lines that were read are a sequence.                                *)
Lines == \E S : answer \in Seq(S)

IInv == QueryInv /\ Lines

(* A line that is read is one of a reply that has not ended. When none is  *)
(* held and the reply goes on without an error, a line had no colon.       *)
HalfRead == \E i \in DOMAIN answer : answer[i] = "bare"

LEMMA LineRead ==
  ASSUME GetNextReturnElement, Lines
  PROVE  /\ element' # 0 => processing'
         /\ error' = "none" => error = "none"
         /\ error' = "ack" /\ processing' => error = "ack" /\ processing
         /\ processing' /\ element' = 0 /\ error' = "none" => HalfRead'
         /\ Lines'
  <1>1. PICK S : answer \in Seq(S)
    BY DEF Lines
  <1>2. CASE answer' = answer /\ element' = 0 /\ ~processing' /\ (error' # "none" \/ error' = error)
    BY <1>1, <1>2 DEF Lines
  <1>3. CASE processing /\ \E name : answer' = Append(answer, name) /\ element' = Len(answer) + 1
             /\ UNCHANGED <<processing, error, code>>
    <2>1. PICK name : answer' = Append(answer, name) /\ element' = Len(answer) + 1
                      /\ UNCHANGED <<processing, error, code>> /\ processing
      BY <1>3
    <2>2. Len(answer) \in Nat
      BY <1>1
    <2>3. answer' \in Seq(S \cup {name})
      BY <1>1, <2>1
    <2> QED
      BY <2>1, <2>2, <2>3 DEF Lines
  <1>4. CASE processing /\ \E line \in Malformed :
               /\ answer' = Append(answer, line) /\ element' = 0 /\ processing' = processing
               /\ error' = IF line = "junk" THEN "proto" ELSE error
    <2>1. PICK line \in Malformed :
               /\ answer' = Append(answer, line) /\ element' = 0 /\ processing' = processing
               /\ error' = IF line = "junk" THEN "proto" ELSE error
      BY <1>4
    <2>2. answer' \in Seq(S \cup {line}) /\ Len(answer) + 1 \in DOMAIN answer'
          /\ answer'[Len(answer) + 1] = line
      BY <1>1, <2>1
    <2>3. line # "junk" => HalfRead'
      BY <2>2 DEF HalfRead, Malformed
    <2> QED
      BY <1>4, <2>1, <2>2, <2>3 DEF Lines
  <1>5. CASE ~processing /\ error' = "proto" /\ element' = 0 /\ UNCHANGED <<processing, answer>>
    BY <1>5 DEF Lines
  <1> QED
    BY <1>2, <1>3, <1>4, <1>5 DEF GetNextReturnElement

(* At the start no search is being built and nothing is read.              *)
LEMMA InvInit == Init => IInv
  <1> SUFFICES ASSUME Init PROVE IInv
    OBVIOUS
  <1>1. EngineInv
    BY DEF Init, EngineInv, Reading
  <1>2. SearchInv
    BY DEF Init, SearchInv, Agreed, NoSearch, Reading
  <1>3. answer \in Seq({})
    BY DEF Init
  <1> QED
    BY <1>1, <1>2, <1>3 DEF IInv, QueryInv, Lines

(* A command is sent by an engine that is done with the last reply.        *)
LEMMA CommandSent ==
  ASSUME NEW c, ExecuteCommand(c)
  PROVE  /\ error' # "ack"
         /\ error' = "none" => ~processing /\ command' = c
  BY DEF ExecuteCommand

(* Between calls the lines of a reply are kept as long as it is not ended. *)
LEMMA CallBegun ==
  ASSUME IInv, NEW f, NEW meant, Begin(f, meant)
  PROVE  /\ at = "idle" /\ error = "none" /\ element = 0 /\ (processing => CutShort)
         /\ call' = f /\ client' = client /\ asked' = meant
         /\ processing => answer' = answer
         /\ Lines'
  <1>1. at = "idle" /\ call' = f /\ client' = client /\ asked' = meant
    BY DEF Begin
  <1>2. CASE processing
    BY <1>1, <1>2 DEF Begin, IInv, QueryInv, EngineInv, Lines
  <1>3. CASE ~processing
    <2>1. answer' \in Seq({})
      BY <1>3 DEF Begin
    <2> QED
      BY <1>1, <1>3, <2>1 DEF IInv, QueryInv, EngineInv, Lines
  <1> QED
    BY <1>2, <1>3

-----------------------------------------------------------------------------
(* The calls: each begins between two others. *)

(* Connecting and disconnecting leave no search behind.                    *)
LEMMA Connecting ==
  ASSUME IInv, Connect \/ Disconnect
  PROVE  IInv'
  <1>1. CASE Connect
    BY <1>1 DEF Connect, IInv, QueryInv, EngineInv, SearchInv, Agreed, CutShort, Lines, Reading,
                connection, reading, outcome, intent
  <1>2. CASE Disconnect
    BY <1>2 DEF Disconnect, Disconnected, IInv, QueryInv, EngineInv, SearchInv, Agreed, Lines,
                Reading, NoSearch, reading, outcome
  <1> QED
    BY <1>1, <1>2

(* A query leaves the search alone that is being built.                    *)
LEMMA Querying ==
  ASSUME IInv, NEW f \in Queried, Query(f)
  PROVE  IInv'
  <1>1. /\ at = "idle" /\ error = "none" /\ element = 0 /\ (processing => CutShort)
        /\ call' = f /\ client' = client /\ asked' = None
        /\ processing => answer' = answer
        /\ Lines'
    BY CallBegun DEF Query
  <1>2. f.cmd # "request" /\ f.read # "stats"
    BY QueriesSendTheirOwn
  <1>3. UNCHANGED <<search, request, wanted, element>>
    BY DEF Query
  <1>4. EngineInv'
    <2>1. CASE f.before = "status"
      <3>1. at' = "check" /\ UNCHANGED <<processing, error, command>>
        BY <2>1 DEF Query
      <3>2. processing' => CutShort'
        BY <1>1, <3>1 DEF CutShort
      <3> QED
        BY <1>1, <1>2, <1>3, <3>1, <3>2 DEF EngineInv, Reading
    <2>2. CASE f.before # "status"
      <3>1. at' \in {"next", "finish"} /\ ExecuteCommand(CommandFor(f))
        BY <2>2 DEF Query, Reads
      <3> QED
        BY <1>1, <1>2, <1>3, <3>1, CommandSent DEF EngineInv, Reading
    <2> QED
      BY <2>1, <2>2
  <1>5. at' \in {"check", "next", "finish"}
    BY DEF Query, Reads
  <1>6. SearchInv'
    BY <1>1, <1>2, <1>3, <1>5 DEF IInv, QueryInv, SearchInv, Agreed, Reading
  <1> QED
    BY <1>1, <1>4, <1>6 DEF IInv, QueryInv

(* After mpd_status_check the function goes on or the search is gone.      *)
LEMMA Checking ==
  ASSUME IInv, Check
  PROVE  IInv'
  <1>1. /\ at = "check" /\ error = "none" /\ element = 0
        /\ call.cmd # "request" /\ call.read # "stats"
    BY DEF Check, IInv, QueryInv, EngineInv
  <1>2. UNCHANGED <<client, call, sent, asked>>
    BY DEF Check
  <1>3. Reads(call) \in {"next", "finish"}
    BY DEF Reads
  <1>4. CASE /\ at' = Reads(call) /\ ExecuteCommand(CommandFor(call))
             /\ UNCHANGED <<connected, search, request, element, wanted, answer>>
    BY <1>1, <1>2, <1>3, <1>4, CommandSent
       DEF IInv, QueryInv, EngineInv, SearchInv, Agreed, Lines, Reading
  <1>5. CASE /\ at' = Reads(call) /\ StatusCutShort /\ error' = "proto"
             /\ UNCHANGED <<connected, search, request, element, wanted>>
    <2>1. answer' \in Seq({"bare"})
      BY <1>5 DEF StatusCutShort
    <2>2. EngineInv'
      BY <1>1, <1>2, <1>3, <1>5 DEF EngineInv, Reading
    <2>3. SearchInv'
      BY <1>1, <1>2, <1>3, <1>5 DEF IInv, QueryInv, SearchInv, Agreed, Reading
    <2> QED
      BY <2>1, <2>2, <2>3 DEF IInv, QueryInv, Lines
  <1>6. CASE at' = "idle" /\ Disconnected /\ UNCHANGED <<answer, command>>
    BY <1>2, <1>6 DEF Disconnected, IInv, QueryInv, EngineInv, SearchInv, Agreed, Lines, Reading,
                      NoSearch
  <1>7. CASE /\ at' = "idle" /\ processing' = FALSE /\ UNCHANGED <<answer, command>>
             /\ UNCHANGED <<connected, search, request, error, element, wanted>>
    BY <1>1, <1>2, <1>7 DEF IInv, QueryInv, EngineInv, SearchInv, Agreed, Lines, Reading
  <1> QED
    BY <1>4, <1>5, <1>6, <1>7 DEF Check

(* A step between two calls, or one that went wrong while building, leaves *)
(* the engine as it is.                                                    *)
LEMMA EngineAlone ==
  ASSUME IInv, UNCHANGED <<processing, element, command>>, processing => answer' = answer,
         at = "idle",
         \/ at' = "idle" /\ error' = error
         \/ at' = "unlock" /\ error' = "proto"
  PROVE  EngineInv'
  <1>1. error = "none" /\ element = 0 /\ (processing => CutShort)
    BY DEF IInv, QueryInv, EngineInv
  <1>2. processing' => CutShort'
    BY <1>1 DEF CutShort
  <1> QED
    BY <1>1, <1>2 DEF EngineInv, Reading

(* A search that is started is the one the client wants, or the connection *)
(* is about to be given up.                                                *)
LEMMA Starting ==
  ASSUME IInv, NEW s \in Searches, Start(s)
  PROVE  IInv'
  <1>1. /\ at = "idle" /\ error = "none" /\ client' = client /\ asked' = None /\ Lines'
        /\ processing => answer' = answer
    BY CallBegun DEF Start
  <1>2. search' = s /\ UNCHANGED <<processing, element, command>>
    BY DEF Start
  <1>3. CASE request # None
    <2>1. error' = "proto" /\ request' = request /\ at' = "unlock" /\ wanted' = wanted
      BY <1>3 DEF Start, StartRequest
    <2>2. EngineInv'
      BY <1>1, <1>2, <2>1, EngineAlone
    <2> QED
      BY <1>1, <1>2, <2>1, <2>2 DEF IInv, QueryInv, SearchInv, Reading
  <1>4. CASE request = None
    <2>1. error' = "none" /\ request' = RequestFor(s) /\ at' = "idle" /\ wanted' = RequestFor(s)
      BY <1>1, <1>4 DEF Start, StartRequest
    <2>2. Agreed' /\ request' \in Requests
      BY <1>2, <2>1, RequestsAre DEF Agreed
    <2>3. EngineInv'
      BY <1>1, <1>2, <2>1, EngineAlone
    <2> QED
      BY <1>1, <2>1, <2>2, <2>3 DEF IInv, QueryInv, SearchInv, Reading
  <1> QED
    BY <1>3, <1>4

(* A constraint goes into the request and into what the client wants.      *)
LEMMA Constraining ==
  ASSUME IInv, NEW c \in Constraints \cup {None}, AddConstraint(c)
  PROVE  IInv'
  <1>1. /\ at = "idle" /\ error = "none" /\ client' = client /\ asked' = None /\ Lines'
        /\ processing => answer' = answer
    BY CallBegun DEF AddConstraint
  <1>2. UNCHANGED <<search, processing, element, command>>
    BY DEF AddConstraint
  <1>3. CASE request = None \/ c = None
    <2>1. error' = "proto" /\ request' = request /\ at' = "unlock" /\ wanted' = wanted
      BY <1>3 DEF AddConstraint
    <2>2. EngineInv'
      BY <1>1, <1>2, <2>1, EngineAlone
    <2> QED
      BY <1>1, <1>2, <2>1, <2>2 DEF IInv, QueryInv, SearchInv, Reading
  <1>4. CASE request # None /\ c # None
    <2>1. /\ error' = error /\ at' = "idle"
          /\ request' = Constrained(request, c) /\ wanted' = Constrained(wanted, c)
      BY <1>1, <1>4 DEF AddConstraint
    <2>2. EngineInv'
      BY <1>1, <1>2, <2>1, EngineAlone
    <2>3. CASE client = "finder"
      BY <1>1, <2>2, <2>3 DEF IInv, QueryInv, SearchInv
    <2>4. CASE client # "finder"
      <3>1. request \in Requests /\ request = wanted /\ Agreed
        BY <1>1, <1>4, <2>4 DEF IInv, QueryInv, SearchInv, Reading
      <3>2. Agreed' /\ request' \in Requests
        BY <1>2, <1>4, <2>1, <3>1, RequestsAre DEF Agreed
      <3> QED
        BY <1>1, <2>1, <2>2, <3>1, <3>2 DEF IInv, QueryInv, SearchInv, Reading
    <2> QED
      BY <2>3, <2>4
  <1> QED
    BY <1>3, <1>4

(* A commit sends what the client wants, and nothing when it wants none.   *)
LEMMA Committing ==
  ASSUME IInv, NEW f, NEW type, Commit(f, type),
         f.cmd = "request", f.read = "stats" => search.type = "stats"
  PROVE  IInv'
  <1>1. /\ at = "idle" /\ error = "none" /\ element = 0
        /\ call' = f /\ client' = client /\ asked' = wanted /\ Lines'
    BY CallBegun DEF Commit
  <1>2. /\ search' = search /\ at' = "next" /\ request' = None /\ wanted' = None /\ element' = 0
    BY <1>1 DEF Commit, CommitRequest
  <1>3. error' # "ack" /\ (error' = "none" => command'.ends = (f.read # "stats"))
    <2>1. CASE request = None
      BY <2>1 DEF Commit, CommitRequest
    <2>2. CASE request # None
      <3>1. ExecuteCommand(CommandIn(request, f))
        BY <2>2 DEF Commit, CommitRequest
      <3> QED
        BY <3>1, CommandSent DEF CommandIn, Command
    <2> QED
      BY <2>1, <2>2
  <1>4. EngineInv'
    BY <1>1, <1>2, <1>3 DEF EngineInv, Reading
  <1>5. client # "finder" /\ sent' # None => sent' = asked'
    BY <1>1 DEF Commit, CommitRequest, IInv, QueryInv, SearchInv
  <1>6. SearchInv'
    BY <1>1, <1>2, <1>5 DEF SearchInv, Reading
  <1> QED
    BY <1>1, <1>4, <1>6 DEF IInv, QueryInv

(* The three functions that commit a search.                               *)
LEMMA CommittingSearches ==
  ASSUME IInv, SearchCommit \/ PlaylistSearchCommit \/ StatsCommit
  PROVE  IInv'
  <1>1. CASE SearchCommit
    <2>1. CASE search.type = "list"
      <3> DEFINE f == [Strings("request", search.field) EXCEPT !.failed = "freed"]
      <3>1. f.cmd = "request" /\ f.read = "strings"
        BY DEF Strings, Section
      <3>2. Commit(f, "list")
        BY <1>1, <2>1 DEF SearchCommit
      <3> QED
        BY <3>1, <3>2, Committing
    <2>2. CASE search.type # "list"
      <3> DEFINE f == [ListOf("request", {"song"}) EXCEPT !.failed = "freed"]
      <3>1. f.cmd = "request" /\ f.read = "entities"
        BY DEF ListOf, Section
      <3>2. PICK t \in {"find", "search"} : Commit(f, t)
        BY <1>1, <2>2 DEF SearchCommit
      <3> QED
        BY <3>1, <3>2, Committing
    <2> QED
      BY <2>1, <2>2
  <1>2. CASE PlaylistSearchCommit
    <2> DEFINE f == [ListOf("request", {"song"}) EXCEPT !.failed = "freed"]
    <2>1. f.cmd = "request" /\ f.read = "entities"
      BY DEF ListOf, Section
    <2>2. PICK t \in {"playlistfind", "playlistsearch"} : Commit(f, t)
      BY <1>2 DEF PlaylistSearchCommit
    <2> QED
      BY <2>1, <2>2, Committing
  <1>3. CASE StatsCommit
    <2> DEFINE f == [Section("request") EXCEPT !.read = "stats", !.failed = "freed"]
    <2>1. f.cmd = "request"
      BY DEF Section
    <2>2. Commit(f, "stats") /\ search.type = "stats"
      BY <1>3 DEF StatsCommit
    <2> QED
      BY <2>1, <2>2, Committing
  <1> QED
    BY <1>1, <1>2, <1>3

(* A find of its own comes between two searches, and sends itself.         *)
LEMMA Finding ==
  ASSUME IInv, NEW exact \in BOOLEAN, NEW c \in Constraints, DatabaseFind(exact, c)
  PROVE  IInv'
  <1> DEFINE own == RequestFor([type |-> Find(exact).cmd, field |-> None])
             built == Constrained(IF request = None THEN own ELSE request, c)
  <1>1. /\ at = "idle" /\ element = 0 /\ client' = client
        /\ call' = Find(exact) /\ asked' = Constrained(own, c) /\ Lines'
    BY CallBegun DEF DatabaseFind
  <1>2. /\ search' = search /\ wanted' = wanted /\ at' = "next" /\ request' = None
        /\ element' = 0 /\ sent' = (IF processing THEN None ELSE built)
        /\ ExecuteCommand(CommandIn(built, Find(exact)))
    BY <1>1 DEF DatabaseFind
  <1>3. call'.cmd # "request" /\ call'.read # "stats"
    BY <1>1 DEF Find, ListOf, Section
  <1>4. EngineInv'
    BY <1>2, <1>3, CommandSent DEF EngineInv, Reading
  <1>5. ASSUME client # "finder"
        PROVE  wanted = None /\ request = None /\ Agreed /\ (sent' # None => sent' = asked')
    <2>1. wanted = None /\ request = None /\ Agreed
      BY <1>1, <1>5 DEF DatabaseFind, IInv, QueryInv, SearchInv, Reading
    <2> QED
      BY <1>1, <1>2, <2>1
  <1>6. SearchInv'
    BY <1>1, <1>2, <1>3, <1>5 DEF SearchInv, Agreed, Reading
  <1> QED
    BY <1>1, <1>4, <1>6 DEF IInv, QueryInv

-----------------------------------------------------------------------------
(* Reading a reply touches neither memory of the search. *)

(* What is true of a step in the middle of a reply, and of one that ends   *)
(* it by giving the lock back.                                             *)
LEMMA ReadsOn ==
  ASSUME SearchInv, UNCHANGED fixed, at \in Reading,
         \/ at' \in Reading
         \/ at' = "unlock" /\ call.read = "stats"
  PROVE  SearchInv'
  <1>1. UNCHANGED <<client, search, request, call, sent, wanted, asked>>
    BY DEF fixed, session, intent
  <1>2. CASE at' \in Reading
    BY <1>1, <1>2 DEF SearchInv, Agreed, Reading
  <1>3. CASE at' = "unlock" /\ call.read = "stats"
    <2>1. client # "finder" => Agreed
      BY <1>3 DEF SearchInv, Agreed, Reading
    <2> QED
      BY <1>1, <1>3, <2>1 DEF SearchInv, Agreed, Reading
  <1> QED
    BY <1>2, <1>3

(* A step that reads a line, and one that only looks at it.                *)
LEMMA ReadingLine ==
  ASSUME IInv, UNCHANGED fixed, at \in Reading, GetNextReturnElement,
         \/ at' \in Reading \ {"stats"}
         \/ at' = "stats" /\ call.read = "stats" /\ error' = "none"
         \/ at' = "unlock" /\ call.read = "stats" /\ error' # "none"
  PROVE  IInv'
  <1>1. /\ element' # 0 => processing'
        /\ error' = "none" => error = "none"
        /\ error' = "ack" /\ processing' => error = "ack" /\ processing
        /\ processing' /\ element' = 0 /\ error' = "none" => HalfRead'
        /\ Lines'
    BY LineRead DEF IInv
  <1>2. call' = call /\ command' = command
    BY DEF fixed, intent
  <1>3. call.read = "stats" /\ error' = "none" => ~command'.ends
    BY <1>1, <1>2 DEF IInv, QueryInv, EngineInv
  <1>4. at' = "stats" /\ element' = 0 /\ processing' => CutShort'
    BY <1>1, <1>3 DEF CutShort, HalfRead, Reading
  <1>5. EngineInv'
    BY <1>1, <1>2, <1>3, <1>4 DEF IInv, QueryInv, EngineInv, Reading
  <1>6. at' \in Reading \/ (at' = "unlock" /\ call.read = "stats")
    BY DEF Reading
  <1>7. SearchInv'
    BY <1>6, ReadsOn DEF IInv, QueryInv
  <1> QED
    BY <1>1, <1>5, <1>7 DEF IInv, QueryInv

LEMMA LookingAtLine ==
  ASSUME IInv, UNCHANGED fixed, at \in Reading, UNCHANGED <<processing, element, answer>>,
         \/ at' \in Reading \ {"stats"} /\ error' \in {error, "proto"}
         \/ at' = "unlock" /\ call.read = "stats" /\ ~processing /\ error' = error
         \/ at' = "unlock" /\ at = "stats" /\ element = 0 /\ error' = error
  PROVE  IInv'
  <1>1. call' = call /\ command' = command
    BY DEF fixed, intent
  <1>2. CutShort' = CutShort
    BY <1>1 DEF CutShort
  <1>3. EngineInv'
    BY <1>1, <1>2 DEF IInv, QueryInv, EngineInv, Reading
  <1>4. at' \in Reading \/ (at' = "unlock" /\ call.read = "stats")
    BY DEF IInv, QueryInv, EngineInv, Reading
  <1>5. SearchInv'
    BY <1>4, ReadsOn DEF IInv, QueryInv
  <1> QED
    BY <1>3, <1>5 DEF IInv, QueryInv, Lines

(* The steps of the reading functions.                                     *)
LEMMA ReadingEntities ==
  ASSUME IInv, NothingLeft \/ NextEntity \/ BeginEntity \/ Attribute \/ TakeEntity
  PROVE  IInv'
  <1>1. CASE NothingLeft
    BY <1>1, LookingAtLine DEF NothingLeft, Reading
  <1>2. CASE NextEntity
    <2>1. CASE element # 0
      BY <1>2, <2>1, LookingAtLine DEF NextEntity, Reading
    <2>2. CASE element = 0
      BY <1>2, <2>2, ReadingLine DEF NextEntity, Reading
    <2> QED
      BY <2>1, <2>2
  <1>3. CASE BeginEntity
    <2>1. CASE element # 0 /\ key \in StartKeys
      BY <1>3, <2>1, ReadingLine DEF BeginEntity, Reading
    <2>2. CASE ~(element # 0 /\ key \in StartKeys)
      BY <1>3, <2>2, LookingAtLine DEF BeginEntity, Reading
    <2> QED
      BY <2>1, <2>2
  <1>4. CASE Attribute
    BY <1>4, ReadingLine DEF Attribute, Reading
  <1>5. CASE TakeEntity
    <2>1. at' \in {"finish", "next"}
      BY <1>5 DEF TakeEntity
    <2> QED
      BY <1>5, <2>1, LookingAtLine DEF TakeEntity, Reading
  <1> QED
    BY <1>1, <1>2, <1>3, <1>4, <1>5

LEMMA ReadingStringsAndOutputs ==
  ASSUME IInv, NextString \/ TakeString \/ NextOutput \/ OutputLine \/ TakeOutput
  PROVE  IInv'
  <1>1. CASE NextString
    BY <1>1, ReadingLine DEF NextString, Reading
  <1>2. CASE TakeString
    <2>1. at' \in {"finish", "next"}
      BY <1>2 DEF TakeString
    <2> QED
      BY <1>2, <2>1, LookingAtLine DEF TakeString, Reading
  <1>3. CASE NextOutput
    <2>1. CASE error # "none" \/ element # 0
      BY <1>3, <2>1, LookingAtLine DEF NextOutput, Reading
    <2>2. CASE error = "none" /\ element = 0
      BY <1>3, <2>2, ReadingLine DEF NextOutput, Reading
    <2> QED
      BY <2>1, <2>2
  <1>4. CASE OutputLine
    <2>1. at' \in {"finish", "output"}
      BY <1>4 DEF OutputLine
    <2> QED
      BY <1>4, <2>1, ReadingLine DEF OutputLine, Reading
  <1>5. CASE TakeOutput
    BY <1>5, LookingAtLine DEF TakeOutput, Reading
  <1> QED
    BY <1>1, <1>2, <1>3, <1>4, <1>5

LEMMA ReadingStats ==
  ASSUME IInv, NextStats \/ TakeStats
  PROVE  IInv'
  <1>1. CASE NextStats
    <2>1. call.read = "stats" /\ at \in {"next", "stats"}
      BY <1>1 DEF NextStats, IInv, QueryInv, EngineInv
    <2>2. (at' = "unlock" /\ error' # "none") \/ (at' = "stats" /\ error' = "none")
      BY <1>1 DEF NextStats
    <2> QED
      BY <1>1, <2>1, <2>2, ReadingLine DEF NextStats, Reading
  <1>2. CASE TakeStats
    BY <1>2, LookingAtLine DEF TakeStats, Reading
  <1> QED
    BY <1>1, <1>2

(* A reply is read to its end, and then a commit forgets the search.       *)
LEMMA Finishing ==
  ASSUME IInv, Finish
  PROVE  IInv'
  <1>1. CASE processing
    BY <1>1, ReadingLine DEF Finish, Reading, fixed, session
  <1>2. CASE ~processing
    <2>1. /\ at = "finish" /\ at' = "unlock"
          /\ search' = IF call.cmd = "request" THEN NoSearch ELSE search
          /\ UNCHANGED <<client, request, call, sent, wanted, asked, processing, error, element, answer>>
      BY <1>2 DEF Finish, intent
    <2>2. EngineInv'
      BY <1>2, <2>1 DEF IInv, QueryInv, EngineInv, Reading
    <2>3. client # "finder" => Agreed'
      BY <2>1 DEF IInv, QueryInv, SearchInv, Agreed, Reading, NoSearch
    <2>4. SearchInv'
      BY <2>1, <2>3 DEF IInv, QueryInv, SearchInv, Reading
    <2> QED
      BY <2>1, <2>2, <2>4 DEF IInv, QueryInv, Lines
  <1> QED
    BY <1>1, <1>2

-----------------------------------------------------------------------------
(* Giving the lock back. *)

(* A connection that is given up takes both memories with it.              *)
LEMMA GivenUp ==
  ASSUME IInv, Disconnected, UNCHANGED <<client, call, answer, command, sent, asked>>,
         at' \in {"idle", "after"}
  PROVE  IInv'
  BY DEF Disconnected, IInv, QueryInv, EngineInv, SearchInv, Agreed, Lines, Reading, NoSearch

LEMMA Unlocking ==
  ASSUME IInv, Unlock
  PROVE  IInv'
  <1>1. at = "unlock" /\ UNCHANGED <<client, call, answer, command, sent, asked>>
    BY DEF Unlock
  <1>2. CASE error \in {"none", "ack"}
    <2>1. /\ error' = "none" /\ at' \in {"idle", "after", "callback"}
          /\ UNCHANGED <<search, request, processing, element, wanted>>
      BY <1>2 DEF Unlock, Return, forgiven
    <2>2. element = 0 /\ (processing => CutShort)
      BY <1>1, <1>2 DEF IInv, QueryInv, EngineInv
    <2>3. CutShort' = CutShort
      BY <1>1 DEF CutShort
    <2> QED
      BY <1>1, <1>2, <2>1, <2>2, <2>3 DEF IInv, QueryInv, EngineInv, SearchInv, Agreed, Lines, Reading
  <1>3. CASE error \notin {"none", "ack"}
    <2>1. Disconnected /\ at' \in {"idle", "after"}
      BY <1>3 DEF Unlock, Return, forgiven
    <2> QED
      BY <1>1, <2>1, GivenUp
  <1> QED
    BY <1>2, <1>3

LEMMA CallingBack ==
  ASSUME IInv, NEW s \in Searches, CallbackStarts(s)
  PROVE  IInv'
  <1>1. /\ at = "callback" /\ request' = RequestFor(s) /\ wanted' = RequestFor(s) /\ search' = s
        /\ UNCHANGED <<client, processing, error, element, call, at, answer, command, sent, asked>>
    BY DEF CallbackStarts
  <1>2. Agreed' /\ request' \in Requests
    BY <1>1, RequestsAre DEF Agreed
  <1>3. CutShort' = CutShort
    BY <1>1 DEF CutShort
  <1> QED
    BY <1>1, <1>2, <1>3 DEF IInv, QueryInv, EngineInv, SearchInv, Lines, Reading

LEMMA Returning ==
  ASSUME IInv, CallbackReturns \/ Update
  PROVE  IInv'
  <1>1. /\ at \in {"callback", "after"} /\ at' \in {"idle", "after"}
        /\ UNCHANGED <<client, call, sent, asked>>
    BY DEF CallbackReturns, Update, Return
  <1>2. CASE Disconnected /\ UNCHANGED <<answer, command>>
    BY <1>1, <1>2, GivenUp
  <1>3. CASE UNCHANGED <<connected, search, request, processing, error, element, wanted, answer, command>>
    <2>1. CutShort' = CutShort
      BY <1>3 DEF CutShort
    <2> QED
      BY <1>1, <1>3, <2>1 DEF IInv, QueryInv, EngineInv, SearchInv, Agreed, Lines, Reading
  <1>4. CASE StatusCutShort /\ UNCHANGED <<connected, search, request, error, element, wanted>>
    <2>1. answer' \in Seq({"bare"}) /\ 1 \in DOMAIN answer' /\ answer'[1] = "bare"
      BY <1>4 DEF StatusCutShort
    <2>2. CutShort'
      BY <1>4, <2>1 DEF StatusCutShort, StatusCommand, Command, CutShort
    <2>3. processing'
      BY <1>4 DEF StatusCutShort
    <2>4. EngineInv'
      BY <1>1, <1>4, <2>2, <2>3 DEF IInv, QueryInv, EngineInv, Reading
    <2>5. SearchInv'
      BY <1>1, <1>4 DEF IInv, QueryInv, SearchInv, Agreed, Reading
    <2> QED
      BY <2>1, <2>4, <2>5 DEF IInv, QueryInv, Lines
  <1> QED
    BY <1>2, <1>3, <1>4 DEF CallbackReturns, Update

-----------------------------------------------------------------------------
(* The invariant, and what follows from it. *)

LEMMA Stuttering ==
  ASSUME IInv, UNCHANGED vars
  PROVE  IInv'
  BY DEF vars, session, connection, reading, outcome, intent, IInv, QueryInv, EngineInv, SearchInv,
         Agreed, CutShort, Lines, Reading

(* Every step keeps the invariant.                                         *)
LEMMA InvKept ==
  ASSUME IInv, Next
  PROVE  IInv'
  BY Connecting, Querying, Checking, Starting, Constraining, CommittingSearches, Finding,
     ReadingEntities, ReadingStringsAndOutputs, ReadingStats, Finishing, Unlocking, CallingBack,
     Returning
     DEF Next

(* QueryInv holds in every reachable state: the bookkeeping of a search,   *)
(* of its request and of the engine, through every function, failure and   *)
(* callback.                                                               *)
THEOREM QueriesCorrect == Spec => [](QueryInv /\ Lines)
  <1>1. Init => IInv
    BY InvInit DEF IInv
  <1>2. IInv /\ [Next]_vars => IInv'
    BY InvKept, Stuttering
  <1> QED
    BY <1>1, <1>2, PTL DEF Spec, IInv

(* No line of one reply is left over for the next, wherever a function     *)
(* gives up, and no reply is half read between two calls but one that a    *)
(* line without a colon cut short where nothing ends it.                   *)
THEOREM EngineReadyAgain == Spec => []NothingLeftOver
  <1>1. QueryInv => NothingLeftOver
    BY DEF QueryInv, EngineInv, NothingLeftOver
  <1> QED
    BY <1>1, QueriesCorrect, PTL

(* mi->search_type and connection->request agree between calls.            *)
THEOREM SearchesRemembered == Spec => []SearchRemembered
  <1>1. QueryInv => SearchRemembered
    BY DEF QueryInv, EngineInv, SearchInv, SearchRemembered, Reading
  <1> QED
    BY <1>1, QueriesCorrect, PTL

(* A commit sends the search that was asked for, with every constraint.    *)
THEOREM SearchesSent == Spec => []SendsWhatWasAsked
  <1>1. QueryInv => SendsWhatWasAsked
    BY DEF QueryInv, SearchInv, SendsWhatWasAsked
  <1> QED
    BY <1>1, QueriesCorrect, PTL
=============================================================================
