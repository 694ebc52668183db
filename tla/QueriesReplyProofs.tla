-------------------------- MODULE QueriesReplyProofs --------------------------
(***************************************************************************)
(* A client that is not told of an error has the whole of a sound reply,   *)
(* and everything that was allocated for it, whatever the reply: for every *)
(* length of a reply and every order of its lines, malformed ones among    *)
(* them, whatever fails in between.                                        *)
(***************************************************************************)
EXTENDS QueriesProofs, QueriesReplyLemmas

(* The inductive invariant, with what QueriesProofs shows of the engine,   *)
(* and what it is of a reply that is intact so far.                        *)
RInv == IInv /\ TypeOK /\ ReplyInv

SInv == IInv /\ TypeOK /\ HeldInv /\ IntactInv

-----------------------------------------------------------------------------
(* The functions. *)

(* What a query reads is what its command is answered with.                *)
LEMMA QueriesAreFunctions ==
  \A f \in Queried : /\ FunctionOK(f) /\ f.read # "stats"
                     /\ f.read \in {"entities", "entity"} => f.cmd \in OfEntities
  <1> DEFINE P(f) == /\ FunctionOK(f) /\ f.read # "stats"
                     /\ f.read \in {"entities", "entity"} => f.cmd \in OfEntities
  <1>1. P(UpdateDir) /\ P(DeletePlaylist) /\ P(SavePlaylist) /\ P(PlaylistMove)
        /\ P(ClearPlaylist) /\ P(ShufflePlaylist) /\ P(MoveId) /\ P(MovePos)
        /\ P(SetOutputDevice) /\ P(SetReplaygainMode) /\ P(StickerSet)
    BY DEF FunctionOK, UpdateDir, DeletePlaylist, SavePlaylist, PlaylistMove, ClearPlaylist,
           ShufflePlaylist, MoveId, MovePos, SetOutputDevice, SetReplaygainMode, StickerSet, Section
  <1>2. P(PlaylistClear) /\ P(PlaylistListDelete) /\ P(PlaylistListAdd) /\ P(PlaylistRename)
    BY DEF FunctionOK, PlaylistClear, PlaylistListDelete, PlaylistListAdd, PlaylistRename,
           Section, Checked
  <1>3. P(GetArtists) /\ P(GetAlbums) /\ P(GetTagTypes) /\ P(AddGetId) /\ P(GetReplaygainMode)
        /\ P(StickerGet)
    BY DEF FunctionOK, GetArtists, GetAlbums, GetTagTypes, AddGetId, GetReplaygainMode,
           StickerGet, Section, Strings, OneString
  <1>4. P(GetComplete) /\ P(GetDirectory) /\ P(GetPlaylistContent) /\ P(GetDirectoryRecursive)
        /\ P(GetSongRange) /\ P(GetChanges) /\ P(GetChangesPosid)
    BY DEF FunctionOK, OfEntities, Songs, GetComplete, GetDirectory, GetPlaylistContent,
           GetDirectoryRecursive, GetSongRange, GetChanges, GetChangesPosid, Section, ListOf, Checked
  <1>5. P(GetFileinfo) /\ P(GetSong) /\ P(GetSongFromPos)
    BY DEF FunctionOK, OfEntities, Songs, GetFileinfo, GetSong, GetSongFromPos, Section, OneSong
  <1>6. P(GetOutputDevices)
    BY DEF FunctionOK, GetOutputDevices, Section
  <1>7. \A f \in PlaylistList : P(f)
    <2>1. \A cmd \in {"listplaylists", "lsinfo"} : P(ListOf(cmd, {"playlist"}))
      BY DEF FunctionOK, OfEntities, ListOf, Section
    <2> HIDE DEF P
    <2> QED
      BY <2>1 DEF PlaylistList
  <1> HIDE DEF P
  <1>8. \A f \in Queried : P(f)
    BY <1>1, <1>2, <1>3, <1>4, <1>5, <1>6, <1>7 DEF Queried
  <1> QED
    BY <1>8 DEF P

LEMMA SearchesAreFunctions ==
  /\ FunctionOK(Building) /\ Building.read = "nothing"
  /\ \A exact \in BOOLEAN : /\ FunctionOK(Find(exact)) /\ Find(exact).read = "entities"
                            /\ Find(exact).cmd \in {"find", "search"}
                            /\ Find(exact).forgive = "none"
  /\ \A field : FunctionOK([Strings("request", field) EXCEPT !.failed = "freed"])
                /\ [Strings("request", field) EXCEPT !.failed = "freed"].read = "strings"
  /\ LET f == [ListOf("request", {"song"}) EXCEPT !.failed = "freed"]
     IN  FunctionOK(f) /\ f.read = "entities" /\ f.forgive = "none"
  /\ LET f == [Section("request") EXCEPT !.read = "stats", !.failed = "freed"]
     IN  FunctionOK(f) /\ f.read = "stats"
  BY DEF FunctionOK, Building, Find, ListOf, Strings, Section

(* How a reply begins.                                                     *)
LEMMA FirstLinesBegin ==
  /\ command.name \in OfEntities => FirstLines \subseteq StartKeys
  /\ command.name = "outputs" => FirstLines = {"outputid"}
  BY DEF FirstLines, OfEntities, StartKeys, Songs

-----------------------------------------------------------------------------
(* Reading a line. *)

NoJunk == \A i \in DOMAIN answer : answer[i] # "junk"

(* A step that reads a line, or fails to, whatever the line is.            *)
LEMMA LineKept ==
  ASSUME GetNextReturnElement, Lines
  PROVE  /\ element' \in {0, Len(answer')} /\ Len(answer) \in Nat
         /\ Len(answer) <= Len(digested')
         /\ answer' = answer \/ \E line : answer' = Append(answer, line)
         /\ error' = "none" => error = "none" /\ (NoJunk => NoJunk')
  <1>1. PICK T : answer \in Seq(T)
    BY DEF Lines
  <1>2. CASE answer' = answer /\ element' = 0 /\ (error' # "none" \/ error' = error)
    <2>1. digested' = answer
      BY <1>2 DEF digested
    <2> QED
      BY <1>1, <1>2, <2>1 DEF NoJunk
  <1>3. CASE \E line : /\ answer' = Append(answer, line) /\ element' \in {0, Len(answer) + 1}
                       /\ error' = "none" => error = "none" /\ line # "junk"
    <2>1. PICK line : /\ answer' = Append(answer, line) /\ element' \in {0, Len(answer) + 1}
                      /\ error' = "none" => error = "none" /\ line # "junk"
      BY <1>3
    <2>2. /\ Len(answer) \in Nat /\ Len(answer') = Len(answer) + 1
          /\ \A i \in 1..Len(answer) : answer'[i] = answer[i]
          /\ answer'[Len(answer) + 1] = line
          /\ DOMAIN answer = 1..Len(answer) /\ DOMAIN answer' = 1..Len(answer) \cup {Len(answer) + 1}
      BY <1>1, <2>1, Longer
    <2>3. Len(answer) <= Len(digested')
      <3>1. CASE element' = 0
        <4>1. digested' = answer'
          BY <3>1 DEF digested
        <4> QED
          BY <2>2, <4>1
      <3>2. CASE element' # 0
        <4>1. digested' = SubSeq(answer', 1, Len(answer') - 1)
          BY <3>2 DEF digested
        <4>2. digested' = answer
          BY <1>1, <2>1, <4>1, Shortened
        <4> QED
          BY <2>2, <4>2
      <3> QED
        BY <3>1, <3>2
    <2>4. error' = "none" /\ NoJunk => NoJunk'
      BY <2>1, <2>2 DEF NoJunk
    <2> QED
      BY <2>1, <2>2, <2>3, <2>4
  <1>4. CASE /\ Len(answer) < MaxLines
             /\ \E line \in Malformed :
                  /\ answer' = Append(answer, line)
                  /\ error' = IF line = "junk" THEN "proto" ELSE error
             /\ element' = 0
    <2>1. PICK line \in Malformed : /\ answer' = Append(answer, line)
                                    /\ error' = IF line = "junk" THEN "proto" ELSE error
      BY <1>4
    <2> QED
      BY <1>3, <1>4, <2>1
  <1>5. CASE \E name \in NextLines : /\ answer' = Append(answer, name)
                                     /\ element' = Len(answer) + 1 /\ error' = error
    <2>1. \A name \in NextLines : name # "junk"
      BY DEF NextLines, Malformed
    <2> QED
      BY <1>3, <1>5, <2>1
  <1> QED
    BY <1>2, <1>4, <1>5 DEF GetNextReturnElement

(* A reply that is intact was so before a line was read.                   *)
LEMMA IntactSoFar ==
  ASSUME Lines, Intact(answer'), answer' = answer \/ \E line : answer' = Append(answer, line)
  PROVE  Intact(answer)
  <1>1. PICK T : answer \in Seq(T)
    BY DEF Lines
  <1>2. CASE \E line : answer' = Append(answer, line)
    BY <1>1, <1>2, Longer DEF Intact
  <1> QED
    BY <1>2

(* In a reply that stays intact a line is read, or there is none and       *)
(* perhaps an error.                                                       *)
LEMMA LineOrEnd ==
  ASSUME GetNextReturnElement, processing, Lines, Intact(answer')
  PROVE  /\ \/ /\ answer' = answer /\ element' = 0 /\ processing' = FALSE
               /\ error' \in {error, "ack", "lost"} /\ code' \in {code} \cup Codes
            \/ \E name : /\ answer' = Append(answer, name) /\ element' = Len(answer) + 1
                         /\ processing' = processing /\ error' = error /\ code' = code
                         /\ answer = <<>> => name \in FirstLines
         /\ digested' = answer
         /\ Len(answer) \in Nat
  <1>1. PICK T : answer \in Seq(T)
    BY DEF Lines
  <1>2. CASE answer' = answer /\ element' = 0 /\ processing' = FALSE
             /\ error' \in {error, "ack", "lost"} /\ code' \in {code} \cup Codes
    <2>1. digested' = answer
      BY <1>2 DEF digested
    <2>2. Len(answer) \in Nat
      BY <1>1
    <2> QED
      BY <1>2, <2>1, <2>2
  <1>3. CASE \E name : /\ answer' = Append(answer, name) /\ element' = Len(answer) + 1
                       /\ processing' = processing /\ error' = error /\ code' = code
                       /\ answer = <<>> => name \in FirstLines
    <2>1. PICK name : /\ answer' = Append(answer, name) /\ element' = Len(answer) + 1
      BY <1>3
    <2>2. Len(answer) \in Nat /\ element' # 0
      BY <1>1, <2>1
    <2>3. digested' = SubSeq(answer', 1, Len(answer') - 1)
      BY <2>2 DEF digested
    <2> QED
      BY <1>1, <1>3, <2>1, <2>2, <2>3, Shortened
  <1>4. ASSUME NEW line \in Malformed, answer' = Append(answer, line)
        PROVE  FALSE
    <2>1. Len(answer) + 1 \in DOMAIN answer' /\ answer'[Len(answer) + 1] = line
      BY <1>1, <1>4, Longer
    <2> QED
      BY <1>4, <2>1 DEF Intact
  <1> QED
    BY <1>2, <1>3, <1>4 DEF GetNextReturnElement, NextLines

(* What CommandInv says of a step that has read a line.                    *)
LEMMA LineIsHeld ==
  ASSUME GetNextReturnElement, processing, Lines, Intact(answer')
  PROVE  /\ element' \in {0, Len(answer')} /\ (processing' <=> element' # 0)
         /\ processing' => error' = error
         /\ digested' = answer
         /\ answer = <<>> /\ element' # 0 => key' \in FirstLines
         /\ error # "proto" => error' # "proto"
  <1>1. PICK T : answer \in Seq(T)
    BY DEF Lines
  <1>2. CASE answer' = answer /\ element' = 0 /\ processing' = FALSE
             /\ error' \in {error, "ack", "lost"}
    BY <1>2, LineOrEnd
  <1>3. CASE \E name : /\ answer' = Append(answer, name) /\ element' = Len(answer) + 1
                       /\ processing' = processing /\ error' = error
                       /\ answer = <<>> => name \in FirstLines
    <2>1. PICK name : /\ answer' = Append(answer, name) /\ element' = Len(answer) + 1
                      /\ processing' = processing /\ error' = error
                      /\ answer = <<>> => name \in FirstLines
      BY <1>3
    <2>2. Len(answer') = element' /\ element' # 0 /\ answer'[element'] = name
      BY <1>1, <2>1, Longer
    <2> QED
      BY <2>1, <2>2, LineOrEnd DEF key
  <1> QED
    BY <1>2, <1>3, LineOrEnd

(* The line that is held is the one after those that are digested.         *)
LEMMA Held ==
  ASSUME Lines, PlaceInv
  PROVE  /\ \E T : digested \in Seq(T)
         /\ Len(digested) \in Nat
         /\ element # 0 => answer = Append(digested, key) /\ element = Len(digested) + 1
                           /\ element = Len(answer)
         /\ element = 0 => digested = answer
  <1>1. PICK T : answer \in Seq(T)
    BY DEF Lines
  <1>2. CASE element = 0
    BY <1>1, <1>2 DEF digested
  <1>3. CASE element # 0
    <2>1. element = Len(answer)
      BY <1>3 DEF PlaceInv
    <2>2. digested \in Seq(T) /\ answer = Append(digested, key) /\ element = Len(digested) + 1
      BY <1>1, <1>3, <2>1, LastLine DEF digested, key
    <2> QED
      BY <1>3, <2>1, <2>2
  <1> QED
    BY <1>2, <1>3

(* Nothing starts in an empty reply.                                       *)
LEMMA NothingStarts ==
  \A f : /\ Starts(f, <<>>) = {} /\ First({}) = {}
         /\ \A a : Kept(f, a, {}) = {}
  BY DEF Starts, LinesOf, First, Kept

-----------------------------------------------------------------------------
(* What is held and allocated, whatever the server sends. *)

LEMMA ObjectsOf ==
  /\ Objects(<<>>) = {} /\ \A e : Objects(<<e>>) = {e.at}
  /\ \A e : \A list \in Seq(Thing) : Objects(Append(list, e)) = Objects(list) \cup {e.at}
  <1>1. Objects(<<>>) = {} /\ \A e : Objects(<<e>>) = {e.at}
    BY DEF Objects
  <1>2. ASSUME NEW list \in Seq(Thing), NEW e
        PROVE  Objects(Append(list, e)) = Objects(list) \cup {e.at}
    <2> DEFINE longer == Append(list, e)
    <2>1. /\ DOMAIN list = 1..Len(list) /\ DOMAIN longer = 1..Len(list) \cup {Len(list) + 1}
          /\ longer[Len(list) + 1] = e
          /\ \A i \in 1..Len(list) : longer[i] = list[i]
      BY Longer
    <2> HIDE DEF longer
    <2>2. Objects(longer) = Objects(list) \cup {e.at}
      BY <2>1 DEF Objects
    <2> QED
      BY <2>2 DEF longer
  <1> QED
    BY <1>1, <1>2

LEMMA ThingsHavePlaces ==
  ASSUME NEW list \in Seq(Thing), NEW m \in DOMAIN list
  PROVE  list[m].at \in Nat
  <1>1. list[m] \in Thing
    OBVIOUS
  <1> QED
    BY <1>1 DEF Thing

(* What is digested only grows.                                            *)
LEMMA DigestedGrows ==
  ASSUME RInv, GetNextReturnElement \/ UNCHANGED <<element, answer>>
  PROVE  /\ Len(digested) \in Nat /\ Len(digested') \in Nat /\ Len(digested) <= Len(digested')
         /\ element # 0 => element = Len(digested) + 1
                           /\ (GetNextReturnElement => element <= Len(digested'))
  <1>1. Lines /\ PlaceInv
    BY DEF RInv, IInv, ReplyInv, HeldInv
  <1>2. CASE UNCHANGED <<element, answer>> /\ ~GetNextReturnElement
    <2>1. digested' = digested
      BY <1>2 DEF digested
    <2> QED
      BY <1>1, <1>2, <2>1, Held
  <1>3. CASE GetNextReturnElement
    <2>1. Lines' /\ element' \in {0, Len(answer')} /\ Len(answer) \in Nat
          /\ Len(answer) <= Len(digested')
      BY <1>1, <1>3, LineKept, LineRead
    <2>2. Len(digested') \in Nat
      <3>1. PICK T : answer' \in Seq(T)
        BY <2>1 DEF Lines
      <3>2. CASE element' = 0
        BY <3>1, <3>2 DEF digested
      <3>3. CASE element' # 0
        <4>1. Len(answer') # 0
          BY <2>1, <3>3
        <4> QED
          BY <3>1, <3>3, <4>1, LastLine DEF digested
      <3> QED
        BY <3>2, <3>3
    <2>3. Len(digested) <= Len(answer)
      BY <1>1, <2>1, Held
    <2> QED
      BY <1>1, <2>1, <2>2, <2>3, Held
  <1> QED
    BY <1>2, <1>3

(* What is the same for all steps that read a reply.                       *)
LEMMA StillHeld ==
  ASSUME RInv, at \in Reading, at' \in Reading \cup {"unlock"},
         UNCHANGED <<call, result, told>>,
         \/ GetNextReturnElement
         \/ UNCHANGED <<processing, element, answer>> /\ (error' = "none" => error = "none"),
         data' \in Seq(Thing), at' \in {"attributes", "output"} => ent' \in Thing,
         at' \in {"head", "attributes"} => call.read \in {"entities", "entity"},
         at' = "line" => call.read \in {"strings", "string"},
         at' = "output" => call.read = "outputs",
         call.read = "nothing" => data' = <<>>,
         call.read = "entity" /\ at' \in {"next", "head", "attributes"} => data' = <<>>,
         HeapInv'
  PROVE  HeldInv'
  <1>1. ShapeInv' /\ Lines
    BY DEF RInv, IInv, ReplyInv, HeldInv, ShapeInv
  <1>2. element' \in {0, Len(answer')}
    BY <1>1, LineKept DEF RInv, ReplyInv, HeldInv, PlaceInv
  <1>3. PlaceInv'
    BY <1>2 DEF RInv, ReplyInv, HeldInv, PlaceInv, Reading
  <1>4. TroubleInv'
    <2>1. error' = "none" => error = "none" /\ (NoJunk => NoJunk')
      BY <1>1, LineKept DEF NoJunk
    <2> QED
      BY <2>1 DEF NoJunk, RInv, ReplyInv, HeldInv, TroubleInv
  <1> QED
    BY <1>1, <1>3, <1>4 DEF HeldInv

(* The steps that read and take nothing.                                   *)
LEMMA ReadingHeld ==
  ASSUME RInv, UNCHANGED <<call, result, told, data, alive>>,
         at \in Reading \ {"attributes"}, at' \in Reading \cup {"unlock"},
         \/ GetNextReturnElement
         \/ UNCHANGED <<processing, element, answer>> /\ (error' = "none" => error = "none"),
         at' = "head" => at = "next" /\ call.read \in {"entities", "entity"},
         at' = "next" => call.read \notin {"entities", "entity"},
         at' # "attributes", at' = "output" => ent' \in Thing /\ ent'.at <= Len(digested'),
         at' = "line" => call.read \in {"strings", "string"},
         at' = "output" => call.read = "outputs"
  PROVE  HeldInv'
  <1>1. /\ data \in Seq(Thing) /\ alive = Objects(data)
        /\ call.read = "nothing" => data = <<>>
        /\ call.read = "entity" /\ at = "next" => data = <<>>
    BY DEF RInv, ReplyInv, HeldInv, ShapeInv, PlaceInv, HeapInv, Reading
  <1>2. HeapInv'
    <2>1. ASSUME at' = "head", NEW m \in DOMAIN data
          PROVE  data[m].at <= Len(digested')
      <3>1. data[m].at <= Len(digested)
        BY <2>1 DEF RInv, ReplyInv, HeldInv, HeapInv
      <3>2. data[m].at \in Nat
        BY <1>1, ThingsHavePlaces
      <3> QED
        BY <3>1, <3>2, DigestedGrows
    <2> QED
      BY <1>1, <2>1 DEF HeapInv, Objects, Reading
  <1> QED
    BY <1>1, <1>2, StillHeld DEF Reading

LEMMA AnOutput ==
  AtPlace("output", 0) \in Thing /\ AtPlace("output", 0).at = 0 /\ AtPlace("stats", 0) \in Thing
  <1>1. "output" \in Types /\ "stats" \in Types /\ 0 \in Nat
    BY DEF Types
  <1>2. <<>> \in Seq(Nat)
    OBVIOUS
  <1> QED
    BY <1>1, <1>2 DEF AtPlace, Thing

LEMMA NextHeld ==
  ASSUME RInv, NothingLeft \/ NextEntity \/ NextString \/ NextOutput \/ NextStats \/ Finish
  PROVE  HeldInv'
  <1>1. UNCHANGED <<call, result, told, data, alive>>
    BY DEF NothingLeft, NextEntity, NextString, NextOutput, NextStats, Finish, fixed, outcome, reading
  <1>2. CASE NothingLeft
    BY <1>1, <1>2, ReadingHeld DEF NothingLeft, Reading
  <1>3. CASE NextEntity
    BY <1>1, <1>3, ReadingHeld DEF NextEntity, Reading
  <1>4. CASE NextString
    <2>1. call.read \in {"strings", "string"}
      BY <1>4 DEF NextString, RInv, ReplyInv, HeldInv, PlaceInv
    <2> QED
      BY <1>1, <1>4, <2>1, ReadingHeld DEF NextString, Reading
  <1>5. CASE NextOutput
    <2>1. 0 <= Len(digested')
      BY <1>5, DigestedGrows DEF NextOutput
    <2> QED
      BY <1>1, <1>5, <2>1, ReadingHeld, AnOutput DEF NextOutput, Reading
  <1>6. CASE NextStats
    BY <1>1, <1>6, ReadingHeld DEF NextStats, Reading
  <1>7. CASE Finish
    BY <1>1, <1>7, ReadingHeld DEF Finish, Reading
  <1> QED
    BY <1>2, <1>3, <1>4, <1>5, <1>6, <1>7

(* An entity that begins is below all that are in the list.                *)
LEMMA BeginEntityHeld ==
  ASSUME RInv, BeginEntity
  PROVE  HeldInv'
  <1>1. /\ at = "head" /\ UNCHANGED <<call, result, told, data>>
        /\ data \in Seq(Thing) /\ alive = Objects(data)
        /\ call.read \in {"entities", "entity"} /\ (call.read = "entity" => data = <<>>)
        /\ \A m \in DOMAIN data : data[m].at <= Len(digested)
    BY DEF BeginEntity, fixed, outcome, RInv, ReplyInv, HeldInv, ShapeInv, PlaceInv, HeapInv, Reading
  <1>2. CASE element # 0 /\ key \in StartKeys
    <2>1. /\ at' = "attributes" /\ GetNextReturnElement
          /\ ent' = AtPlace(EntityType(key), element)
          /\ alive' = alive \cup {element}
      BY <1>2 DEF BeginEntity, Object
    <2>2. /\ Len(digested) \in Nat /\ element = Len(digested) + 1 /\ element <= Len(digested')
      BY <1>2, <2>1, DigestedGrows
    <2>3. ent' \in Thing /\ ent'.at = element
      <3>1. EntityType(key) \in Types
        BY <1>2 DEF EntityType, StartKeys, Types
      <3>2. <<>> \in Seq(Nat) /\ 0 \in Nat /\ element \in Nat
        BY <2>2
      <3> QED
        BY <2>1, <3>1, <3>2 DEF AtPlace, Thing
    <2>4. \A m \in DOMAIN data : data[m].at < element
      BY <1>1, <2>2, ThingsHavePlaces
    <2>5. HeapInv'
      BY <1>1, <2>1, <2>2, <2>3, <2>4 DEF HeapInv
    <2> QED
      BY <1>1, <2>1, <2>3, <2>5, StillHeld DEF Reading
  <1>3. CASE ~(element # 0 /\ key \in StartKeys)
    <2>1. /\ at' = "finish" /\ (error' = "none" => error = "none")
          /\ UNCHANGED <<alive, processing, element, answer>>
      BY <1>3 DEF BeginEntity
    <2> QED
      BY <1>1, <2>1, ReadingHeld DEF Reading
  <1> QED
    BY <1>2, <1>3

LEMMA AttributeHeld ==
  ASSUME RInv, Attribute
  PROVE  HeldInv'
  <1>1. /\ at = "attributes" /\ at' = at /\ element # 0
        /\ ent' = WithAttribute(ent) /\ GetNextReturnElement
        /\ UNCHANGED <<call, result, told, data, alive>>
    BY DEF Attribute, fixed, outcome
  <1>2. /\ data \in Seq(Thing) /\ ent \in Thing /\ alive = Objects(data) \cup {ent.at}
        /\ call.read \in {"entities", "entity"} /\ (call.read = "entity" => data = <<>>)
        /\ ent.at <= Len(digested) /\ \A m \in DOMAIN data : data[m].at < ent.at
    BY <1>1 DEF RInv, ReplyInv, HeldInv, ShapeInv, PlaceInv, HeapInv
  <1>3. /\ Len(digested) \in Nat /\ element = Len(digested) + 1
        /\ Len(digested') \in Nat /\ Len(digested) <= Len(digested')
    BY <1>1, DigestedGrows
  <1>4. ent' \in Thing /\ ent'.at = ent.at
    <2>1. /\ ent.joined \in Seq(Nat) /\ element \in Nat
          /\ ent' \in {ent, [ent EXCEPT !.joined = Append(@, element)], [ent EXCEPT !.once = element]}
      BY <1>1, <1>2, <1>3 DEF WithAttribute, Thing
    <2>2. Append(ent.joined, element) \in Seq(Nat)
      BY <2>1
    <2> QED
      BY <1>2, <2>1, <2>2 DEF Thing
  <1>5. HeapInv'
    <2>1. ent.at \in Nat
      BY <1>2 DEF Thing
    <2> QED
      BY <1>1, <1>2, <1>3, <1>4, <2>1 DEF HeapInv
  <1> QED
    BY <1>1, <1>2, <1>4, <1>5, StillHeld DEF Reading

(* The entity goes into the list, is returned, or is freed.                *)
LEMMA TakeEntityHeld ==
  ASSUME RInv, TakeEntity
  PROVE  HeldInv'
  <1>1. /\ at = "attributes" /\ UNCHANGED <<call, result, told, processing, error, element, answer>>
    BY DEF TakeEntity, fixed, outcome
  <1>2. /\ data \in Seq(Thing) /\ ent \in Thing /\ alive = Objects(data) \cup {ent.at}
        /\ call.read \in {"entities", "entity"} /\ (call.read = "entity" => data = <<>>)
        /\ ent.at <= Len(digested) /\ \A m \in DOMAIN data : data[m].at < ent.at
    BY <1>1 DEF RInv, ReplyInv, HeldInv, ShapeInv, PlaceInv, HeapInv
  <1>3. digested' = digested /\ Len(digested) \in Nat /\ ent.at \in Nat
    <2>1. digested' = digested
      BY <1>1 DEF digested
    <2> QED
      BY <1>1, <1>2, <2>1, DigestedGrows DEF Thing
  <1>4. CASE call.read = "entity"
    <2>1. data' = <<ent>> /\ at' = "finish" /\ alive' = alive
      BY <1>4 DEF TakeEntity
    <2>2. data' \in Seq(Thing) /\ alive' = Objects(data')
      BY <1>2, <1>4, <2>1, ObjectsOf
    <2>3. HeapInv'
      BY <2>1, <2>2 DEF HeapInv
    <2> QED
      BY <1>1, <1>4, <2>1, <2>2, <2>3, StillHeld DEF Reading
  <1>5. CASE call.read = "entities"
    <2>1. /\ at' = "next"
          /\ IF ent.type \in call.keep THEN data' = Append(data, ent) /\ alive' = alive
             ELSE alive' = alive \ {ent.at} /\ data' = data
      BY <1>5 DEF TakeEntity
    <2>2. data' \in Seq(Thing) /\ alive' = Objects(data')
          /\ \A m \in DOMAIN data' : data'[m].at <= Len(digested)
      <3>1. CASE ent.type \in call.keep
        <4>1. data' = Append(data, ent) /\ data' \in Seq(Thing)
          BY <1>2, <2>1, <3>1
        <4>2. /\ DOMAIN data' = DOMAIN data \cup {Len(data) + 1} /\ data'[Len(data) + 1] = ent
              /\ \A m \in DOMAIN data : data'[m] = data[m]
          BY <1>2, <4>1, Longer
        <4>3. \A m \in DOMAIN data : data'[m].at <= Len(digested)
          BY <1>2, <1>3, <4>2, ThingsHavePlaces
        <4> QED
          BY <1>2, <2>1, <3>1, <4>1, <4>2, <4>3, ObjectsOf
      <3>2. CASE ent.type \notin call.keep
        <4>1. ent.at \notin Objects(data) /\ \A m \in DOMAIN data : data[m].at <= Len(digested)
          BY <1>2, <1>3, ThingsHavePlaces DEF Objects
        <4> QED
          BY <1>2, <2>1, <3>2, <4>1
      <3> QED
        BY <3>1, <3>2
    <2>3. HeapInv'
      BY <1>3, <2>1, <2>2 DEF HeapInv
    <2> QED
      BY <1>1, <1>5, <2>1, <2>2, <2>3, StillHeld DEF Reading
  <1> QED
    BY <1>2, <1>4, <1>5

LEMMA TakeStringHeld ==
  ASSUME RInv, TakeString
  PROVE  HeldInv'
  <1>1. /\ at = "line" /\ call.read \in {"strings", "string"}
        /\ UNCHANGED <<call, result, told, processing, error, element, answer>>
        /\ data \in Seq(Thing) /\ alive = Objects(data)
    BY DEF TakeString, fixed, outcome, RInv, ReplyInv, HeldInv, ShapeInv, PlaceInv, HeapInv
  <1>2. CASE element # 0
    <2>1. /\ data' = Append(data, AtPlace("string", element)) /\ alive' = alive \cup {element}
          /\ at' \in {"next", "finish"}
      BY <1>2 DEF TakeString, Object
    <2>2. AtPlace("string", element) \in Thing /\ AtPlace("string", element).at = element
      <3>1. Len(digested) \in Nat /\ element = Len(digested) + 1
        BY <1>1, <1>2, DigestedGrows
      <3>2. <<>> \in Seq(Nat) /\ 0 \in Nat /\ element \in Nat /\ "string" \in Types
        BY <3>1 DEF Types
      <3> QED
        BY <3>2 DEF AtPlace, Thing
    <2>3. data' \in Seq(Thing) /\ alive' = Objects(data')
      BY <1>1, <2>1, <2>2, ObjectsOf
    <2>4. HeapInv'
      BY <1>1, <2>1, <2>3 DEF HeapInv
    <2> QED
      BY <1>1, <2>1, <2>3, <2>4, StillHeld DEF Reading
  <1>3. CASE element = 0
    <2>1. at' = "finish" /\ UNCHANGED <<data, alive>>
      BY <1>3 DEF TakeString
    <2> QED
      BY <1>1, <2>1, ReadingHeld DEF Reading
  <1> QED
    BY <1>2, <1>3

LEMMA OutputHeld ==
  ASSUME RInv, OutputLine \/ TakeOutput
  PROVE  HeldInv'
  <1>1. /\ at = "output" /\ call.read = "outputs" /\ UNCHANGED <<call, result, told>>
        /\ data \in Seq(Thing) /\ ent \in Thing /\ alive = Objects(data)
    BY DEF OutputLine, TakeOutput, fixed, outcome, RInv, ReplyInv, HeldInv, ShapeInv, PlaceInv, HeapInv
  <1>2. CASE OutputLine
    <2>1. /\ element # 0 /\ GetNextReturnElement /\ at' \in {"output", "finish"}
          /\ UNCHANGED <<data, alive>>
          /\ ent' \in {ent, [ent EXCEPT !.at = element], [ent EXCEPT !.once = element]}
      BY <1>1, <1>2 DEF OutputLine
    <2>2. element \in Nat /\ element <= Len(digested') /\ Len(digested) <= Len(digested')
          /\ Len(digested) \in Nat /\ Len(digested') \in Nat
      BY <2>1, DigestedGrows
    <2>3. ent' \in Thing /\ ent'.at <= Len(digested')
      <3>1. ent.at \in Nat /\ ent.at <= Len(digested)
        BY <1>1 DEF Thing, RInv, ReplyInv, HeldInv, HeapInv
      <3>2. ent' \in Thing
        BY <1>1, <2>1, <2>2 DEF Thing
      <3>3. ent'.at \in {ent.at, element}
        BY <1>1, <2>1 DEF Thing
      <3> QED
        BY <2>2, <3>1, <3>2, <3>3
    <2> QED
      BY <1>1, <2>1, <2>3, ReadingHeld DEF Reading
  <1>3. CASE TakeOutput
    <2>1. /\ data' = Append(data, ent) /\ alive' = alive \cup {ent.at} /\ at' = "next"
          /\ UNCHANGED <<processing, error, element, answer>>
      BY <1>3 DEF TakeOutput
    <2>2. data' \in Seq(Thing) /\ alive' = Objects(data')
      BY <1>1, <2>1, ObjectsOf
    <2>3. HeapInv'
      BY <1>1, <2>1, <2>2 DEF HeapInv
    <2> QED
      BY <1>1, <2>1, <2>2, <2>3, StillHeld DEF Reading
  <1> QED
    BY <1>2, <1>3

LEMMA TakeStatsHeld ==
  ASSUME RInv, TakeStats
  PROVE  HeldInv'
  <1>1. /\ at = "stats" /\ at' = "unlock" /\ data' = <<AtPlace("stats", 0)>> /\ alive' = {0}
        /\ UNCHANGED <<call, result, told, processing, error, element, answer>>
    BY DEF TakeStats, Object, fixed, outcome
  <1>2. call.read = "stats"
    BY <1>1 DEF RInv, IInv, QueryInv, EngineInv
  <1>3. data' \in Seq(Thing) /\ Objects(data') = {0}
    <2>1. AtPlace("stats", 0).at = 0
      BY DEF AtPlace
    <2> QED
      BY <1>1, <2>1, AnOutput, ObjectsOf
  <1>4. HeapInv'
    BY <1>1, <1>3 DEF HeapInv
  <1> QED
    BY <1>1, <1>2, <1>3, <1>4, StillHeld DEF Reading

(* A call begins with nothing, but for the rest of a reply that was cut    *)
(* short.                                                                  *)
LEMMA BeginHeld ==
  ASSUME RInv, NEW f, NEW meant, Begin(f, meant), FunctionOK(f), UNCHANGED element,
         at' \in {"idle", "check", "unlock"} \/ at' = Reads(f)
  PROVE  HeldInv'
  <1>1. /\ at = "idle" /\ call' = f /\ data' = <<>> /\ alive' = {} /\ result' = <<>> /\ told' = FALSE
        /\ answer' = IF processing THEN answer ELSE <<>>
        /\ at' \in {"idle", "check", "unlock", "next", "finish"}
    BY DEF Begin, Reads
  <1>2. element' = 0 /\ error = "none"
    BY <1>1 DEF RInv, IInv, QueryInv, EngineInv
  <1>3. (\A S : data' \in Seq(S) /\ result' \in Seq(S))
        /\ Objects(data') = {} /\ Objects(result') = {}
    BY <1>1, ObjectsOf
  <1>4. ShapeInv' /\ PlaceInv' /\ HeapInv'
    BY <1>1, <1>2, <1>3 DEF ShapeInv, PlaceInv, HeapInv, Reading
  <1>5. \A i \in DOMAIN answer' : answer'[i] # "junk"
    BY <1>1, <1>2 DEF RInv, ReplyInv, HeldInv, TroubleInv
  <1> QED
    BY <1>4, <1>5 DEF HeldInv, TroubleInv

LEMMA CallsHeld ==
  ASSUME RInv,
         \/ (\E f \in Queried : Query(f)) \/ (\E s \in Searches : Start(s))
         \/ (\E c \in Constraints \cup {None} : AddConstraint(c))
         \/ SearchCommit \/ PlaylistSearchCommit \/ StatsCommit
         \/ (\E c \in Constraints, exact \in BOOLEAN : DatabaseFind(exact, c))
  PROVE  HeldInv'
  <1>1. CASE \E f \in Queried : Query(f)
    <2>1. PICK f \in Queried : Query(f)
      BY <1>1
    <2>2. FunctionOK(f)
      BY QueriesAreFunctions
    <2> QED
      BY <2>1, <2>2, BeginHeld DEF Query
  <1>2. CASE \E s \in Searches : Start(s)
    BY <1>2, SearchesAreFunctions, BeginHeld DEF Start
  <1>3. CASE \E c \in Constraints \cup {None} : AddConstraint(c)
    <2>1. PICK c \in Constraints \cup {None} : AddConstraint(c)
      BY <1>3
    <2> QED
      BY <2>1, SearchesAreFunctions, BeginHeld DEF AddConstraint
  <1>4. ASSUME NEW f, NEW type, Commit(f, type), FunctionOK(f), f.read # "nothing"
        PROVE  HeldInv'
    BY <1>4, BeginHeld DEF Commit, Reads
  <1>5. CASE SearchCommit \/ PlaylistSearchCommit \/ StatsCommit
    <2>1. PICK f, type : Commit(f, type) /\ FunctionOK(f) /\ f.read # "nothing"
      BY <1>5, SearchesAreFunctions DEF SearchCommit, PlaylistSearchCommit, StatsCommit
    <2> QED
      BY <1>4, <2>1
  <1>6. CASE \E c \in Constraints, exact \in BOOLEAN : DatabaseFind(exact, c)
    <2>1. PICK c \in Constraints, exact \in BOOLEAN : DatabaseFind(exact, c)
      BY <1>6
    <2>2. FunctionOK(Find(exact)) /\ Find(exact).read = "entities"
      BY SearchesAreFunctions
    <2>3. Begin(Find(exact), Constrained(RequestFor([type |-> Find(exact).cmd, field |-> None]), c))
          /\ at' = "next" /\ UNCHANGED element
      BY <2>1 DEF DatabaseFind
    <2> QED
      BY <2>2, <2>3, BeginHeld DEF Reads
  <1> QED
    BY <1>1, <1>2, <1>3, <1>5, <1>6

LEMMA CheckHeld ==
  ASSUME RInv, Check
  PROVE  HeldInv'
  <1>1. /\ at = "check" /\ UNCHANGED <<call, data, alive, result, told>>
        /\ error = "none" /\ element = 0
    BY DEF Check, reading, outcome, RInv, IInv, QueryInv, EngineInv
  <1>2. /\ FunctionOK(call) /\ data = <<>> /\ result = <<>> /\ ~told /\ alive = {} /\ NoJunk
    BY <1>1, ObjectsOf
       DEF RInv, ReplyInv, HeldInv, ShapeInv, PlaceInv, TroubleInv, HeapInv, NoJunk
  <1>3. /\ at' \in {"idle", "next", "finish"} /\ element' = 0
        /\ call.read = "nothing" => at' # "next"
    BY <1>1 DEF Check, Disconnected, Reads
  <1>4. /\ call' = call /\ data' = <<>> /\ result' = <<>> /\ alive' = {} /\ told' = FALSE
        /\ Objects(data') = {} /\ Objects(result') = {}
    BY <1>1, <1>2, ObjectsOf DEF RInv, TypeOK
  <1>5. ShapeInv' /\ PlaceInv' /\ HeapInv'
    <2>1. <<>> \in Seq(Thing)
      OBVIOUS
    <2> QED
      BY <1>2, <1>3, <1>4, <2>1 DEF ShapeInv, PlaceInv, HeapInv, Reading
  <1>6. error' = "none" => answer' = answer
    BY DEF Check
  <1>7. TroubleInv'
    BY <1>2, <1>6 DEF TroubleInv, NoJunk
  <1> QED
    BY <1>5, <1>7 DEF HeldInv

(* What a function returns is what it keeps.                               *)
LEMMA Returned ==
  ASSUME NEW reported \in BOOLEAN, Return(reported), UNCHANGED <<call, data>>,
         alive = Objects(data), data \in Seq(Thing)
  PROVE  /\ result' \in Seq(Thing) /\ result' \in {<<>>, data}
         /\ at' = IF call.after = "update" THEN "after" ELSE "idle"
         /\ alive' = Objects(result') \/ (reported /\ call.failed = "leaked")
  <1>1. result' \in {<<>>, data}
    BY DEF Return
  <1>2. at' = IF call.after = "update" THEN "after" ELSE "idle"
    BY DEF Return
  <1>3. result' \in Seq(Thing)
    <2>1. <<>> \in Seq(Thing)
      OBVIOUS
    <2> QED
      BY <1>1, <2>1
  <1>4. alive' = IF reported /\ call.failed = "leaked" THEN alive
                 ELSE alive \ (Objects(data) \ Objects(result'))
    BY DEF Return
  <1>5. Objects(result') \subseteq Objects(data)
    BY <1>1, ObjectsOf
  <1> QED
    BY <1>1, <1>2, <1>3, <1>4, <1>5

(* Wherever no reply is read.                                              *)
LEMMA NothingIsRead ==
  ASSUME RInv, UNCHANGED <<call, data>>, at' \in {"idle", "after", "callback"}, element' = 0,
         result' \in Seq(Thing), call.read = "nothing" => result' = <<>>,
         at' = "after" => call.read = "nothing",
         at' = "callback" => told' /\ alive' = Objects(data),
         at' # "callback" => alive' = Objects(result') \/ (told' /\ call.failed = "leaked"),
         error' = "none" /\ processing' => NoJunk'
  PROVE  HeldInv'
  <1>1. ShapeInv' /\ PlaceInv'
    BY DEF RInv, ReplyInv, HeldInv, ShapeInv, PlaceInv, Reading
  <1>2. HeapInv' /\ TroubleInv'
    BY DEF HeapInv, TroubleInv, NoJunk, Objects, Reading
  <1> QED
    BY <1>1, <1>2 DEF HeldInv

LEMMA UnlockHeld ==
  ASSUME RInv, Unlock
  PROVE  HeldInv'
  <1>1. /\ at = "unlock" /\ UNCHANGED <<call, data, answer>>
        /\ data \in Seq(Thing) /\ result \in Seq(Thing) /\ alive = Objects(data)
        /\ call.read = "nothing" => data = <<>> /\ result = <<>>
        /\ call.after = "update" => call.read = "nothing"
    BY DEF Unlock, RInv, ReplyInv, HeldInv, ShapeInv, PlaceInv, FunctionOK, HeapInv, Reading
  <1>2. CASE error = "none" \/ forgiven
    <2>1. error' = "none" /\ Return(FALSE) /\ UNCHANGED <<processing, element>>
      BY <1>2 DEF Unlock
    <2>2. /\ result' \in Seq(Thing) /\ result' \in {<<>>, data}
          /\ at' = IF call.after = "update" THEN "after" ELSE "idle"
          /\ alive' = Objects(result')
      BY <1>1, <2>1, Returned
    <2>3. element = 0 /\ (processing => NoJunk)
      <3>1. CASE error = "none"
        BY <1>1, <3>1 DEF NoJunk, RInv, IInv, QueryInv, EngineInv, ReplyInv, HeldInv, TroubleInv
      <3>2. CASE forgiven
        BY <3>2 DEF forgiven, RInv, IInv, QueryInv, EngineInv
      <3> QED
        BY <1>2, <3>1, <3>2
    <2>4. error' = "none" /\ processing' => NoJunk'
      BY <1>1, <2>1, <2>3 DEF NoJunk
    <2> QED
      BY <1>1, <2>1, <2>2, <2>3, <2>4, NothingIsRead
  <1>3. CASE error = "ack" /\ ~forgiven
    <2>1. told' = TRUE /\ at' = "callback" /\ UNCHANGED <<processing, element, result, alive>>
      BY <1>3 DEF Unlock
    <2>2. element = 0 /\ ~processing
      BY <1>3 DEF RInv, IInv, QueryInv, EngineInv
    <2> QED
      BY <1>1, <2>1, <2>2, NothingIsRead
  <1>4. CASE ~(error = "none" \/ forgiven) /\ ~(error = "ack" /\ ~forgiven)
    <2>1. told' = TRUE /\ Disconnected /\ Return(TRUE)
      BY <1>4 DEF Unlock
    <2>2. processing' = FALSE /\ element' = 0
      BY <2>1 DEF Disconnected
    <2>3. /\ result' \in Seq(Thing) /\ result' \in {<<>>, data}
          /\ at' = IF call.after = "update" THEN "after" ELSE "idle"
          /\ alive' = Objects(result') \/ call.failed = "leaked"
      BY <1>1, <2>1, Returned
    <2> QED
      BY <1>1, <2>1, <2>2, <2>3, NothingIsRead
  <1> QED
    BY <1>2, <1>3, <1>4

(* The error callback, and the end of the call that it was for.            *)
LEMMA CallbackHeld ==
  ASSUME RInv, CallbackReturns \/ \E s \in Searches : CallbackStarts(s)
  PROVE  HeldInv'
  <1>1. /\ at = "callback" /\ UNCHANGED <<call, data, answer, told>>
        /\ data \in Seq(Thing) /\ result \in Seq(Thing) /\ alive = Objects(data) /\ told
        /\ call.read = "nothing" => data = <<>> /\ result = <<>>
        /\ call.after = "update" => call.read = "nothing"
        /\ error = "none" /\ element = 0 /\ (processing => NoJunk)
    BY DEF CallbackReturns, CallbackStarts, reading, outcome, RInv, ReplyInv, HeldInv, ShapeInv,
           PlaceInv, TroubleInv, FunctionOK, HeapInv, NoJunk, IInv, QueryInv, EngineInv, Reading
  <1>2. CASE CallbackReturns
    <2>1. Return(TRUE)
      BY <1>2 DEF CallbackReturns
    <2>3. element' = 0 /\ (processing' => processing)
      BY <1>1, <1>2 DEF CallbackReturns, Disconnected
    <2>4. processing' => NoJunk'
      BY <1>1, <2>3 DEF NoJunk
    <2>2. /\ result' \in Seq(Thing) /\ result' \in {<<>>, data}
          /\ at' = IF call.after = "update" THEN "after" ELSE "idle"
          /\ alive' = Objects(result') \/ call.failed = "leaked"
      BY <1>1, <2>1, Returned
    <2> QED
      BY <1>1, <2>2, <2>3, <2>4, NothingIsRead
  <1>3. CASE \E s \in Searches : CallbackStarts(s)
    <2>1. UNCHANGED <<at, result, alive, processing, element>>
      BY <1>3 DEF CallbackStarts, reading, outcome
    <2> QED
      BY <1>1, <2>1, NothingIsRead DEF NoJunk
  <1> QED
    BY <1>2, <1>3

LEMMA BetweenHeld ==
  ASSUME RInv, Update \/ Connect \/ Disconnect
  PROVE  HeldInv'
  <1>1. /\ at \in {"idle", "after"} /\ at' = "idle"
        /\ UNCHANGED <<call, data, result, told, alive>>
    BY DEF Update, Connect, Disconnect, connection, reading, outcome
  <1>2. /\ result \in Seq(Thing) /\ (call.read = "nothing" => result = <<>>)
        /\ alive = Objects(result) \/ (told /\ call.failed = "leaked")
        /\ error = "none" /\ element = 0 /\ (processing => NoJunk)
    BY <1>1 DEF RInv, ReplyInv, HeldInv, ShapeInv, PlaceInv, TroubleInv, HeapInv, NoJunk, IInv,
                QueryInv, EngineInv
  <1>3. element' = 0
    BY <1>2 DEF Update, Connect, Disconnect, Disconnected, connection
  <1>4. processing' => NoJunk'
    <2>1. CASE StatusCutShort
      BY <2>1 DEF StatusCutShort, NoJunk
    <2>2. CASE UNCHANGED <<processing, answer>> \/ ~processing'
      BY <1>2, <2>2 DEF NoJunk
    <2> QED
      BY <2>1, <2>2 DEF Update, Connect, Disconnect, Disconnected, connection
  <1> QED
    BY <1>1, <1>2, <1>3, <1>4, NothingIsRead

(* What is held and allocated is right after every step.                   *)
LEMMA HeldKept ==
  ASSUME RInv, Next
  PROVE  HeldInv'
  BY CallsHeld, CheckHeld, NextHeld, BeginEntityHeld, AttributeHeld, TakeEntityHeld,
     TakeStringHeld, OutputHeld, TakeStatsHeld, UnlockHeld, CallbackHeld, BetweenHeld DEF Next

-----------------------------------------------------------------------------
(* The steps that read a reply. *)

(* What is the same for all of them.                                       *)
LEMMA ReplyGoesOn ==
  ASSUME SInv, UNCHANGED <<client, call, command>>,
         at \in Reading, at' \in Reading \cup {"unlock"},
         ByTheHeaders => error' # "proto",
         at' \in {"head", "attributes", "line", "output", "stats"} => (processing' <=> element' # 0),
         at' # "finish" /\ processing' => error' = "none"
  PROVE  CommandInv'
  <1>1. ByTheHeaders <=> ByTheHeaders'
    BY DEF ByTheHeaders
  <1> QED
    BY <1>1 DEF SInv, IntactInv, CommandInv, Reading

(* The parts of the invariant that are about other places.                 *)
LEMMA Elsewhere ==
  /\ at' # "next" => NextInv'
  /\ at' # "head" => HeadInv'
  /\ at' # "attributes" => AttributesInv'
  /\ at' # "line" => StringInv'
  /\ at' # "output" => OutputInv'
  /\ at' \notin {"stats", "finish", "unlock"} => DoneInv'
  BY DEF NextInv, HeadInv, AttributesInv, StringInv, OutputInv, DoneInv

(* A step that reads a line meets no error the library makes itself.       *)
LEMMA ReadsLine ==
  ASSUME SInv, Intact(answer'), GetNextReturnElement, processing
  PROVE  /\ element' \in {0, Len(answer')} /\ (processing' <=> element' # 0)
         /\ processing' => error' = error
         /\ ByTheHeaders => error' # "proto"
         /\ digested' = answer
  BY LineIsHeld DEF SInv, IInv, IntactInv, CommandInv

(* What the loops rely on before they read the next line.                  *)
LEMMA NoErrorSoFar ==
  ASSUME SInv, at \in Reading \ {"finish"}, processing
  PROVE  error = "none"
  BY DEF SInv, IntactInv, CommandInv

(* The end of the reply.                                                   *)
LEMMA NothingLeftReply ==
  ASSUME SInv, HeldInv', Intact(answer'), NothingLeft
  PROVE  IntactInv'
  <1>1. /\ at = "next" /\ ~processing /\ at' = IF call.read = "stats" THEN "unlock" ELSE "finish"
        /\ UNCHANGED <<client, call, command, processing, error, code, element, answer,
                      data, ent>>
    BY DEF NothingLeft, fixed, outcome, intent, reading
  <1>2. element = 0 /\ digested = answer
    <2>1. element = 0
      BY <1>1 DEF SInv, IInv, QueryInv, EngineInv
    <2> QED
      BY <2>1, Held DEF SInv, IInv, HeldInv
  <1>3. CommandInv'
    <2>1. data' \in Seq(Thing) /\ (ByTheHeaders => error' # "proto") /\ (processing' => error' = "none")
      BY <1>1 DEF SInv, HeldInv, IntactInv, ShapeInv, CommandInv, PlaceInv, Reading
    <2> QED
      BY <1>1, <2>1, NoErrorSoFar, ReplyGoesOn DEF Reading
  <1>4. DoneInv'
    <2>1. ASSUME ~Excused'
          PROVE  \/ call.read = "outputs" /\ answer = <<>>
                 \/ Represents(call, answer, data, Taken(call, answer))
      <3>1. call.read # "stats" /\ call.read # "nothing"
        BY <1>1, <2>1 DEF Excused, SInv, HeldInv, IntactInv, ShapeInv, FunctionOK, NextInv
      <3>2. CASE call.read \in {"entity", "string"}
        <4>1. answer = <<>> /\ Represents(call, answer, data, Kept(call, answer, Starts(call, answer)))
          BY <1>1, <1>2, <3>2 DEF SInv, HeldInv, IntactInv, NextInv
        <4> QED
          BY <3>2, <4>1, NothingStarts DEF Taken
      <3>3. CASE call.read \notin {"entity", "string"}
        <4>1. \/ Represents(call, answer, data, Kept(call, answer, Starts(call, answer)))
              \/ call.read = "outputs" /\ answer = <<>>
          BY <1>1, <1>2 DEF SInv, HeldInv, IntactInv, NextInv
        <4> QED
          BY <3>1, <3>3, <4>1 DEF Taken
      <3> QED
        BY <3>2, <3>3
    <2> QED
      BY <1>1, <2>1 DEF DoneInv
  <1> QED
    BY <1>1, <1>3, <1>4, Elsewhere DEF IntactInv

(* mpd_getNextInfoEntity: the line that begins an entity.                  *)
LEMMA NextEntityReply ==
  ASSUME SInv, HeldInv', Intact(answer'), NextEntity
  PROVE  IntactInv'
  <1>1. /\ at = "next" /\ processing /\ at' = "head" /\ call.read \in {"entities", "entity"}
        /\ UNCHANGED <<client, call, command, data, ent>>
    BY DEF NextEntity, fixed, outcome, intent, reading
  <1>2. data \in Seq(Thing) /\ Represents(call, answer, data, Kept(call, answer, Starts(call, digested)))
    BY <1>1 DEF SInv, HeldInv, IntactInv, NextInv, ShapeInv
  <1>4. CASE element # 0
    <2>1. UNCHANGED <<processing, error, code, element, answer>>
      BY <1>4 DEF NextEntity
    <2>2. digested' = digested /\ key' = key
      BY <2>1 DEF digested, key
    <2>3. answer = Append(digested, key) /\ \E T : digested \in Seq(T)
      BY <1>4, Held DEF SInv, IInv, HeldInv
    <2>4. call.read = "entities" /\ key \in StartKeys /\ key \in Begins(call)
      <3>1. answer # <<>>
        <4>1. PICK T : digested \in Seq(T)
          BY <2>3
        <4> QED
          BY <2>3, <4>1
      <3>2. call.read = "entities"
        BY <1>1, <3>1 DEF SInv, HeldInv, IntactInv, NextInv
      <3> QED
        BY <1>1, <1>4, <3>2 DEF SInv, HeldInv, IntactInv, NextInv, Begins
    <2>5. Represents(call, digested, data, Kept(call, digested, Starts(call, digested)))
      BY <1>2, <2>3, <2>4, KeptBeforeStart
    <2>6. HeadInv'
      BY <1>1, <2>2, <2>4, <2>5 DEF HeadInv
    <2>7. CommandInv'
      <3>1. (ByTheHeaders => error' # "proto") /\ (processing' => error' = "none")
            /\ (processing' <=> element' # 0)
        BY <1>1, <1>4, <2>1 DEF SInv, HeldInv, IntactInv, CommandInv, PlaceInv, Reading
      <3> QED
        BY <1>1, <1>2, <3>1, NoErrorSoFar, ReplyGoesOn DEF Reading
    <2> QED
      BY <1>1, <2>6, <2>7, Elsewhere DEF IntactInv
  <1>5. CASE element = 0
    <2>1. GetNextReturnElement
      BY <1>5 DEF NextEntity
    <2>2. answer = <<>> /\ digested = answer
      BY <1>1, <1>5, Held DEF SInv, IInv, HeldInv, IntactInv, NextInv
    <2>3. /\ element' \in {0, Len(answer')} /\ (processing' <=> element' # 0)
          /\ processing' => error' = error
          /\ ByTheHeaders => error' # "proto"
          /\ digested' = <<>>
      BY <1>1, <2>1, <2>2, ReadsLine
    <2>4. CommandInv'
      BY <1>1, <1>2, <2>3, NoErrorSoFar, ReplyGoesOn DEF Reading
    <2>5. element' # 0 => key' \in StartKeys \/ (call.forgive = "none" /\ ~ByTheHeaders)
      <3>1. element' # 0 => key' \in FirstLines
        BY <1>1, <2>1, <2>2, LineIsHeld DEF SInv, IInv
      <3>2. call.forgive # "none" \/ ByTheHeaders => command.name \in OfEntities
        BY <1>1 DEF SInv, HeldInv, IntactInv, CommandInv, Reading
      <3> QED
        BY <3>1, <3>2, FirstLinesBegin
    <2>6. HeadInv'
      <3>1. ByTheHeaders' <=> ByTheHeaders
        BY <1>1 DEF ByTheHeaders
      <3> QED
        BY <1>1, <1>2, <2>2, <2>3, <2>5, <3>1 DEF HeadInv
    <2> QED
      BY <1>1, <2>4, <2>6, Elsewhere DEF IntactInv
  <1> QED
    BY <1>4, <1>5

LEMMA BeginEntityReply ==
  ASSUME SInv, HeldInv', Intact(answer'), BeginEntity
  PROVE  IntactInv'
  <1>1. /\ at = "head" /\ call.read \in {"entities", "entity"}
        /\ UNCHANGED <<client, call, command, data>>
    BY DEF BeginEntity, fixed, outcome, intent, SInv, HeldInv, IntactInv, HeadInv, PlaceInv
  <1>2. /\ call.read = "entity" => digested = <<>>
        /\ Represents(call, digested, data, Kept(call, digested, Starts(call, digested)))
        /\ data \in Seq(Thing)
        /\ processing <=> element # 0
    BY <1>1 DEF SInv, HeldInv, IntactInv, HeadInv, ShapeInv, PlaceInv, CommandInv
  <1>3. CASE element # 0 /\ key \in StartKeys
    <2>1. /\ at' = "attributes" /\ GetNextReturnElement /\ processing
          /\ ent' = AtPlace(EntityType(key), element)
      BY <1>2, <1>3 DEF BeginEntity, Object
    <2>2. PICK T : digested \in Seq(T)
      BY Held DEF SInv, IInv, HeldInv
    <2>3. answer = Append(digested, key) /\ element = Len(digested) + 1
      BY <1>3, Held DEF SInv, IInv, HeldInv
    <2>4. /\ element' \in {0, Len(answer')} /\ (processing' <=> element' # 0)
          /\ processing' => error' = error
          /\ ByTheHeaders => error' # "proto"
          /\ digested' = answer
      BY <2>1, ReadsLine
    <2>5. ent' \in Thing /\ ent'.at = element
      <3>1. EntityType(key) \in Types
        BY <1>3 DEF EntityType, StartKeys, Types
      <3>2. element \in Nat
        BY <2>2, <2>3
      <3>3. <<>> \in Seq(Nat) /\ 0 \in Nat
        OBVIOUS
      <3> QED
        BY <2>1, <3>1, <3>2, <3>3 DEF AtPlace, Thing
    <2>6. Current(call, answer, data, ent')
      <3>1. TypeAt(call, answer, element) = EntityType(key)
        BY <1>1 DEF TypeAt, key
      <3>2. key \in Begins(call)
        BY <1>1, <1>3 DEF Begins
      <3> QED
        BY <1>1, <1>2, <2>1, <2>2, <2>3, <3>1, <3>2, Begun
    <2>7. AttributesInv'
      BY <1>1, <2>4, <2>6 DEF AttributesInv
    <2>9. CommandInv'
      BY <1>1, <1>2, <2>1, <2>4, <2>5, NoErrorSoFar, ReplyGoesOn DEF Reading
    <2> QED
      BY <2>1, <2>7, <2>9, Elsewhere DEF IntactInv
  <1>4. CASE ~(element # 0 /\ key \in StartKeys)
    <2>1. /\ at' = "finish" /\ error' = IF element # 0 THEN "proto" ELSE error
          /\ UNCHANGED <<ent, processing, code, element, answer>>
      BY <1>4 DEF BeginEntity
    <2>2. element # 0 => digested = <<>> /\ call.forgive = "none" /\ ~ByTheHeaders
      BY <1>1, <1>4 DEF SInv, HeldInv, IntactInv, HeadInv
    <2>3. ByTheHeaders => error' # "proto"
      BY <2>1, <2>2 DEF SInv, HeldInv, IntactInv, CommandInv, PlaceInv, Reading
    <2>4. CommandInv'
      BY <1>1, <1>2, <2>1, <2>3, NoErrorSoFar, ReplyGoesOn DEF Reading
    <2>5. DoneInv'
      <3>1. CASE element # 0
        <4>1. Excused'
          BY <1>1, <2>1, <2>2, <3>1 DEF Excused
        <4> QED
          BY <2>1, <4>1 DEF DoneInv
      <3>2. CASE element = 0
        <4>1. digested = answer /\ ~processing'
          BY <1>2, <2>1, <3>2, Held DEF SInv, IInv, HeldInv
        <4>2. Represents(call, answer, data, Taken(call, answer))
          <5>1. CASE call.read = "entities"
            BY <1>2, <4>1, <5>1 DEF Taken
          <5>2. CASE call.read = "entity"
            BY <1>2, <4>1, <5>2, NothingStarts DEF Taken
          <5> QED
            BY <1>1, <5>1, <5>2
        <4> QED
          BY <1>1, <2>1, <4>1, <4>2 DEF DoneInv
      <3> QED
        BY <3>1, <3>2
    <2> QED
      BY <2>1, <2>4, <2>5, Elsewhere DEF IntactInv
  <1> QED
    BY <1>3, <1>4

(* The lines that belong to the entity.                                    *)
LEMMA AttributeReply ==
  ASSUME SInv, HeldInv', Intact(answer'), Attribute
  PROVE  IntactInv'
  <1>1. /\ at = "attributes" /\ at' = at /\ element # 0 /\ key \notin StartKeys
        /\ ent' = WithAttribute(ent) /\ GetNextReturnElement
        /\ UNCHANGED <<client, call, command, data>>
    BY DEF Attribute, fixed, outcome, intent
  <1>2. /\ call.read \in {"entities", "entity"} /\ Current(call, digested, data, ent)
        /\ data \in Seq(Thing) /\ ent \in Thing
        /\ processing
    BY <1>1 DEF SInv, HeldInv, IntactInv, AttributesInv, ShapeInv, PlaceInv, CommandInv
  <1>3. PICK T : digested \in Seq(T)
    BY Held DEF SInv, IInv, HeldInv
  <1>4. answer = Append(digested, key) /\ element = Len(digested) + 1
    BY <1>1, Held DEF SInv, IInv, HeldInv
  <1>5. /\ element' \in {0, Len(answer')} /\ (processing' <=> element' # 0)
        /\ processing' => error' = error
        /\ ByTheHeaders => error' # "proto"
        /\ digested' = answer
    BY <1>1, <1>2, ReadsLine
  <1>6. ent.at \in Last(Starts(call, digested)) /\ Fits(call, digested, ent)
    BY <1>2 DEF Current
  <1>7. ent' \in Thing /\ ent'.at = ent.at /\ Fits(call, answer, ent')
    <2>1. ent' = Attributed(ent, key, element)
      BY <1>1 DEF WithAttribute, Attributed
    <2>2. call.read \in {"entities", "entity"} /\ ent \in Thing /\ key \notin StartKeys
      BY <1>1, <1>2
    <2>3. \A k, e : k \notin StartKeys /\ e = Attributed(ent, k, Len(digested) + 1) =>
            e \in Thing /\ e.at = ent.at /\ Fits(call, Append(digested, k), e)
      BY <1>3, <1>6, <2>2, AttributeTaken
    <2>4. ent' \in Thing /\ ent'.at = ent.at /\ Fits(call, Append(digested, key), ent')
      BY <1>4, <2>1, <2>2, <2>3
    <2> QED
      BY <1>4, <2>4
  <1>8. Current(call, answer, data, ent')
    <2>1. key \notin Begins(call)
      BY <1>1, <1>2 DEF Begins
    <2> QED
      BY <1>2, <1>3, <1>4, <1>7, <2>1, CurrentGrows
  <1>9. AttributesInv'
    BY <1>1, <1>5, <1>8 DEF AttributesInv
  <1>10. CommandInv'
    BY <1>1, <1>2, <1>5, <1>7, NoErrorSoFar, ReplyGoesOn DEF Reading
  <1> QED
    BY <1>1, <1>9, <1>10, Elsewhere DEF IntactInv

(* What is taken is what was there before the line that ended it.          *)
LEMMA TakenBeforeLine ==
  ASSUME SInv, HeldInv', Intact(answer'), element # 0 => key \in Begins(call), NEW list \in Seq(Thing),
         Represents(call, digested, list, Kept(call, digested, Starts(call, digested)))
  PROVE  Represents(call, answer, list, Kept(call, answer, Starts(call, digested)))
  <1>1. PICK T : digested \in Seq(T)
    BY Held DEF SInv, IInv, HeldInv
  <1>2. /\ element # 0 => answer = Append(digested, key)
        /\ element = 0 => digested = answer
    BY Held DEF SInv, IInv, HeldInv
  <1>3. CASE element # 0
    BY <1>1, <1>2, <1>3, KeptAtStart
  <1>4. CASE element = 0
    BY <1>2, <1>4
  <1> QED
    BY <1>3, <1>4

(* The entity goes into the list, is returned, or is freed.                *)
LEMMA TakeEntityReply ==
  ASSUME SInv, HeldInv', Intact(answer'), TakeEntity
  PROVE  IntactInv'
  <1>1. /\ at = "attributes"
        /\ UNCHANGED <<client, call, command, processing, error, code, element, answer>>
    BY DEF TakeEntity, fixed, outcome, intent
  <1>2. /\ call.read \in {"entities", "entity"} /\ Current(call, digested, data, ent)
        /\ data \in Seq(Thing) /\ ent \in Thing
        /\ processing <=> element # 0
    BY <1>1 DEF TakeEntity, SInv, HeldInv, IntactInv, AttributesInv, ShapeInv, PlaceInv, CommandInv
  <1>3. PICK T : digested \in Seq(T)
    BY Held DEF SInv, IInv, HeldInv
  <1>4. /\ element # 0 => answer = Append(digested, key) /\ element = Len(digested) + 1
        /\ element = 0 => digested = answer
    BY Held DEF SInv, IInv, HeldInv
  <1>5. element # 0 => key \in StartKeys /\ key \in Begins(call)
    BY <1>2 DEF TakeEntity, Begins
  <1>6. (ByTheHeaders => error' # "proto") /\ (processing' => error' = "none")
    BY <1>1 DEF SInv, HeldInv, IntactInv, CommandInv, PlaceInv, Reading
  <1>7. CASE call.read = "entity"
    <2>1. data' = <<ent>> /\ at' = "finish"
      BY <1>7 DEF TakeEntity
    <2>2. Represents(call, digested, data', First(Starts(call, digested)))
      BY <1>2, <1>7, <2>1, EntityTaken
    <2>3. Starts(call, digested) = {ent.at} /\ data = <<>>
      <3>1. /\ Starts(call, digested) = {ent.at}
            /\ Represents(call, digested, data, Kept(call, digested, Starts(call, digested) \ {ent.at}))
        BY <1>2, <1>7 DEF Current
      <3>2. Represents(call, digested, data, {})
        BY <3>1, NothingStarts
      <3> QED
        BY <1>2, <3>1, <3>2, PlacesOfList
    <2>4. data' \in Seq(Thing) /\ data' # <<>> /\ data'[1] = ent
      BY <1>2, <2>1
    <2>5. /\ Represents(call, answer, data', First(Starts(call, answer)))
          /\ element # 0 => \E i \in Starts(call, answer) : i > ent.at
      <3>1. CASE element = 0
        BY <1>4, <2>2, <3>1
      <3>2. CASE element # 0
        <4>1. First(Starts(call, digested)) = {ent.at}
          BY <1>2, <2>3 DEF First, Thing
        <4>2. First(Starts(call, answer)) = First(Starts(call, digested))
          <5>1. \A i \in First(Starts(call, digested)) :
                  First(Starts(call, Append(digested, key))) = First(Starts(call, digested))
            BY <1>3, FirstStays
          <5> QED
            BY <1>4, <3>2, <4>1, <5>1
        <4>3. Represents(call, answer, data', First(Starts(call, digested)))
          <5>1. First(Starts(call, digested)) \in SUBSET Starts(call, digested)
            BY DEF First
          <5>2. \A S \in SUBSET Starts(call, digested) :
                  Represents(call, digested, data', S) =>
                    Represents(call, Append(digested, key), data', S)
            BY <1>3, <1>5, <2>4, <3>2, ListAtStart
          <5> QED
            BY <1>4, <2>2, <3>2, <5>1, <5>2
        <4>4. element \in Starts(call, answer) /\ element > ent.at
          <5>1. Starts(call, answer) = Starts(call, digested) \cup {Len(digested) + 1}
                /\ Starts(call, digested) \subseteq 1..Len(digested)
            <6>1. /\ Starts(call, digested) \subseteq 1..Len(digested)
                  /\ Starts(call, Append(digested, key)) =
                       IF key \in Begins(call) THEN Starts(call, digested) \cup {Len(digested) + 1}
                       ELSE Starts(call, digested)
              BY <1>3, LongerStarts
            <6> QED
              BY <1>4, <1>5, <3>2, <6>1
          <5> QED
            BY <1>3, <1>4, <2>3, <3>2, <5>1
        <4> QED
          BY <4>2, <4>3, <4>4
      <3> QED
        BY <3>1, <3>2
    <2>6. DoneInv'
      BY <1>1, <1>2, <1>7, <2>1, <2>4, <2>5 DEF DoneInv, Taken
    <2>8. CommandInv'
      BY <1>1, <1>6, <2>1, <2>4, NoErrorSoFar, ReplyGoesOn DEF Reading
    <2> QED
      BY <2>1, <2>6, <2>8, Elsewhere DEF IntactInv
  <1>8. CASE call.read = "entities"
    <2>1. /\ at' = "next"
          /\ data' = IF ent.type \in call.keep THEN Append(data, ent) ELSE data
      BY <1>8 DEF TakeEntity
    <2>2. /\ data' \in Seq(Thing)
          /\ Represents(call, digested, data', Kept(call, digested, Starts(call, digested)))
      <3>1. data' = IF call.read = "entities" /\ ent.type \notin call.keep THEN data
                    ELSE Append(data, ent)
        BY <1>8, <2>1
      <3> QED
        BY <1>2, <1>3, <1>8, <3>1, CurrentTaken
    <2>3. Represents(call, answer, data', Kept(call, answer, Starts(call, digested)))
      BY <1>5, <2>2, TakenBeforeLine
    <2>4. digested' = digested /\ (element # 0 => key' = key)
      BY <1>1 DEF digested, key
    <2>5. NextInv'
      BY <1>1, <1>2, <1>5, <1>8, <2>1, <2>3, <2>4 DEF NextInv
    <2>8. CommandInv'
      BY <1>1, <1>6, <2>1, <2>2, NoErrorSoFar, ReplyGoesOn DEF Reading
    <2> QED
      BY <2>1, <2>5, <2>8, Elsewhere DEF IntactInv
  <1> QED
    BY <1>2, <1>7, <1>8

(* mpd_getNextReturnElementNamed passes over lines of another name.        *)
LEMMA NextStringReply ==
  ASSUME SInv, HeldInv', Intact(answer'), NextString
  PROVE  IntactInv'
  <1>1. /\ at \in {"next", "line"} /\ at' = "line" /\ GetNextReturnElement
        /\ UNCHANGED <<client, call, command, data, ent>>
    BY DEF NextString, fixed, outcome, intent, reading
  <1>2. PICK T : digested \in Seq(T)
    BY Held DEF SInv, IInv, HeldInv
  <1>3. /\ call.read \in {"strings", "string"} /\ processing
        /\ call.read = "string" => Starts(call, answer) = {}
        /\ Represents(call, answer, data, Starts(call, answer))
    <2>1. CASE at = "next"
      <3>1. call.read \in {"strings", "string"} /\ processing
        BY <2>1 DEF NextString
      <3>2. CASE call.read = "string"
        <4>1. answer = <<>> /\ element = 0
          <5>1. answer = <<>> /\ element \in {0, Len(answer)}
            BY <2>1, <3>2 DEF SInv, HeldInv, IntactInv, NextInv, PlaceInv, CommandInv
          <5> QED
            BY <5>1
        <4>2. Represents(call, answer, data, Kept(call, answer, Starts(call, answer)))
          BY <2>1, <3>2, <4>1 DEF SInv, HeldInv, IntactInv, NextInv, digested
        <4> QED
          BY <3>1, <3>2, <4>1, <4>2, NothingStarts
      <3>3. CASE call.read = "strings"
        <4>1. Represents(call, answer, data, Kept(call, answer, Starts(call, answer)))
          BY <2>1, <3>3 DEF SInv, HeldInv, IntactInv, NextInv
        <4>2. \A S : Kept(call, answer, S) = S
          BY <3>3 DEF Kept
        <4> QED
          BY <3>1, <3>3, <4>1, <4>2
      <3> QED
        BY <3>1, <3>2, <3>3
    <2>2. CASE at = "line"
      <3>1. element # 0 /\ key # call.key
        BY <2>2 DEF NextString
      <3>2. /\ call.read \in {"strings", "string"} /\ processing /\ data \in Seq(Thing)
            /\ call.read = "string" => Starts(call, digested) = {}
            /\ Represents(call, digested, data, Starts(call, digested))
        BY <2>2, <3>1 DEF SInv, HeldInv, IntactInv, StringInv, PlaceInv, CommandInv, ShapeInv
      <3>3. answer = Append(digested, key)
        BY <3>1, Held DEF SInv, IInv, HeldInv
      <3>4. Starts(call, answer) = Starts(call, digested)
            /\ Represents(call, answer, data, Starts(call, digested))
        BY <1>2, <3>1, <3>2, <3>3, StringPassed
      <3> QED
        BY <3>2, <3>4
    <2> QED
      BY <1>1, <2>1, <2>2
  <1>4. /\ element' \in {0, Len(answer')} /\ (processing' <=> element' # 0)
        /\ processing' => error' = error
        /\ ByTheHeaders => error' # "proto"
        /\ digested' = answer
    BY <1>1, <1>3, ReadsLine
  <1>5. StringInv'
    BY <1>1, <1>3, <1>4 DEF StringInv
  <1>7. CommandInv'
    <2>1. data' \in Seq(Thing)
      BY <1>1 DEF SInv, HeldInv, IntactInv, ShapeInv
    <2> QED
      BY <1>1, <1>3, <1>4, <2>1, NoErrorSoFar, ReplyGoesOn DEF Reading
  <1> QED
    BY <1>1, <1>5, <1>7, Elsewhere DEF IntactInv

LEMMA TakeStringReply ==
  ASSUME SInv, HeldInv', Intact(answer'), TakeString
  PROVE  IntactInv'
  <1>1. /\ at = "line"
        /\ UNCHANGED <<client, call, command, processing, error, code, element, ent, answer>>
    BY DEF TakeString, fixed, outcome, intent
  <1>2. /\ call.read \in {"strings", "string"} /\ data \in Seq(Thing)
        /\ call.read = "string" => Starts(call, digested) = {}
        /\ Represents(call, digested, data, Starts(call, digested))
        /\ processing <=> element # 0
    BY <1>1 DEF SInv, HeldInv, IntactInv, StringInv, ShapeInv, PlaceInv, CommandInv
  <1>3. (ByTheHeaders => error' # "proto") /\ (processing' => error' = "none")
    BY <1>1 DEF SInv, HeldInv, IntactInv, CommandInv, PlaceInv, Reading
  <1>4. \A S : Kept(call, answer, S) = S
    BY <1>2 DEF Kept
  <1>5. CASE element # 0
    <2>1. /\ key = call.key /\ data' = Append(data, AtPlace("string", element))
          /\ at' = IF call.read = "string" THEN "finish" ELSE "next"
      BY <1>5 DEF TakeString, Object
    <2>2. PICK T : digested \in Seq(T)
      BY Held DEF SInv, IInv, HeldInv
    <2>3. answer = Append(digested, call.key) /\ element = Len(digested) + 1
      BY <1>5, <2>1, Held DEF SInv, IInv, HeldInv
    <2>4. /\ AtPlace("string", element) \in Thing
          /\ Represents(call, answer, data', Starts(call, answer))
          /\ Starts(call, digested) = {} => First(Starts(call, answer)) = Starts(call, answer)
      BY <1>2, <2>1, <2>2, <2>3, StringTaken
    <2>5. data' \in Seq(Thing) /\ data' # <<>>
      BY <1>2, <2>1, <2>4
    <2>8. CommandInv'
      BY <1>1, <1>3, <2>1, <2>5, NoErrorSoFar, ReplyGoesOn DEF Reading
    <2>9. NextInv'
      BY <1>1, <1>2, <1>4, <1>5, <2>1, <2>4 DEF NextInv
    <2>10. DoneInv'
      BY <1>1, <1>2, <2>1, <2>4, <2>5 DEF DoneInv, Taken
    <2> QED
      BY <2>1, <2>8, <2>9, <2>10, Elsewhere DEF IntactInv
  <1>6. CASE element = 0
    <2>1. at' = "finish" /\ UNCHANGED <<data>>
      BY <1>6 DEF TakeString
    <2>2. digested = answer
      BY <1>6, Held DEF SInv, IInv, HeldInv
    <2>3. Represents(call, answer, data, Taken(call, answer))
      BY <1>2, <1>4, <2>2, NothingStarts DEF Taken
    <2>4. DoneInv'
      BY <1>1, <1>2, <1>6, <2>1, <2>3 DEF DoneInv
    <2>6. CommandInv'
      BY <1>1, <1>2, <1>3, <2>1, NoErrorSoFar, ReplyGoesOn DEF Reading
    <2> QED
      BY <2>1, <2>4, <2>6, Elsewhere DEF IntactInv
  <1> QED
    BY <1>5, <1>6

(* mpd_getNextOutput, and what it gives out.                               *)
LEMMA NextOutputReply ==
  ASSUME SInv, HeldInv', Intact(answer'), NextOutput
  PROVE  IntactInv'
  <1>1. /\ at = "next" /\ processing /\ call.read = "outputs" /\ error = "none"
        /\ UNCHANGED <<client, call, command, data>>
    BY NoErrorSoFar DEF NextOutput, fixed, outcome, intent, Reading
  <1>2. /\ ent' = AtPlace("output", 0) /\ at' = "output"
        /\ IF element # 0 THEN UNCHANGED <<processing, error, code, element, answer>>
           ELSE GetNextReturnElement
    BY <1>1 DEF NextOutput
  <1>3. /\ data \in Seq(Thing)
        /\ Represents(call, answer, data, Kept(call, answer, Starts(call, digested)))
    BY <1>1 DEF SInv, HeldInv, IntactInv, NextInv, ShapeInv
  <1>4. \A a, S : Kept(call, a, S) = S
    BY <1>1 DEF Kept
  <1>6. ent' \in Thing /\ ent'.at = 0
    <2>1. "output" \in Types /\ 0 \in Nat
      BY DEF Types
    <2>2. <<>> \in Seq(Nat)
      OBVIOUS
    <2> QED
      BY <1>2, <2>1, <2>2 DEF AtPlace, Thing
  <1>7. CASE element # 0
    <2>1. UNCHANGED <<processing, error, code, element, answer>>
      BY <1>2, <1>7
    <2>2. digested' = digested /\ key' = key
      BY <2>1 DEF digested, key
    <2>3. key = "outputid" /\ key \in Begins(call)
      BY <1>1, <1>7 DEF SInv, HeldInv, IntactInv, NextInv, Begins
    <2>4. answer = Append(digested, key) /\ \E T : digested \in Seq(T)
      BY <1>7, Held DEF SInv, IInv, HeldInv
    <2>5. Represents(call, digested, data, Starts(call, digested))
      BY <1>3, <1>4, <2>3, <2>4, KeptBeforeStart
    <2>6. OutputInv'
      BY <1>1, <1>2, <1>6, <1>7, <2>1, <2>2, <2>3, <2>5 DEF OutputInv
    <2>7. (ByTheHeaders => error' # "proto") /\ error' = "none" /\ (processing' <=> element' # 0)
      BY <1>1, <1>7, <2>1
    <2>8. CommandInv'
      BY <1>1, <1>2, <1>3, <1>6, <1>7, <2>1, <2>7, NoErrorSoFar, ReplyGoesOn DEF Reading
    <2> QED
      BY <1>2, <2>6, <2>8, Elsewhere DEF IntactInv
  <1>8. CASE element = 0
    <2>1. GetNextReturnElement
      BY <1>2, <1>8
    <2>2. answer = <<>> /\ digested = answer
      BY <1>1, <1>8, Held DEF SInv, IInv, HeldInv, IntactInv, NextInv
    <2>3. /\ element' \in {0, Len(answer')} /\ (processing' <=> element' # 0)
          /\ processing' => error' = error
          /\ ByTheHeaders => error' # "proto"
          /\ digested' = <<>>
      BY <1>1, <2>1, <2>2, ReadsLine
    <2>4. IF element' = 0 THEN answer' = <<>> ELSE key' = "outputid"
      <3>1. element' = 0 => answer' = <<>>
        BY <2>3 DEF digested
      <3>2. element' # 0 => key' \in FirstLines
        BY <1>1, <2>1, <2>2, LineIsHeld DEF SInv, IInv
      <3>3. FirstLines = {"outputid"}
        BY <1>1, FirstLinesBegin DEF SInv, HeldInv, IntactInv, CommandInv, Reading
      <3> QED
        BY <3>1, <3>2, <3>3
    <2>5. OutputInv'
      BY <1>1, <1>2, <1>3, <1>4, <1>6, <2>2, <2>3, <2>4 DEF OutputInv
    <2>6. CommandInv'
      BY <1>1, <1>2, <1>3, <1>6, <2>3, NoErrorSoFar, ReplyGoesOn DEF Reading
    <2> QED
      BY <1>2, <2>5, <2>6, Elsewhere DEF IntactInv
  <1> QED
    BY <1>7, <1>8

LEMMA OutputLineReply ==
  ASSUME SInv, HeldInv', Intact(answer'), OutputLine
  PROVE  IntactInv'
  <1>1. /\ at = "output" /\ element # 0 /\ GetNextReturnElement
        /\ key = "outputid" => ent.at = 0
        /\ ent' = IF key = "outputid" THEN [ent EXCEPT !.at = element]
                  ELSE IF key = "outputname" THEN [ent EXCEPT !.once = element] ELSE ent
        /\ at' = IF error' # "none" THEN "finish" ELSE "output"
        /\ UNCHANGED <<client, call, command, data>>
    BY DEF OutputLine, fixed, outcome, intent
  <1>2. /\ call.read = "outputs" /\ call.forgive = "none" /\ processing
        /\ data \in Seq(Thing) /\ ent \in Thing
    BY <1>1 DEF SInv, HeldInv, IntactInv, OutputInv, ShapeInv, FunctionOK, PlaceInv, CommandInv
  <1>3. PICK T : digested \in Seq(T)
    BY Held DEF SInv, IInv, HeldInv
  <1>4. answer = Append(digested, key) /\ element = Len(digested) + 1 /\ Len(digested) \in Nat
    BY <1>1, <1>3, Held DEF SInv, IInv, HeldInv
  <1>5. /\ element' \in {0, Len(answer')} /\ (processing' <=> element' # 0)
        /\ processing' => error' = error
        /\ ByTheHeaders => error' # "proto"
        /\ digested' = answer
    BY <1>1, <1>2, ReadsLine
  <1>6. ent' \in Thing /\ ent'.at # 0 /\ Current(call, answer, data, ent')
    <2>1. CASE ent.at = 0
      <3>1. /\ key = "outputid" /\ ent = AtPlace("output", 0)
            /\ Represents(call, digested, data, Starts(call, digested))
        BY <1>1, <2>1 DEF SInv, HeldInv, IntactInv, OutputInv
      <3>2. ent' = AtPlace("output", element)
        BY <1>1, <3>1 DEF AtPlace
      <3>3. key \in Begins(call)
        BY <1>2, <3>1 DEF Begins
      <3>4. TypeAt(call, answer, element) = "output"
            /\ Kept(call, digested, Starts(call, digested)) = Starts(call, digested)
        BY <1>2 DEF TypeAt, Kept
      <3>5. Current(call, answer, data, ent')
        BY <1>2, <1>3, <1>4, <3>1, <3>2, <3>3, <3>4, Begun
      <3>6. ent' \in Thing /\ ent'.at = element
        <4>1. element \in Nat /\ ent' = [ent EXCEPT !.at = element]
          BY <1>1, <1>4, <3>1
        <4> QED
          BY <1>2, <4>1 DEF Thing
      <3> QED
        BY <1>4, <3>5, <3>6
    <2>2. CASE ent.at # 0
      <3>1. key # "outputid" /\ Current(call, digested, data, ent)
        BY <1>1, <2>2 DEF SInv, HeldInv, IntactInv, OutputInv
      <3>2. ent.at \in Last(Starts(call, digested)) /\ Fits(call, digested, ent)
        BY <3>1 DEF Current
      <3>3. ent' \in Thing /\ ent'.at = ent.at /\ Fits(call, answer, ent')
        <4>1. ent' = Renamed(ent, key, element)
          BY <1>1, <3>1 DEF Renamed
        <4>2. call.read = "outputs" /\ ent \in Thing /\ key # "outputid"
          BY <1>2, <3>1
        <4>3. \A k, e : k # "outputid" /\ e = Renamed(ent, k, Len(digested) + 1) =>
                e \in Thing /\ e.at = ent.at /\ Fits(call, Append(digested, k), e)
          BY <1>3, <3>2, <4>2, OutputTaken
        <4>4. ent' \in Thing /\ ent'.at = ent.at /\ Fits(call, Append(digested, key), ent')
          BY <1>4, <4>1, <4>2, <4>3
        <4> QED
          BY <1>4, <4>4
      <3>4. key \notin Begins(call)
        BY <1>2, <3>1 DEF Begins
      <3>5. Current(call, answer, data, ent')
        BY <1>2, <1>3, <1>4, <3>1, <3>3, <3>4, CurrentGrows
      <3> QED
        BY <2>2, <3>3, <3>5
    <2> QED
      BY <2>1, <2>2
  <1>7. OutputInv'
    BY <1>1, <1>2, <1>5, <1>6 DEF OutputInv
  <1>8. DoneInv'
    <2>1. at' = "finish" => Excused'
      BY <1>1, <1>2 DEF Excused
    <2> QED
      BY <1>1, <2>1 DEF DoneInv
  <1>10. CommandInv'
    BY <1>1, <1>2, <1>5, <1>6, NoErrorSoFar, ReplyGoesOn DEF Reading
  <1> QED
    BY <1>1, <1>7, <1>8, <1>10, Elsewhere DEF IntactInv

LEMMA TakeOutputReply ==
  ASSUME SInv, HeldInv', Intact(answer'), TakeOutput
  PROVE  IntactInv'
  <1>1. /\ at = "output" /\ at' = "next" /\ data' = Append(data, ent)
        /\ element # 0 => key = "outputid" /\ ent.at # 0
        /\ UNCHANGED <<client, call, command, processing, error, code, element, answer>>
    BY DEF TakeOutput, fixed, outcome, intent
  <1>2. /\ call.read = "outputs" /\ data \in Seq(Thing) /\ ent \in Thing
        /\ processing <=> element # 0
    BY <1>1 DEF SInv, HeldInv, IntactInv, OutputInv, ShapeInv, PlaceInv, CommandInv
  <1>3. data' \in Seq(Thing)
    BY <1>1, <1>2, ObjectsOf
  <1>5. element # 0 => key \in Begins(call)
    BY <1>1, <1>2 DEF Begins
  <1>6. \/ Represents(call, answer, data', Kept(call, answer, Starts(call, digested)))
        \/ answer = <<>> /\ ~processing
    <2>1. CASE ent.at = 0
      BY <1>1, <1>2, <2>1 DEF SInv, HeldInv, IntactInv, OutputInv
    <2>2. CASE ent.at # 0
      <3>1. Current(call, digested, data, ent)
        BY <1>1, <2>2 DEF SInv, HeldInv, IntactInv, OutputInv
      <3>2. PICK T : digested \in Seq(T)
        BY Held DEF SInv, IInv, HeldInv
      <3>3. Represents(call, digested, data', Kept(call, digested, Starts(call, digested)))
        BY <1>1, <1>2, <3>1, <3>2, CurrentTaken
      <3> QED
        BY <1>3, <1>5, <3>3, TakenBeforeLine
    <2> QED
      BY <2>1, <2>2
  <1>7. NextInv'
    <2>1. digested' = digested /\ (element # 0 => key' = key)
      BY <1>1 DEF digested, key
    <2> QED
      BY <1>1, <1>2, <1>5, <1>6, <2>1 DEF NextInv
  <1>8. CommandInv'
    <2>1. (ByTheHeaders => error' # "proto") /\ (processing' => error' = "none")
      BY <1>1 DEF SInv, HeldInv, IntactInv, CommandInv, PlaceInv, Reading
    <2> QED
      BY <1>1, <1>3, <2>1, NoErrorSoFar, ReplyGoesOn DEF Reading
  <1> QED
    BY <1>1, <1>7, <1>8, Elsewhere DEF IntactInv

(* mpd_getSearchStats: all of the reply or nothing.                        *)
LEMMA NextStatsReply ==
  ASSUME SInv, HeldInv', Intact(answer'), NextStats
  PROVE  IntactInv'
  <1>1. /\ at \in {"next", "stats"} /\ at' = IF error' # "none" THEN "unlock" ELSE "stats"
        /\ GetNextReturnElement
        /\ UNCHANGED <<client, call, command, data, ent>>
    BY DEF NextStats, fixed, outcome, intent, reading
  <1>2. call.read = "stats" /\ call.forgive = "none" /\ processing
    <2>1. call.read = "stats" /\ processing
      BY DEF NextStats, SInv, IInv, QueryInv, EngineInv
    <2> QED
      BY <2>1 DEF SInv, HeldInv, IntactInv, ShapeInv, FunctionOK
  <1>3. data = <<>>
    <2>1. CASE at = "next"
      <3>1. answer = <<>> /\ element \in {0, Len(answer)} /\ data \in Seq(Thing)
        BY <1>2, <2>1 DEF SInv, HeldInv, IntactInv, NextInv, PlaceInv, CommandInv, ShapeInv
      <3>2. digested = answer
        BY <3>1 DEF digested
      <3>3. Represents(call, answer, data, Kept(call, answer, Starts(call, answer)))
        BY <1>2, <2>1, <3>2 DEF SInv, HeldInv, IntactInv, NextInv
      <3>4. Represents(call, answer, data, {})
        BY <3>1, <3>3, NothingStarts
      <3> QED
        BY <3>1, <3>4, PlacesOfList
    <2>2. CASE at = "stats"
      BY <2>2 DEF SInv, HeldInv, IntactInv, DoneInv
    <2> QED
      BY <1>1, <2>1, <2>2
  <1>4. /\ element' \in {0, Len(answer')} /\ (processing' <=> element' # 0)
        /\ processing' => error' = error
        /\ ByTheHeaders => error' # "proto"
    BY <1>1, <1>2, ReadsLine
  <1>5. DoneInv'
    <2>1. at' = "unlock" => Excused'
      BY <1>1, <1>2 DEF Excused
    <2> QED
      BY <1>1, <1>3, <2>1 DEF DoneInv
  <1>7. CommandInv'
    <2>1. data' \in Seq(Thing)
      BY <1>1 DEF SInv, HeldInv, IntactInv, ShapeInv
    <2> QED
      BY <1>1, <1>2, <1>4, <2>1, NoErrorSoFar, ReplyGoesOn DEF Reading
  <1> QED
    BY <1>1, <1>5, <1>7, Elsewhere DEF IntactInv

LEMMA TakeStatsReply ==
  ASSUME SInv, HeldInv', Intact(answer'), TakeStats
  PROVE  IntactInv'
  <1> DEFINE e == AtPlace("stats", 0)
  <1>1. /\ at = "stats" /\ at' = "unlock" /\ element = 0 /\ data' = <<e>>
        /\ UNCHANGED <<client, call, command, processing, error, code, element, answer>>
    BY DEF TakeStats, Object, fixed, outcome, intent
  <1>2. call.read = "stats" /\ ~processing
    BY <1>1 DEF SInv, IInv, QueryInv, EngineInv, IntactInv, CommandInv
  <1>3. e \in Thing /\ e.at = 0 /\ e.type = "stats" /\ e.joined = <<>> /\ e.once = 0
    <2>1. "stats" \in Types /\ 0 \in Nat
      BY DEF Types
    <2>2. <<>> \in Seq(Nat)
      OBVIOUS
    <2> QED
      BY <2>1, <2>2 DEF AtPlace, Thing
  <1> HIDE DEF e
  <1>4. Fits(call, answer, e)
    <2>1. TypeAt(call, answer, 0) = "stats"
      BY <1>2 DEF TypeAt
    <2>2. Under(call, answer, 0, {}) = {} /\ Joined("stats") = {} /\ Single("stats") = {}
      BY DEF Under, LinesOf, Joined, Single
    <2>3. InOrder(<<>>, {})
      BY DEF InOrder
    <2> QED
      BY <1>3, <2>1, <2>2, <2>3 DEF Fits, FirstIs
  <1>5. data' \in Seq(Thing)
    BY <1>1, <1>3, ObjectsOf
  <1>6. Represents(call, answer, data', Taken(call, answer))
    <2>1. Represents(call, answer, <<e>>, {e.at})
      BY <1>3, <1>4, ListOfOne
    <2> QED
      BY <1>1, <1>2, <1>3, <2>1 DEF Taken
  <1>7. DoneInv'
    BY <1>1, <1>6 DEF DoneInv
  <1>8. CommandInv'
    <2>1. (ByTheHeaders => error' # "proto") /\ (processing' => error' = "none")
      BY <1>1 DEF SInv, HeldInv, IntactInv, CommandInv, PlaceInv, Reading
    <2> QED
      BY <1>1, <1>5, <2>1, NoErrorSoFar, ReplyGoesOn DEF Reading
  <1> QED
    BY <1>1, <1>7, <1>8, Elsewhere DEF IntactInv

(* mpd_finishCommand reads on, and changes nothing that was taken.         *)
LEMMA FinishReply ==
  ASSUME SInv, HeldInv', Intact(answer'), Finish
  PROVE  IntactInv'
  <1>1. /\ at = "finish" /\ UNCHANGED <<client, call, command, data, ent>>
        /\ data \in Seq(Thing)
    BY DEF Finish, outcome, intent, reading, SInv, HeldInv, IntactInv, ShapeInv
  <1>2. CASE processing
    <2>1. at' = "finish" /\ GetNextReturnElement
      BY <1>1, <1>2 DEF Finish
    <2>2. /\ element' \in {0, Len(answer')} /\ (ByTheHeaders => error' # "proto")
      BY <1>2, <2>1, ReadsLine
    <2>3. ASSUME ~Excused'
          PROVE  /\ call.read \in {"nothing", "string", "entity"}
                 /\ call.read # "nothing" => data # <<>>
                 /\ call.read = "entity" => \E i \in Starts(call, answer') : i > data[1].at
                 /\ Represents(call, answer', data, Taken(call, answer'))
      <3>1. \/ answer' = answer /\ error' \in {error, "ack", "lost"}
            \/ error' = error /\ \E name : answer' = Append(answer, name)
        BY <1>2, <2>1, LineOrEnd DEF SInv, IInv
      <3>2. ~Excused
        BY <1>1, <2>3, <3>1 DEF Excused
      <3>3. /\ call.read \in {"nothing", "string", "entity"}
            /\ call.read # "nothing" => data # <<>>
            /\ call.read = "entity" => \E i \in Starts(call, answer) : i > data[1].at
            /\ Represents(call, answer, data, Taken(call, answer))
        BY <1>1, <1>2, <3>2 DEF SInv, HeldInv, IntactInv, DoneInv
      <3>4. PICK T : answer \in Seq(T)
        BY DEF SInv, IInv, Lines
      <3>5. CASE answer' = answer
        BY <3>3, <3>5
      <3>6. CASE \E name : answer' = Append(answer, name)
        <4>1. PICK name : answer' = Append(answer, name)
          BY <3>6
        <4> QED
          BY <1>1, <3>3, <3>4, <4>1, TakenStays
      <3> QED
        BY <3>1, <3>5, <3>6
    <2>4. DoneInv'
      BY <1>1, <2>1, <2>3 DEF DoneInv
    <2>6. CommandInv'
      BY <1>1, <2>1, <2>2, NoErrorSoFar, ReplyGoesOn DEF Reading
    <2> QED
      BY <2>1, <2>4, <2>6, Elsewhere DEF IntactInv
  <1>3. CASE ~processing
    <2>1. at' = "unlock" /\ UNCHANGED <<processing, error, code, element, answer>>
      BY <1>3 DEF Finish
    <2>2. DoneInv'
      BY <1>1, <2>1 DEF SInv, HeldInv, IntactInv, DoneInv, Excused
    <2>4. CommandInv'
      <3>1. (ByTheHeaders => error' # "proto") /\ ~processing'
        BY <1>3, <2>1 DEF SInv, IntactInv, CommandInv
      <3> QED
        BY <1>1, <2>1, <3>1, NoErrorSoFar, ReplyGoesOn DEF Reading
    <2> QED
      BY <2>1, <2>2, <2>4, Elsewhere DEF IntactInv
  <1> QED
    BY <1>2, <1>3

-----------------------------------------------------------------------------
(* Between two calls, and where nothing is read. *)

LEMMA NothingIsReadReply ==
  ASSUME at' \in {"idle", "after", "callback"}, error' = "none"
  PROVE  IntactInv'
  <1>1. CommandInv'
    BY DEF CommandInv, Reading
  <1> QED
    BY <1>1, Elsewhere DEF IntactInv

(* A call that begins in an engine that is busy has what was cut short in  *)
(* front of it.                                                            *)
LEMMA BeginsReady ==
  ASSUME RInv, at \in {"idle", "check"}, answer' = IF processing THEN answer ELSE <<>>,
         Intact(answer')
  PROVE  ~processing /\ error = "none" /\ element = 0 /\ answer' = <<>>
  <1>1. error = "none" /\ element = 0 /\ (processing => CutShort)
    BY DEF RInv, IInv, QueryInv, EngineInv
  <1>2. ~processing
    BY <1>1 DEF CutShort, Intact, Malformed
  <1> QED
    BY <1>1, <1>2

-----------------------------------------------------------------------------
(* The calls. *)

(* A function whose command was sent has read nothing yet.                 *)
LEMMA NothingYet ==
  ASSUME at' = Reads(call'), answer' = <<>>, data' = <<>>, element' = 0,
         ByTheHeaders' => error' # "proto", processing' => error' = "none",
         call'.read = "stats" => processing' \/ error' # "none",
         call'.read = "outputs" => command'.name = "outputs",
         call'.read \in {"entities", "entity"} /\ (call'.forgive # "none" \/ ByTheHeaders') =>
           command'.name \in OfEntities
  PROVE  IntactInv'
  <1>1. digested' = <<>>
    BY DEF digested
  <1>2. at' \in {"next", "finish"} /\ (at' = "finish" <=> call'.read = "nothing")
    BY DEF Reads
  <1>3. CommandInv'
    BY <1>2 DEF CommandInv, Reading
  <1>4. Represents(call', <<>>, <<>>, {})
        /\ Kept(call', <<>>, Starts(call', <<>>)) = {}
    BY EmptyList, NothingStarts
  <1>5. NextInv'
    BY <1>1, <1>2, <1>4 DEF NextInv
  <1>6. DoneInv'
    <2>1. at' = "finish" => Taken(call', answer') = {}
      BY <1>2, <1>4 DEF Taken
    <2> QED
      BY <1>2, <1>4, <2>1 DEF DoneInv
  <1> QED
    BY <1>2, <1>3, <1>5, <1>6, Elsewhere DEF IntactInv

LEMMA QueryReply ==
  ASSUME RInv, Intact(answer'), NEW f \in Queried, Query(f)
  PROVE  IntactInv'
  <1>1. /\ at = "idle" /\ call' = f /\ data' = <<>> /\ UNCHANGED element
        /\ answer' = IF processing THEN answer ELSE <<>>
    BY DEF Query, Begin
  <1>2. ~processing /\ error = "none" /\ element = 0 /\ answer' = <<>>
    BY <1>1, BeginsReady
  <1>3. /\ f.read # "stats"
        /\ f.read \in {"entities", "entity"} => f.cmd \in OfEntities
        /\ f.read = "outputs" => f.cmd = "outputs"
    BY QueriesAreFunctions DEF FunctionOK
  <1>4. CASE f.before = "status"
    <2>1. at' = "check" /\ error' = "none"
      BY <1>2, <1>4 DEF Query
    <2>2. CommandInv'
      BY <1>1, <1>2, <1>3, <2>1 DEF CommandInv, Reading
    <2> QED
      BY <2>1, <2>2, Elsewhere DEF IntactInv
  <1>5. CASE f.before # "status"
    <2>1. at' = Reads(f) /\ ExecuteCommand(CommandFor(f))
      BY <1>5 DEF Query
    <2>2. error' # "proto" /\ (processing' => error' = "none") /\ command' = CommandFor(f)
      BY <1>2, <2>1 DEF ExecuteCommand
    <2>3. command'.name = f.cmd
      BY <2>2 DEF CommandFor, Command
    <2> QED
      BY <1>1, <1>2, <1>3, <2>1, <2>2, <2>3, NothingYet
  <1> QED
    BY <1>4, <1>5

(* The update may have read a line without a colon, or the status is known. *)
LEMMA CheckReply ==
  ASSUME SInv, Check, QueryInv', Intact(answer')
  PROVE  IntactInv'
  <1>1. /\ at = "check" /\ UNCHANGED <<client, call, data>>
        /\ error = "none" /\ element = 0 /\ (processing => CutShort)
    BY DEF Check, reading, SInv, IInv, QueryInv, EngineInv
  <1>2. answer = <<>> /\ data = <<>> /\ call.read # "stats"
    BY <1>1 DEF SInv, IInv, QueryInv, EngineInv, HeldInv, PlaceInv, IntactInv, CommandInv
  <1>3. ~processing
    BY <1>1, <1>2 DEF CutShort
  <1>4. CASE at' = "idle"
    BY <1>4, NothingIsReadReply DEF QueryInv, EngineInv
  <1>5. CASE StatusCutShort
    <2>1. 1 \in DOMAIN <<"bare">> /\ <<"bare">>[1] = "bare"
      OBVIOUS
    <2> QED
      BY <1>5, <2>1 DEF StatusCutShort, Intact, Malformed
  <1>6. CASE /\ at' = Reads(call) /\ ExecuteCommand(CommandFor(call))
             /\ UNCHANGED <<element, answer>>
    <2>1. error' # "proto" /\ (processing' => error' = "none") /\ command' = CommandFor(call)
      BY <1>3, <1>6 DEF ExecuteCommand
    <2>2. command'.name = call.cmd /\ (ByTheHeaders' <=> ByTheHeaders)
      BY <1>1, <2>1 DEF CommandFor, Command, ByTheHeaders
    <2>3. /\ call.read = "outputs" => call.cmd = "outputs"
          /\ call.read \in {"entities", "entity"} /\ (call.forgive # "none" \/ ByTheHeaders) =>
               call.cmd \in OfEntities
      BY <1>1 DEF SInv, IntactInv, CommandInv
    <2>4. answer' = <<>> /\ data' = <<>> /\ element' = 0 /\ call' = call
      BY <1>1, <1>2, <1>6
    <2> QED
      BY <1>2, <1>6, <2>1, <2>2, <2>3, <2>4, NothingYet
  <1> QED
    BY <1>4, <1>5, <1>6 DEF Check

(* A start or a constraint leaves nothing but perhaps an error.            *)
LEMMA BuildingReply ==
  ASSUME call' = Building, answer' = <<>>, data' = <<>>, at' = "unlock",
         ByTheHeaders' => error' # "proto"
  PROVE  IntactInv'
  <1>1. call'.read = "nothing"
    BY SearchesAreFunctions
  <1>2. Taken(call', answer') = {}
    BY <1>1 DEF Taken, Kept, Starts, LinesOf, Begins
  <1>3. CommandInv'
    BY DEF CommandInv, Reading
  <1>4. DoneInv'
    BY <1>2, EmptyList DEF DoneInv
  <1> QED
    BY <1>3, <1>4, Elsewhere DEF IntactInv

(* By the headers no search is started or constrained in vain.             *)
LEMMA BuildsReply ==
  ASSUME RInv, QueryInv', Intact(answer'),
         (\E s \in Searches : Start(s)) \/ (\E c \in Constraints \cup {None} : AddConstraint(c))
  PROVE  IntactInv'
  <1>1. /\ at = "idle" /\ call' = Building /\ data' = <<>> /\ client' = client
        /\ answer' = (IF processing THEN answer ELSE <<>>) /\ at' \in {"idle", "unlock"}
    BY DEF Start, AddConstraint, Begin
  <1>2. answer' = <<>> /\ error = "none"
    BY <1>1, BeginsReady
  <1>3. CASE at' = "idle"
    BY <1>3, NothingIsReadReply DEF QueryInv, EngineInv
  <1>4. CASE at' = "unlock"
    <2>1. ASSUME ByTheHeaders'
          PROVE  error' # "proto"
      <3>1. client \in {"reader", "documented"} /\ request = wanted
        BY <1>1, <2>1 DEF ByTheHeaders, RInv, IInv, QueryInv, SearchInv
      <3>2. CASE \E s \in Searches : Start(s)
        BY <1>2, <3>1, <3>2 DEF Start, MayStart, StartRequest
      <3>3. CASE \E c \in Constraints \cup {None} : AddConstraint(c)
        BY <1>2, <3>1, <3>3 DEF AddConstraint
      <3> QED
        BY <3>2, <3>3
    <2> QED
      BY <1>1, <1>2, <1>4, <2>1, BuildingReply
  <1> QED
    BY <1>1, <1>3, <1>4

(* A commit by a client that goes by the headers has a request to send,    *)
(* of the kind its function reads.                                         *)
LEMMA CommitReply ==
  ASSUME RInv, Intact(answer'),
         NEW f, NEW type \in SearchTypes \cup {"list"}, Commit(f, type),
         f.forgive = "none", f.read \in {"entities", "strings", "stats"},
         f.read = "entities" => type \in {"find", "search", "playlistfind", "playlistsearch"}
  PROVE  IntactInv'
  <1>1. /\ at = "idle" /\ call' = f /\ data' = <<>> /\ at' = "next"
        /\ UNCHANGED <<client, element>> /\ answer' = IF processing THEN answer ELSE <<>>
    BY DEF Commit, Begin
  <1>2. ~processing /\ error = "none" /\ element = 0 /\ answer' = <<>>
    BY <1>1, BeginsReady
  <1>3. /\ processing' \/ error' # "none"
        /\ processing' => error' = "none"
        /\ request # None => error' # "proto" /\ command' = CommandIn(request, f)
    BY <1>2 DEF Commit, CommitRequest, ExecuteCommand
  <1>4. ASSUME ByTheHeaders'
        PROVE  request # None /\ request.command = CommandOf(type)
    <2>1. wanted # None /\ search.type = type /\ client # "finder"
      BY <1>1, <1>4 DEF Commit, MayCommit, ByTheHeaders
    <2>2. request = wanted /\ Agreed
      BY <1>1, <2>1 DEF RInv, IInv, QueryInv, SearchInv, Reading
    <2> QED
      BY <2>1, <2>2 DEF Agreed
  <1>5. ByTheHeaders' /\ f.read = "entities" => command'.name \in OfEntities
    <2>1. ASSUME ByTheHeaders', f.read = "entities"
          PROVE  command'.name \in OfEntities
      <3>1. command'.name = CommandOf(type)
        BY <1>3, <1>4, <2>1 DEF CommandIn, Command
      <3> QED
        BY <2>1, <3>1 DEF CommandOf, OfEntities, Songs
    <2> QED
      BY <2>1
  <1> QED
    BY <1>1, <1>2, <1>3, <1>4, <1>5, NothingYet DEF Reads

LEMMA CommitsReply ==
  ASSUME RInv, Intact(answer'), SearchCommit \/ PlaylistSearchCommit \/ StatsCommit
  PROVE  IntactInv'
  <1> DEFINE songs == [ListOf("request", {"song"}) EXCEPT !.failed = "freed"]
             stats == [Section("request") EXCEPT !.read = "stats", !.failed = "freed"]
             strings == [Strings("request", search.field) EXCEPT !.failed = "freed"]
  <1>1. songs.read = "entities" /\ songs.forgive = "none"
    BY SearchesAreFunctions DEF ListOf, Section
  <1>2. stats.read = "stats" /\ stats.forgive = "none"
    BY SearchesAreFunctions DEF Section
  <1>3. strings.read = "strings" /\ strings.forgive = "none"
    BY SearchesAreFunctions DEF Strings, Section
  <1>4. CASE SearchCommit
    <2>1. CASE search.type = "list"
      <3>1. Commit(strings, "list")
        BY <1>4, <2>1 DEF SearchCommit
      <3> HIDE DEF strings
      <3> QED
        BY <1>3, <3>1, CommitReply
    <2>2. CASE search.type # "list"
      <3>1. PICK t \in {"find", "search"} : Commit(songs, t)
        BY <1>4, <2>2 DEF SearchCommit
      <3> HIDE DEF songs
      <3> QED
        BY <1>1, <3>1, CommitReply DEF SearchTypes
    <2> QED
      BY <2>1, <2>2
  <1>5. CASE PlaylistSearchCommit
    <2>1. PICK t \in {"playlistfind", "playlistsearch"} : Commit(songs, t)
      BY <1>5 DEF PlaylistSearchCommit
    <2> HIDE DEF songs
    <2> QED
      BY <1>1, <2>1, CommitReply DEF SearchTypes
  <1>6. CASE StatsCommit
    <2>1. Commit(stats, "stats")
      BY <1>6 DEF StatsCommit
    <2> HIDE DEF stats
    <2> QED
      BY <1>2, <2>1, CommitReply DEF SearchTypes
  <1> QED
    BY <1>4, <1>5, <1>6

LEMMA FindReply ==
  ASSUME RInv, Intact(answer'), NEW exact \in BOOLEAN, NEW c \in Constraints, DatabaseFind(exact, c)
  PROVE  IntactInv'
  <1> DEFINE f == Find(exact)
             own == RequestFor([type |-> f.cmd, field |-> None])
  <1>1. f.read = "entities" /\ f.cmd \in {"find", "search"} /\ f.forgive = "none"
    BY SearchesAreFunctions
  <1>2. /\ at = "idle" /\ call' = f /\ data' = <<>> /\ UNCHANGED <<client, element>> /\ at' = "next"
        /\ answer' = IF processing THEN answer ELSE <<>>
        /\ ExecuteCommand(CommandIn(Constrained(IF request = None THEN own ELSE request, c), f))
    BY DEF DatabaseFind, Begin
  <1>3. ~processing /\ error = "none" /\ element = 0 /\ answer' = <<>>
    BY <1>2, BeginsReady
  <1>4. error' # "proto" /\ (processing' => error' = "none")
        /\ command' = CommandIn(Constrained(IF request = None THEN own ELSE request, c), f)
    BY <1>2, <1>3 DEF ExecuteCommand
  <1>5. ASSUME ByTheHeaders'
        PROVE  command'.name \in OfEntities
    <2>1. request = None
      BY <1>2, <1>5 DEF DatabaseFind, ByTheHeaders, RInv, IInv, QueryInv, SearchInv
    <2>2. [type |-> f.cmd, field |-> None] \in Searches
      BY <1>1 DEF Searches, SearchTypes
    <2>3. own \in Requests /\ own.command = f.cmd
      BY <1>1, <2>2, RequestsAre DEF CommandOf
    <2> HIDE DEF own
    <2>4. Constrained(own, c).command = f.cmd
      BY <2>3, RequestsAre
    <2>5. command'.name = Constrained(own, c).command
      BY <1>4, <2>1 DEF CommandIn, Command
    <2> QED
      BY <1>1, <2>4, <2>5 DEF OfEntities, Songs
  <1> HIDE DEF f, own
  <1> QED
    BY <1>1, <1>2, <1>3, <1>4, <1>5, NothingYet DEF Reads

(* A call begins in a reply that is empty, or in one that was cut short.   *)
LEMMA CallsReply ==
  ASSUME RInv, QueryInv', Intact(answer'),
         \/ (\E f \in Queried : Query(f)) \/ (\E s \in Searches : Start(s))
         \/ (\E c \in Constraints \cup {None} : AddConstraint(c))
         \/ SearchCommit \/ PlaylistSearchCommit \/ StatsCommit
         \/ (\E c \in Constraints, exact \in BOOLEAN : DatabaseFind(exact, c))
  PROVE  IntactInv'
  BY QueryReply, BuildsReply, CommitsReply, FindReply

(* What a function returned is none of its business any more.              *)
LEMMA ReturnsReply ==
  ASSUME QueryInv',
         \/ Unlock \/ CallbackReturns \/ Update \/ Connect \/ Disconnect
         \/ (\E s \in Searches : CallbackStarts(s))
  PROVE  IntactInv'
  <1>1. at' \in {"idle", "after", "callback"}
    BY DEF Unlock, CallbackReturns, CallbackStarts, Update, Connect, Disconnect, Return
  <1> QED
    BY <1>1, NothingIsReadReply DEF QueryInv, EngineInv

-----------------------------------------------------------------------------
(* Types, and that what is held has a place in the reply. *)

(* A search that is being built is of a known kind.                        *)
Known(r) == r = None \/ \E s \in Searches : r.command = CommandOf(s.type)

(* Reading: the reply only gets longer.                                    *)
LEMMA ReadTypes ==
  ASSUME RInv, UNCHANGED <<client, connected, version, request, told>>,
         search' \in {search, NoSearch}, at' \in Reading \cup {"unlock"},
         \/ GetNextReturnElement
         \/ UNCHANGED <<processing, code, element, answer>> /\ error' \in Errors,
         alive' \subseteq 0..Len(answer), Objects(data') \subseteq 0..Len(answer)
  PROVE  TypeOK'
  <1>1. PICK T : answer \in Seq(T)
    BY DEF RInv, IInv, Lines
  <1>2. /\ processing' \in BOOLEAN /\ error' \in Errors /\ code' \in Codes
        /\ element' \in 0..Len(answer') /\ 0..Len(answer) \subseteq 0..Len(answer')
    <2>1. CASE UNCHANGED <<processing, code, element, answer>> /\ error' \in Errors
      BY <2>1 DEF RInv, TypeOK
    <2>2. CASE GetNextReturnElement
      <3>1. /\ processing \in BOOLEAN /\ error \in Errors /\ code \in Codes
            /\ {"ack", "lost", "proto"} \subseteq Errors
        BY DEF RInv, TypeOK, Errors
      <3>2. processing' \in BOOLEAN /\ error' \in Errors /\ code' \in Codes
        BY <2>2, <3>1 DEF GetNextReturnElement
      <3>3. /\ element' \in {0, Len(answer')} /\ Len(answer) \in Nat
            /\ answer' = answer \/ \E line : answer' = Append(answer, line)
        BY <2>2, LineKept DEF RInv, IInv
      <3>4. Len(answer') \in Nat /\ Len(answer) <= Len(answer')
        BY <1>1, <3>3, Longer
      <3> QED
        BY <3>2, <3>3, <3>4
    <2> QED
      BY <2>1, <2>2
  <1>3. alive' \subseteq 0..Len(answer') /\ Objects(data') \subseteq 0..Len(answer')
    BY <1>2
  <1> QED
    BY <1>2, <1>3 DEF RInv, TypeOK, Reading

LEMMA ReadingTypes ==
  ASSUME RInv,
         \/ NothingLeft \/ NextEntity \/ BeginEntity \/ Attribute \/ NextString \/ NextOutput
         \/ OutputLine \/ NextStats \/ TakeStats \/ Finish
  PROVE  TypeOK'
  <1>1. /\ alive \subseteq 0..Len(answer) /\ Objects(data) \subseteq 0..Len(answer)
        /\ element \in 0..Len(answer) /\ error \in Errors
    BY DEF RInv, TypeOK
  <1>2. CASE NothingLeft
    BY <1>1, <1>2, ReadTypes DEF NothingLeft, fixed, session, outcome, reading, Reading
  <1>3. CASE NextEntity
    BY <1>1, <1>3, ReadTypes DEF NextEntity, fixed, session, outcome, reading, Reading
  <1>4. CASE BeginEntity
    <2>1. alive' \subseteq 0..Len(answer)
      BY <1>1, <1>4 DEF BeginEntity
    <2> QED
      BY <1>1, <1>4, <2>1, ReadTypes DEF BeginEntity, fixed, session, outcome, Reading, Errors
  <1>5. CASE Attribute
    BY <1>1, <1>5, ReadTypes DEF Attribute, fixed, session, outcome, Reading
  <1>6. CASE NextString
    BY <1>1, <1>6, ReadTypes DEF NextString, fixed, session, outcome, reading, Reading
  <1>7. CASE NextOutput
    BY <1>1, <1>7, ReadTypes DEF NextOutput, fixed, session, outcome, Reading
  <1>8. CASE OutputLine
    BY <1>1, <1>8, ReadTypes DEF OutputLine, fixed, session, outcome, Reading
  <1>9. CASE NextStats
    BY <1>1, <1>9, ReadTypes DEF NextStats, fixed, session, outcome, reading, Reading
  <1>10. CASE TakeStats
    <2>1. Objects(data') = {0} /\ alive' = {0}
      BY <1>10, ObjectsOf DEF TakeStats, Object, AtPlace
    <2>2. 0 \in 0..Len(answer)
      BY <1>1, <1>10 DEF TakeStats
    <2> QED
      BY <1>1, <1>10, <2>1, <2>2, ReadTypes DEF TakeStats, fixed, session, outcome, Reading
  <1>11. CASE Finish
    BY <1>1, <1>11, ReadTypes DEF Finish, outcome, reading, Reading
  <1> QED
    BY <1>2, <1>3, <1>4, <1>5, <1>6, <1>7, <1>8, <1>9, <1>10, <1>11

LEMMA TakingTypes ==
  ASSUME RInv, TakeEntity \/ TakeString \/ TakeOutput
  PROVE  TypeOK'
  <1>1. /\ alive \subseteq 0..Len(answer) /\ Objects(data) \subseteq 0..Len(answer)
        /\ element \in 0..Len(answer) /\ error \in Errors /\ data \in Seq(Thing)
    BY DEF RInv, TypeOK, ReplyInv, HeldInv, ShapeInv
  <1>2. CASE TakeEntity
    <2>1. ent.at \in alive
      BY <1>2 DEF TakeEntity, RInv, ReplyInv, HeldInv, HeapInv
    <2>2. data' \in {data, <<ent>>, Append(data, ent)} /\ alive' \subseteq alive
      BY <1>2 DEF TakeEntity
    <2>3. Objects(data') \subseteq Objects(data) \cup {ent.at}
      BY <1>1, <2>2, ObjectsOf
    <2>4. at' \in Reading
      BY <1>2 DEF TakeEntity, Reading
    <2> QED
      BY <1>1, <1>2, <2>1, <2>2, <2>3, <2>4, ReadTypes DEF TakeEntity, fixed, session, outcome
  <1>3. CASE TakeString
    <2>1. Objects(data') \subseteq Objects(data) \cup {element}
          /\ alive' \subseteq alive \cup {element}
      <3>1. \A n : AtPlace("string", n).at = n
        BY DEF AtPlace
      <3> QED
        BY <1>1, <1>3, <3>1, ObjectsOf DEF TakeString, Object
    <2>2. at' \in Reading
      BY <1>3 DEF TakeString, Reading
    <2> QED
      BY <1>1, <1>3, <2>1, <2>2, ReadTypes DEF TakeString, fixed, session, outcome
  <1>4. CASE TakeOutput
    <2>1. ent.at \in 0..Len(answer)
      <3>1. ent.at \in Nat /\ ent.at <= Len(digested)
        BY <1>4 DEF TakeOutput, RInv, ReplyInv, HeldInv, ShapeInv, HeapInv, Thing
      <3>2. PICK T : digested \in Seq(T)
        BY Held DEF RInv, IInv, ReplyInv, HeldInv
      <3>3. Len(digested) \in Nat /\ Len(answer) \in {Len(digested), Len(digested) + 1}
        <4>1. element # 0 => answer = Append(digested, key)
          BY Held DEF RInv, IInv, ReplyInv, HeldInv
        <4>2. element = 0 => digested = answer
          BY Held DEF RInv, IInv, ReplyInv, HeldInv
        <4> QED
          BY <3>2, <4>1, <4>2
      <3> QED
        BY <3>1, <3>3
    <2>2. Objects(data') \subseteq Objects(data) \cup {ent.at}
          /\ alive' \subseteq alive \cup {ent.at}
      BY <1>1, <1>4, ObjectsOf DEF TakeOutput
    <2> QED
      BY <1>1, <1>4, <2>1, <2>2, ReadTypes DEF TakeOutput, fixed, session, outcome, Reading
  <1> QED
    BY <1>2, <1>3, <1>4

(* Where no reply is read, or one that was cut short at once.              *)
LEMMA RestTypes ==
  ASSUME RInv, client' = client, connected' \in BOOLEAN, version' \in Versions, Known(request'),
         search' \in Searches \cup {NoSearch}, processing' \in BOOLEAN, error' \in Errors,
         code' = code, element' \in {0, element}, told' \in BOOLEAN,
         at' \in Reading \cup {"idle", "check", "unlock", "callback", "after"},
         \/ answer' = answer /\ Objects(data') \subseteq Objects(data) /\ alive' \subseteq alive
         \/ answer' \in {<<>>, <<"bare">>} /\ data' = <<>> /\ alive' = {} /\ element' = 0
  PROVE  TypeOK'
  <1>1. /\ element' \in 0..Len(answer') /\ alive' \subseteq 0..Len(answer')
        /\ Objects(data') \subseteq 0..Len(answer')
    <2>1. PICK T : answer \in Seq(T)
      BY DEF RInv, IInv, Lines
    <2>2. 0 \in 0..Len(answer) /\ Len(<<>>) = 0 /\ 0 \in 0..0 /\ Len(<<"bare">>) = 1 /\ 0 \in 0..1
      BY <2>1
    <2>3. CASE answer' = answer /\ Objects(data') \subseteq Objects(data) /\ alive' \subseteq alive
      BY <2>2, <2>3 DEF RInv, TypeOK
    <2>4. CASE answer' \in {<<>>, <<"bare">>} /\ data' = <<>> /\ alive' = {} /\ element' = 0
      BY <2>2, <2>4, ObjectsOf
    <2> QED
      BY <2>3, <2>4
  <1> QED
    BY <1>1 DEF RInv, TypeOK, Reading, Known

(* What a call begins with.                                                *)
LEMMA BeginTypes ==
  ASSUME RInv, NEW f, NEW meant, Begin(f, meant), element' = element
  PROVE  /\ element' = 0 /\ error = "none" /\ told' \in BOOLEAN
         /\ UNCHANGED <<client, connected, version>>
         /\ \/ answer' = answer /\ Objects(data') \subseteq Objects(data) /\ alive' \subseteq alive
            \/ answer' \in {<<>>, <<"bare">>} /\ data' = <<>> /\ alive' = {} /\ element' = 0
  <1>1. element = 0 /\ error = "none"
    BY DEF Begin, RInv, IInv, QueryInv, EngineInv
  <1>2. /\ answer' \in {answer, <<>>} /\ data' = <<>> /\ alive' = {} /\ told' = FALSE
        /\ Objects(data') = {} /\ UNCHANGED <<client, connected, version>>
    BY ObjectsOf DEF Begin
  <1> QED
    BY <1>1, <1>2

LEMMA CallTypes ==
  ASSUME RInv,
         \/ Connect \/ Disconnect \/ (\E f \in Queried : Query(f))
         \/ (\E s \in Searches : Start(s)) \/ (\E c \in Constraints \cup {None} : AddConstraint(c))
  PROVE  TypeOK'
  <1>1. /\ connected \in BOOLEAN /\ version \in Versions /\ Known(request) /\ Known(None)
        /\ search \in Searches \cup {NoSearch} /\ error \in Errors /\ processing \in BOOLEAN
        /\ told \in BOOLEAN
    BY DEF RInv, TypeOK, Known
  <1>3. CASE Connect
    BY <1>1, <1>3, RestTypes DEF Connect, connection, reading, outcome
  <1>4. CASE Disconnect
    BY <1>1, <1>4, RestTypes DEF Disconnect, Disconnected, reading, outcome, Errors
  <1>5. CASE \E f \in Queried : Query(f)
    <2>1. PICK f \in Queried : Query(f)
      BY <1>5
    <2>2. at' \in Reading \cup {"check"} /\ error' \in Errors /\ processing' \in BOOLEAN
      BY <1>1, <2>1 DEF Query, Reads, Reading, ExecuteCommand, Errors
    <2>3. Begin(f, None) /\ UNCHANGED <<search, request, code, element>>
      BY <2>1 DEF Query
    <2> QED
      BY <1>1, <2>2, <2>3, BeginTypes, RestTypes
  <1>6. CASE \E s \in Searches : Start(s)
    <2>1. PICK s \in Searches : Start(s)
      BY <1>6
    <2>2. Begin(Building, None) /\ UNCHANGED <<processing, code, element>> /\ search' = s
          /\ at' \in {"idle", "unlock"}
      BY <2>1 DEF Start
    <2>3. Known(request') /\ error' \in Errors
      BY <1>1, <2>1, RequestsAre DEF Start, StartRequest, Known, Errors
    <2> QED
      BY <1>1, <2>2, <2>3, BeginTypes, RestTypes
  <1>7. CASE \E c \in Constraints \cup {None} : AddConstraint(c)
    <2>1. PICK c \in Constraints \cup {None} : AddConstraint(c)
      BY <1>7
    <2>2. Begin(Building, None) /\ UNCHANGED <<search, processing, code, element>>
          /\ at' \in {"idle", "unlock"}
      BY <2>1 DEF AddConstraint
    <2>3. Known(request') /\ error' \in Errors
      <3>1. request # None => Constrained(request, c).command = request.command
        BY DEF Constrained
      <3> QED
        BY <1>1, <2>1, <3>1 DEF AddConstraint, Known, Errors
    <2> QED
      BY <1>1, <2>2, <2>3, BeginTypes, RestTypes
  <1> QED
    BY <1>3, <1>4, <1>5, <1>6, <1>7

LEMMA CommitTypes ==
  ASSUME RInv,
         \/ (\E f, type : Commit(f, type))
         \/ (\E exact \in BOOLEAN, c \in Constraints : DatabaseFind(exact, c))
  PROVE  TypeOK'
  <1>1. /\ connected \in BOOLEAN /\ version \in Versions /\ Known(None)
        /\ search \in Searches \cup {NoSearch} /\ processing \in BOOLEAN
    BY DEF RInv, TypeOK, Known
  <1>2. ASSUME NEW f, NEW meant, Begin(f, meant), UNCHANGED <<search, code, element>>,
               request' = None, at' = "next", error' \in Errors, processing' \in BOOLEAN
        PROVE  TypeOK'
    BY <1>1, <1>2, BeginTypes, RestTypes DEF Reading
  <1>3. CASE \E f, type : Commit(f, type)
    <2>1. PICK f, type : Commit(f, type)
      BY <1>3
    <2>2. error' \in Errors /\ processing' \in BOOLEAN /\ request' = None
      BY <1>1, <2>1 DEF Commit, CommitRequest, ExecuteCommand, Errors
    <2> QED
      BY <1>2, <2>1, <2>2 DEF Commit
  <1>4. CASE \E exact \in BOOLEAN, c \in Constraints : DatabaseFind(exact, c)
    <2>1. PICK exact \in BOOLEAN, c \in Constraints : DatabaseFind(exact, c)
      BY <1>4
    <2>2. error' \in Errors /\ processing' \in BOOLEAN
      BY <1>1, <2>1 DEF DatabaseFind, ExecuteCommand, Errors
    <2> QED
      BY <1>2, <2>1, <2>2 DEF DatabaseFind
  <1> QED
    BY <1>3, <1>4

LEMMA ReturnTypes ==
  ASSUME RInv,
         \/ Check \/ Unlock \/ CallbackReturns \/ Update
         \/ (\E s \in Searches : CallbackStarts(s))
  PROVE  TypeOK'
  <1>1. /\ connected \in BOOLEAN /\ version \in Versions /\ Known(request) /\ Known(None)
        /\ search \in Searches \cup {NoSearch} /\ error \in Errors /\ processing \in BOOLEAN
        /\ told \in BOOLEAN /\ "none" \in Errors
    BY DEF RInv, TypeOK, Known, Errors
  <1>2. CASE Check
    <2>1. /\ at' \in Reading \cup {"idle"} /\ error' \in Errors /\ processing' \in BOOLEAN
          /\ connected' \in BOOLEAN /\ Known(request') /\ search' \in Searches \cup {NoSearch}
          /\ element' \in {0, element} /\ UNCHANGED <<client, version, code, data, alive, told>>
      BY <1>1, <1>2 DEF Check, Reads, Reading, ExecuteCommand, StatusCutShort, Disconnected, Errors,
                        reading, outcome
    <2>2. data = <<>> /\ alive = {} /\ element = 0
      BY <1>2, ObjectsOf DEF Check, RInv, IInv, QueryInv, EngineInv, ReplyInv, HeldInv, PlaceInv,
                             HeapInv
    <2>3. answer' \in {answer, <<"bare">>}
      BY <1>2 DEF Check, StatusCutShort
    <2> QED
      BY <1>1, <2>1, <2>2, <2>3, RestTypes
  <1>3. \A reported \in BOOLEAN :
          Return(reported) => alive' \subseteq alive /\ at' \in {"idle", "after"}
    BY DEF Return
  <1>4. CASE Unlock
    <2>1. /\ at' \in {"idle", "after", "callback"} /\ alive' \subseteq alive
          /\ error' \in Errors /\ processing' \in BOOLEAN /\ told' \in BOOLEAN
          /\ connected' \in BOOLEAN /\ Known(request') /\ search' \in Searches \cup {NoSearch}
          /\ element' \in {0, element}
      <3>1. CASE error = "none" \/ forgiven
        BY <1>1, <1>3, <1>4, <3>1 DEF Unlock
      <3>2. CASE error = "ack" /\ ~forgiven
        BY <1>1, <1>4, <3>2 DEF Unlock
      <3>3. CASE ~(error = "none" \/ forgiven) /\ ~(error = "ack" /\ ~forgiven)
        <4>1. told' = TRUE /\ Disconnected /\ Return(TRUE)
          BY <1>4, <3>3 DEF Unlock
        <4> QED
          BY <1>1, <1>3, <4>1 DEF Disconnected
      <3> QED
        BY <3>1, <3>2, <3>3
    <2> QED
      BY <1>1, <1>4, <2>1, RestTypes DEF Unlock
  <1>5. CASE CallbackReturns
    BY <1>1, <1>3, <1>5, RestTypes DEF CallbackReturns, Disconnected
  <1>6. CASE Update
    <2>1. CASE StatusCutShort /\ UNCHANGED <<connected, search, request, error, element>>
      <3>1. call.read = "nothing" /\ element = 0 /\ data = <<>> /\ alive = {}
        <4>1. /\ call.read = "nothing" /\ element = 0 /\ data = <<>> /\ result = <<>>
              /\ call.failed # "leaked"
          BY <1>6 DEF Update, RInv, IInv, QueryInv, EngineInv, ReplyInv, HeldInv, PlaceInv, ShapeInv,
                      FunctionOK
        <4>2. alive = Objects(result)
          BY <1>6, <4>1 DEF Update, RInv, ReplyInv, HeldInv, HeapInv
        <4> QED
          BY <4>1, <4>2, ObjectsOf
      <3>2. /\ UNCHANGED <<client, version, code, data, alive, told, element>>
            /\ at' = "idle" /\ processing' = TRUE /\ answer' = <<"bare">>
        BY <1>6, <2>1 DEF Update, StatusCutShort, reading, outcome
      <3> QED
        BY <1>1, <2>1, <3>1, <3>2, RestTypes
    <2>2. CASE answer' = answer /\ (Disconnected \/ UNCHANGED <<connected, search, request, processing, error, element>>)
      BY <1>1, <1>6, <2>2, RestTypes DEF Update, Disconnected, reading, outcome
    <2> QED
      BY <1>6, <2>1, <2>2 DEF Update
  <1>7. CASE \E s \in Searches : CallbackStarts(s)
    <2>1. PICK s \in Searches : CallbackStarts(s)
      BY <1>7
    <2>2. Known(request')
      BY <2>1, RequestsAre DEF CallbackStarts, Known
    <2>3. at' = "callback"
      BY <2>1 DEF CallbackStarts
    <2> QED
      BY <1>1, <2>1, <2>2, <2>3, RestTypes DEF CallbackStarts, reading, outcome
  <1> QED
    BY <1>2, <1>4, <1>5, <1>6, <1>7

-----------------------------------------------------------------------------
(* The invariant. *)

LEMMA ReplyInit == Init => TypeOK /\ ReplyInv
  <1> SUFFICES ASSUME Init PROVE TypeOK /\ ReplyInv
    OBVIOUS
  <1>1. /\ at = "idle" /\ call = Building /\ element = 0 /\ error = "none" /\ data = <<>>
        /\ result = <<>> /\ alive = {} /\ answer = <<>> /\ told = FALSE
    BY DEF Init
  <1>2. FunctionOK(call) /\ Objects(<<>>) = {} /\ Len(<<>>) = 0 /\ <<>> \in Seq(Thing)
    BY <1>1, SearchesAreFunctions, ObjectsOf
  <1>3. TypeOK
    <2>1. Objects(data) = {} /\ Len(answer) = 0 /\ 0 \in 0..0
      BY <1>1, <1>2
    <2> QED
      BY <1>1, <2>1 DEF Init, TypeOK, Errors, Codes
  <1>4. ShapeInv /\ PlaceInv /\ TroubleInv /\ HeapInv
    BY <1>1, <1>2 DEF ShapeInv, PlaceInv, TroubleInv, HeapInv, Reading
  <1>5. CommandInv /\ NextInv /\ HeadInv /\ AttributesInv /\ StringInv /\ OutputInv /\ DoneInv
    BY <1>1 DEF CommandInv, NextInv, HeadInv, AttributesInv, StringInv, OutputInv, DoneInv, Reading
  <1> QED
    BY <1>3, <1>4, <1>5 DEF ReplyInv, HeldInv, IntactInv

LEMMA ReplyStutter ==
  ASSUME RInv, UNCHANGED vars
  PROVE  TypeOK' /\ ReplyInv'
  <1>1. UNCHANGED <<client, connected, version, search, request, processing, error, code, element,
                    call, at, ent, data, alive, result, told, answer, command, sent>>
    BY DEF vars, session, connection, reading, outcome, intent
  <1>2. digested' = digested /\ (ByTheHeaders' <=> ByTheHeaders)
        /\ (Excused' <=> Excused) /\ key' = key
    BY <1>1 DEF digested, ByTheHeaders, Excused, key
  <1>3. TypeOK'
    BY <1>1 DEF RInv, TypeOK
  <1>4. HeldInv'
    BY <1>1, <1>2 DEF RInv, ReplyInv, HeldInv, ShapeInv, PlaceInv, TroubleInv, HeapInv
  <1>5. IntactInv => IntactInv'
    <2>1. CommandInv => CommandInv'
      BY <1>1, <1>2 DEF CommandInv
    <2>2. (NextInv => NextInv') /\ (HeadInv => HeadInv') /\ (AttributesInv => AttributesInv')
      BY <1>1, <1>2 DEF NextInv, HeadInv, AttributesInv
    <2>3. (StringInv => StringInv') /\ (OutputInv => OutputInv') /\ (DoneInv => DoneInv')
      BY <1>1, <1>2 DEF StringInv, OutputInv, DoneInv
    <2> QED
      BY <2>1, <2>2, <2>3 DEF IntactInv
  <1> QED
    BY <1>1, <1>3, <1>4, <1>5 DEF RInv, ReplyInv

LEMMA TypesKept ==
  ASSUME RInv, Next
  PROVE  TypeOK'
  <1>1. SearchCommit \/ PlaylistSearchCommit \/ StatsCommit => \E f, type : Commit(f, type)
    BY DEF SearchCommit, PlaylistSearchCommit, StatsCommit
  <1> QED
    BY <1>1, CallTypes, CommitTypes, ReturnTypes, ReadingTypes, TakingTypes DEF Next

(* A step that reads a reply goes on with one that was intact so far.      *)
LEMMA ReadingReply ==
  ASSUME RInv, HeldInv', Intact(answer'),
         \/ NothingLeft \/ NextEntity \/ BeginEntity \/ Attribute \/ TakeEntity
         \/ NextString \/ TakeString \/ NextOutput \/ OutputLine \/ TakeOutput
         \/ NextStats \/ TakeStats \/ Finish
  PROVE  IntactInv'
  <1>1. GetNextReturnElement \/ answer' = answer
    BY DEF NothingLeft, NextEntity, BeginEntity, Attribute, TakeEntity, NextString, TakeString,
           NextOutput, OutputLine, TakeOutput, NextStats, TakeStats, Finish
  <1>2. Intact(answer)
    <2>1. Lines /\ (answer' = answer \/ \E line : answer' = Append(answer, line))
      BY <1>1, LineKept DEF RInv, IInv
    <2> QED
      BY <2>1, IntactSoFar
  <1>3. SInv
    BY <1>2 DEF RInv, SInv, ReplyInv
  <1> QED
    BY <1>3, NothingLeftReply, NextEntityReply, BeginEntityReply, AttributeReply, TakeEntityReply,
       NextStringReply, TakeStringReply, NextOutputReply, OutputLineReply, TakeOutputReply,
       NextStatsReply, TakeStatsReply, FinishReply

LEMMA ReplyKept ==
  ASSUME RInv, Next
  PROVE  ReplyInv'
  <1>1. HeldInv' /\ QueryInv'
    BY HeldKept, InvKept DEF RInv, IInv
  <1>2. ASSUME Intact(answer'), Check
        PROVE  IntactInv'
    <2>1. CASE StatusCutShort
      <3>1. 1 \in DOMAIN <<"bare">> /\ <<"bare">>[1] = "bare"
        OBVIOUS
      <3> QED
        BY <1>2, <2>1, <3>1 DEF StatusCutShort, Intact, Malformed
    <2>2. CASE answer' = answer
      <3>1. SInv
        BY <1>2, <2>2 DEF RInv, SInv, ReplyInv
      <3> QED
        BY <1>1, <1>2, <3>1, CheckReply
    <2> QED
      BY <1>2, <2>1, <2>2 DEF Check
  <1>3. Intact(answer') => IntactInv'
    BY <1>1, <1>2, CallsReply, ReadingReply, ReturnsReply DEF Next
  <1> QED
    BY <1>1, <1>3 DEF ReplyInv

(* Of a reply that is intact so far, the list that is being built is what  *)
(* the lines that are digested say, whatever their order, and the entity   *)
(* under way has the lines that are its own; of any reply, malformed or    *)
(* cut short, what is allocated is in the list or under way: the reading   *)
(* loops of libmpd-database.c, libmpd-playlist.c, libmpd.c and             *)
(* libmpd-sticker.c.                                                       *)
THEOREM RepliesRead == Spec => [](TypeOK /\ ReplyInv)
  <1> DEFINE Inv == TypeOK /\ ReplyInv
  <1>1. Init => Inv
    BY ReplyInit
  <1>2. QueryInv /\ Lines /\ Inv /\ [Next]_vars => Inv'
    <2>1. ASSUME QueryInv, Lines, Inv, [Next]_vars
          PROVE  Inv'
      <3>1. RInv
        BY <2>1 DEF RInv, IInv
      <3>2. CASE Next
        BY <3>1, <3>2, TypesKept, ReplyKept
      <3>3. CASE UNCHANGED vars
        BY <3>1, <3>3, ReplyStutter
      <3> QED
        BY <2>1, <3>2, <3>3
    <2> QED
      BY <2>1
  <1> QED
    BY <1>1, <1>2, QueriesCorrect, PTL DEF Spec

-----------------------------------------------------------------------------
(* What the client is given. *)

(* A function that was not told of an error gives all of it out.           *)
LEMMA ReturnedAll ==
  ASSUME SInv, at = "unlock", error = "none" \/ forgiven, Return(FALSE)
  PROVE  \/ Represents(call, answer, result', Due(call, answer))
         \/ call.read = "outputs" /\ answer = <<>>
         \/ call.read = "string" /\ call.forgive # "none" /\ result' = <<>>
  <1>1. data \in Seq(Thing) /\ FunctionOK(call)
    BY DEF SInv, HeldInv, ShapeInv
  <1>2. ~Excused
    BY DEF Excused, forgiven, SInv, TypeOK, Codes
  <1>3. \/ call.read = "outputs" /\ answer = <<>>
        \/ Represents(call, answer, data, Taken(call, answer))
    BY <1>2 DEF SInv, IntactInv, DoneInv
  <1>4. CASE call.read = "outputs" /\ answer = <<>>
    BY <1>4
  <1>5. CASE Represents(call, answer, data, Taken(call, answer))
    <2>1. CASE forgiven /\ call.read = "string"
      <3>1. result' = <<>> /\ call.forgive # "none"
        BY <2>1 DEF Return, forgiven, SInv, TypeOK, Codes
      <3> QED
        BY <2>1, <3>1
    <2>2. CASE ~(forgiven /\ call.read = "string")
      <3>1. result' = IF \/ call.failed = "value"
                         \/ call.read = "entity" /\ data # <<>> /\ data[1].type \notin call.keep
                      THEN <<>> ELSE data
        BY <2>2 DEF Return
      <3> QED
        BY <1>1, <1>5, <3>1, TakenIsDue
    <2> QED
      BY <2>1, <2>2
  <1> QED
    BY <1>3, <1>4, <1>5

(* Where nothing is due nothing is missing.                                *)
LEMMA NothingDue ==
  ASSUME result' = <<>>, Due(call', answer') = {}
  PROVE  CompleteOrTold'
  <1>1. Handed(call', result') = <<>>
    BY DEF Handed
  <1>2. Represents(call', answer', Handed(call', result'), Due(call', answer'))
    BY <1>1, EmptyList
  <1> QED
    BY <1>2 DEF CompleteOrTold

LEMMA ReadNothing ==
  ASSUME NEW f, f.read = "nothing", NEW a
  PROVE  Due(f, a) = {}
  BY DEF Due, Kept, Starts, LinesOf, Begins

(* A sound reply in which no parse error was met is intact.                *)
LEMMA SoundIsIntact ==
  ASSUME Sound(call, answer), NoJunk \/ call.forgive # "none"
  PROVE  Intact(answer)
  BY DEF Sound, NoJunk, Intact, Malformed

(* The steps that return.                                                  *)
LEMMA UnlockComplete ==
  ASSUME RInv, Unlock
  PROVE  CompleteOrTold'
  <1>1. SUFFICES ASSUME at' = "idle", ~told', Sound(call, answer), call.node = "first"
                 PROVE  \/ Represents(call, answer, Handed(call, result'), Due(call, answer))
                        \/ call.read = "outputs" /\ answer = <<>>
                        \/ call.read = "string" /\ call.forgive # "none" /\ result' = <<>>
    BY DEF Unlock, CompleteOrTold
  <1>2. at = "unlock" /\ (error = "none" \/ forgiven) /\ Return(FALSE)
    BY <1>1 DEF Unlock
  <1>3. NoJunk \/ call.forgive # "none"
    <2>1. CASE error = "none"
      BY <1>2, <2>1 DEF RInv, ReplyInv, HeldInv, TroubleInv, NoJunk
    <2>2. CASE forgiven
      BY <2>2 DEF forgiven, RInv, TypeOK, Codes
    <2> QED
      BY <1>2, <2>1, <2>2
  <1>4. SInv
    <2>1. Intact(answer)
      BY <1>1, <1>3, SoundIsIntact
    <2> QED
      BY <2>1 DEF RInv, SInv, ReplyInv
  <1>5. Handed(call, result') = result'
    BY <1>1 DEF Handed
  <1> QED
    BY <1>2, <1>4, <1>5, ReturnedAll

LEMMA CheckComplete ==
  ASSUME RInv, Check
  PROVE  CompleteOrTold'
  <1>1. SUFFICES ASSUME at' = "idle", Sound(call', answer')
                 PROVE  CompleteOrTold'
    BY DEF CompleteOrTold
  <1>2. at = "check" /\ UNCHANGED <<call, result, answer>> /\ error = "none"
    BY <1>1 DEF Check, Reads, outcome, RInv, IInv, QueryInv, EngineInv
  <1>3. result = <<>> /\ call.read # "stats" /\ NoJunk
    BY <1>2 DEF RInv, IInv, QueryInv, EngineInv, ReplyInv, HeldInv, PlaceInv, TroubleInv, NoJunk
  <1>4. answer = <<>>
    <2>1. Intact(answer)
      BY <1>1, <1>2, <1>3, SoundIsIntact
    <2> QED
      BY <1>2, <2>1 DEF RInv, ReplyInv, IntactInv, CommandInv
  <1>5. Due(call, <<>>) = {}
    BY <1>3, NothingStarts DEF Due
  <1> QED
    BY <1>2, <1>3, <1>4, <1>5, NothingDue

LEMMA CompleteKept ==
  ASSUME RInv, CompleteOrTold, Next
  PROVE  CompleteOrTold'
  <1>1. CASE Connect \/ Disconnect
    <2>1. UNCHANGED <<call, at, result, told, answer>>
      BY <1>1 DEF Connect, Disconnect, outcome
    <2> QED
      BY <2>1 DEF CompleteOrTold
  <1>2. CASE (\E s \in Searches : Start(s)) \/ \E c \in Constraints \cup {None} : AddConstraint(c)
    <2>1. call' = Building /\ result' = <<>>
      BY <1>2 DEF Start, AddConstraint, Begin
    <2> QED
      BY <2>1, SearchesAreFunctions, ReadNothing, NothingDue
  <1>3. CASE Check
    BY <1>3, CheckComplete
  <1>4. CASE Unlock
    BY <1>4, UnlockComplete
  <1>5. CASE CallbackReturns \/ \E s \in Searches : CallbackStarts(s)
    <2>1. told' = TRUE
      BY <1>5 DEF CallbackReturns, CallbackStarts, outcome, RInv, TypeOK, ReplyInv, HeldInv, PlaceInv
    <2> QED
      BY <2>1 DEF CompleteOrTold
  <1>6. CASE Update
    <2>1. call' = call /\ call.read = "nothing" /\ result' = <<>>
      BY <1>6 DEF Update, outcome, RInv, ReplyInv, HeldInv, PlaceInv
    <2> QED
      BY <2>1, ReadNothing, NothingDue
  <1>7. CASE at' # "idle"
    BY <1>7 DEF CompleteOrTold
  <1>8. CASE \/ \E f \in Queried : Query(f)
             \/ \E c \in Constraints, exact \in BOOLEAN : DatabaseFind(exact, c)
             \/ SearchCommit \/ PlaylistSearchCommit \/ StatsCommit
    BY <1>7, <1>8 DEF Query, Reads, DatabaseFind, SearchCommit, PlaylistSearchCommit, StatsCommit,
                      Commit
  <1>9. CASE \/ NothingLeft \/ NextEntity \/ BeginEntity \/ Attribute \/ TakeEntity
             \/ NextString \/ TakeString \/ NextOutput \/ OutputLine \/ TakeOutput
             \/ NextStats \/ TakeStats \/ Finish
    BY <1>7, <1>9 DEF NothingLeft, NextEntity, BeginEntity, Attribute, TakeEntity, NextString,
                      TakeString, NextOutput, OutputLine, TakeOutput, NextStats, TakeStats, Finish
  <1> QED
    BY <1>1, <1>2, <1>3, <1>4, <1>5, <1>6, <1>8, <1>9 DEF Next

(* Types, and every object of a list has a place in the reply it is from.  *)
THEOREM QueriesTypes == Spec => []TypeOK
  BY RepliesRead, PTL

(* A client that was not told of an error has everything that was in a     *)
(* sound reply, each line with the entity it belongs to, and nothing else, *)
(* from every function that hands out the first node of its list.          *)
THEOREM RepliesComplete == Spec => []CompleteOrTold
  <1>1. Init => CompleteOrTold
    <2>1. ASSUME Init
          PROVE  CompleteOrTold
      <3>1. Handed(call, result) = <<>> /\ Due(call, answer) = {}
        BY <2>1, SearchesAreFunctions, ReadNothing DEF Init, Handed
      <3> QED
        BY <3>1, EmptyList DEF CompleteOrTold
    <2> QED
      BY <2>1
  <1>2. /\ QueryInv /\ Lines /\ TypeOK /\ ReplyInv
        /\ CompleteOrTold /\ [Next]_vars
        => CompleteOrTold'
    <2>1. ASSUME QueryInv, Lines, TypeOK, ReplyInv, CompleteOrTold, [Next]_vars
          PROVE  CompleteOrTold'
      <3>1. CASE Next
        BY <2>1, <3>1, CompleteKept DEF RInv, IInv
      <3>2. CASE UNCHANGED vars
        BY <2>1, <3>2 DEF vars, outcome, CompleteOrTold
      <3> QED
        BY <2>1, <3>1, <3>2
    <2> QED
      BY <2>1
  <1> QED
    BY <1>1, <1>2, QueriesCorrect, RepliesRead, PTL DEF Spec

(* Of what was allocated for a reply nothing is lost and nothing is freed  *)
(* that the client has, whatever the server sends and whatever failed, but *)
(* for the two functions whose comments rule an error out.                 *)
THEOREM RepliesHandedOver == Spec => []HandedOver
  <1>1. ReplyInv => HandedOver
    BY DEF ReplyInv, HeldInv, HeapInv, HandedOver
  <1> QED
    BY <1>1, RepliesRead, PTL

(* A client that goes by the headers never makes the library meet an error *)
(* of its own, unless the server sends it a malformed line.                *)
THEOREM NoOwnErrors == Spec => []NoErrorOfItsOwn
  <1>1. ReplyInv => NoErrorOfItsOwn
    BY DEF ReplyInv, IntactInv, CommandInv, ByTheHeaders, NoErrorOfItsOwn
  <1> QED
    BY <1>1, RepliesRead, PTL
=============================================================================
