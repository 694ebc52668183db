------------------------ MODULE MpdConnectionProofs ------------------------
EXTENDS MpdConnection, SequenceTheorems, TLAPS

-----------------------------------------------------------------------------
(* The engine is ready for a command between sections. *)

LEMMA ReadyInit == Init => ReadyInv
  BY DEF Init, Fresh, ReadyInv

(* What is read of a line, and what kind of line it is. *)
LEMMA DigestLine ==
  ASSUME wire \in Seq(Line), wire # <<>>, NEW d \in BOOLEAN, Digest(Head(wire).text, d)
  PROVE  LET t == Head(wire).text IN
         /\ t \in {"pair", "junk", "bare", "list_OK", "OK", "ACK"}
         /\ t \in {"pair", "junk", "bare"} => t \in Elements
         /\ t \in {"OK", "ACK"} => done'
         /\ t \notin {"OK", "ACK"} => done' = done
         /\ t = "ACK" => error' = "ack"
         /\ t = "junk" => error' = "protocol"
         /\ t \in {"pair", "bare"} => error' = error /\ listOks' = listOks
         /\ t = "OK" => error' \in {error, "protocol"} /\ listOks' = 0
         /\ t = "list_OK" => IF listOks = 0 THEN error' = "protocol" /\ listOks' = 0
                            ELSE error' = error
         /\ t \in {"junk", "ACK"} => listOks' = listOks
         /\ listOks = 0 => listOks' = 0 /\ (t = "OK" => error' = error)
<1> DEFINE t == Head(wire).text
<1>1. t \in Elements \cup {"OK", "list_OK", "ACK"}
  <2>1. Head(wire) \in Line
    BY HeadTailProperties
  <2> QED BY <2>1 DEF Line
<1>2. /\ t \in {"pair", "junk", "bare", "list_OK", "OK", "ACK"}
      /\ t \in {"pair", "junk", "bare"} => t \in Elements
  BY <1>1, ElementsAssumption DEF Malformed
<1>3. Digest(t, d)
  OBVIOUS
<1> HIDE DEF t
<1>4. CASE t = "OK"
  BY <1>2, <1>3, <1>4 DEF Digest, t
<1>5. CASE t = "list_OK"
  BY <1>2, <1>3, <1>5 DEF Digest, t
<1>6. CASE t = "ACK"
  BY <1>2, <1>3, <1>6 DEF Digest, t
<1>7. CASE t \in {"pair", "junk", "bare"}
  BY <1>2, <1>3, <1>7 DEF Digest, t
<1> QED BY <1>2, <1>4, <1>5, <1>6, <1>7

LEMMA GetNextReady ==
  ASSUME TypeOK, ReadyInv, ~done, NEW d \in BOOLEAN, GetNext(d)
  PROVE  /\ UNCHANGED listMode
         /\ listOks' # 0 => "listOk" \in Sections
         /\ error' = "ack" => done'
<1>1. wire \in Seq(Line)
  BY DEF TypeOK
<1>2. error # "ack" /\ (listOks # 0 => "listOk" \in Sections)
  BY DEF ReadyInv
<1>3. CASE wire # <<>> /\ Digest(Head(wire).text, d) /\ wire' = Tail(wire)
  BY <1>1, <1>2, <1>3, DigestLine DEF GetNext
<1>4. CASE error' = "fatal" /\ UNCHANGED listOks
  BY <1>2, <1>4 DEF GetNext
<1> QED BY <1>3, <1>4 DEF GetNext

(* The reading of a status ends at a line that is no pair: at the end of   *)
(* the reply, with an error, or at a line that is taken for nothing.       *)
LEMMA ReadStatusReady == TypeOK /\ ReadyInv /\ ReadStatus => ReadyInv'
<1> SUFFICES ASSUME TypeOK, ReadyInv, ReadStatus PROVE ReadyInv'
  OBVIOUS
<1>1. /\ at = "read" /\ section = "status" /\ ~done /\ GetNext(doneListOk) /\ wire \in Seq(Line)
      /\ at' \in {"read", "got"} /\ section' = section /\ doneListOk \in BOOLEAN
      /\ at' = "got" => ~(error' = "none" /\ Head(wire).text = "pair")
  BY DEF ReadStatus, TypeOK
<1>2. /\ UNCHANGED listMode /\ (listOks' # 0 => "listOk" \in Sections)
      /\ error' = "ack" => done'
  BY <1>1, GetNextReady
<1>3. at' = "got" /\ ~done' /\ error' \in {"none", "ack"} => Silent
  <2> SUFFICES ASSUME at' = "got", ~done', error' = "none" PROVE Silent
    BY <1>2
  <2>1. wire # <<>> /\ Digest(Head(wire).text, doneListOk) /\ Head(wire).text # "pair"
    BY <1>1 DEF GetNext
  <2>2. /\ Head(wire).text \in {"bare", "list_OK"}
        /\ Head(wire).text = "bare" => "bare" \in Elements
        /\ Head(wire).text = "list_OK" => listOks # 0
    BY <1>1, <2>1, DigestLine
  <2> QED BY <2>2 DEF ReadyInv, Silent
<1> QED BY <1>1, <1>2, <1>3 DEF ReadyInv

LEMMA ReadyStep == TypeOK /\ ReadyInv /\ [Next]_vars => ReadyInv'
<1> SUFFICES ASSUME TypeOK, ReadyInv, [Next]_vars PROVE ReadyInv'
  OBVIOUS
<1> USE DEF ReadyInv
<1>1. CASE Start
  <2>1. PICK s \in Sections : section' = s /\ at' = IF s \in Lists THEN "begin" ELSE "send"
    BY <1>1 DEF Start
  <2>2. at = "idle" /\ UNCHANGED <<done, listMode, listOks, error>>
    BY <1>1 DEF Start, engine
  <2> QED BY <2>1, <2>2
<1>2. CASE ListBegin
  <2>1. /\ at = "begin" /\ section \in Lists /\ listMode = "no"
        /\ at' \in {"end", "send"} /\ section' = section /\ listOks' \in {0, listOks}
        /\ Execute(section, section)
    BY <1>2 DEF ListBegin
  <2>2. listMode' = section /\ error' # "ack"
    BY <2>1 DEF Execute
  <2> QED BY <2>1, <2>2 DEF Lists
<1>3. CASE Send
  <2>1. /\ at = "send" /\ listMode = (IF section \in Lists THEN section ELSE "no")
        /\ Execute("plain", listMode) /\ section' = section
        /\ at' = IF listMode = "no" THEN "read" ELSE IF left = 1 THEN "end" ELSE "send"
        /\ listOks' = IF listMode = "listOk" /\ sent' # sent THEN listOks + 1 ELSE listOks
    BY <1>3 DEF Send
  <2>2. listMode' = listMode /\ error' # "ack"
    BY <2>1 DEF Execute
  <2>3. listOks' # 0 => "listOk" \in Sections
    BY <2>1 DEF Lists
  <2> QED BY <2>1, <2>2, <2>3 DEF Lists
<1>4. CASE ListEnd
  BY <1>4 DEF ListEnd, Execute
<1>5. CASE Read \/ Finish
  <2>1. \E d \in BOOLEAN : GetNext(d)
    BY <1>5 DEF Read, Finish, TypeOK
  <2>2. at \in {"read", "finish"} /\ ~done /\ UNCHANGED <<at, section>>
    BY <1>5 DEF Read, Finish, caller
  <2>3. UNCHANGED listMode /\ (listOks' # 0 => "listOk" \in Sections) /\ (error' = "ack" => done')
    BY <2>1, <2>2, GetNextReady
  <2> QED BY <2>2, <2>3
<1>6. CASE ReadStatus
  BY <1>6, ReadStatusReady
<1>7. CASE StatusGot
  BY <1>7 DEF StatusGot, Silent
<1>8. CASE NextListOk
  BY <1>8 DEF NextListOk, caller
<1>9. CASE StopReading
  BY <1>9 DEF StopReading, engine
<1>10. CASE Finished
  <2>1. /\ at = "finish" /\ done /\ UNCHANGED <<done, listMode, listOks, error, section>>
        /\ at' \in {"send", "loaded", "idle", "check"}
        /\ at' = "send" => section \notin Lists
    BY <1>10 DEF Finished, engine
  <2> QED BY <2>1
<1>11. CASE Loaded
  BY <1>11 DEF Loaded
<1>12. CASE Reconnect
  BY <1>12 DEF Reconnect, Fresh
<1>13. CASE Check
  BY <1>12, <1>13 DEF Check
<1>14. CASE Disconnect
  BY <1>12, <1>14 DEF Disconnect
<1>15. CASE Serve \/ ServerCloses \/ UNCHANGED vars
  <2>1. UNCHANGED <<done, listMode, listOks, error, section, at>>
    BY <1>15 DEF Serve, ServerCloses, vars, engine, caller
  <2> QED BY <2>1
<1>16. QED
  BY <1>1, <1>2, <1>3, <1>4, <1>5, <1>6, <1>7, <1>8, <1>9, <1>10, <1>11, <1>13, <1>14, <1>15
     DEF Next, Section

-----------------------------------------------------------------------------
(* Replies stay in step where each command is a section of its own. *)

(* The server writes one line for each text. *)
LEMMA LinesWritten ==
  ASSUME Head(inbox).id \in Nat, NEW m \in Nat,
         NEW f \in [1..m -> Elements \cup {"OK", "list_OK", "ACK"}]
  PROVE  /\ Lines(f) \in Seq(Line) /\ Len(Lines(f)) = m
         /\ \A i \in 1..m : Lines(f)[i] = [of |-> Head(inbox).id, text |-> f[i]]
<1>1. Lines(f) = [i \in 1..m |-> [of |-> Head(inbox).id, text |-> f[i]]]
  BY DEF Lines
<1>2. \A i \in 1..m : [of |-> Head(inbox).id, text |-> f[i]] \in Line
  BY DEF Line
<1>3. Lines(f) \in [1..m -> Line]
  BY <1>1, <1>2
<1> QED BY <1>1, <1>3

(* A reply to the last command: elements, list_OKs, and one end. *)
LEMMA ReplyShape ==
  ASSUME sent \in Nat, Head(inbox).id = sent, wire = <<>>,
         NEW n \in Nat, NEW end \in {"OK", "ACK"}, Reply(n, end)
  PROVE  /\ wire' \in Seq(Line) /\ Len(wire') \in Nat \ {0}
         /\ \A i \in 1..Len(wire') : wire'[i].of = sent
         /\ \A i \in 1..Len(wire') - 1 :
              wire'[i].text \in Elements \/ (n # 0 /\ wire'[i].text = "list_OK")
         /\ wire'[Len(wire')].text = end
<1>1. PICK k \in 0..MaxElements :
        \E body \in [1..k -> Elements] :
          wire' = wire \o Lines(body) \o Lines([i \in 1..n |-> "list_OK"]) \o Lines(<<end>>)
  BY DEF Reply
<1>3. PICK body \in [1..k -> Elements] :
        wire' = wire \o Lines(body) \o Lines([i \in 1..n |-> "list_OK"]) \o Lines(<<end>>)
  BY <1>1
<1>2. k \in Nat
  BY BoundsAssumption
<1> DEFINE ok == [i \in 1..n |-> "list_OK"]
           A == Lines(body)
           B == Lines(ok)
           C == Lines(<<end>>)
<1>4. /\ A \in Seq(Line) /\ Len(A) = k
      /\ \A i \in 1..k : A[i].of = sent /\ A[i].text \in Elements
      /\ B \in Seq(Line) /\ Len(B) = n /\ \A i \in 1..n : B[i] = [of |-> sent, text |-> "list_OK"]
      /\ C \in Seq(Line) /\ Len(C) = 1 /\ C[1] = [of |-> sent, text |-> end]
  <2>1. A \in Seq(Line) /\ Len(A) = k /\ \A i \in 1..k : A[i] = [of |-> sent, text |-> body[i]]
    <3>1. body \in [1..k -> Elements \cup {"OK", "list_OK", "ACK"}]
      OBVIOUS
    <3> QED BY <1>2, <3>1, LinesWritten
  <2>2. /\ B \in Seq(Line) /\ Len(B) = n /\ \A i \in 1..n : B[i] = [of |-> sent, text |-> "list_OK"]
    <3>1. ok \in [1..n -> Elements \cup {"OK", "list_OK", "ACK"}]
      OBVIOUS
    <3> QED BY <3>1, LinesWritten
  <2>3. /\ C \in Seq(Line) /\ Len(C) = 1 /\ C[1] = [of |-> sent, text |-> end]
    <3>1. <<end>> \in [1..1 -> Elements \cup {"OK", "list_OK", "ACK"}] /\ <<end>>[1] = end
      OBVIOUS
    <3>2. /\ C \in Seq(Line) /\ Len(C) = 1
          /\ \A i \in 1..1 : C[i] = [of |-> sent, text |-> <<end>>[i]]
      BY <3>1, LinesWritten
    <3> QED BY <3>1, <3>2
  <2>4. \A i \in 1..k : A[i].of = sent /\ A[i].text \in Elements
    <3> TAKE i \in 1..k
    <3>1. A[i] = [of |-> sent, text |-> body[i]] /\ body[i] \in Elements
      BY <2>1
    <3> HIDE DEF A
    <3> QED BY <3>1
  <2> HIDE DEF A, B, C
  <2> QED BY <2>1, <2>2, <2>3, <2>4
<1> HIDE DEF A, B, C
<1>5. wire' = A \o B \o C
  <2>1. wire' = <<>> \o A \o B \o C
    BY <1>3 DEF A, B, C
  <2>2. <<>> \o A = A
    BY <1>4, ConcatEmptySeq
  <2> QED BY <2>1, <2>2
<1>6. /\ A \o B \in Seq(Line) /\ Len(A \o B) = k + n
      /\ \A i \in 1..k + n : (A \o B)[i] = IF i <= k THEN A[i] ELSE B[i - k]
  <2>1. A \in Seq(Line) /\ B \in Seq(Line) /\ Len(A) = k /\ Len(B) = n
    BY <1>4
  <2>2. /\ A \o B \in Seq(Line) /\ Len(A \o B) = Len(A) + Len(B)
        /\ \A i \in 1..Len(A) + Len(B) :
             (A \o B)[i] = IF i <= Len(A) THEN A[i] ELSE B[i - Len(A)]
    BY <2>1, ConcatProperties
  <2> QED BY <2>1, <2>2
<1>7. /\ wire' \in Seq(Line) /\ Len(wire') = k + n + 1
      /\ \A i \in 1..k + n + 1 : wire'[i] = IF i <= k + n THEN (A \o B)[i] ELSE C[i - (k + n)]
  <2> DEFINE D == A \o B
  <2>1. D \in Seq(Line) /\ Len(D) = k + n /\ wire' = D \o C
    BY <1>5, <1>6
  <2> HIDE DEF D
  <2>2. D \in Seq(Line) /\ C \in Seq(Line)
    BY <1>4, <2>1
  <2>3. /\ D \o C \in Seq(Line) /\ Len(D \o C) = Len(D) + Len(C)
        /\ \A i \in 1..Len(D) + Len(C) :
             (D \o C)[i] = IF i <= Len(D) THEN D[i] ELSE C[i - Len(D)]
    BY <2>2, ConcatProperties
  <2> QED BY <1>4, <2>1, <2>3 DEF D
<1>8. \A i \in 1..k + n : /\ wire'[i].of = sent
                          /\ wire'[i].text \in Elements \/ (n # 0 /\ wire'[i].text = "list_OK")
  <2> TAKE i \in 1..k + n
  <2>1. wire'[i] = IF i <= k THEN A[i] ELSE B[i - k]
    <3>1. i \in 1..k + n + 1 /\ i <= k + n
      BY <1>2
    <3> QED BY <1>6, <1>7, <3>1
  <2>2. CASE i <= k
    BY <1>2, <1>4, <2>1, <2>2
  <2>3. CASE i > k
    <3>1. i - k \in 1..n /\ n # 0
      BY <1>2, <2>3
    <3>2. wire'[i] = [of |-> sent, text |-> "list_OK"]
      BY <1>4, <2>1, <2>3, <3>1
    <3> QED BY <3>1, <3>2
  <2> QED BY <1>2, <2>2, <2>3
<1>9. wire'[k + n + 1] = [of |-> sent, text |-> end]
  BY <1>2, <1>4, <1>7
<1>10. \A i \in 1..k + n + 1 : i \in 1..k + n \/ i = k + n + 1
  BY <1>2
<1>11. \A i \in 1..k + n + 1 : wire'[i].of = sent
  BY <1>8, <1>9, <1>10
<1>12. k + n + 1 \in Nat \ {0} /\ k + n + 1 - 1 = k + n
  BY <1>2
<1>13. wire' \in Seq(Line) /\ Len(wire') = k + n + 1
  BY <1>7
<1> QED BY <1>8, <1>9, <1>11, <1>12, <1>13

LEMMA SingleInit == Init => SingleInv
<1> SUFFICES ASSUME Init PROVE SingleInv
  OBVIOUS
<1>1. wire \in Seq(Line) /\ Len(wire) = 0
  BY EmptySeq DEF Init
<1>2. QED BY <1>1 DEF Init, Fresh, SingleInv

LEMMA ReconnectSingle == Reconnect => SingleInv'
<1> SUFFICES ASSUME Reconnect PROVE SingleInv'
  OBVIOUS
<1>1. wire' \in Seq(Line) /\ Len(wire') = 0
  BY EmptySeq DEF Reconnect
<1>2. QED BY <1>1 DEF Reconnect, Fresh, SingleInv

(* A line is taken from the wire: what is left has the same end. *)
LEMMA OneLineLess ==
  ASSUME SingleInv, wire # <<>>, wire' = Tail(wire), sent' = sent
  PROVE  /\ inbox = <<>> /\ Head(wire) = wire[1] /\ wire' \in Seq(Line)
         /\ \A i \in 1..Len(wire') :
              wire'[i].of = sent /\ (wire'[i].text \in {"OK", "ACK"} <=> i = Len(wire'))
         /\ Head(wire).text \in {"OK", "ACK"} <=> wire' = <<>>
<1>1. inbox = <<>> /\ wire \in Seq(Line)
  BY DEF SingleInv
<1>2. /\ Len(wire) \in Nat \ {0} /\ wire' \in Seq(Line) /\ Len(wire') = Len(wire) - 1
      /\ \A i \in 1..Len(wire') : wire'[i] = wire[i + 1]
      /\ Head(wire) = wire[1]
  BY <1>1, EmptySeq, HeadTailProperties
<1>3. \A i \in 1..Len(wire') :
        wire'[i].of = sent /\ (wire'[i].text \in {"OK", "ACK"} <=> i = Len(wire'))
  <2> TAKE i \in 1..Len(wire')
  <2>1. i + 1 \in 1..Len(wire) /\ wire'[i] = wire[i + 1] /\ (i = Len(wire') <=> i + 1 = Len(wire))
    BY <1>2
  <2> QED BY <2>1 DEF SingleInv
<1>4. Head(wire).text \in {"OK", "ACK"} <=> Len(wire) = 1
  <2>1. 1 \in 1..Len(wire) /\ (1 = Len(wire) <=> Len(wire) = 1)
    BY <1>2
  <2>2. wire[1].text \in {"OK", "ACK"} <=> 1 = Len(wire)
    BY <2>1 DEF SingleInv
  <2> QED BY <1>2, <2>1, <2>2
<1>5. Len(wire) = 1 <=> wire' = <<>>
  <2>1. Len(wire) = 1 <=> Len(wire') = 0
    BY <1>2
  <2>2. Len(wire') = 0 <=> wire' = <<>>
    BY <1>2, EmptySeq
  <2> QED BY <2>1, <2>2
<1> QED BY <1>1, <1>2, <1>3, <1>4, <1>5

(* One line is read: while the reply is not over nothing else is under     *)
(* way, and after its end nothing is left.                                 *)
LEMMA GetNextSingle ==
  ASSUME SingleInv, ~done, at \in {"read", "finish"}, NEW d \in BOOLEAN, GetNext(d),
         UNCHANGED <<section, left>>, at' = at \/ (at' = "got" /\ section = "status"),
         at' = "got" /\ ~done' => wire # <<>> /\ wire' = Tail(wire)
  PROVE  SingleInv'
<1>1. error \in {"none", "protocol"} /\ ~partial /\ left = 0 /\ at' \in {"read", "finish", "got"}
      /\ UNCHANGED <<listMode, collecting, sent, partial, inbox>>
  BY DEF SingleInv, GetNext, server
<1>2. CASE wire # <<>> /\ Digest(Head(wire).text, d) /\ wire' = Tail(wire)
  <2>1. /\ inbox = <<>> /\ wire' \in Seq(Line)
        /\ \A i \in 1..Len(wire') :
              wire'[i].of = sent /\ (wire'[i].text \in {"OK", "ACK"} <=> i = Len(wire'))
        /\ Head(wire).text \in {"OK", "ACK"} <=> wire' = <<>>
    BY <1>1, <1>2, OneLineLess
  <2>2. /\ listOks' = 0 /\ (Head(wire).text \in {"OK", "ACK"} <=> done')
        /\ ~done' => error' \in {"none", "protocol"}
    <3>1. wire \in Seq(Line) /\ listOks = 0
      BY DEF SingleInv
    <3> QED BY <1>1, <1>2, <3>1, DigestLine
  <2> QED BY <1>1, <2>1, <2>2 DEF SingleInv
<1>3. CASE error' = "fatal" /\ done' = TRUE /\ UNCHANGED <<listOks, wire>>
  BY <1>1, <1>3 DEF SingleInv, Pending
<1>4. QED BY <1>2, <1>3 DEF GetNext

LEMMA ReadStatusSingle == SingleInv /\ doneListOk \in BOOLEAN /\ ReadStatus => SingleInv'
<1> SUFFICES ASSUME SingleInv, doneListOk \in BOOLEAN, ReadStatus PROVE SingleInv'
  OBVIOUS
<1>1. /\ at = "read" /\ ~done /\ GetNext(doneListOk) /\ section = "status"
      /\ at' \in {"read", "got"} /\ UNCHANGED <<section, left>>
  BY DEF ReadStatus
<1>2. ~done' => wire # <<>> /\ wire' = Tail(wire)
  BY <1>1 DEF GetNext
<1> QED BY <1>1, <1>2, GetNextSingle

LEMMA ServeSingle == SingleInv /\ Serve => SingleInv'
<1> SUFFICES ASSUME SingleInv, Serve PROVE SingleInv'
  OBVIOUS
<1>1. /\ inbox = <<Pending>> /\ wire = <<>> /\ sent \in Nat /\ collecting = "no"
      /\ UNCHANGED <<done, listMode, listOks, error, section, at, left, sent, partial>>
  BY DEF SingleInv, Serve, engine, caller
<1>2. inbox' = <<>>
  BY <1>1 DEF Serve
<1>3. Answer /\ Head(inbox).kind = "plain"
  BY <1>1 DEF Serve, Collect, Pending
<1>4. (\E end \in {"OK", "ACK"} : Reply(0, end)) /\ collecting' = collecting
  BY <1>3 DEF Answer, Lists
<1>5. /\ wire' \in Seq(Line) /\ wire' # <<>>
      /\ \A i \in 1..Len(wire') :
           wire'[i].of = sent /\ (wire'[i].text \in {"OK", "ACK"} <=> i = Len(wire'))
  <2>1. PICK end \in {"OK", "ACK"} : Reply(0, end)
    BY <1>4
  <2>2. /\ wire' \in Seq(Line) /\ Len(wire') \in Nat \ {0}
        /\ \A i \in 1..Len(wire') : wire'[i].of = sent
        /\ \A i \in 1..Len(wire') - 1 : wire'[i].text \in Elements
        /\ wire'[Len(wire')].text = end
    BY <1>1, <2>1, ReplyShape DEF Pending
  <2>3. "OK" \notin Elements /\ "ACK" \notin Elements
    BY ElementsAssumption DEF Malformed
  <2>4. \A i \in 1..Len(wire') : i \in 1..Len(wire') - 1 \/ i = Len(wire')
    BY <2>2
  <2>5. wire' # <<>>
    BY <2>2, EmptySeq
  <2> QED BY <2>1, <2>2, <2>3, <2>4, <2>5
<1>6. ~(done /\ error \in {"none", "ack"})
  BY <1>1 DEF SingleInv
<1>7. QED BY <1>1, <1>2, <1>4, <1>5, <1>6 DEF SingleInv

(* A command is put on an empty wire, or is not sent at all. *)
LEMMA SendSingle == SingleInv /\ Send => SingleInv'
<1> SUFFICES ASSUME SingleInv, Send PROVE SingleInv'
  OBVIOUS
<1>1. /\ at = "send" /\ left = 1 /\ listMode = "no" /\ section \in {"single", "status"}
      /\ listOks = 0 /\ error = "none" /\ collecting = "no" /\ sent \in Nat
  BY DEF SingleInv, Send
<1>2. /\ at' = "read" /\ left' = 0 /\ listOks' = 0 /\ listMode' = "no" /\ section' = section
      /\ wire' = wire /\ collecting' = collecting
  BY <1>1 DEF Send, Execute, server
<1>3. CASE ~done
  <2>1. error' = "protocol" /\ UNCHANGED <<done, sent, partial, inbox>>
    BY <1>1, <1>3 DEF Send, Execute
  <2> QED BY <1>1, <1>2, <1>3, <2>1 DEF SingleInv, Pending
<1>4. CASE done
  <2>1. inbox = <<>> /\ wire = <<>> /\ ~partial
    BY <1>1, <1>4 DEF SingleInv
  <2>2. wire' \in Seq(Line) /\ Len(wire') = 0
    BY <1>2, <2>1, EmptySeq
  <2>3. CASE /\ error' = "none" /\ sent' = sent + 1 /\ partial' = FALSE
             /\ inbox' = Append(inbox, [id |-> sent + 1, kind |-> "plain"])
             /\ done' = FALSE
    <3>1. inbox' = <<Pending>>'
      BY <2>1, <2>3 DEF Pending
    <3> QED BY <1>1, <1>2, <2>1, <2>2, <2>3, <3>1 DEF SingleInv
  <2>4. CASE error' = "fatal" /\ UNCHANGED <<done, sent, inbox>>
    BY <1>1, <1>2, <1>4, <2>1, <2>2, <2>4 DEF SingleInv
  <2> QED BY <1>1, <1>4, <2>1, <2>3, <2>4 DEF Send, Execute
<1> QED BY <1>3, <1>4

(* What a status, statistics or search statistics section that did not     *)
(* reach the end of its reply leaves is the end of that reply.             *)
LEMMA SingleStep ==
  ASSUME Sections \subseteq {"single", "status"}
  PROVE  SingleInv /\ TypeOK /\ [Next]_vars => SingleInv'
<1> SUFFICES ASSUME SingleInv, TypeOK, [Next]_vars PROVE SingleInv'
  OBVIOUS
<1>1. CASE Start
  <2>1. /\ at = "idle" /\ at' = "send" /\ left' = 1 /\ section' \in {"single", "status"}
        /\ UNCHANGED <<engine, channel>>
    BY <1>1 DEF Start, Lists
  <2>2. UNCHANGED <<done, listMode, listOks, error, sent, partial, inbox, collecting, wire>>
    BY <2>1 DEF engine, channel, server
  <2> QED BY <2>1, <2>2 DEF SingleInv, Pending
<1>2. CASE ListBegin \/ ListEnd \/ NextListOk \/ Loaded
  BY <1>2 DEF SingleInv, ListBegin, ListEnd, NextListOk, Loaded
<1>3. CASE Send
  BY <1>3, SendSingle
<1>4. CASE Read
  <2>1. GetNext(doneListOk) /\ at = "read" /\ ~done /\ UNCHANGED <<section, at, left>>
    BY <1>4 DEF Read, caller
  <2>2. doneListOk \in BOOLEAN
    BY DEF TypeOK
  <2> QED BY <2>1, <2>2, GetNextSingle
<1>5. CASE ReadStatus
  BY <1>5, ReadStatusSingle DEF TypeOK
<1>6. CASE StatusGot
  <2>1. /\ at' = "check" /\ section = "status" /\ at \in {"read", "got"}
        /\ error' = error \/ (error = "none" /\ error' = "protocol")
        /\ at = "read" => done /\ error' = error
        /\ UNCHANGED <<done, listMode, listOks, section, left, sent, partial, inbox, collecting, wire>>
    BY <1>6 DEF StatusGot, channel, server, SingleInv
  <2> QED BY <2>1 DEF SingleInv, Pending
<1>7. CASE StopReading
  <2>1. /\ at = "read" /\ at' = "finish"
        /\ UNCHANGED <<done, listMode, listOks, error, section, left, sent, partial, inbox, collecting, wire>>
    BY <1>7 DEF StopReading, engine, channel, server
  <2> QED BY <2>1 DEF SingleInv, Pending
<1>8. CASE Finish
  <2>1. GetNext(FALSE) /\ at = "finish" /\ ~done /\ UNCHANGED <<section, at, left>>
    BY <1>8 DEF Finish, caller
  <2> QED BY <2>1, GetNextSingle
<1>9. CASE Finished
  <2>1. /\ at = "finish" /\ done /\ at' \in {"send", "loaded", "idle", "check"}
        /\ section \in {"single", "status"} /\ left = 0 => at' = "check"
        /\ UNCHANGED <<done, listMode, listOks, error, section, left, sent, partial, inbox, collecting, wire>>
    BY <1>9 DEF Finished, engine, channel, server, Lists
  <2> QED BY <2>1 DEF SingleInv, Pending
<1>10. CASE Check
  <2>1. CASE Reconnect
    BY <2>1, ReconnectSingle
  <2>2. CASE /\ error \in {"none", "ack"} /\ error' = "none" /\ at' = "idle"
             /\ UNCHANGED <<done, listMode, listOks, section, left, channel>>
    <3>1. at = "check"
      BY <1>10 DEF Check
    <3>2. UNCHANGED <<sent, partial, inbox, collecting, wire>>
      BY <2>2 DEF channel, server
    <3>3. QED BY <2>2, <3>1, <3>2 DEF SingleInv, Pending
  <2>3. QED BY <1>10, <2>1, <2>2 DEF Check
<1>11. CASE Disconnect
  BY <1>11, ReconnectSingle DEF Disconnect
<1>12. CASE Serve
  BY <1>12, ServeSingle
<1>13. CASE ServerCloses \/ UNCHANGED vars
  <2>1. UNCHANGED <<done, listMode, listOks, error, section, at, left, sent, partial, inbox, collecting, wire>>
    BY <1>13 DEF ServerCloses, vars, engine, caller, channel, server
  <2> QED BY <2>1 DEF SingleInv, Pending
<1>14. QED
  BY <1>1, <1>2, <1>3, <1>4, <1>5, <1>6, <1>7, <1>8, <1>9, <1>10, <1>11, <1>12, <1>13
     DEF Next, Section

-----------------------------------------------------------------------------
(* The engine with checked sections implements RequestReply.               *)

LEMMA AbstractInit == Init => Abstract!Init
  BY DEF Init, Fresh, Phase, Unread, Waiting, Abstract!Init

(* Nothing is on its way to a section that does not wait. *)
LEMMA ReconnectAbstract ==
  ASSUME SingleInv, at \in {"idle", "check"}, Reconnect,
         at = "check" => error # "none"
  PROVE  Abstract!Next
<1>1. ~Waiting /\ at' = "idle" /\ sent' = 0 /\ error' = "none" /\ done'
  BY DEF Reconnect, Fresh, Waiting
<1>2. Phase' = "idle" /\ Unread' = <<>>
  BY <1>1 DEF Phase, Waiting, Unread
<1>3. CASE at = "idle"
  <2>1. Abstract!Renew
    BY <1>1, <1>2, <1>3 DEF SingleInv, Phase, Abstract!Renew
  <2> QED BY <2>1 DEF Abstract!Next
<1>4. CASE at = "check"
  <2>1. Abstract!Return
    BY <1>1, <1>2, <1>4 DEF Phase, Abstract!Return
  <2> QED BY <2>1 DEF Abstract!Next
<1> QED BY <1>3, <1>4

LEMMA SendAbstract == SingleInv /\ Send => Abstract!Next
<1> SUFFICES ASSUME SingleInv, Send PROVE Abstract!Next
  OBVIOUS
<1>1. /\ at = "send" /\ at' = "read" /\ listMode = "no" /\ error = "none" /\ wire' = wire
  BY DEF SingleInv, Send, Execute
<1>2. Phase = "called" /\ (Waiting' <=> ~done') /\ (Phase' = IF done' THEN "over" ELSE "waiting")
  BY <1>1 DEF Waiting, Phase
<1>3. CASE ~done
  <2>1. wire # <<>> /\ Unread = wire
    BY <1>1, <1>3 DEF SingleInv, Unread
  <2>2. error' = "protocol" /\ UNCHANGED <<done, sent>>
    BY <1>1, <1>3 DEF Send, Execute
  <2>3. Unread' = wire
    BY <1>1, <1>3, <2>2 DEF Unread
  <2>4. Abstract!Refuse
    BY <1>2, <1>3, <2>1, <2>2, <2>3 DEF Abstract!Refuse
  <2> QED BY <2>4 DEF Abstract!Next
<1>4. CASE done
  <2>1. wire = <<>>
    BY <1>1, <1>4 DEF SingleInv
  <2>2. Unread = <<>> /\ Unread' = <<>>
    BY <1>1, <1>4, <2>1 DEF Unread
  <2>3. \/ error' = "none" /\ sent' = sent + 1 /\ ~done'
        \/ error' = "fatal" /\ UNCHANGED <<done, sent>>
    BY <1>1, <1>4 DEF Send, Execute
  <2>4. Abstract!Ask
    BY <1>1, <1>2, <1>4, <2>2, <2>3 DEF Abstract!Ask
  <2> QED BY <2>4 DEF Abstract!Next
<1> QED BY <1>3, <1>4

(* mpd_getNextReturnElement reads a line of the reply, or gives it up; the *)
(* reading of a status ends with the end of the reply, with an error, or   *)
(* at a bare line.                                                         *)
LEMMA GetNextAbstract ==
  ASSUME SingleInv, Waiting, NEW d \in BOOLEAN, GetNext(d),
         at' = at \/ (at' = "got" /\ (error' = "none" => Head(wire).text # "pair"))
  PROVE  Abstract!Next
<1>1. /\ at \in {"read", "finish"} /\ ~done /\ sent' = sent /\ listOks = 0 /\ wire \in Seq(Line)
      /\ error \in {"none", "protocol"} /\ Phase = "waiting" /\ Unread = wire
  BY DEF SingleInv, Waiting, GetNext, Phase, Unread
<1>2. Phase' = IF done' \/ at' = "got" THEN "over" ELSE "waiting"
  BY <1>1 DEF Phase, Waiting
<1>3. CASE wire # <<>> /\ Digest(Head(wire).text, d) /\ wire' = Tail(wire)
  <2> DEFINE t == Head(wire).text
  <2>1. /\ t \in {"pair", "junk", "bare", "list_OK", "OK", "ACK"}
        /\ done' <=> t \in {"OK", "ACK"}
        /\ error' = CASE t = "ACK" -> "ack" [] t \in {"junk", "list_OK"} -> "protocol" [] OTHER -> error
    BY <1>1, <1>3, DigestLine
  <2>2. t \in {"OK", "ACK"} <=> wire' = <<>>
    BY <1>1, <1>3, OneLineLess
  <2> HIDE DEF t
  <2>3. Unread' = Tail(wire)
    BY <1>3, <2>1, <2>2 DEF Unread
  <2>4. \/ Phase' = "over" /\ (t \in {"OK", "ACK", "bare"} \/ error' = "protocol")
        \/ Phase' = "waiting" /\ t \notin {"OK", "ACK"}
    <3>1. CASE done'
      BY <1>2, <2>1, <3>1
    <3>2. CASE ~done' /\ at' # "got"
      BY <1>2, <2>1, <3>2
    <3>3. CASE ~done' /\ at' = "got"
      <4>1. error' = "none" => t # "pair"
        BY <1>1, <3>3 DEF t
      <4> QED BY <1>1, <1>2, <2>1, <3>3, <4>1
    <3> QED BY <3>1, <3>2, <3>3
  <2>5. Abstract!Read
    BY <1>1, <1>3, <2>1, <2>3, <2>4 DEF t, Abstract!Read, Abstract!Ends
  <2> QED BY <2>5 DEF Abstract!Next
<1>4. CASE error' = "fatal" /\ done' = TRUE
  <2>1. Abstract!GiveUp
    BY <1>1, <1>2, <1>4 DEF Unread, Abstract!GiveUp
  <2> QED BY <2>1 DEF Abstract!Next
<1> QED BY <1>3, <1>4 DEF GetNext

(* What the server answers in time is a whole reply; what it answers late  *)
(* is a stutter.                                                           *)
LEMMA ServeAbstract == SingleInv /\ Serve => Abstract!Next \/ UNCHANGED Abstract!vars
<1> SUFFICES ASSUME SingleInv, Serve PROVE Abstract!Next \/ UNCHANGED Abstract!vars
  OBVIOUS
<1>1. UNCHANGED <<at, done, error, sent>> /\ (Waiting' <=> Waiting)
  BY DEF Serve, engine, caller, Waiting
<1>2. CASE ~Waiting
  <2>1. Phase' = Phase
    BY <1>1, <1>2 DEF Phase
  <2>2. done
    BY <1>2 DEF SingleInv, Serve, Waiting
  <2>3. Unread' = Unread
    BY <1>1, <2>2 DEF Unread
  <2> QED BY <1>1, <2>1, <2>3 DEF Abstract!vars
<1>3. CASE Waiting
  <2>1. inbox = <<Pending>> /\ wire = <<>> /\ sent \in Nat
    BY DEF SingleInv, Serve
  <2>2. Answer /\ Head(inbox).kind = "plain"
    BY <2>1 DEF SingleInv, Serve, Collect, Pending
  <2>3. PICK end \in {"OK", "ACK"} : Reply(0, end)
    BY <2>2 DEF Answer, Lists
  <2>4. /\ wire' \in Seq(Line) /\ Len(wire') \in Nat \ {0}
        /\ \A i \in 1..Len(wire') : wire'[i].of = sent
        /\ \A i \in 1..Len(wire') - 1 : wire'[i].text \in Elements
        /\ wire'[Len(wire')].text = end
    BY <2>1, <2>3, ReplyShape DEF Pending
  <2>5. Abstract!Whole(wire', sent)
    <3> DEFINE Own == [of : {sent}, text : Elements \cup Abstract!Ends]
    <3>1. "OK" \notin Elements /\ "ACK" \notin Elements
      BY ElementsAssumption DEF Malformed
    <3>2. \A i \in 1..Len(wire') :
            /\ wire'[i] \in Line
            /\ wire'[i].text \in Elements \cup Abstract!Ends
            /\ wire'[i].text \in Abstract!Ends <=> i = Len(wire')
      <4> TAKE i \in 1..Len(wire')
      <4>1. i \in 1..Len(wire') - 1 \/ i = Len(wire')
        BY <2>4
      <4>2. wire'[i] \in Line
        BY <2>4, ElementOfSeq
      <4> QED BY <2>4, <3>1, <4>1, <4>2 DEF Abstract!Ends
    <3>3. \A i \in 1..Len(wire') : wire'[i] \in Own
      BY <2>4, <3>2 DEF Line
    <3>4. wire' \in Seq(Own)
      <4> HIDE DEF Own
      <4> QED BY <2>4, <3>3
    <3>5. wire' # <<>>
      BY <2>4, EmptySeq
    <3> QED BY <3>2, <3>4, <3>5 DEF Abstract!Whole
  <2>6. Abstract!Answer
    <3>1. Phase = "waiting" /\ Phase' = "waiting" /\ Unread = <<>> /\ Unread' = wire'
      <4>1. Waiting /\ Waiting'
        BY <1>1, <1>3
      <4>2. Unread = wire /\ Unread' = wire'
        BY <4>1 DEF Unread, Waiting
      <4>3. Phase = "waiting" /\ Phase' = "waiting"
        BY <4>1 DEF Phase, Waiting
      <4> QED BY <2>1, <4>2, <4>3
    <3>2. Abstract!Whole(Unread', sent)
      BY <2>5, <3>1
    <3> QED BY <1>1, <3>1, <3>2 DEF Abstract!Answer
  <2> QED BY <2>6 DEF Abstract!Next
<1> QED BY <1>2, <1>3

LEMMA AbstractStep ==
  ASSUME Sections \subseteq {"single", "status"}, SingleInv, TypeOK, [Next]_vars
  PROVE  Abstract!Next \/ UNCHANGED Abstract!vars
<1>1. CASE Start
  <2>1. at = "idle" /\ at' = "send" /\ UNCHANGED <<done, error, sent, wire>>
    BY <1>1 DEF Start, engine, channel, Lists
  <2>2. Phase = "idle" /\ Phase' = "called" /\ Unread' = Unread
    BY <2>1 DEF Phase, Waiting, Unread
  <2>3. Abstract!Call
    BY <2>1, <2>2 DEF Abstract!Call
  <2> QED BY <2>3 DEF Abstract!Next
<1>2. CASE ListBegin \/ ListEnd \/ NextListOk \/ Loaded
  BY <1>2 DEF SingleInv, ListBegin, ListEnd, NextListOk, Loaded
<1>3. CASE Send
  BY <1>3, SendAbstract
<1>4. CASE Read \/ Finish \/ ReadStatus
  <2>1. /\ Waiting /\ \E d \in BOOLEAN : GetNext(d)
        /\ at' = at \/ (at' = "got" /\ (error' = "none" => Head(wire).text # "pair"))
    BY <1>4 DEF Read, Finish, ReadStatus, Waiting, TypeOK, caller
  <2> QED BY <2>1, GetNextAbstract
<1>5. CASE StopReading \/ Finished
  <2>1. /\ UNCHANGED <<done, error, sent, wire>>
        /\ at \in {"read", "finish"} /\ at' \in {"finish", "check"} /\ (at' = "check" => done)
    BY <1>5 DEF SingleInv, StopReading, Finished, engine, channel, Lists
  <2>2. Phase' = Phase /\ Unread' = Unread
    BY <2>1 DEF Phase, Waiting, Unread
  <2> QED BY <2>1, <2>2 DEF Abstract!vars
<1>6. CASE StatusGot
  <2>1. /\ UNCHANGED <<done, sent, wire>> /\ at' = "check" /\ (at = "got" \/ (at = "read" /\ done))
        /\ error' = error \/ (error = "none" /\ error' = "protocol")
    BY <1>6 DEF SingleInv, StatusGot, channel
  <2>2. Phase = "over" /\ Phase' = "over" /\ Unread' = Unread
    BY <2>1 DEF Phase, Waiting, Unread
  <2>3. CASE error' = error
    BY <2>1, <2>2, <2>3 DEF Abstract!vars
  <2>4. CASE error = "none" /\ error' = "protocol"
    <3>1. Abstract!Complain
      BY <2>1, <2>2, <2>4 DEF Abstract!Complain
    <3> QED BY <3>1 DEF Abstract!Next
  <2> QED BY <2>1, <2>3, <2>4
<1>7. CASE Check
  <2>1. CASE error # "none" /\ Reconnect
    BY <1>7, <2>1, ReconnectAbstract DEF Check
  <2>2. CASE error \in {"none", "ack"} /\ error' = "none" /\ at' = "idle" /\ UNCHANGED <<done, channel>>
    <3>1. at = "check" /\ UNCHANGED <<sent, wire>>
      BY <1>7, <2>2 DEF Check, channel
    <3>2. Phase = "over" /\ Phase' = "idle" /\ Unread' = Unread
      BY <2>2, <3>1 DEF Phase, Waiting, Unread
    <3>3. Abstract!Return
      BY <2>2, <3>1, <3>2 DEF Abstract!Return
    <3> QED BY <3>3 DEF Abstract!Next
  <2> QED BY <1>7, <2>1, <2>2 DEF Check
<1>8. CASE Disconnect
  BY <1>8, ReconnectAbstract DEF Disconnect
<1>9. CASE Serve
  BY <1>9, ServeAbstract
<1>10. CASE ServerCloses \/ UNCHANGED vars
  <2>1. UNCHANGED <<done, error, at, sent, wire>>
    BY <1>10 DEF ServerCloses, vars, engine, caller, channel
  <2>2. Phase' = Phase /\ Unread' = Unread
    BY <2>1 DEF Phase, Waiting, Unread
  <2> QED BY <2>1, <2>2 DEF Abstract!vars
<1> QED
  BY <1>1, <1>2, <1>3, <1>4, <1>5, <1>6, <1>7, <1>8, <1>9, <1>10 DEF Next, Section

-----------------------------------------------------------------------------
(* Types. A caller has commands to send where it is about to send them, or *)
(* left would go below zero.                                               *)

TypeInv ==
  /\ TypeOK /\ ReadyInv
  /\ at = "send" => left # 0

LEMMA TypeInit == Init => TypeInv
<1> SUFFICES ASSUME Init PROVE TypeInv
  OBVIOUS
<1>1. inbox \in Seq(Command) /\ wire \in Seq(Line)
  BY EmptySeq DEF Init
<1>2. TypeOK
  BY <1>1 DEF Init, Fresh, TypeOK, ListMode, SectionKind
<1> QED BY <1>2, ReadyInit DEF Init, TypeInv

(* mpd_executeCommand puts at most one command on the wire. *)
LEMMA ExecuteTypes ==
  ASSUME TypeInv, NEW kind \in {"plain", "list", "listOk", "end"}, NEW m \in ListMode,
         Execute(kind, m)
  PROVE  /\ done' \in BOOLEAN /\ listMode' \in ListMode
         /\ error' \in {"none", "protocol", "fatal"}
         /\ sent' \in Nat /\ partial' \in BOOLEAN /\ inbox' \in Seq(Command)
         /\ UNCHANGED <<doneListOk, code, collecting, gathered, spoiled, open, wire>>
<1>1. /\ done \in BOOLEAN /\ partial \in BOOLEAN /\ sent \in Nat /\ inbox \in Seq(Command)
      /\ listMode' \in ListMode
      /\ UNCHANGED <<doneListOk, code, collecting, gathered, spoiled, open, wire>>
  BY DEF TypeInv, TypeOK, Execute, server
<1>2. CASE error' \in {"protocol", "fatal"} /\ done' = done /\ sent' = sent /\ inbox' = inbox
           /\ partial' \in {partial, TRUE}
  BY <1>1, <1>2
<1>3. CASE /\ error' = "none" /\ sent' = sent + 1 /\ partial' = FALSE
           /\ done' = (done /\ m # "no")
           /\ inbox' = Append(inbox, [id |-> sent + 1,
                                     kind |-> IF partial THEN "garbled" ELSE kind])
  <2> DEFINE c == [id |-> sent + 1, kind |-> IF partial THEN "garbled" ELSE kind]
  <2>1. c \in Command
    BY <1>1 DEF Command
  <2>2. inbox' \in Seq(Command)
    <3> HIDE DEF c
    <3>1. Append(inbox, c) \in Seq(Command)
      BY <1>1, <2>1, AppendProperties
    <3> QED BY <1>3, <3>1 DEF c
  <2>3. done' \in BOOLEAN
    BY <1>3
  <2>4. sent' \in Nat
    BY <1>1, <1>3
  <2> QED BY <1>1, <1>3, <2>2, <2>3, <2>4
<1> QED BY <1>2, <1>3 DEF Execute

(* A line is taken from the wire, or none is. *)
LEMMA GetNextTypes ==
  ASSUME TypeInv, NEW d \in BOOLEAN, GetNext(d)
  PROVE  /\ done' \in BOOLEAN /\ doneListOk' \in BOOLEAN /\ listOks' \in Nat
         /\ error' \in {"none", "protocol", "ack", "fatal"}
         /\ code' \in {"none", "noExist", "other"}
         /\ wire' \in Seq(Line)
         /\ UNCHANGED <<listMode, sent, partial, inbox, collecting, gathered, spoiled, open>>
<1>1. /\ done \in BOOLEAN /\ doneListOk \in BOOLEAN /\ listOks \in Nat
      /\ error \in {"none", "protocol", "ack", "fatal"}
      /\ code \in {"none", "noExist", "other"} /\ wire \in Seq(Line)
      /\ UNCHANGED <<listMode, sent, partial, inbox, collecting, gathered, spoiled, open>>
  BY DEF TypeInv, TypeOK, GetNext, server
<1>2. CASE wire # <<>> /\ Digest(Head(wire).text, d) /\ wire' = Tail(wire)
  <2>1. wire' \in Seq(Line)
    BY <1>1, <1>2, HeadTailProperties
  <2>2. /\ done' \in BOOLEAN /\ doneListOk' \in BOOLEAN /\ listOks' \in Nat
        /\ error' \in {"none", "protocol", "ack", "fatal"}
        /\ code' \in {"none", "noExist", "other"}
    <3> DEFINE t == Head(wire).text
    <3> HIDE DEF t
    <3>1. Digest(t, d)
      BY <1>2 DEF t
    <3>2. CASE t = "OK"
      <4>1. /\ done' = TRUE /\ doneListOk' = FALSE /\ listOks' = 0 /\ code' = code
            /\ error' \in {error, "protocol"}
        BY <3>1, <3>2 DEF Digest
      <4> QED BY <1>1, <4>1
    <3>3. CASE t = "list_OK"
      <4>1. /\ done' = done /\ code' = code /\ doneListOk' \in BOOLEAN
            /\ error' \in {error, "protocol"}
            /\ listOks' = listOks \/ (listOks # 0 /\ listOks' = listOks - 1)
        BY <3>1, <3>3 DEF Digest
      <4>2. listOks' \in Nat
        BY <1>1, <4>1
      <4> QED BY <1>1, <4>1, <4>2
    <3>4. CASE t = "ACK"
      BY <1>1, <3>1, <3>4 DEF Digest
    <3>5. CASE t \notin {"OK", "list_OK", "ACK"}
      BY <1>1, <3>1, <3>5 DEF Digest
    <3> QED BY <3>2, <3>3, <3>4, <3>5
  <2> QED BY <1>1, <2>1, <2>2
<1>3. CASE /\ error' = "fatal" /\ done' = TRUE /\ doneListOk' = FALSE
           /\ UNCHANGED <<listOks, code, wire>>
  BY <1>1, <1>3
<1> QED BY <1>2, <1>3 DEF GetNext

(* A reply is a sequence of lines. *)
LEMMA ReplyTypes ==
  ASSUME wire \in Seq(Line), inbox # <<>>, inbox \in Seq(Command),
         NEW n \in Nat, NEW end \in {"OK", "ACK"}, Reply(n, end)
  PROVE  wire' \in Seq(Line)
<1>1. PICK k \in 0..MaxElements :
        \E body \in [1..k -> Elements] :
          wire' = wire \o Lines(body) \o Lines([i \in 1..n |-> "list_OK"]) \o Lines(<<end>>)
  BY DEF Reply
<1>2. PICK body \in [1..k -> Elements] :
        wire' = wire \o Lines(body) \o Lines([i \in 1..n |-> "list_OK"]) \o Lines(<<end>>)
  BY <1>1
<1>3. k \in Nat /\ Head(inbox).id \in Nat
  <2>1. Head(inbox) \in Command
    BY HeadTailProperties
  <2> QED BY <2>1, BoundsAssumption DEF Command
<1> DEFINE ok == [i \in 1..n |-> "list_OK"]
           A == Lines(body)
           B == Lines(ok)
           C == Lines(<<end>>)
<1>5. A \in Seq(Line) /\ B \in Seq(Line) /\ C \in Seq(Line)
  <2>1. /\ body \in [1..k -> Elements \cup {"OK", "list_OK", "ACK"}]
        /\ ok \in [1..n -> Elements \cup {"OK", "list_OK", "ACK"}]
        /\ <<end>> \in [1..1 -> Elements \cup {"OK", "list_OK", "ACK"}]
    OBVIOUS
  <2> QED BY <1>3, <2>1, LinesWritten
<1> HIDE DEF A, B, C
<1>6. wire' = wire \o A \o B \o C
  BY <1>2 DEF A, B, C
<1>7. wire \o A \in Seq(Line)
  BY <1>5, ConcatProperties
<1>8. wire \o A \o B \in Seq(Line)
  BY <1>5, <1>7, ConcatProperties
<1>9. wire \o A \o B \o C \in Seq(Line)
  BY <1>5, <1>8, ConcatProperties
<1> QED BY <1>6, <1>9

LEMMA ReconnectTypes == Reconnect => TypeOK' /\ at' = "idle"
<1> SUFFICES ASSUME Reconnect PROVE TypeOK' /\ at' = "idle"
  OBVIOUS
<1>1. inbox' \in Seq(Command) /\ wire' \in Seq(Line)
  BY EmptySeq DEF Reconnect
<1> QED BY <1>1 DEF Reconnect, Fresh, TypeOK, ListMode, SectionKind

(* The server takes one command and answers it, or puts it by. *)
LEMMA ServeTypes == TypeInv /\ Serve => TypeOK'
<1> SUFFICES ASSUME TypeInv, Serve PROVE TypeOK'
  OBVIOUS
<1>1. /\ inbox # <<>> /\ inbox \in Seq(Command) /\ wire \in Seq(Line)
      /\ gathered \in Nat /\ spoiled \in BOOLEAN /\ collecting \in ListMode
      /\ inbox' = Tail(inbox) /\ UNCHANGED <<engine, caller, sent, partial, open>>
  BY DEF Serve, TypeInv, TypeOK
<1>2. inbox' \in Seq(Command)
  BY <1>1, HeadTailProperties
<1>3. wire' \in Seq(Line) /\ gathered' \in Nat /\ spoiled' \in BOOLEAN /\ collecting' \in ListMode
  <2>1. CASE Answer
    <3>1. gathered' = gathered /\ spoiled' = spoiled
      BY <2>1 DEF Answer
    <3>2. CASE collecting' = Head(inbox).kind /\ Head(inbox).kind \in Lists /\ wire' = wire
      BY <1>1, <3>1, <3>2 DEF Lists, ListMode
    <3>3. CASE (\E end \in {"OK", "ACK"} : Reply(0, end)) /\ collecting' = collecting
      <4>1. wire' \in Seq(Line)
        BY <1>1, <3>3, ReplyTypes
      <4> QED BY <1>1, <3>1, <3>3, <4>1
    <3> QED BY <2>1, <3>2, <3>3 DEF Answer
  <2>2. CASE Collect
    <3>1. CASE /\ gathered' = gathered + 1 /\ UNCHANGED <<collecting, wire>>
               /\ spoiled' = (spoiled \/ Head(inbox).kind # "plain")
      <4>1. gathered' \in Nat
        BY <1>1, <3>1
      <4>2. spoiled' \in BOOLEAN
        BY <3>1
      <4> QED BY <1>1, <3>1, <4>1, <4>2
    <3>2. CASE /\ collecting' = "no" /\ gathered' = 0 /\ spoiled' = FALSE
               /\ \/ Reply(IF collecting = "listOk" THEN gathered ELSE 0, "OK")
                  \/ \E n \in 0..gathered : Reply(IF collecting = "listOk" THEN n ELSE 0, "ACK")
      <4>1. \E n \in Nat, end \in {"OK", "ACK"} : Reply(n, end)
        <5>1. CASE Reply(IF collecting = "listOk" THEN gathered ELSE 0, "OK")
          BY <1>1, <5>1
        <5>2. CASE \E n \in 0..gathered : Reply(IF collecting = "listOk" THEN n ELSE 0, "ACK")
          <6>1. PICK n \in 0..gathered : Reply(IF collecting = "listOk" THEN n ELSE 0, "ACK")
            BY <5>2
          <6>2. (IF collecting = "listOk" THEN n ELSE 0) \in Nat
            BY <1>1
          <6> QED BY <6>1, <6>2
        <5> QED BY <3>2, <5>1, <5>2
      <4>2. wire' \in Seq(Line)
        BY <1>1, <4>1, ReplyTypes
      <4> QED BY <3>2, <4>2 DEF ListMode
    <3> QED BY <2>2, <3>1, <3>2 DEF Collect
  <2> QED BY <2>1, <2>2 DEF Serve
<1> QED BY <1>1, <1>2, <1>3 DEF TypeInv, TypeOK, engine, caller

LEMMA TypeStep == TypeInv /\ [Next]_vars => TypeInv'
<1> SUFFICES ASSUME TypeInv, [Next]_vars PROVE TypeOK' /\ (at' = "send" => left' # 0)
  BY ReadyStep DEF TypeInv
<1>1. TypeOK /\ ReadyInv /\ (at = "send" => left # 0)
  BY DEF TypeInv
<1>2. CASE Start
  <2>1. PICK s \in Sections :
          \E n \in IF s \in Lists THEN 0..MaxItems ELSE {IF s = "double" THEN 2 ELSE 1} :
            section' = s /\ left' = n /\ at' = IF s \in Lists THEN "begin" ELSE "send"
    BY <1>2 DEF Start
  <2>2. section' \in SectionKind
    BY <2>1, SectionsAssumption
  <2>3. left' \in Nat /\ (at' = "send" => left' # 0)
    BY <2>1, BoundsAssumption
  <2>4. at' \in {"begin", "send"} /\ UNCHANGED <<engine, channel>>
    BY <1>2 DEF Start
  <2> QED BY <1>1, <2>2, <2>3, <2>4 DEF TypeOK, engine, channel, server
<1>3. CASE ListBegin
  <2>1. /\ at' \in {"end", "send"} /\ UNCHANGED <<section, left>>
        /\ at' = "send" => left' # 0
    BY <1>1, <1>3 DEF ListBegin
  <2>2. section \in {"list", "listOk"}
    BY <1>1, <1>3 DEF ListBegin, ReadyInv, Lists
  <2>3. CASE Execute(section, section) /\ listOks' = IF section = "listOk" THEN 0 ELSE listOks
    <3>1. section \in ListMode
      BY <2>2 DEF ListMode
    <3>2. listOks' \in Nat
      BY <1>1, <2>3 DEF TypeOK
    <3> QED BY <1>1, <2>1, <2>2, <2>3, <3>1, <3>2, ExecuteTypes DEF TypeOK
  <2>4. CASE /\ error' = "protocol"
             /\ UNCHANGED <<done, listMode, listOks, doneListOk, code, channel>>
    BY <1>1, <2>1, <2>4 DEF TypeOK, channel, server
  <2> QED BY <1>3, <2>3, <2>4 DEF ListBegin
<1>4. CASE Send
  <2>1. /\ Execute("plain", listMode) /\ left' = left - 1 /\ left # 0 /\ section' = section
        /\ at' = IF listMode = "no" THEN "read" ELSE IF left = 1 THEN "end" ELSE "send"
    BY <1>1, <1>4 DEF Send
  <2>2. left \in Nat /\ listMode \in ListMode
    BY <1>1 DEF TypeOK
  <2>3. left' \in Nat /\ (at' = "send" => left' # 0) /\ at' \in {"read", "end", "send"}
    BY <2>1, <2>2
  <2>4. listOks' \in Nat
    BY <1>1, <1>4 DEF Send, TypeOK
  <2> QED BY <1>1, <2>1, <2>2, <2>3, <2>4, ExecuteTypes DEF TypeOK
<1>5. CASE ListEnd
  <2>1. at' = "read" /\ UNCHANGED <<section, left>>
    BY <1>5 DEF ListEnd
  <2>2. CASE Execute("end", "no") /\ UNCHANGED listOks
    <3>1. "no" \in ListMode
      BY DEF ListMode
    <3> QED BY <1>1, <2>1, <2>2, <3>1, ExecuteTypes DEF TypeOK
  <2>3. CASE /\ error' = "protocol"
             /\ UNCHANGED <<done, listMode, listOks, doneListOk, code, channel>>
    BY <1>1, <2>1, <2>3 DEF TypeOK, channel, server
  <2> QED BY <1>5, <2>2, <2>3 DEF ListEnd
<1>6. CASE Read \/ Finish \/ ReadStatus
  <2>1. /\ \E d \in BOOLEAN : GetNext(d)
        /\ at \in {"read", "finish"} /\ at' \in {"read", "finish", "got"} /\ UNCHANGED <<section, left>>
    BY <1>1, <1>6 DEF Read, Finish, ReadStatus, TypeOK, caller
  <2> QED BY <1>1, <2>1, GetNextTypes DEF TypeOK
<1>7. CASE NextListOk \/ StopReading \/ Loaded \/ StatusGot
  <2>1. CASE StatusGot
    <3>1. /\ at' = "check" /\ error' \in {error, "protocol"}
          /\ UNCHANGED <<done, listMode, listOks, doneListOk, code, section, left, channel>>
      BY <2>1 DEF StatusGot
    <3> QED BY <1>1, <3>1 DEF TypeOK, channel, server
  <2>2. CASE NextListOk \/ StopReading \/ Loaded
    BY <1>1, <2>2 DEF NextListOk, StopReading, Loaded, TypeOK, engine, caller, channel, server
  <2> QED BY <1>7, <2>1, <2>2
<1>8. CASE Finished
  <2>1. UNCHANGED <<engine, section, left, channel>>
    BY <1>8 DEF Finished
  <2>2. at' \in {"send", "loaded", "idle", "check"} /\ (at' = "send" => left > 0)
    BY <1>8 DEF Finished
  <2>3. left \in Nat
    BY <1>1 DEF TypeOK
  <2>4. at' = "send" => left' # 0
    BY <2>1, <2>2, <2>3
  <2> QED BY <1>1, <2>1, <2>2, <2>4 DEF TypeOK, engine, channel, server
<1>9. CASE Reconnect
  BY <1>9, ReconnectTypes
<1>10. CASE Check
  <2>1. CASE /\ error' = "none" /\ at' = "idle"
             /\ UNCHANGED <<done, listMode, listOks, doneListOk, code, section, left, channel>>
    BY <1>1, <2>1 DEF TypeOK, channel, server
  <2> QED BY <1>9, <1>10, <2>1 DEF Check
<1>11. CASE Disconnect
  BY <1>9, <1>11 DEF Disconnect
<1>12. CASE Serve
  <2>1. UNCHANGED caller
    BY <1>12 DEF Serve
  <2> QED BY <1>1, <1>12, <2>1, ServeTypes DEF caller
<1>13. CASE ServerCloses
  <2>1. open' \in BOOLEAN
    BY <1>13 DEF ServerCloses
  <2>2. UNCHANGED <<done, listMode, listOks, doneListOk, error, code>>
    BY <1>13 DEF ServerCloses, engine
  <2>3. UNCHANGED <<section, at, left>>
    BY <1>13 DEF ServerCloses, caller
  <2>4. UNCHANGED <<sent, partial, inbox, collecting, gathered, spoiled, wire>>
    BY <1>13 DEF ServerCloses
  <2> QED BY <1>1, <2>1, <2>2, <2>3, <2>4 DEF TypeOK
<1>14. CASE UNCHANGED vars
  BY <1>1, <1>14 DEF vars, TypeOK, engine, caller, channel, server
<1> QED
  BY <1>2, <1>3, <1>4, <1>5, <1>6, <1>7, <1>8, <1>10, <1>11, <1>12, <1>13, <1>14
     DEF Next, Section

(* The counters of the engine (listOks) and of the callers never go below  *)
(* zero, and no path leaves the engine, a caller or the server in a state  *)
(* or a mode it does not know.                                             *)
THEOREM ConnectionTypes == Spec => []TypeOK
<1>1. TypeInv => TypeOK
  BY DEF TypeInv
<1>2. QED BY <1>1, TypeInit, TypeStep, PTL DEF Spec
(* mpd_executeCommand refuses commands in an engine that is not done, and  *)
(* puts them by in one that is in a list: whatever fails in it, and        *)
(* whatever the server sends, no section that calls mpd_finishCommand      *)
(* leaves the engine so, and one that does not (mpd_status_update,         *)
(* mpd_stats_update, the commit of a statistics search) only where a line  *)
(* without a colon, or a list_OK of an earlier list, may come.             *)
THEOREM EngineReady == Spec => []Ready
<1>1. TypeInv => Ready
  BY DEF TypeInv, ReadyInv, Ready
<1>2. QED BY <1>1, TypeInit, TypeStep, PTL DEF Spec

-----------------------------------------------------------------------------
(* Where each command is a section of its own.                             *)

LEMMA SingleTypedStep ==
  ASSUME Sections \subseteq {"single", "status"}
  PROVE  TypeInv /\ SingleInv /\ [Next]_vars => (TypeInv /\ SingleInv)'
<1>1. TypeInv /\ [Next]_vars => TypeInv'
  BY TypeStep
<1>2. TypeInv /\ SingleInv /\ [Next]_vars => SingleInv'
  BY SingleStep DEF TypeInv
<1> QED BY <1>1, <1>2

(* A caller that checks the error after each command (mpd_unlock_conn)     *)
(* never reads a line of an earlier reply as its own, however many         *)
(* commands are sent, whatever lines the replies hold and whatever is lost *)
(* or late.  Where mpd_finishCommand is left out and the reply was not     *)
(* read to its end, the rest is read next, before anything else is sent.   *)
THEOREM SingleInSync ==
  ASSUME Sections \subseteq {"single", "status"}
  PROVE  Spec => []InSync
<1>1. SingleInv => InSync
  <2> SUFFICES ASSUME SingleInv, ~done, wire # <<>> PROVE Head(wire).of = sent
    BY DEF InSync
  <2>1. Len(wire) \in Nat \ {0} /\ Head(wire) = wire[1]
    BY EmptySeq, HeadTailProperties DEF SingleInv
  <2>2. QED BY <2>1 DEF SingleInv
<1>2. TypeInv /\ SingleInv /\ [Next]_vars => (TypeInv /\ SingleInv)'
  BY SingleTypedStep
<1>3. Init => TypeInv /\ SingleInv
  BY TypeInit, SingleInit
<1> QED BY <1>1, <1>2, <1>3, PTL DEF Spec

(* A function that checks the error after its command reads one whole      *)
(* reply, the one to its command, or an error; an ACK keeps the connection *)
(* in step, and what comes after a timeout is never seen.  A function that *)
(* does not finish its command may stop at a line without a colon: then    *)
(* the next one sends nothing, is told so, and has the rest to read.       *)
THEOREM SingleImplementsRequest ==
  ASSUME Sections \subseteq {"single", "status"}
  PROVE  Spec => Implements
<1>1. TypeInv /\ SingleInv /\ [Next]_vars => [Abstract!Next]_(Abstract!vars)
  BY AbstractStep DEF TypeInv
<1>2. TypeInv /\ SingleInv /\ [Next]_vars => (TypeInv /\ SingleInv)'
  BY SingleTypedStep
<1>3. Init => TypeInv /\ SingleInv
  BY TypeInit, SingleInit
<1> QED BY <1>1, <1>2, <1>3, AbstractInit, PTL DEF Spec, Implements, Abstract!Spec

-----------------------------------------------------------------------------
(* Replies stay in step on a connection that loses nothing, in every kind  *)
(* of section.                                                             *)

(* An engine that is not done at the end of a section is one of a section  *)
(* that does not finish its command, and it has an error to be closed for. *)
Told == "status" \notin Sections \/ ~Silent

LEMMA ReliableInit == Init => ReliableInv
  BY DEF Init, Fresh, ReliableInv

LEMMA ReconnectReliable == Reconnect => ReliableInv'
  BY DEF Reconnect, Fresh, ReliableInv

(* mpd_executeCommand puts one command behind the others. *)
LEMMA ExecuteReliable ==
  ASSUME Lossy = FALSE, TypeInv, ReliableInv, done,
         NEW kind \in {"plain", "list", "listOk", "end"}, NEW m, Execute(kind, m)
  PROVE  /\ listMode' = m /\ sent' = sent + 1 /\ ~partial' /\ (done' <=> m # "no")
         /\ UNCHANGED <<wire, collecting, open>>
         /\ Len(inbox') = Len(inbox) + 1 /\ inbox' # <<>>
         /\ \A i \in 1..Len(inbox) : inbox'[i] = inbox[i]
         /\ inbox'[Len(inbox) + 1] = [id |-> sent + 1, kind |-> kind]
<1> DEFINE c == [id |-> sent + 1, kind |-> kind]
<1>1. ~partial /\ inbox \in Seq(Command) /\ sent \in Nat
  BY DEF ReliableInv, TypeInv, TypeOK
<1>2. c \in Command
  BY <1>1 DEF Command
<1>3. /\ listMode' = m /\ UNCHANGED <<wire, collecting, open>>
      /\ sent' = sent + 1 /\ partial' = FALSE /\ done' = (done /\ m # "no")
      /\ inbox' = Append(inbox, c)
  BY <1>1 DEF Execute, server
<1>4. /\ Append(inbox, c) \in Seq(Command) /\ Len(Append(inbox, c)) = Len(inbox) + 1
      /\ \A i \in 1..Len(inbox) : Append(inbox, c)[i] = inbox[i]
      /\ Append(inbox, c)[Len(inbox) + 1] = c
  <2> HIDE DEF c
  <2> QED BY <1>1, <1>2, AppendProperties
<1>5. Len(inbox) \in Nat
  BY <1>1
<1>6. inbox' # <<>>
  BY <1>3, <1>4, <1>5, EmptySeq
<1> QED BY <1>3, <1>4, <1>6

LEMMA ListBeginReliable ==
  ASSUME Lossy = FALSE, TypeInv, ReliableInv, ListBegin
  PROVE  ReliableInv'
<1>1. /\ done /\ listMode = "no" /\ section \in {"list", "listOk"} /\ at' \in {"send", "end"}
      /\ Execute(section, section)
  BY DEF TypeInv, ReadyInv, ListBegin, ReliableInv, Lists
<1>2. inbox = <<>> /\ wire = <<>> /\ collecting = "no"
  BY <1>1 DEF ReliableInv
<1>3. /\ listMode' = section /\ ~partial' /\ done'
      /\ UNCHANGED <<wire, collecting, open>>
      /\ Len(inbox') = Len(inbox) + 1 /\ inbox' # <<>>
      /\ inbox'[Len(inbox) + 1] = [id |-> sent + 1, kind |-> section]
  BY <1>1, ExecuteReliable
<1>4. Len(inbox') = 1 /\ inbox'[1].kind = section
  BY <1>2, <1>3, EmptySeq
<1>5. ListUnderWay'
  BY <1>1, <1>2, <1>3, <1>4 DEF ListUnderWay, Plain, Lists
<1>6. listMode' # "no" /\ open
  BY <1>1, <1>3 DEF ReliableInv
<1> QED BY <1>3, <1>5, <1>6 DEF ReliableInv

LEMMA SendReliable ==
  ASSUME Lossy = FALSE, TypeInv, ReliableInv, Send
  PROVE  ReliableInv'
<1>1. /\ at = "send" /\ done /\ Execute("plain", listMode) /\ open
      /\ at' = IF listMode = "no" THEN "read" ELSE IF left = 1 THEN "end" ELSE "send"
  BY DEF TypeInv, ReadyInv, Send, Waiting, ReliableInv
<1>2. /\ listMode' = listMode /\ sent' = sent + 1 /\ ~partial' /\ (done' <=> listMode # "no")
      /\ UNCHANGED <<wire, collecting, open>>
      /\ Len(inbox') = Len(inbox) + 1 /\ inbox' # <<>>
      /\ \A i \in 1..Len(inbox) : inbox'[i] = inbox[i]
      /\ inbox'[Len(inbox) + 1] = [id |-> sent + 1, kind |-> "plain"]
  BY <1>1, ExecuteReliable
<1>3. Len(inbox) \in Nat
  BY DEF TypeInv, TypeOK
<1>4. CASE listMode = "no"
  <2>1. inbox = <<>> /\ wire = <<>> /\ collecting = "no"
    BY <1>1, <1>4 DEF ReliableInv
  <2>2. Len(inbox') = 1 /\ inbox'[1] = [id |-> sent', kind |-> "plain"]
    BY <1>2, <2>1, EmptySeq
  <2>3. Unanswered'
    BY <1>2, <2>1, <2>2 DEF Unanswered
  <2> QED BY <1>1, <1>2, <1>4, <2>3 DEF ReliableInv
<1>5. CASE listMode # "no"
  <2>1. ListUnderWay
    BY <1>1, <1>5 DEF ReliableInv
  <2>2. ListUnderWay'
    <3>1. wire' = <<>> /\ collecting' = collecting
      BY <1>2, <2>1 DEF ListUnderWay
    <3>2. CASE collecting = "no"
      <4>1. inbox # <<>> /\ inbox[1].kind \in Lists /\ Plain(2, Len(inbox))
        BY <2>1, <3>2 DEF ListUnderWay
      <4>2. Len(inbox) # 0
        BY <4>1, EmptySeq DEF TypeInv, TypeOK
      <4>3. inbox'[1].kind \in Lists
        BY <1>2, <1>3, <4>1, <4>2
      <4>4. \A i \in 2..Len(inbox) + 1 : inbox'[i].kind = "plain"
        BY <1>2, <1>3, <4>1 DEF Plain
      <4> QED BY <1>2, <3>1, <3>2, <4>3, <4>4 DEF ListUnderWay, Plain
    <3>3. CASE collecting # "no"
      <4>1. Plain(1, Len(inbox))
        BY <2>1, <3>3 DEF ListUnderWay
      <4>2. \A i \in 1..Len(inbox) + 1 : inbox'[i].kind = "plain"
        BY <1>2, <1>3, <4>1 DEF Plain
      <4> QED BY <1>2, <3>1, <3>3, <4>2 DEF ListUnderWay, Plain
    <3> QED BY <3>2, <3>3
  <2> QED BY <1>1, <1>2, <1>5, <2>2 DEF ReliableInv
<1> QED BY <1>4, <1>5

LEMMA ListEndReliable ==
  ASSUME Lossy = FALSE, TypeInv, ReliableInv, ListEnd
  PROVE  ReliableInv'
<1>1. at = "end" /\ done /\ at' = "read" /\ open /\ ~partial
  BY DEF TypeInv, ReadyInv, ListEnd, Waiting, ReliableInv
<1>2. CASE listMode = "no"
  <2>1. UNCHANGED <<done, listMode, partial, open, inbox, wire, collecting>>
    BY <1>2 DEF ListEnd, channel, server
  <2> QED BY <1>1, <1>2, <2>1 DEF ReliableInv
<1>3. CASE listMode # "no"
  <2>1. Execute("end", "no")
    BY <1>3 DEF ListEnd
  <2>2. /\ sent' = sent + 1 /\ ~partial' /\ ~done'
        /\ UNCHANGED <<wire, collecting, open>>
        /\ Len(inbox') = Len(inbox) + 1 /\ inbox' # <<>>
        /\ \A i \in 1..Len(inbox) : inbox'[i] = inbox[i]
        /\ inbox'[Len(inbox) + 1] = [id |-> sent + 1, kind |-> "end"]
    BY <1>1, <2>1, ExecuteReliable
  <2>3. Len(inbox) \in Nat
    BY DEF TypeInv, TypeOK
  <2>4. ListUnderWay
    BY <1>1, <1>3 DEF ReliableInv
  <2>5. Unanswered'
    <3>1. /\ wire' = <<>> /\ collecting' = collecting /\ Len(inbox') - 1 = Len(inbox)
          /\ inbox'[Len(inbox')].id = sent' /\ inbox'[Len(inbox')].kind = "end"
      BY <2>2, <2>3, <2>4 DEF ListUnderWay
    <3>2. CASE collecting = "no"
      <4>1. inbox # <<>> /\ inbox[1].kind \in Lists /\ Plain(2, Len(inbox))
        BY <2>4, <3>2 DEF ListUnderWay
      <4>2. Len(inbox) # 0
        BY <4>1, EmptySeq DEF TypeInv, TypeOK
      <4>3. Len(inbox') > 1 /\ inbox'[1].kind \in Lists
        BY <2>2, <2>3, <4>1, <4>2
      <4>4. \A i \in 2..Len(inbox') - 1 : inbox'[i].kind = "plain"
        BY <2>2, <2>3, <3>1, <4>1 DEF Plain
      <4> QED BY <2>2, <3>1, <3>2, <4>3, <4>4 DEF Unanswered, Plain
    <3>3. CASE collecting # "no"
      <4>1. \A i \in 1..Len(inbox') - 1 : inbox'[i].kind = "plain"
        BY <2>2, <2>3, <2>4, <3>1, <3>3 DEF ListUnderWay, Plain
      <4> QED BY <2>2, <3>1, <3>3, <4>1 DEF Unanswered, Plain
    <3> QED BY <3>2, <3>3
  <2> QED BY <1>1, <2>1, <2>2, <2>5 DEF ReliableInv, Execute
<1> QED BY <1>2, <1>3

(* Without timeouts a line is read only of the one reply that is there,    *)
(* and its end is the last.                                                *)
LEMMA GetNextReliable ==
  ASSUME Lossy = FALSE, TypeInv, ReliableInv, ~done, NEW d \in BOOLEAN, GetNext(d),
         at' \in {"read", "got", "finish"}
  PROVE  ReliableInv'
<1>1. /\ wire # <<>> /\ Digest(Head(wire).text, d) /\ wire' = Tail(wire)
      /\ UNCHANGED <<listMode, sent, partial, inbox, collecting, open>>
      /\ open /\ ~partial
  BY DEF ReliableInv, GetNext, server
<1>2. Answered
  BY <1>1 DEF ReliableInv, Unanswered
<1>3. /\ wire \in Seq(Line) /\ Len(wire) \in Nat \ {0} /\ Head(wire) = wire[1]
      /\ Tail(wire) \in Seq(Line) /\ Len(Tail(wire)) = Len(wire) - 1
      /\ \A i \in 1..Len(Tail(wire)) : Tail(wire)[i] = wire[i + 1]
  BY <1>1, EmptySeq, HeadTailProperties DEF TypeInv, TypeOK
<1>4. listMode = "no" /\ (done' <=> Head(wire).text \in {"OK", "ACK"})
  BY <1>1, <1>3, DigestLine DEF ReliableInv
<1>5. CASE Len(wire) = 1
  <2>1. wire' = <<>>
    BY <1>1, <1>3, <1>5, EmptySeq
  <2>2. Head(wire).text \in {"OK", "ACK"}
    BY <1>2, <1>3, <1>5 DEF Answered
  <2>3. done'
    BY <1>4, <2>2
  <2> QED BY <1>1, <1>2, <1>4, <2>1, <2>3 DEF ReliableInv, Answered
<1>6. CASE Len(wire) # 1
  <2>1. Head(wire).text \notin {"OK", "ACK"}
    <3>1. 1 \in 1..Len(wire) /\ 1 # Len(wire)
      BY <1>3, <1>6
    <3> QED BY <1>2, <1>3, <3>1 DEF Answered
  <2>2. ~done'
    BY <1>4, <2>1
  <2>3. wire' # <<>>
    <3>1. Len(wire') # 0
      BY <1>1, <1>3, <1>6
    <3> QED BY <1>1, <1>3, <3>1, EmptySeq
  <2>4. \A i \in 1..Len(wire') :
          wire'[i].of = sent /\ (wire'[i].text \in {"OK", "ACK"} <=> i = Len(wire'))
    <3> TAKE i \in 1..Len(wire')
    <3>1. i + 1 \in 1..Len(wire) /\ wire'[i] = wire[i + 1] /\ (i = Len(wire') <=> i + 1 = Len(wire))
      BY <1>1, <1>3
    <3> QED BY <1>2, <3>1 DEF Answered
  <2>5. Answered'
    BY <1>1, <1>2, <2>3, <2>4 DEF Answered
  <2> QED BY <1>1, <1>4, <2>2, <2>5 DEF ReliableInv
<1> QED BY <1>5, <1>6

(* A reply ends with its one end. *)
LEMMA ReplyAnswered ==
  ASSUME TypeInv, inbox # <<>>, Head(inbox).id = sent, wire = <<>>,
         NEW n \in Nat, NEW end \in {"OK", "ACK"}, Reply(n, end),
         sent' = sent, inbox' = <<>>, collecting' = "no"
  PROVE  Answered'
<1>1. /\ wire' \in Seq(Line) /\ Len(wire') \in Nat \ {0}
      /\ \A i \in 1..Len(wire') : wire'[i].of = sent
      /\ \A i \in 1..Len(wire') - 1 :
           wire'[i].text \in Elements \/ (n # 0 /\ wire'[i].text = "list_OK")
      /\ wire'[Len(wire')].text = end
  <2>1. sent \in Nat
    BY DEF TypeInv, TypeOK
  <2> QED BY <2>1, ReplyShape
<1>2. "OK" \notin Elements /\ "ACK" \notin Elements
  BY ElementsAssumption DEF Malformed
<1>3. \A i \in 1..Len(wire') : i \in 1..Len(wire') - 1 \/ i = Len(wire')
  BY <1>1
<1>4. \A i \in 1..Len(wire') : wire'[i].text \in {"OK", "ACK"} <=> i = Len(wire')
  BY <1>1, <1>2, <1>3
<1>5. wire' # <<>>
  BY <1>1, EmptySeq
<1> QED BY <1>1, <1>4, <1>5 DEF Answered

LEMMA ServeReliable == TypeInv /\ ReliableInv /\ Serve => ReliableInv'
<1> SUFFICES ASSUME TypeInv, ReliableInv, Serve PROVE ReliableInv'
  OBVIOUS
<1>1. /\ inbox # <<>> /\ inbox' = Tail(inbox)
      /\ UNCHANGED <<done, listMode, at, sent, partial, open>>
  BY DEF Serve, engine, caller
<1>2. /\ inbox \in Seq(Command) /\ Len(inbox) \in Nat \ {0} /\ Head(inbox) = inbox[1]
      /\ Tail(inbox) \in Seq(Command) /\ Len(Tail(inbox)) = Len(inbox) - 1
      /\ \A i \in 1..Len(Tail(inbox)) : Tail(inbox)[i] = inbox[i + 1]
  BY <1>1, EmptySeq, HeadTailProperties DEF TypeInv, TypeOK
<1>3. CASE done
  <2>1. listMode # "no" /\ ListUnderWay
    BY <1>1, <1>3 DEF ReliableInv
  <2>2. CASE collecting = "no"
    <3>1. inbox[1].kind \in Lists /\ Plain(2, Len(inbox)) /\ wire = <<>>
      BY <2>1, <2>2 DEF ListUnderWay
    <3>2. collecting' = Head(inbox).kind /\ wire' = wire
      BY <1>2, <2>2, <3>1 DEF Serve, Answer, Collect
    <3>3. \A i \in 1..Len(inbox') : inbox'[i].kind = "plain"
      BY <1>1, <1>2, <3>1 DEF Plain
    <3>4. ListUnderWay'
      BY <1>2, <3>1, <3>2, <3>3 DEF ListUnderWay, Plain, Lists
    <3> QED BY <1>1, <1>3, <2>1, <3>4 DEF ReliableInv
  <2>3. CASE collecting # "no"
    <3>1. Plain(1, Len(inbox)) /\ wire = <<>>
      BY <2>1, <2>3 DEF ListUnderWay
    <3>2. Head(inbox).kind = "plain"
      BY <1>2, <3>1 DEF Plain
    <3>3. collecting' = collecting /\ wire' = wire
      BY <2>3, <3>2 DEF Serve, Answer, Collect
    <3>4. \A i \in 1..Len(inbox') : inbox'[i].kind = "plain"
      BY <1>1, <1>2, <3>1 DEF Plain
    <3>5. ListUnderWay'
      BY <2>3, <3>1, <3>3, <3>4 DEF ListUnderWay, Plain
    <3> QED BY <1>1, <1>3, <2>1, <3>5 DEF ReliableInv
  <2> QED BY <2>2, <2>3
<1>4. CASE ~done
  <2>1. Unanswered /\ wire = <<>>
    BY <1>1, <1>4 DEF ReliableInv, Answered, Unanswered
  <2>2. CASE Len(inbox) = 1
    <3>1. inbox' = <<>>
      BY <1>1, <1>2, <2>2, EmptySeq
    <3>2. /\ Head(inbox).id = sent
          /\ \/ collecting = "no" /\ Head(inbox).kind = "plain"
             \/ collecting # "no" /\ Head(inbox).kind = "end"
      BY <1>2, <2>1, <2>2 DEF Unanswered
    <3>3. collecting' = "no" /\ \E n \in Nat, end \in {"OK", "ACK"} : Reply(n, end)
      <4>1. CASE collecting = "no" /\ Head(inbox).kind = "plain"
        BY <4>1 DEF Serve, Answer, Collect, Lists
      <4>2. CASE collecting # "no" /\ Head(inbox).kind = "end"
        <5>1. /\ collecting' = "no"
              /\ \/ Reply(IF collecting = "listOk" THEN gathered ELSE 0, "OK")
                 \/ \E n \in 0..gathered : Reply(IF collecting = "listOk" THEN n ELSE 0, "ACK")
          BY <4>2 DEF Serve, Answer, Collect
        <5>2. gathered \in Nat
          BY DEF TypeInv, TypeOK
        <5>3. CASE Reply(IF collecting = "listOk" THEN gathered ELSE 0, "OK")
          <6>1. (IF collecting = "listOk" THEN gathered ELSE 0) \in Nat
            BY <5>2
          <6> QED BY <5>1, <5>3, <6>1
        <5>4. CASE \E n \in 0..gathered : Reply(IF collecting = "listOk" THEN n ELSE 0, "ACK")
          <6>1. PICK n \in 0..gathered : Reply(IF collecting = "listOk" THEN n ELSE 0, "ACK")
            BY <5>4
          <6>2. (IF collecting = "listOk" THEN n ELSE 0) \in Nat
            BY <5>2
          <6> QED BY <5>1, <6>1, <6>2
        <5> QED BY <5>1, <5>3, <5>4
      <4> QED BY <3>2, <4>1, <4>2
    <3>4. Answered'
      BY <1>1, <2>1, <3>1, <3>2, <3>3, ReplyAnswered
    <3> QED BY <1>1, <1>4, <3>4 DEF ReliableInv
  <2>3. CASE Len(inbox) # 1
    <3> DEFINE n == Len(inbox)
    <3>1. /\ inbox[n].id = sent /\ inbox[n].kind = "end"
          /\ IF collecting = "no" THEN inbox[1].kind \in Lists /\ Plain(2, n - 1)
             ELSE Plain(1, n - 1)
      BY <2>1, <2>3 DEF Unanswered
    <3>2. collecting' # "no" /\ wire' = wire
      <4>1. CASE collecting = "no"
        BY <1>2, <3>1, <4>1 DEF Serve, Answer, Collect, Lists
      <4>2. CASE collecting # "no"
        <5>1. Head(inbox).kind = "plain"
          BY <1>2, <2>3, <3>1, <4>2 DEF Plain
        <5> QED BY <4>2, <5>1 DEF Serve, Answer, Collect
      <4> QED BY <4>1, <4>2
    <3>3. Len(inbox') = n - 1 /\ inbox' # <<>> /\ inbox'[n - 1] = inbox[n]
      <4>1. Len(inbox') = n - 1 /\ n - 1 \in 1..Len(inbox') /\ n - 1 + 1 = n
        BY <1>1, <1>2, <2>3
      <4>2. inbox'[n - 1] = inbox[n]
        BY <1>1, <1>2, <4>1
      <4>3. inbox' # <<>>
        <5>1. Len(inbox') # 0 /\ inbox' \in Seq(Command)
          BY <1>1, <1>2, <4>1
        <5> QED BY <5>1, EmptySeq
      <4> QED BY <4>1, <4>2, <4>3
    <3>4. \A i \in 1..n - 2 : inbox'[i].kind = "plain"
      <4> TAKE i \in 1..n - 2
      <4>1. inbox'[i] = inbox[i + 1] /\ i + 1 \in 2..n - 1
        BY <1>1, <1>2
      <4>2. inbox[i + 1].kind = "plain"
        BY <1>2, <3>1, <4>1 DEF Plain
      <4> QED BY <4>1, <4>2
    <3>5. Unanswered'
      <4>1. Len(inbox') - 1 = n - 2
        BY <1>2, <3>3
      <4> QED BY <1>1, <2>1, <3>1, <3>2, <3>3, <3>4, <4>1 DEF Unanswered, Plain
    <3> QED BY <1>1, <1>4, <3>5 DEF ReliableInv
  <2> QED BY <2>2, <2>3
<1> QED BY <1>3, <1>4

LEMMA ReliableStep ==
  ASSUME Lossy = FALSE, Told, TypeInv, ReliableInv, [Next]_vars
  PROVE  ReliableInv'
<1>1. /\ at = "idle" => done
      /\ at \in {"got", "check"} /\ ~done => error \notin {"none", "ack"}
  BY DEF Told, TypeInv, ReadyInv
<1>2. CASE Start
  <2>1. /\ at = "idle" /\ at' \in {"begin", "send"} /\ listMode = "no"
        /\ UNCHANGED <<done, listMode, sent, partial, inbox, collecting, open, wire>>
    BY <1>2 DEF Start, engine, channel, server, TypeInv, ReadyInv
  <2> QED BY <1>1, <2>1 DEF ReliableInv
<1>3. CASE ListBegin
  BY <1>3, ListBeginReliable
<1>4. CASE Send
  BY <1>4, SendReliable
<1>5. CASE ListEnd
  BY <1>5, ListEndReliable
<1>6. CASE Read \/ Finish \/ ReadStatus
  <2>1. ~done /\ (\E d \in BOOLEAN : GetNext(d)) /\ at' \in {"read", "got", "finish"}
    BY <1>6 DEF Read, Finish, ReadStatus, caller, TypeInv, TypeOK
  <2> QED BY <2>1, GetNextReliable
<1>7. CASE NextListOk \/ StopReading \/ Finished \/ Loaded \/ StatusGot
  <2>1. /\ UNCHANGED <<done, listMode, sent, partial, inbox, collecting, open, wire>>
        /\ done \/ at' \in {"read", "finish", "loaded", "check"}
    BY <1>7 DEF NextListOk, StopReading, Finished, Loaded, StatusGot, engine, caller, channel, server
  <2> QED BY <2>1 DEF ReliableInv, Unanswered, Answered, ListUnderWay, Plain
<1>8. CASE Check
  <2>1. CASE Reconnect
    BY <2>1, ReconnectReliable
  <2>2. CASE at = "check" /\ error \in {"none", "ack"} /\ UNCHANGED <<done, listMode, channel>>
    <3>1. done /\ UNCHANGED <<sent, partial, inbox, collecting, open, wire>>
      BY <1>1, <2>2 DEF channel, server
    <3>2. listMode = "no"
      BY <2>2 DEF TypeInv, ReadyInv
    <3> QED BY <2>2, <3>1, <3>2 DEF ReliableInv
  <2> QED BY <1>8, <2>1, <2>2 DEF Check
<1>9. CASE Disconnect
  BY <1>9, ReconnectReliable DEF Disconnect
<1>10. CASE Serve
  BY <1>10, ServeReliable
<1>11. CASE ServerCloses
  BY <1>11 DEF ServerCloses
<1>12. CASE UNCHANGED vars
  <2>1. UNCHANGED <<done, listMode, at, sent, partial, inbox, collecting, open, wire>>
    BY <1>12 DEF vars, engine, caller, channel, server
  <2> QED BY <2>1 DEF ReliableInv, Unanswered, Answered, ListUnderWay, Plain
<1> QED
  BY <1>2, <1>3, <1>4, <1>5, <1>6, <1>7, <1>8, <1>9, <1>10, <1>11, <1>12 DEF Next, Section

(* Where nothing is lost or late, a caller never reads a line of another   *)
(* reply than that to its last command, whatever its kind: two commands in *)
(* a section, no check, a command list or an empty one, a server that      *)
(* refuses or sends what cannot be understood; only next to a section that *)
(* leaves mpd_finishCommand out must there be no line without a colon and  *)
(* no list_OK interface.  What connection_desync shows takes a timeout.    *)
THEOREM ReliableInSync ==
  ASSUME Lossy = FALSE, "status" \notin Sections \/ ~Silent
  PROVE  Spec => []InSync
<1>1. TypeInv /\ ReliableInv => InSync
  <2> SUFFICES ASSUME TypeInv, ReliableInv, ~done, wire # <<>> PROVE Head(wire).of = sent
    BY DEF InSync
  <2>1. Answered
    BY DEF ReliableInv, Unanswered
  <2>2. Len(wire) \in Nat \ {0} /\ Head(wire) = wire[1]
    BY EmptySeq, HeadTailProperties DEF TypeInv, TypeOK
  <2> QED BY <2>1, <2>2 DEF Answered
<1>2. TypeInv /\ ReliableInv /\ [Next]_vars => (TypeInv /\ ReliableInv)'
  BY TypeStep, ReliableStep DEF Told
<1>3. Init => TypeInv /\ ReliableInv
  BY TypeInit, ReliableInit
<1> QED BY <1>1, <1>2, <1>3, PTL DEF Spec
=============================================================================
